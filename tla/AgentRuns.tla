------------------------------ MODULE AgentRuns ------------------------------
(***************************************************************************)
(* The managed agent runs of the AI service (crates/focaldesk-ai): their   *)
(* registration and eviction, the task that executes each of them, the     *)
(* one-shot confirmation of the mutation a run may propose, cancellation,  *)
(* capability leases, the SQLite checkpoints and the daemon's restart.     *)
(*                                                                         *)
(* Every step is what one thread does between two acquisitions of the      *)
(* service's mutexes, so that calls arriving on the IPC server's threads   *)
(* interleave with the run's own task as they do in the daemon.            *)
(***************************************************************************)
EXTENDS Naturals, FiniteSets

CONSTANTS
  Runs,         \* run ids; each names at most one registration
  Permits,      \* permits of the service's `concurrency` semaphore
  MaxRetained,  \* MAX_RETAINED_AGENT_RUNS
  MaxPending,   \* MAX_PENDING_AGENT_ACTIONS
  MaxLeases,    \* the bound on live capability leases
  LeaseTicks,   \* lifetime of a lease, from registration
  RunTicks,     \* request_timeout, from the moment the run is Running
  PlanTicks     \* AGENT_ACTION_TTL, from the moment the plan is stored

ASSUME RunsFinite == IsFiniteSet(Runs)
ASSUME BoundsNat ==
  /\ Permits \in Nat \ {0} /\ MaxRetained \in Nat \ {0}
  /\ MaxPending \in Nat /\ MaxLeases \in Nat \ {0}
  /\ RunTicks \in Nat \ {0} /\ PlanTicks \in Nat \ {0}
\* expires_at_unix is the smaller of the run's timeout and policy.lease_seconds
ASSUME LeaseWithinRun == LeaseTicks \in Nat \ {0} /\ LeaseTicks <= RunTicks

VARIABLES
  agent_runs,            \* the state of each record in memory, or Absent
  agent_requests,        \* runs whose retry request is registered
  born,                  \* rank of each run by (created_at_unix, run_id)
  store,                 \* the state of each row of agent-runs.db, or Absent
  agent_cancellations,   \* runs with a registered cancellation sender
  cancel_sent,           \* runs whose sender was told TRUE
  pending_agent_actions, \* runs whose proposed action waits for an answer
  lease_left,            \* ticks left on the run's lease; 0: unusable
  plan_left,             \* ticks left on the run's pending action
  run_left,              \* ticks left before the execution times out
  task,                  \* where each run's execute_agent_run is
  confirm,               \* where the confirm_agent_action of a run's plan is
  cancel,                \* where the cancel_agent_run of an idle run is
  unsaved,               \* status clones taken under the lock, not yet saved
  executed,              \* history: mutations executed for each run
  authority,             \* history: the lease when the user said yes
  recovered              \* history: what the last recovery made of the run

memory    == <<agent_runs, agent_requests, born>>
timers    == <<lease_left, plan_left, run_left>>
signals   == <<agent_cancellations, cancel_sent>>
history   == <<executed, authority, recovered>>
vars == <<agent_runs, agent_requests, born, store, agent_cancellations, cancel_sent,
          pending_agent_actions, lease_left, plan_left, run_left, task,
          confirm, cancel, unsaved, executed, authority, recovered>>

-----------------------------------------------------------------------------
Absent   == "absent"
Terminal == {"Completed", "Failed", "Cancelled"}
Active   == {"WaitingForPermission", "Queued", "Running", "AwaitingConfirmation"}
AgentRunState == Active \cup Terminal

\* The threads that update a run: its task, a confirm call, a cancel call.
Actor == {"task", "confirm", "cancel"}

\* The status clone an update leaves to be saved. `event` says that
\* record_agent_event follows, which clones and saves the record once more.
NoClone == [state |-> Absent, event |-> FALSE]
Clone   == [state : AgentRunState \cup {Absent}, event : BOOLEAN]

TaskStep    == {"new", "reserved", "prompt", "queued", "running", "leaving",
                "ending", "done"}
ConfirmStep == {"idle", "expired", "denied", "prompt", "approved", "authorized",
                "executed", "closing"}
CancelStep  == {"idle", "seen", "dropped", "closing"}

Init ==
  /\ agent_runs = [r \in Runs |-> Absent]
  /\ agent_requests = {}
  /\ born = [r \in Runs |-> 0]
  /\ store = [r \in Runs |-> Absent]
  /\ agent_cancellations = {} /\ cancel_sent = {}
  /\ pending_agent_actions = {}
  /\ lease_left = [r \in Runs |-> 0]
  /\ plan_left = [r \in Runs |-> 0]
  /\ run_left = [r \in Runs |-> 0]
  /\ task = [r \in Runs |-> "new"]
  /\ confirm = [r \in Runs |-> "idle"]
  /\ cancel = [r \in Runs |-> "idle"]
  /\ unsaved = [r \in Runs |-> [a \in Actor |-> NoClone]]
  /\ executed = [r \in Runs |-> 0]
  /\ authority = [r \in Runs |-> "none"]
  /\ recovered = [r \in Runs |-> "no"]

-----------------------------------------------------------------------------
(* Updates and checkpoints *)

Idle(a, r) == unsaved[r][a] = NoClone

\* update_agent_run: change the record under the lock and keep a clone to
\* save; an evicted run has no record, and the caller returns the error.
UpdateAgentRun(a, r, s, event) ==
  IF agent_runs[r] = Absent
    THEN UNCHANGED <<agent_runs, unsaved>>
    ELSE /\ agent_runs' = [agent_runs EXCEPT ![r] = s]
         /\ unsaved' = [unsaved EXCEPT ![r][a] = [state |-> s, event |-> event]]

\* record_agent_event after a save: a fresh clone of the record as it is now.
EventClone(a, r) ==
  IF unsaved[r][a].event /\ agent_runs[r] # Absent
    THEN [state |-> agent_runs[r], event |-> FALSE]
    ELSE NoClone

\* AgentRunStore::save of the pending clone. Without the retry request nothing
\* is written, and the error ends the caller before its event.
Save(a, r) ==
  /\ ~Idle(a, r)
  /\ IF r \in agent_requests
       THEN /\ store' = [store EXCEPT ![r] = unsaved[r][a].state]
            /\ unsaved' = [unsaved EXCEPT ![r][a] = EventClone(a, r)]
       ELSE /\ unsaved' = [unsaved EXCEPT ![r][a] = NoClone]
            /\ UNCHANGED store
  /\ UNCHANGED <<memory, signals, pending_agent_actions, timers, task, confirm,
                 cancel, history>>

-----------------------------------------------------------------------------
(* Registration: register_agent_run and insert_agent_run *)

Retained     == {r \in Runs : agent_runs[r] # Absent}
TerminalRuns == {r \in Runs : agent_runs[r] \in Terminal}
LiveLeases   == {r \in Runs : lease_left[r] > 0}

\* Records to evict before one more fits: runs.len() >= MAX_RETAINED_AGENT_RUNS
Excess == IF Cardinality(Retained) >= MaxRetained
            THEN Cardinality(Retained) - MaxRetained + 1
            ELSE 0

Oldest(S, n) == {r \in S : Cardinality({x \in S : born[x] < born[r]}) < n}
Newest(S, n) == {r \in S : Cardinality({x \in S : born[x] > born[r]}) < n}

\* The lease is granted, then room is made under the lock of agent_runs.
Reserve(r) ==
  /\ task[r] = "new"
  /\ Cardinality(LiveLeases) < MaxLeases
  /\ Excess <= Cardinality(TerminalRuns)
  /\ lease_left' = [lease_left EXCEPT ![r] = LeaseTicks]
  /\ born' = [born EXCEPT ![r] = Cardinality({x \in Runs : task[x] # "new"}) + 1]
  /\ LET evicted == Oldest(TerminalRuns, Excess) IN
       /\ agent_runs' = [x \in Runs |-> IF x \in evicted THEN Absent ELSE agent_runs[x]]
       /\ agent_requests' = agent_requests \ evicted
       /\ store' = [x \in Runs |-> IF x \in evicted THEN Absent ELSE store[x]]
  /\ task' = [task EXCEPT ![r] = "reserved"]
  /\ UNCHANGED <<signals, pending_agent_actions, plan_left, run_left, confirm,
                 cancel, unsaved, history>>

\* Too few terminal records: those already removed from memory stay in the
\* store and in the request registry, the lease stays until it expires.
ReserveFails(r) ==
  /\ task[r] = "new"
  /\ Cardinality(LiveLeases) < MaxLeases
  /\ Cardinality(TerminalRuns) < Excess
  /\ lease_left' = [lease_left EXCEPT ![r] = LeaseTicks]
  /\ agent_runs' = [x \in Runs |-> IF x \in TerminalRuns THEN Absent ELSE agent_runs[x]]
  /\ task' = [task EXCEPT ![r] = "done"]
  /\ UNCHANGED <<agent_requests, born, store, signals, pending_agent_actions,
                 plan_left, run_left, confirm, cancel, unsaved, history>>

\* The room was made under a lock since released; the record is saved, inserted
\* and given its cancellation sender.
Insert(r) ==
  /\ task[r] = "reserved"
  /\ store' = [store EXCEPT ![r] = "WaitingForPermission"]
  /\ agent_requests' = agent_requests \cup {r}
  /\ agent_runs' = [agent_runs EXCEPT ![r] = "WaitingForPermission"]
  /\ agent_cancellations' = agent_cancellations \cup {r}
  /\ task' = [task EXCEPT ![r] = "prompt"]
  /\ UNCHANGED <<born, cancel_sent, pending_agent_actions, timers, confirm, cancel,
                 unsaved, history>>

-----------------------------------------------------------------------------
(* The run's task: execute_agent_run *)

\* The task changes the record to s and moves to step next.
TaskUpdate(r, s, event, next) ==
  /\ UpdateAgentRun("task", r, s, event)
  /\ task' = [task EXCEPT ![r] = next]
  /\ UNCHANGED <<agent_requests, born, store, signals, confirm, cancel, history>>

TaskAt(r, step) == task[r] = step /\ Idle("task", r)

PermissionDenied(r) ==
  /\ TaskAt(r, "prompt")
  /\ TaskUpdate(r, "Failed", TRUE, "ending")
  /\ UNCHANGED <<pending_agent_actions, timers>>

\* Mutant: the cancellation is not looked at after the prompt.
GrantedWithoutCheck(r) ==
  /\ TaskAt(r, "prompt")
  /\ TaskUpdate(r, "Queued", TRUE, "queued")
  /\ UNCHANGED <<pending_agent_actions, timers>>

\* A cancellation requested during the prompt is applied when it returns.
PermissionGranted(r) ==
  /\ TaskAt(r, "prompt")
  /\ IF r \in cancel_sent
       THEN TaskUpdate(r, "Cancelled", TRUE, "ending")
       ELSE TaskUpdate(r, "Queued", TRUE, "queued")
  /\ UNCHANGED <<pending_agent_actions, timers>>

\* The cancellation branch of the two select!s: waiting for a permit, executing.
ObserveCancel(r) ==
  /\ r \in cancel_sent
  /\ \/ TaskAt(r, "queued") /\ TaskUpdate(r, "Cancelled", TRUE, "ending")
     \/ TaskAt(r, "running") /\ TaskUpdate(r, "Cancelled", TRUE, "leaving")
  /\ run_left' = [run_left EXCEPT ![r] = 0]
  /\ UNCHANGED <<pending_agent_actions, lease_left, plan_left>>

\* Mutant: the permit is tied to the state of the record.
RunningRecords == {r \in Runs : agent_runs[r] = "Running"}

\* A permit is a local of execute_agent_run: it is returned when the function
\* returns, after the last save, and not when the record leaves Running.
PermitHolders == {r \in Runs : task[r] \in {"running", "leaving"}}

Acquire(r) ==
  /\ TaskAt(r, "queued")
  /\ Cardinality(PermitHolders) < Permits
  /\ TaskUpdate(r, "Running", FALSE, "running")
  /\ run_left' = [run_left EXCEPT ![r] = RunTicks]
  /\ UNCHANGED <<pending_agent_actions, lease_left, plan_left>>

\* The execution ends by itself: with an error, or with a plain answer.
Finish(r) ==
  /\ TaskAt(r, "running")
  /\ \E s \in {"Failed", "Completed"} : TaskUpdate(r, s, TRUE, "leaving")
  /\ run_left' = [run_left EXCEPT ![r] = 0]
  /\ UNCHANGED <<pending_agent_actions, lease_left, plan_left>>

\* plans.retain(expires_at > now), before a plan is stored
UnexpiredPlans == {r \in pending_agent_actions : plan_left[r] > 0}

\* The execution ends with a mutation to confirm. The run learns the plan's id
\* with the same update that makes it AwaitingConfirmation.
Propose(r) ==
  /\ TaskAt(r, "running")
  /\ IF Cardinality(UnexpiredPlans) >= MaxPending
       THEN /\ TaskUpdate(r, "Failed", TRUE, "leaving")
            /\ pending_agent_actions' = UnexpiredPlans
            /\ UNCHANGED plan_left
       ELSE /\ TaskUpdate(r, "AwaitingConfirmation", TRUE, "leaving")
            /\ pending_agent_actions' = UnexpiredPlans \cup {r}
            /\ plan_left' = [plan_left EXCEPT ![r] = PlanTicks]
  /\ run_left' = [run_left EXCEPT ![r] = 0]
  /\ UNCHANGED lease_left

\* AgentCancellationGuard::drop, with the channel the sender belonged to.
DropSender(r) ==
  /\ agent_cancellations' = agent_cancellations \ {r}
  /\ cancel_sent' = cancel_sent \ {r}

\* The `?` on the elapsed timeout leaves execute_agent_run at once: the guard
\* removes the sender, the permit is returned, and the record is not touched.
TimeOut(r) ==
  /\ TaskAt(r, "running")
  /\ run_left[r] = 0
  /\ task' = [task EXCEPT ![r] = "done"]
  /\ DropSender(r)
  /\ UNCHANGED <<memory, store, pending_agent_actions, timers, confirm, cancel,
                 unsaved, history>>

\* execute_agent_run returns: AgentCancellationGuard is dropped.
Return(r) ==
  /\ TaskAt(r, "ending") \/ TaskAt(r, "leaving")
  /\ task' = [task EXCEPT ![r] = "done"]
  /\ DropSender(r)
  /\ UNCHANGED <<memory, store, pending_agent_actions, timers, confirm, cancel,
                 unsaved, history>>

-----------------------------------------------------------------------------
(* confirm_agent_action *)

ConfirmAt(r, step) == confirm[r] = step /\ Idle("confirm", r)

\* The confirm call closes the run in state s.
ConfirmUpdate(r, s) ==
  /\ UpdateAgentRun("confirm", r, s, TRUE)
  /\ confirm' = [confirm EXCEPT ![r] = "closing"]
  /\ UNCHANGED <<agent_requests, born, store, signals, pending_agent_actions,
                 timers, task, cancel>>

ConfirmMove(r, step) ==
  /\ confirm' = [confirm EXCEPT ![r] = step]
  /\ UNCHANGED <<memory, store, signals, lease_left, run_left, task, cancel, unsaved>>

\* Mutant: the plan is read (plans.get) and not removed.
ClaimKeepsPlan(r) ==
  /\ ConfirmAt(r, "idle")
  /\ r \in pending_agent_actions
  /\ \/ plan_left[r] = 0 /\ ConfirmMove(r, "expired")
     \/ plan_left[r] > 0 /\ \E answer \in {"denied", "prompt"} : ConfirmMove(r, answer)
  /\ UNCHANGED <<pending_agent_actions, plan_left, history>>

\* plans.remove(plan_id): whoever removes the plan owns its only answer.
ClaimPlan(r) ==
  /\ ConfirmAt(r, "idle")
  /\ r \in pending_agent_actions
  /\ pending_agent_actions' = pending_agent_actions \ {r}
  /\ \/ plan_left[r] = 0 /\ ConfirmMove(r, "expired")
     \/ plan_left[r] > 0 /\ \E answer \in {"denied", "prompt"} : ConfirmMove(r, answer)
  /\ plan_left' = [plan_left EXCEPT ![r] = 0]
  /\ UNCHANGED history

PlanExpired(r) == ConfirmAt(r, "expired") /\ ConfirmUpdate(r, "Failed") /\ UNCHANGED history
PlanDenied(r)  == ConfirmAt(r, "denied") /\ ConfirmUpdate(r, "Completed") /\ UNCHANGED history

\* confirm_ai_action: the native prompt is refused, unavailable or ineligible.
PromptRefused(r) ==
  /\ ConfirmAt(r, "prompt")
  /\ ConfirmUpdate(r, "Failed")
  /\ UNCHANGED history

LeaseLive(r) == lease_left[r] > 0

PromptApproved(r) ==
  /\ ConfirmAt(r, "prompt")
  /\ ConfirmMove(r, "approved")
  /\ authority' = [authority EXCEPT ![r] = IF LeaseLive(r) THEN "live" ELSE "dead"]
  /\ UNCHANGED <<pending_agent_actions, plan_left, executed, recovered>>

\* Mutant: the confirmed call goes to the inner executor without authorize.
AuthorizeUnchecked(r) ==
  /\ ConfirmAt(r, "approved")
  /\ ConfirmMove(r, "authorized")
  /\ UNCHANGED <<pending_agent_actions, plan_left, history>>

\* Mutant: a plan refused for its lease is put back, to be confirmed again.
AuthorizePutsBack(r) ==
  /\ ConfirmAt(r, "approved")
  /\ IF LeaseLive(r)
       THEN ConfirmMove(r, "authorized") /\ UNCHANGED <<pending_agent_actions, plan_left>>
       ELSE /\ ConfirmMove(r, "idle")
            /\ pending_agent_actions' = pending_agent_actions \cup {r}
            /\ plan_left' = [plan_left EXCEPT ![r] = PlanTicks]
  /\ UNCHANGED history

\* CapabilityExecutor::authorize reads the lease before the tool is called.
Authorize(r) ==
  /\ ConfirmAt(r, "approved")
  /\ IF LeaseLive(r)
       THEN ConfirmMove(r, "authorized") /\ UNCHANGED <<pending_agent_actions, plan_left>>
       ELSE ConfirmUpdate(r, "Failed")
  /\ UNCHANGED history

\* The inner executor runs the mutation...
ExecuteConfirmed(r) ==
  /\ ConfirmAt(r, "authorized")
  /\ ConfirmMove(r, "executed")
  /\ executed' = [executed EXCEPT ![r] = @ + 1]
  /\ UNCHANGED <<pending_agent_actions, plan_left, authority, recovered>>

\* ... or reports an error.
ExecuteFails(r) == ConfirmAt(r, "authorized") /\ ConfirmUpdate(r, "Failed") /\ UNCHANGED history

RecordExecuted(r) == ConfirmAt(r, "executed") /\ ConfirmUpdate(r, "Completed") /\ UNCHANGED history

ConfirmReturn(r) ==
  /\ ConfirmAt(r, "closing")
  /\ ConfirmMove(r, "idle")
  /\ UNCHANGED <<pending_agent_actions, plan_left, history>>

-----------------------------------------------------------------------------
(* cancel_agent_run *)

\* Mutant: the call also marks the record, before the task has seen the signal.
CancelSendMarks(r) ==
  /\ r \in agent_cancellations
  /\ cancel_sent' = cancel_sent \cup {r}
  /\ agent_runs' = [agent_runs EXCEPT ![r] = "Cancelled"]
  /\ UNCHANGED <<agent_requests, born, store, agent_cancellations,
                 pending_agent_actions, timers, task, confirm, cancel, unsaved, history>>

\* The run's task still has its sender: the call returns TRUE.
CancelSend(r) ==
  /\ r \in agent_cancellations
  /\ cancel_sent' = cancel_sent \cup {r}
  /\ UNCHANGED <<memory, store, agent_cancellations, pending_agent_actions, timers,
                 task, confirm, cancel, unsaved, history>>

CancelAt(r, step) == cancel[r] = step /\ Idle("cancel", r)

CancelMove(r, step) ==
  /\ cancel' = [cancel EXCEPT ![r] = step]
  /\ UNCHANGED <<memory, store, signals, lease_left, run_left, task, confirm,
                 unsaved, history>>

\* Without a sender only a run seen AwaitingConfirmation can be cancelled.
CancelSee(r) ==
  /\ CancelAt(r, "idle")
  /\ r \notin agent_cancellations
  /\ agent_runs[r] = "AwaitingConfirmation"
  /\ CancelMove(r, "seen")
  /\ UNCHANGED <<pending_agent_actions, plan_left>>

\* Mutant: the run is cancelled, its plan stays.
CancelKeepsPlan(r) ==
  /\ CancelAt(r, "seen")
  /\ CancelMove(r, "dropped")
  /\ UNCHANGED <<pending_agent_actions, plan_left>>

CancelDropPlan(r) ==
  /\ CancelAt(r, "seen")
  /\ pending_agent_actions' = pending_agent_actions \ {r}
  /\ plan_left' = [plan_left EXCEPT ![r] = 0]
  /\ CancelMove(r, "dropped")

\* The state seen earlier is not looked at again.
CancelUpdate(r) ==
  /\ CancelAt(r, "dropped")
  /\ UpdateAgentRun("cancel", r, "Cancelled", TRUE)
  /\ cancel' = [cancel EXCEPT ![r] = "closing"]
  /\ UNCHANGED <<agent_requests, born, store, signals, pending_agent_actions, timers,
                 task, confirm, history>>

CancelReturn(r) ==
  /\ CancelAt(r, "closing")
  /\ CancelMove(r, "idle")
  /\ UNCHANGED <<pending_agent_actions, plan_left>>

-----------------------------------------------------------------------------
(* Leases, time, restart *)

\* revoke_capability_lease
Revoke(r) ==
  /\ LeaseLive(r)
  /\ lease_left' = [lease_left EXCEPT ![r] = 0]
  /\ UNCHANGED <<memory, store, signals, pending_agent_actions, plan_left, run_left,
                 task, confirm, cancel, unsaved, history>>

\* Mutant: a subtraction that does not saturate.
CountDownPastZero(left) == [r \in Runs |-> left[r] - 1]

CountDown(left) == [r \in Runs |-> IF left[r] > 0 THEN left[r] - 1 ELSE 0]

Tick ==
  /\ \E r \in Runs : lease_left[r] + plan_left[r] + run_left[r] > 0
  /\ lease_left' = CountDown(lease_left)
  /\ plan_left' = CountDown(plan_left)
  /\ run_left' = CountDown(run_left)
  /\ UNCHANGED <<memory, store, signals, pending_agent_actions, task, confirm, cancel,
                 unsaved, history>>

\* Mutant: rows are restored as they were saved.
RecoverAsSaved(s) == s

\* What enable_agent_run_store makes of a row it loads.
Recover(s) == IF s \in Active THEN "Failed" ELSE s

\* The message it leaves in the record, which says what was interrupted.
RecoveryMessage(r) ==
  IF store[r] = "AwaitingConfirmation" THEN "invalidated"
  ELSE IF store[r] \in Active THEN "interrupted"
  ELSE recovered[r]

StoredRuns == {r \in Runs : store[r] # Absent}

\* The daemon stops anywhere and starts again: only the rows survive, and of
\* them the MAX_RETAINED_AGENT_RUNS latest are loaded.
Restart ==
  LET loaded == Newest(StoredRuns, MaxRetained) IN
    /\ agent_runs' = [r \in Runs |-> IF r \in loaded THEN Recover(store[r]) ELSE Absent]
    /\ agent_requests' = loaded
    /\ store' = [r \in Runs |-> IF r \in loaded THEN Recover(store[r]) ELSE store[r]]
    /\ recovered' = [r \in Runs |-> IF r \in loaded THEN RecoveryMessage(r) ELSE recovered[r]]
    /\ agent_cancellations' = {} /\ cancel_sent' = {}
    /\ pending_agent_actions' = {}
    /\ lease_left' = [r \in Runs |-> 0]
    /\ plan_left' = [r \in Runs |-> 0]
    /\ run_left' = [r \in Runs |-> 0]
    /\ task' = [r \in Runs |-> IF task[r] = "new" THEN "new" ELSE "done"]
    /\ confirm' = [r \in Runs |-> "idle"]
    /\ cancel' = [r \in Runs |-> "idle"]
    /\ unsaved' = [r \in Runs |-> [a \in Actor |-> NoClone]]
    /\ UNCHANGED <<born, executed, authority>>

-----------------------------------------------------------------------------
Register(r) == Reserve(r) \/ ReserveFails(r) \/ Insert(r)

\* What the run's task does without anyone's help: the provider may never
\* answer, but the prompt and the execution time out.
TaskProgress(r) ==
  \/ PermissionDenied(r) \/ PermissionGranted(r)
  \/ ObserveCancel(r) \/ Acquire(r) \/ TimeOut(r) \/ Return(r)
  \/ Save("task", r)

Execute(r) == TaskProgress(r) \/ Finish(r) \/ Propose(r)

Confirm(r) ==
  \/ ClaimPlan(r) \/ PlanExpired(r) \/ PlanDenied(r)
  \/ PromptRefused(r) \/ PromptApproved(r) \/ Authorize(r)
  \/ ExecuteConfirmed(r) \/ ExecuteFails(r) \/ RecordExecuted(r) \/ ConfirmReturn(r)
  \/ Save("confirm", r)

Cancel(r) ==
  \/ CancelSend(r) \/ CancelSee(r) \/ CancelDropPlan(r) \/ CancelUpdate(r)
  \/ CancelReturn(r) \/ Save("cancel", r)

Next ==
  \/ \E r \in Runs : Register(r) \/ Execute(r) \/ Confirm(r) \/ Cancel(r) \/ Revoke(r)
  \/ Tick \/ Restart

Spec == Init /\ [][Next]_vars

\* The runtime polls every task and the clock advances; nothing is assumed of
\* clients, of the provider or of the user.
Fairness ==
  /\ WF_vars(Tick)
  /\ \A r \in Runs : WF_vars(TaskProgress(r))

FairSpec == Spec /\ Fairness

-----------------------------------------------------------------------------
(* The promise this module implements *)

\* How far the mutation of run r has come, whoever holds its plan.
GateOf(r) ==
  CASE r \in pending_agent_actions -> "waiting"
    [] r \notin pending_agent_actions /\ confirm[r] = "prompt" -> "claimed"
    [] r \notin pending_agent_actions /\ confirm[r] \in {"approved", "authorized"} -> confirm[r]
    [] OTHER -> IF executed[r] > 0 THEN "executed"
                ELSE IF task[r] = "new" THEN "unborn"
                ELSE IF task[r] \in {"reserved", "prompt", "queued", "running"} THEN "open"
                ELSE "void"

Gate == INSTANCE PlanGate WITH gate <- [r \in Runs |-> GateOf(r)],
                               leased <- LiveLeases,
                               executions <- executed

-----------------------------------------------------------------------------
(* Properties *)

\* Every variable stays in its set.
TypeOK ==
  /\ agent_runs \in [Runs -> AgentRunState \cup {Absent}]
  /\ store \in [Runs -> AgentRunState \cup {Absent}]
  /\ agent_requests \subseteq Runs
  /\ born \in [Runs -> Nat]
  /\ agent_cancellations \subseteq Runs /\ cancel_sent \subseteq Runs
  /\ pending_agent_actions \subseteq Runs
  /\ lease_left \in [Runs -> Nat]
  /\ plan_left \in [Runs -> Nat]
  /\ run_left \in [Runs -> Nat]
  /\ task \in [Runs -> TaskStep]
  /\ confirm \in [Runs -> ConfirmStep]
  /\ cancel \in [Runs -> CancelStep]
  /\ unsaved \in [Runs -> [Actor -> Clone]]
  /\ executed \in [Runs -> Nat]
  /\ authority \in [Runs -> {"none", "live", "dead"}]
  /\ recovered \in [Runs -> {"no", "interrupted", "invalidated"}]

\* A plan is consumed once: whatever confirm calls, cancel calls, expirations
\* and restarts interleave, a run's mutation is executed at most once
\* (plans.remove in confirm_agent_action).
AtMostOnce == \A r \in Runs : executed[r] <= 1

\* A mutation runs only if its lease was usable when the user approved it: a
\* lease revoked or expired by then fails the delayed mutation, even after the
\* native confirmation (CapabilityExecutor::authorize).
ApprovedUnderLease == \A r \in Runs : executed[r] > 0 => authority[r] = "live"

\* A plan that can still be confirmed belongs to a run that is shown as
\* AwaitingConfirmation: no run that ended, was cancelled, evicted or recovered
\* leaves a plan behind that a late confirmation could execute.
PlansAwait == \A r \in pending_agent_actions : agent_runs[r] = "AwaitingConfirmation"

\* The runs implement PlanGate: a mutation is offered once, its plan has one
\* owner, only the owner whose prompt was approved executes it, once, under the
\* lease of its registration, and a mutation called off by a refusal, an expiry,
\* a cancellation of its plan or a restart never comes back (pending_agent_actions).
PlanGateSpec == Gate!Spec

\* A running daemon forgets only finished runs (insert_agent_run).
EvictsOnlyTerminal ==
  [][ \A r \in Runs :
        agent_runs[r] \in Active /\ agent_runs'[r] = Absent => Restart ]_vars

\* A run that a restart interrupted is never executed, confirmed or cancelled
\* afterwards: it stays Failed, as recovery left it, until it is evicted
\* (enable_agent_run_store).
RecoveryNeverRevives ==
  [][ \A r \in Runs :
        recovered[r] # "no" =>
          /\ executed'[r] = executed[r]
          /\ agent_runs'[r] \in {"Failed", Absent} ]_vars

\* A finished run never becomes active again, although its task, a confirm call
\* and a cancel call all write its state without looking at it
\* (update_agent_run).
FinishedStaysFinished ==
  [][ \A r \in Runs :
        agent_runs[r] \in Terminal => agent_runs'[r] \in Terminal \cup {Absent} ]_vars

\* A cancellation accepted during the permission prompt is applied when the
\* prompt returns: that run is never queued, executed or proposed.
CancelledAtPromptNeverRuns ==
  \A r \in Runs :
    [](task[r] = "prompt" /\ r \in cancel_sent =>
         [](agent_runs[r] \notin {"Queued", "Running", "AwaitingConfirmation"}))

\* Every task that reached its prompt returns, so that its permit, its
\* cancellation sender and its lease's holder are freed, although the provider
\* may never answer (the timeouts of execute_agent_run and of the dialog).
TaskReturns ==
  \A r \in Runs : task[r] \notin {"new", "reserved", "done"} ~> task[r] = "done"

\* docs/agent-sdk.md: the service deadline covers the entire run. A run that
\* is Running is some day not Running any more.
DeadlineEndsRun ==
  \A r \in Runs : agent_runs[r] = "Running" ~> agent_runs[r] # "Running"

\* docs/ipc.md: CancelAgentRun discards an action awaiting confirmation. A run
\* that is Cancelled does not execute its mutation.
CancelDiscardsAction ==
  [][ \A r \in Runs : agent_runs[r] = "Cancelled" => executed'[r] = executed[r] ]_vars

\* docs/ipc.md: terminal history survives restart. Once no thread has a clone of
\* a finished run still to save, its row is finished too.
FinishedIsDurable ==
  \A r \in Runs :
    agent_runs[r] \in Terminal /\ (\A a \in Actor : Idle(a, r)) => store[r] \in Terminal

\* docs/ipc.md: the daemon retains at most 128 run records.
RetentionBound == Cardinality(Retained) <= MaxRetained
=============================================================================
