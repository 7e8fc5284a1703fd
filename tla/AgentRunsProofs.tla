--------------------------- MODULE AgentRunsProofs ---------------------------
(***************************************************************************)
(* AgentRuns, proved for every set of runs and every bound.                *)
(*                                                                         *)
(* The safety properties follow from one inductive invariant, IInv. It     *)
(* ties what the threads know to the shared state: as long as a run's task *)
(* is before its decision, its record is in the state the task gave it and *)
(* nobody else may have touched it; a plan in the registry means that no   *)
(* confirm call owns it and that no cancel call has dropped it; a run that *)
(* a restart interrupted has neither a thread nor a plan any more. That    *)
(* AgentRuns implements PlanGate follows from it too.                      *)
(***************************************************************************)
EXTENDS AgentRuns, FiniteSetTheorems, TLAPS

\* A run that is not registered has left no trace anywhere.
Unregistered(r) ==
  task[r] \in {"new", "reserved"} =>
    /\ agent_runs[r] = Absent /\ store[r] = Absent
    /\ unsaved[r] = [a \in Actor |-> NoClone]
    /\ recovered[r] = "no"

\* Until its task decides, nobody but the task touches a run.
Undecided(r) ==
  /\ task[r] = "prompt"  => agent_runs[r] = "WaitingForPermission"
  /\ task[r] = "queued"  => agent_runs[r] = "Queued"
  /\ task[r] = "running" => agent_runs[r] = "Running"
  /\ task[r] \in {"new", "reserved", "prompt", "queued", "running"} =>
       /\ r \notin pending_agent_actions
       /\ confirm[r] = "idle" /\ cancel[r] = "idle"
       /\ executed[r] = 0

\* A registered plan is unclaimed, undropped and unexecuted.
Unclaimed(r) ==
  r \in pending_agent_actions =>
    /\ agent_runs[r] = "AwaitingConfirmation"
    /\ confirm[r] = "idle" /\ cancel[r] \in {"idle", "seen"}
    /\ executed[r] = 0

\* A claimed plan is executed only after authorize, and then once.
Claimed(r) ==
  /\ confirm[r] \in {"expired", "denied", "prompt", "approved", "authorized"} =>
       executed[r] = 0
  /\ confirm[r] = "authorized" => authority[r] = "live"
  /\ executed[r] <= 1
  /\ executed[r] > 0 => authority[r] = "live"

\* Before the lease is read, it can only get worse.
Approved(r) == confirm[r] = "approved" /\ lease_left[r] > 0 => authority[r] = "live"

\* An interrupted run has no thread, no plan and no unsaved clone.
Interrupted(r) ==
  recovered[r] # "no" =>
    /\ task[r] = "done" /\ confirm[r] = "idle" /\ cancel[r] = "idle"
    /\ r \notin pending_agent_actions
    /\ unsaved[r] = [a \in Actor |-> NoClone]
    /\ agent_runs[r] \in {"Failed", Absent} /\ store[r] \in {"Failed", Absent}

RunInv(r) ==
  Unregistered(r) /\ Undecided(r) /\ Unclaimed(r) /\ Claimed(r) /\ Approved(r)
    /\ Interrupted(r)

IInv == TypeOK /\ \A r \in Runs : RunInv(r)

-----------------------------------------------------------------------------
(* What the helpers return *)

\* Evicting or loading the n first of a set takes elements of that set only.
LEMMA SelectionSubset ==
  ASSUME NEW S, NEW n
  PROVE  Oldest(S, n) \subseteq S /\ Newest(S, n) \subseteq S
BY DEF Oldest, Newest

\* The rank given to a new run is a number.
LEMMA RankIsNat == Cardinality({x \in Runs : task[x] # "new"}) + 1 \in Nat
<1>1. IsFiniteSet({x \in Runs : task[x] # "new"})
  BY RunsFinite, FS_Subset
<1>2. QED BY <1>1, FS_CardinalityType

\* Storing a clone for one actor of one run leaves a table of clones, in which
\* every other run's row is the old one.
LEMMA CloneStored ==
  ASSUME NEW f \in [Runs -> [Actor -> Clone]], NEW r \in Runs, NEW a \in Actor,
         NEW c \in Clone
  PROVE  /\ [f EXCEPT ![r][a] = c] \in [Runs -> [Actor -> Clone]]
         /\ \A x \in Runs \ {r} : [f EXCEPT ![r][a] = c][x] = f[x]
<1>1. [f EXCEPT ![r][a] = c] = [f EXCEPT ![r] = [f[r] EXCEPT ![a] = c]]
  OBVIOUS
<1>2. [f[r] EXCEPT ![a] = c] \in [Actor -> Clone]
  OBVIOUS
<1>3. QED
  BY <1>1, <1>2

-----------------------------------------------------------------------------
(* Type correctness *)

USE DEF AgentRunState, Active, Terminal

\* An update of a record and its clone stays in the types.
LEMMA UpdateTyped ==
  ASSUME TypeOK, NEW a \in Actor, NEW r \in Runs, NEW s \in AgentRunState,
         NEW e \in BOOLEAN, UpdateAgentRun(a, r, s, e)
  PROVE  /\ agent_runs' \in [Runs -> AgentRunState \cup {Absent}]
         /\ unsaved' \in [Runs -> [Actor -> Clone]]
<1>1. [state |-> s, event |-> e] \in Clone
  BY DEF Clone
<1>2. [unsaved EXCEPT ![r][a] = [state |-> s, event |-> e]]
        \in [Runs -> [Actor -> Clone]]
  BY <1>1, CloneStored DEF TypeOK
<1>3. QED
  BY <1>2 DEF TypeOK, UpdateAgentRun

\* Saving a clone stays in the types.
LEMMA SaveTyped ==
  ASSUME TypeOK, NEW a \in Actor, NEW r \in Runs, Save(a, r)
  PROVE  TypeOK'
<1>1. NoClone \in Clone /\ EventClone(a, r) \in Clone
  BY DEF TypeOK, EventClone, NoClone, Clone
<1>2. unsaved[r][a].state \in AgentRunState \cup {Absent}
  BY DEF TypeOK, Clone
<1>3. /\ [unsaved EXCEPT ![r][a] = NoClone] \in [Runs -> [Actor -> Clone]]
      /\ [unsaved EXCEPT ![r][a] = EventClone(a, r)] \in [Runs -> [Actor -> Clone]]
  BY <1>1, CloneStored DEF TypeOK
<1>4. unsaved' \in [Runs -> [Actor -> Clone]]
  BY <1>3 DEF Save
<1>5. store' \in [Runs -> AgentRunState \cup {Absent}]
  BY <1>2 DEF TypeOK, Save
<1>6. QED
  BY <1>4, <1>5 DEF TypeOK, Save, memory, signals, timers, history

\* Registering a run stays in the types.
LEMMA RegisterTyped ==
  ASSUME TypeOK, NEW r \in Runs, Register(r)
  PROVE  TypeOK'
<1>1. CASE Reserve(r)
  BY <1>1, RankIsNat, LeaseWithinRun DEF TypeOK, Reserve, TaskStep, signals, history
<1>2. CASE ReserveFails(r)
  BY <1>2, LeaseWithinRun DEF TypeOK, ReserveFails, TaskStep, signals, history
<1>3. CASE Insert(r)
  BY <1>3 DEF TypeOK, Insert, TaskStep, timers, history
<1>4. QED
  BY <1>1, <1>2, <1>3 DEF Register

\* An update by the task, as one of its steps, stays in the types.
LEMMA TaskUpdateTyped ==
  ASSUME TypeOK, NEW r \in Runs, NEW s \in AgentRunState, NEW e \in BOOLEAN,
         NEW next \in TaskStep, TaskUpdate(r, s, e, next),
         pending_agent_actions' \subseteq Runs,
         lease_left' \in [Runs -> Nat], plan_left' \in [Runs -> Nat],
         run_left' \in [Runs -> Nat]
  PROVE  TypeOK'
<1>1. UpdateAgentRun("task", r, s, e) /\ "task" \in Actor
  BY DEF TaskUpdate, Actor
<1>2. /\ agent_runs' \in [Runs -> AgentRunState \cup {Absent}]
      /\ unsaved' \in [Runs -> [Actor -> Clone]]
  BY <1>1, UpdateTyped
<1>3. QED
  BY <1>2 DEF TypeOK, TaskUpdate, signals, history

\* Every step of a task stays in the types.
LEMMA ExecuteTyped ==
  ASSUME TypeOK, NEW r \in Runs, Execute(r)
  PROVE  TypeOK'
<1> USE BoundsNat DEF timers
<1>a. /\ UnexpiredPlans \subseteq Runs
      /\ lease_left \in [Runs -> Nat] /\ plan_left \in [Runs -> Nat]
      /\ run_left \in [Runs -> Nat] /\ pending_agent_actions \subseteq Runs
  BY DEF TypeOK, UnexpiredPlans
<1>1. CASE PermissionDenied(r)
  BY <1>1, <1>a, TaskUpdateTyped DEF PermissionDenied, TaskStep
<1>2. CASE PermissionGranted(r)
  BY <1>2, <1>a, TaskUpdateTyped DEF PermissionGranted, TaskStep
<1>3. CASE ObserveCancel(r)
  <2>1. run_left' \in [Runs -> Nat]
    BY <1>3, <1>a DEF ObserveCancel
  <2>2. QED
    BY <1>3, <1>a, <2>1, TaskUpdateTyped DEF ObserveCancel, TaskStep
<1>4. CASE Acquire(r)
  <2>1. run_left' \in [Runs -> Nat]
    BY <1>4, <1>a DEF Acquire
  <2>2. QED
    BY <1>4, <1>a, <2>1, TaskUpdateTyped DEF Acquire, TaskStep
<1>5. CASE TimeOut(r)
  BY <1>5 DEF TypeOK, TimeOut, DropSender, TaskStep, memory, history
<1>6. CASE Return(r)
  BY <1>6 DEF TypeOK, Return, DropSender, TaskStep, memory, history
<1>7. CASE Save("task", r)
  BY <1>7, SaveTyped DEF Actor
<1>8. CASE Finish(r)
  <2>1. run_left' \in [Runs -> Nat]
    BY <1>8, <1>a DEF Finish
  <2>2. QED
    BY <1>8, <1>a, <2>1, TaskUpdateTyped DEF Finish, TaskStep
<1>9. CASE Propose(r)
  <2>1. run_left' \in [Runs -> Nat] /\ plan_left' \in [Runs -> Nat]
    BY <1>9, <1>a DEF Propose
  <2>2. QED
    BY <1>9, <1>a, <2>1, TaskUpdateTyped DEF Propose, TaskStep
<1>10. QED
  BY <1>1, <1>2, <1>3, <1>4, <1>5, <1>6, <1>7, <1>8, <1>9 DEF Execute, TaskProgress

\* An update by a confirm call stays in the types.
LEMMA ConfirmUpdateTyped ==
  ASSUME TypeOK, NEW r \in Runs, NEW s \in AgentRunState, ConfirmUpdate(r, s),
         UNCHANGED history
  PROVE  TypeOK'
<1>1. UpdateAgentRun("confirm", r, s, TRUE) /\ "confirm" \in Actor
  BY DEF ConfirmUpdate, Actor
<1>2. /\ agent_runs' \in [Runs -> AgentRunState \cup {Absent}]
      /\ unsaved' \in [Runs -> [Actor -> Clone]]
  BY <1>1, UpdateTyped
<1>3. QED
  BY <1>2 DEF TypeOK, ConfirmUpdate, ConfirmStep, signals, timers, history

\* A step of a confirm call that updates nothing stays in the types.
LEMMA ConfirmMoveTyped ==
  ASSUME TypeOK, NEW r \in Runs, NEW step \in ConfirmStep, ConfirmMove(r, step),
         pending_agent_actions' \subseteq Runs, plan_left' \in [Runs -> Nat],
         executed' \in [Runs -> Nat], authority' \in [Runs -> {"none", "live", "dead"}],
         recovered' = recovered
  PROVE  TypeOK'
BY DEF TypeOK, ConfirmMove, memory, signals

\* Every step of a confirm call stays in the types.
LEMMA ConfirmTyped ==
  ASSUME TypeOK, NEW r \in Runs, Confirm(r)
  PROVE  TypeOK'
<1>a. /\ pending_agent_actions \subseteq Runs /\ plan_left \in [Runs -> Nat]
      /\ executed \in [Runs -> Nat]
      /\ authority \in [Runs -> {"none", "live", "dead"}]
  BY DEF TypeOK
<1>1. CASE ClaimPlan(r)
  <2>1. plan_left' \in [Runs -> Nat] /\ pending_agent_actions' \subseteq Runs
    BY <1>1, <1>a DEF ClaimPlan
  <2>2. PICK step \in {"expired", "denied", "prompt"} : ConfirmMove(r, step)
    BY <1>1 DEF ClaimPlan
  <2>3. QED
    BY <1>1, <1>a, <2>1, <2>2, ConfirmMoveTyped DEF ClaimPlan, ConfirmStep, history
<1>2. CASE PlanExpired(r) \/ PlanDenied(r) \/ PromptRefused(r)
  BY <1>2, ConfirmUpdateTyped DEF PlanExpired, PlanDenied, PromptRefused
<1>3. CASE PromptApproved(r)
  <2>1. authority' \in [Runs -> {"none", "live", "dead"}]
    BY <1>3, <1>a DEF PromptApproved
  <2>2. QED
    BY <1>3, <1>a, <2>1, ConfirmMoveTyped DEF PromptApproved, ConfirmStep
<1>4. CASE Authorize(r)
  BY <1>4, <1>a, ConfirmMoveTyped, ConfirmUpdateTyped DEF Authorize, ConfirmStep, history
<1>5. CASE ExecuteConfirmed(r)
  <2>1. executed' \in [Runs -> Nat]
    BY <1>5, <1>a DEF ExecuteConfirmed
  <2>2. QED
    BY <1>5, <1>a, <2>1, ConfirmMoveTyped DEF ExecuteConfirmed, ConfirmStep
<1>6. CASE ExecuteFails(r) \/ RecordExecuted(r)
  BY <1>6, ConfirmUpdateTyped DEF ExecuteFails, RecordExecuted
<1>7. CASE ConfirmReturn(r)
  BY <1>7, <1>a, ConfirmMoveTyped DEF ConfirmReturn, ConfirmStep, history
<1>8. CASE Save("confirm", r)
  BY <1>8, SaveTyped DEF Actor
<1>9. QED
  BY <1>1, <1>2, <1>3, <1>4, <1>5, <1>6, <1>7, <1>8 DEF Confirm

\* Every step of a cancel call stays in the types.
LEMMA CancelTyped ==
  ASSUME TypeOK, NEW r \in Runs, Cancel(r)
  PROVE  TypeOK'
<1>1. CASE CancelSend(r)
  BY <1>1 DEF TypeOK, CancelSend, memory, timers, history
<1>2. CASE CancelSee(r)
  BY <1>2 DEF TypeOK, CancelSee, CancelMove, CancelStep, memory, signals, history
<1>3. CASE CancelDropPlan(r)
  BY <1>3 DEF TypeOK, CancelDropPlan, CancelMove, CancelStep, memory, signals, history
<1>4. CASE CancelUpdate(r)
  <2>1. UpdateAgentRun("cancel", r, "Cancelled", TRUE) /\ "cancel" \in Actor
    BY <1>4 DEF CancelUpdate, Actor
  <2>2. /\ agent_runs' \in [Runs -> AgentRunState \cup {Absent}]
        /\ unsaved' \in [Runs -> [Actor -> Clone]]
    BY <2>1, UpdateTyped
  <2>3. QED
    BY <1>4, <2>2 DEF TypeOK, CancelUpdate, CancelStep, signals, timers, history
<1>5. CASE CancelReturn(r)
  BY <1>5 DEF TypeOK, CancelReturn, CancelMove, CancelStep, memory, signals, history
<1>6. CASE Save("cancel", r)
  BY <1>6, SaveTyped DEF Actor
<1>7. QED
  BY <1>1, <1>2, <1>3, <1>4, <1>5, <1>6 DEF Cancel

\* The clock and the leases stay in the types.
LEMMA ClockTyped ==
  ASSUME TypeOK, Tick \/ \E r \in Runs : Revoke(r)
  PROVE  TypeOK'
<1>1. CASE Tick
  <2>1. ASSUME NEW left \in [Runs -> Nat] PROVE CountDown(left) \in [Runs -> Nat]
    BY DEF CountDown
  <2>2. QED
    BY <1>1, <2>1 DEF TypeOK, Tick, memory, signals, history
<1>2. ASSUME NEW r \in Runs, Revoke(r) PROVE TypeOK'
  BY <1>2 DEF TypeOK, Revoke, memory, signals, history
<1>3. QED
  BY <1>1, <1>2

\* A restart stays in the types.
LEMMA RestartTyped ==
  ASSUME TypeOK, Restart
  PROVE  TypeOK'
<1> DEFINE loaded == Newest(StoredRuns, MaxRetained)
<1>1. loaded \subseteq StoredRuns /\ StoredRuns \subseteq Runs
  BY SelectionSubset DEF StoredRuns
<1>2. \A r \in Runs : Recover(store[r]) \in AgentRunState \cup {Absent}
  BY DEF TypeOK, Recover
<1>3. \A r \in Runs : RecoveryMessage(r) \in {"no", "interrupted", "invalidated"}
  BY DEF TypeOK, RecoveryMessage
<1>4. [r \in Runs |-> [a \in Actor |-> NoClone]] \in [Runs -> [Actor -> Clone]]
  BY DEF NoClone, Clone
<1>5. /\ agent_runs' \in [Runs -> AgentRunState \cup {Absent}]
      /\ store' \in [Runs -> AgentRunState \cup {Absent}]
  BY <1>2 DEF TypeOK, Restart
<1>6. recovered' \in [Runs -> {"no", "interrupted", "invalidated"}]
  BY <1>3 DEF TypeOK, Restart
<1>7. /\ agent_requests' \subseteq Runs
      /\ task' \in [Runs -> TaskStep] /\ confirm' \in [Runs -> ConfirmStep]
      /\ cancel' \in [Runs -> CancelStep]
  BY <1>1 DEF TypeOK, Restart, TaskStep, ConfirmStep, CancelStep
<1>8. QED
  BY <1>4, <1>5, <1>6, <1>7 DEF TypeOK, Restart

\* Every variable of every reachable state is in its set.
THEOREM TypeCorrect == Spec => []TypeOK
<1>1. Init => TypeOK
  BY DEF Init, TypeOK, TaskStep, ConfirmStep, CancelStep, Clone, NoClone
<1>2. TypeOK /\ [Next]_vars => TypeOK'
  <2>1. TypeOK /\ UNCHANGED vars => TypeOK'
    BY DEF TypeOK, vars
  <2>2. QED
    BY <2>1, RegisterTyped, ExecuteTyped, ConfirmTyped, CancelTyped, ClockTyped,
       RestartTyped DEF Next
<1>3. QED
  BY <1>1, <1>2, PTL DEF Spec

-----------------------------------------------------------------------------
(* The inductive invariant *)

\* Nothing that RunInv(x) reads was changed, but for a plan that went or a
\* lease that ran down.
Undisturbed(x) ==
  /\ agent_runs'[x] = agent_runs[x] /\ store'[x] = store[x]
  /\ task'[x] = task[x] /\ confirm'[x] = confirm[x] /\ cancel'[x] = cancel[x]
  /\ unsaved'[x] = unsaved[x]
  /\ executed'[x] = executed[x] /\ authority'[x] = authority[x]
  /\ recovered'[x] = recovered[x]
  /\ x \in pending_agent_actions' => x \in pending_agent_actions
  /\ lease_left'[x] > 0 => lease_left[x] > 0

\* A run none of whose state changes keeps its part of the invariant.
LEMMA UndisturbedKeeps ==
  ASSUME NEW x \in Runs, RunInv(x), Undisturbed(x)
  PROVE  RunInv(x)'
BY DEF Undisturbed, RunInv, Unregistered, Undecided, Unclaimed, Claimed, Approved,
       Interrupted

\* An evicted run was finished, so no task, plan or confirmation depends on it.
LEMMA EvictedKeeps ==
  ASSUME NEW x \in Runs, RunInv(x), agent_runs[x] \in Terminal,
         agent_runs'[x] = Absent, store'[x] \in {store[x], Absent},
         task'[x] = task[x], confirm'[x] = confirm[x], cancel'[x] = cancel[x],
         unsaved'[x] = unsaved[x], executed'[x] = executed[x],
         authority'[x] = authority[x], recovered'[x] = recovered[x],
         pending_agent_actions' = pending_agent_actions,
         lease_left'[x] = lease_left[x]
  PROVE  RunInv(x)'
BY DEF RunInv, Unregistered, Undecided, Unclaimed, Claimed, Approved, Interrupted, Absent

\* Registering a run keeps the invariant of every run, the evicted ones included.
LEMMA RegisterKeeps ==
  ASSUME IInv, NEW r \in Runs, Register(r), NEW x \in Runs
  PROVE  RunInv(x)'
<1> USE DEF signals, timers, history
<1>1. TypeOK /\ RunInv(x)
  BY DEF IInv
<1>2. CASE Reserve(r)
  <2> DEFINE evicted == Oldest(TerminalRuns, Excess)
  <2>1. evicted \subseteq TerminalRuns
    BY SelectionSubset
  <2>2. CASE x \in evicted
    <3>1. agent_runs[x] \in Terminal /\ x # r
      BY <1>1, <1>2, <2>1, <2>2
      DEF TerminalRuns, Reserve, RunInv, Unregistered, Absent
    <3>2. QED
      BY <1>1, <1>2, <2>2, <3>1, EvictedKeeps DEF Reserve, TypeOK
  <2>3. CASE x \notin evicted /\ x # r
    <3>1. Undisturbed(x)
      BY <1>1, <1>2, <2>3 DEF Reserve, TypeOK, Undisturbed
    <3>2. QED
      BY <1>1, <3>1, UndisturbedKeeps
  <2>4. CASE x \notin evicted /\ x = r
    BY <1>1, <1>2, <2>4
    DEF Reserve, TypeOK, RunInv, Unregistered, Undecided, Unclaimed, Claimed,
        Approved, Interrupted
  <2>5. QED
    BY <2>2, <2>3, <2>4
<1>3. CASE ReserveFails(r)
  <2>1. CASE x \in TerminalRuns
    <3>1. agent_runs[x] \in Terminal /\ x # r
      BY <1>1, <1>3, <2>1
      DEF TerminalRuns, ReserveFails, RunInv, Unregistered, Absent
    <3>2. QED
      BY <1>1, <1>3, <2>1, <3>1, EvictedKeeps DEF ReserveFails, TypeOK
  <2>2. CASE x \notin TerminalRuns /\ x # r
    <3>1. Undisturbed(x)
      BY <1>1, <1>3, <2>2 DEF ReserveFails, TypeOK, Undisturbed
    <3>2. QED
      BY <1>1, <3>1, UndisturbedKeeps
  <2>3. CASE x \notin TerminalRuns /\ x = r
    BY <1>1, <1>3, <2>3
    DEF ReserveFails, TypeOK, RunInv, Unregistered, Undecided, Unclaimed, Claimed,
        Approved, Interrupted
  <2>4. QED
    BY <2>1, <2>2, <2>3
<1>4. CASE Insert(r)
  <2>1. CASE x = r
    BY <1>1, <1>4, <2>1
    DEF Insert, TypeOK, RunInv, Unregistered, Undecided, Unclaimed, Claimed,
        Approved, Interrupted, Absent
  <2>2. CASE x # r
    <3>1. Undisturbed(x)
      BY <1>1, <1>4, <2>2 DEF Insert, TypeOK, Undisturbed
    <3>2. QED
      BY <1>1, <3>1, UndisturbedKeeps
  <2>3. QED
    BY <2>1, <2>2
<1>5. QED
  BY <1>2, <1>3, <1>4 DEF Register

\* update_agent_run touches one record and one clone.
LEMMA UpdateFrame ==
  ASSUME TypeOK, NEW a \in Actor, NEW r \in Runs, NEW s \in AgentRunState,
         NEW e \in BOOLEAN, UpdateAgentRun(a, r, s, e)
  PROVE  /\ \A x \in Runs \ {r} :
              agent_runs'[x] = agent_runs[x] /\ unsaved'[x] = unsaved[x]
         /\ agent_runs[r] # Absent => agent_runs'[r] = s
         /\ agent_runs[r] = Absent => agent_runs'[r] = Absent
<1>1. [state |-> s, event |-> e] \in Clone
  BY DEF Clone
<1>2. \A x \in Runs \ {r} :
        [unsaved EXCEPT ![r][a] = [state |-> s, event |-> e]][x] = unsaved[x]
  BY <1>1, CloneStored DEF TypeOK
<1>3. QED
  BY <1>2 DEF UpdateAgentRun, TypeOK

\* Saving a clone changes no record, and only the row of a run that has had one.
LEMMA SaveKeeps ==
  ASSUME IInv, NEW a \in Actor, NEW r \in Runs, Save(a, r), NEW x \in Runs
  PROVE  RunInv(x)'
<1> USE DEF memory, signals, timers, history
<1>1. TypeOK /\ RunInv(x) /\ RunInv(r)
  BY DEF IInv
<1>2. NoClone \in Clone /\ EventClone(a, r) \in Clone
  BY <1>1 DEF TypeOK, EventClone, NoClone, Clone
<1>3. unsaved[r][a] # NoClone
  BY DEF Save, Idle
<1>4. task[r] \notin {"new", "reserved"} /\ recovered[r] = "no"
  BY <1>1, <1>3 DEF RunInv, Unregistered, Interrupted, TypeOK
<1>5. CASE x # r
  <2>1. unsaved'[x] = unsaved[x]
    BY <1>1, <1>2, <1>5, CloneStored DEF Save, TypeOK
  <2>2. Undisturbed(x)
    BY <1>1, <1>5, <2>1 DEF Save, TypeOK, Undisturbed
  <2>3. QED
    BY <1>1, <2>2, UndisturbedKeeps
<1>6. CASE x = r
  BY <1>1, <1>4, <1>6
  DEF Save, TypeOK, RunInv, Unregistered, Undecided, Unclaimed, Claimed, Approved,
      Interrupted
<1>7. QED
  BY <1>5, <1>6

\* A decision of the run's task: it may give the run a new plan, nothing else.
LEMMA DecisionKeeps ==
  ASSUME IInv, NEW r \in Runs, task[r] \in {"prompt", "queued", "running"},
         NEW s \in AgentRunState, NEW e \in BOOLEAN,
         NEW next \in {"queued", "running", "ending", "leaving"},
         TaskUpdate(r, s, e, next),
         next = "queued" => s = "Queued",
         next = "running" => s = "Running",
         pending_agent_actions' \subseteq pending_agent_actions \cup {r},
         r \in pending_agent_actions' => s = "AwaitingConfirmation" /\ next = "leaving",
         lease_left' = lease_left,
         NEW x \in Runs
  PROVE  RunInv(x)'
<1> USE DEF signals, history
<1>1. TypeOK /\ RunInv(x) /\ RunInv(r)
  BY DEF IInv
<1>2. UpdateAgentRun("task", r, s, e) /\ "task" \in Actor
  BY DEF TaskUpdate, Actor
<1>3. /\ \A y \in Runs \ {r} :
           agent_runs'[y] = agent_runs[y] /\ unsaved'[y] = unsaved[y]
      /\ agent_runs[r] # Absent => agent_runs'[r] = s
  BY <1>1, <1>2, UpdateFrame
<1>4. CASE x # r
  <2>1. Undisturbed(x)
    BY <1>1, <1>3, <1>4 DEF TaskUpdate, TypeOK, Undisturbed
  <2>2. QED
    BY <1>1, <2>1, UndisturbedKeeps
<1>5. CASE x = r
  <2>1. agent_runs[r] # Absent /\ recovered[r] = "no"
    BY <1>1 DEF RunInv, Undecided, Interrupted, Absent
  <2>2. agent_runs'[r] = s
    BY <1>3, <2>1
  <2>3. task'[r] = next
    BY <1>1 DEF TaskUpdate, TypeOK
  <2>4. /\ confirm'[r] = "idle" /\ cancel'[r] = "idle" /\ executed'[r] = 0
        /\ recovered'[r] = "no"
    BY <1>1, <2>1 DEF RunInv, Undecided, TaskUpdate
  <2>5. QED
    BY <1>5, <2>2, <2>3, <2>4
    DEF RunInv, Unregistered, Undecided, Unclaimed, Claimed, Approved, Interrupted
<1>6. QED
  BY <1>4, <1>5

\* Every step of a task keeps the invariant.
LEMMA ExecuteKeeps ==
  ASSUME IInv, NEW r \in Runs, Execute(r), NEW x \in Runs
  PROVE  RunInv(x)'
<1> USE DEF memory, signals, timers, history
<1>1. TypeOK /\ RunInv(x) /\ RunInv(r)
  BY DEF IInv
<1>2. CASE task[r] \in {"prompt", "queued", "running"} /\ ~TimeOut(r) /\ ~Save("task", r)
  <2>1. r \notin pending_agent_actions /\ UnexpiredPlans \subseteq pending_agent_actions
    BY <1>1, <1>2 DEF RunInv, Undecided, UnexpiredPlans
  <2>2. CASE PermissionDenied(r)
    BY <1>2, <2>1, <2>2, DecisionKeeps DEF PermissionDenied
  <2>3. CASE PermissionGranted(r)
    BY <1>2, <2>1, <2>3, DecisionKeeps DEF PermissionGranted
  <2>4. CASE ObserveCancel(r)
    BY <1>2, <2>1, <2>4, DecisionKeeps DEF ObserveCancel
  <2>5. CASE Acquire(r)
    BY <1>2, <2>1, <2>5, DecisionKeeps DEF Acquire
  <2>6. CASE Finish(r)
    BY <1>2, <2>1, <2>6, DecisionKeeps DEF Finish
  <2>7. CASE Propose(r)
    BY <1>2, <2>1, <2>7, DecisionKeeps DEF Propose
  <2>8. QED
    BY <1>2, <2>2, <2>3, <2>4, <2>5, <2>6, <2>7
    DEF Execute, TaskProgress, Return, TaskAt
<1>3. CASE Save("task", r)
  BY <1>3, SaveKeeps DEF Actor
<1>4. CASE TimeOut(r) \/ Return(r)
  <2>1. CASE x # r
    <3>1. Undisturbed(x)
      BY <1>1, <1>4, <2>1 DEF TimeOut, Return, TypeOK, Undisturbed
    <3>2. QED
      BY <1>1, <3>1, UndisturbedKeeps
  <2>2. CASE x = r
    BY <1>1, <1>4, <2>2
    DEF TimeOut, Return, TaskAt, TypeOK, RunInv, Unregistered, Undecided, Unclaimed,
        Claimed, Approved, Interrupted
  <2>3. QED
    BY <2>1, <2>2
<1>5. QED
  BY <1>2, <1>3, <1>4
  DEF Execute, TaskProgress, TaskAt, PermissionDenied, PermissionGranted,
      ObserveCancel, Acquire, Finish, Propose

\* A confirm call closes its run without looking at what the run has become.
LEMMA ClosingKeeps ==
  ASSUME IInv, NEW r \in Runs, confirm[r] # "idle", NEW s \in AgentRunState,
         ConfirmUpdate(r, s), UNCHANGED history, NEW x \in Runs
  PROVE  RunInv(x)'
<1> USE DEF signals, timers, history
<1>1. TypeOK /\ RunInv(x) /\ RunInv(r)
  BY DEF IInv
<1>2. UpdateAgentRun("confirm", r, s, TRUE) /\ "confirm" \in Actor
  BY DEF ConfirmUpdate, Actor
<1>3. \A y \in Runs \ {r} :
        agent_runs'[y] = agent_runs[y] /\ unsaved'[y] = unsaved[y]
  BY <1>1, <1>2, UpdateFrame
<1>4. CASE x # r
  <2>1. Undisturbed(x)
    BY <1>1, <1>3, <1>4 DEF ConfirmUpdate, TypeOK, Undisturbed
  <2>2. QED
    BY <1>1, <2>1, UndisturbedKeeps
<1>5. CASE x = r
  <2>1. r \notin pending_agent_actions /\ recovered[r] = "no"
        /\ task[r] \notin {"new", "reserved", "prompt", "queued", "running"}
    BY <1>1 DEF RunInv, Undecided, Unclaimed, Interrupted
  <2>2. confirm'[r] = "closing"
    BY <1>1 DEF ConfirmUpdate, TypeOK
  <2>3. QED
    BY <1>1, <1>5, <2>1, <2>2
    DEF ConfirmUpdate, RunInv, Unregistered, Undecided, Unclaimed, Claimed, Approved,
        Interrupted
<1>6. QED
  BY <1>4, <1>5

\* Every step of a confirm call keeps the invariant.
LEMMA ConfirmKeeps ==
  ASSUME IInv, NEW r \in Runs, Confirm(r), NEW x \in Runs
  PROVE  RunInv(x)'
<1> USE DEF memory, signals, history
<1>1. TypeOK /\ RunInv(x) /\ RunInv(r)
  BY DEF IInv
<1>2. CASE Save("confirm", r)
  BY <1>2, SaveKeeps DEF Actor
<1>3. CASE \/ PlanExpired(r) \/ PlanDenied(r) \/ PromptRefused(r) \/ ExecuteFails(r)
           \/ RecordExecuted(r) \/ (Authorize(r) /\ ~LeaseLive(r))
  BY <1>3, ClosingKeeps
  DEF PlanExpired, PlanDenied, PromptRefused, ExecuteFails, RecordExecuted, Authorize,
      ConfirmAt
<1>4. CASE \/ ClaimPlan(r) \/ PromptApproved(r) \/ (Authorize(r) /\ LeaseLive(r))
           \/ ExecuteConfirmed(r) \/ ConfirmReturn(r)
  <2>a. PICK step \in ConfirmStep : ConfirmMove(r, step)
    BY <1>4 DEF ClaimPlan, PromptApproved, Authorize, ExecuteConfirmed, ConfirmReturn,
                ConfirmStep
  <2>1. CASE x # r
    <3>1. confirm'[x] = confirm[x] /\ executed'[x] = executed[x]
          /\ authority'[x] = authority[x] /\ recovered'[x] = recovered[x]
          /\ pending_agent_actions' \subseteq pending_agent_actions
      BY <1>1, <1>4, <2>a, <2>1
      DEF ConfirmMove, ClaimPlan, PromptApproved, Authorize, ExecuteConfirmed,
          ConfirmReturn, TypeOK
    <3>2. Undisturbed(x)
      BY <2>a, <3>1 DEF ConfirmMove, Undisturbed
    <3>3. QED
      BY <1>1, <3>2, UndisturbedKeeps
  <2>2. CASE x = r
    <3> USE DEF ConfirmMove, ConfirmAt, TypeOK, RunInv, Unregistered, Undecided, Unclaimed,
                Claimed, Approved, Interrupted
    <3>1. CASE ClaimPlan(r)
      BY <1>1, <2>2, <3>1 DEF ClaimPlan
    <3>2. CASE PromptApproved(r)
      BY <1>1, <2>2, <3>2 DEF PromptApproved, LeaseLive
    <3>3. CASE Authorize(r) /\ LeaseLive(r)
      BY <1>1, <2>2, <3>3 DEF Authorize, LeaseLive
    <3>4. CASE ExecuteConfirmed(r)
      BY <1>1, <2>2, <3>4 DEF ExecuteConfirmed
    <3>5. CASE ConfirmReturn(r)
      BY <1>1, <2>2, <3>5 DEF ConfirmReturn
    <3>6. QED
      BY <1>4, <3>1, <3>2, <3>3, <3>4, <3>5
  <2>3. QED
    BY <2>1, <2>2
<1>5. QED
  BY <1>2, <1>3, <1>4 DEF Confirm

\* Every step of a cancel call keeps the invariant.
LEMMA CancelKeeps ==
  ASSUME IInv, NEW r \in Runs, Cancel(r), NEW x \in Runs
  PROVE  RunInv(x)'
<1> USE DEF memory, signals, timers, history
<1>1. TypeOK /\ RunInv(x) /\ RunInv(r)
  BY DEF IInv
<1>2. CASE Save("cancel", r)
  BY <1>2, SaveKeeps DEF Actor
<1>3. CASE CancelSend(r)
  <2>1. Undisturbed(x)
    BY <1>3 DEF CancelSend, Undisturbed
  <2>2. QED
    BY <1>1, <2>1, UndisturbedKeeps
<1>4. CASE CancelUpdate(r)
  <2>1. UpdateAgentRun("cancel", r, "Cancelled", TRUE) /\ "cancel" \in Actor
    BY <1>4 DEF CancelUpdate, Actor
  <2>2. \A y \in Runs \ {r} :
          agent_runs'[y] = agent_runs[y] /\ unsaved'[y] = unsaved[y]
    BY <1>1, <2>1, UpdateFrame
  <2>3. CASE x # r
    <3>1. Undisturbed(x)
      BY <1>1, <1>4, <2>2, <2>3 DEF CancelUpdate, TypeOK, Undisturbed
    <3>2. QED
      BY <1>1, <3>1, UndisturbedKeeps
  <2>4. CASE x = r
    <3>1. /\ r \notin pending_agent_actions /\ recovered[r] = "no"
          /\ task[r] \notin {"new", "reserved", "prompt", "queued", "running"}
      BY <1>1, <1>4
      DEF CancelUpdate, CancelAt, RunInv, Undecided, Unclaimed, Interrupted
    <3>2. cancel'[r] = "closing"
      BY <1>1, <1>4 DEF CancelUpdate, TypeOK
    <3>3. QED
      BY <1>1, <1>4, <2>4, <3>1, <3>2
      DEF CancelUpdate, RunInv, Unregistered, Undecided, Unclaimed, Claimed, Approved,
          Interrupted
  <2>5. QED
    BY <2>3, <2>4
<1>5. CASE CancelSee(r) \/ CancelDropPlan(r) \/ CancelReturn(r)
  <2>1. CASE x # r
    <3>1. Undisturbed(x)
      BY <1>1, <1>5, <2>1
      DEF CancelSee, CancelDropPlan, CancelReturn, CancelMove, TypeOK, Undisturbed
    <3>2. QED
      BY <1>1, <3>1, UndisturbedKeeps
  <2>2. CASE x = r
    BY <1>1, <1>5, <2>2
    DEF CancelSee, CancelDropPlan, CancelReturn, CancelMove, CancelAt, TypeOK, RunInv,
        Unregistered, Undecided, Unclaimed, Claimed, Approved, Interrupted, Absent
  <2>3. QED
    BY <2>1, <2>2
<1>6. QED
  BY <1>2, <1>3, <1>4, <1>5 DEF Cancel

\* The clock and a revocation only run leases down.
LEMMA ClockKeeps ==
  ASSUME IInv, Tick \/ \E r \in Runs : Revoke(r), NEW x \in Runs
  PROVE  RunInv(x)'
<1>1. TypeOK /\ RunInv(x)
  BY DEF IInv
<1>2. lease_left'[x] > 0 => lease_left[x] > 0
  BY <1>1 DEF Tick, CountDown, Revoke, TypeOK
<1>3. Undisturbed(x)
  BY <1>2 DEF Tick, Revoke, Undisturbed, memory, signals, history
<1>4. QED
  BY <1>1, <1>3, UndisturbedKeeps

\* A restart leaves no thread, no plan and no lease, and no active row among
\* those it loaded.
LEMMA RestartKeeps ==
  ASSUME IInv, Restart, NEW x \in Runs
  PROVE  RunInv(x)'
<1> DEFINE loaded == Newest(StoredRuns, MaxRetained)
<1>1. TypeOK /\ RunInv(x)
  BY DEF IInv
<1>2. /\ task'[x] = IF task[x] = "new" THEN "new" ELSE "done"
      /\ confirm'[x] = "idle" /\ cancel'[x] = "idle"
      /\ pending_agent_actions' = {} /\ lease_left'[x] = 0
      /\ unsaved'[x] = [a \in Actor |-> NoClone]
      /\ executed'[x] = executed[x] /\ authority'[x] = authority[x]
  BY DEF Restart
<1>3. /\ agent_runs'[x] = IF x \in loaded THEN Recover(store[x]) ELSE Absent
      /\ store'[x] = IF x \in loaded THEN Recover(store[x]) ELSE store[x]
      /\ recovered'[x] = IF x \in loaded THEN RecoveryMessage(x) ELSE recovered[x]
  BY DEF Restart
<1>4. x \in loaded => store[x] # Absent
  BY SelectionSubset DEF StoredRuns
<1>5. Unregistered(x)'
  BY <1>1, <1>2, <1>3, <1>4 DEF Unregistered, RunInv, TypeOK
<1>6. Undecided(x)'
  BY <1>1, <1>2 DEF Undecided, RunInv
<1>7. Unclaimed(x)' /\ Claimed(x)' /\ Approved(x)'
  BY <1>1, <1>2 DEF Unclaimed, Claimed, Approved, RunInv
<1>8. Interrupted(x)'
  <2>1. recovered'[x] # "no" => store'[x] \in {"Failed", Absent}
                                /\ agent_runs'[x] \in {"Failed", Absent}
    BY <1>1, <1>3
    DEF RecoveryMessage, Recover, RunInv, Interrupted, TypeOK, Absent
  <2>2. recovered'[x] # "no" => task'[x] = "done"
    BY <1>1, <1>2, <1>3, <1>4 DEF Unregistered, RunInv
  <2>3. QED
    BY <1>2, <2>1, <2>2 DEF Interrupted
<1>9. QED
  BY <1>5, <1>6, <1>7, <1>8 DEF RunInv

\* The invariant holds when the service starts for the first time.
LEMMA InitEstablishes == Init => IInv
<1> SUFFICES ASSUME Init PROVE IInv
  OBVIOUS
<1>1. TypeOK
  BY DEF Init, TypeOK, TaskStep, ConfirmStep, CancelStep, Clone, NoClone
<1>2. ASSUME NEW x \in Runs PROVE RunInv(x)
  BY DEF Init, RunInv, Unregistered, Undecided, Unclaimed, Claimed, Approved, Interrupted
<1>3. QED
  BY <1>1, <1>2 DEF IInv

\* Every step keeps the inductive invariant.
LEMMA NextPreserves == IInv /\ [Next]_vars => IInv'
<1> SUFFICES ASSUME IInv, [Next]_vars PROVE IInv'
  OBVIOUS
<1>1. TypeOK'
  <2>1. CASE UNCHANGED vars
    BY <2>1 DEF IInv, TypeOK, vars
  <2>2. QED
    BY <2>1, RegisterTyped, ExecuteTyped, ConfirmTyped, CancelTyped, ClockTyped,
       RestartTyped DEF Next, IInv
<1>2. ASSUME NEW x \in Runs PROVE RunInv(x)'
  <2>1. CASE UNCHANGED vars
    <3>1. Undisturbed(x)
      BY <2>1 DEF vars, Undisturbed
    <3>2. QED
      BY <3>1, UndisturbedKeeps DEF IInv
  <2>2. QED
    BY <2>1, RegisterKeeps, ExecuteKeeps, ConfirmKeeps, CancelKeeps, ClockKeeps,
       RestartKeeps DEF Next
<1>3. QED
  BY <1>1, <1>2 DEF IInv

\* The invariant behind every safety property of a run.
THEOREM Invariant == Spec => []IInv
BY InitEstablishes, NextPreserves, PTL DEF Spec

-----------------------------------------------------------------------------
(* What follows from it *)

\* No interleaving of confirm calls, cancel calls, expirations and restarts
\* executes a run's mutation twice.
THEOREM ExecutedAtMostOnce == Spec => []AtMostOnce
<1>1. IInv => AtMostOnce
  BY DEF IInv, RunInv, Claimed, AtMostOnce
<1>2. QED
  BY <1>1, Invariant, PTL

\* An executed mutation had a usable lease when the user approved it.
THEOREM ExecutedUnderLease == Spec => []ApprovedUnderLease
<1>1. IInv => ApprovedUnderLease
  BY DEF IInv, RunInv, Claimed, ApprovedUnderLease
<1>2. QED
  BY <1>1, Invariant, PTL

\* A plan that can be confirmed belongs to a run awaiting confirmation.
THEOREM NoOrphanPlan == Spec => []PlansAwait
<1>1. IInv => PlansAwait
  BY DEF IInv, TypeOK, RunInv, Unclaimed, PlansAwait
<1>2. QED
  BY <1>1, Invariant, PTL

\* What a step without a restart may do to the record of x: keep it, evict it
\* if it was finished, change it if it was not, or finish it.
RecordStep(x) ==
  \/ agent_runs'[x] = agent_runs[x]
  \/ agent_runs[x] \in Terminal /\ agent_runs'[x] = Absent
  \/ agent_runs[x] \notin Terminal /\ agent_runs'[x] # Absent
  \/ agent_runs'[x] \in Terminal

\* What one update may do to the records.
LEMMA UpdateRecordStep ==
  ASSUME IInv, NEW a \in Actor, NEW r \in Runs, NEW s \in AgentRunState,
         NEW e \in BOOLEAN, UpdateAgentRun(a, r, s, e),
         agent_runs[r] \notin Terminal \/ s \in Terminal, NEW x \in Runs
  PROVE  RecordStep(x)
<1>1. /\ \A y \in Runs \ {r} : agent_runs'[y] = agent_runs[y]
      /\ agent_runs[r] # Absent => agent_runs'[r] = s
      /\ agent_runs[r] = Absent => agent_runs'[r] = Absent
  BY UpdateFrame DEF IInv
<1>2. QED
  BY <1>1 DEF RecordStep, Absent

\* Every step of a thread does to the records only what RecordStep allows.
LEMMA RecordSteps ==
  ASSUME IInv, NEW r \in Runs, Register(r) \/ Execute(r) \/ Confirm(r) \/ Cancel(r),
         NEW x \in Runs
  PROVE  RecordStep(x)
<1>1. TypeOK /\ RunInv(r)
  BY DEF IInv
<1>2. CASE agent_runs' = agent_runs
  BY <1>2 DEF RecordStep
<1>3. CASE Register(r)
  <2>1. Oldest(TerminalRuns, Excess) \subseteq TerminalRuns
    BY SelectionSubset
  <2>2. CASE Reserve(r)
    BY <1>1, <2>1, <2>2 DEF Reserve, RecordStep, TypeOK, TerminalRuns
  <2>3. CASE ReserveFails(r)
    BY <1>1, <2>3 DEF ReserveFails, RecordStep, TypeOK, TerminalRuns
  <2>4. CASE Insert(r)
    BY <1>1, <2>4
    DEF Insert, RecordStep, TypeOK, RunInv, Unregistered, Absent
  <2>5. QED
    BY <1>3, <2>2, <2>3, <2>4 DEF Register
<1>4. CASE Execute(r) /\ agent_runs' # agent_runs
  <2>1. /\ task[r] \in {"prompt", "queued", "running"}
        /\ \E s \in AgentRunState, e \in BOOLEAN : UpdateAgentRun("task", r, s, e)
    BY <1>4
    DEF Execute, TaskProgress, TaskAt, TaskUpdate, PermissionDenied, PermissionGranted,
        ObserveCancel, Acquire, Finish, Propose, TimeOut, Return, Save, memory
  <2>2. agent_runs[r] \notin Terminal
    BY <1>1, <2>1 DEF RunInv, Undecided
  <2>3. QED
    BY <2>1, <2>2, UpdateRecordStep DEF Actor
<1>5. CASE Confirm(r) /\ agent_runs' # agent_runs
  <2>1. \E s \in Terminal : UpdateAgentRun("confirm", r, s, TRUE)
    BY <1>5
    DEF Confirm, ConfirmUpdate, ConfirmMove, ClaimPlan, PlanExpired, PlanDenied,
        PromptRefused, PromptApproved, Authorize, ExecuteConfirmed, ExecuteFails,
        RecordExecuted, ConfirmReturn, Save, memory
  <2>2. QED
    BY <2>1, UpdateRecordStep DEF Actor
<1>6. CASE Cancel(r) /\ agent_runs' # agent_runs
  <2>1. UpdateAgentRun("cancel", r, "Cancelled", TRUE)
    BY <1>6
    DEF Cancel, CancelSend, CancelSee, CancelDropPlan, CancelUpdate, CancelReturn,
        CancelMove, Save, memory
  <2>2. QED
    BY <2>1, UpdateRecordStep DEF Actor
<1>7. QED
  BY <1>2, <1>3, <1>4, <1>5, <1>6

\* Every step but a restart does to the records only what RecordStep allows.
LEMMA NextRecordStep ==
  ASSUME IInv, [Next]_vars, ~Restart, NEW x \in Runs
  PROVE  RecordStep(x)
<1>1. CASE agent_runs' = agent_runs
  BY <1>1 DEF RecordStep
<1>2. CASE agent_runs' # agent_runs
  <2>1. PICK r \in Runs : Register(r) \/ Execute(r) \/ Confirm(r) \/ Cancel(r)
    BY <1>2 DEF Next, Tick, Revoke, vars, memory
  <2>2. QED
    BY <2>1, RecordSteps
<1>3. QED
  BY <1>1, <1>2

\* A finished run never becomes active again.
THEOREM FinishedForGood == Spec => FinishedStaysFinished
<1>1. IInv /\ [Next]_vars =>
        [\A r \in Runs :
           agent_runs[r] \in Terminal => agent_runs'[r] \in Terminal \cup {Absent}]_vars
  <2> SUFFICES ASSUME IInv, [Next]_vars, NEW r \in Runs, agent_runs[r] \in Terminal
               PROVE  agent_runs'[r] \in Terminal \cup {Absent}
    OBVIOUS
  <2>1. CASE Restart
    BY <2>1 DEF Restart, Recover, IInv, TypeOK
  <2>2. CASE ~Restart
    BY <2>2, NextRecordStep DEF RecordStep
  <2>3. QED
    BY <2>1, <2>2
<1>2. QED
  BY <1>1, Invariant, PTL DEF Spec, FinishedStaysFinished

\* A running daemon forgets only finished runs.
THEOREM OnlyTerminalEvicted == Spec => EvictsOnlyTerminal
<1>1. IInv /\ [Next]_vars =>
        [\A r \in Runs :
           agent_runs[r] \in Active /\ agent_runs'[r] = Absent => Restart]_vars
  <2> SUFFICES ASSUME IInv, [Next]_vars, NEW r \in Runs, agent_runs[r] \in Active,
                      agent_runs'[r] = Absent, ~Restart
               PROVE  FALSE
    OBVIOUS
  <2>1. RecordStep(r)
    BY NextRecordStep
  <2>2. QED
    BY <2>1 DEF RecordStep, Absent
<1>2. QED
  BY <1>1, Invariant, PTL DEF Spec, EvictsOnlyTerminal

\* A run that a restart interrupted never runs, executes or is cancelled.
THEOREM InterruptedForGood == Spec => RecoveryNeverRevives
<1>1. IInv /\ IInv' /\ [Next]_vars =>
        [\A r \in Runs :
           recovered[r] # "no" =>
             /\ executed'[r] = executed[r]
             /\ agent_runs'[r] \in {"Failed", Absent}]_vars
  <2> SUFFICES ASSUME IInv, IInv', [Next]_vars, NEW x \in Runs, recovered[x] # "no"
               PROVE  executed'[x] = executed[x] /\ agent_runs'[x] \in {"Failed", Absent}
    OBVIOUS
  <2>1. RunInv(x) /\ RunInv(x)' /\ TypeOK
    BY DEF IInv
  <2>2. recovered'[x] # "no" /\ executed'[x] = executed[x]
    <3>1. CASE Restart
      BY <2>1, <3>1 DEF Restart, RecoveryMessage
    <3>2. CASE Tick \/ UNCHANGED vars
      BY <3>2 DEF Tick, vars, history
    <3>3. ASSUME NEW r \in Runs,
                 Register(r) \/ Execute(r) \/ Cancel(r) \/ Revoke(r)
          PROVE  UNCHANGED history
      BY <3>3
      DEF Register, Reserve, ReserveFails, Insert, Execute, TaskProgress, TaskUpdate,
          PermissionDenied, PermissionGranted, ObserveCancel, Acquire, Finish, Propose,
          TimeOut, Return, Cancel, CancelSend, CancelSee, CancelDropPlan, CancelUpdate,
          CancelReturn, CancelMove, Save, Revoke, history
    <3>4. ASSUME NEW r \in Runs, Confirm(r)
          PROVE  recovered' = recovered /\ (executed' = executed \/ ExecuteConfirmed(r))
      BY <3>4
      DEF Confirm, ClaimPlan, PlanExpired, PlanDenied, PromptRefused, PromptApproved,
          Authorize, ExecuteFails, RecordExecuted, ConfirmReturn, Save,
          ExecuteConfirmed, history
    <3>5. ASSUME NEW r \in Runs, ExecuteConfirmed(r)
          PROVE  executed'[x] = executed[x]
      BY <2>1, <3>5 DEF ExecuteConfirmed, ConfirmAt, RunInv, Interrupted, TypeOK
    <3>6. QED
      BY <3>1, <3>2, <3>3, <3>4, <3>5 DEF Next, history
  <2>3. QED
    BY <2>1, <2>2 DEF RunInv, Interrupted
<1>2. QED
  BY <1>1, Invariant, PTL DEF Spec, RecoveryNeverRevives

-----------------------------------------------------------------------------
(* Cancelled at the prompt *)

\* A cancellation is waiting for the prompt of r to return, or r ended without
\* ever being queued.
CalledOff(r) ==
  \/ task[r] = "prompt" /\ r \in cancel_sent
  \/ task[r] \in {"ending", "done"} /\ agent_runs[r] \in Terminal \cup {Absent}

\* A step of any thread does not bring back the record of a run that ended.
LEMMA EndedStays ==
  ASSUME IInv, NEW x \in Runs, Register(x) \/ Execute(x) \/ Confirm(x) \/ Cancel(x),
         NEW r \in Runs, task[r] \in {"ending", "done"}, agent_runs[r] \in Terminal \cup {Absent}
  PROVE  agent_runs'[r] \in Terminal \cup {Absent}
<1>1. TypeOK /\ RunInv(x)
  BY DEF IInv
<1>2. CASE agent_runs[r] \in Terminal
  BY <1>2, RecordSteps DEF RecordStep
<1>3. CASE agent_runs[r] = Absent /\ Register(x)
  BY <1>1, <1>3 DEF Register, Reserve, ReserveFails, Insert, TypeOK
<1>4. CASE agent_runs[r] = Absent /\ agent_runs' # agent_runs /\ ~Register(x)
  <2>1. \E a \in Actor, s \in AgentRunState, e \in BOOLEAN : UpdateAgentRun(a, x, s, e)
    <3>1. CASE Execute(x)
      <4>1. \E s \in AgentRunState, e \in BOOLEAN : UpdateAgentRun("task", x, s, e)
        BY <1>4, <3>1
        DEF Execute, TaskProgress, TaskAt, TaskUpdate, PermissionDenied, PermissionGranted,
            ObserveCancel, Acquire, Finish, Propose, TimeOut, Return, Save, memory,
            AgentRunState, Active, Terminal
      <4>2. QED
        BY <4>1 DEF Actor
    <3>2. CASE Confirm(x)
      <4>1. \E s \in Terminal : UpdateAgentRun("confirm", x, s, TRUE)
        BY <1>4, <3>2
        DEF Confirm, ConfirmUpdate, ConfirmMove, ClaimPlan, PlanExpired, PlanDenied,
            PromptRefused, PromptApproved, Authorize, ExecuteConfirmed, ExecuteFails,
            RecordExecuted, ConfirmReturn, Save, memory, Terminal
      <4>2. QED
        BY <4>1 DEF Actor, AgentRunState
    <3>3. CASE Cancel(x)
      <4>1. UpdateAgentRun("cancel", x, "Cancelled", TRUE)
        BY <1>4, <3>3
        DEF Cancel, CancelSend, CancelSee, CancelDropPlan, CancelUpdate, CancelReturn,
            CancelMove, Save, memory
      <4>2. QED
        BY <4>1 DEF Actor, AgentRunState, Terminal
    <3>4. QED
      BY <1>4, <3>1, <3>2, <3>3
  <2>2. agent_runs'[r] = Absent
    BY <1>1, <1>4, <2>1, UpdateFrame
  <2>3. QED
    BY <2>2
<1>5. CASE agent_runs' = agent_runs
  BY <1>5
<1>6. QED
  BY <1>2, <1>3, <1>4, <1>5

\* A run that was called off stays so: the only way on from its prompt with a
\* cancellation waiting is to end, and nothing leads back.
LEMMA CalledOffStays ==
  ASSUME NEW r \in Runs, IInv, CalledOff(r), [Next]_vars
  PROVE  CalledOff(r)'
<1>0. TypeOK /\ RunInv(r)
  BY DEF IInv
<1>1. CASE Tick \/ UNCHANGED vars \/ \E x \in Runs : Revoke(x)
  BY <1>1 DEF Tick, Revoke, vars, memory, signals, CalledOff
<1>2. CASE Restart
  <2>1. task'[r] = "done"
    BY <1>0, <1>2 DEF Restart, CalledOff, TypeOK
  <2>2. agent_runs'[r] \in Terminal \cup {Absent}
    BY <1>0, <1>2 DEF Restart, Recover, TypeOK, AgentRunState, Terminal
  <2>3. QED
    BY <2>1, <2>2 DEF CalledOff
<1>3. ASSUME NEW x \in Runs, Register(x) \/ Execute(x) \/ Confirm(x) \/ Cancel(x)
      PROVE  CalledOff(r)'
  <2>1. CASE task[r] \in {"ending", "done"} /\ agent_runs[r] \in Terminal \cup {Absent}
    <3>1. agent_runs'[r] \in Terminal \cup {Absent}
      BY <1>3, <2>1, EndedStays
    <3>2. task'[r] \in {"ending", "done"}
      BY <1>0, <1>3, <2>1
      DEF Register, Reserve, ReserveFails, Insert, Execute, TaskProgress, TaskAt, TaskUpdate,
          PermissionDenied, PermissionGranted, ObserveCancel, Acquire, Finish, Propose, TimeOut,
          Return, Confirm, ConfirmUpdate, ConfirmMove, ClaimPlan, PlanExpired, PlanDenied,
          PromptRefused, PromptApproved, Authorize, ExecuteConfirmed, ExecuteFails,
          RecordExecuted, ConfirmReturn, Cancel, CancelSend, CancelSee, CancelDropPlan,
          CancelUpdate, CancelReturn, CancelMove, Save, TypeOK
    <3>3. QED
      BY <3>1, <3>2 DEF CalledOff
  <2>2. CASE task[r] = "prompt" /\ r \in cancel_sent /\ x # r
    BY <1>0, <1>3, <2>2
    DEF Register, Reserve, ReserveFails, Insert, Execute, TaskProgress, TaskAt, TaskUpdate,
        PermissionDenied, PermissionGranted, ObserveCancel, Acquire, Finish, Propose, TimeOut,
        Return, DropSender, Confirm, ConfirmUpdate, ConfirmMove, ClaimPlan, PlanExpired,
        PlanDenied, PromptRefused, PromptApproved, Authorize, ExecuteConfirmed, ExecuteFails,
        RecordExecuted, ConfirmReturn, Cancel, CancelSend, CancelSee, CancelDropPlan,
        CancelUpdate, CancelReturn, CancelMove, Save, TypeOK, signals, CalledOff
  <2>3. CASE task[r] = "prompt" /\ r \in cancel_sent /\ x = r
    <3>1. agent_runs[r] = "WaitingForPermission" /\ confirm[r] = "idle" /\ cancel[r] = "idle"
            /\ r \notin pending_agent_actions
      BY <1>0, <2>3 DEF RunInv, Undecided
    <3>2. CASE Execute(r)
      <4>1. PermissionDenied(r) \/ PermissionGranted(r) \/ Save("task", r)
        BY <2>3, <3>2
        DEF Execute, TaskProgress, TaskAt, ObserveCancel, Acquire, Finish, Propose, TimeOut, Return
      <4>2. CASE PermissionDenied(r) \/ PermissionGranted(r)
        <5>1. \E s \in {"Failed", "Cancelled"} : TaskUpdate(r, s, TRUE, "ending")
          BY <2>3, <4>2 DEF PermissionDenied, PermissionGranted
        <5>2. task'[r] = "ending" /\ agent_runs'[r] \in Terminal
          BY <1>0, <3>1, <5>1 DEF TaskUpdate, UpdateAgentRun, TypeOK, Terminal, Absent
        <5>3. QED
          BY <5>2 DEF CalledOff
      <4>3. CASE Save("task", r)
        BY <2>3, <4>3 DEF Save, signals, CalledOff
      <4>4. QED
        BY <4>1, <4>2, <4>3
    <3>3. CASE Register(r)
      BY <2>3, <3>3 DEF Register, Reserve, ReserveFails, Insert
    <3>4. CASE Confirm(r)
      <4>1. Save("confirm", r)
        BY <3>1, <3>4
        DEF Confirm, ConfirmAt, ClaimPlan, PlanExpired, PlanDenied, PromptRefused,
            PromptApproved, Authorize, ExecuteConfirmed, ExecuteFails, RecordExecuted,
            ConfirmReturn
      <4>2. QED
        BY <2>3, <4>1 DEF Save, signals, CalledOff
    <3>5. CASE Cancel(r)
      <4>1. CancelSend(r) \/ Save("cancel", r)
        BY <3>1, <3>5
        DEF Cancel, CancelAt, CancelSee, CancelDropPlan, CancelUpdate, CancelReturn
      <4>2. QED
        BY <2>3, <4>1 DEF CancelSend, Save, signals, CalledOff
    <3>6. QED
      BY <1>3, <2>3, <3>2, <3>3, <3>4, <3>5
  <2>4. QED
    BY <2>1, <2>2, <2>3 DEF CalledOff
<1>4. QED
  BY <1>1, <1>2, <1>3 DEF Next

\* CancelledAtPromptNeverRuns: a run cancelled during its prompt is never
\* queued, run or proposed afterwards, whatever interleaves and restarts.
THEOREM CancelledAtPromptEnds == Spec => CancelledAtPromptNeverRuns
<1>1. ASSUME NEW r \in Runs
      PROVE  Spec => [](task[r] = "prompt" /\ r \in cancel_sent =>
                          [](agent_runs[r] \notin {"Queued", "Running", "AwaitingConfirmation"}))
  <2>1. CalledOff(r) /\ IInv /\ [Next]_vars => CalledOff(r)'
    BY CalledOffStays
  <2>2. task[r] = "prompt" /\ r \in cancel_sent => CalledOff(r)
    BY DEF CalledOff
  <2>3. CalledOff(r) /\ IInv =>
          agent_runs[r] \notin {"Queued", "Running", "AwaitingConfirmation"}
    BY DEF CalledOff, IInv, RunInv, Undecided, Terminal, Absent
  <2>4. QED
    BY <2>1, <2>2, <2>3, Invariant, PTL DEF Spec
<1>2. QED
  BY <1>1 DEF CancelledAtPromptNeverRuns

-----------------------------------------------------------------------------
(***************************************************************************)
(* AgentRuns implements PlanGate.                                          *)
(*                                                                         *)
(* Most steps leave every mutation where it is or call it off; they map to *)
(* PlanGate's CallOff, of no run when nothing changes. What is left are    *)
(* the six steps that bring a mutation on its way. The invariant says      *)
(* where each of them finds its run.                                       *)
(***************************************************************************)

\* The mutation of x keeps its place, or it was on its way and is called off.
StaysOrFalls(x) ==
  \/ GateOf(x)' = GateOf(x)
  \/ GateOf(x) \in Gate!Pending /\ GateOf(x)' = "void"

\* A step that calls mutations off and grants nothing is a step of PlanGate.
LEMMA CallingOff ==
  ASSUME \A x \in Runs : StaysOrFalls(x),
         LiveLeases' \subseteq LiveLeases, executed' = executed
  PROVE  Gate!Next
<1> DEFINE S == {x \in Runs : GateOf(x)' # GateOf(x)}
           gate == [x \in Runs |-> GateOf(x)]
<1>1. S \in SUBSET Runs /\ \A x \in S : gate[x] \in Gate!Pending
  BY DEF StaysOrFalls
<1>2. gate' = [x \in Runs |-> IF x \in S THEN "void" ELSE gate[x]]
  <2>1. \A x \in Runs : GateOf(x)' = IF x \in S THEN "void" ELSE gate[x]
    BY DEF StaysOrFalls
  <2>2. QED
    BY <2>1
<1>3. Gate!CallOff(S)
  BY <1>1, <1>2 DEF Gate!CallOff
<1>4. QED
  BY <1>1, <1>3 DEF Gate!Next

\* What decides the place of a mutation did not change for x.
SameGate(x) ==
  /\ x \in pending_agent_actions <=> x \in pending_agent_actions'
  /\ confirm'[x] = confirm[x] /\ task'[x] = task[x] /\ executed'[x] = executed[x]

\* A mutation whose thread state and plan do not change keeps its gate.
LEMMA SameGateStays ==
  ASSUME NEW x \in Runs, SameGate(x)
  PROVE  GateOf(x)' = GateOf(x)
BY DEF SameGate, GateOf

\* A step that moves one mutation only.
LEMMA OneMoves ==
  ASSUME NEW r \in Runs, NEW to, GateOf(r)' = to,
         \A x \in Runs \ {r} : GateOf(x)' = GateOf(x)
  PROVE  [x \in Runs |-> GateOf(x)]' = [[x \in Runs |-> GateOf(x)] EXCEPT ![r] = to]
<1>1. \A x \in Runs : GateOf(x)' = IF x = r THEN to ELSE GateOf(x)
  OBVIOUS
<1>2. QED
  BY <1>1

-----------------------------------------------------------------------------
(* The steps that bring a mutation on its way *)

\* Registering a run starts a mutation, or is a stutter.
LEMMA RegisterMaps ==
  ASSUME IInv, NEW r \in Runs, Register(r)
  PROVE  Gate!Next
<1> USE DEF signals, timers, history
<1>1. TypeOK /\ RunInv(r)
  BY DEF IInv
<1>2. CASE Reserve(r) \/ ReserveFails(r)
  <2>1. \A x \in Runs \ {r} : GateOf(x)' = GateOf(x)
    BY <1>1, <1>2, SameGateStays DEF Reserve, ReserveFails, SameGate, TypeOK
  <2>2. GateOf(r) = "unborn"
    BY <1>1, <1>2 DEF Reserve, ReserveFails, RunInv, Undecided, GateOf
  <2>3. GateOf(r)' \in {"open", "void"}
    BY <1>1, <1>2 DEF Reserve, ReserveFails, RunInv, Undecided, GateOf, TypeOK
  <2>4. LiveLeases' = LiveLeases \cup {r}
    BY <1>1, <1>2, LeaseWithinRun DEF Reserve, ReserveFails, LiveLeases, TypeOK
  <2>5. executed' = executed
    BY <1>2 DEF Reserve, ReserveFails
  <2>6. [x \in Runs |-> GateOf(x)]'
          = [[x \in Runs |-> GateOf(x)] EXCEPT ![r] = GateOf(r)']
    BY <2>1, OneMoves
  <2>7. Gate!Start(r)
    BY <2>2, <2>3, <2>4, <2>5, <2>6 DEF Gate!Start, Gate!Pass
  <2>8. QED
    BY <2>7 DEF Gate!Next
<1>3. CASE Insert(r)
  <2>1. ASSUME NEW x \in Runs PROVE StaysOrFalls(x)
    <3>1. CASE x = r
      BY <1>1, <1>3, <3>1 DEF Insert, RunInv, Undecided, GateOf, StaysOrFalls, TypeOK
    <3>2. CASE x # r
      BY <1>1, <1>3, <3>2, SameGateStays DEF Insert, SameGate, StaysOrFalls, TypeOK
    <3>3. QED
      BY <3>1, <3>2
  <2>2. LiveLeases' = LiveLeases /\ executed' = executed
    BY <1>3 DEF Insert, LiveLeases
  <2>3. QED
    BY <2>1, <2>2, CallingOff
<1>4. QED
  BY <1>2, <1>3 DEF Register

\* A proposal is an offer that calls expired plans off.
LEMMA ProposeMaps ==
  ASSUME IInv, NEW r \in Runs, Propose(r)
  PROVE  Gate!Next
<1> USE DEF signals, history
<1>1. TypeOK /\ \A x \in Runs : RunInv(x)
  BY DEF IInv
<1>2. /\ task[r] = "running" /\ confirm' = confirm /\ executed' = executed
      /\ task' = [task EXCEPT ![r] = "leaving"]
      /\ lease_left' = lease_left
  BY DEF Propose, TaskAt, TaskUpdate
<1>3. r \notin pending_agent_actions /\ confirm[r] = "idle" /\ executed[r] = 0
  BY <1>1, <1>2 DEF RunInv, Undecided
<1>4. LiveLeases' = LiveLeases
  BY <1>2 DEF LiveLeases
<1>5. \A x \in pending_agent_actions :
        confirm[x] = "idle" /\ executed[x] = 0 /\ task[x] \in {"leaving", "ending", "done"}
  BY <1>1 DEF RunInv, Unclaimed, Undecided, TypeOK, TaskStep
<1> DEFINE expired == pending_agent_actions \ UnexpiredPlans
<1>6. UnexpiredPlans \subseteq pending_agent_actions
  BY DEF UnexpiredPlans
<1>7. \A x \in Runs \ {r} :
        /\ GateOf(x)' = IF x \in expired THEN "void" ELSE GateOf(x)
        /\ x \in expired => GateOf(x) = "waiting"
  <2> SUFFICES ASSUME NEW x \in Runs, x # r
               PROVE  /\ GateOf(x)' = IF x \in expired THEN "void" ELSE GateOf(x)
                      /\ x \in expired => GateOf(x) = "waiting"
    OBVIOUS
  <2>1. confirm'[x] = confirm[x] /\ task'[x] = task[x] /\ executed'[x] = executed[x]
    BY <1>1, <1>2 DEF TypeOK
  <2>2. x \in pending_agent_actions' <=> x \in UnexpiredPlans
    BY DEF Propose
  <2>3. CASE x \in expired
    BY <1>5, <2>1, <2>2, <2>3 DEF GateOf
  <2>4. CASE x \notin expired
    <3>1. SameGate(x)
      BY <1>6, <2>1, <2>2, <2>4 DEF SameGate
    <3>2. QED
      BY <2>4, <3>1, SameGateStays
  <2>5. QED
    BY <2>3, <2>4
<1>8. GateOf(r) = "open" /\ r \notin expired
  BY <1>2, <1>3 DEF GateOf
<1>9. CASE Cardinality(UnexpiredPlans) >= MaxPending
  <2>1. r \notin pending_agent_actions'
    BY <1>3, <1>6, <1>9 DEF Propose
  <2>2. GateOf(r)' = "void"
    BY <1>1, <1>2, <1>3, <2>1 DEF GateOf, TypeOK
  <2>3. \A x \in Runs : StaysOrFalls(x)
    BY <1>7, <1>8, <2>2 DEF StaysOrFalls, Gate!Pending
  <2>4. QED
    BY <1>2, <1>4, <2>3, CallingOff
<1>10. CASE ~(Cardinality(UnexpiredPlans) >= MaxPending)
  <2>1. r \in pending_agent_actions'
    BY <1>10 DEF Propose
  <2>2. GateOf(r)' = "waiting"
    BY <2>1 DEF GateOf
  <2>3. \A x \in Runs :
          GateOf(x)' = IF x = r THEN "waiting"
                       ELSE IF x \in expired THEN "void" ELSE GateOf(x)
    BY <1>7, <2>2
  <2>4. expired \in SUBSET Runs
    BY <1>1 DEF TypeOK
  <2>5. Gate!Offer(r, expired)
    BY <1>2, <1>4, <1>7, <1>8, <2>3, <2>4 DEF Gate!Offer
  <2>6. QED
    BY <2>4, <2>5 DEF Gate!Next
<1>11. QED
  BY <1>9, <1>10

\* Everything else the task of a run does ends a mutation that is still open,
\* or changes nothing about it.
LEMMA ExecuteMaps ==
  ASSUME IInv, NEW r \in Runs, Execute(r)
  PROVE  Gate!Next
<1> USE DEF memory, signals, timers, history
<1>1. TypeOK /\ RunInv(r)
  BY DEF IInv
<1>2. CASE Propose(r)
  BY <1>2, ProposeMaps
<1>3. CASE ~Propose(r)
  <2>1. /\ pending_agent_actions' = pending_agent_actions
        /\ confirm' = confirm /\ executed' = executed /\ lease_left' = lease_left
    BY <1>3
    DEF Execute, TaskProgress, TaskUpdate, PermissionDenied, PermissionGranted,
        ObserveCancel, Acquire, Finish, TimeOut, Return, Save
  <2>2. \/ task' = task
        \/ /\ task[r] \in {"prompt", "queued", "running", "ending", "leaving"}
           /\ \E next \in {"queued", "running", "ending", "leaving", "done"} :
                task' = [task EXCEPT ![r] = next]
           /\ task[r] \in {"ending", "leaving"} => task'[r] = "done"
    BY <1>1, <1>3
    DEF Execute, TaskProgress, TaskAt, TaskUpdate, PermissionDenied, PermissionGranted,
        ObserveCancel, Acquire, Finish, TimeOut, Return, Save, TypeOK
  <2>3. ASSUME NEW x \in Runs PROVE StaysOrFalls(x)
    <3>1. CASE x # r \/ task' = task
      <4>1. SameGate(x)
        BY <1>1, <2>1, <2>2, <3>1 DEF SameGate, TypeOK
      <4>2. QED
        BY <4>1, SameGateStays DEF StaysOrFalls
    <3>2. CASE x = r /\ task' # task
      BY <1>1, <2>1, <2>2, <3>2
      DEF StaysOrFalls, GateOf, Gate!Pending, RunInv, Undecided, TypeOK
    <3>3. QED
      BY <3>1, <3>2
  <2>4. LiveLeases' = LiveLeases
    BY <2>1 DEF LiveLeases
  <2>5. QED
    BY <2>1, <2>3, <2>4, CallingOff
<1>4. QED
  BY <1>2, <1>3

\* A confirm call closes its run: a mutation it had claimed is called off.
LEMMA ClosingMaps ==
  ASSUME IInv, NEW r \in Runs, NEW s, confirm[r] # "idle", ConfirmUpdate(r, s),
         UNCHANGED history
  PROVE  Gate!Next
<1> USE DEF signals, timers, history
<1>1. TypeOK /\ RunInv(r)
  BY DEF IInv
<1>2. /\ pending_agent_actions' = pending_agent_actions
      /\ task' = task /\ executed' = executed /\ lease_left' = lease_left
      /\ confirm' = [confirm EXCEPT ![r] = "closing"]
  BY DEF ConfirmUpdate
<1>3. ASSUME NEW x \in Runs PROVE StaysOrFalls(x)
  <2>1. CASE x # r
    <3>1. SameGate(x)
      BY <1>1, <1>2, <2>1 DEF SameGate, TypeOK
    <3>2. QED
      BY <3>1, SameGateStays DEF StaysOrFalls
  <2>2. CASE x = r
    <3>1. r \notin pending_agent_actions /\ confirm'[r] = "closing"
          /\ task[r] \notin {"new", "reserved", "prompt", "queued", "running"}
      BY <1>1, <1>2 DEF RunInv, Undecided, Unclaimed, TypeOK
    <3>2. QED
      BY <1>1, <1>2, <2>2, <3>1
      DEF StaysOrFalls, GateOf, Gate!Pending, RunInv, Claimed
  <2>3. QED
    BY <2>1, <2>2
<1>4. LiveLeases' = LiveLeases
  BY <1>2 DEF LiveLeases
<1>5. QED
  BY <1>2, <1>3, <1>4, CallingOff

\* A step of a confirm call claims, approves, authorizes, executes, calls off or stutters.
LEMMA ConfirmMaps ==
  ASSUME IInv, NEW r \in Runs, Confirm(r)
  PROVE  Gate!Next
<1> USE DEF memory, signals, history
<1>1. TypeOK /\ RunInv(r)
  BY DEF IInv
<1>2. CASE Save("confirm", r)
  <2>1. \A x \in Runs : SameGate(x)
    BY <1>2 DEF Save, SameGate, timers
  <2>2. LiveLeases' = LiveLeases /\ executed' = executed
    BY <1>2 DEF Save, timers, LiveLeases
  <2>3. QED
    BY <2>1, <2>2, SameGateStays, CallingOff DEF StaysOrFalls
<1>3. CASE \/ PlanExpired(r) \/ PlanDenied(r) \/ PromptRefused(r) \/ ExecuteFails(r)
           \/ RecordExecuted(r) \/ (Authorize(r) /\ ~LeaseLive(r))
  BY <1>3, ClosingMaps
  DEF PlanExpired, PlanDenied, PromptRefused, ExecuteFails, RecordExecuted, Authorize,
      ConfirmAt
<1>4. CASE \/ ClaimPlan(r) \/ PromptApproved(r) \/ (Authorize(r) /\ LeaseLive(r))
           \/ ExecuteConfirmed(r) \/ ConfirmReturn(r)
  <2>1. PICK step \in ConfirmStep : ConfirmMove(r, step)
    BY <1>4 DEF ClaimPlan, PromptApproved, Authorize, ExecuteConfirmed, ConfirmReturn,
                ConfirmStep
  <2>2. /\ task' = task /\ LiveLeases' = LiveLeases
        /\ confirm' = [confirm EXCEPT ![r] = step]
    BY <2>1 DEF ConfirmMove, LiveLeases
  <2>3. \A x \in Runs \ {r} : GateOf(x)' = GateOf(x)
    <3>1. \A x \in Runs \ {r} : executed'[x] = executed[x]
            /\ (x \in pending_agent_actions <=> x \in pending_agent_actions')
      BY <1>1, <1>4
      DEF ClaimPlan, PromptApproved, Authorize, ExecuteConfirmed, ConfirmReturn, TypeOK
    <3>2. \A x \in Runs \ {r} : SameGate(x)
      BY <1>1, <2>2, <3>1 DEF SameGate, TypeOK
    <3>3. QED
      BY <3>2, SameGateStays
  <2>4. [x \in Runs |-> GateOf(x)]'
          = [[x \in Runs |-> GateOf(x)] EXCEPT ![r] = GateOf(r)']
    BY <2>3, OneMoves
  <2>5. confirm'[r] = step
    BY <1>1, <2>2 DEF TypeOK
  <2>6. task[r] \notin {"new", "reserved", "prompt", "queued", "running"}
    BY <1>1, <1>4
    DEF ClaimPlan, PromptApproved, Authorize, ExecuteConfirmed, ConfirmReturn, ConfirmAt,
        RunInv, Undecided
  <2>7. CASE ClaimPlan(r)
    <3>1. /\ r \notin pending_agent_actions' /\ r \in pending_agent_actions
          /\ executed' = executed /\ executed[r] = 0
          /\ GateOf(r) = "waiting"
      BY <1>1, <2>7 DEF ClaimPlan, RunInv, Unclaimed, GateOf
    <3>2. step \in {"expired", "denied", "prompt"}
      BY <1>1, <2>5, <2>7 DEF ClaimPlan, ConfirmMove, TypeOK
    <3>3. CASE step = "prompt"
      <4>1. GateOf(r)' = "claimed"
        BY <2>5, <3>1, <3>3 DEF GateOf
      <4>2. Gate!Claim(r)
        BY <2>2, <2>4, <3>1, <4>1 DEF Gate!Claim, Gate!Pass
      <4>3. QED
        BY <4>2 DEF Gate!Next
    <3>4. CASE step # "prompt"
      <4>1. GateOf(r)' = "void"
        BY <2>2, <2>5, <2>6, <3>1, <3>2, <3>4 DEF GateOf
      <4>2. \A x \in Runs : StaysOrFalls(x)
        BY <2>3, <3>1, <4>1 DEF StaysOrFalls, Gate!Pending
      <4>3. QED
        BY <2>2, <3>1, <4>2, CallingOff
    <3>5. QED
      BY <3>3, <3>4
  <2>8. CASE PromptApproved(r)
    <3>1. /\ r \notin pending_agent_actions /\ executed' = executed
          /\ pending_agent_actions' = pending_agent_actions
          /\ confirm[r] = "prompt" /\ step = "approved"
      BY <1>1, <2>5, <2>8
      DEF PromptApproved, ConfirmAt, ConfirmMove, RunInv, Unclaimed, TypeOK
    <3>2. GateOf(r) = "claimed" /\ GateOf(r)' = "approved"
      BY <2>5, <3>1 DEF GateOf
    <3>3. Gate!Approve(r)
      BY <2>2, <2>4, <3>1, <3>2 DEF Gate!Approve, Gate!Pass
    <3>4. QED
      BY <3>3 DEF Gate!Next
  <2>9. CASE Authorize(r) /\ LeaseLive(r)
    <3>1. /\ r \notin pending_agent_actions /\ executed' = executed
          /\ pending_agent_actions' = pending_agent_actions
          /\ confirm[r] = "approved" /\ step = "authorized"
      BY <1>1, <2>5, <2>9
      DEF Authorize, ConfirmAt, ConfirmMove, RunInv, Unclaimed, TypeOK
    <3>2. GateOf(r) = "approved" /\ GateOf(r)' = "authorized"
      BY <2>5, <3>1 DEF GateOf
    <3>3. r \in LiveLeases
      BY <2>9 DEF LeaseLive, LiveLeases
    <3>4. Gate!Authorize(r)
      BY <2>2, <2>4, <3>1, <3>2, <3>3 DEF Gate!Authorize, Gate!Pass
    <3>5. QED
      BY <3>4 DEF Gate!Next
  <2>10. CASE ExecuteConfirmed(r)
    <3>1. /\ r \notin pending_agent_actions /\ executed' = [executed EXCEPT ![r] = @ + 1]
          /\ pending_agent_actions' = pending_agent_actions
          /\ confirm[r] = "authorized" /\ step = "executed"
          /\ executed[r] = 0
      BY <1>1, <2>5, <2>10
      DEF ExecuteConfirmed, ConfirmAt, ConfirmMove, RunInv, Unclaimed, Claimed, TypeOK
    <3>2. executed'[r] = 1
      BY <1>1, <3>1 DEF TypeOK
    <3>3. GateOf(r) = "authorized" /\ GateOf(r)' = "executed"
      BY <2>5, <3>1, <3>2 DEF GateOf
    <3>4. Gate!Execute(r)
      BY <2>2, <2>4, <3>1, <3>3 DEF Gate!Execute, Gate!Pass
    <3>5. QED
      BY <3>4 DEF Gate!Next
  <2>11. CASE ConfirmReturn(r)
    <3>1. /\ pending_agent_actions' = pending_agent_actions /\ executed' = executed
          /\ confirm[r] = "closing" /\ step = "idle"
      BY <1>1, <2>5, <2>11 DEF ConfirmReturn, ConfirmAt, ConfirmMove, TypeOK
    <3>2. GateOf(r)' = GateOf(r)
      BY <2>2, <2>5, <3>1 DEF GateOf
    <3>3. \A x \in Runs : StaysOrFalls(x)
      BY <2>3, <3>2 DEF StaysOrFalls
    <3>4. QED
      BY <2>2, <3>1, <3>3, CallingOff
  <2>12. QED
    BY <1>4, <2>7, <2>8, <2>9, <2>10, <2>11
<1>5. QED
  BY <1>2, <1>3, <1>4 DEF Confirm

-----------------------------------------------------------------------------
(* The steps that can only call off *)

\* A step of a cancel call calls off or stutters.
LEMMA CancelMaps ==
  ASSUME IInv, NEW r \in Runs, Cancel(r)
  PROVE  Gate!Next
<1> USE DEF memory, signals, timers, history
<1>1. TypeOK /\ RunInv(r)
  BY DEF IInv
<1>2. task' = task /\ confirm' = confirm /\ executed' = executed
      /\ lease_left' = lease_left
  BY DEF Cancel, CancelSend, CancelSee, CancelDropPlan, CancelUpdate, CancelReturn,
         CancelMove, Save
<1>3. \/ pending_agent_actions' = pending_agent_actions
      \/ pending_agent_actions' = pending_agent_actions \ {r}
  BY DEF Cancel, CancelSend, CancelSee, CancelDropPlan, CancelUpdate, CancelReturn,
         CancelMove, Save
<1>4. ASSUME NEW x \in Runs PROVE StaysOrFalls(x)
  <2>1. CASE x \in pending_agent_actions <=> x \in pending_agent_actions'
    <3>1. SameGate(x)
      BY <1>2, <2>1 DEF SameGate
    <3>2. QED
      BY <3>1, SameGateStays DEF StaysOrFalls
  <2>2. CASE ~(x \in pending_agent_actions <=> x \in pending_agent_actions')
    <3>1. x = r /\ r \in pending_agent_actions /\ r \notin pending_agent_actions'
      BY <1>3, <2>2
    <3>2. confirm[r] = "idle" /\ executed[r] = 0
          /\ task[r] \notin {"new", "reserved", "prompt", "queued", "running"}
      BY <1>1, <3>1 DEF RunInv, Unclaimed, Undecided
    <3>3. QED
      BY <1>2, <3>1, <3>2 DEF StaysOrFalls, GateOf, Gate!Pending
  <2>3. QED
    BY <2>1, <2>2
<1>5. LiveLeases' = LiveLeases
  BY <1>2 DEF LiveLeases
<1>6. QED
  BY <1>2, <1>4, <1>5, CallingOff

\* The clock can only take leases away.
LEMMA ClockMaps ==
  ASSUME IInv, Tick \/ \E r \in Runs : Revoke(r)
  PROVE  Gate!Next
<1>1. TypeOK
  BY DEF IInv
<1>2. /\ task' = task /\ confirm' = confirm /\ executed' = executed
      /\ pending_agent_actions' = pending_agent_actions
  BY DEF Tick, Revoke, history
<1>3. \A x \in Runs : StaysOrFalls(x)
  BY <1>2, SameGateStays DEF SameGate, StaysOrFalls
<1>4. ASSUME NEW x \in Runs, lease_left'[x] > 0
      PROVE  lease_left[x] > 0
  <2>1. lease_left[x] \in Nat /\ lease_left \in [Runs -> Nat]
    BY <1>1 DEF TypeOK
  <2>2. CASE Tick
    <3>1. lease_left'[x] = IF lease_left[x] > 0 THEN lease_left[x] - 1 ELSE 0
      BY <2>2 DEF Tick, CountDown
    <3>2. QED
      BY <1>4, <2>1, <3>1
  <2>3. CASE \E r \in Runs : Revoke(r)
    <3>1. PICK r \in Runs : lease_left' = [lease_left EXCEPT ![r] = 0]
      BY <2>3 DEF Revoke
    <3>2. QED
      BY <1>4, <2>1, <3>1
  <2>4. QED
    BY <2>2, <2>3
<1>5. LiveLeases' \subseteq LiveLeases
  BY <1>4 DEF LiveLeases
<1>6. QED
  BY <1>2, <1>3, <1>5, CallingOff

\* A restart calls everything off.
LEMMA RestartMaps ==
  ASSUME IInv, Restart
  PROVE  Gate!Next
<1>1. ASSUME NEW x \in Runs PROVE StaysOrFalls(x)
  <2>1. RunInv(x) /\ TypeOK
    BY DEF IInv
  <2>2. /\ task'[x] = IF task[x] = "new" THEN "new" ELSE "done"
        /\ confirm'[x] = "idle" /\ x \notin pending_agent_actions'
        /\ executed'[x] = executed[x]
    BY DEF Restart
  <2>3. task[x] = "new" => SameGate(x)
    BY <2>1, <2>2 DEF SameGate, RunInv, Undecided
  <2>4. CASE task[x] = "new"
    BY <2>3, <2>4, SameGateStays DEF StaysOrFalls
  <2>5. CASE task[x] # "new"
    <3>1. GateOf(x)' = IF executed[x] > 0 THEN "executed" ELSE "void"
      BY <2>2, <2>5 DEF GateOf
    <3>2. GateOf(x) \in Gate!Pending \/ GateOf(x) = GateOf(x)'
      BY <2>1, <2>5, <3>1 DEF GateOf, Gate!Pending, TypeOK, TaskStep
    <3>3. GateOf(x) \in Gate!Pending => executed[x] = 0
      BY <2>1 DEF GateOf, Gate!Pending, RunInv, Undecided, Unclaimed, Claimed, TypeOK
    <3>4. QED
      BY <3>1, <3>2, <3>3 DEF StaysOrFalls
  <2>6. QED
    BY <2>4, <2>5
<1>2. LiveLeases' \subseteq LiveLeases /\ executed' = executed
  BY DEF Restart, LiveLeases
<1>3. QED
  BY <1>1, <1>2, CallingOff

\* The mutation of an agent run goes the way PlanGate says: offered once, owned
\* by one call at a time, executed at most once and only by the call whose prompt
\* was approved and whose lease was checked, and never revived once called off.
THEOREM GateImplemented == Spec => PlanGateSpec
<1>1. Init => Gate!Init
  <2> SUFFICES ASSUME Init PROVE Gate!Init
    OBVIOUS
  <2>1. \A x \in Runs : GateOf(x) = "unborn"
    BY DEF Init, GateOf
  <2>2. LiveLeases = {}
    BY DEF Init, LiveLeases
  <2>3. QED
    BY <2>1, <2>2 DEF Gate!Init, Init
<1>2. IInv /\ [Next]_vars => [Gate!Next]_Gate!gateVars
  <2>1. CASE UNCHANGED vars
    BY <2>1 DEF vars, Gate!gateVars, GateOf, LiveLeases
  <2>2. ASSUME IInv, Next PROVE Gate!Next
    BY <2>2, RegisterMaps, ExecuteMaps, ConfirmMaps, CancelMaps, ClockMaps, RestartMaps
    DEF Next
  <2>3. QED
    BY <2>1, <2>2
<1>3. QED
  BY <1>1, <1>2, Invariant, PTL DEF Spec, PlanGateSpec, Gate!Spec
=============================================================================
