------------------------------ MODULE Workflows ------------------------------
(***************************************************************************)
(* One workflow of the AI service: the supervisor task that walks its DAG  *)
(* of nodes and runs an agent for each (run_workflow), the clients that    *)
(* pause, cancel and retry it, its row in the database and the restart of  *)
(* the daemon. A child run is seen from outside: AgentRuns models it.      *)
(*                                                                         *)
(* The supervisor works on snapshots: it reads the status, releases the    *)
(* lock, and acts on what it read. A retry gets a new run id; the model    *)
(* keeps the latest run only and retries once its supervisor returned.     *)
(***************************************************************************)
EXTENDS Naturals, FiniteSets

CONSTANTS
  Nodes,           \* nodes of the definition
  DependsOn,       \* depends_on of each node
  Limits,          \* the max_parallelism and max_total_tokens of definitions;
                   \* every artifact costs one token
  DeadlineTicks,   \* timeout_seconds
  MaxRetries       \* bound on retry_workflow

ASSUME NodesFinite == IsFiniteSet(Nodes) /\ Nodes # {}
ASSUME DependsOnNodes == DependsOn \in [Nodes -> SUBSET Nodes]
ASSUME WorkflowBounds ==
  /\ Limits \subseteq [max_parallelism : Nat \ {0}, max_total_tokens : Nat \ {0}]
  /\ DeadlineTicks \in Nat \ {0} /\ MaxRetries \in Nat

VARIABLES
  state,         \* WorkflowRunState
  node,          \* WorkflowNodeState of each node
  artifacts,     \* nodes whose artifact is published
  row,           \* the saved status, or NoRow
  child,         \* the agent run started for each node
  cancel_sent,   \* nodes whose agent run was told to cancel
  deadline_left, \* ticks before deadline_at_unix
  sup,           \* where run_workflow is
  todo,          \* nodes its current loop still has to look at
  launched,      \* node whose agent started and is not marked Running yet
  victims,       \* agent runs cancel_workflow still has to cancel
  persist,       \* persist_workflow of each thread: idle, due or cloned
  clone,         \* the status it cloned
  limits,        \* those of the workflow that was started
  retries        \* retries made so far

status == <<state, node, artifacts>>
vars == <<state, node, artifacts, row, child, cancel_sent, deadline_left, sup, todo,
          launched, victims, persist, clone, limits, retries>>
job == <<limits, retries>>

-----------------------------------------------------------------------------
Terminal      == {"Completed", "Failed", "Cancelled"}
WorkflowState == {"Running", "Paused"} \cup Terminal
NodeState     == {"Pending", "Running", "Completed", "Failed", "Cancelled"}

\* A child is Forgotten when its finished record was evicted before it was read.
ChildState == {"none", "active", "Completed", "Failed", "Cancelled", "Forgotten"}

Supervisor == "supervisor"
Client     == "client"
Thread     == {Supervisor, Client}
SupStep    == {"none", "record", "lost", "top", "poll", "check", "complete", "start", "fail",
               "failing", "done"}

Status == [state : WorkflowState, node : [Nodes -> NodeState], artifacts : SUBSET Nodes]
NoRow  == [state |-> "Absent", node |-> [n \in Nodes |-> "Pending"], artifacts |-> {}]
Now    == [state |-> state, node |-> node, artifacts |-> artifacts]

InState(s) == {n \in Nodes : node[n] = s}

Init ==
  /\ state = "Absent"
  /\ node = [n \in Nodes |-> "Pending"]
  /\ artifacts = {}
  /\ row = NoRow
  /\ child = [n \in Nodes |-> "none"]
  /\ cancel_sent = {}
  /\ deadline_left = 0
  /\ sup = "none" /\ todo = {} /\ launched = {} /\ victims = {}
  /\ persist = [t \in Thread |-> "idle"]
  /\ clone = [t \in Thread |-> NoRow]
  /\ limits \in Limits /\ retries = 0

-----------------------------------------------------------------------------
(* persist_workflow: clone the status under the lock, save it after *)

Idle(t) == persist[t] = "idle"
Due(t)  == persist' = [persist EXCEPT ![t] = "due"]

PersistClone(t) ==
  /\ persist[t] = "due"
  /\ clone' = [clone EXCEPT ![t] = Now]
  /\ persist' = [persist EXCEPT ![t] = "cloned"]
  /\ UNCHANGED <<status, row, child, cancel_sent, deadline_left, sup, todo, launched,
                 victims, job>>

PersistSave(t) ==
  /\ persist[t] = "cloned"
  /\ row' = clone[t]
  /\ clone' = [clone EXCEPT ![t] = NoRow]
  /\ persist' = [persist EXCEPT ![t] = "idle"]
  /\ UNCHANGED <<status, child, cancel_sent, deadline_left, sup, todo, launched,
                 victims, job>>

Persist(t) == PersistClone(t) \/ PersistSave(t)

-----------------------------------------------------------------------------
(* start_workflow_from *)

\* A new run: nodes with an artifact in the checkpoint are Completed. The call
\* persists it and records a control event before it spawns the supervisor.
Begin(checkpoint) ==
  /\ state' = "Running"
  /\ artifacts' = checkpoint
  /\ node' = [n \in Nodes |-> IF n \in checkpoint THEN "Completed" ELSE "Pending"]
  /\ child' = [n \in Nodes |-> "none"]
  /\ cancel_sent' = {}
  /\ deadline_left' = DeadlineTicks
  /\ sup' = "record"
  /\ Due(Supervisor)
  /\ UNCHANGED <<row, todo, launched, victims, clone>>

StartWorkflow ==
  /\ state = "Absent"
  /\ Begin({})
  /\ limits' \in Limits
  /\ UNCHANGED retries

RetryWorkflow ==
  /\ state \in Terminal
  /\ sup \in {"done", "lost"} /\ victims = {} /\ \A t \in Thread : Idle(t)
  /\ retries < MaxRetries
  /\ Begin(artifacts)
  /\ retries' = retries + 1
  /\ UNCHANGED limits

-----------------------------------------------------------------------------
(* run_workflow *)

SupAt(step) == sup = step /\ Idle(Supervisor)

SupMove(step, nodes) ==
  /\ sup' = step /\ todo' = nodes
  /\ UNCHANGED <<row, deadline_left, victims, clone, job>>

\* The rest of start_workflow_from: the control event is recorded and the
\* supervisor spawned, or the call fails and leaves the run without one.
RecordStart ==
  /\ SupAt("record")
  /\ SupMove("top", {}) \/ SupMove("lost", {})
  /\ UNCHANGED <<status, persist, child, cancel_sent, launched>>

\* fail_workflow: a terminal state is left alone. cancel_workflow_children
\* follows as the supervisor's last step.
FailWorkflow ==
  /\ state' = IF state \in Terminal THEN state ELSE "Failed"
  /\ Due(Supervisor)
  /\ SupMove("failing", {})
  /\ UNCHANGED artifacts

\* Mutant: a paused workflow sleeps before its deadline is looked at.
PauseHidesDeadline ==
  /\ SupAt("top")
  /\ state # "Paused"
  /\ \/ /\ state \in Terminal
        /\ SupMove("done", {})
        /\ UNCHANGED <<status, persist>>
     \/ /\ state \notin Terminal /\ deadline_left = 0
        /\ FailWorkflow
        /\ UNCHANGED node
     \/ /\ state = "Running" /\ deadline_left > 0
        /\ SupMove("poll", InState("Running"))
        /\ UNCHANGED <<status, persist>>
  /\ UNCHANGED <<child, cancel_sent, launched>>

\* The head of the loop; a paused workflow sleeps and comes back to it.
SupTop ==
  /\ SupAt("top")
  /\ \/ /\ state \in Terminal
        /\ SupMove("done", {})
        /\ UNCHANGED <<status, persist>>
     \/ /\ state \notin Terminal /\ deadline_left = 0
        /\ FailWorkflow
        /\ UNCHANGED node
     \/ /\ state = "Running" /\ deadline_left > 0
        /\ SupMove("poll", InState("Running"))
        /\ UNCHANGED <<status, persist>>
  /\ UNCHANGED <<child, cancel_sent, launched>>

\* A node that the snapshot shows Running is looked at: its agent still works
\* or is forgotten; failed; or completed. The node's state is not read again.
SupPoll(n) ==
  /\ SupAt("poll") /\ n \in todo
  /\ \/ /\ child[n] \in {"active", "Forgotten"}
        /\ SupMove("poll", todo \ {n})
        /\ UNCHANGED <<status, persist>>
     \/ /\ child[n] \in {"Failed", "Cancelled"}
        /\ node' = [node EXCEPT ![n] = "Failed"]
        /\ Due(Supervisor)
        /\ SupMove("fail", {})
        /\ UNCHANGED <<state, artifacts>>
     \/ /\ child[n] = "Completed"
        /\ node' = [node EXCEPT ![n] = "Completed"]
        /\ artifacts' = artifacts \cup {n}
        /\ Due(Supervisor)
        /\ SupMove("poll", todo \ {n})
        /\ UNCHANGED state
  /\ UNCHANGED <<child, cancel_sent, launched>>

SupFail ==
  /\ SupAt("fail")
  /\ FailWorkflow
  /\ UNCHANGED <<node, child, cancel_sent, launched>>

SupPolled ==
  /\ SupAt("poll") /\ todo = {}
  /\ SupMove("check", {})
  /\ UNCHANGED <<status, persist, child, cancel_sent, launched>>

\* Mutant: the nodes that run are not subtracted from the parallelism.
WholeCapacity == limits.max_parallelism

\* max_parallelism.saturating_sub(running)
Capacity ==
  LET running == Cardinality(InState("Running")) IN
    IF running < limits.max_parallelism THEN limits.max_parallelism - running ELSE 0

\* Mutant: one finished dependency is enough.
RunnableAny ==
  {n \in InState("Pending") :
     DependsOn[n] = {} \/ DependsOn[n] \cap InState("Completed") # {}}

Runnable == {n \in InState("Pending") : DependsOn[n] \subseteq InState("Completed")}

\* Mutant: nothing left to run or to wait for.
NothingLeft == InState("Pending") \cup InState("Running") = {}

OverBudget == Cardinality(artifacts) > limits.max_total_tokens

AllCompleted == InState("Completed") = Nodes

\* The second snapshot decides: over budget, complete, or start up to capacity
\* nodes, none of which is looked at again before it is started.
SupCheck ==
  /\ SupAt("check")
  /\ \/ /\ OverBudget
        /\ FailWorkflow
        /\ UNCHANGED node
     \/ /\ ~OverBudget /\ AllCompleted
        /\ SupMove("complete", {})
        /\ UNCHANGED <<status, persist>>
     \/ /\ ~OverBudget /\ ~AllCompleted
        /\ \E chosen \in SUBSET Runnable :
             /\ Cardinality(chosen) <= Capacity
             /\ chosen = Runnable \/ Cardinality(chosen) = Capacity
             /\ SupMove("start", chosen)
        /\ UNCHANGED <<status, persist>>
  /\ UNCHANGED <<child, cancel_sent, launched>>

\* Whatever became of the workflow since the snapshot, it is Completed.
SupComplete ==
  /\ SupAt("complete")
  /\ state' = "Completed"
  /\ Due(Supervisor)
  /\ SupMove("done", {})
  /\ UNCHANGED <<node, artifacts, child, cancel_sent, launched>>

\* start_agent_with_ceiling registers an agent run and spawns it...
SupStart(n) ==
  /\ SupAt("start") /\ launched = {} /\ n \in todo
  /\ child' = [child EXCEPT ![n] = "active"]
  /\ launched' = {n}
  /\ UNCHANGED <<status, row, cancel_sent, deadline_left, sup, todo, victims, persist,
                 clone, job>>

\* ... or fails.
SupStartFails ==
  /\ SupAt("start") /\ launched = {} /\ todo # {}
  /\ FailWorkflow
  /\ UNCHANGED <<node, child, cancel_sent, launched>>

\* The node learns its agent run, under a lock taken after the run was spawned.
SupMarkRunning(n) ==
  /\ SupAt("start") /\ launched = {n}
  /\ node' = [node EXCEPT ![n] = "Running"]
  /\ launched' = {}
  /\ Due(Supervisor)
  /\ SupMove("start", todo \ {n})
  /\ UNCHANGED <<state, artifacts, child, cancel_sent>>

SupSleep ==
  /\ SupAt("start") /\ launched = {} /\ todo = {}
  /\ SupMove("top", {})
  /\ UNCHANGED <<status, persist, child, cancel_sent, launched>>

\* Mutant: the children are not cancelled.
ReturnAfterFailure ==
  /\ SupAt("failing")
  /\ SupMove("done", {})
  /\ UNCHANGED <<status, persist, child, cancel_sent, launched>>

\* cancel_workflow_children: the agents of the nodes Running by now
SupCancelChildren ==
  /\ SupAt("failing")
  /\ cancel_sent' = cancel_sent \cup InState("Running")
  /\ SupMove("done", {})
  /\ UNCHANGED <<status, persist, child, launched>>

Supervise ==
  \/ RecordStart
  \/ SupTop \/ SupFail \/ SupPolled \/ SupCheck \/ SupComplete \/ SupStartFails \/ SupSleep
  \/ SupCancelChildren
  \/ \E n \in Nodes : SupPoll(n) \/ SupStart(n) \/ SupMarkRunning(n)
  \/ Persist(Supervisor)

-----------------------------------------------------------------------------
(* set_workflow_paused and cancel_workflow, called by clients *)

ClientReady == state # "Absent" /\ Idle(Client) /\ victims = {}

ClientUpdate ==
  /\ Due(Client)
  /\ UNCHANGED <<artifacts, row, child, cancel_sent, deadline_left, sup, todo, launched,
                 clone, job>>

\* Mutant: a terminal workflow can be paused and resumed too.
SetPausedAlways ==
  /\ ClientReady
  /\ state' \in {"Running", "Paused"} \ {state}
  /\ ClientUpdate
  /\ UNCHANGED <<node, victims>>

SetPaused ==
  /\ ClientReady
  /\ state \notin Terminal
  /\ state' \in {"Running", "Paused"} \ {state}
  /\ ClientUpdate
  /\ UNCHANGED <<node, victims>>

CancelWorkflow ==
  /\ ClientReady
  /\ state \notin Terminal
  /\ state' = "Cancelled"
  /\ node' = [n \in Nodes |-> IF node[n] = "Running" THEN "Cancelled" ELSE node[n]]
  /\ victims' = InState("Running")
  /\ ClientUpdate

\* The calls of cancel_agent_run, made before the status is persisted.
CancelVictims ==
  /\ victims # {}
  /\ cancel_sent' = cancel_sent \cup victims
  /\ victims' = {}
  /\ UNCHANGED <<status, row, child, deadline_left, sup, todo, launched, persist, clone,
                 job>>

ClientStep == SetPaused \/ CancelWorkflow \/ CancelVictims
                \/ (victims = {} /\ Persist(Client))

-----------------------------------------------------------------------------
(* Agent runs, time, restart *)

\* A child ends; a cancellation it was sent may come too late.
ChildEnds(n) ==
  /\ \/ /\ child[n] = "active"
        /\ \E s \in {"Completed", "Failed", "Cancelled"} :
             /\ s = "Cancelled" => n \in cancel_sent
             /\ child' = [child EXCEPT ![n] = s]
     \/ /\ child[n] = "Completed"
        /\ child' = [child EXCEPT ![n] = "Forgotten"]
  /\ UNCHANGED <<status, row, cancel_sent, deadline_left, sup, todo, launched, victims,
                 persist, clone, job>>

\* Mutant: a subtraction that does not saturate.
OneLess(left) == left - 1

Sooner(left) == IF left > 0 THEN left - 1 ELSE 0

Tick ==
  /\ state \in {"Running", "Paused"}
  /\ deadline_left' = Sooner(deadline_left)
  /\ UNCHANGED <<status, row, child, cancel_sent, sup, todo, launched, victims, persist,
                 clone, job>>

\* Mutant: the interrupted workflow is restored as it was saved.
RecoverAsSaved(saved) == saved

\* enable_agent_run_store fails what was not finished.
Recover(saved) ==
  IF saved.state \in {"Running", "Paused"}
    THEN [saved EXCEPT
            !.state = "Failed",
            !.node = [n \in Nodes |->
                        IF saved.node[n] = "Running" THEN "Failed" ELSE saved.node[n]]]
    ELSE saved

\* The daemon stops anywhere and starts again with the row. Agent runs that
\* were active are recovered as Failed.
Restart ==
  /\ state # "Absent"
  /\ row' = Recover(row)
  /\ state' = row'.state /\ node' = row'.node /\ artifacts' = row'.artifacts
  /\ child' = [n \in Nodes |-> IF child[n] = "active" THEN "Failed" ELSE child[n]]
  /\ sup' = IF row = NoRow THEN "none" ELSE "done"
  /\ todo' = {} /\ launched' = {} /\ victims' = {} /\ cancel_sent' = {}
  /\ persist' = [t \in Thread |-> "idle"]
  /\ clone' = [t \in Thread |-> NoRow]
  /\ UNCHANGED <<deadline_left, job>>

-----------------------------------------------------------------------------
Next ==
  \/ StartWorkflow \/ RetryWorkflow
  \/ Supervise \/ ClientStep
  \/ \E n \in Nodes : ChildEnds(n)
  \/ Tick \/ Restart

\* The runtime polls the supervisor and the clock advances; nothing is assumed
\* of clients or of the children.
Spec == Init /\ [][Next]_vars /\ WF_vars(Supervise) /\ WF_vars(Tick)

-----------------------------------------------------------------------------
(* Properties *)

\* Every variable stays in its set.
TypeOK ==
  /\ Now \in Status \cup {NoRow}
  /\ row \in Status \cup {NoRow}
  /\ child \in [Nodes -> ChildState]
  /\ cancel_sent \subseteq Nodes /\ victims \subseteq Nodes /\ todo \subseteq Nodes
  /\ launched \subseteq Nodes /\ Cardinality(launched) <= 1
  /\ deadline_left \in 0..DeadlineTicks
  /\ sup \in SupStep
  /\ persist \in [Thread -> {"idle", "due", "cloned"}]
  /\ clone \in [Thread -> Status \cup {NoRow}]
  /\ limits \in Limits /\ retries \in 0..MaxRetries

\* An agent is started for a node only once the artifacts of all the nodes it
\* depends on exist, and never for a node that has its own: not after a retry,
\* a restart from a stale row or a cancellation (run_workflow's runnable).
StartsInOrder ==
  \A n \in Nodes : child[n] = "active" => DependsOn[n] \subseteq artifacts /\ n \notin artifacts

\* At most max_parallelism agents of a workflow work at a time, whatever its
\* snapshots missed; a cancelled workflow may exceed it, since its nodes no
\* longer count as running (run_workflow's capacity).
ParallelismRespected ==
  state # "Cancelled" => Cardinality({n \in Nodes : child[n] = "active"}) <= limits.max_parallelism

\* A workflow that is Completed, in memory or in its row, has every artifact.
CompletedIsWhole ==
  /\ state = "Completed" => artifacts = Nodes
  /\ row.state = "Completed" => row.artifacts = Nodes

\* Once the supervisor of a failed workflow has returned, every agent that
\* still works has been told to stop (fail_workflow, cancel_workflow_children).
FailureStopsChildren ==
  state = "Failed" /\ sup = "done" =>
    \A n \in Nodes : child[n] = "active" => n \in cancel_sent

\* A failed workflow stays failed: no pause, resume or late step of the
\* supervisor revives it. Only a retry, under a new id, runs again.
FailedForGood == [][state = "Failed" => state' = "Failed" \/ RetryWorkflow]_vars

\* A workflow nobody supervises, after its supervisor returned or the daemon was
\* restarted, does not claim to be at work: nobody would ever end it (run_workflow,
\* enable_agent_run_store). The exception is one whose start failed before it had
\* a supervisor, and that one never runs an agent.
NoneUnsupervised ==
  sup \in {"done", "lost"} /\ Idle(Supervisor) =>
    state \in Terminal \/ (sup = "lost" /\ \A n \in Nodes : child[n] = "none")

\* Every workflow ends, although its agents may never finish or be forgotten
\* and nobody may resume it: the deadline is checked first. Only one whose start
\* failed before its supervisor was spawned may not.
WorkflowEnds ==
  state \in {"Running", "Paused"} ~> state \notin {"Running", "Paused"} \/ sup = "lost"

\* docs/agent-sdk.md: cancel explicitly cancels the running children. Once a
\* cancelled workflow's threads are done, no agent works that was not told.
CancelStopsChildren ==
  state = "Cancelled" /\ sup = "done" /\ victims = {} =>
    \A n \in Nodes : child[n] = "active" => n \in cancel_sent
=============================================================================
