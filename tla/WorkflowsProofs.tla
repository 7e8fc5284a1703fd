--------------------------- MODULE WorkflowsProofs ---------------------------
(***************************************************************************)
(* Workflows, proved for every DAG of nodes and every set of limits.       *)
(*                                                                         *)
(* The supervisor acts on snapshots, so none of its promises is inductive. *)
(* What makes them true is what a snapshot still says when it is used:     *)
(* nodes that were running or pending have not gone further, and whoever   *)
(* fails a workflow is its supervisor.                                     *)
(***************************************************************************)
EXTENDS Workflows, FiniteSetTheorems, TLAPS

\* Every variable stays in its set, with the parts of a status apart.
Types ==
  /\ state \in WorkflowState \cup {"Absent"}
  /\ node \in [Nodes -> NodeState] /\ artifacts \subseteq Nodes
  /\ row \in Status \cup {NoRow}
  /\ child \in [Nodes -> ChildState]
  /\ cancel_sent \subseteq Nodes /\ victims \subseteq Nodes /\ todo \subseteq Nodes
  /\ launched \subseteq Nodes
  /\ deadline_left \in 0..DeadlineTicks
  /\ sup \in SupStep
  /\ persist \in [Thread -> {"idle", "due", "cloned"}]
  /\ clone \in [Thread -> Status \cup {NoRow}]
  /\ limits \in Limits /\ retries \in 0..MaxRetries

Live   == {"Running", "Paused", "Failed"}
Active == {n \in Nodes : child[n] = "active"}

\* A status is sound when the nodes with an artifact are the Completed ones, and
\* a Completed workflow has all artifacts: in memory, cloned and saved.
Sound(s) ==
  /\ \A n \in Nodes : s.node[n] = "Completed" <=> n \in s.artifacts
  /\ s.state = "Completed" => s.artifacts = Nodes

MemorySound ==
  /\ \A n \in Nodes : node[n] = "Completed" <=> n \in artifacts
  /\ state = "Completed" => artifacts = Nodes

StoredSound == Sound(row) /\ \A t \in Thread : Sound(clone[t])

\* What the supervisor's place says of the workflow...
Placed ==
  /\ state = "Absent" <=> sup = "none"
  /\ sup \in {"failing", "done"} => state \in Terminal
  /\ state = "Failed" => sup \in {"failing", "done"}
  /\ state = "Completed" => sup = "done"
  /\ state = "Absent" => \A t \in Thread : persist[t] = "idle"
  /\ launched = {} \/ (sup = "start" /\ \E n \in todo : launched = {n})
  /\ sup \in {"record", "lost"} => \A n \in Nodes : child[n] = "none"

\* A workflow that does not exist, or whose row is gone, has nothing.
Vacant == state = "Absent" => node = NoRow.node /\ artifacts = {}

\* ... and what is left of the snapshot it acts on.
Snapshot ==
  /\ sup = "poll" => \A n \in todo : node[n] \in {"Running", "Cancelled"}
  /\ sup = "start" => \A n \in todo : node[n] = "Pending" /\ DependsOn[n] \subseteq artifacts
  /\ sup = "complete" => artifacts = Nodes

\* Until it is cancelled or complete, a workflow knows the agents that work.
Tracked ==
  state \in Live => \A n \in Nodes : child[n] = "active" => node[n] = "Running" \/ n \in launched

\* Unless its first save is still to come, a restart would fail a live workflow.
Saved ==
  state \in Live =>
    /\ \A t \in Thread : persist[t] = "cloned" => clone[t].state \in Live
    /\ (sup = "record" => persist[Supervisor] = "idle") => row.state \in Live

\* The nodes that run or are about to do not exceed the limit.
Claimed == InState("Running") \cup (IF sup = "start" THEN todo ELSE {})
Bounded == sup \notin {"none", "failing", "done"} => Cardinality(Claimed) <= limits.max_parallelism

WorkflowInv ==
  /\ Types /\ MemorySound /\ StoredSound /\ Placed /\ Snapshot /\ Vacant /\ Tracked
  /\ Saved /\ Bounded
  /\ StartsInOrder /\ FailureStopsChildren /\ ParallelismRespected

-----------------------------------------------------------------------------
\* The parts of a saved or cloned status, and the status in memory.
LEMMA StatusParts ==
  /\ \A s \in Status \cup {NoRow} :
       /\ s.state \in WorkflowState \cup {"Absent"}
       /\ s.node \in [Nodes -> NodeState] /\ s.artifacts \subseteq Nodes
       /\ s.state = "Absent" <=> s = NoRow
  /\ NoRow.state = "Absent" /\ NoRow.node = [n \in Nodes |-> "Pending"] /\ NoRow.artifacts = {}
  /\ Now.state = state /\ Now.node = node /\ Now.artifacts = artifacts
BY DEF Status, NoRow, Now, WorkflowState, Terminal, NodeState

\* A status that is cloned is one, and sound when memory is.
LEMMA NowIsStatus ==
  /\ Types /\ state # "Absent" => Now \in Status
  /\ MemorySound => Sound(Now)
<1>1. Types /\ state # "Absent" => Now \in Status
  BY DEF Types, Now, Status, WorkflowState
<1>2. MemorySound => Sound(Now)
  BY DEF MemorySound, Sound, Now
<1>3. QED
  BY <1>1, <1>2

\* No status at all is sound.
LEMMA NoRowSound == Sound(NoRow)
BY DEF Sound, NoRow

\* Recovery fails what was not finished and leaves the rest alone.
LEMMA RecoverFact ==
  ASSUME NEW s \in Status \cup {NoRow}, Sound(s)
  PROVE  /\ Recover(s) \in Status \cup {NoRow} /\ Sound(Recover(s))
         /\ s = NoRow => Recover(s) = NoRow
         /\ s # NoRow => Recover(s) \in Status /\ Recover(s).state \in Terminal
         /\ s.state \in Live => Recover(s).state = "Failed"
<1>1. CASE s.state \in {"Running", "Paused"}
  <2>1. s \in Status
    BY <1>1 DEF NoRow
  <2> DEFINE failed == [n \in Nodes |-> IF s.node[n] = "Running" THEN "Failed" ELSE s.node[n]]
  <2>2. failed \in [Nodes -> NodeState]
    BY <2>1 DEF Status, NodeState
  <2>3. Recover(s) = [s EXCEPT !.state = "Failed", !.node = failed]
    BY <1>1 DEF Recover
  <2>4. \A n \in Nodes : failed[n] = "Completed" <=> s.node[n] = "Completed"
    OBVIOUS
  <2> HIDE DEF failed
  <2>5. /\ Recover(s).state = "Failed" /\ Recover(s).node = failed
        /\ Recover(s).artifacts = s.artifacts /\ Recover(s) \in Status
    BY <2>1, <2>2, <2>3 DEF Status, WorkflowState, Terminal
  <2>6. QED
    BY <1>1, <2>1, <2>4, <2>5, StatusParts DEF Sound, Terminal
<1>2. CASE s.state \notin {"Running", "Paused"}
  <2>1. Recover(s) = s
    BY <1>2 DEF Recover
  <2>2. s # NoRow => s.state \in Terminal /\ s \in Status
    BY <1>2, StatusParts DEF WorkflowState
  <2>3. s.state \in Live => s.state = "Failed"
    BY <1>2 DEF Live
  <2>4. QED
    BY <2>1, <2>2, <2>3
<1>3. QED
  BY <1>1, <1>2


\* Sets of nodes are finite, and a subset has no more members.
LEMMA NodeSets ==
  ASSUME NEW T \in SUBSET Nodes, NEW S \in SUBSET T
  PROVE  Cardinality(S) \in Nat /\ Cardinality(T) \in Nat /\ Cardinality(S) <= Cardinality(T)
<1>1. IsFiniteSet(T) /\ IsFiniteSet(S)
  BY NodesFinite, FS_Subset
<1>2. QED
  BY <1>1, FS_Subset, FS_CardinalityType

\* Two sets of nodes together.
LEMMA UnionBound ==
  ASSUME NEW S \in SUBSET Nodes, NEW T \in SUBSET Nodes
  PROVE  /\ Cardinality(S \cup T) <= Cardinality(S) + Cardinality(T)
         /\ Cardinality(S \cup T) \in Nat
<1>1. IsFiniteSet(S) /\ IsFiniteSet(T) /\ IsFiniteSet(S \cap T)
  BY NodesFinite, FS_Subset
<1>2. /\ IsFiniteSet(S \cup T)
      /\ Cardinality(S \cup T) = Cardinality(S) + Cardinality(T) - Cardinality(S \cap T)
  BY <1>1, FS_Union
<1>3. /\ Cardinality(S) \in Nat /\ Cardinality(T) \in Nat
      /\ Cardinality(S \cap T) \in Nat /\ Cardinality(S \cup T) \in Nat
  BY <1>1, <1>2, FS_CardinalityType
<1>4. QED
  BY <1>2, <1>3

\* Parallelism can only be exceeded by a step that starts an agent.
LEMMA NoMoreActive ==
  ASSUME ParallelismRespected, limits \in Limits, limits' \in Limits,
         \/ state' = "Cancelled" \/ Active' = {}
         \/ Active' \subseteq Active /\ state # "Cancelled" /\ limits' = limits
  PROVE  ParallelismRespected'
<1>1. CASE state' = "Cancelled"
  BY <1>1 DEF ParallelismRespected
<1>2. CASE Active' = {}
  <2>1. Cardinality(Active') = 0
    BY <1>2, FS_EmptySet
  <2>2. limits'.max_parallelism \in Nat
    BY WorkflowBounds
  <2>3. QED
    BY <2>1, <2>2 DEF ParallelismRespected, Active
<1>3. CASE Active' \subseteq Active /\ state # "Cancelled" /\ limits' = limits
  <2>1. /\ Cardinality(Active') <= Cardinality(Active)
        /\ Cardinality(Active') \in Nat /\ Cardinality(Active) \in Nat
    BY <1>3, NodeSets DEF Active
  <2>2. Cardinality(Active) <= limits.max_parallelism /\ limits.max_parallelism \in Nat
    BY <1>3, WorkflowBounds DEF ParallelismRespected, Active
  <2>3. Cardinality(Active') <= limits'.max_parallelism
    BY <1>3, <2>1, <2>2
  <2>4. QED
    BY <2>3 DEF ParallelismRespected, Active
<1>4. QED
  BY <1>1, <1>2, <1>3

\* What is claimed grows only when nodes are chosen.
LEMMA NoMoreClaimed ==
  ASSUME Bounded, limits \in Limits, limits' \in Limits, Claimed \subseteq Nodes,
         \/ Claimed' = {}
         \/ Claimed' \subseteq Claimed /\ sup \notin {"none", "failing", "done"} /\ limits' = limits
  PROVE  Bounded'
<1>1. CASE Claimed' = {}
  <2>1. Cardinality(Claimed') = 0
    BY <1>1, FS_EmptySet
  <2>2. limits'.max_parallelism \in Nat
    BY WorkflowBounds
  <2>3. QED
    BY <2>1, <2>2 DEF Bounded
<1>2. CASE Claimed' \subseteq Claimed /\ sup \notin {"none", "failing", "done"} /\ limits' = limits
  <2>1. /\ Cardinality(Claimed') <= Cardinality(Claimed)
        /\ Cardinality(Claimed') \in Nat /\ Cardinality(Claimed) \in Nat
    BY <1>2, NodeSets
  <2>2. Cardinality(Claimed) <= limits.max_parallelism /\ limits.max_parallelism \in Nat
    BY <1>2, WorkflowBounds DEF Bounded
  <2>3. Cardinality(Claimed') <= limits'.max_parallelism
    BY <1>2, <2>1, <2>2
  <2>4. QED
    BY <2>3 DEF Bounded
<1>3. QED
  BY <1>1, <1>2

\* The supervisor, the clients, the agents, time and restarts keep it.
LEMMA WorkflowStep == WorkflowInv /\ [Next]_vars => WorkflowInv'
<1> SUFFICES ASSUME WorkflowInv, [Next]_vars PROVE WorkflowInv'
  OBVIOUS
<1> USE NodesFinite, DependsOnNodes, WorkflowBounds, StatusParts
    DEF WorkflowInv, WorkflowState, Terminal, NodeState, ChildState, SupStep, Thread, Supervisor,
        Client
<1>1. CASE StartWorkflow
  <2> USE <1>1 DEF StartWorkflow, Begin, Due, Types
  <2>1. Types'
    BY DEF Types
  <2>2. MemorySound'
    BY DEF MemorySound, Snapshot, Placed
  <2>3. StoredSound'
    BY DEF StoredSound
  <2>4. Placed'
    BY DEF Placed
  <2>5. Snapshot'
    BY DEF Snapshot, Placed, MemorySound, InState
  <2>6. Vacant'
    BY DEF Vacant, Placed
  <2>7. Tracked'
    BY DEF Tracked, Snapshot, Placed, Live
  <2>8. StartsInOrder'
    BY DEF StartsInOrder, Snapshot, MemorySound, Placed
  <2>9. FailureStopsChildren'
    BY DEF FailureStopsChildren, Tracked, Placed, Live, InState
  <2>10. Saved'
    BY DEF Saved, Placed, Live
  <2>11. Bounded'
    <3>1. Claimed' = {} /\ Claimed \subseteq Nodes
      BY DEF Claimed, InState
    <3>2. QED
      BY <3>1, NoMoreClaimed
  <2>12. ParallelismRespected'
    <3>1. Active' = {}
      BY DEF Active
    <3>2. QED
      BY <3>1, NoMoreActive
  <2>13. QED
    BY <2>1, <2>2, <2>3, <2>4, <2>5, <2>6, <2>7, <2>8, <2>9, <2>10, <2>11, <2>12
<1>2. CASE RetryWorkflow
  <2> USE <1>2 DEF RetryWorkflow, Begin, Due, Idle, Types
  <2>1. Types'
    BY DEF Types
  <2>2. MemorySound'
    BY DEF MemorySound, Snapshot, Placed
  <2>3. StoredSound'
    BY DEF StoredSound
  <2>4. Placed'
    BY DEF Placed
  <2>5. Snapshot'
    BY DEF Snapshot, Placed, MemorySound, InState
  <2>6. Vacant'
    BY DEF Vacant, Placed
  <2>7. Tracked'
    BY DEF Tracked, Snapshot, Placed, Live
  <2>8. StartsInOrder'
    BY DEF StartsInOrder, Snapshot, MemorySound, Placed
  <2>9. FailureStopsChildren'
    BY DEF FailureStopsChildren, Tracked, Placed, Live, InState
  <2>10. Saved'
    BY DEF Saved, Placed, Live
  <2>11. Bounded'
    <3>1. Claimed' = {} /\ Claimed \subseteq Nodes
      BY DEF Claimed, InState
    <3>2. QED
      BY <3>1, NoMoreClaimed
  <2>12. ParallelismRespected'
    <3>1. Active' = {}
      BY DEF Active
    <3>2. QED
      BY <3>1, NoMoreActive
  <2>13. QED
    BY <2>1, <2>2, <2>3, <2>4, <2>5, <2>6, <2>7, <2>8, <2>9, <2>10, <2>11, <2>12
<1>3. CASE SupTop
  <2> USE <1>3 DEF SupTop, SupAt, SupMove, FailWorkflow, Due, Idle, status, job, Types
  <2>1. Types'
    <3>1. CASE state \in Terminal
      BY <3>1
    <3>2. CASE state \notin Terminal /\ deadline_left = 0
      BY <3>2
    <3>3. CASE state = "Running" /\ deadline_left > 0
      BY <3>3 DEF InState
    <3>4. QED
      BY <3>1, <3>2, <3>3
  <2>2. MemorySound'
    BY DEF MemorySound, Snapshot, Placed
  <2>3. StoredSound'
    BY DEF StoredSound
  <2>4. Placed'
    BY DEF Placed
  <2>5. Snapshot'
    BY DEF Snapshot, Placed, MemorySound, InState
  <2>6. Vacant'
    BY DEF Vacant, Placed
  <2>7. Tracked'
    BY DEF Tracked, Snapshot, Placed, Live
  <2>8. StartsInOrder'
    BY DEF StartsInOrder, Snapshot, MemorySound, Placed
  <2>9. FailureStopsChildren'
    BY DEF FailureStopsChildren, Tracked, Placed, Live, InState
  <2>10. Saved'
    BY DEF Saved, Placed, Live
  <2>11. Bounded'
    <3>1. CASE sup' \in {"none", "failing", "done"}
      BY <3>1 DEF Bounded
    <3>2. CASE sup' \notin {"none", "failing", "done"}
      <4>1. Claimed \subseteq Nodes /\ Claimed' \subseteq Claimed
        BY <3>2 DEF Claimed, InState, Placed
      <4>2. QED
        BY <3>2, <4>1, NoMoreClaimed
    <3>3. QED
      BY <3>1, <3>2
  <2>12. ParallelismRespected'
    BY DEF ParallelismRespected
  <2>13. QED
    BY <2>1, <2>2, <2>3, <2>4, <2>5, <2>6, <2>7, <2>8, <2>9, <2>10, <2>11, <2>12
<1>4. CASE SupFail
  <2> USE <1>4 DEF SupFail, SupAt, SupMove, FailWorkflow, Due, Idle, job, Types
  <2>1. Types'
    BY DEF Types
  <2>2. MemorySound'
    BY DEF MemorySound, Snapshot, Placed
  <2>3. StoredSound'
    BY DEF StoredSound
  <2>4. Placed'
    BY DEF Placed
  <2>5. Snapshot'
    BY DEF Snapshot, Placed, MemorySound, InState
  <2>6. Vacant'
    BY DEF Vacant, Placed
  <2>7. Tracked'
    BY DEF Tracked, Snapshot, Placed, Live
  <2>8. StartsInOrder'
    BY DEF StartsInOrder, Snapshot, MemorySound, Placed
  <2>9. FailureStopsChildren'
    BY DEF FailureStopsChildren, Tracked, Placed, Live, InState
  <2>10. Saved'
    BY DEF Saved, Placed, Live
  <2>11. Bounded'
    BY DEF Bounded, Claimed, InState
  <2>12. ParallelismRespected'
    BY DEF ParallelismRespected
  <2>13. QED
    BY <2>1, <2>2, <2>3, <2>4, <2>5, <2>6, <2>7, <2>8, <2>9, <2>10, <2>11, <2>12
<1>5. CASE SupPolled
  <2> USE <1>5 DEF SupPolled, SupAt, SupMove, Idle, status, job, Types
  <2>1. Types'
    BY DEF Types
  <2>2. MemorySound'
    BY DEF MemorySound, Snapshot, Placed
  <2>3. StoredSound'
    BY DEF StoredSound
  <2>4. Placed'
    BY DEF Placed
  <2>5. Snapshot'
    BY DEF Snapshot, Placed, MemorySound, InState
  <2>6. Vacant'
    BY DEF Vacant, Placed
  <2>7. Tracked'
    BY DEF Tracked, Snapshot, Placed, Live
  <2>8. StartsInOrder'
    BY DEF StartsInOrder, Snapshot, MemorySound, Placed
  <2>9. FailureStopsChildren'
    BY DEF FailureStopsChildren, Tracked, Placed, Live, InState
  <2>10. Saved'
    BY DEF Saved, Placed, Live
  <2>11. Bounded'
    BY DEF Bounded, Claimed, InState
  <2>12. ParallelismRespected'
    BY DEF ParallelismRespected
  <2>13. QED
    BY <2>1, <2>2, <2>3, <2>4, <2>5, <2>6, <2>7, <2>8, <2>9, <2>10, <2>11, <2>12
<1>6. CASE SupCheck
  <2> USE <1>6 DEF SupCheck, SupAt, SupMove, FailWorkflow, Due, Idle, status, job, Runnable,
                   AllCompleted, InState, Types
  <2>1. Types'
    BY DEF Types
  <2>2. MemorySound'
    BY DEF MemorySound, Snapshot, Placed
  <2>3. StoredSound'
    BY DEF StoredSound
  <2>4. Placed'
    BY DEF Placed
  <2>5. Snapshot'
    <3>1. \A n \in todo' : n \in Runnable
      OBVIOUS
    <3>2. InState("Completed") = artifacts
      BY DEF MemorySound, InState
    <3>3. sup' = "start" => \A n \in todo' : node[n] = "Pending" /\ DependsOn[n] \subseteq artifacts
      BY <3>1, <3>2 DEF Runnable, InState
    <3>4. sup' = "complete" => artifacts = Nodes
      BY <3>2 DEF AllCompleted
    <3>5. UNCHANGED <<node, artifacts>> \/ sup' = "failing"
      OBVIOUS
    <3>6. sup' # "poll"
      OBVIOUS
    <3>7. QED
      BY <3>3, <3>4, <3>5, <3>6 DEF Snapshot
  <2>6. Vacant'
    BY DEF Vacant, Placed
  <2>7. Tracked'
    BY DEF Tracked, Snapshot, Placed, Live
  <2>8. StartsInOrder'
    BY DEF StartsInOrder, Snapshot, MemorySound, Placed
  <2>9. FailureStopsChildren'
    BY DEF FailureStopsChildren, Tracked, Placed, Live, InState
  <2>10. Saved'
    BY DEF Saved, Placed, Live
  <2>11. Bounded'
    <3>1. CASE sup' # "start"
      <4>1. Claimed \subseteq Nodes /\ Claimed' \subseteq Claimed
        BY <3>1 DEF Claimed, InState
      <4>2. QED
        BY <4>1, NoMoreClaimed
    <3>2. CASE sup' = "start"
      <4>1. /\ Cardinality(todo') <= Capacity /\ todo' \subseteq Nodes
            /\ UNCHANGED <<node, limits>>
        BY <3>2
      <4>2. /\ IsFiniteSet(InState("Running")) /\ IsFiniteSet(todo')
            /\ Cardinality(InState("Running")) \in Nat /\ Cardinality(todo') \in Nat
        BY <4>1, NodesFinite, FS_Subset, FS_CardinalityType
      <4>3. Claimed' = InState("Running") \cup todo' /\ Claimed = InState("Running")
        BY <3>2, <4>1 DEF Claimed
      <4>4. CASE Cardinality(InState("Running")) < limits.max_parallelism
        <5>1. Cardinality(Claimed') <= Cardinality(InState("Running")) + Cardinality(todo')
              /\ Cardinality(Claimed') \in Nat
          <6>1. InState("Running") \subseteq Nodes
            BY DEF InState
          <6>2. QED
            BY <4>1, <4>3, <6>1, UnionBound
        <5>2. Cardinality(todo') <= limits.max_parallelism - Cardinality(InState("Running"))
          BY <4>1, <4>4 DEF Capacity
        <5>3. QED
          BY <4>1, <4>2, <5>1, <5>2 DEF Bounded
      <4>5. CASE ~(Cardinality(InState("Running")) < limits.max_parallelism)
        <5>1. todo' = {}
          <6>1. Cardinality(todo') <= 0
            BY <4>1, <4>5 DEF Capacity
          <6>2. QED
            BY <4>2, <6>1, FS_EmptySet
        <5>2. QED
          BY <4>1, <4>3, <5>1 DEF Bounded
      <4>6. QED
        BY <4>4, <4>5
    <3>3. QED
      BY <3>1, <3>2
  <2>12. ParallelismRespected'
    BY DEF ParallelismRespected
  <2>13. QED
    BY <2>1, <2>2, <2>3, <2>4, <2>5, <2>6, <2>7, <2>8, <2>9, <2>10, <2>11, <2>12
<1>7. CASE SupComplete
  <2> USE <1>7 DEF SupComplete, SupAt, SupMove, Due, Idle, job, Types
  <2>1. Types'
    BY DEF Types
  <2>2. MemorySound'
    BY DEF MemorySound, Snapshot, Placed
  <2>3. StoredSound'
    BY DEF StoredSound
  <2>4. Placed'
    BY DEF Placed
  <2>5. Snapshot'
    BY DEF Snapshot, Placed, MemorySound, InState
  <2>6. Vacant'
    BY DEF Vacant, Placed
  <2>7. Tracked'
    BY DEF Tracked, Snapshot, Placed, Live
  <2>8. StartsInOrder'
    BY DEF StartsInOrder, Snapshot, MemorySound, Placed
  <2>9. FailureStopsChildren'
    BY DEF FailureStopsChildren, Tracked, Placed, Live, InState
  <2>10. Saved'
    BY DEF Saved, Placed, Live
  <2>11. Bounded'
    BY DEF Bounded, Claimed, InState
  <2>12. ParallelismRespected'
    <3>1. Active' = {}
      BY DEF Active, Snapshot, StartsInOrder
    <3>2. QED
      BY <3>1, NoMoreActive
  <2>13. QED
    BY <2>1, <2>2, <2>3, <2>4, <2>5, <2>6, <2>7, <2>8, <2>9, <2>10, <2>11, <2>12
<1>8. CASE SupStartFails
  <2> USE <1>8 DEF SupStartFails, SupAt, SupMove, FailWorkflow, Due, Idle, job, Types
  <2>1. Types'
    BY DEF Types
  <2>2. MemorySound'
    BY DEF MemorySound, Snapshot, Placed
  <2>3. StoredSound'
    BY DEF StoredSound
  <2>4. Placed'
    BY DEF Placed
  <2>5. Snapshot'
    BY DEF Snapshot, Placed, MemorySound, InState
  <2>6. Vacant'
    BY DEF Vacant, Placed
  <2>7. Tracked'
    BY DEF Tracked, Snapshot, Placed, Live
  <2>8. StartsInOrder'
    BY DEF StartsInOrder, Snapshot, MemorySound, Placed
  <2>9. FailureStopsChildren'
    BY DEF FailureStopsChildren, Tracked, Placed, Live, InState
  <2>10. Saved'
    BY DEF Saved, Placed, Live
  <2>11. Bounded'
    BY DEF Bounded, Claimed, InState
  <2>12. ParallelismRespected'
    BY DEF ParallelismRespected
  <2>13. QED
    BY <2>1, <2>2, <2>3, <2>4, <2>5, <2>6, <2>7, <2>8, <2>9, <2>10, <2>11, <2>12
<1>9. CASE SupSleep
  <2> USE <1>9 DEF SupSleep, SupAt, SupMove, Idle, status, job, Types
  <2>1. Types'
    BY DEF Types
  <2>2. MemorySound'
    BY DEF MemorySound, Snapshot, Placed
  <2>3. StoredSound'
    BY DEF StoredSound
  <2>4. Placed'
    BY DEF Placed
  <2>5. Snapshot'
    BY DEF Snapshot, Placed, MemorySound, InState
  <2>6. Vacant'
    BY DEF Vacant, Placed
  <2>7. Tracked'
    BY DEF Tracked, Snapshot, Placed, Live
  <2>8. StartsInOrder'
    BY DEF StartsInOrder, Snapshot, MemorySound, Placed
  <2>9. FailureStopsChildren'
    BY DEF FailureStopsChildren, Tracked, Placed, Live, InState
  <2>10. Saved'
    BY DEF Saved, Placed, Live
  <2>11. Bounded'
    BY DEF Bounded, Claimed, InState
  <2>12. ParallelismRespected'
    BY DEF ParallelismRespected
  <2>13. QED
    BY <2>1, <2>2, <2>3, <2>4, <2>5, <2>6, <2>7, <2>8, <2>9, <2>10, <2>11, <2>12
<1>10. CASE SupCancelChildren
  <2> USE <1>10 DEF SupCancelChildren, SupAt, SupMove, Idle, status, job, InState, Types
  <2>1. Types'
    BY DEF Types
  <2>2. MemorySound'
    BY DEF MemorySound, Snapshot, Placed
  <2>3. StoredSound'
    BY DEF StoredSound
  <2>4. Placed'
    BY DEF Placed
  <2>5. Snapshot'
    BY DEF Snapshot, Placed, MemorySound, InState
  <2>6. Vacant'
    BY DEF Vacant, Placed
  <2>7. Tracked'
    BY DEF Tracked, Snapshot, Placed, Live
  <2>8. StartsInOrder'
    BY DEF StartsInOrder, Snapshot, MemorySound, Placed
  <2>9. FailureStopsChildren'
    BY DEF FailureStopsChildren, Tracked, Placed, Live, InState
  <2>10. Saved'
    BY DEF Saved, Placed, Live
  <2>11. Bounded'
    BY DEF Bounded, Claimed, InState
  <2>12. ParallelismRespected'
    BY DEF ParallelismRespected
  <2>13. QED
    BY <2>1, <2>2, <2>3, <2>4, <2>5, <2>6, <2>7, <2>8, <2>9, <2>10, <2>11, <2>12
<1>11. ASSUME NEW n \in Nodes, SupPoll(n) PROVE WorkflowInv'
  <2> USE <1>11 DEF SupPoll, SupAt, SupMove, Due, Idle, status, job, Types
  <2>1. Types'
    BY DEF Types
  <2>2. MemorySound'
    BY DEF MemorySound, Snapshot, Placed
  <2>3. StoredSound'
    BY DEF StoredSound
  <2>4. Placed'
    BY DEF Placed
  <2>5. Snapshot'
    BY DEF Snapshot, Placed, MemorySound, InState
  <2>6. Vacant'
    BY DEF Vacant, Placed
  <2>7. Tracked'
    BY DEF Tracked, Snapshot, Placed, Live
  <2>8. StartsInOrder'
    BY DEF StartsInOrder, Snapshot, MemorySound, Placed
  <2>9. FailureStopsChildren'
    BY DEF FailureStopsChildren, Tracked, Placed, Live, InState
  <2>10. Saved'
    BY DEF Saved, Placed, Live
  <2>11. Bounded'
    <3>1. CASE sup' \in {"none", "failing", "done"}
      BY <3>1 DEF Bounded
    <3>2. CASE sup' \notin {"none", "failing", "done"}
      <4>1. Claimed \subseteq Nodes /\ Claimed' \subseteq Claimed
        BY <3>2 DEF Claimed, InState, Placed
      <4>2. QED
        BY <3>2, <4>1, NoMoreClaimed
    <3>3. QED
      BY <3>1, <3>2
  <2>12. ParallelismRespected'
    BY DEF ParallelismRespected
  <2>13. QED
    BY <2>1, <2>2, <2>3, <2>4, <2>5, <2>6, <2>7, <2>8, <2>9, <2>10, <2>11, <2>12
<1>12. ASSUME NEW n \in Nodes, SupStart(n) PROVE WorkflowInv'
  <2> USE <1>12 DEF SupStart, SupAt, Idle, status, job, Types
  <2>1. Types'
    BY DEF Types
  <2>2. MemorySound'
    BY DEF MemorySound, Snapshot, Placed
  <2>3. StoredSound'
    BY DEF StoredSound
  <2>4. Placed'
    BY DEF Placed
  <2>5. Snapshot'
    BY DEF Snapshot, Placed, MemorySound, InState
  <2>6. Vacant'
    BY DEF Vacant, Placed
  <2>7. Tracked'
    BY DEF Tracked, Snapshot, Placed, Live
  <2>8. StartsInOrder'
    BY DEF StartsInOrder, Snapshot, MemorySound, Placed
  <2>9. FailureStopsChildren'
    BY DEF FailureStopsChildren, Tracked, Placed, Live, InState
  <2>10. Saved'
    BY DEF Saved, Placed, Live
  <2>11. Bounded'
    BY DEF Bounded, Claimed, InState
  <2>12. ParallelismRespected'
    <3>1. CASE state = "Cancelled"
      BY <3>1 DEF ParallelismRespected
    <3>2. CASE state # "Cancelled"
      <4>1. state \in Live
        BY <3>2 DEF Placed, Live
      <4>2. Active' \subseteq Claimed /\ Claimed \subseteq Nodes
        BY <4>1 DEF Active, Claimed, InState, Tracked
      <4>3. Cardinality(Active') <= Cardinality(Claimed) /\ Cardinality(Active') \in Nat
             /\ Cardinality(Claimed) \in Nat
        BY <4>2, NodeSets
      <4>4. Cardinality(Claimed) <= limits.max_parallelism /\ limits.max_parallelism \in Nat
        BY DEF Bounded
      <4>5. QED
        BY <4>3, <4>4 DEF ParallelismRespected, Active
    <3>3. QED
      BY <3>1, <3>2
  <2>13. QED
    BY <2>1, <2>2, <2>3, <2>4, <2>5, <2>6, <2>7, <2>8, <2>9, <2>10, <2>11, <2>12
<1>13. ASSUME NEW n \in Nodes, SupMarkRunning(n) PROVE WorkflowInv'
  <2> USE <1>13 DEF SupMarkRunning, SupAt, SupMove, Due, Idle, job, Types
  <2>1. Types'
    BY DEF Types
  <2>2. MemorySound'
    <3>1. n \in todo
      BY DEF Placed
    <3>2. node[n] = "Pending"
      BY <3>1 DEF Snapshot
    <3>3. QED
      BY <3>2 DEF MemorySound
  <2>3. StoredSound'
    BY DEF StoredSound
  <2>4. Placed'
    BY DEF Placed
  <2>5. Snapshot'
    BY DEF Snapshot, Placed, MemorySound, InState
  <2>6. Vacant'
    BY DEF Vacant, Placed
  <2>7. Tracked'
    BY DEF Tracked, Snapshot, Placed, Live
  <2>8. StartsInOrder'
    BY DEF StartsInOrder, Snapshot, MemorySound, Placed
  <2>9. FailureStopsChildren'
    BY DEF FailureStopsChildren, Tracked, Placed, Live, InState
  <2>10. Saved'
    BY DEF Saved, Placed, Live
  <2>11. Bounded'
    <3>1. n \in todo
      BY DEF Placed
    <3>2. Claimed \subseteq Nodes /\ Claimed' \subseteq Claimed
      BY <3>1 DEF Claimed, InState
    <3>3. QED
      BY <3>2, NoMoreClaimed
  <2>12. ParallelismRespected'
    BY DEF ParallelismRespected
  <2>13. QED
    BY <2>1, <2>2, <2>3, <2>4, <2>5, <2>6, <2>7, <2>8, <2>9, <2>10, <2>11, <2>12
<1>14. ASSUME NEW t \in Thread, PersistClone(t) PROVE WorkflowInv'
  <2> USE <1>14 DEF PersistClone, status, job, Types
  <2>1. Types'
    <3>1. Now \in Status
      BY NowIsStatus DEF Placed
    <3>2. QED
      BY <3>1
  <2>2. MemorySound'
    BY DEF MemorySound, Snapshot, Placed
  <2>3. StoredSound'
    <3>1. Sound(Now) /\ row' = row /\ clone' = [clone EXCEPT ![t] = Now]
      BY NowIsStatus
    <3>2. QED
      BY <3>1 DEF StoredSound
  <2>4. Placed'
    BY DEF Placed
  <2>5. Snapshot'
    BY DEF Snapshot, Placed, MemorySound, InState
  <2>6. Vacant'
    BY DEF Vacant, Placed
  <2>7. Tracked'
    BY DEF Tracked, Snapshot, Placed, Live
  <2>8. StartsInOrder'
    BY DEF StartsInOrder, Snapshot, MemorySound, Placed
  <2>9. FailureStopsChildren'
    BY DEF FailureStopsChildren, Tracked, Placed, Live, InState
  <2>10. Saved'
    BY DEF Saved, Placed, Live
  <2>11. Bounded'
    BY DEF Bounded, Claimed, InState
  <2>12. ParallelismRespected'
    BY DEF ParallelismRespected
  <2>13. QED
    BY <2>1, <2>2, <2>3, <2>4, <2>5, <2>6, <2>7, <2>8, <2>9, <2>10, <2>11, <2>12
<1>15. ASSUME NEW t \in Thread, PersistSave(t) PROVE WorkflowInv'
  <2> USE <1>15 DEF PersistSave, status, job, Types
  <2>1. Types'
    BY DEF Types
  <2>2. MemorySound'
    BY DEF MemorySound, Snapshot, Placed
  <2>3. StoredSound'
    <3>1. row' = clone[t] /\ clone' = [clone EXCEPT ![t] = NoRow]
      OBVIOUS
    <3>2. QED
      BY <3>1, NoRowSound DEF StoredSound
  <2>4. Placed'
    BY DEF Placed
  <2>5. Snapshot'
    BY DEF Snapshot, Placed, MemorySound, InState
  <2>6. Vacant'
    BY DEF Vacant, Placed
  <2>7. Tracked'
    BY DEF Tracked, Snapshot, Placed, Live
  <2>8. StartsInOrder'
    BY DEF StartsInOrder, Snapshot, MemorySound, Placed
  <2>9. FailureStopsChildren'
    BY DEF FailureStopsChildren, Tracked, Placed, Live, InState
  <2>10. Saved'
    BY DEF Saved, Placed, Live
  <2>11. Bounded'
    BY DEF Bounded, Claimed, InState
  <2>12. ParallelismRespected'
    BY DEF ParallelismRespected
  <2>13. QED
    BY <2>1, <2>2, <2>3, <2>4, <2>5, <2>6, <2>7, <2>8, <2>9, <2>10, <2>11, <2>12
<1>16. CASE SetPaused
  <2> USE <1>16 DEF SetPaused, ClientReady, ClientUpdate, Due, Idle, job, Types
  <2>1. Types'
    BY DEF Types
  <2>2. MemorySound'
    BY DEF MemorySound, Snapshot, Placed
  <2>3. StoredSound'
    BY DEF StoredSound
  <2>4. Placed'
    BY DEF Placed
  <2>5. Snapshot'
    BY DEF Snapshot, Placed, MemorySound, InState
  <2>6. Vacant'
    BY DEF Vacant, Placed
  <2>7. Tracked'
    BY DEF Tracked, Snapshot, Placed, Live
  <2>8. StartsInOrder'
    BY DEF StartsInOrder, Snapshot, MemorySound, Placed
  <2>9. FailureStopsChildren'
    BY DEF FailureStopsChildren, Tracked, Placed, Live, InState
  <2>10. Saved'
    BY DEF Saved, Placed, Live
  <2>11. Bounded'
    BY DEF Bounded, Claimed, InState
  <2>12. ParallelismRespected'
    BY DEF ParallelismRespected
  <2>13. QED
    BY <2>1, <2>2, <2>3, <2>4, <2>5, <2>6, <2>7, <2>8, <2>9, <2>10, <2>11, <2>12
<1>17. CASE CancelWorkflow
  <2> USE <1>17 DEF CancelWorkflow, ClientReady, ClientUpdate, Due, Idle, job, InState, Types
  <2>1. Types'
    BY DEF Types
  <2>2. MemorySound'
    BY DEF MemorySound, Snapshot, Placed
  <2>3. StoredSound'
    BY DEF StoredSound
  <2>4. Placed'
    BY DEF Placed
  <2>5. Snapshot'
    BY DEF Snapshot, Placed, MemorySound, InState
  <2>6. Vacant'
    BY DEF Vacant, Placed
  <2>7. Tracked'
    BY DEF Tracked, Snapshot, Placed, Live
  <2>8. StartsInOrder'
    BY DEF StartsInOrder, Snapshot, MemorySound, Placed
  <2>9. FailureStopsChildren'
    BY DEF FailureStopsChildren, Tracked, Placed, Live, InState
  <2>10. Saved'
    BY DEF Saved, Placed, Live
  <2>11. Bounded'
    <3>1. CASE sup' \in {"none", "failing", "done"}
      BY <3>1 DEF Bounded
    <3>2. CASE sup' \notin {"none", "failing", "done"}
      <4>1. Claimed \subseteq Nodes /\ Claimed' \subseteq Claimed
        BY <3>2 DEF Claimed, InState, Placed
      <4>2. QED
        BY <3>2, <4>1, NoMoreClaimed
    <3>3. QED
      BY <3>1, <3>2
  <2>12. ParallelismRespected'
    BY DEF ParallelismRespected
  <2>13. QED
    BY <2>1, <2>2, <2>3, <2>4, <2>5, <2>6, <2>7, <2>8, <2>9, <2>10, <2>11, <2>12
<1>18. CASE CancelVictims
  <2> USE <1>18 DEF CancelVictims, status, job, Types
  <2>1. Types'
    BY DEF Types
  <2>2. MemorySound'
    BY DEF MemorySound, Snapshot, Placed
  <2>3. StoredSound'
    BY DEF StoredSound
  <2>4. Placed'
    BY DEF Placed
  <2>5. Snapshot'
    BY DEF Snapshot, Placed, MemorySound, InState
  <2>6. Vacant'
    BY DEF Vacant, Placed
  <2>7. Tracked'
    BY DEF Tracked, Snapshot, Placed, Live
  <2>8. StartsInOrder'
    BY DEF StartsInOrder, Snapshot, MemorySound, Placed
  <2>9. FailureStopsChildren'
    BY DEF FailureStopsChildren, Tracked, Placed, Live, InState
  <2>10. Saved'
    BY DEF Saved, Placed, Live
  <2>11. Bounded'
    BY DEF Bounded, Claimed, InState
  <2>12. ParallelismRespected'
    BY DEF ParallelismRespected
  <2>13. QED
    BY <2>1, <2>2, <2>3, <2>4, <2>5, <2>6, <2>7, <2>8, <2>9, <2>10, <2>11, <2>12
<1>19. ASSUME NEW n \in Nodes, ChildEnds(n) PROVE WorkflowInv'
  <2> USE <1>19 DEF ChildEnds, status, job, Types
  <2>1. Types'
    BY DEF Types
  <2>2. MemorySound'
    BY DEF MemorySound, Snapshot, Placed
  <2>3. StoredSound'
    BY DEF StoredSound
  <2>4. Placed'
    BY DEF Placed
  <2>5. Snapshot'
    BY DEF Snapshot, Placed, MemorySound, InState
  <2>6. Vacant'
    BY DEF Vacant, Placed
  <2>7. Tracked'
    BY DEF Tracked, Snapshot, Placed, Live
  <2>8. StartsInOrder'
    BY DEF StartsInOrder, Snapshot, MemorySound, Placed
  <2>9. FailureStopsChildren'
    BY DEF FailureStopsChildren, Tracked, Placed, Live, InState
  <2>10. Saved'
    BY DEF Saved, Placed, Live
  <2>11. Bounded'
    BY DEF Bounded, Claimed, InState
  <2>12. ParallelismRespected'
    <3>1. Active' \subseteq Active
      BY DEF Active
    <3>2. QED
      BY <3>1, NoMoreActive
  <2>13. QED
    BY <2>1, <2>2, <2>3, <2>4, <2>5, <2>6, <2>7, <2>8, <2>9, <2>10, <2>11, <2>12
<1>20. CASE Tick
  <2> USE <1>20 DEF Tick, Sooner, status, job, Types
  <2>1. Types'
    BY DEF Types
  <2>2. MemorySound'
    BY DEF MemorySound, Snapshot, Placed
  <2>3. StoredSound'
    BY DEF StoredSound
  <2>4. Placed'
    BY DEF Placed
  <2>5. Snapshot'
    BY DEF Snapshot, Placed, MemorySound, InState
  <2>6. Vacant'
    BY DEF Vacant, Placed
  <2>7. Tracked'
    BY DEF Tracked, Snapshot, Placed, Live
  <2>8. StartsInOrder'
    BY DEF StartsInOrder, Snapshot, MemorySound, Placed
  <2>9. FailureStopsChildren'
    BY DEF FailureStopsChildren, Tracked, Placed, Live, InState
  <2>10. Saved'
    BY DEF Saved, Placed, Live
  <2>11. Bounded'
    BY DEF Bounded, Claimed, InState
  <2>12. ParallelismRespected'
    BY DEF ParallelismRespected
  <2>13. QED
    BY <2>1, <2>2, <2>3, <2>4, <2>5, <2>6, <2>7, <2>8, <2>9, <2>10, <2>11, <2>12
<1>21. CASE Restart
  <2> USE <1>21 DEF Restart, job, Types
  <2>1. Types'
    <3>1. row' \in Status \cup {NoRow}
      BY RecoverFact DEF StoredSound
    <3>2. /\ state' \in WorkflowState \cup {"Absent"}
          /\ node' \in [Nodes -> NodeState] /\ artifacts' \subseteq Nodes
      BY <3>1, StatusParts
    <3>3. QED
      BY <3>1, <3>2
  <2>2. MemorySound'
    <3>1. Sound(row')
      BY RecoverFact DEF StoredSound
    <3>2. QED
      BY <3>1 DEF Sound, MemorySound
  <2>3. StoredSound'
    <3>1. Sound(row') /\ \A t \in Thread : clone'[t] = NoRow
      BY RecoverFact DEF StoredSound
    <3>2. QED
      BY <3>1, NoRowSound DEF StoredSound
  <2>4. Placed'
    <3>1. row' = Recover(row) /\ state' = row'.state
      OBVIOUS
    <3>2. /\ row = NoRow => state' = "Absent"
          /\ row # NoRow => state' \in Terminal
      BY <3>1, RecoverFact DEF StoredSound
    <3>3. QED
      BY <3>2 DEF Placed
  <2>5. Snapshot'
    BY DEF Snapshot, Placed, MemorySound, InState
  <2>6. Vacant'
    <3>1. state' = "Absent" => row' = NoRow
      BY RecoverFact DEF StoredSound
    <3>2. node' = row'.node /\ artifacts' = row'.artifacts
      OBVIOUS
    <3>3. QED
      BY <3>1, <3>2 DEF Vacant
  <2>7. Tracked'
    BY DEF Tracked, Snapshot, Placed, Live
  <2>8. StartsInOrder'
    BY DEF StartsInOrder, Snapshot, MemorySound, Placed
  <2>9. FailureStopsChildren'
    BY DEF FailureStopsChildren, Tracked, Placed, Live, InState
  <2>10. Saved'
    BY DEF Saved, Placed, Live
  <2>11. Bounded'
    BY DEF Bounded, Claimed, InState
  <2>12. ParallelismRespected'
    <3>1. Active' = {}
      BY DEF Active
    <3>2. QED
      BY <3>1, NoMoreActive
  <2>13. QED
    BY <2>1, <2>2, <2>3, <2>4, <2>5, <2>6, <2>7, <2>8, <2>9, <2>10, <2>11, <2>12
<1>22. CASE RecordStart
  <2> USE <1>22 DEF RecordStart, SupAt, SupMove, Idle, status, job, Types
  <2>1. Types'
    BY DEF Types
  <2>2. MemorySound'
    BY DEF MemorySound, Snapshot, Placed
  <2>3. StoredSound'
    BY DEF StoredSound
  <2>4. Placed'
    BY DEF Placed
  <2>5. Snapshot'
    BY DEF Snapshot, Placed, MemorySound, InState
  <2>6. Vacant'
    BY DEF Vacant, Placed
  <2>7. Tracked'
    BY DEF Tracked, Snapshot, Placed, Live
  <2>8. StartsInOrder'
    BY DEF StartsInOrder, Snapshot, MemorySound, Placed
  <2>9. FailureStopsChildren'
    BY DEF FailureStopsChildren, Tracked, Placed, Live, InState
  <2>10. Saved'
    BY DEF Saved, Placed, Live
  <2>11. Bounded'
    <3>1. Claimed' = Claimed
      BY DEF Claimed, InState
    <3>2. QED
      BY <3>1 DEF Bounded
  <2>12. ParallelismRespected'
    BY DEF ParallelismRespected
  <2>13. QED
    BY <2>1, <2>2, <2>3, <2>4, <2>5, <2>6, <2>7, <2>8, <2>9, <2>10, <2>11, <2>12
<1>23. CASE UNCHANGED vars
  BY <1>23 DEF vars, Types, MemorySound, StoredSound, Placed, Snapshot, Vacant, Tracked, Saved,
              Bounded, Claimed, InState, StartsInOrder, FailureStopsChildren, ParallelismRespected
<1>24. CASE Next
  <2> HIDE DEF WorkflowInv
  <2>1. ASSUME NEW t \in Thread, Persist(t) PROVE WorkflowInv'
    BY <1>14, <1>15, <2>1 DEF Persist
  <2>2. CASE Supervise
    BY <1>3, <1>4, <1>5, <1>6, <1>7, <1>8, <1>9, <1>10, <1>11, <1>12, <1>13, <1>22, <2>1, <2>2
       DEF Supervise
  <2>3. CASE ClientStep
    BY <1>16, <1>17, <1>18, <2>1, <2>3 DEF ClientStep
  <2>4. QED
    BY <1>1, <1>2, <1>19, <1>20, <1>21, <1>24, <2>2, <2>3 DEF Next
<1>25. QED
  BY <1>23, <1>24

\* Nothing has started yet.
LEMMA WorkflowInitInv == Init => WorkflowInv
<1> SUFFICES ASSUME Init PROVE WorkflowInv
  OBVIOUS
<1> USE NodesFinite, DependsOnNodes, WorkflowBounds, StatusParts DEF Init
<1>1. Types
  BY DEF Types, NodeState, ChildState, SupStep
<1>2. MemorySound /\ StoredSound
  BY NoRowSound DEF MemorySound, StoredSound
<1>3. Placed /\ Snapshot /\ Vacant /\ Tracked /\ Saved /\ Bounded
  BY DEF Placed, Snapshot, Vacant, Tracked, Saved, Live, Bounded
<1>4. StartsInOrder /\ FailureStopsChildren
  BY DEF StartsInOrder, FailureStopsChildren
<1>5. ParallelismRespected
  <2>1. {n \in Nodes : child[n] = "active"} = {}
    OBVIOUS
  <2>2. limits.max_parallelism \in Nat
    OBVIOUS
  <2>3. QED
    <3>1. Cardinality({n \in Nodes : child[n] = "active"}) = 0
      BY <2>1, FS_EmptySet
    <3>2. QED
      BY <2>2, <3>1 DEF ParallelismRespected
<1>6. QED
  BY <1>1, <1>2, <1>3, <1>4, <1>5 DEF WorkflowInv

-----------------------------------------------------------------------------
\* WorkflowInv is an invariant of every workflow.
THEOREM WorkflowInvariant == Spec => []WorkflowInv
BY WorkflowInitInv, WorkflowStep, PTL DEF Spec

\* TypeOK: every variable stays in its set.
THEOREM WorkflowTypes == Spec => []TypeOK
<1>1. WorkflowInv => TypeOK
  <2> SUFFICES ASSUME WorkflowInv PROVE TypeOK
    OBVIOUS
  <2>1. Now \in Status \cup {NoRow}
    <3>1. CASE state # "Absent"
      BY <3>1, NowIsStatus DEF WorkflowInv
    <3>2. CASE state = "Absent"
      BY <3>2 DEF WorkflowInv, Vacant, Now, NoRow
    <3>3. QED
      BY <3>1, <3>2
  <2>2. Cardinality(launched) <= 1
    BY FS_EmptySet, FS_Singleton DEF WorkflowInv, Placed
  <2>3. QED
    BY <2>1, <2>2 DEF WorkflowInv, Types, TypeOK
<1>2. QED
  BY <1>1, WorkflowInvariant, PTL

\* StartsInOrder: agents start after the nodes they depend on, and never again.
THEOREM InOrder == Spec => []StartsInOrder
BY WorkflowInvariant, PTL DEF WorkflowInv

\* ParallelismRespected: the limit holds whatever the snapshots missed.
THEOREM ParallelismBound == Spec => []ParallelismRespected
BY WorkflowInvariant, PTL DEF WorkflowInv

\* CompletedIsWhole: a completed workflow, or row, has every artifact.
THEOREM WholeResults == Spec => []CompletedIsWhole
<1>1. WorkflowInv => CompletedIsWhole
  BY DEF WorkflowInv, MemorySound, StoredSound, Sound, CompletedIsWhole
<1>2. QED
  BY <1>1, WorkflowInvariant, PTL

\* FailureStopsChildren: a failed workflow leaves no agent that was not told.
THEOREM ChildrenStopped == Spec => []FailureStopsChildren
BY WorkflowInvariant, PTL DEF WorkflowInv

\* NoneUnsupervised: a workflow whose supervisor is gone is terminal, and one that
\* never had one runs no agent.
THEOREM AllSupervised == Spec => []NoneUnsupervised
<1>1. WorkflowInv => NoneUnsupervised
  BY DEF WorkflowInv, Placed, NoneUnsupervised
<1>2. QED
  BY <1>1, WorkflowInvariant, PTL

\* FailedForGood: nothing but a retry, under a new id, revives a failed workflow.
THEOREM StaysFailed == Spec => FailedForGood
<1>1. WorkflowInv /\ [Next]_vars => [state = "Failed" => state' = "Failed" \/ RetryWorkflow]_vars
  <2> SUFFICES ASSUME WorkflowInv, Next, state = "Failed" PROVE state' = "Failed" \/ RetryWorkflow
    BY DEF vars
  <2>1. sup \in {"failing", "done"} /\ row \in Status \cup {NoRow} /\ Sound(row)
    BY DEF WorkflowInv, Placed, Types, StoredSound
  <2>2. row.state \in Live
    BY <2>1 DEF WorkflowInv, Saved, Live
  <2>3. CASE Supervise
    BY <2>1, <2>3 DEF Supervise, RecordStart, SupTop, SupPoll, SupFail, SupPolled, SupCheck, SupComplete,
       SupStart,
                      SupStartFails, SupMarkRunning, SupSleep, SupCancelChildren, SupAt, Persist,
                      PersistClone, PersistSave, status
  <2>4. CASE ClientStep
    BY <2>4 DEF ClientStep, SetPaused, CancelWorkflow, CancelVictims, Persist, PersistClone,
                PersistSave, Terminal, status
  <2>5. CASE Restart
    BY <2>1, <2>2, <2>5, RecoverFact DEF Restart
  <2>6. CASE StartWorkflow \/ Tick \/ \E n \in Nodes : ChildEnds(n)
    BY <2>6 DEF StartWorkflow, Tick, ChildEnds, status
  <2>7. QED
    BY <2>3, <2>4, <2>5, <2>6 DEF Next
<1>2. QED
  BY <1>1, WorkflowInvariant, PTL DEF Spec, FailedForGood
=============================================================================
