------------------------------ MODULE PlanGate ------------------------------
(***************************************************************************)
(* What the AI service promises about the mutation an agent run may        *)
(* propose, whatever its threads do: the mutation is offered once, its     *)
(* plan has one owner, and it is executed at most once, by the owner the   *)
(* user approved, under a lease that was never renewed. AgentRuns          *)
(* implements this specification.                                          *)
(***************************************************************************)
EXTENDS Naturals

CONSTANTS Runs     \* run ids

VARIABLES
  gate,        \* how far the mutation of each run has come
  leased,      \* runs whose capability lease is usable
  executions   \* how often the mutation of each run was executed

gateVars == <<gate, leased, executions>>

\* A mutation that is on its way: the only ones that can be called off.
Pending  == {"open", "waiting", "claimed", "approved", "authorized"}
GateState == Pending \cup {"unborn", "executed", "void"}

Init ==
  /\ gate = [r \in Runs |-> "unborn"]
  /\ leased = {}
  /\ executions = [r \in Runs |-> 0]

Pass(r, from, to) == gate[r] = from /\ gate' = [gate EXCEPT ![r] = to]

\* A run gets its only lease when it is registered; the registration may fail.
Start(r) ==
  /\ \E to \in {"open", "void"} : Pass(r, "unborn", to)
  /\ leased' = leased \cup {r}
  /\ UNCHANGED executions

\* A run offers its mutation; plans that expired by then are called off.
Offer(r, expired) ==
  /\ gate[r] = "open"
  /\ \A x \in expired : gate[x] = "waiting"
  /\ gate' = [x \in Runs |-> IF x = r THEN "waiting"
                             ELSE IF x \in expired THEN "void" ELSE gate[x]]
  /\ UNCHANGED <<leased, executions>>

Claim(r)   == Pass(r, "waiting", "claimed")  /\ UNCHANGED <<leased, executions>>
Approve(r) == Pass(r, "claimed", "approved") /\ UNCHANGED <<leased, executions>>

Authorize(r) ==
  /\ r \in leased
  /\ Pass(r, "approved", "authorized")
  /\ UNCHANGED <<leased, executions>>

Execute(r) ==
  /\ Pass(r, "authorized", "executed")
  /\ executions' = [executions EXCEPT ![r] = @ + 1]
  /\ UNCHANGED leased

\* Refused, cancelled, expired, failed or lost in a restart: for good.
CallOff(S) ==
  /\ \A r \in S : gate[r] \in Pending
  /\ gate' = [r \in Runs |-> IF r \in S THEN "void" ELSE gate[r]]
  /\ leased' \in SUBSET leased
  /\ UNCHANGED executions

Next ==
  \/ \E S \in SUBSET Runs : CallOff(S)
  \/ \E r \in Runs : \/ Start(r) \/ Claim(r) \/ Approve(r) \/ Authorize(r) \/ Execute(r)
                     \/ \E expired \in SUBSET Runs : Offer(r, expired)

Spec == Init /\ [][Next]_gateVars
=============================================================================
