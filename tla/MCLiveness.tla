----------------------------- MODULE MCLiveness -----------------------------
(***************************************************************************)
(* The liveness of the agent runs and of the login manager for TLC. The    *)
(* two components share no state and no step, so their interleavings add   *)
(* nothing: each behaviour follows one of them, the subject, and leaves    *)
(* the other where it began. The fairness of each component is stated for  *)
(* the behaviours that follow it.                                          *)
(***************************************************************************)
EXTENDS AgentRuns, Login

VARIABLE subject

all == <<subject, vars, loginVars>>

Follow(who, step, others) == subject = who /\ step /\ UNCHANGED <<subject, others>>

MCInit == subject \in {"agents", "login"} /\ Init /\ LoginInit

MCNext == Follow("agents", Next, loginVars) \/ Follow("login", LoginNext, vars)

MCFairness ==
  /\ WF_all(Follow("agents", Tick, loginVars))
  /\ \A r \in Runs : WF_all(Follow("agents", TaskProgress(r), loginVars))
  /\ WF_all(Follow("login", Supervise, vars))
  /\ \A h \in Holders : WF_all(Follow("login", HolderStep(h), vars))
  /\ \A t \in Tx : /\ WF_all(Follow("login", Unwind(t), vars))
                   /\ WF_all(Follow("login", OpenUser(t) \/ OpenUserFails(t), vars))

MCSpec == MCInit /\ [][MCNext]_all /\ MCFairness
=============================================================================
