----------------------------- MODULE MCAgentRuns -----------------------------
(***************************************************************************)
(* AgentRuns for TLC. Run ids are random and have no order, so they are a  *)
(* symmetry set wherever only safety is checked.                           *)
(***************************************************************************)
EXTENDS AgentRuns, TLC

RunSymmetry == Permutations(Runs)
=============================================================================
