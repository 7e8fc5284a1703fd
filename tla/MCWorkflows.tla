----------------------------- MODULE MCWorkflows -----------------------------
(***************************************************************************)
(* Workflows for TLC: two independent nodes feed a third, the shape of the *)
(* built-in workspace-troubleshooter workflow.                             *)
(***************************************************************************)
EXTENDS Workflows, TLC

CONSTANTS left, right, join

\* Two agents at a time; one; and one with a budget that the last node exceeds.
JoinLimits == {[max_parallelism |-> 2, max_total_tokens |-> 3],
               [max_parallelism |-> 1, max_total_tokens |-> 3],
               [max_parallelism |-> 1, max_total_tokens |-> 2]}

Join == (left :> {}) @@ (right :> {}) @@ (join :> {left, right})
=============================================================================
