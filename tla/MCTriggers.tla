------------------------------ MODULE MCTriggers ------------------------------
(***************************************************************************)
(* Triggers for TLC: one caller beside the scheduler; the clients that use *)
(* the switches are interchangeable.                                       *)
(***************************************************************************)
EXTENDS Triggers, TLC

ClientSymmetry == Permutations(Clients)
=============================================================================
