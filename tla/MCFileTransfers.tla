--------------------------- MODULE MCFileTransfers ---------------------------
(***************************************************************************)
(* FileTransfers for TLC: a transfer of two items from one directory and   *)
(* one of a single item from another, whose name is that of the first, all *)
(* into a target directory that may hold an item of that name already.     *)
(***************************************************************************)
EXTENDS FileTransfers, TLC

CONSTANTS an, am, bn, dn, dm, dn1

MCRoots == <<<<an, am>>, <<bn>>>>
MCOps   == <<{"copy"}, {"move", "move_far"}>>
MCTabOf == <<{1}, {1, 2}>>
MCPolicies == <<{"Replace", "KeepBoth"}, {"Replace", "Skip", "KeepBoth"}>>
MCDest  == (an :> dn) @@ (am :> dm) @@ (bn :> dn)
MCTries == (dn :> <<dn1>>) @@ (dm :> <<>>)
=============================================================================
