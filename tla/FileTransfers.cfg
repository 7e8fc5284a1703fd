CONSTANTS
  an = an
  am = am
  bn = bn
  dn = dn
  dm = dm
  dn1 = dn1
  Absent = Absent
  Jobs = {1, 2}
  Tabs = {1, 2}
  Visible = {an, am, bn, dn, dm, dn1}
  MayExist = {dn}
  Roots <- MCRoots
  Ops <- MCOps
  Policies <- MCPolicies
  TabOf <- MCTabOf
  Dest <- MCDest
  Tries <- MCTries
  MaxUndo = 1
SPECIFICATION FilesSpec
INVARIANT FilesTypeOK
INVARIANT VisibleWhole
INVARIANT StageSettled
INVARIANT NothingLost
INVARIANT OverwritesOnlyInOverlap
 
INVARIANT UndoExact
INVARIANT RemovesOnlyHalves
CHECK_DEADLOCK FALSE
