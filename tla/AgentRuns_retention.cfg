CONSTANTS
  r1 = r1
  r2 = r2
  Runs = {r1, r2}
  Permits = 1
  MaxRetained = 1
  MaxPending = 1
  MaxLeases = 2
  LeaseTicks = 1
  RunTicks = 1
  PlanTicks = 1
SPECIFICATION Spec
SYMMETRY RunSymmetry
INVARIANT RetentionBound
