CONSTANTS
  left = left
  right = right
  join = join
  Nodes = {left, right, join}
  DependsOn <- Join
  Limits <- JoinLimits
  DeadlineTicks = 1
  MaxRetries = 0
SPECIFICATION Spec
INVARIANT CancelStopsChildren
