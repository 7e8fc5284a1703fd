CONSTANTS
  left = left
  right = right
  join = join
  Nodes = {left, right, join}
  DependsOn <- Join
  Limits <- JoinLimits
  DeadlineTicks = 1
  MaxRetries = 1
SPECIFICATION Spec
INVARIANT TypeOK
INVARIANT StartsInOrder
INVARIANT ParallelismRespected
INVARIANT CompletedIsWhole
INVARIANT FailureStopsChildren
INVARIANT NoneUnsupervised
PROPERTY FailedForGood
PROPERTY WorkflowEnds
