CONSTANTS
  r1 = r1
  r2 = r2
  Runs = {r1, r2}
  Permits = 1
  MaxRetained = 2
  MaxPending = 0
  MaxLeases = 2
  LeaseTicks = 1
  RunTicks = 2
  PlanTicks = 1
  t1 = t1
  t2 = t2
  Tx = {t1, t2}
  NoTx = NoTx
  Holders = {1, 2}
  WireBound = 2
SPECIFICATION MCSpec
INVARIANT LoginTypeOK
INVARIANT OneOnTheVT
INVARIANT OnlyAuthenticated
INVARIANT ReplyBelongs
PROPERTY CancelledAtPromptNeverRuns
PROPERTY TaskReturns
PROPERTY HandoffEnds
PROPERTY ThreadsEnd
CHECK_DEADLOCK FALSE
