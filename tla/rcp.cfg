\* The hardware the game was written for, and the reset button at any time.
SPECIFICATION FairSpec
CONSTANTS
  MainQLen = 8
  MaxPendingVi = 1
  MaxSyncs = 1
  MaxTroubles = 1
  Periods = {1}
  LateYield = FALSE
INVARIANTS GfxBeginsOnce PoolExclusive NoEventLost AudioTaskOnce
PROPERTIES DrawsEachFrameOnce DrawsEveryFrame AudioTaskBegins
\* the reset thread stops everything in the end
CHECK_DEADLOCK FALSE
