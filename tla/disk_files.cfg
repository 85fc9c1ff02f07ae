\* Two disks of the game, one file on each, room for two.
SPECIFICATION FilesFairSpec
CONSTANTS
  d1 = d1
  d2 = d2
  NoDisk = NoDisk
  f1 = f1
  f2 = f2
  Tmp = Tmp
  Disks = {d1, d2}
  Fitting = {d1, d2}
  Names = {f1, f2}
  NumSlots = 2
  Stored = {f1}
  MaxOps = 3
  MaxCuts = 2
  MaxMoves = 1
INVARIANTS SavedStays
PROPERTIES OperationEnds
\* the power may be off
CHECK_DEADLOCK FALSE
