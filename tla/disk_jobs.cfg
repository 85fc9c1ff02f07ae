SPECIFICATION FairSpec
CONSTANTS
  load = load
  saveA = saveA
  saveB = saveB
  menu = menu
  RingLen = 4
  QueueLen = 5
  Load = {load}
  Save = {saveA, saveB}
  Menu = {menu}
INVARIANTS HandIsWhole PostedIsKept
PROPERTIES GoesOnWhenDone OperationsEnd
