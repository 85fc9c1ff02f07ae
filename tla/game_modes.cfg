SPECIFICATION FairSpec
CONSTANTS
  Steps = 2
INVARIANTS
  DemoIsOver
  PicturesHold
PROPERTIES
  RequestKept
  RequestsEnd
