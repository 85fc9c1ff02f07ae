SPECIFICATION FairSpec
CONSTANTS
  MaxFrames = 8
  SpinOut = FALSE
INVARIANTS
  RenderExclusive
PROPERTIES
  ShowsLatest
  EveryFrameShown
