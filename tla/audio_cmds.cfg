\* No retrace while the game thread is inside a call.
SPECIFICATION FairSpec
CONSTANTS
  RingSize = 3
  ProcLen = 2
  MaxCmds = 5
  PreemptInside = FALSE
PROPERTIES CommandsKeepOrder EveryCommandCarriedOut ResetEnds
