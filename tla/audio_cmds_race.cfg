\* Retraces at any time.
SPECIFICATION Spec
CONSTANTS
  RingSize = 4
  ProcLen = 2
  MaxCmds = 3
  PreemptInside = TRUE
INVARIANT CarriedOutInOrder
