SPECIFICATION FairSpec
CONSTANTS
  game = game
  load = load
  audio = audio
  leo = leo
  raw = raw
  Copier = {game}
  Streamer = {audio}
  Prober = {raw}
  Leo = leo
  CmdLen = 2
  Burst = 1
  StreamLen = 1
  Sectors = 2
  C1Limit = 1
  LastSystem = 0
  ExpansionKit = TRUE
  Faults = {"count", "buffer"}
INVARIANTS BusAtRest BlocksAreWhole
PROPERTIES CopiesReturn LeoGoesOn
