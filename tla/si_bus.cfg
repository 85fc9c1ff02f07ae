SPECIFICATION SerialSpec
CONSTANTS
  NPorts = 2
  RumblePorts = {2}
  Others = {"reset", "disk"}
  RewritesOnRetry = FALSE
  Retries = 1
  MaxFaults = 1
INVARIANTS NoEndlessWait MotorKnown PlayersHaveControllers
PROPERTIES OwnAnswer
\* after the reset everything stops
CHECK_DEADLOCK FALSE
