\* A queue of two messages, and threads that stop each other and change their
\* priorities.
SPECIFICATION Spec
CONSTANTS
  Threads = {"a", "b", "c"}
  Idle = "idle"
  Queues = {"q"}
  MsgCount <- MCTwo
  Messages = {1, 2}
  InitPri <- MCPri
  Priorities = {1, 2}
  MayStop = TRUE
INVARIANTS MostUrgentRuns NoLostWakeup
PROPERTIES QueuesKeepOrder
\* the threads may all stop, or all wait
CHECK_DEADLOCK FALSE
