\* One timer and the clock, a slow write of the compare register, and three
\* timers set in the same instants.
SPECIFICATION TimerSpec
CONSTANTS
  a = a
  b = b
  c = c
  W = 8
  Timers = {a, b, c}
  Countdowns = {1, 2, 5}
  Half = 3
  MaxLate = 1
  Frame = 3
  MaxNow = 24
INVARIANTS ClockIsRight
PROPERTIES OnTime
\* time ends
CHECK_DEADLOCK FALSE
