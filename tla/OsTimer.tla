------------------------------- MODULE OsTimer -------------------------------
(***************************************************************************)
(* The timers of libultra (src/libultra/os/timerintr.c, settimer.c,        *)
(* gettime.c, settime.c) and the clock that the VI manager keeps (io/      *)
(* vimgr.c), as they are built before version K.                           *)
(*                                                                         *)
(* The processor counts modulo W (2^32) and interrupts when the count      *)
(* equals a compare register.  Timers are a list of differences, the first *)
(* one relative to __osTimerCounter.  The interrupt is a message to the VI *)
(* manager, which may come to it late.                                     *)
(***************************************************************************)
EXTENDS Integers, Sequences, FiniteSets, FiniteSetsExt

CONSTANTS
  W,          \* the count is modulo W: 2^32
  Timers,     \* OSTimers
  Countdowns, \* what they may be set to
  Half,       \* 500000 microseconds
  MaxLate,    \* bound: how late the VI manager may be
  Frame,      \* bound: the time between two of its retraces
  MaxNow      \* bound: the end of time

ASSUME TimerAssumption ==
  /\ {W, Half, MaxLate, Frame, MaxNow} \subseteq Nat
  /\ Frame < W /\ Countdowns \subseteq 1..MaxNow
  /\ \A v \in Countdowns \cup {Half} : v + MaxLate < W
  /\ Timers # {}

VARIABLES
  scene,     \* "single" or "slow": one timer and the clock, "list": all timers
  now,       \* history: the time that has passed
  counter,   \* __osTimerCounter
  compare,   \* the compare register
  writing,   \* the value that __osSetTimerIntr is about to write, or -1
  pending,   \* ticks since the COUNTER message came, or -1
  list,      \* __osTimerList: timers with their values
  interval,  \* of each timer
  due,       \* history: when it is to fire, put off by late interrupts, or -1
  base, current,  \* __osBaseCounter, __osCurrentTime
  origin     \* history: the time the clock shows, less now

listVars == <<counter, compare, writing, list, interval, due>>
clockVars == <<base, current, origin>>
timerVars == <<scene, now, pending, listVars, clockVars>>

\* Is the clock looked at?
Clock == scene # "list"

\* May the count pass the compare value while it is written?
SlowSet == scene = "slow"

\* The timers of the scene.
Used == IF scene = "list" THEN Timers ELSE {CHOOSE t \in Timers : TRUE}

Count == now % W
Elapsed(c) == (Count - c) % W          \* u32 - u32
Intervals == {0} \cup Countdowns

TimerTypeOK ==
  /\ scene \in {"single", "slow", "list"}
  /\ now \in 0..MaxNow /\ {counter, compare, base} \subseteq 0..W - 1
  /\ writing \in -1..W - 1 /\ pending \in -1..MaxLate
  /\ \A i \in 1..Len(list) : list[i].t \in Timers /\ list[i].value \in 0..MaxNow
  /\ interval \in [Timers -> 0..MaxNow] /\ due \in [Timers -> -1..2 * MaxNow]
  /\ current \in Nat /\ origin \in Int

TimerInit ==
  /\ scene \in {"single", "slow", "list"}
  /\ now = 0 /\ counter = 0 /\ compare = 0 /\ writing = -1 /\ pending = -1
  /\ list = <<>> /\ interval = [t \in Timers |-> 0] /\ due = [t \in Timers |-> -1]
  /\ base = 0 /\ current = 0 /\ origin = 0
-----------------------------------------------------------------------------
(***************************************************************************)
(* __osInsertTimer: the new timer goes before the first one that does not  *)
(* end earlier; values become differences.                                 *)
(***************************************************************************)
\* What is left of the value behind the first j timers.
Left(l, value) ==
  LET left[j \in 0..Len(l)] == IF j = 0 THEN value ELSE left[j - 1] - l[j].value
  IN  left

Place(l, value) ==
  Max({i \in 0..Len(l) : \A j \in 1..i : Left(l, value)[j] > 0})

\* The list l with t behind its first i timers.
InsertAt(l, t, i, value) ==
  [k \in 1..Len(l) + 1 |->
     IF k <= i THEN l[k]
     ELSE IF k = i + 1 THEN [t |-> t, value |-> value]
     ELSE IF k = i + 2 THEN [t |-> l[k - 1].t, value |-> l[k - 1].value - value]
     ELSE l[k - 1]]

Insert(l, t, value) ==
  LET i == Place(l, value) IN InsertAt(l, t, i, Left(l, value)[i])

\* __osSetTimerIntr; the compare register is written a little later.
SetTimerIntr(value) ==
  /\ counter' = Count
  /\ IF SlowSet THEN writing' = (Count + value) % W /\ compare' = compare
                ELSE compare' = (Count + value) % W /\ writing' = -1

\* Mutant: a value the count has passed is not written.
SetCompareAhead ==
  /\ writing # -1 /\ writing' = -1
  /\ compare' = IF writing = Count THEN compare ELSE writing
  /\ UNCHANGED <<scene, now, pending, counter, list, interval, due, clockVars>>

SetCompare ==
  /\ writing # -1 /\ compare' = writing /\ writing' = -1
  /\ UNCHANGED <<scene, now, pending, counter, list, interval, due, clockVars>>

\* osSetTimer.  The interrupt is set only if the timer has become the first.
\* Timers are set in one instant, while none runs: the elapsed time of a timer
\* that runs is not taken off here, as later versions of the library do.
SetTimer(t, countdown, again) ==
  /\ writing = -1 /\ due[t] = -1 /\ now + countdown <= MaxNow
  /\ pending = -1 /\ (list = <<>> \/ Elapsed(counter) = 0)
  /\ list' = Insert(list, t, countdown)
  /\ interval' = [interval EXCEPT ![t] = again]
  /\ due' = [due EXCEPT ![t] = now + countdown]
  /\ IF Head(list').t = t THEN SetTimerIntr(Head(list').value)
                          ELSE UNCHANGED <<counter, compare, writing>>
  /\ UNCHANGED <<scene, now, pending, clockVars>>

(***************************************************************************)
(* __osTimerInterrupt: how many timers fire.  The time that has elapsed is *)
(* set against the first one only; those behind it fire with it only if    *)
(* their difference is zero.  What the interrupt was late is not taken off *)
(* the timers behind: it puts off when they are due.                       *)
(***************************************************************************)
Fires(e) ==
  IF list = <<>> \/ e < list[1].value THEN 0
  ELSE Max({i \in 1..Len(list) : \A j \in 2..i : list[j].value = 0})

Firing == {list[i].t : i \in 1..Fires(Elapsed(counter))}

\* The first n timers fire and those with an interval are put back, in turn.
Again(l, t) == IF interval[t] = 0 THEN l ELSE Insert(l, t, interval[t])

PutBack(n) ==
  LET back[i \in 0..n] ==
        IF i = 0 THEN SubSeq(list, n + 1, Len(list)) ELSE Again(back[i - 1], list[i].t)
  IN  back[n]

TimerInterrupt ==
  LET e == Elapsed(counter)
      n == Fires(e)
      rest == IF n = 0 /\ list # <<>>
              THEN <<[list[1] EXCEPT !.value = @ - e]>> \o Tail(list)
              ELSE PutBack(n) IN
  /\ pending # -1 /\ writing = -1 /\ pending' = -1
  /\ list' = rest
  /\ due' = [t \in Timers |->
       IF t \in Firing THEN IF interval[t] = 0 THEN -1 ELSE now + interval[t]
       ELSE IF n = 0 \/ due[t] = -1 THEN due[t] ELSE due[t] + (e - list[1].value)]
  /\ IF list = <<>> THEN UNCHANGED <<counter, compare, writing>>
     ELSE IF rest = <<>> THEN counter' = 0 /\ compare' = 0 /\ writing' = writing
     ELSE SetTimerIntr(Head(rest).value)
  /\ UNCHANGED <<scene, now, interval, clockVars>>
-----------------------------------------------------------------------------
(* The clock.                                                              *)

GetTime == current + Elapsed(base)

\* Mutant: the count is read again for the new base.
RetraceReadsTwice ==
  /\ Clock /\ base' = (Count + 1) % W /\ current' = current + Elapsed(base)
  /\ UNCHANGED <<scene, now, pending, listVars, origin>>

\* The VI manager adds what has passed since its last retrace.
Retrace ==
  /\ Clock /\ base' = Count /\ current' = current + Elapsed(base)
  /\ UNCHANGED <<scene, now, pending, listVars, origin>>

\* osSetTime leaves the base: the clock then shows what has passed since it.
SetTime(time) ==
  /\ Clock /\ current' = time /\ origin' = time + Elapsed(base) - now
  /\ UNCHANGED <<scene, now, pending, listVars, base>>

\* osContInit waits until half a second has passed on the clock.
ContInit(t) ==
  /\ Clock /\ GetTime < Half /\ SetTimer(t, Half - GetTime, 0)

Tick ==
  /\ now < MaxNow /\ now' = now + 1
  /\ pending < MaxLate /\ (Clock => Elapsed(base) < Frame)
  /\ writing # -1 => Count = counter
  /\ pending' = IF pending # -1 THEN pending + 1
                ELSE IF now' % W = compare THEN 0 ELSE -1
  /\ UNCHANGED <<scene, listVars, clockVars>>
-----------------------------------------------------------------------------
TimerNext ==
  \/ Tick \/ Retrace \/ SetTime(0) \/ TimerInterrupt \/ SetCompare
  \/ \E t \in Used :
       ContInit(t) \/ \E c \in Countdowns, again \in Intervals : SetTimer(t, c, again)

TimerSpec == TimerInit /\ [][TimerNext]_timerVars
-----------------------------------------------------------------------------
(***************************************************************************)
(* A timer fires when it is due, although the list knows differences only  *)
(* and the count wraps round: never before, and late by no more than the   *)
(* VI manager and the interrupts of the timers before it were; if the      *)
(* count passes the compare value before it is written, once it has come   *)
(* round.                                                                  *)
(***************************************************************************)
OnTime ==
  [][\A t \in Timers : due[t] # -1 =>
       /\ TimerInterrupt /\ t \in Firing => now >= due[t]
       /\ now <= due[t] + MaxLate + (IF SlowSet THEN W ELSE 0)]_timerVars

(***************************************************************************)
(* The clock shows the time that has passed, whenever it is read between   *)
(* two retraces and however often the count has come round.                *)
(***************************************************************************)
ClockIsRight == Clock => GetTime = now + origin
=============================================================================
