--------------------------- MODULE Retraces_proofs ---------------------------
(***************************************************************************)
(* Proofs about what follows the retraces of the VI: the frame loop and    *)
(* its buffers (FrameLoop), for any number of frames; the timers and the   *)
(* clock of the VI manager (OsTimer), for every width of the count, every  *)
(* set of timers and every bound that TimerAssumption allows; and the      *)
(* controllers that every frame polls and reads (SerialBus), for any       *)
(* number of ports, paks, retries and faults.                              *)
(***************************************************************************)
EXTENDS FrameLoop, OsTimer, SerialBus, TLAPS, FiniteSetTheorems, FunctionTheorems,
        SequenceTheorems, WellFoundedInduction

LEMMA InitInv ==
  ASSUME Init
  PROVE  IInv
BY DEF Init, IInv, TypeOK, BuiltTarget, VideoSettled, RenderExclusive, Buffers,
   NoBuffer, RCP!Init

LEMMA NextInv ==
  ASSUME IInv, [Next]_vars, ~SpinOut
  PROVE  IInv'
<1> USE DEF IInv, Buffers, NoBuffer
<1>1. CASE Boot
  <2>1. TypeOK' /\ (cfc + d00 = 1)'
    BY <1>1 DEF Boot, TypeOK, Indices, Rotated, SetIndices, RCP!Set
  <2> QED
    BY <1>1, <2>1 DEF Boot, BuiltTarget, VideoSettled, RenderExclusive
<1>2. CASE FrameBegin
  <2>1. /\ d04' \in Buffers /\ d08' \in Buffers /\ d0c' \in Buffers
    <3>1. /\ Reseated.d04 \in Buffers /\ Reseated.d08 \in Buffers
          /\ Reseated.d0c \in Buffers
      BY DEF Reseated, TypeOK
    <3>2. /\ Indices.d04 \in Buffers /\ Indices.d08 \in Buffers
          /\ Indices.d0c \in Buffers
      BY DEF Indices, TypeOK
    <3> QED
      BY <1>2, <3>1, <3>2 DEF FrameBegin, SetIndices, Rotated
  <2>2. /\ mode' \in {2, 3} /\ nextMode' \in {2, 3}
        /\ cfc' \in {0, 1} /\ d00' \in {0, 1} /\ cfc' + d00' = 1
    BY <1>2 DEF FrameBegin, TypeOK
  <2>3. /\ built' \in [buffer : Buffers \cup {NoBuffer}, number : Nat]
        /\ built'.buffer = IF mode' = 3 THEN d04' ELSE cfc'
    BY <1>2, <2>1, <2>2 DEF FrameBegin, TypeOK
  <2>4. /\ pc' = "dp"
        /\ UNCHANGED <<viCurr, viNext, rcp, drawing, content>>
    BY <1>2 DEF FrameBegin
  <2>5. TypeOK'
    BY <2>1, <2>2, <2>3, <2>4 DEF TypeOK
  <2> QED
    BY <2>2, <2>3, <2>4, <2>5 DEF BuiltTarget, VideoSettled, RenderExclusive
<1>3. CASE FrameDrawn
  BY <1>3 DEF FrameDrawn, RCP!Collect, indexVars, TypeOK, BuiltTarget,
     VideoSettled, RenderExclusive
<1>4. CASE Swap
  <2>1. Shown \in Buffers
    BY DEF Shown, TypeOK
  <2>2. Shown' = Shown
    BY <1>4 DEF Swap, Shown, indexVars
  <2> QED
    BY <1>4, <2>1, <2>2 DEF Swap, indexVars, TypeOK, BuiltTarget, VideoSettled,
       RenderExclusive
<1>5. CASE Submit
  <2>1. pc = "spin" /\ TargetFree /\ viNext = Shown
    BY <1>5 DEF Submit, VideoSettled
  <2>2. built.buffer \notin {viCurr, viNext}
    <3>1. CASE mode = 3
      BY <2>1, <3>1 DEF BuiltTarget, TargetFree
    <3>2. CASE mode = 2
      BY <2>1, <3>2 DEF BuiltTarget, TargetFree, Shown, TypeOK
    <3> QED
      BY <3>1, <3>2 DEF TypeOK
  <2> QED
    BY <1>5, <2>2 DEF Submit, RCP!Set, indexVars, TypeOK, BuiltTarget,
       VideoSettled, RenderExclusive
<1>6. CASE Drawn
  <2>1. content' \in [Buffers -> Nat]
    BY <1>6 DEF Drawn, TypeOK
  <2> QED
    BY <1>6, <2>1 DEF Drawn, RCP!Draw, indexVars, TypeOK, BuiltTarget,
       VideoSettled, Shown, RenderExclusive
<1>7. CASE ViRetrace
  BY <1>7 DEF ViRetrace, indexVars, TypeOK, BuiltTarget, VideoSettled, Shown,
     RenderExclusive
<1>8. CASE UNCHANGED vars
  BY <1>8 DEF vars, indexVars, TypeOK, BuiltTarget, VideoSettled, Shown,
     RenderExclusive
<1> QED
  BY <1>1, <1>2, <1>3, <1>4, <1>5, <1>6, <1>7, <1>8 DEF Next, Game

\* The RDP never draws into a buffer that the VI shows or is about to show,
\* in either mode and across the change from one to the other.
THEOREM RendersExclusively ==
  ASSUME ~SpinOut
  PROVE  Spec => []RenderExclusive
<1>1. Init => IInv
  BY InitInv
<1>2. IInv /\ [Next]_vars => IInv'
  BY NextInv
<1>3. IInv => RenderExclusive
  BY DEF IInv
<1> QED
  BY <1>1, <1>2, <1>3, PTL DEF Spec

-----------------------------------------------------------------------------
(* What is shown.                                                          *)

\* The frame that was given to the scheduler is the one before the one built
\* last, it is where the VI will be told to look, and it is there once drawn.
\* The first frame draws nothing.
Handed ==
  /\ mode = 3 => nextMode = 3
  /\ pc \in {"boot", "tick"} => drawing = built
  /\ pc \in {"dp", "swap", "spin"} => built.number = drawing.number + 1
  /\ IF drawing.number = 0
     THEN drawing.buffer = NoBuffer /\ \A b \in Buffers : content[b] = 0
     ELSE /\ pc # "boot"
          /\ drawing.buffer = IF pc = "tick"
                              THEN IF mode = 3 THEN d04 ELSE cfc
                              ELSE Shown
          /\ rcp # "set" => content[drawing.buffer] = drawing.number

LEMMA InitHanded ==
  ASSUME Init
  PROVE  Handed
BY DEF Init, Handed, RCP!Init

LEMMA NextHanded ==
  ASSUME IInv, Handed, [Next]_vars
  PROVE  Handed'
<1> USE DEF Buffers, NoBuffer
<1>1. TypeOK /\ cfc + d00 = 1 /\ BuiltTarget /\ VideoSettled
  BY DEF IInv
<1>2. CASE Boot
  BY <1>1, <1>2 DEF Boot, Handed, RCP!Set
<1>3. CASE FrameBegin
  <2>1. /\ pc = "tick" /\ pc' = "dp" /\ mode' = nextMode /\ nextMode' \in {nextMode, 3}
        /\ d00' = 1 - d00 /\ built'.number = built.number + 1
        /\ UNCHANGED <<rcp, drawing, content>>
    BY <1>3 DEF FrameBegin
  <2>2. drawing = built
    BY <2>1 DEF Handed
  <2>3. ASSUME drawing.number # 0
        PROVE  drawing.buffer = Shown'
    <3>1. drawing.buffer = IF mode = 3 THEN d04 ELSE cfc
      BY <2>1, <2>3 DEF Handed
    <3>2. CASE nextMode = 3 /\ mode = 3
      BY <1>3, <2>1, <3>1, <3>2 DEF FrameBegin, SetIndices, Rotated, Indices, Shown
    <3>3. CASE nextMode = 3 /\ mode = 2
      BY <1>3, <2>1, <3>1, <3>3 DEF FrameBegin, SetIndices, Rotated, Reseated, Shown
    <3>4. CASE nextMode = 2
      BY <1>1, <2>1, <3>1, <3>4 DEF Handed, TypeOK, Shown
    <3> QED
      BY <1>1, <3>2, <3>3, <3>4 DEF TypeOK
  <2> QED
    BY <1>1, <2>1, <2>2, <2>3 DEF Handed, TypeOK
<1>4. CASE FrameDrawn
  BY <1>4 DEF FrameDrawn, RCP!Collect, indexVars, Handed, Shown
<1>5. CASE Swap
  BY <1>5 DEF Swap, indexVars, Handed, Shown
<1>6. CASE Submit
  <2>1. /\ pc = "spin" /\ pc' = "tick" /\ rcp' = "set" /\ drawing' = built
        /\ UNCHANGED <<mode, nextMode, d04, cfc, built, content>>
    BY <1>6 DEF Submit, RCP!Set, indexVars
  <2>2. built.number = drawing.number + 1 /\ drawing.number \in Nat
    BY <1>1, <2>1 DEF Handed, TypeOK
  <2>3. built.number # 0
    BY <2>2
  <2>4. built.buffer = IF mode = 3 THEN d04 ELSE cfc
    BY <1>1, <2>1 DEF BuiltTarget
  <2> QED
    BY <2>1, <2>3, <2>4 DEF Handed
<1>7. CASE Drawn
  <2>1. /\ rcp = "set" /\ UNCHANGED <<pc, mode, nextMode, indexVars, drawing, built>>
        /\ \A b \in Buffers : content'[b] = IF b = drawing.buffer THEN drawing.number
                                                                 ELSE content[b]
    BY <1>7 DEF Drawn, RCP!Draw
  <2>2. Shown' = Shown
    BY <2>1 DEF Shown, indexVars
  <2>3. drawing.number # 0 => drawing.buffer \in Buffers
    BY <1>1, <2>1 DEF Handed, Shown, TypeOK
  <2> QED
    BY <2>1, <2>2, <2>3 DEF Handed, indexVars
<1>8. CASE ViRetrace \/ UNCHANGED vars
  BY <1>8 DEF ViRetrace, vars, indexVars, Handed, Shown
<1> QED
  BY <1>2, <1>3, <1>4, <1>5, <1>6, <1>7, <1>8 DEF Next, Game

\* The buffer that the VI is told to show, and that a transition copies, is
\* complete and the last one drawn (Game_ThreadEntry, func_80067D64 and
\* func_80067E98), across the change from two buffers to three.
THEOREM ShowsTheLatest ==
  ASSUME ~SpinOut
  PROVE  Spec => ShowsLatest
<1>1. Init => IInv /\ Handed
  BY InitInv, InitHanded
<1>2. IInv /\ Handed /\ [Next]_vars => IInv' /\ Handed'
  BY NextInv, NextHanded
<1>3. ASSUME IInv, Handed, [Next]_vars, pc = "swap", pc' = "spin"
      PROVE  content[viNext'] = built.number - 1 /\ rcp = "none"
  <2>1. viNext' = Shown /\ rcp = "none" /\ Shown \in Buffers
        /\ built.number = drawing.number + 1 /\ drawing.number \in Nat
    BY <1>3 DEF Next, Game, Boot, FrameBegin, FrameDrawn, Swap, Submit, Drawn,
       ViRetrace, vars, IInv, VideoSettled, TypeOK, Shown, Buffers, Handed
  <2>2. content[Shown] = drawing.number
    BY <1>3, <2>1 DEF Handed
  <2> QED
    BY <2>1, <2>2
<1>4. IInv /\ Handed /\ [Next]_vars => (pc = "swap" /\ pc' = "spin" =>
         content[viNext'] = built.number - 1 /\ rcp = "none")
  BY <1>3
<1> QED
  BY <1>1, <1>2, <1>4, PTL DEF Spec, ShowsLatest

-----------------------------------------------------------------------------
(* Arithmetic of the count.                                                *)

\* A difference of counts is taken modulo W.
LEMMA Difference ==
  ASSUME W \in Nat \ {0}, NEW c \in 0..W - 1, NEW b \in 0..W - 1
  PROVE  (c - b) % W = IF b <= c THEN c - b ELSE c - b + W
OBVIOUS

\* The count goes up by one and comes round.
LEMMA NextCount ==
  ASSUME W \in Nat \ {0}, NEW n \in Nat
  PROVE  /\ n % W \in 0..W - 1
         /\ (n + 1) % W = IF n % W = W - 1 THEN 0 ELSE (n % W) + 1
<1>1. PICK w \in Nat \ {0} : w = W
  OBVIOUS
<1>2. PICK q \in Nat, r \in 0..w - 1 : n = w * q + r /\ r = n % w
  <2>1. n = w * (n \div w) + (n % w) /\ n \div w \in Nat /\ n % w \in 0..w - 1
    OBVIOUS
  <2> QED
    BY <2>1
<1>3. CASE r = w - 1
  <2>1. n + 1 = w * (q + 1) + 0
    BY <1>2, <1>3
  <2>2. (n + 1) % w = 0
    BY <2>1
  <2> QED
    BY <1>1, <1>2, <1>3, <2>2
<1>4. CASE r < w - 1
  <2>1. n + 1 = w * q + (r + 1) /\ r + 1 \in 0..w - 1
    BY <1>2, <1>4
  <2>2. PICK p \in Nat, t \in 0..w - 1 : n + 1 = w * p + t /\ t = (n + 1) % w
    <3>1. /\ n + 1 = w * ((n + 1) \div w) + ((n + 1) % w)
          /\ (n + 1) \div w \in Nat /\ (n + 1) % w \in 0..w - 1
      OBVIOUS
    <3> QED
      BY <3>1
  <2>3. w * (p - q) = r + 1 - t
    BY <2>1, <2>2
  <2>4. p - q = 0
    <3>1. CASE p - q >= 1
      <4>1. w * (p - q) >= w
        BY <3>1
      <4> QED
        BY <2>1, <2>3, <4>1
    <3>2. CASE p - q <= -1
      <4>1. w * (p - q) <= -w
        BY <3>2
      <4> QED
        BY <2>1, <2>3, <4>1
    <3> QED
      BY <3>1, <3>2
  <2>5. (n + 1) % w = r + 1
    BY <2>2, <2>3, <2>4
  <2> QED
    BY <1>1, <1>2, <1>4, <2>5
<1> QED
  BY <1>2, <1>3, <1>4

-----------------------------------------------------------------------------
(* The clock.                                                              *)

\* The count never runs a whole round ahead of the last retrace.
ClockInv ==
  /\ now \in Nat /\ base \in 0..W - 1 /\ current \in Int /\ origin \in Int
  /\ Clock => Elapsed(base) <= Frame
  /\ ClockIsRight

\* Between two retraces the elapsed time is a time, and none at a retrace.
LEMMA ElapsedType ==
  ASSUME ClockInv
  PROVE  /\ W \in Nat \ {0} /\ Frame \in Nat /\ Frame < W
         /\ Count \in 0..W - 1 /\ Elapsed(base) \in 0..W - 1
         /\ (Count - Count) % W = 0
<1>1. W \in Nat \ {0} /\ Frame \in Nat /\ Frame < W
  BY TimerAssumption
<1>2. Count \in 0..W - 1 /\ base \in 0..W - 1
  BY <1>1, NextCount DEF ClockInv, Count
<1>3. /\ (Count - base) % W = IF base <= Count THEN Count - base ELSE Count - base + W
      /\ (Count - Count) % W = 0
  BY <1>1, <1>2, Difference
<1> QED
  BY <1>1, <1>2, <1>3 DEF Elapsed

\* Time passes: by one on the clock too.
LEMMA TickClock ==
  ASSUME ClockInv, Tick
  PROVE  ClockInv'
<1>1. /\ now' = now + 1 /\ UNCHANGED <<scene, base, current, origin>>
      /\ Clock => Elapsed(base) < Frame
  BY DEF Tick, clockVars
<1>2. /\ now \in Nat /\ base \in 0..W - 1 /\ current \in Int /\ origin \in Int
      /\ Clock => GetTime = now + origin
  BY DEF ClockInv, ClockIsRight
<1>3. /\ W \in Nat \ {0} /\ Frame < W /\ Frame \in Nat /\ Count \in 0..W - 1
  BY ElapsedType
<1>4. Count' = IF Count = W - 1 THEN 0 ELSE Count + 1
  BY <1>1, <1>2, <1>3, NextCount DEF Count
<1>5. Elapsed(base)' = (Count' - base) % W
  BY <1>1 DEF Elapsed
<1>6. Clock => Elapsed(base)' = Elapsed(base) + 1
  <2>1. SUFFICES ASSUME Clock
                 PROVE  Elapsed(base)' = Elapsed(base) + 1
    OBVIOUS
  <2>2. Elapsed(base) = IF base <= Count THEN Count - base ELSE Count - base + W
    BY <1>2, <1>3, Difference DEF Elapsed
  <2>3. Count' \in 0..W - 1
    BY <1>3, <1>4
  <2>4. Elapsed(base)' = IF base <= Count' THEN Count' - base ELSE Count' - base + W
    BY <1>2, <1>3, <1>5, <2>3, Difference
  <2>5. Elapsed(base) < W - 1
    BY <1>1, <1>2, <1>3, <2>1, <2>2
  <2> QED
    BY <1>2, <1>3, <1>4, <2>2, <2>4, <2>5
<1>7. Clock' = Clock
  BY <1>1 DEF Clock
<1>8. GetTime' = current + Elapsed(base)'
  BY <1>1 DEF GetTime
<1>9. Elapsed(base) \in 0..W - 1
  BY ElapsedType
<1>10. Clock => Elapsed(base)' <= Frame /\ GetTime' = now' + origin'
  BY <1>1, <1>2, <1>3, <1>6, <1>8, <1>9 DEF GetTime
<1>11. now' \in Nat /\ base' \in 0..W - 1 /\ current' \in Int /\ origin' \in Int
  BY <1>1, <1>2
<1> QED
  BY <1>7, <1>10, <1>11 DEF ClockInv, ClockIsRight

\* A retrace moves what has elapsed from the count to the clock.
LEMMA RetraceClock ==
  ASSUME ClockInv, Retrace
  PROVE  ClockInv'
<1>1. /\ base' = Count /\ current' = current + Elapsed(base)
      /\ UNCHANGED <<scene, now, origin>> /\ Clock
  BY DEF Retrace
<1>2. /\ now \in Nat /\ base \in 0..W - 1 /\ current \in Int /\ origin \in Int
      /\ current + Elapsed(base) = now + origin
  BY <1>1 DEF ClockInv, ClockIsRight, GetTime
<1>3. /\ Frame \in Nat /\ Count \in 0..W - 1 /\ Elapsed(base) \in 0..W - 1
      /\ (Count - Count) % W = 0
  BY ElapsedType
<1>4. Elapsed(base)' = 0
  <2>1. Count' = Count
    BY <1>1 DEF Count
  <2> QED
    BY <1>1, <1>3, <2>1 DEF Elapsed
<1>5. GetTime' = current' + 0
  BY <1>4 DEF GetTime
<1>6. current' \in Int /\ base' \in 0..W - 1
  BY <1>1, <1>2, <1>3
<1> QED
  BY <1>1, <1>2, <1>3, <1>4, <1>5, <1>6 DEF ClockInv, ClockIsRight

\* Setting the clock leaves its base where it is.
LEMMA SetTimeClock ==
  ASSUME ClockInv, SetTime(0)
  PROVE  ClockInv'
<1>1. /\ current' = 0 /\ origin' = 0 + Elapsed(base) - now
      /\ UNCHANGED <<scene, now, base>> /\ Clock
  BY DEF SetTime
<1>2. /\ now \in Nat /\ base \in 0..W - 1 /\ Elapsed(base) <= Frame
  BY <1>1 DEF ClockInv
<1>3. Elapsed(base) \in 0..W - 1 /\ W \in Nat \ {0}
  BY ElapsedType
<1>4. Elapsed(base)' = Elapsed(base) /\ GetTime' = 0 + Elapsed(base)
  BY <1>1 DEF Elapsed, Count, GetTime
<1>5. GetTime' = now' + origin'
  BY <1>1, <1>2, <1>3, <1>4
<1> QED
  BY <1>1, <1>2, <1>3, <1>4, <1>5 DEF ClockInv, ClockIsRight

\* The timers leave the clock alone.
LEMMA OthersClock ==
  ASSUME ClockInv, UNCHANGED <<scene, now, clockVars>>
  PROVE  ClockInv'
<1>1. UNCHANGED <<scene, now, base, current, origin>>
  BY DEF clockVars
<1> QED
  BY <1>1 DEF ClockInv, ClockIsRight, Clock, GetTime, Elapsed, Count

LEMMA NextClock ==
  ASSUME ClockInv, [TimerNext]_timerVars
  PROVE  ClockInv'
<1>1. CASE TimerInterrupt \/ SetCompare
  BY <1>1, OthersClock, Zenon DEF TimerInterrupt, SetCompare
<1>2. ASSUME NEW t, NEW c, NEW again, SetTimer(t, c, again)
      PROVE  ClockInv'
  BY <1>2, OthersClock, Zenon DEF SetTimer
<1>3. ASSUME NEW t, ContInit(t)
      PROVE  ClockInv'
  BY <1>2, <1>3 DEF ContInit
<1>4. CASE UNCHANGED timerVars
  BY <1>4, OthersClock DEF timerVars
<1> QED
  BY <1>1, <1>2, <1>3, <1>4, TickClock, RetraceClock, SetTimeClock DEF TimerNext

\* Read at any moment between two retraces that are not a whole round of the
\* count apart, osGetTime shows the time that has passed.
THEOREM ClockShowsTime == TimerSpec => []ClockIsRight
<1>1. TimerInit => ClockInv
  <2>1. ASSUME TimerInit
        PROVE  ClockInv
    <3>1. W \in Nat \ {0} /\ Frame \in Nat
      BY TimerAssumption
    <3>2. (0 - 0) % W = 0
      BY <3>1, Difference
    <3>3. 0 % W = 0
      BY <3>1, NextCount
    <3>4. Elapsed(base) = 0
      BY <2>1, <3>2, <3>3 DEF TimerInit, Elapsed, Count
    <3> QED
      BY <2>1, <3>1, <3>4 DEF TimerInit, ClockInv, ClockIsRight, GetTime
  <2> QED
    BY <2>1
<1>2. ClockInv /\ [TimerNext]_timerVars => ClockInv'
  BY NextClock
<1>3. ClockInv => ClockIsRight
  BY DEF ClockInv
<1> QED
  BY <1>1, <1>2, <1>3, PTL DEF TimerSpec

-----------------------------------------------------------------------------
(* Insertion into the list of timers.                                      *)

\* A set of numbers that goes from each to the next has them all.
LEMMA Induct ==
  ASSUME NEW n \in Nat, NEW T \in SUBSET (0..n), 0 \in T, \A i \in 1..n : i - 1 \in T => i \in T
  PROVE  T = 0..n
<1> DEFINE R == {p \in Nat \X Nat : p[1] < p[2]}
           S == (0..n) \ T
<1>1. IsWellFoundedOn(R, Nat)
  BY NatLessThanWellFounded DEF OpToRel
<1>2. SUFFICES ASSUME S # {}
               PROVE  FALSE
  OBVIOUS
<1>3. S \subseteq Nat
  OBVIOUS
<1>4. PICK x \in S : \A y \in S : ~(<<y, x>> \in R)
  BY <1>1, <1>2, <1>3, WFMin
<1>5. x \in 1..n
  OBVIOUS
<1>6. x - 1 \notin S
  <2>1. x - 1 \in Nat /\ x \in Nat /\ x - 1 < x
    BY <1>5
  <2>2. <<x - 1, x>> \in R
    BY <2>1
  <2> QED
    BY <1>4, <2>2
<1> QED
  BY <1>5, <1>6

LEMMA Greatest ==
  ASSUME NEW n \in Nat, NEW S \in SUBSET (0..n), S # {}
  PROVE  Max(S) \in S /\ \A y \in S : y <= Max(S)
<1> DEFINE R == {p \in Nat \X Nat : p[1] < p[2]}
           F == {z \in Nat : \E x \in S : z = n - x}
<1>1. IsWellFoundedOn(R, Nat)
  BY NatLessThanWellFounded DEF OpToRel
<1>2. \A x \in S : n - x \in F
  OBVIOUS
<1>3. F \subseteq Nat /\ F # {}
  <2>1. \A z \in F : z \in Nat
    OBVIOUS
  <2>2. PICK x \in S : TRUE
    OBVIOUS
  <2>3. n - x \in F
    BY <1>2
  <2> QED
    BY <2>1, <2>3
<1> HIDE DEF F
<1>4. PICK z \in F : \A y \in F : ~(<<y, z>> \in R)
  BY <1>1, <1>3, WFMin
<1>5. PICK x \in S : z = n - x
  BY DEF F
<1>6. ASSUME NEW y \in S
      PROVE  n - y >= n - x
  <2>1. <<n - y, n - x>> \notin R
    BY <1>2, <1>4, <1>5
  <2>2. n - y \in Nat /\ n - x \in Nat
    OBVIOUS
  <2> QED
    BY <2>1, <2>2
<1>7. \A y \in S : x >= y
  BY <1>6
<1> QED
  BY <1>7 DEF Max

Entries == [t : Timers, value : Nat]

\* The values of l are the differences of D, which begins at D[0].
Differs(l, D) ==
  /\ D \in [0..Len(l) -> Int]
  /\ \A j \in 1..Len(l) : l[j].value = D[j] - D[j - 1]

LEMMA LeftIs ==
  ASSUME NEW l \in Seq(Entries), NEW D, Differs(l, D), NEW value \in Int
  PROVE  \A j \in 0..Len(l) : Left(l, value)[j] = value - (D[j] - D[0])
<1> DEFINE Is(f) == f = [j \in 0..Len(l) |-> IF j = 0 THEN value ELSE f[j - 1] - l[j].value]
           f == CHOOSE f : Is(f)
           g == [j \in 0..Len(l) |-> value - (D[j] - D[0])]
           T == {j \in 0..Len(l) : f[j] = g[j]}
<1>1. Len(l) \in Nat
  OBVIOUS
<1>2. g = [j \in 0..Len(l) |-> IF j = 0 THEN value ELSE g[j - 1] - l[j].value]
  <2>1. ASSUME NEW j \in 0..Len(l)
        PROVE  g[j] = IF j = 0 THEN value ELSE g[j - 1] - l[j].value
    <3>1. CASE j = 0
      BY <1>1, <3>1 DEF Differs
    <3>2. CASE j # 0
      <4>1. j - 1 \in 0..Len(l) /\ j \in 1..Len(l)
        BY <1>1, <3>2
      <4>2. l[j].value = D[j] - D[j - 1] /\ D[j] \in Int /\ D[j - 1] \in Int /\ D[0] \in Int
        BY <1>1, <4>1 DEF Differs
      <4> QED
        BY <3>2, <4>1, <4>2
    <3> QED
      BY <3>1, <3>2
  <2> QED
    BY <2>1
<1>3. Is(f)
  BY <1>2
<1>4. ASSUME NEW j \in 0..Len(l)
      PROVE  f[j] = IF j = 0 THEN value ELSE f[j - 1] - l[j].value
  BY <1>3
<1>5. ASSUME NEW j \in 0..Len(l)
      PROVE  g[j] = IF j = 0 THEN value ELSE g[j - 1] - l[j].value
  BY <1>2
<1> HIDE DEF g, f, Is
<1>6. 0 \in T
  BY <1>1, <1>4, <1>5
<1>7. ASSUME NEW j \in 1..Len(l), j - 1 \in T
      PROVE  j \in T
  BY <1>1, <1>4, <1>5, <1>7
<1>8. T = 0..Len(l)
  <2> HIDE DEF T
  <2>1. T \in SUBSET (0..Len(l))
    BY DEF T
  <2> QED
    BY <1>1, <1>6, <1>7, <2>1, Induct
<1>9. Left(l, value) = f
  BY DEF Left, f, Is
<1>10. \A j \in 0..Len(l) : f[j] = g[j]
  BY <1>8
<1> QED
  BY <1>9, <1>10 DEF g

\* The new timer ends at D[0] + value; it goes behind those that end earlier.
LEMMA InsertIs ==
  ASSUME NEW l \in Seq(Entries), NEW D, Differs(l, D), NEW value \in Nat \ {0}, NEW t
  PROVE  \E i \in 0..Len(l) :
           /\ Insert(l, t, value) = InsertAt(l, t, i, D[0] + value - D[i])
           /\ \A j \in 0..i : D[j] < D[0] + value
           /\ i < Len(l) => D[i + 1] >= D[0] + value
<1> DEFINE left == Left(l, value)
           S == {i \in 0..Len(l) : \A j \in 1..i : left[j] > 0}
<1>1. Len(l) \in Nat /\ \A j \in 0..Len(l) : D[j] \in Int
  BY DEF Differs
<1>2. \A j \in 0..Len(l) : left[j] = value - (D[j] - D[0])
  BY LeftIs
<1> HIDE DEF left
<1>3. 0 \in S
  BY <1>1
<1>4. PICK i : i = Max(S)
  OBVIOUS
<1>5. i \in S /\ \A y \in S : y <= i
  BY <1>1, <1>3, <1>4, Greatest
<1>6. Insert(l, t, value) = InsertAt(l, t, i, left[i])
  BY <1>4 DEF Insert, Place, left
<1>7. left[i] = D[0] + value - D[i]
  BY <1>1, <1>2, <1>5
<1>8. \A j \in 0..i : D[j] < D[0] + value
  <2>1. ASSUME NEW j \in 0..i
        PROVE  D[j] < D[0] + value
    <3>1. j \in 0..Len(l) /\ D[j] \in Int /\ D[0] \in Int
      BY <1>1, <1>5
    <3>2. CASE j = 0
      BY <3>1, <3>2
    <3>3. CASE j # 0
      <4>1. left[j] > 0
        BY <1>5, <3>1, <3>3
      <4> QED
        BY <1>2, <3>1, <4>1
    <3> QED
      BY <3>2, <3>3
  <2> QED
    BY <2>1
<1>9. i < Len(l) => D[i + 1] >= D[0] + value
  <2>1. SUFFICES ASSUME i < Len(l), D[i + 1] < D[0] + value
                 PROVE  FALSE
    BY <1>1, <1>5
  <2>2. i + 1 \in 0..Len(l)
    BY <1>1, <1>5, <2>1
  <2>3. left[i + 1] > 0
    BY <1>1, <1>2, <2>1, <2>2
  <2>4. i + 1 \in S
    BY <1>5, <2>2, <2>3
  <2> QED
    BY <1>5, <2>4
<1> QED
  BY <1>5, <1>6, <1>7, <1>8, <1>9

\* The list l, timers that end at d, in the order in which they end, with the
\* differences.
Ordered(l, d) ==
  /\ l \in Seq(Entries) /\ d \in [Timers -> Int]
  /\ \A i, j \in 1..Len(l) : l[i].t = l[j].t => i = j
  /\ \A t \in Timers : d[t] # -1 <=> \E i \in 1..Len(l) : l[i].t = t
  /\ \A i \in 1..Len(l) : d[l[i].t] \in Nat /\ l[i].value + MaxLate < W
  /\ \A i, j \in 1..Len(l) : i <= j => d[l[i].t] <= d[l[j].t]
  /\ \A i \in 2..Len(l) : l[i].value = d[l[i].t] - d[l[i - 1].t]
  /\ l # <<>> => l[1].value >= 1

\* The list m is l with t behind its first i timers.
Inserted(m, l, t, i, value) ==
  /\ m \in Seq(Entries) /\ Len(m) = Len(l) + 1
  /\ \A k \in 1..i : m[k] = l[k]
  /\ m[i + 1].t = t /\ m[i + 1].value = value
  /\ \A k \in i + 2..Len(l) + 1 :
       /\ m[k].t = l[k - 1].t
       /\ k = i + 2 => m[k].value = l[k - 1].value - value
       /\ k # i + 2 => m[k].value = l[k - 1].value

LEMMA InsertAtIs ==
  ASSUME NEW l \in Seq(Entries), NEW t \in Timers, NEW value \in Nat,
         NEW i \in 0..Len(l), i < Len(l) => l[i + 1].value >= value
  PROVE  Inserted(InsertAt(l, t, i, value), l, t, i, value)
<1> DEFINE m == InsertAt(l, t, i, value)
           new == [t |-> t, value |-> value]
           next == [t |-> l[i + 1].t, value |-> l[i + 1].value - value]
<1>1. /\ Len(l) \in Nat /\ Len(l) + 1 \in Nat
      /\ \A k \in 1..Len(l) : l[k] \in Entries /\ l[k].t \in Timers /\ l[k].value \in Nat
  <2>1. Len(l) \in Nat /\ Len(l) + 1 \in Nat /\ \A k \in 1..Len(l) : l[k] \in Entries
    OBVIOUS
  <2>2. \A e \in Entries : e.t \in Timers /\ e.value \in Nat
    BY DEF Entries
  <2> QED
    BY <2>1, <2>2
<1>2. new \in Entries /\ new.t = t /\ new.value = value
  BY DEF Entries
<1>3. ASSUME i < Len(l)
      PROVE  next \in Entries /\ next.t = l[i + 1].t /\ next.value = l[i + 1].value - value
  <2>1. i + 1 \in 1..Len(l)
    BY <1>1, <1>3
  <2>2. l[i + 1].t \in Timers /\ l[i + 1].value - value \in Nat
    BY <1>1, <1>3, <2>1
  <2> QED
    BY <2>2 DEF Entries
<1>4. m = [k \in 1..Len(l) + 1 |-> IF k <= i THEN l[k] ELSE IF k = i + 1 THEN new
                                   ELSE IF k = i + 2 THEN next ELSE l[k - 1]]
  <2>1. ASSUME NEW k \in 1..Len(l) + 1, k = i + 2
        PROVE  [t |-> l[k - 1].t, value |-> l[k - 1].value - value] = next
    <3>1. k - 1 = i + 1
      BY <1>1, <2>1
    <3> QED
      BY <3>1
  <2> QED
    BY <2>1 DEF InsertAt
<1> HIDE DEF new, next
<1>5. ASSUME NEW k \in 1..Len(l) + 1
      PROVE  /\ k <= i => m[k] = l[k]
             /\ k = i + 1 => m[k] = new
             /\ k = i + 2 => m[k] = next
             /\ k > i + 2 => m[k] = l[k - 1]
  BY <1>1, <1>4
<1>6. m = [k \in 1..Len(l) + 1 |-> m[k]]
  BY <1>4
<1> HIDE DEF m
<1>7. ASSUME NEW k \in 1..Len(l) + 1
      PROVE  m[k] \in Entries
  <2>1. CASE k <= i
    BY <1>1, <1>5, <2>1
  <2>2. CASE k = i + 1
    BY <1>2, <1>5, <2>2
  <2>3. CASE k = i + 2
    BY <1>1, <1>3, <1>5, <2>3
  <2>4. CASE k > i + 2
    <3>1. k - 1 \in 1..Len(l)
      BY <1>1, <2>4
    <3> QED
      BY <1>1, <1>5, <2>4, <3>1
  <2> QED
    BY <1>1, <2>1, <2>2, <2>3, <2>4
<1>8. m \in Seq(Entries) /\ Len(m) = Len(l) + 1
  <2>1. m \in [1..Len(l) + 1 -> Entries]
    BY <1>6, <1>7
  <2> QED
    BY <1>1, <2>1
<1>9. \A k \in 1..i : m[k] = l[k]
  BY <1>1, <1>5
<1>10. m[i + 1].t = t /\ m[i + 1].value = value
  <2>1. i + 1 \in 1..Len(l) + 1
    BY <1>1
  <2>2. m[i + 1] = new
    BY <1>5, <2>1
  <2> QED
    BY <1>2, <2>2
<1>11. ASSUME NEW k \in i + 2..Len(l) + 1
       PROVE  /\ m[k].t = l[k - 1].t
              /\ k = i + 2 => m[k].value = l[k - 1].value - value
              /\ k # i + 2 => m[k].value = l[k - 1].value
  <2>1. k \in 1..Len(l) + 1 /\ i < Len(l)
    BY <1>1
  <2>2. CASE k = i + 2
    <3>1. k - 1 = i + 1 /\ m[k] = next
      BY <1>5, <2>1, <2>2
    <3> QED
      BY <1>3, <2>1, <2>2, <3>1
  <2>3. CASE k > i + 2
    BY <1>5, <2>1, <2>3
  <2> QED
    BY <1>1, <2>2, <2>3
<1> QED
  BY <1>8, <1>9, <1>10, <1>11 DEF m, Inserted

\* The list m is l with t, which has v where it is the first; they end at f.
Placed(m, f, l, t, v) ==
  /\ Ordered(m, f) /\ Len(m) = Len(l) + 1
  /\ \/ m[1].t = t /\ m[1].value = v
     \/ l # <<>> /\ m[1] = l[1] /\ m[1].t # t

\* A timer that does not run is put where it belongs; the first one is the new
\* one or the one that was first.
LEMMA InsertKeepsOrder ==
  ASSUME NEW l, NEW d, Ordered(l, d), NEW t \in Timers, d[t] = -1,
         NEW begin \in Nat, l # <<>> => d[l[1].t] = begin + l[1].value,
         NEW v \in Nat \ {0}, v + MaxLate < W, MaxLate \in Nat, W \in Nat,
         NEW f \in [Timers -> Int],
         f[t] = begin + v, \A u \in Timers : u # t => f[u] = d[u]
  PROVE  Placed(Insert(l, t, v), f, l, t, v)
<1> DEFINE D == [j \in 0..Len(l) |-> IF j = 0 THEN begin ELSE d[l[j].t]]
<1>1. /\ l \in Seq(Entries) /\ d \in [Timers -> Int]
      /\ Len(l) \in Nat /\ Len(l) + 1 \in Nat
      /\ \A k \in 1..Len(l) : l[k] \in Entries
  BY DEF Ordered
<1>2. \A k \in 1..Len(l) : l[k].t \in Timers /\ l[k].value \in Nat
  <2>1. \A e \in Entries : e.t \in Timers /\ e.value \in Nat
    BY DEF Entries
  <2> QED
    BY <1>1, <2>1
<1>3. \A k \in 1..Len(l) : d[l[k].t] \in Nat /\ l[k].value + MaxLate < W /\ l[k].t # t
  BY DEF Ordered
<1>4. D[0] = begin /\ \A k \in 1..Len(l) : D[k] = d[l[k].t] /\ D[k] \in Nat
  BY <1>1, <1>3
<1>5. D \in [0..Len(l) -> Int]
  BY <1>1, <1>3
<1> HIDE DEF D
<1>6. \A k \in 1..Len(l) : l[k].value = D[k] - D[k - 1]
  <2>1. ASSUME NEW k \in 1..Len(l)
        PROVE  l[k].value = D[k] - D[k - 1]
    <3>1. CASE k = 1
      <4>1. l # <<>>
        BY <1>1
      <4>2. D[1] = begin + l[1].value /\ D[0] = begin /\ l[1].value \in Nat
        BY <1>2, <1>4, <3>1, <4>1
      <4> QED
        BY <3>1, <4>2
    <3>2. CASE k # 1
      <4>1. k \in 2..Len(l) /\ k - 1 \in 1..Len(l)
        BY <1>1, <3>2
      <4>2. l[k].value = d[l[k].t] - d[l[k - 1].t]
        BY <4>1 DEF Ordered
      <4> QED
        BY <1>4, <4>1, <4>2
    <3> QED
      BY <3>1, <3>2
  <2> QED
    BY <2>1
<1>7. Differs(l, D)
  BY <1>5, <1>6 DEF Differs
<1>8. PICK i \in 0..Len(l) :
        /\ Insert(l, t, v) = InsertAt(l, t, i, D[0] + v - D[i])
        /\ \A j \in 0..i : D[j] < D[0] + v
        /\ i < Len(l) => D[i + 1] >= D[0] + v
  BY <1>1, <1>7, InsertIs
<1> DEFINE e == begin + v - D[i]
           m == Insert(l, t, v)
           E(k) == IF k <= i THEN D[k] ELSE IF k = i + 1 THEN begin + v ELSE D[k - 1]
<1>9. D[i] \in Int /\ D[i] < begin + v /\ e \in Nat \ {0} /\ m = InsertAt(l, t, i, e)
  BY <1>1, <1>4, <1>5, <1>8
<1>10. i < Len(l) => l[i + 1].value >= e
  <2>1. SUFFICES ASSUME i < Len(l)
                 PROVE  l[i + 1].value >= e
    OBVIOUS
  <2>2. i + 1 \in 1..Len(l) /\ i + 1 - 1 = i
    BY <1>1, <2>1
  <2>3. l[i + 1].value = D[i + 1] - D[i] /\ D[i + 1] \in Nat
    BY <1>4, <1>6, <2>2
  <2> QED
    BY <1>4, <1>8, <1>9, <2>1, <2>3
<1> HIDE DEF e
<1>11. /\ m \in Seq(Entries) /\ Len(m) = Len(l) + 1
       /\ \A k \in 1..i : m[k] = l[k]
       /\ m[i + 1].t = t /\ m[i + 1].value = e
       /\ \A k \in i + 2..Len(l) + 1 :
            /\ m[k].t = l[k - 1].t
            /\ k = i + 2 => m[k].value = l[k - 1].value - e
            /\ k # i + 2 => m[k].value = l[k - 1].value
  <2>1. e \in Nat
    BY <1>9
  <2>2. Inserted(InsertAt(l, t, i, e), l, t, i, e)
    BY <1>1, <1>10, <2>1, InsertAtIs
  <2> HIDE DEF m
  <2>3. Inserted(m, l, t, i, e)
    BY <1>9, <2>2
  <2> QED
    BY <2>3 DEF Inserted
<1> HIDE DEF m
<1>12. f \in [Timers -> Int] /\ f[t] = begin + v /\ \A s \in Timers : s # t => f[s] = d[s]
  BY <1>1
\* Where each was.
<1>13. ASSUME NEW k \in 1..Len(m)
       PROVE  /\ k < i + 1 => k \in 1..Len(l) /\ m[k].t = l[k].t /\ E(k) = D[k]
              /\ k = i + 1 => m[k].t = t /\ E(k) = begin + v
              /\ k > i + 1 => k - 1 \in 1..Len(l) /\ k \in i + 2..Len(l) + 1
                              /\ m[k].t = l[k - 1].t /\ E(k) = D[k - 1]
  <2>1. k \in Nat /\ k >= 1 /\ k <= Len(l) + 1
    BY <1>1, <1>11
  <2>2. CASE k < i + 1
    <3>1. k \in 1..i /\ k \in 1..Len(l)
      BY <1>1, <2>1, <2>2
    <3> QED
      BY <1>11, <2>2, <3>1
  <2>3. CASE k = i + 1
    BY <1>11, <2>3
  <2>4. CASE k > i + 1
    <3>1. k \in i + 2..Len(l) + 1 /\ k - 1 \in 1..Len(l)
      BY <1>1, <2>1, <2>4
    <3> QED
      BY <1>11, <2>4, <3>1
  <2> QED
    BY <2>1, <2>2, <2>3, <2>4
<1> HIDE DEF E
<1>14. \A k \in 1..Len(m) : f[m[k].t] = E(k) /\ E(k) \in Nat
  <2>1. ASSUME NEW k \in 1..Len(m)
        PROVE  f[m[k].t] = E(k) /\ E(k) \in Nat
    <3>1. ASSUME NEW p \in 1..Len(l)
          PROVE  f[l[p].t] = D[p] /\ D[p] \in Nat
      <4>1. l[p].t \in Timers /\ l[p].t # t
        BY <1>2, <1>3
      <4>2. f[l[p].t] = d[l[p].t]
        BY <1>12, <4>1
      <4> QED
        BY <1>4, <4>2
    <3>2. CASE k < i + 1
      BY <1>13, <3>2, <3>1
    <3>3. CASE k = i + 1
      BY <1>12, <1>13, <3>3
    <3>4. CASE k > i + 1
      <4>1. k - 1 \in 1..Len(l) /\ m[k].t = l[k - 1].t /\ E(k) = D[k - 1]
        BY <1>13, <3>4
      <4>2. f[l[k - 1].t] = D[k - 1] /\ D[k - 1] \in Nat
        BY <3>1, <4>1
      <4> QED
        BY <4>1, <4>2
    <3>5. k \in Nat
      BY <1>11
    <3> QED
      BY <3>2, <3>3, <3>4, <3>5
  <2> QED
    BY <2>1
\* None is there twice.
<1>15. \A j, k \in 1..Len(m) : m[j].t = m[k].t => j = k
  <2>1. ASSUME NEW j \in 1..Len(m), NEW k \in 1..Len(m), j < k
        PROVE  m[j].t # m[k].t
    <3>1. j \in Nat /\ k \in Nat /\ i \in Nat
      BY <1>1, <1>11
    <3>2. \A p, q \in 1..Len(l) : l[p].t = l[q].t => p = q
      BY DEF Ordered
    <3>3. CASE k < i + 1
      <4>1. j < i + 1
        BY <2>1, <3>1, <3>3
      <4>2. /\ j \in 1..Len(l) /\ m[j].t = l[j].t
            /\ k \in 1..Len(l) /\ m[k].t = l[k].t
        BY <1>13, <3>3, <4>1
      <4> QED
        BY <2>1, <3>1, <3>2, <4>2
    <3>4. CASE k = i + 1
      BY <1>3, <1>13, <2>1, <3>1, <3>4
    <3>5. CASE k > i + 1 /\ j = i + 1
      <4>1. k - 1 \in 1..Len(l) /\ m[k].t = l[k - 1].t /\ m[j].t = t
        BY <1>13, <3>5
      <4>2. l[k - 1].t # t
        BY <1>3, <4>1
      <4> QED
        BY <4>1, <4>2
    <3>6. CASE k > i + 1 /\ j < i + 1
      <4>1. j # k - 1
        BY <3>1, <3>6
      <4>2. /\ j \in 1..Len(l) /\ m[j].t = l[j].t
            /\ k - 1 \in 1..Len(l) /\ m[k].t = l[k - 1].t
        BY <1>13, <3>6
      <4> QED
        BY <3>2, <4>1, <4>2
    <3>7. CASE k > i + 1 /\ j > i + 1
      <4>1. j - 1 # k - 1
        BY <2>1, <3>1
      <4>2. /\ j - 1 \in 1..Len(l) /\ m[j].t = l[j - 1].t
            /\ k - 1 \in 1..Len(l) /\ m[k].t = l[k - 1].t
        BY <1>13, <3>7
      <4> QED
        BY <3>2, <4>1, <4>2
    <3> QED
      BY <3>1, <3>3, <3>4, <3>5, <3>6, <3>7
  <2>2. ASSUME NEW j \in 1..Len(m), NEW k \in 1..Len(m), m[j].t = m[k].t, j # k
        PROVE  FALSE
    <3>1. j < k \/ k < j
      BY <1>1, <1>11, <2>2
    <3> QED
      BY <2>1, <2>2, <3>1
  <2> QED
    BY <2>2
\* Those that run are there.
<1>16. \A s \in Timers : f[s] # -1 <=> \E k \in 1..Len(m) : m[k].t = s
  <2>1. ASSUME NEW k \in 1..Len(m)
        PROVE  f[m[k].t] # -1
    BY <1>14
  <2>2. f[t] # -1 /\ i + 1 \in 1..Len(m) /\ m[i + 1].t = t
    BY <1>1, <1>11, <1>12
  <2>3. ASSUME NEW s \in Timers, s # t, f[s] # -1
        PROVE  \E k \in 1..Len(m) : m[k].t = s
    <3>1. d[s] # -1
      BY <1>12, <2>3
    <3>2. PICK k \in 1..Len(l) : l[k].t = s
      BY <3>1 DEF Ordered
    <3>3. CASE k <= i
      <4>1. k \in 1..i /\ k \in 1..Len(m)
        BY <1>1, <1>11, <3>3
      <4> QED
        BY <1>11, <3>2, <4>1
    <3>4. CASE k > i
      <4>1. k + 1 \in i + 2..Len(l) + 1 /\ k + 1 \in 1..Len(m) /\ k + 1 - 1 = k
        BY <1>1, <1>11, <3>4
      <4>2. m[k + 1].t = l[k + 1 - 1].t
        BY <1>11, <4>1
      <4> QED
        BY <3>2, <4>1, <4>2
    <3> QED
      BY <1>1, <3>3, <3>4
  <2> QED
    BY <2>1, <2>2, <2>3
\* In their order.
<1>17. \A p, q \in 0..Len(l) : p <= q /\ p # 0 => D[p] <= D[q]
  <2>1. ASSUME NEW p \in 1..Len(l), NEW q \in 1..Len(l), p <= q
        PROVE  d[l[p].t] <= d[l[q].t]
    BY <2>1 DEF Ordered
  <2>2. ASSUME NEW p \in 0..Len(l), NEW q \in 0..Len(l), p <= q, p # 0
        PROVE  D[p] <= D[q]
    <3>1. p \in 1..Len(l) /\ q \in 1..Len(l)
      BY <1>1, <2>2
    <3> QED
      BY <1>4, <2>1, <2>2, <3>1
  <2> QED
    BY <2>2
<1>18. \A j, k \in 1..Len(m) : j <= k => E(j) <= E(k)
  <2>1. ASSUME NEW j \in 1..Len(m), NEW k \in 1..Len(m), j < k
        PROVE  E(j) <= E(k)
    <3>1. j \in Nat /\ k \in Nat /\ i \in Nat /\ j >= 1
      BY <1>1, <1>11
    <3>2. CASE k < i + 1
      <4>1. j \in 0..Len(l) /\ k \in 0..Len(l) /\ j # 0
        BY <1>1, <2>1, <3>1, <3>2
      <4> QED
        BY <1>13, <1>17, <2>1, <3>1, <3>2, <4>1
    <3>3. CASE k = i + 1
      <4>1. j \in 0..i /\ D[j] \in Int
        BY <1>5, <2>1, <3>1, <3>3
      <4>2. D[j] < begin + v
        BY <1>4, <1>8, <4>1
      <4> QED
        BY <1>13, <2>1, <3>1, <3>3, <4>1, <4>2
    <3>4. CASE k > i + 1 /\ j = i + 1
      <4>1. i + 1 \in 0..Len(l) /\ k - 1 \in 0..Len(l) /\ i + 1 <= k - 1 /\ i + 1 # 0
        BY <1>1, <1>11, <3>1, <3>4
      <4>2. D[i + 1] <= D[k - 1] /\ D[i + 1] \in Int /\ D[k - 1] \in Int
        BY <1>5, <1>17, <4>1
      <4>3. D[i + 1] >= begin + v
        BY <1>1, <1>4, <1>8, <1>11, <3>1, <3>4, <4>1
      <4>4. E(k) = D[k - 1] /\ E(j) = begin + v
        BY <1>13, <3>4
      <4>5. PICK x, y \in Int : x = D[i + 1] /\ y = D[k - 1]
        BY <4>2
      <4>6. begin + v <= x /\ x <= y /\ begin + v \in Int
        BY <4>2, <4>3, <4>5
      <4>7. begin + v <= y
        BY <4>6
      <4> QED
        BY <4>4, <4>5, <4>7
    <3>5. CASE k > i + 1 /\ j < i + 1
      <4>1. j \in 0..Len(l) /\ k - 1 \in 0..Len(l) /\ j <= k - 1 /\ j # 0
        BY <1>1, <1>11, <3>1, <3>5
      <4> QED
        BY <1>13, <1>17, <3>5, <4>1
    <3>6. CASE k > i + 1 /\ j > i + 1
      <4>1. j - 1 \in 0..Len(l) /\ k - 1 \in 0..Len(l) /\ j - 1 <= k - 1 /\ j - 1 # 0
        BY <1>1, <1>11, <2>1, <3>1, <3>6
      <4> QED
        BY <1>13, <1>17, <3>6, <4>1
    <3> QED
      BY <3>1, <3>2, <3>3, <3>4, <3>5, <3>6
  <2>2. ASSUME NEW j \in 1..Len(m), NEW k \in 1..Len(m), j <= k
        PROVE  E(j) <= E(k)
    <3>1. j < k \/ (j = k /\ E(j) \in Nat)
      BY <1>1, <1>11, <1>14, <2>2
    <3> QED
      BY <2>1, <3>1
  <2> QED
    BY <2>2
\* With the differences.
<1>19. ASSUME NEW k \in 2..Len(m)
       PROVE  m[k].value = E(k) - E(k - 1)
  <2>1. k \in 1..Len(m) /\ k - 1 \in 1..Len(m) /\ k \in Nat /\ i \in Nat /\ k >= 2
    BY <1>1, <1>11
  <2>2. CASE k < i + 1
    <3>1. k \in 1..Len(l) /\ k \in 1..i /\ k - 1 < i + 1
      BY <1>1, <2>1, <2>2
    <3>2. m[k] = l[k] /\ E(k) = D[k] /\ E(k - 1) = D[k - 1]
      BY <1>11, <1>13, <2>1, <2>2, <3>1
    <3> QED
      BY <1>6, <3>1, <3>2
  <2>3. CASE k = i + 1
    <3>1. k - 1 < i + 1 /\ k - 1 = i
      BY <2>1, <2>3
    <3>2. m[k].value = e /\ E(k) = begin + v /\ E(k - 1) = D[k - 1]
      BY <1>11, <1>13, <2>1, <2>3, <3>1
    <3>3. E(k - 1) = D[i]
      BY <3>1, <3>2
    <3>4. PICK x, y : x = E(k) /\ y = E(k - 1)
      OBVIOUS
    <3>5. x - y = begin + v - D[i]
      BY <1>9, <3>2, <3>3, <3>4
    <3> QED
      BY <3>2, <3>4, <3>5 DEF e
  <2>4. CASE k = i + 2
    <3>1. k - 1 = i + 1 /\ k > i + 1
      BY <2>1, <2>4
    <3>2. /\ m[k].value = l[i + 1].value - e /\ E(k) = D[i + 1]
          /\ E(k - 1) = begin + v /\ i + 1 \in 1..Len(l) /\ k \in i + 2..Len(l) + 1
      BY <1>11, <1>13, <2>1, <2>4, <3>1
    <3>3. l[i + 1].value = D[i + 1] - D[i] /\ D[i + 1] \in Nat
      <4>1. i + 1 - 1 = i
        BY <2>1
      <4>2. PICK p \in 1..Len(l) : p = i + 1
        BY <3>2
      <4>3. l[p].value = D[p] - D[p - 1] /\ D[p] \in Nat
        BY <1>4, <1>6
      <4> QED
        BY <4>1, <4>2, <4>3
    <3>4. m[k].value = D[i + 1] - D[i] - e /\ E(k) - E(k - 1) = D[i + 1] - (begin + v)
      BY <3>2, <3>3
    <3>5. D[i + 1] - D[i] - (begin + v - D[i]) = D[i + 1] - (begin + v)
      <4>1. PICK x, y \in Int : x = D[i + 1] /\ y = D[i]
        BY <1>9, <3>3
      <4>2. x - y - (begin + v - y) = x - (begin + v)
        OBVIOUS
      <4> QED
        BY <4>1, <4>2
    <3> QED
      BY <3>4, <3>5 DEF e
  <2>5. CASE k > i + 2
    <3>1. k > i + 1 /\ k - 1 > i + 1 /\ k # i + 2
      BY <2>1, <2>5
    <3>2. /\ m[k].value = l[k - 1].value /\ E(k) = D[k - 1] /\ E(k - 1) = D[k - 1 - 1]
          /\ k - 1 \in 1..Len(l)
      BY <1>11, <1>13, <2>1, <3>1
    <3> QED
      BY <1>6, <3>2
  <2> QED
    BY <2>1, <2>2, <2>3, <2>4, <2>5
<1>20. \A k \in 1..Len(m) : m[k].value + MaxLate < W
  <2>1. ASSUME NEW k \in 1..Len(m)
        PROVE  m[k].value + MaxLate < W
    <3>1. k \in Nat /\ i \in Nat
      BY <1>1, <1>11
    <3>2. CASE k < i + 1
      <4>1. k \in 1..i /\ k \in 1..Len(l)
        BY <1>13, <3>1, <3>2
      <4> QED
        BY <1>3, <1>11, <4>1
    <3>3. CASE k = i + 1
      <4>1. e <= v
        <5>1. D[i] >= begin
          <6>1. CASE i = 0
            BY <1>4, <6>1
          <6>2. CASE i # 0
            <7>1. i \in 1..Len(l) /\ 1 \in 1..Len(l) /\ 1 \in 0..Len(l) /\ l # <<>>
              BY <1>1, <6>2
            <7>2. D[1] <= D[i] /\ D[1] \in Nat /\ D[i] \in Nat
              BY <1>4, <1>17, <7>1
            <7>3. D[1] = begin + l[1].value /\ l[1].value \in Nat
              BY <1>2, <1>4, <7>1
            <7> QED
              BY <7>2, <7>3
          <6> QED
            BY <6>1, <6>2
        <5> QED
          BY <1>9, <5>1 DEF e
      <4> QED
        BY <1>9, <1>11, <3>3, <4>1
    <3>4. CASE k > i + 1
      <4>1. k - 1 \in 1..Len(l) /\ k \in i + 2..Len(l) + 1
        BY <1>13, <3>4
      <4>2. l[k - 1].value + MaxLate < W /\ l[k - 1].value \in Nat
        BY <1>2, <1>3, <4>1
      <4>3. m[k].value = l[k - 1].value - e \/ m[k].value = l[k - 1].value
        BY <1>11, <4>1
      <4>4. PICK x \in Nat : x = l[k - 1].value
        BY <4>2
      <4>5. e \in Nat /\ x + MaxLate < W /\ (m[k].value = x - e \/ m[k].value = x)
        BY <1>9, <4>2, <4>3, <4>4
      <4> QED
        BY <4>5
    <3> QED
      BY <3>1, <3>2, <3>3, <3>4
  <2> QED
    BY <2>1
\* The first one.
<1>21. /\ m[1].value >= 1
       /\ \/ m[1].t = t /\ m[1].value = v
          \/ l # <<>> /\ m[1] = l[1] /\ m[1].t # t
  <2>1. CASE i = 0
    <3>1. m[1].t = t /\ m[1].value = e /\ e = v
      BY <1>4, <1>11, <2>1 DEF e
    <3> QED
      BY <3>1
  <2>2. CASE i # 0
    <3>1. 1 \in 1..i /\ 1 \in 1..Len(l)
      BY <1>1, <2>2
    <3>2. m[1] = l[1] /\ l # <<>> /\ l[1].t # t
      BY <1>1, <1>3, <1>11, <3>1
    <3>3. l[1].value >= 1
      BY <3>2 DEF Ordered
    <3> QED
      BY <3>2, <3>3
  <2> QED
    BY <2>1, <2>2
<1>22. Ordered(m, f)
  <2>1. \A k \in 1..Len(m) : f[m[k].t] \in Nat /\ m[k].value + MaxLate < W
    BY <1>14, <1>20
  <2>2. \A j, k \in 1..Len(m) : j <= k => f[m[j].t] <= f[m[k].t]
    BY <1>14, <1>18
  <2>3. \A k \in 2..Len(m) : m[k].value = f[m[k].t] - f[m[k - 1].t]
    <3>1. ASSUME NEW k \in 2..Len(m)
          PROVE  m[k].value = f[m[k].t] - f[m[k - 1].t]
      <4>1. k \in 1..Len(m) /\ k - 1 \in 1..Len(m)
        BY <1>1, <1>11
      <4> QED
        BY <1>14, <1>19, <4>1
    <3> QED
      BY <3>1
  <2>4. m \in Seq(Entries) /\ f \in [Timers -> Int]
    BY <1>11, <1>12
  <2> QED
    BY <1>15, <1>16, <1>21, <2>1, <2>2, <2>3, <2>4 DEF Ordered
<1> QED
  BY <1>11, <1>21, <1>22 DEF m, Placed

\* The timers of a list run.
LEMMA ListedRun ==
  ASSUME NEW l, NEW d, Ordered(l, d), NEW i \in 1..Len(l)
  PROVE  l[i].t \in Timers /\ d[l[i].t] # -1 /\ d[l[i].t] \in Nat
<1>1. l \in Seq(Entries) /\ d[l[i].t] \in Nat
  BY DEF Ordered
<1>2. l[i] \in Entries
  BY <1>1
<1> QED
  BY <1>1, <1>2 DEF Entries

\* Timers with the difference zero behind the first one end with it.
LEMMA EndTogether ==
  ASSUME NEW l, NEW d, Ordered(l, d), NEW n \in 1..Len(l), \A j \in 2..n : l[j].value = 0
  PROVE  \A j \in 1..n : d[l[j].t] = d[l[1].t]
<1> DEFINE T == {j \in 0..n - 1 : d[l[j + 1].t] = d[l[1].t]}
<1>1. Len(l) \in Nat /\ n \in Nat /\ n - 1 \in Nat
  BY DEF Ordered
<1>2. T \in SUBSET (0..n - 1)
  OBVIOUS
<1>3. 0 \in T
  BY <1>1
<1>4. ASSUME NEW j \in 1..n - 1, j - 1 \in T
      PROVE  j \in T
  <2>1. PICK p \in 2..n : p = j + 1
    BY <1>1
  <2>2. p \in 2..Len(l) /\ p \in 1..Len(l) /\ p - 1 \in 1..Len(l) /\ j - 1 + 1 = p - 1
    BY <1>1, <2>1
  <2>3. l[p].value = d[l[p].t] - d[l[p - 1].t] /\ l[p].value = 0
    BY <2>2 DEF Ordered
  <2>4. d[l[p].t] \in Nat /\ d[l[p - 1].t] \in Nat
    BY <2>2 DEF Ordered
  <2>5. d[l[p].t] = d[l[p - 1].t]
    BY <2>3, <2>4
  <2>6. d[l[p - 1].t] = d[l[1].t]
    BY <1>4, <2>2
  <2>7. j \in 0..n - 1
    BY <1>1
  <2> QED
    BY <2>1, <2>5, <2>6, <2>7
<1> HIDE DEF T
<1>5. T = 0..n - 1
  BY <1>1, <1>2, <1>3, <1>4, Induct
<1>6. ASSUME NEW j \in 1..n
      PROVE  d[l[j].t] = d[l[1].t]
  <2>1. PICK p \in 0..n - 1 : p = j - 1
    BY <1>1
  <2>2. p + 1 = j
    BY <1>1, <2>1
  <2>3. p \in T
    BY <1>5
  <2> QED
    BY <2>2, <2>3 DEF T
<1> QED
  BY <1>6

\* When the timers end, after the first n of l have been taken off and the others
\* put off by s.
PutOff(l, d, n, s) ==
  [t \in Timers |-> IF d[t] = -1 \/ \E i \in 1..n : l[i].t = t THEN -1 ELSE d[t] + s]

\* The first timers are taken off and the others put off.
LEMMA DropKeepsOrder ==
  ASSUME NEW l, NEW d, Ordered(l, d), NEW n \in 1..Len(l), \A j \in 2..n : l[j].value = 0,
         n < Len(l) => l[n + 1].value # 0, NEW s \in Nat
  PROVE  LET m == SubSeq(l, n + 1, Len(l))
             f == PutOff(l, d, n, s) IN
         /\ Ordered(m, f) /\ Len(m) = Len(l) - n
         /\ m # <<>> => m[1] = l[n + 1] /\ f[m[1].t] = d[l[1].t] + m[1].value + s
<1> DEFINE m == SubSeq(l, n + 1, Len(l))
           f == PutOff(l, d, n, s)
<1>1. /\ f \in [Timers -> Int]
      /\ \A t \in Timers :
           f[t] = IF d[t] = -1 \/ \E i \in 1..n : l[i].t = t THEN -1 ELSE d[t] + s
  <2>1. \A t \in Timers : d[t] \in Int
    BY DEF Ordered
  <2>2. \A t \in Timers : d[t] + s \in Int
    BY <2>1
  <2> QED
    BY <2>2 DEF PutOff
<1> HIDE DEF f
<1>2. l \in Seq(Entries) /\ Len(l) \in Nat /\ n \in Nat /\ n >= 1 /\ n <= Len(l)
  BY DEF Ordered
<1>3. /\ m \in Seq(Entries) /\ Len(m) = Len(l) - n
      /\ \A k \in 1..Len(m) : m[k] = l[k + n]
  <2>1. n + 1 \in 1..Len(l) + 1 /\ Len(l) \in n + 1 - 1..Len(l)
    BY <1>2
  <2>2. /\ m \in Seq(Entries) /\ Len(m) = Len(l) - (n + 1) + 1
        /\ \A k \in 1..Len(l) - (n + 1) + 1 : m[k] = l[n + 1 + k - 1]
    BY <1>2, <2>1, SubSeqProperties
  <2>3. Len(m) = Len(l) - n
    BY <1>2, <2>2
  <2>4. ASSUME NEW k \in 1..Len(m)
        PROVE  m[k] = l[k + n]
    <3>1. k \in 1..Len(l) - (n + 1) + 1 /\ n + 1 + k - 1 = k + n
      BY <1>2, <2>3
    <3> QED
      BY <2>2, <3>1
  <2> QED
    BY <2>2, <2>3, <2>4
<1> HIDE DEF m
<1>4. \A k \in 1..Len(l) : l[k].t \in Timers /\ l[k].value \in Nat
  <2>1. \A e \in Entries : e.t \in Timers /\ e.value \in Nat
    BY DEF Entries
  <2> QED
    BY <1>2, <2>1
<1>5. /\ \A i, j \in 1..Len(l) : l[i].t = l[j].t => i = j
      /\ \A k \in 1..Len(l) : d[l[k].t] \in Nat
  BY DEF Ordered
<1>6. ASSUME NEW k \in 1..Len(m)
      PROVE  /\ k + n \in 1..Len(l) /\ m[k].t = l[k + n].t /\ m[k].value = l[k + n].value
             /\ f[m[k].t] = d[l[k + n].t] + s /\ f[m[k].t] \in Nat
             /\ d[l[k + n].t] \in Nat /\ m[k].t \in Timers
  <2>1. k + n \in 1..Len(l) /\ k + n > n
    BY <1>2, <1>3
  <2>2. m[k].t = l[k + n].t /\ m[k].value = l[k + n].value /\ m[k].t \in Timers
    BY <1>3, <1>4, <2>1
  <2>3. ASSUME NEW i \in 1..n
        PROVE  l[i].t # m[k].t
    <3>1. i \in 1..Len(l) /\ i # k + n
      BY <1>2, <2>1
    <3> QED
      BY <1>5, <2>1, <2>2, <3>1
  <2>4. d[l[k + n].t] \in Nat
    BY <1>5, <2>1
  <2>5. f[m[k].t] = d[l[k + n].t] + s
    BY <1>1, <2>2, <2>3, <2>4
  <2> QED
    BY <2>1, <2>2, <2>4, <2>5
<1>7. \A j, k \in 1..Len(m) : m[j].t = m[k].t => j = k
  <2>1. ASSUME NEW j \in 1..Len(m), NEW k \in 1..Len(m), m[j].t = m[k].t
        PROVE  j = k
    <3>1. j + n = k + n
      BY <1>5, <1>6, <2>1
    <3> QED
      BY <1>2, <1>3, <3>1
  <2> QED
    BY <2>1
<1>8. \A t \in Timers : f[t] # -1 <=> \E k \in 1..Len(m) : m[k].t = t
  <2>1. ASSUME NEW k \in 1..Len(m)
        PROVE  f[m[k].t] # -1
    <3>1. f[m[k].t] \in Nat
      BY <1>6
    <3> QED
      BY <3>1
  <2>2. ASSUME NEW t \in Timers, f[t] # -1
        PROVE  \E k \in 1..Len(m) : m[k].t = t
    <3>1. d[t] # -1 /\ \A i \in 1..n : l[i].t # t
      BY <1>1, <2>2
    <3>2. PICK k \in 1..Len(l) : l[k].t = t
      BY <3>1 DEF Ordered
    <3>3. k \notin 1..n
      BY <3>1, <3>2
    <3>4. k - n \in 1..Len(m) /\ k - n + n = k
      BY <1>2, <1>3, <3>3
    <3>5. m[k - n] = l[k - n + n]
      BY <1>3, <3>4
    <3> QED
      BY <3>2, <3>4, <3>5
  <2> QED
    BY <2>1, <2>2
<1>9. \A k \in 1..Len(m) : f[m[k].t] \in Nat /\ m[k].value + MaxLate < W
  <2>1. \A k \in 1..Len(l) : l[k].value + MaxLate < W
    BY DEF Ordered
  <2> QED
    BY <1>6, <2>1
<1>10. \A j, k \in 1..Len(m) : j <= k => f[m[j].t] <= f[m[k].t]
  <2>1. ASSUME NEW j \in 1..Len(m), NEW k \in 1..Len(m), j <= k
        PROVE  f[m[j].t] <= f[m[k].t]
    <3>1. j + n \in 1..Len(l) /\ k + n \in 1..Len(l) /\ j + n <= k + n
      BY <1>2, <1>3, <1>6, <2>1
    <3>2. d[l[j + n].t] <= d[l[k + n].t]
      BY <3>1 DEF Ordered
    <3>3. /\ f[m[j].t] = d[l[j + n].t] + s /\ d[l[j + n].t] \in Nat
          /\ f[m[k].t] = d[l[k + n].t] + s /\ d[l[k + n].t] \in Nat
      BY <1>6
    <3>4. PICK x, y \in Nat : x = d[l[j + n].t] /\ y = d[l[k + n].t]
      BY <3>3
    <3>5. x <= y /\ f[m[j].t] = x + s /\ f[m[k].t] = y + s
      BY <3>2, <3>3, <3>4
    <3>6. x + s <= y + s
      BY <3>5
    <3> QED
      BY <3>5, <3>6
  <2> QED
    BY <2>1
<1>11. \A k \in 2..Len(m) : m[k].value = f[m[k].t] - f[m[k - 1].t]
  <2>1. ASSUME NEW k \in 2..Len(m)
        PROVE  m[k].value = f[m[k].t] - f[m[k - 1].t]
    <3>1. k \in 1..Len(m) /\ k - 1 \in 1..Len(m)
      BY <1>2, <1>3
    <3>2. PICK p \in 2..Len(l) : p = k + n
      BY <1>2, <1>3
    <3>3. p - 1 = k - 1 + n
      BY <1>2, <1>3, <3>2
    <3>4. l[p].value = d[l[p].t] - d[l[p - 1].t]
      BY DEF Ordered
    <3>5. /\ m[k].value = l[p].value
          /\ f[m[k].t] = d[l[p].t] + s /\ d[l[p].t] \in Nat
      BY <1>6, <3>1, <3>2
    <3>6. f[m[k - 1].t] = d[l[p - 1].t] + s /\ d[l[p - 1].t] \in Nat
      BY <1>6, <3>1, <3>3
    <3> QED
      BY <3>4, <3>5, <3>6
  <2> QED
    BY <2>1
<1>12. ASSUME m # <<>>
       PROVE  m[1] = l[n + 1] /\ f[m[1].t] = d[l[1].t] + m[1].value + s /\ m[1].value >= 1
  <2>1. 1 \in 1..Len(m) /\ n < Len(l) /\ 1 + n = n + 1
    BY <1>2, <1>3, <1>12
  <2>2. m[1] = l[n + 1]
    BY <1>3, <2>1
  <2>3. PICK p \in 2..Len(l) : p = n + 1
    BY <1>2, <2>1
  <2>4. p - 1 = n /\ p \in 1..Len(l) /\ p - 1 \in 1..Len(l)
    BY <1>2, <2>3
  <2>5. l[p].value = d[l[p].t] - d[l[p - 1].t]
    BY DEF Ordered
  <2>6. d[l[p - 1].t] = d[l[1].t]
    <3>1. n \in 1..n
      BY <1>2
    <3> QED
      BY <2>4, <3>1, EndTogether
  <2>7. /\ f[m[1].t] = d[l[p].t] + s /\ d[l[p].t] \in Nat /\ d[l[p - 1].t] \in Nat
        /\ m[1].value = l[p].value /\ l[p].value \in Nat /\ l[p].value # 0
    BY <1>4, <1>5, <1>6, <2>1, <2>3, <2>4
  <2>8. f[m[1].t] = d[l[1].t] + m[1].value + s /\ m[1].value >= 1
    BY <2>5, <2>6, <2>7
  <2> QED
    BY <2>2, <2>8
<1>13. Ordered(m, f)
  BY <1>1, <1>3, <1>7, <1>8, <1>9, <1>10, <1>11, <1>12 DEF Ordered
<1> QED
  BY <1>3, <1>12, <1>13 DEF m, f

-----------------------------------------------------------------------------
(* The timers.                                                             *)

\* When the first timer ends, what the list has of it, and the time since the
\* interrupt was set.
FirstEnd == due[list[1].t]
FirstGap == list[1].value
Since == Elapsed(counter)

TimeRanges ==
  /\ now \in Nat /\ counter \in 0..W - 1 /\ base \in 0..W - 1 /\ current \in Nat
  /\ pending \in -1..MaxLate /\ writing \in -1..W - 1
  /\ scene \in {"single", "slow", "list"}
  /\ interval \in [Timers -> Countdowns \cup {0}]

\* Timers of the scene are set.
InScene == \A i \in 1..Len(list) : list[i].t \in Used

\* The interrupt comes when the first timer ends, or has come.
OnThisRound ==
  /\ FirstEnd = now - Since + FirstGap
  /\ pending = -1 => Since < FirstGap \/ SlowSet
  /\ pending # -1 => Since - FirstGap <= pending

\* The count had passed the compare register and comes round.
OnTheNext ==
  /\ SlowSet /\ writing = -1
  /\ FirstEnd = now - Since - W + FirstGap
  /\ pending = -1 => Since < FirstGap
  /\ pending # -1 => FirstGap <= Since /\ Since - FirstGap <= pending

FirstArmed ==
  list # <<>> =>
    /\ writing = -1 => compare = (counter + FirstGap) % W
    /\ writing # -1 => SlowSet /\ writing = (counter + FirstGap) % W /\ Since <= 1
    /\ OnThisRound \/ OnTheNext

TimerInv == TimeRanges /\ Ordered(list, due) /\ InScene /\ FirstArmed

\* Counts add up modulo W.
LEMMA SumOfCounts ==
  ASSUME W \in Nat \ {0}, NEW c \in 0..W - 1, NEW v \in 0..W - 1
  PROVE  /\ (c + v) % W = IF c + v < W THEN c + v ELSE c + v - W
         /\ (c + v) % W \in 0..W - 1
OBVIOUS

LEMMA TimerNumbers ==
  ASSUME TimeRanges
  PROVE  /\ W \in Nat \ {0} /\ MaxLate \in Nat /\ Half \in Nat /\ MaxNow \in Nat
         /\ Count \in 0..W - 1 /\ Since \in 0..W - 1 /\ Elapsed(base) \in 0..W - 1
         /\ Since = IF counter <= Count THEN Count - counter ELSE Count - counter + W
<1>1. W \in Nat \ {0} /\ MaxLate \in Nat /\ Half \in Nat /\ MaxNow \in Nat
  BY TimerAssumption
<1>2. Count \in 0..W - 1 /\ base \in 0..W - 1 /\ counter \in 0..W - 1
  BY <1>1, NextCount DEF TimeRanges, Count
<1>3. /\ (Count - base) % W = IF base <= Count THEN Count - base ELSE Count - base + W
      /\ (Count - counter) % W
           = IF counter <= Count THEN Count - counter ELSE Count - counter + W
  BY <1>1, <1>2, Difference
<1> QED
  BY <1>1, <1>2, <1>3 DEF Elapsed, Since

\* The count meets a compare value when as much has elapsed.
LEMMA Meets ==
  ASSUME W \in Nat \ {0}, NEW c \in 0..W - 1, NEW n \in 0..W - 1, NEW v \in 0..W - 1,
         n = (c + v) % W
  PROVE  (n - c) % W = v
<1>1. (c + v) % W = IF c + v < W THEN c + v ELSE c + v - W
  BY SumOfCounts
<1>2. (n - c) % W = IF c <= n THEN n - c ELSE n - c + W
  BY Difference
<1> QED
  BY <1>1, <1>2

LEMMA MeetsOnly ==
  ASSUME W \in Nat \ {0}, NEW c \in 0..W - 1, NEW n \in 0..W - 1, NEW v \in 0..W - 1,
         (n - c) % W = v
  PROVE  n = (c + v) % W
<1>1. (c + v) % W = IF c + v < W THEN c + v ELSE c + v - W
  BY SumOfCounts
<1>2. (n - c) % W = IF c <= n THEN n - c ELSE n - c + W
  BY Difference
<1> QED
  BY <1>1, <1>2

\* What the first timer of a list has is less than a round.
LEMMA FirstIs ==
  ASSUME TimerInv, list # <<>>
  PROVE  /\ list[1] \in Entries /\ list[1].t \in Timers /\ list[1].t \in Used
         /\ FirstGap \in 1..W - 1 /\ FirstGap + MaxLate < W
         /\ FirstEnd \in Nat /\ FirstEnd = due[list[1].t] /\ FirstGap = list[1].value
<1>1. list \in Seq(Entries) /\ 1 \in 1..Len(list)
  BY DEF TimerInv, Ordered
<1>2. list[1] \in Entries
  BY <1>1
<1>3. \A e \in Entries : e.t \in Timers /\ e.value \in Nat
  BY DEF Entries
<1>4. W \in Nat \ {0} /\ MaxLate \in Nat
  BY TimerAssumption
<1>5. list[1].value + MaxLate < W /\ list[1].value >= 1 /\ due[list[1].t] \in Nat
  BY <1>1 DEF TimerInv, Ordered
<1> QED
  BY <1>1, <1>2, <1>3, <1>4, <1>5 DEF TimerInv, InScene, FirstGap, FirstEnd

\* Time passes.
LEMMA TickTimers ==
  ASSUME TimerInv, Tick
  PROVE  TimerInv'
<1>1. /\ now' = now + 1 /\ pending < MaxLate
      /\ writing # -1 => Count = counter
      /\ pending' = IF pending # -1 THEN pending + 1
                    ELSE IF now' % W = compare THEN 0 ELSE -1
      /\ UNCHANGED <<scene, counter, compare, writing, list, interval, due, base, current>>
  BY DEF Tick, listVars, clockVars
<1>2. TimeRanges
  BY DEF TimerInv
<1>3. /\ W \in Nat \ {0} /\ MaxLate \in Nat /\ Count \in 0..W - 1 /\ Since \in 0..W - 1
      /\ Since = IF counter <= Count THEN Count - counter ELSE Count - counter + W
  BY <1>2, TimerNumbers
<1>4. /\ now \in Nat /\ counter \in 0..W - 1 /\ pending \in -1..MaxLate
      /\ writing \in -1..W - 1
  BY <1>2 DEF TimeRanges
<1>5. TimeRanges'
  <2>1. pending' \in -1..MaxLate /\ now' \in Nat
    BY <1>1, <1>3, <1>4
  <2> QED
    BY <1>1, <1>2, <2>1 DEF TimeRanges
<1>6. TimeRanges' => Count' \in 0..W - 1
  BY <1>3, NextCount DEF TimeRanges, Count
<1>7. Since' = IF Since = W - 1 THEN 0 ELSE Since + 1
  <2>1. Count' = IF Count = W - 1 THEN 0 ELSE Count + 1
    BY <1>1, <1>3, <1>4, NextCount DEF Count
  <2>2. Since' = (Count' - counter) % W
    BY <1>1 DEF Since, Elapsed
  <2>3. Since' = IF counter <= Count' THEN Count' - counter ELSE Count' - counter + W
    BY <1>3, <1>4, <1>5, <1>6, <2>2, Difference
  <2> QED
    BY <1>3, <1>4, <2>1, <2>3
<1>8. ASSUME list' # <<>>
      PROVE  FirstArmed'
  <2>1. /\ FirstGap \in 1..W - 1 /\ FirstGap + MaxLate < W /\ FirstEnd \in Nat
        /\ list # <<>>
    BY <1>1, <1>8, FirstIs
  <2>2. /\ writing = -1 => compare = (counter + FirstGap) % W
        /\ writing # -1 => SlowSet /\ writing = (counter + FirstGap) % W /\ Since <= 1
        /\ OnThisRound \/ OnTheNext
    BY <2>1 DEF TimerInv, FirstArmed
  <2>3. FirstEnd' = FirstEnd /\ FirstGap' = FirstGap /\ SlowSet' = SlowSet
    BY <1>1 DEF FirstEnd, FirstGap, SlowSet
  <2>4. writing # -1 => Since = 0 /\ Since' <= 1
    BY <1>1, <1>3, <1>4, <1>7
  <2>5. writing = -1 => (now' % W = compare <=> Since' = FirstGap)
    <3>1. SUFFICES ASSUME writing = -1
                   PROVE  now' % W = compare <=> Since' = FirstGap
      OBVIOUS
    <3>2. Count' = now' % W /\ Since' = (Count' - counter) % W
      BY <1>1 DEF Since, Elapsed, Count
    <3>3. FirstGap \in 0..W - 1 /\ Count' \in 0..W - 1 /\ compare = (counter + FirstGap) % W
      BY <1>3, <1>5, <1>6, <2>1, <2>2, <3>1
    <3> QED
      BY <1>3, <1>4, <3>2, <3>3, Meets, MeetsOnly
  <2>6. CASE OnThisRound
    <3>1. /\ FirstEnd = now - Since + FirstGap
          /\ pending = -1 => Since < FirstGap \/ SlowSet
          /\ pending # -1 => Since - FirstGap <= pending
      BY <2>6 DEF OnThisRound
    <3>2. CASE Since = W - 1
      <4>1. writing = -1 /\ Since' = 0
        BY <1>3, <1>7, <2>1, <2>4, <3>2
      <4>2. pending = -1
        BY <1>1, <1>3, <1>4, <2>1, <3>1, <3>2
      <4>3. SlowSet /\ pending' = -1
        BY <1>1, <1>3, <2>1, <2>5, <3>1, <3>2, <4>1, <4>2
      <4>4. FirstEnd' = now' - Since' - W + FirstGap'
        BY <1>1, <1>3, <1>4, <2>1, <2>3, <3>1, <3>2, <4>1
      <4>5. Since' < FirstGap'
        BY <2>1, <2>3, <4>1
      <4>6. OnTheNext'
        BY <1>1, <2>3, <4>1, <4>3, <4>4, <4>5 DEF OnTheNext
      <4> QED
        BY <1>1, <2>2, <2>3, <4>1, <4>6 DEF FirstArmed
    <3>3. CASE Since # W - 1
      <4>1. Since' = Since + 1
        BY <1>7, <3>3
      <4>2. FirstEnd' = now' - Since' + FirstGap'
        BY <1>1, <1>3, <1>4, <2>1, <2>3, <3>1, <4>1
      <4>3. ASSUME pending' = -1
            PROVE  Since' < FirstGap' \/ SlowSet'
        <5>1. pending = -1 /\ now' % W # compare
          BY <1>1, <1>4, <4>3
        <5> QED
          BY <1>3, <2>1, <2>2, <2>3, <2>5, <3>1, <4>1, <5>1
      <4>4. ASSUME pending' # -1
            PROVE  Since' - FirstGap' <= pending'
        <5>1. CASE pending # -1
          BY <1>1, <1>3, <1>4, <2>1, <2>3, <3>1, <4>1, <5>1
        <5>2. CASE pending = -1
          <6>1. pending' = 0 /\ now' % W = compare
            BY <1>1, <4>4, <5>2
          <6>2. Since' <= FirstGap
            BY <1>3, <2>1, <2>4, <2>5, <4>1, <6>1
          <6> QED
            BY <1>3, <2>1, <2>3, <4>1, <6>1, <6>2
        <5> QED
          BY <5>1, <5>2
      <4>5. OnThisRound'
        BY <4>2, <4>3, <4>4 DEF OnThisRound
      <4> QED
        BY <1>1, <2>2, <2>3, <2>4, <4>5 DEF FirstArmed
    <3> QED
      BY <3>2, <3>3
  <2>7. CASE OnTheNext
    <3>1. /\ SlowSet /\ writing = -1
          /\ FirstEnd = now - Since - W + FirstGap
          /\ pending = -1 => Since < FirstGap
          /\ pending # -1 => FirstGap <= Since /\ Since - FirstGap <= pending
      BY <2>7 DEF OnTheNext
    <3>2. Since # W - 1
      BY <1>1, <1>3, <1>4, <2>1, <3>1
    <3>3. Since' = Since + 1
      BY <1>7, <3>2
    <3>4. FirstEnd' = now' - Since' - W + FirstGap'
      BY <1>1, <1>3, <1>4, <2>1, <2>3, <3>1, <3>3
    <3>5. pending' = -1 => Since' < FirstGap'
      <4>1. SUFFICES ASSUME pending' = -1
                     PROVE  Since' < FirstGap'
        OBVIOUS
      <4>2. pending = -1 /\ now' % W # compare
        BY <1>1, <1>4, <4>1
      <4> QED
        BY <1>3, <2>1, <2>3, <2>5, <3>1, <3>3, <4>2
    <3>6. pending' # -1 => FirstGap' <= Since' /\ Since' - FirstGap' <= pending'
      <4>1. CASE pending # -1
        BY <1>1, <1>3, <1>4, <2>1, <2>3, <3>1, <3>3, <4>1
      <4>2. CASE pending = -1
        BY <1>1, <1>3, <1>4, <2>1, <2>3, <2>5, <3>1, <3>3, <4>2
      <4> QED
        BY <4>1, <4>2
    <3>7. OnTheNext'
      BY <1>1, <2>3, <3>1, <3>4, <3>5, <3>6 DEF OnTheNext
    <3> QED
      BY <1>1, <2>2, <2>3, <3>1, <3>7 DEF FirstArmed
  <2> QED
    BY <2>2, <2>6, <2>7
<1>9. Ordered(list, due)' /\ InScene'
  BY <1>1 DEF TimerInv, InScene, Used, Ordered
<1> QED
  BY <1>5, <1>8, <1>9 DEF TimerInv, FirstArmed

\* The timers do not see the clock.
LEMMA ClockTimers ==
  ASSUME TimerInv, Retrace \/ SetTime(0)
  PROVE  TimerInv'
<1>1. /\ UNCHANGED <<scene, now, pending, counter, compare, writing, list, interval, due>>
      /\ base' \in {base, Count} /\ current' \in {0, current + Elapsed(base)}
  BY DEF Retrace, SetTime, listVars
<1>2. TimeRanges /\ Count \in 0..W - 1 /\ Elapsed(base) \in 0..W - 1 /\ W \in Nat \ {0}
  BY TimerNumbers DEF TimerInv
<1>3. TimeRanges'
  <2>1. base' \in 0..W - 1 /\ current' \in Nat
    BY <1>1, <1>2 DEF TimeRanges
  <2> QED
    BY <1>1, <1>2, <2>1 DEF TimeRanges
<1>4. /\ FirstEnd' = FirstEnd /\ FirstGap' = FirstGap /\ SlowSet' = SlowSet
      /\ Since' = Since
  BY <1>1 DEF FirstEnd, FirstGap, SlowSet, Since, Elapsed, Count
<1>5. FirstArmed'
  BY <1>1, <1>4 DEF TimerInv, FirstArmed, OnThisRound, OnTheNext
<1> QED
  BY <1>1, <1>3, <1>5 DEF TimerInv, InScene, Used, Ordered

\* The compare register is written.
LEMMA WriteTimers ==
  ASSUME TimerInv, SetCompare
  PROVE  TimerInv'
<1>1. /\ UNCHANGED <<scene, now, pending, counter, list, interval, due, base, current>>
      /\ writing # -1 /\ compare' = writing /\ writing' = -1
  BY DEF SetCompare, clockVars
<1>2. /\ FirstEnd' = FirstEnd /\ FirstGap' = FirstGap /\ SlowSet' = SlowSet
      /\ Since' = Since
  BY <1>1 DEF FirstEnd, FirstGap, SlowSet, Since, Elapsed, Count
<1>3. TimeRanges'
  <2>1. W \in Nat
    BY TimerAssumption
  <2>2. writing' \in -1..W - 1
    BY <1>1, <2>1
  <2> QED
    BY <1>1, <2>2 DEF TimerInv, TimeRanges
<1>4. OnTheNext => writing = -1
  BY DEF OnTheNext
<1>5. OnThisRound => OnThisRound'
  BY <1>1, <1>2 DEF OnThisRound
<1>6. FirstArmed'
  BY <1>1, <1>2, <1>4, <1>5 DEF TimerInv, FirstArmed
<1> QED
  BY <1>1, <1>3, <1>6 DEF TimerInv, InScene, Used, Ordered

\* The interrupt is set for a first timer that ends value from now.
LEMMA ArmsTheFirst ==
  ASSUME TimeRanges, NEW value \in 1..W - 1, SetTimerIntr(value),
         UNCHANGED <<scene, now>>, pending' = -1,
         list' # <<>>, list'[1].value = value, due'[list'[1].t] = now + value
  PROVE  FirstArmed' /\ counter' \in 0..W - 1 /\ writing' \in -1..W - 1
<1>1. /\ W \in Nat \ {0} /\ Count \in 0..W - 1 /\ now \in Nat
      /\ (Count - Count) % W = 0
  <2>1. W \in Nat \ {0} /\ Count \in 0..W - 1 /\ now \in Nat
    BY TimerNumbers DEF TimeRanges
  <2> QED
    BY <2>1, Difference
<1>2. counter' = Count /\ Count' = Count /\ SlowSet' = SlowSet
  BY DEF SetTimerIntr, Count, SlowSet
<1>3. Since' = 0
  BY <1>1, <1>2 DEF Since, Elapsed
<1>4. FirstGap' = value /\ FirstEnd' = now + value
  BY DEF FirstGap, FirstEnd
<1>5. (Count + value) % W \in 0..W - 1
  BY <1>1, SumOfCounts
<1>6. /\ writing' = -1 => compare' = (Count + value) % W
      /\ writing' # -1 => SlowSet /\ writing' = (Count + value) % W
      /\ writing' \in -1..W - 1
  BY <1>1, <1>5 DEF SetTimerIntr
<1>7. OnThisRound'
  BY <1>1, <1>3, <1>4 DEF OnThisRound
<1> QED
  BY <1>1, <1>2, <1>3, <1>4, <1>6, <1>7 DEF FirstArmed

\* A timer is set.
LEMMA SetsTimers ==
  ASSUME TimerInv, NEW t \in Used, NEW c \in 1..MaxNow, c + MaxLate < W,
         NEW again \in Intervals, SetTimer(t, c, again)
  PROVE  TimerInv'
<1>1. /\ writing = -1 /\ due[t] = -1 /\ pending = -1
      /\ list = <<>> \/ Elapsed(counter) = 0
      /\ list' = Insert(list, t, c)
      /\ interval' = [interval EXCEPT ![t] = again]
      /\ due' = [due EXCEPT ![t] = now + c]
      /\ IF Head(list').t = t THEN SetTimerIntr(Head(list').value)
                              ELSE UNCHANGED <<counter, compare, writing>>
      /\ UNCHANGED <<scene, now, pending, base, current>>
  BY DEF SetTimer, clockVars
<1>2. TimeRanges /\ Ordered(list, due) /\ InScene /\ FirstArmed
  BY DEF TimerInv
<1>3. /\ W \in Nat \ {0} /\ MaxLate \in Nat /\ Count \in 0..W - 1 /\ now \in Nat
      /\ c \in Nat \ {0} /\ c \in 1..W - 1
  BY <1>2, TimerNumbers, TimerAssumption DEF TimeRanges
<1>4. t \in Timers
  BY TimerAssumption DEF Used
\* Where the count may pass the compare value there is one timer.
<1>5. list # <<>> => scene = "list"
  <2>1. SUFFICES ASSUME list # <<>>, scene # "list"
                 PROVE  FALSE
    OBVIOUS
  <2>2. list[1].t \in Used /\ FirstEnd \in Nat /\ FirstEnd = due[list[1].t]
    BY <2>1, FirstIs
  <2>3. list[1].t = t
    BY <2>1, <2>2 DEF Used
  <2> QED
    BY <1>1, <2>2, <2>3
<1>6. list # <<>> => due[list[1].t] = now + list[1].value
  <2>1. SUFFICES ASSUME list # <<>>
                 PROVE  due[list[1].t] = now + list[1].value
    OBVIOUS
  <2>2. ~SlowSet /\ Since = 0
    BY <1>1, <1>5, <2>1 DEF SlowSet, Since
  <2>3. OnThisRound
    BY <1>2, <2>1, <2>2 DEF FirstArmed, OnTheNext
  <2>4. FirstGap \in Nat /\ FirstGap = list[1].value /\ FirstEnd = due[list[1].t]
    BY <2>1, FirstIs
  <2> QED
    BY <1>3, <2>2, <2>3, <2>4 DEF OnThisRound
<1>7. /\ Ordered(list', due') /\ Len(list') = Len(list) + 1
      /\ \/ list'[1].t = t /\ list'[1].value = c
         \/ list # <<>> /\ list'[1] = list[1] /\ list'[1].t # t
  <2>1. W \in Nat /\ MaxLate \in Nat /\ c + MaxLate < W
    BY <1>3
  <2>2. Ordered(list, due) /\ due[t] = -1 /\ now \in Nat /\ c \in Nat \ {0}
    BY <1>1, <1>2, <1>3
  <2>3. /\ due' \in [Timers -> Int] /\ due'[t] = now + c
        /\ \A u \in Timers : u # t => due'[u] = due[u]
    BY <1>1, <1>3, <1>4, <2>2 DEF Ordered
  <2>4. Placed(Insert(list, t, c), due', list, t, c)
    BY <1>4, <1>6, <2>1, <2>2, <2>3, InsertKeepsOrder
  <2> QED
    BY <1>1, <2>4 DEF Placed
<1>8. list' # <<>> /\ Head(list') = list'[1]
  <2>1. list' \in Seq(Entries) /\ list \in Seq(Entries)
    BY <1>2, <1>7 DEF Ordered
  <2> QED
    BY <1>7, <2>1
<1>9. /\ due \in [Timers -> Int] /\ due'[t] = now + c
      /\ \A s \in Timers : s # t => due'[s] = due[s]
  BY <1>1, <1>2, <1>4 DEF Ordered
<1>10. FirstArmed' /\ counter' \in 0..W - 1 /\ writing' \in -1..W - 1
  <2>1. CASE list'[1].t = t
    <3>1. list'[1].value = c /\ due'[list'[1].t] = now + c
      BY <1>7, <1>9, <2>1
    <3>2. SetTimerIntr(c)
      BY <1>1, <1>8, <2>1, <3>1
    <3> QED
      BY <1>1, <1>2, <1>3, <1>8, <3>1, <3>2, ArmsTheFirst
  <2>2. CASE list'[1].t # t
    <3>1. list # <<>> /\ list'[1] = list[1] /\ UNCHANGED <<counter, compare, writing>>
      BY <1>1, <1>7, <1>8, <2>2
    <3>2. list[1].t \in Timers
      BY <3>1, FirstIs
    <3>3. FirstEnd' = FirstEnd /\ FirstGap' = FirstGap
      BY <1>9, <2>2, <3>1, <3>2 DEF FirstEnd, FirstGap
    <3>4. Since' = Since /\ SlowSet' = SlowSet
      BY <1>1, <3>1 DEF Since, Elapsed, Count, SlowSet
    <3>5. FirstArmed'
      BY <1>1, <1>2, <3>1, <3>3, <3>4 DEF FirstArmed, OnThisRound, OnTheNext
    <3> QED
      BY <1>2, <3>1, <3>5 DEF TimeRanges
  <2> QED
    BY <2>1, <2>2
<1>11. InScene' /\ interval' \in [Timers -> Countdowns \cup {0}]
  <2>1. interval \in [Timers -> Countdowns \cup {0}]
    BY <1>2 DEF TimeRanges
  <2>2. again \in Countdowns \cup {0}
    BY DEF Intervals
  <2>3. interval' \in [Timers -> Countdowns \cup {0}]
    BY <1>1, <2>1, <2>2
  <2>4. ASSUME NEW i \in 1..Len(list')
        PROVE  list'[i].t \in Used
    <3>1. due'[list'[i].t] \in Nat /\ list' \in Seq(Entries)
      BY <1>7 DEF Ordered
    <3>2. list'[i] \in Entries
      BY <3>1
    <3>3. list'[i].t \in Timers
      BY <3>2 DEF Entries
    <3>4. CASE list'[i].t # t
      <4>1. due[list'[i].t] # -1
        BY <1>9, <3>1, <3>3, <3>4
      <4>2. PICK j \in 1..Len(list) : list[j].t = list'[i].t
        BY <1>2, <3>3, <4>1 DEF Ordered
      <4> QED
        BY <1>2, <4>2 DEF InScene
    <3> QED
      BY <3>4
  <2>5. Used' = Used
    BY <1>1 DEF Used
  <2> QED
    BY <2>3, <2>4, <2>5 DEF InScene
<1>12. TimeRanges'
  BY <1>1, <1>2, <1>10, <1>11 DEF TimeRanges
<1>13. Ordered(list, due)'
  BY <1>7 DEF Ordered
<1> QED
  BY <1>10, <1>11, <1>12, <1>13 DEF TimerInv

\* The timers that fire: the first one when its time has come, and those behind
\* it that end with it.
LEMMA FiresAre ==
  ASSUME list \in Seq(Entries), NEW e \in Nat
  PROVE  LET n == Fires(e) IN
         IF list = <<>> \/ e < list[1].value THEN n = 0
         ELSE /\ n \in 1..Len(list) /\ \A j \in 2..n : list[j].value = 0
              /\ n < Len(list) => list[n + 1].value # 0
<1> DEFINE S == {i \in 1..Len(list) : \A j \in 2..i : list[j].value = 0}
<1>1. CASE list = <<>> \/ e < list[1].value
  BY <1>1 DEF Fires
<1>2. CASE ~(list = <<>> \/ e < list[1].value)
  <2>1. Len(list) \in Nat /\ 1 \in 1..Len(list)
    BY <1>2
  <2>2. 1 \in S /\ S \in SUBSET (0..Len(list))
    BY <2>1
  <2>3. PICK n : n = Max(S)
    OBVIOUS
  <2>4. n \in S /\ \A y \in S : y <= n
    BY <2>1, <2>2, <2>3, Greatest
  <2>5. Fires(e) = n
    BY <1>2, <2>3 DEF Fires
  <2>6. ASSUME n < Len(list), list[n + 1].value = 0
        PROVE  FALSE
    <3>1. n \in 1..Len(list) /\ n + 1 \in 1..Len(list)
      BY <2>1, <2>4, <2>6
    <3>2. \A j \in 2..n + 1 : list[j].value = 0
      BY <2>4, <2>6, <3>1
    <3>3. n + 1 \in S
      BY <3>1, <3>2
    <3> QED
      BY <2>4, <3>1, <3>3
  <2> QED
    BY <1>2, <2>4, <2>5, <2>6
<1> QED
  BY <1>1, <1>2

\* The back that PutBack defines, up to the m-th timer.
BackTo(m, rest, g) ==
  g = [i \in 0..m |-> IF i = 0 THEN rest ELSE Again(g[i - 1], list[i].t)]

\* The timers that fire are put back one after the other.
LEMMA BackIs ==
  ASSUME NEW n \in Nat
  PROVE  \E g : /\ PutBack(n) = g[n]
                /\ g[0] = SubSeq(list, n + 1, Len(list))
                /\ \A i \in 1..n : g[i] = Again(g[i - 1], list[i].t)
<1>1. PICK rest : rest = SubSeq(list, n + 1, Len(list))
  OBVIOUS
<1> DEFINE T == {m \in 0..n : \E g : BackTo(m, rest, g)}
<1>2. T \in SUBSET (0..n)
  OBVIOUS
<1>3. 0 \in T
  <2> DEFINE g == [i \in 0..0 |-> rest]
  <2>1. g = [i \in 0..0 |-> IF i = 0 THEN rest ELSE Again(g[i - 1], list[i].t)]
    OBVIOUS
  <2>2. BackTo(0, rest, g)
    BY <2>1 DEF BackTo
  <2> QED
    BY <2>2
<1>4. ASSUME NEW m \in 1..n, m - 1 \in T
      PROVE  m \in T
  <2>1. PICK h : BackTo(m - 1, rest, h)
    BY <1>4
  <2> DEFINE g == [i \in 0..m |-> IF i = m THEN Again(h[m - 1], list[m].t) ELSE h[i]]
  <2>2. ASSUME NEW i \in 0..m - 1
        PROVE  h[i] = IF i = 0 THEN rest ELSE Again(h[i - 1], list[i].t)
    BY <2>1 DEF BackTo
  <2>3. \A i \in 0..m - 1 : g[i] = h[i]
    OBVIOUS
  <2>4. g[m] = Again(h[m - 1], list[m].t)
    OBVIOUS
  <2>5. g = [i \in 0..m |-> g[i]]
    OBVIOUS
  <2> HIDE DEF g
  <2>6. ASSUME NEW i \in 0..m
        PROVE  g[i] = IF i = 0 THEN rest ELSE Again(g[i - 1], list[i].t)
    <3>1. CASE i = m
      <4>1. m # 0 /\ m - 1 \in 0..m - 1
        OBVIOUS
      <4>2. g[m - 1] = h[m - 1]
        BY <2>3, <4>1
      <4> QED
        BY <2>4, <3>1, <4>1, <4>2
    <3>2. CASE i = 0
      <4>1. 0 \in 0..m - 1
        OBVIOUS
      <4> QED
        BY <2>2, <2>3, <3>2, <4>1
    <3>3. CASE i # m /\ i # 0
      <4>1. i \in 0..m - 1 /\ i - 1 \in 0..m - 1
        BY <3>3
      <4>2. g[i] = h[i] /\ g[i - 1] = h[i - 1]
        BY <2>3, <4>1
      <4>3. h[i] = Again(h[i - 1], list[i].t)
        BY <2>2, <3>3, <4>1
      <4> QED
        BY <3>3, <4>2, <4>3
    <3> QED
      BY <3>1, <3>2, <3>3
  <2>7. g = [i \in 0..m |-> IF i = 0 THEN rest ELSE Again(g[i - 1], list[i].t)]
    BY <2>5, <2>6
  <2>8. BackTo(m, rest, g)
    BY <2>7 DEF BackTo
  <2> QED
    BY <2>8
<1>5. n \in T
  <2> HIDE DEF T
  <2>1. T = 0..n
    BY <1>2, <1>3, <1>4, Induct
  <2> QED
    BY <2>1
<1> DEFINE g == CHOOSE g : BackTo(n, rest, g)
<1>6. BackTo(n, rest, g)
  BY <1>5
<1>7. PutBack(n) = g[n]
  BY <1>1 DEF PutBack, BackTo
<1> HIDE DEF g
<1>8. \A i \in 0..n : g[i] = IF i = 0 THEN rest ELSE Again(g[i - 1], list[i].t)
  BY <1>6 DEF BackTo
<1>9. g[0] = rest
  BY <1>8
<1>10. \A i \in 1..n : g[i] = Again(g[i - 1], list[i].t)
  BY <1>8
<1> QED
  BY <1>1, <1>7, <1>9, <1>10

\* The first timer of l ends at d, and its value is counted from now.
FromNow(l, d) == l # <<>> => d[l[1].t] = now + l[1].value

\* Is t one of the first m timers?
Among(m, t) == \E i \in 1..m : list[i].t = t

\* When they end after the first m have been put back.
Partly(m, f, g) == [t \in Timers |-> IF Among(m, t) THEN g[t] ELSE f[t]]

LEMMA OneMore ==
  ASSUME NEW m \in Nat \ {0}, NEW t
  PROVE  Among(m, t) <=> Among(m - 1, t) \/ list[m].t = t
<1>1. \A i \in 1..m : i = m \/ i \in 1..m - 1
  OBVIOUS
<1>2. m \in 1..m /\ \A i \in 1..m - 1 : i \in 1..m
  OBVIOUS
<1> QED
  BY <1>1, <1>2 DEF Among

\* One is put back, or does not come back.
LEMMA OneIsPutBack ==
  ASSUME W \in Nat, MaxLate \in Nat, now \in Nat,
         NEW l, NEW d, Ordered(l, d), FromNow(l, d), NEW t \in Timers, d[t] = -1,
         interval[t] \in Nat, interval[t] # 0 => interval[t] + MaxLate < W,
         NEW e \in [Timers -> Int], \A u \in Timers : u # t => e[u] = d[u],
         e[t] = IF interval[t] = 0 THEN -1 ELSE now + interval[t]
  PROVE  Ordered(Again(l, t), e) /\ FromNow(Again(l, t), e)
<1>1. CASE interval[t] = 0
  <2>1. d \in [Timers -> Int]
    BY DEF Ordered
  <2>2. \A u \in Timers : e[u] = d[u]
    BY <1>1
  <2>3. e = d
    BY <2>1, <2>2
  <2> QED
    BY <1>1, <2>3 DEF Again
<1>2. CASE interval[t] # 0
  <2>1. PICK v \in Nat \ {0} : v = interval[t]
    BY <1>2
  <2>2. v + MaxLate < W /\ e[t] = now + v
    BY <1>2, <2>1
  <2>3. l # <<>> => d[l[1].t] = now + l[1].value
    BY DEF FromNow
  <2>4. Placed(Insert(l, t, v), e, l, t, v)
    BY <2>2, <2>3, InsertKeepsOrder
  <2>5. PICK m : m = Again(l, t)
    OBVIOUS
  <2>6. Placed(m, e, l, t, v)
    BY <1>2, <2>1, <2>4, <2>5 DEF Again
  <2>7. FromNow(m, e)
    <3>1. CASE m[1].t = t /\ m[1].value = v
      BY <2>2, <3>1 DEF FromNow
    <3>2. CASE l # <<>> /\ m[1] = l[1] /\ m[1].t # t
      <4>1. 1 \in 1..Len(l)
        BY <3>2 DEF Ordered
      <4>2. l[1].t \in Timers
        BY <4>1, ListedRun
      <4> QED
        BY <2>3, <3>2, <4>2 DEF FromNow
    <3> QED
      BY <2>6, <3>1, <3>2 DEF Placed
  <2> QED
    BY <2>5, <2>6, <2>7 DEF Placed
<1> QED
  BY <1>1, <1>2

\* What the timers may be set to fits.
IntervalsFit ==
  \A t \in Timers : interval[t] \in Nat /\ (interval[t] # 0 => interval[t] + MaxLate < W)

\* The first n timers have fired: they end at f before those with an interval are
\* put back, and at g then.
Fired(n, f, g) ==
  /\ n \in Nat /\ g \in [Timers -> Int]
  /\ \A i \in 1..n : list[i].t \in Timers /\ f[list[i].t] = -1
  /\ \A i, j \in 1..n : list[i].t = list[j].t => i = j
  /\ \A t \in Timers : g[t] = IF ~Among(n, t) THEN f[t]
                              ELSE IF interval[t] = 0 THEN -1 ELSE now + interval[t]

\* They are put back where they belong.
LEMMA PutBackKeepsOrder ==
  ASSUME W \in Nat, MaxLate \in Nat, now \in Nat, IntervalsFit,
         NEW n, NEW f, NEW g, Fired(n, f, g),
         Ordered(SubSeq(list, n + 1, Len(list)), f),
         FromNow(SubSeq(list, n + 1, Len(list)), f)
  PROVE  Ordered(PutBack(n), g) /\ FromNow(PutBack(n), g)
<1>1. n \in Nat
  BY DEF Fired
<1>2. PICK b : /\ PutBack(n) = b[n] /\ b[0] = SubSeq(list, n + 1, Len(list))
               /\ \A i \in 1..n : b[i] = Again(b[i - 1], list[i].t)
  BY <1>1, BackIs
<1>3. Ordered(b[0], f) /\ FromNow(b[0], f)
  BY <1>2
<1>4. f \in [Timers -> Int] /\ g \in [Timers -> Int]
  BY <1>3 DEF Ordered, Fired
<1> DEFINE F(m) == Partly(m, f, g)
           T == {m \in 0..n : Ordered(b[m], F(m)) /\ FromNow(b[m], F(m))}
<1>5. ASSUME NEW m
      PROVE  /\ F(m) \in [Timers -> Int]
             /\ \A t \in Timers : Among(m, t) => F(m)[t] = g[t]
             /\ \A t \in Timers : ~Among(m, t) => F(m)[t] = f[t]
  BY <1>4 DEF Partly
<1> HIDE DEF F
<1>6. F(0) = f
  <2>1. \A t \in Timers : ~Among(0, t)
    BY DEF Among
  <2>2. F(0) \in [Timers -> Int] /\ \A t \in Timers : F(0)[t] = f[t]
    BY <1>5, <2>1
  <2> QED
    BY <1>4, <2>2
<1>7. F(n) = g
  <2>1. F(n) \in [Timers -> Int] /\ \A t \in Timers : F(n)[t] = g[t]
    BY <1>5 DEF Fired
  <2> QED
    BY <1>4, <2>1
<1>8. T \in SUBSET (0..n)
  OBVIOUS
<1>9. 0 \in T
  BY <1>1, <1>3, <1>6
<1>10. ASSUME NEW m \in 1..n, m - 1 \in T
       PROVE  m \in T
  <2>1. PICK t, l, d, e : t = list[m].t /\ l = b[m - 1] /\ d = F(m - 1) /\ e = F(m)
    OBVIOUS
  <2>2. t \in Timers /\ f[t] = -1
    BY <2>1 DEF Fired
  <2>3. Ordered(l, d) /\ FromNow(l, d) /\ m \in Nat \ {0} /\ m \in 0..n
    BY <1>1, <1>10, <2>1
  <2>4. b[m] = Again(l, t)
    BY <1>2, <2>1
  <2>5. ~Among(m - 1, t)
    <3>1. ASSUME NEW i \in 1..m - 1, list[i].t = t
          PROVE  FALSE
      <4>1. i \in 1..n /\ i # m /\ list[i].t = list[m].t
        BY <1>1, <2>1, <3>1
      <4> QED
        BY <4>1 DEF Fired
    <3> QED
      BY <3>1 DEF Among
  <2>6. Among(m, t) /\ Among(n, t)
    <3>1. m \in 1..m /\ m \in 1..n /\ list[m].t = t
      BY <1>1, <2>1
    <3> QED
      BY <3>1 DEF Among
  <2>7. d \in [Timers -> Int] /\ e \in [Timers -> Int] /\ d[t] = -1 /\ e[t] = g[t]
    BY <1>5, <2>1, <2>2, <2>5, <2>6
  <2>8. e[t] = IF interval[t] = 0 THEN -1 ELSE now + interval[t]
    BY <2>2, <2>6, <2>7 DEF Fired
  <2>9. \A u \in Timers : u # t => e[u] = d[u]
    <3>1. ASSUME NEW u \in Timers, u # t
          PROVE  e[u] = d[u]
      <4>1. Among(m, u) <=> Among(m - 1, u)
        BY <2>1, <2>3, <3>1, OneMore
      <4> QED
        BY <1>5, <2>1, <4>1
    <3> QED
      BY <3>1
  <2>10. interval[t] \in Nat /\ (interval[t] # 0 => interval[t] + MaxLate < W)
    BY <2>2 DEF IntervalsFit
  <2>11. Ordered(Again(l, t), e) /\ FromNow(Again(l, t), e)
    BY <2>2, <2>3, <2>7, <2>8, <2>9, <2>10, OneIsPutBack
  <2> QED
    BY <2>1, <2>3, <2>4, <2>11
<1>11. n \in T
  <2> HIDE DEF T
  <2>1. T = 0..n
    BY <1>1, <1>8, <1>9, <1>10, Induct
  <2> QED
    BY <1>1, <2>1
<1> QED
  BY <1>2, <1>7, <1>11

\* The first timer has some of its time behind it.
LEMMA HeadKeepsOrder ==
  ASSUME NEW l, NEW d, Ordered(l, d), l # <<>>, NEW e \in Nat, e < l[1].value,
         MaxLate \in Nat, W \in Nat
  PROVE  LET m == <<[l[1] EXCEPT !.value = @ - e]>> \o Tail(l) IN
         Ordered(m, d) /\ m # <<>> /\ m[1].t = l[1].t /\ m[1].value = l[1].value - e
<1> DEFINE first == [l[1] EXCEPT !.value = @ - e]
           m == <<first>> \o Tail(l)
<1>1. l \in Seq(Entries) /\ Len(l) \in Nat \ {0} /\ \A k \in 1..Len(l) : l[k] \in Entries
  BY DEF Ordered
<1>2. \A k \in 1..Len(l) : l[k].t \in Timers /\ l[k].value \in Nat
  <2>1. \A x \in Entries : x.t \in Timers /\ x.value \in Nat
    BY DEF Entries
  <2> QED
    BY <1>1, <2>1
<1>3. first \in Entries /\ first.t = l[1].t /\ first.value = l[1].value - e
  <2>1. l[1] \in Entries /\ l[1].value - e \in Nat
    BY <1>1, <1>2
  <2> QED
    BY <2>1 DEF Entries
<1> HIDE DEF first
<1>4. Tail(l) \in Seq(Entries) /\ Len(Tail(l)) = Len(l) - 1
      /\ \A k \in 1..Len(l) - 1 : Tail(l)[k] = l[k + 1]
  BY <1>1
<1>5. m \in Seq(Entries) /\ Len(m) = Len(l) /\ m[1] = first
  BY <1>1, <1>3, <1>4
<1>6. ASSUME NEW k \in 2..Len(l)
      PROVE  m[k] = l[k]
  <2>1. m[k] = Tail(l)[k - 1]
    BY <1>1, <1>3, <1>4
  <2>2. k - 1 \in 1..Len(l) - 1 /\ k - 1 + 1 = k
    BY <1>1
  <2> QED
    BY <1>4, <2>1, <2>2
<1> HIDE DEF m
<1>7. ASSUME NEW k \in 1..Len(l)
      PROVE  m[k].t = l[k].t /\ (k # 1 => m[k].value = l[k].value)
  <2>1. k = 1 \/ k \in 2..Len(l)
    BY <1>1
  <2> QED
    BY <1>3, <1>5, <1>6, <2>1
<1>8. m[1].value = l[1].value - e /\ m[1].value \in Nat /\ m[1].value >= 1
  <2>1. 1 \in 1..Len(l)
    BY <1>1
  <2> QED
    BY <1>2, <1>3, <1>5, <2>1
<1>9. \A k \in 1..Len(m) : d[m[k].t] \in Nat /\ m[k].value + MaxLate < W
  <2>1. ASSUME NEW k \in 1..Len(l)
        PROVE  d[m[k].t] \in Nat /\ m[k].value + MaxLate < W
    <3>1. d[l[k].t] \in Nat /\ l[k].value + MaxLate < W
      BY DEF Ordered
    <3>2. l[k].value \in Nat
      BY <1>2
    <3>3. CASE k = 1
      BY <1>7, <1>8, <3>1, <3>2, <3>3
    <3>4. CASE k # 1
      BY <1>7, <3>1, <3>4
    <3> QED
      BY <3>3, <3>4
  <2> QED
    BY <1>5, <2>1
<1>10. \A j, k \in 1..Len(m) : /\ m[j].t = m[k].t => j = k
                               /\ j <= k => d[m[j].t] <= d[m[k].t]
  <2>1. \A j, k \in 1..Len(l) : /\ l[j].t = l[k].t => j = k
                                /\ j <= k => d[l[j].t] <= d[l[k].t]
    BY DEF Ordered
  <2> QED
    BY <1>5, <1>7, <2>1
<1>11. \A t \in Timers : d[t] # -1 <=> \E k \in 1..Len(m) : m[k].t = t
  <2>1. \A t \in Timers : d[t] # -1 <=> \E k \in 1..Len(l) : l[k].t = t
    BY DEF Ordered
  <2> QED
    BY <1>5, <1>7, <2>1
<1>12. ASSUME NEW k \in 2..Len(m)
       PROVE  m[k].value = d[m[k].t] - d[m[k - 1].t]
  <2>1. k \in 2..Len(l) /\ k \in 1..Len(l) /\ k - 1 \in 1..Len(l) /\ k # 1
    BY <1>1, <1>5
  <2>2. l[k].value = d[l[k].t] - d[l[k - 1].t]
    BY <2>1 DEF Ordered
  <2>3. m[k].value = l[k].value /\ m[k].t = l[k].t /\ m[k - 1].t = l[k - 1].t
    BY <1>7, <2>1
  <2> QED
    BY <2>2, <2>3
<1>13. m # <<>> /\ d \in [Timers -> Int]
  <2>1. d \in [Timers -> Int]
    BY DEF Ordered
  <2> QED
    BY <1>1, <1>5, <2>1
<1>14. Ordered(m, d)
  BY <1>5, <1>8, <1>9, <1>10, <1>11, <1>12, <1>13 DEF Ordered
<1> QED
  BY <1>3, <1>5, <1>13, <1>14 DEF m, first

\* The timers that run are of the scene.
LEMMA RunningAreUsed ==
  ASSUME TimerInv, NEW t \in Timers, due[t] # -1
  PROVE  t \in Used
<1>1. PICK j \in 1..Len(list) : list[j].t = t
  BY DEF TimerInv, Ordered
<1> QED
  BY <1>1 DEF TimerInv, InScene

\* The timers that fire have ended: at once, and not before.
LEMMA FiredHaveEnded ==
  ASSUME TimerInv, pending # -1, writing = -1, list # <<>>, Since >= FirstGap
  PROVE  /\ FirstEnd <= now
         /\ ~SlowSet => FirstEnd + (Since - FirstGap) = now
<1>1. FirstGap \in 1..W - 1 /\ FirstEnd \in Nat
  BY FirstIs
<1>2. OnThisRound \/ OnTheNext
  BY DEF TimerInv, FirstArmed
<1>3. TimeRanges /\ now \in Nat
  BY DEF TimerInv, TimeRanges
<1>4. Since \in 0..W - 1 /\ W \in Nat
  BY <1>3, TimerNumbers
<1> QED
  BY <1>1, <1>2, <1>3, <1>4 DEF OnThisRound, OnTheNext

\* What the interrupt does where none fires.
LEMMA NoneFires ==
  ASSUME TimerInv, TimerInterrupt, list # <<>>, Since < FirstGap
  PROVE  TimerInv' /\ due' = due
<1> DEFINE rest == <<[list[1] EXCEPT !.value = @ - Since]>> \o Tail(list)
<1>1. TimeRanges /\ Ordered(list, due) /\ InScene /\ FirstArmed
  BY DEF TimerInv
<1>2. /\ W \in Nat \ {0} /\ MaxLate \in Nat /\ Count \in 0..W - 1 /\ now \in Nat
      /\ Since \in 0..W - 1 /\ Since \in Nat /\ pending \in -1..MaxLate
  BY <1>1, TimerNumbers DEF TimeRanges
<1>3. /\ FirstGap \in 1..W - 1 /\ FirstGap = list[1].value
      /\ FirstEnd = due[list[1].t]
  BY FirstIs
<1>4. list \in Seq(Entries) /\ due \in [Timers -> Int]
  BY <1>1 DEF Ordered
<1>5. Fires(Since) = 0
  BY <1>2, <1>3, <1>4, FiresAre
<1>6. /\ pending # -1 /\ writing = -1 /\ pending' = -1
      /\ list' = rest
      /\ due' = [t \in Timers |-> due[t]]
      /\ rest # <<>> => SetTimerIntr(Head(rest).value)
      /\ UNCHANGED <<scene, now, interval, base, current>>
  <2> HIDE DEF rest
  <2>1. /\ pending # -1 /\ writing = -1 /\ pending' = -1
        /\ UNCHANGED <<scene, now, interval, base, current>>
    BY DEF TimerInterrupt, clockVars
  <2>2. list' = rest /\ (rest # <<>> => SetTimerIntr(Head(rest).value))
    BY <1>5 DEF TimerInterrupt, Since, rest
  <2>3. due' = [t \in Timers |-> due[t]]
    <3>1. \A t : t \notin {list[i].t : i \in 1..0}
      OBVIOUS
    <3> QED
      BY <1>5, <3>1 DEF TimerInterrupt, Firing, Since
  <2> QED
    BY <2>1, <2>2, <2>3
<1>7. due' = due
  BY <1>4, <1>6
<1>8. /\ Ordered(rest, due) /\ rest # <<>>
      /\ rest[1].t = list[1].t /\ rest[1].value = FirstGap - Since
  <2> HIDE DEF rest
  <2>1. Since < list[1].value
    BY <1>3
  <2>2. LET m == <<[list[1] EXCEPT !.value = @ - Since]>> \o Tail(list) IN
        /\ Ordered(m, due) /\ m # <<>> /\ m[1].t = list[1].t
        /\ m[1].value = list[1].value - Since
    BY <1>1, <1>2, <2>1, HeadKeepsOrder
  <2> QED
    BY <1>3, <2>2 DEF rest
<1> HIDE DEF rest
<1>9. Head(rest) = rest[1] /\ list' = rest
  BY <1>6, <1>8 DEF Ordered
<1>10. OnThisRound
  <2>1. OnTheNext => FirstGap <= Since
    BY <1>6 DEF OnTheNext
  <2>2. OnThisRound \/ OnTheNext
    BY <1>1 DEF FirstArmed
  <2> QED
    BY <1>2, <1>3, <2>1, <2>2
<1>11. FirstArmed' /\ counter' \in 0..W - 1 /\ writing' \in -1..W - 1
  <2>1. FirstGap - Since \in 1..W - 1
    BY <1>2, <1>3
  <2>2. /\ SetTimerIntr(FirstGap - Since)
        /\ list' # <<>> /\ list'[1].value = FirstGap - Since
    BY <1>6, <1>8, <1>9
  <2>3. due'[list'[1].t] = now + (FirstGap - Since)
    <3>1. due'[list'[1].t] = FirstEnd
      BY <1>3, <1>7, <1>8, <1>9
    <3>2. FirstEnd = now - Since + FirstGap
      BY <1>10 DEF OnThisRound
    <3> QED
      BY <1>2, <1>3, <3>1, <3>2
  <2> QED
    BY <1>1, <1>6, <2>1, <2>2, <2>3, ArmsTheFirst
<1>12. TimeRanges'
  BY <1>1, <1>2, <1>6, <1>11 DEF TimeRanges
<1>13. Ordered(list, due)'
  BY <1>7, <1>8, <1>9 DEF Ordered
<1>14. InScene'
  <2>1. Used' = Used
    BY <1>6 DEF Used
  <2>2. ASSUME NEW i \in 1..Len(list')
        PROVE  list'[i].t \in Used
    <3>1. list'[i].t \in Timers /\ due'[list'[i].t] # -1
      BY <1>7, <1>8, <1>9, ListedRun
    <3> QED
      BY <1>7, <3>1, RunningAreUsed
  <2> QED
    BY <1>1, <1>6, <2>1, <2>2 DEF InScene
<1> QED
  BY <1>7, <1>11, <1>12, <1>13, <1>14 DEF TimerInv

\* What the interrupt does where the first n timers fire.
LEMMA SomeFire ==
  ASSUME TimerInv, TimerInterrupt, list # <<>>, Since >= FirstGap
  PROVE  TimerInv'
<1> DEFINE n == Fires(Since)
           s == Since - FirstGap
           left == SubSeq(list, n + 1, Len(list))
           f == PutOff(list, due, n, s)
<1>1. TimeRanges /\ Ordered(list, due) /\ InScene /\ FirstArmed
  BY DEF TimerInv
<1>2. /\ W \in Nat \ {0} /\ MaxLate \in Nat /\ Count \in 0..W - 1 /\ now \in Nat
      /\ Since \in 0..W - 1 /\ Since \in Nat /\ pending \in -1..MaxLate
      /\ interval \in [Timers -> Countdowns \cup {0}] /\ writing \in -1..W - 1
  BY <1>1, TimerNumbers DEF TimeRanges
<1>3. /\ FirstGap \in 1..W - 1 /\ FirstGap = list[1].value
      /\ FirstEnd = due[list[1].t] /\ FirstEnd \in Nat
      /\ list[1].t \in Used /\ list[1].t \in Timers
  BY FirstIs
<1>4. list \in Seq(Entries) /\ due \in [Timers -> Int] /\ Len(list) \in Nat
  BY <1>1 DEF Ordered
<1>5. /\ n \in 1..Len(list) /\ n \in Nat /\ n # 0 /\ \A j \in 2..n : list[j].value = 0
      /\ n < Len(list) => list[n + 1].value # 0
  <2>1. LET k == Fires(Since) IN
        IF list = <<>> \/ Since < list[1].value THEN k = 0
        ELSE /\ k \in 1..Len(list) /\ \A j \in 2..k : list[j].value = 0
             /\ k < Len(list) => list[k + 1].value # 0
    BY <1>2, <1>4, FiresAre
  <2>2. ~(list = <<>> \/ Since < list[1].value)
    BY <1>2, <1>3
  <2> QED
    BY <1>4, <2>1, <2>2
<1> HIDE DEF n
<1>6. /\ pending # -1 /\ writing = -1 /\ pending' = -1
      /\ list' = PutBack(n)
      /\ IF PutBack(n) = <<>> THEN counter' = 0 /\ compare' = 0 /\ writing' = writing
         ELSE SetTimerIntr(Head(PutBack(n)).value)
      /\ UNCHANGED <<scene, now, interval, base, current>>
  <2>1. /\ pending # -1 /\ writing = -1 /\ pending' = -1
        /\ UNCHANGED <<scene, now, interval, base, current>>
    BY DEF TimerInterrupt, clockVars
  <2>2. Elapsed(counter) = Since /\ Fires(Elapsed(counter)) = n
    BY DEF Since, n
  <2>3. list' = PutBack(n)
    BY <1>5, <2>2 DEF TimerInterrupt
  <2>4. IF PutBack(n) = <<>> THEN counter' = 0 /\ compare' = 0 /\ writing' = writing
        ELSE SetTimerIntr(Head(PutBack(n)).value)
    BY <1>5, <2>2 DEF TimerInterrupt
  <2> QED
    BY <2>1, <2>3, <2>4
<1>7. /\ due' \in [Timers -> Int]
      /\ \A t \in Timers :
           due'[t] = IF \E i \in 1..n : list[i].t = t
                     THEN IF interval[t] = 0 THEN -1 ELSE now + interval[t]
                     ELSE IF due[t] = -1 THEN -1 ELSE due[t] + s
  <2>1. Elapsed(counter) = Since /\ Fires(Elapsed(counter)) = n
    BY DEF Since, n
  <2>2. due' = [t \in Timers |->
          IF t \in {list[i].t : i \in 1..n} THEN IF interval[t] = 0 THEN -1 ELSE now + interval[t]
          ELSE IF n = 0 \/ due[t] = -1 THEN due[t] ELSE due[t] + (Since - list[1].value)]
    BY <2>1 DEF TimerInterrupt, Firing
  <2>3. \A t \in Timers : t \in {list[i].t : i \in 1..n} <=> \E i \in 1..n : list[i].t = t
    OBVIOUS
  <2>4. \A t \in Timers :
           due'[t] = IF \E i \in 1..n : list[i].t = t
                     THEN IF interval[t] = 0 THEN -1 ELSE now + interval[t]
                     ELSE IF due[t] = -1 THEN -1 ELSE due[t] + s
    BY <1>3, <1>5, <2>2, <2>3
  <2>5. \A t \in Timers : interval[t] \in Nat /\ due[t] \in Int
    <3>1. Countdowns \cup {0} \subseteq Nat
      BY TimerAssumption
    <3> QED
      BY <1>2, <1>4, <3>1
  <2>6. s \in Int
    BY <1>2, <1>3
  <2>7. \A t \in Timers : due'[t] \in Int
    <3>1. ASSUME NEW t \in Timers
          PROVE  due'[t] \in Int
      <4> HIDE DEF s
      <4>1. interval[t] \in Nat /\ due[t] \in Int
        BY <2>5
      <4>2. due'[t] \in {-1, now + interval[t], due[t] + s}
        BY <2>4
      <4> QED
        BY <1>2, <2>6, <4>1, <4>2
    <3> QED
      BY <3>1
  <2>8. due' = [t \in Timers |-> due'[t]]
    BY <2>2
  <2> QED
    BY <2>4, <2>7, <2>8
<1>8. FirstEnd <= now /\ (~SlowSet => FirstEnd + s = now) /\ s \in Nat
  BY <1>2, <1>3, <1>6, FiredHaveEnded
<1> HIDE DEF s
<1>9. \A t \in Timers : f[t] = IF due[t] = -1 \/ \E i \in 1..n : list[i].t = t
                               THEN -1 ELSE due[t] + s
  BY DEF PutOff
<1>10. f \in [Timers -> Int]
  <2>1. ASSUME NEW t \in Timers
        PROVE  f[t] \in Int
    <3>1. f[t] \in {-1, due[t] + s} /\ due[t] \in Int
      BY <1>4, <1>9
    <3> QED
      BY <1>8, <3>1
  <2>2. f = [t \in Timers |-> f[t]]
    BY DEF PutOff
  <2> QED
    BY <2>1, <2>2
<1> HIDE DEF f
<1>11. /\ Ordered(left, f) /\ Len(left) = Len(list) - n
       /\ left # <<>> => f[left[1].t] = FirstEnd + left[1].value + s
  <2> HIDE DEF left
  <2>1. LET m == SubSeq(list, n + 1, Len(list))
            g == PutOff(list, due, n, s) IN
        /\ Ordered(m, g) /\ Len(m) = Len(list) - n
        /\ m # <<>> => m[1] = list[n + 1] /\ g[m[1].t] = due[list[1].t] + m[1].value + s
    BY <1>1, <1>5, <1>8, DropKeepsOrder
  <2> QED
    BY <1>3, <2>1 DEF left, f
<1> HIDE DEF left
\* Where the count may pass the compare value there is one timer.
<1>12. FromNow(left, f)
  <2>1. SUFFICES ASSUME left # <<>>
                 PROVE  f[left[1].t] = now + left[1].value
    BY DEF FromNow
  <2>2. left \in Seq(Entries)
    BY <1>11 DEF Ordered
  <2>3. 1 \in 1..Len(left) /\ 2 \in 1..Len(list) /\ 1 \in 1..Len(list)
    <3>1. Len(left) \in Nat /\ Len(left) # 0
      BY <2>1, <2>2
    <3>2. Len(list) >= 2
      BY <1>4, <1>5, <1>11, <3>1
    <3> QED
      BY <1>4, <3>1, <3>2
  <2>4. left[1].value \in Nat
    <3>1. left[1] \in Entries
      BY <2>2, <2>3
    <3> QED
      BY <3>1 DEF Entries
  <2>5. scene = "list"
    <3>1. \A i, j \in 1..Len(list) : list[i].t = list[j].t => i = j
      BY <1>1 DEF Ordered
    <3>2. list[1].t # list[2].t
      BY <2>3, <3>1
    <3>3. list[1].t \in Used /\ list[2].t \in Used
      BY <1>1, <2>3 DEF InScene
    <3> QED
      BY <3>2, <3>3 DEF Used
  <2>6. FirstEnd + s = now
    BY <1>8, <2>5 DEF SlowSet
  <2>7. PICK x \in Nat : x = left[1].value
    BY <2>4
  <2>8. f[left[1].t] = FirstEnd + x + s
    BY <1>11, <2>1, <2>7
  <2>9. FirstEnd + x + s = now + x
    BY <1>2, <1>3, <1>8, <2>6
  <2> QED
    BY <2>7, <2>8, <2>9
<1>13. Ordered(list', due') /\ FromNow(list', due')
  <2>1. IntervalsFit
    <3>1. ASSUME NEW t \in Timers
          PROVE  interval[t] \in Nat /\ (interval[t] # 0 => interval[t] + MaxLate < W)
      <4>1. CASE interval[t] = 0
        BY <4>1
      <4>2. CASE interval[t] # 0
        <5>1. PICK c \in Countdowns : c = interval[t]
          BY <1>2, <4>2
        <5>2. c \in Nat /\ c + MaxLate < W
          BY TimerAssumption
        <5> QED
          BY <5>1, <5>2
      <4> QED
        BY <4>1, <4>2
    <3> QED
      BY <3>1 DEF IntervalsFit
  <2>2. ASSUME NEW i \in 1..n
        PROVE  i \in 1..Len(list) /\ list[i].t \in Timers /\ f[list[i].t] = -1
    <3>1. i \in 1..Len(list)
      BY <1>4, <1>5
    <3>2. list[i].t \in Timers
      BY <1>1, <3>1, ListedRun
    <3> QED
      BY <1>9, <3>1, <3>2
  <2>3. \A i, j \in 1..n : list[i].t = list[j].t => i = j
    <3>1. \A i, j \in 1..Len(list) : list[i].t = list[j].t => i = j
      BY <1>1 DEF Ordered
    <3> QED
      BY <2>2, <3>1
  <2>4. ASSUME NEW t \in Timers
        PROVE  due'[t] = IF ~Among(n, t) THEN f[t]
                         ELSE IF interval[t] = 0 THEN -1 ELSE now + interval[t]
    BY <1>7, <1>9 DEF Among
  <2>5. Fired(n, f, due')
    BY <1>5, <1>7, <2>2, <2>3, <2>4 DEF Fired
  <2>6. Ordered(SubSeq(list, n + 1, Len(list)), f) /\ FromNow(SubSeq(list, n + 1, Len(list)), f)
    BY <1>11, <1>12 DEF left
  <2>7. W \in Nat /\ MaxLate \in Nat /\ now \in Nat
    BY <1>2
  <2>8. Ordered(PutBack(n), due') /\ FromNow(PutBack(n), due')
    BY <2>1, <2>5, <2>6, <2>7, PutBackKeepsOrder
  <2> QED
    BY <1>6, <2>8
<1>14. FirstArmed' /\ counter' \in 0..W - 1 /\ writing' \in -1..W - 1
  <2>1. CASE list' = <<>>
    BY <1>2, <1>6, <2>1 DEF FirstArmed
  <2>2. CASE list' # <<>>
    <3>1. list' \in Seq(Entries)
      BY <1>13 DEF Ordered
    <3>2. 1 \in 1..Len(list') /\ Head(list') = list'[1]
      BY <2>2, <3>1
    <3>3. list'[1].value >= 1 /\ list'[1].value + MaxLate < W
      BY <1>13, <2>2, <3>2 DEF Ordered
    <3>4. list'[1].value \in Nat
      <4>1. list'[1] \in Entries
        BY <3>1, <3>2
      <4> QED
        BY <4>1 DEF Entries
    <3>5. list'[1].value \in 1..W - 1
      BY <1>2, <3>3, <3>4
    <3>6. SetTimerIntr(list'[1].value)
      BY <1>6, <2>2, <3>2
    <3>7. due'[list'[1].t] = now + list'[1].value
      BY <1>13, <2>2 DEF FromNow
    <3> QED
      BY <1>1, <1>6, <2>2, <3>5, <3>6, <3>7, ArmsTheFirst
  <2> QED
    BY <2>1, <2>2
<1>15. TimeRanges'
  BY <1>1, <1>2, <1>6, <1>14 DEF TimeRanges
<1>16. InScene'
  <2>1. Used' = Used
    BY <1>6 DEF Used
  <2>2. ASSUME NEW i \in 1..Len(list')
        PROVE  list'[i].t \in Used
    <3>1. list'[i].t \in Timers /\ due'[list'[i].t] # -1
      BY <1>13, ListedRun
    <3>2. CASE due[list'[i].t] # -1
      BY <3>1, <3>2, RunningAreUsed
    <3>3. CASE due[list'[i].t] = -1
      <4>1. PICK j \in 1..n : list[j].t = list'[i].t
        BY <1>7, <3>1, <3>3
      <4>2. j \in 1..Len(list)
        BY <1>4, <1>5
      <4> QED
        BY <1>1, <4>1, <4>2 DEF InScene
    <3> QED
      BY <3>2, <3>3
  <2> QED
    BY <2>1, <2>2 DEF InScene
<1>17. Ordered(list, due)'
  BY <1>13 DEF Ordered
<1> QED
  BY <1>14, <1>15, <1>16, <1>17 DEF TimerInv

\* The interrupt, where a timer runs and where none does.
LEMMA InterruptTimers ==
  ASSUME TimerInv, TimerInterrupt
  PROVE  TimerInv'
<1>1. CASE list = <<>>
  <2>1. TimeRanges /\ Ordered(list, due) /\ InScene
    BY DEF TimerInv
  <2>2. Fires(Elapsed(counter)) = 0
    BY <1>1 DEF Fires
  <2>3. /\ pending' = -1 /\ list' = PutBack(0)
        /\ UNCHANGED <<scene, now, interval, base, current, counter, writing>>
    BY <1>1, <2>2 DEF TimerInterrupt, clockVars
  <2>4. list' = <<>>
    <3>1. PutBack(0) = SubSeq(list, 0 + 1, Len(list))
      BY BackIs
    <3>2. Len(list) = 0 /\ SubSeq(list, 1, 0) = <<>>
      BY <1>1
    <3> QED
      BY <2>3, <3>1, <3>2
  <2>5. due' = due
    <3>1. due' = [t \in Timers |-> due[t]]
      <4>1. \A t : t \notin {list[i].t : i \in 1..0}
        OBVIOUS
      <4> QED
        BY <2>2, <4>1 DEF TimerInterrupt, Firing
    <3> QED
      BY <2>1, <3>1 DEF Ordered
  <2>6. TimeRanges'
    <3>1. pending' \in -1..MaxLate
      BY <2>3, TimerAssumption
    <3> QED
      BY <2>1, <2>3, <3>1 DEF TimeRanges
  <2>7. Ordered(list, due)'
    BY <1>1, <2>1, <2>4, <2>5 DEF Ordered
  <2>8. FirstArmed'
    BY <2>4 DEF FirstArmed
  <2>9. InScene'
    <3>1. \A i \in 1..Len(list') : FALSE
      BY <2>4
    <3> QED
      BY <2>1, <2>3, <3>1 DEF InScene
  <2>10. FirstArmed' /\ InScene' /\ Ordered(list, due)'
    BY <2>7, <2>8, <2>9
  <2> QED
    BY <2>5, <2>6, <2>10 DEF TimerInv
<1>2. CASE list # <<>> /\ Since < FirstGap
  BY <1>2, NoneFires
<1>3. CASE list # <<>> /\ Since >= FirstGap
  BY <1>3, SomeFire
<1>4. list # <<>> => Since < FirstGap \/ Since >= FirstGap
  <2>1. TimeRanges
    BY DEF TimerInv
  <2>2. Since \in 0..W - 1 /\ (list # <<>> => FirstGap \in 1..W - 1)
    BY <2>1, TimerNumbers, FirstIs
  <2> QED
    BY <2>2
<1> QED
  BY <1>1, <1>2, <1>3, <1>4

LEMMA InitTimers ==
  ASSUME TimerInit
  PROVE  TimerInv
<1>1. W \in Nat \ {0} /\ MaxLate \in Nat
  BY TimerAssumption
<1>2. /\ now = 0 /\ counter = 0 /\ writing = -1 /\ pending = -1 /\ list = <<>>
      /\ interval = [t \in Timers |-> 0] /\ due = [t \in Timers |-> -1]
      /\ base = 0 /\ current = 0 /\ scene \in {"single", "slow", "list"}
  BY DEF TimerInit
<1>3. TimeRanges
  BY <1>1, <1>2 DEF TimeRanges
<1>4. Ordered(list, due)
  BY <1>2 DEF Ordered
<1>5. InScene /\ FirstArmed
  BY <1>2 DEF InScene, FirstArmed
<1> QED
  BY <1>3, <1>4, <1>5 DEF TimerInv

\* Whatever is done, the list stays in order.
LEMMA NextTimers ==
  ASSUME TimerInv, [TimerNext]_timerVars
  PROVE  TimerInv'
<1>1. CASE Tick
  BY <1>1, TickTimers DEF Tick, listVars
<1>2. CASE Retrace \/ SetTime(0)
  BY <1>2, ClockTimers DEF Retrace, SetTime, listVars
<1>3. CASE TimerInterrupt
  BY <1>3, InterruptTimers
<1>4. CASE SetCompare
  BY <1>4, WriteTimers DEF SetCompare
<1>5. ASSUME NEW t \in Used, ContInit(t)
      PROVE  TimerInv'
  <2>1. TimeRanges
    BY DEF TimerInv
  <2>2. PICK c : c = Half - GetTime
    OBVIOUS
  <2>3. SetTimer(t, c, 0) /\ GetTime < Half
    BY <1>5, <2>2 DEF ContInit
  <2>4. GetTime \in Nat /\ Half \in Nat /\ MaxNow \in Nat /\ MaxLate \in Nat /\ W \in Nat
    BY <2>1, TimerNumbers DEF TimeRanges, GetTime
  <2>5. c \in Nat \ {0} /\ c <= Half /\ now + c <= MaxNow /\ now \in Nat
    BY <2>1, <2>2, <2>3, <2>4 DEF SetTimer, TimeRanges
  <2>6. c \in 1..MaxNow /\ c + MaxLate < W
    <3>1. Half + MaxLate < W
      BY TimerAssumption
    <3> QED
      BY <2>4, <2>5, <3>1
  <2>7. 0 \in Intervals
    BY DEF Intervals
  <2> QED
    BY <2>3, <2>6, <2>7, SetsTimers
<1>6. ASSUME NEW t \in Used, NEW c \in Countdowns, NEW again \in Intervals,
             SetTimer(t, c, again)
      PROVE  TimerInv'
  <2>1. c \in 1..MaxNow /\ c + MaxLate < W /\ MaxNow \in Nat
    BY TimerAssumption
  <2> QED
    BY <1>6, <2>1, SetsTimers
<1>7. CASE UNCHANGED timerVars
  <2>1. UNCHANGED <<scene, now, pending, counter, compare, writing, list, interval, due,
                    base, current>>
    BY <1>7 DEF timerVars, listVars, clockVars
  <2>2. /\ FirstEnd' = FirstEnd /\ FirstGap' = FirstGap /\ SlowSet' = SlowSet
        /\ Since' = Since
    BY <2>1 DEF FirstEnd, FirstGap, SlowSet, Since, Elapsed, Count
  <2>3. TimeRanges' /\ InScene' /\ Ordered(list, due)'
    BY <2>1 DEF TimerInv, TimeRanges, InScene, Used, Ordered
  <2>4. FirstArmed'
    BY <2>1, <2>2 DEF TimerInv, FirstArmed, OnThisRound, OnTheNext
  <2> QED
    BY <2>1, <2>3, <2>4 DEF TimerInv
<1> QED
  BY <1>1, <1>2, <1>3, <1>4, <1>5, <1>6, <1>7 DEF TimerNext

\* None is later than the VI manager, and a round of the count where it may pass
\* the compare register.
LEMMA NoneIsLate ==
  ASSUME TimerInv, NEW t \in Timers, due[t] # -1
  PROVE  now <= due[t] + MaxLate + (IF SlowSet THEN W ELSE 0)
<1>1. TimeRanges /\ Ordered(list, due)
  BY DEF TimerInv
<1>2. PICK i \in 1..Len(list) : list[i].t = t
  BY <1>1 DEF Ordered
<1>3. list # <<>> /\ 1 \in 1..Len(list) /\ 1 <= i
  BY <1>1, <1>2 DEF Ordered
<1>4. /\ FirstGap \in 1..W - 1 /\ FirstGap + MaxLate < W /\ FirstEnd \in Nat
      /\ FirstEnd = due[list[1].t]
  BY <1>3, FirstIs
<1>5. FirstEnd <= due[t] /\ due[t] \in Nat
  BY <1>1, <1>2, <1>3, <1>4 DEF Ordered
<1>6. /\ W \in Nat \ {0} /\ MaxLate \in Nat /\ Since \in 0..W - 1
      /\ now \in Nat /\ pending \in -1..MaxLate
  BY <1>1, TimerNumbers DEF TimeRanges
<1>7. now <= FirstEnd + MaxLate + (IF SlowSet THEN W ELSE 0)
  <2>1. CASE OnThisRound
    <3>1. /\ FirstEnd = now - Since + FirstGap
          /\ pending = -1 => Since < FirstGap \/ SlowSet
          /\ pending # -1 => Since - FirstGap <= pending
      BY <2>1 DEF OnThisRound
    <3> QED
      BY <1>4, <1>6, <3>1
  <2>2. CASE OnTheNext
    <3>1. /\ SlowSet /\ FirstEnd = now - Since - W + FirstGap
          /\ pending = -1 => Since < FirstGap
          /\ pending # -1 => FirstGap <= Since /\ Since - FirstGap <= pending
      BY <2>2 DEF OnTheNext
    <3> QED
      BY <1>4, <1>6, <3>1
  <2> QED
    BY <1>3, <2>1, <2>2 DEF TimerInv, FirstArmed
<1>8. PICK round \in Nat : round = IF SlowSet THEN W ELSE 0
  BY <1>6
<1>9. now <= FirstEnd + MaxLate + round
  BY <1>7, <1>8
<1>10. now <= due[t] + MaxLate + round
  BY <1>4, <1>5, <1>6, <1>9
<1> QED
  BY <1>8, <1>10

\* A timer fires no earlier than it is due: those that fire together are due at
\* the same time as the first.
LEMMA NoneIsEarly ==
  ASSUME TimerInv, TimerInterrupt, NEW t \in Firing
  PROVE  now >= due[t]
<1> DEFINE n == Fires(Since)
<1>1. TimeRanges /\ Ordered(list, due)
  BY DEF TimerInv
<1>2. /\ Since \in 0..W - 1 /\ W \in Nat /\ now \in Nat
      /\ list \in Seq(Entries) /\ Len(list) \in Nat
  BY <1>1, TimerNumbers DEF TimeRanges, Ordered
<1>3. PICK i \in 1..n : list[i].t = t
  BY DEF Firing, Since
<1>4. LET k == Fires(Since) IN
      IF list = <<>> \/ Since < list[1].value THEN k = 0
      ELSE /\ k \in 1..Len(list) /\ \A j \in 2..k : list[j].value = 0
           /\ k < Len(list) => list[k + 1].value # 0
  BY <1>2, FiresAre
<1> HIDE DEF n
<1>5. /\ list # <<>> /\ ~(Since < list[1].value)
      /\ n \in 1..Len(list) /\ \A j \in 2..n : list[j].value = 0
  <2>1. n # 0
    BY <1>3
  <2> QED
    BY <1>4, <2>1 DEF n
<1>6. /\ FirstGap \in 1..W - 1 /\ FirstGap = list[1].value
      /\ FirstEnd = due[list[1].t]
  BY <1>5, FirstIs
<1>7. Since >= FirstGap
  BY <1>2, <1>5, <1>6
<1>8. FirstEnd <= now
  <2>1. pending # -1 /\ writing = -1
    BY DEF TimerInterrupt
  <2> QED
    BY <1>5, <1>7, <2>1, FiredHaveEnded
<1>9. due[t] = FirstEnd
  BY <1>1, <1>3, <1>5, <1>6, EndTogether
<1>10. FirstEnd \in Nat
  BY <1>5, FirstIs
<1> QED
  BY <1>2, <1>8, <1>9, <1>10

\* A timer fires when it is due, never before, and no later than the VI manager
\* and the interrupts of the timers before it were, and a round of the count
\* where the compare register may be written too late (osSetTimer,
\* __osInsertTimer and __osTimerInterrupt).
THEOREM TimersFireOnTime == TimerSpec => OnTime
<1>1. TimerInit => TimerInv
  BY InitTimers
<1>2. TimerInv /\ [TimerNext]_timerVars => TimerInv'
  BY NextTimers
<1>3. TimerInv /\ [TimerNext]_timerVars =>
        \A t \in Timers : due[t] # -1 =>
          /\ TimerInterrupt /\ t \in Firing => now >= due[t]
          /\ now <= due[t] + MaxLate + (IF SlowSet THEN W ELSE 0)
  BY NoneIsEarly, NoneIsLate
<1> QED
  BY <1>1, <1>2, <1>3, PTL DEF TimerSpec, OnTime

-----------------------------------------------------------------------------
(* Where the threads are, and where their calls return to.                 *)

Asking    == {"reset", "clear", "rstop", "rwait"}              \* Controller_Reset
Receiving == {"recv", "pad", "motor", "minit", "mstop"}        \* Controller_UpdateInputs
AtMotor   == {"motor", "minit", "mstop", "rwait"}
Own(t) == IF t = "game" THEN {"frame", "inputs", "cleared", "mode", "poll", "polled"}
          ELSE IF t = "reset" THEN {"away", "done"}
          ELSE {"away", "loop", "lpoll", "pressed", "restart"}

AfterReset(t, b) ==
  /\ t # "disk" /\ b # <<>>
  /\ Head(b) \in IF t = "game" THEN {"inputs", "poll"} ELSE {"done"}
AfterInputs(t, b) ==
  /\ b # <<>>
  /\ \/ Head(b) = "clear" /\ AfterReset(t, Tail(b))
     \/ t = "game" /\ Head(b) = "cleared"
     \/ t = "disk" /\ Head(b) = "pressed"

WellPlaced(t, p, i, b) ==
  /\ p \in Places /\ i \in Int /\ b \in Seq(Places)
  /\ p \in Own(t) \cup Asking \cup Receiving
  /\ p \in Asking => AfterReset(t, b)
  /\ p \in Receiving => AfterInputs(t, b)
  /\ p = "pad" => i \in 0..NPorts
  /\ p \in AtMotor => i \in Ports
  /\ p = "rstop" => i \in 1..NPorts + 1

Counted == [Thread -> Int]
Stacks == [Thread -> Seq(Places)]
Everywhere == [Thread -> Places]
PlacesInv ==
  /\ at \in Everywhere /\ idx \in Counted /\ back \in Stacks
  /\ \A t \in Thread : WellPlaced(t, at[t], idx[t], back[t])

LEMMA Pushed ==
  ASSUME NEW b \in Seq(Places), NEW p \in Places
  PROVE  /\ <<p>> \o b \in Seq(Places) /\ <<p>> \o b # <<>>
         /\ Head(<<p>> \o b) = p /\ Tail(<<p>> \o b) = b
<1>1. <<p>> \in Seq(Places) /\ Len(<<p>>) = 1 /\ <<p>>[1] = p
  OBVIOUS
<1>2. /\ <<p>> \o b \in Seq(Places) /\ Len(<<p>> \o b) = 1 + Len(b)
      /\ \A i \in 1..1 + Len(b) : (<<p>> \o b)[i] = IF i <= 1 THEN p ELSE b[i - 1]
  BY <1>1, ConcatProperties
<1>3. Len(b) \in Nat
  OBVIOUS
<1>4. <<p>> \o b # <<>>
  BY <1>2, <1>3
<1>5. Head(<<p>> \o b) = p
  BY <1>2, <1>3, <1>4
<1>6. /\ Tail(<<p>> \o b) \in Seq(Places) /\ Len(Tail(<<p>> \o b)) = Len(b)
      /\ \A i \in 1..Len(b) : Tail(<<p>> \o b)[i] = (<<p>> \o b)[i + 1]
  BY <1>2, <1>3, <1>4, HeadTailProperties
<1>7. \A i \in 1..Len(b) : Tail(<<p>> \o b)[i] = b[i]
  BY <1>2, <1>3, <1>6
<1>8. Tail(<<p>> \o b) = b
  BY <1>6, <1>7
<1> QED
  BY <1>2, <1>4, <1>5, <1>8

LEMMA Popped ==
  ASSUME NEW b \in Seq(Places), b # <<>>
  PROVE  Head(b) \in Places /\ Tail(b) \in Seq(Places)
BY HeadTailProperties

\* A step moves one thread at most.
Move(t, p, i, b) ==
  /\ at' = [at EXCEPT ![t] = p] /\ idx' = [idx EXCEPT ![t] = i]
  /\ back' = [back EXCEPT ![t] = b]

LEMMA Moves ==
  ASSUME PlacesInv, NEW t \in Thread, NEW p, NEW i, NEW b,
         WellPlaced(t, p, i, b), Move(t, p, i, b)
  PROVE  PlacesInv'
<1>1. p \in Places /\ i \in Int /\ b \in Seq(Places)
  BY DEF WellPlaced
<1>2. at' \in Everywhere /\ idx' \in Counted /\ back' \in Stacks
  BY <1>1 DEF PlacesInv, Move, Everywhere, Counted, Stacks
<1>3. at'[t] = p /\ idx'[t] = i /\ back'[t] = b
  BY DEF PlacesInv, Move, Everywhere, Counted, Stacks
<1>4. ASSUME NEW u \in Thread, u # t
      PROVE  at'[u] = at[u] /\ idx'[u] = idx[u] /\ back'[u] = back[u]
  BY <1>4 DEF PlacesInv, Move, Everywhere, Counted, Stacks
<1>5. ASSUME NEW u \in Thread
      PROVE  WellPlaced(u, at'[u], idx'[u], back'[u])
  <2>1. CASE u = t
    BY <1>3, <2>1
  <2>2. CASE u # t
    BY <1>4, <2>2 DEF PlacesInv
  <2> QED
    BY <2>1, <2>2
<1>6. \A u \in Thread : WellPlaced(u, at[u], idx[u], back[u])'
  <2>1. ASSUME NEW u \in Thread
        PROVE  WellPlaced(u, at[u], idx[u], back[u])'
    BY <1>5 DEF WellPlaced
  <2> QED
    BY <2>1
<1> QED
  BY <1>2, <1>6 DEF PlacesInv

LEMMA Stays ==
  ASSUME PlacesInv, UNCHANGED place
  PROVE  PlacesInv'
BY DEF PlacesInv, place, WellPlaced

LEMMA MovesTo ==
  ASSUME PlacesInv, NEW t \in Thread, NEW p, WellPlaced(t, p, idx[t], back[t]),
         Goes(t, p), idx' = idx, back' = back
  PROVE  PlacesInv'
<1>1. Move(t, p, idx[t], back[t])
  BY DEF Move, Goes, PlacesInv, Counted, Stacks
<1> QED
  BY <1>1, Moves

LEMMA MovesCounting ==
  ASSUME PlacesInv, NEW t \in Thread, NEW p, NEW i, WellPlaced(t, p, i, back[t]),
         Goes(t, p), idx' = [idx EXCEPT ![t] = i], back' = back
  PROVE  PlacesInv'
<1>1. Move(t, p, i, back[t])
  BY DEF Move, Goes, PlacesInv, Counted, Stacks
<1> QED
  BY <1>1, Moves

LEMMA Counts ==
  ASSUME PlacesInv, NEW t \in Thread, NEW i, WellPlaced(t, at[t], i, back[t]),
         at' = at, idx' = [idx EXCEPT ![t] = i], back' = back
  PROVE  PlacesInv'
<1>1. Move(t, at[t], i, back[t])
  BY DEF Move, PlacesInv, Everywhere, Stacks
<1> QED
  BY <1>1, Moves

LEMMA EntersAt ==
  ASSUME PlacesInv, NEW t \in Thread, NEW p, NEW r \in Places,
         WellPlaced(t, p, idx[t], <<r>> \o back[t]), Enter(t, p, r), idx' = idx
  PROVE  PlacesInv'
<1>1. Move(t, p, idx[t], <<r>> \o back[t])
  BY DEF Move, Enter, Goes, PlacesInv, Counted, Stacks
<1> QED
  BY <1>1, Moves

LEMMA ReturnsTo ==
  ASSUME PlacesInv, NEW t \in Thread, Return(t), idx' = idx,
         WellPlaced(t, Head(back[t]), idx[t], Tail(back[t]))
  PROVE  PlacesInv'
<1>1. Move(t, Head(back[t]), idx[t], Tail(back[t]))
  BY DEF Move, Return, Goes, PlacesInv, Counted, Stacks
<1> QED
  BY <1>1, Moves

\* A call of Controller_Reset, or of Controller_UpdateInputs, from a place that
\* its end returns to.
LEMMA WellEntered ==
  ASSUME NEW t \in Thread, NEW b \in Seq(Places), NEW i \in Int, NEW r \in Places
  PROVE  /\ t = "game" /\ r \in {"inputs", "poll"} =>
              WellPlaced(t, "reset", i, <<r>> \o b)
         /\ t = "reset" /\ r = "done" => WellPlaced(t, "reset", i, <<r>> \o b)
         /\ t = "game" /\ r = "cleared" => WellPlaced(t, "recv", i, <<r>> \o b)
         /\ t = "disk" /\ r = "pressed" => WellPlaced(t, "recv", i, <<r>> \o b)
         /\ r = "clear" /\ AfterReset(t, b) => WellPlaced(t, "recv", i, <<r>> \o b)
<1>1. PICK d : d = <<r>> \o b
  OBVIOUS
<1>2. d \in Seq(Places) /\ d # <<>> /\ Head(d) = r /\ Tail(d) = b
  BY <1>1, Pushed
<1>3. "reset" \in Places /\ "recv" \in Places
  BY DEF Places
<1> QED
  BY <1>1, <1>2, <1>3
  DEF WellPlaced, Asking, Receiving, AtMotor, AfterReset, AfterInputs

LEMMA WhereItIs ==
  ASSUME PlacesInv, NEW t \in Thread
  PROVE  WellPlaced(t, at[t], idx[t], back[t])
BY DEF PlacesInv

USE SerialAssumption

LEMMA TheThreads ==
  /\ "game" \in Thread /\ \A t \in Thread : t \in {"game", "reset", "disk"}
  /\ \A t \in Others : t \in Thread /\ t # "game"
BY DEF Thread

LEMMA InputsPlaced ==
  ASSUME PlacesInv, NEW t \in Thread,
         ReceivePoll(t) \/ MotorResult(t) \/ MotorInit(t) \/ InitStopped(t)
  PROVE  PlacesInv'
<1> DEFINE c == idx[t]
<1>1. WellPlaced(t, at[t], c, back[t])
  BY WhereItIs
<1>2. ASSUME c \in Ports, at[t] \in Receiving
      PROVE  WellPlaced(t, "pad", c - 1, back[t]) /\ c - 1 \in Int
  BY <1>1, <1>2 DEF WellPlaced, Ports, Asking, Receiving, AtMotor, Places
<1>3. CASE ReceivePoll(t)
  <2>1. WellPlaced(t, "pad", NPorts, back[t])
    BY <1>1, <1>3 DEF ReceivePoll, WellPlaced, Asking, Receiving, AtMotor, Places
  <2> QED
    BY <1>3, <2>1, MovesCounting DEF ReceivePoll
<1>4. CASE MotorResult(t)
  <2>1. c \in Ports /\ at[t] \in Receiving
    BY <1>1, <1>4 DEF MotorResult, WellPlaced, AtMotor, Receiving
  <2>2. Goes(t, "pad") /\ idx' = [idx EXCEPT ![t] = c - 1] /\ back' = back
    BY <1>4 DEF MotorResult, NextPort
  <2> QED
    BY <1>2, <2>1, <2>2, MovesCounting
<1>5. CASE InitStopped(t)
  <2>1. c \in Ports /\ at[t] \in Receiving
    BY <1>1, <1>5 DEF InitStopped, WellPlaced, AtMotor, Receiving
  <2>2. Goes(t, "pad") /\ idx' = [idx EXCEPT ![t] = c - 1] /\ back' = back
    BY <1>5 DEF InitStopped, InitEnds, NextPort
  <2> QED
    BY <1>2, <2>1, <2>2, MovesCounting
<1>6. CASE MotorInit(t)
  <2>1. c \in Ports /\ at[t] \in Receiving
    BY <1>1, <1>6 DEF MotorInit, WellPlaced, AtMotor, Receiving
  <2>2. CASE NextInit(done[t]) = "fails"
    <3>1. Goes(t, "pad") /\ idx' = [idx EXCEPT ![t] = c - 1] /\ back' = back
      BY <1>6, <2>2 DEF MotorInit, InitEnds, NextPort
    <3> QED
      BY <1>2, <2>1, <3>1, MovesCounting
  <2>3. CASE NextInit(done[t]) # "fails"
    <3>1. PICK p \in {"mstop", "minit"} : Goes(t, p)
      BY <1>6, <2>3 DEF MotorInit
    <3>2. WellPlaced(t, p, c, back[t])
      BY <1>1, <2>1, <3>1 DEF WellPlaced, Asking, Receiving, AtMotor, Places
    <3>3. idx' = idx /\ back' = back
      BY <1>6, <2>3 DEF MotorInit
    <3> QED
      BY <3>1, <3>2, <3>3, MovesTo
  <2> QED
    BY <2>2, <2>3
<1> QED
  BY <1>3, <1>4, <1>5, <1>6

LEMMA BackFromInputs ==
  ASSUME NEW t \in Thread, NEW i, NEW b, WellPlaced(t, "pad", i, b)
  PROVE  WellPlaced(t, Head(b), i, Tail(b))
<1>1. b \in Seq(Places) /\ AfterInputs(t, b)
  BY DEF WellPlaced, Receiving
<1>2. Head(b) \in Places /\ Tail(b) \in Seq(Places)
  BY <1>1, Popped DEF AfterInputs
<1>3. Head(b) \in {"clear"} \cup Own(t)
  BY <1>1 DEF AfterInputs, Own
<1>4. Head(b) \notin Receiving \cup AtMotor \cup {"rstop"}
  BY <1>1 DEF AfterInputs, Receiving, AtMotor
<1>5. Head(b) \in Asking => AfterReset(t, Tail(b))
  BY <1>1 DEF AfterInputs, Asking
<1> QED
  BY <1>1, <1>2, <1>3, <1>4, <1>5 DEF WellPlaced, Asking, Receiving

LEMMA LookPlaced ==
  ASSUME PlacesInv, NEW t \in Thread, LookAtPort(t)
  PROVE  PlacesInv'
<1> DEFINE c == idx[t]
<1>1. WellPlaced(t, "pad", c, back[t]) /\ at[t] = "pad"
  BY WhereItIs DEF LookAtPort
<1>2. c \in 0..NPorts /\ back[t] \in Seq(Places) /\ "pad" \in Own(t) \cup Asking \cup Receiving
      /\ AfterInputs(t, back[t])
  BY <1>1 DEF WellPlaced, Receiving
<1>3. CASE c = 0 /\ Return(t) /\ UNCHANGED idx
  BY <1>1, <1>3, BackFromInputs, ReturnsTo
<1>4. CASE c > 0 /\ NextPort(t) /\ UNCHANGED <<at, back>>
  <2>1. WellPlaced(t, "pad", c - 1, back[t])
    BY <1>1, <1>2, <1>4 DEF WellPlaced, AtMotor, Asking
  <2> QED
    BY <1>1, <1>4, <2>1, Counts DEF NextPort
<1>5. ASSUME c > 0, NEW p \in {"minit", "motor"}, Goes(t, p), UNCHANGED <<idx, back>>
      PROVE  PlacesInv'
  <2>1. WellPlaced(t, p, c, back[t])
    BY <1>1, <1>2, <1>5 DEF WellPlaced, AtMotor, Asking, Receiving, Places, Ports
  <2> QED
    BY <1>5, <2>1, MovesTo
<1>6. \/ c = 0 /\ Return(t) /\ UNCHANGED idx
      \/ c > 0 /\ NextPort(t) /\ UNCHANGED <<at, back>>
      \/ c > 0 /\ Goes(t, "minit") /\ UNCHANGED <<idx, back>>
      \/ c > 0 /\ Goes(t, "motor") /\ UNCHANGED <<idx, back>>
  BY DEF LookAtPort, Rumble
<1> QED
  BY <1>3, <1>4, <1>5, <1>6

LEMMA BackFromReset ==
  ASSUME NEW t \in Thread, NEW i, NEW b, WellPlaced(t, "rstop", i, b)
  PROVE  WellPlaced(t, Head(b), i, Tail(b))
<1>1. b \in Seq(Places) /\ AfterReset(t, b)
  BY DEF WellPlaced, Asking
<1>2. Head(b) \in Places /\ Tail(b) \in Seq(Places)
  BY <1>1, Popped DEF AfterReset
<1>3. t = "game" \/ t = "reset"
  BY <1>1, TheThreads DEF AfterReset
<1>4. Head(b) \in Own(t)
  BY <1>1, <1>3 DEF AfterReset, Own
<1>5. Head(b) \notin Receiving \cup AtMotor \cup Asking \cup {"pad", "rstop"}
  BY <1>1 DEF AfterReset, Receiving, AtMotor, Asking
<1> QED
  BY <1>2, <1>4, <1>5 DEF WellPlaced, Asking, Receiving

LEMMA ResetPlaced ==
  ASSUME PlacesInv, NEW t \in Thread, ResetBegins(t) \/ ResetClears(t) \/ ResetStops(t)
  PROVE  PlacesInv'
<1> DEFINE c == idx[t]
<1>1. WellPlaced(t, at[t], c, back[t])
  BY WhereItIs
<1>2. ASSUME NEW i \in 1..NPorts + 1, at[t] \in Asking
      PROVE  WellPlaced(t, "rstop", i, back[t])
  BY <1>1, <1>2 DEF WellPlaced, Asking, Receiving, AtMotor, Places
<1>3. CASE ResetBegins(t)
  <2>1. at[t] \in Asking /\ AfterReset(t, back[t]) /\ back[t] \in Seq(Places) /\ c \in Int
        /\ "clear" \in Places
    BY <1>1, <1>3 DEF ResetBegins, Asking, WellPlaced, Places
  <2>2. CASE flag
    <3>1. WellPlaced(t, "recv", c, <<"clear">> \o back[t])
      BY <2>1, WellEntered
    <3> QED
      BY <1>3, <2>1, <2>2, <3>1, EntersAt DEF ResetBegins
  <2>3. CASE ~flag
    <3>1. WellPlaced(t, "rstop", 1, back[t])
      BY <1>2, <2>1
    <3> QED
      BY <1>3, <2>3, <3>1, MovesCounting DEF ResetBegins, SetAt
  <2> QED
    BY <2>2, <2>3
<1>4. CASE ResetClears(t)
  <2>1. WellPlaced(t, "rstop", 1, back[t])
    BY <1>2, <1>4 DEF ResetClears, Asking
  <2> QED
    BY <1>4, <2>1, MovesCounting DEF ResetClears, SetAt
<1>5. CASE ResetStops(t)
  <2>1. at[t] \in {"rstop", "rwait"} /\ at[t] \in Asking
    BY <1>5 DEF ResetStops, Asking
  <2>2. CASE at[t] = "rstop" /\ Return(t) /\ UNCHANGED idx
    BY <1>1, <2>2, BackFromReset, ReturnsTo
  <2>3. CASE at[t] = "rstop" /\ ~AfterLast(c) /\ Goes(t, "rwait") /\ UNCHANGED <<idx, back>>
    <3>1. WellPlaced(t, "rwait", c, back[t])
      BY <1>1, <2>3 DEF WellPlaced, Asking, Receiving, AtMotor, Places, AfterLast, Ports
    <3> QED
      BY <2>3, <3>1, MovesTo
  <2>4. CASE /\ at[t] = "rstop" /\ ~AfterLast(c)
             /\ idx' = SetAt(idx, t, c + 1) /\ UNCHANGED <<at, back>>
    <3>1. WellPlaced(t, "rstop", c + 1, back[t])
      BY <1>1, <1>2, <2>1, <2>4 DEF WellPlaced, AfterLast
    <3> QED
      BY <2>4, <3>1, Counts DEF SetAt
  <2>5. CASE /\ at[t] = "rwait" /\ Goes(t, "rstop")
             /\ idx' = SetAt(idx, t, c + 1) /\ UNCHANGED back
    <3>1. WellPlaced(t, "rstop", c + 1, back[t])
      BY <1>1, <1>2, <2>1, <2>5 DEF WellPlaced, AtMotor, Ports
    <3> QED
      BY <2>5, <3>1, MovesCounting DEF SetAt
  <2> QED
    BY <1>5, <2>2, <2>3, <2>4, <2>5 DEF ResetStops
<1> QED
  BY <1>3, <1>4, <1>5

\* A thread that is inside no call goes to such a place of its own.
LEMMA GoesHome ==
  ASSUME NEW t \in Thread, NEW p \in Own(t), NEW i, NEW b, NEW q, WellPlaced(t, q, i, b)
  PROVE  WellPlaced(t, p, i, b)
BY DEF WellPlaced, Own, Asking, Receiving, AtMotor, Places

LEMMA GamePlaced ==
  ASSUME PlacesInv, GameStep
  PROVE  PlacesInv'
<1> DEFINE t == "game"
<1>1. t \in Thread /\ WellPlaced(t, at[t], idx[t], back[t])
  BY WhereItIs, TheThreads
<1>2. idx[t] \in Int /\ back[t] \in Seq(Places)
  BY <1>1 DEF WellPlaced
<1>3. ASSUME NEW p \in Own(t), Goes(t, p), UNCHANGED <<idx, back>>
      PROVE  PlacesInv'
  BY <1>1, <1>3, GoesHome, MovesTo
<1>4. ASSUME NEW r \in {"inputs", "poll"}, Enter(t, "reset", r), UNCHANGED idx
      PROVE  PlacesInv'
  <2>1. r \in Places
    BY <1>4 DEF Places
  <2> QED
    BY <1>1, <1>2, <1>4, <2>1, WellEntered, EntersAt
<1>5. CASE Enter(t, "recv", "cleared") /\ UNCHANGED idx
  <2>1. "cleared" \in Places
    BY DEF Places
  <2> QED
    BY <1>1, <1>2, <1>5, <2>1, WellEntered, EntersAt
<1>6. \/ \E p \in Own(t) : Goes(t, p) /\ UNCHANGED <<idx, back>>
      \/ \E r \in {"inputs", "poll"} : Enter(t, "reset", r) /\ UNCHANGED idx
      \/ Enter(t, "recv", "cleared") /\ UNCHANGED idx
  BY DEF GameStep, BeginFrame, Inputs, Cleared, Mode, StartPoll, Polled, GoesOrResets, Own
<1> QED
  BY <1>3, <1>4, <1>5, <1>6

\* The thread that this behaviour is about exists, and stays the same.
Exists == comes \in Others \cup {"nobody"}

LEMMA OthersPlaced ==
  ASSUME PlacesInv, Exists, ResetButton \/ Disk
  PROVE  PlacesInv'
<1>1. CASE ResetButton
  <2>1. "reset" \in Thread
    BY <1>1, TheThreads DEF Exists, ResetButton
  <2>2. idx["reset"] \in Int /\ back["reset"] \in Seq(Places) /\ "done" \in Places
    BY <2>1, WhereItIs DEF WellPlaced, Places
  <2>3. Enter("reset", "reset", "done") /\ UNCHANGED idx
    BY <1>1 DEF ResetButton
  <2> QED
    BY <2>1, <2>2, <2>3, WellEntered, EntersAt
<1>2. CASE Disk
  <2>1. "disk" \in Thread
    BY <1>2, TheThreads
    DEF Exists, Disk, ShowMessage, MessageLoop, ButtonPressed, MessageEnds
  <2>2. /\ WellPlaced("disk", at["disk"], idx["disk"], back["disk"])
        /\ idx["disk"] \in Int /\ back["disk"] \in Seq(Places) /\ "pressed" \in Places
    BY <2>1, WhereItIs DEF WellPlaced, Places
  <2>3. CASE \E p \in Own("disk") : Goes("disk", p) /\ UNCHANGED <<idx, back>>
    BY <2>1, <2>2, <2>3, GoesHome, MovesTo
  <2>4. CASE Enter("disk", "recv", "pressed") /\ UNCHANGED idx
    BY <2>1, <2>2, <2>4, WellEntered, EntersAt
  <2>5. ASSUME NEW p \in Own("disk"), Goes("disk", p), UNCHANGED <<idx, back>>
        PROVE  PlacesInv'
    BY <2>3, <2>5
  <2>6. {"loop", "lpoll", "restart", "away"} \subseteq Own("disk")
    BY DEF Own
  <2> QED
    BY <1>2, <2>4, <2>5, <2>6
    DEF Disk, ShowMessage, MessageLoop, ButtonPressed, MessageEnds
<1> QED
  BY <1>1, <1>2

LEMMA PlacesInit ==
  ASSUME SerialInit
  PROVE  PlacesInv /\ Exists
<1>1. at \in Everywhere /\ idx \in Counted /\ back \in Stacks
  BY DEF SerialInit, Everywhere, Counted, Stacks, Places
<1>2. ASSUME NEW t \in Thread
      PROVE  WellPlaced(t, at[t], idx[t], back[t])
  <2>1. at[t] = (IF t = "game" THEN "frame" ELSE "away") /\ idx[t] = 0 /\ back[t] = <<>>
    BY DEF SerialInit
  <2> QED
    BY <2>1 DEF WellPlaced, Places, Own, Asking, Receiving, AtMotor
<1> QED
  BY <1>1, <1>2 DEF PlacesInv, SerialInit, Exists

LEMMA PlacesNext ==
  ASSUME PlacesInv, Exists, [SerialNext]_serialVars
  PROVE  PlacesInv' /\ Exists'
<1>1. CASE SiInterrupt \/ (\E c \in Ports, d \in Devices : Replug(c, d))
           \/ (\E t \in Thread : BusStep(t)) \/ UNCHANGED serialVars
  <2>1. UNCHANGED place
    BY <1>1 DEF SiInterrupt, Replug, BusStep, GetAccess, Write, Written, Read, ReadWait,
       StatusStep, StatusWait, serialVars
  <2> QED
    BY <1>1, <2>1, Stays
    DEF SiInterrupt, Replug, BusStep, GetAccess, Write, Written, Read, ReadWait,
        StatusStep, StatusWait, serialVars, world, Exists
<1>2. ASSUME NEW t \in Thread, ControllerStep(t)
      PROVE  PlacesInv' /\ Exists'
  <2>1. PlacesInv'
    BY <1>2, InputsPlaced, LookPlaced, ResetPlaced DEF ControllerStep
  <2>2. UNCHANGED comes
    BY <1>2 DEF ControllerStep, ReceivePoll, LookAtPort, MotorResult, MotorInit, InitStopped,
       ResetBegins, ResetClears, ResetStops, world
  <2> QED
    BY <2>1, <2>2 DEF Exists
<1>3. CASE GameStep
  <2>1. UNCHANGED comes
    BY <1>3 DEF GameStep, BeginFrame, Inputs, Cleared, Mode, StartPoll, Polled, world
  <2> QED
    BY <1>3, <2>1, GamePlaced DEF Exists
<1>4. CASE ResetButton \/ Disk
  <2>1. UNCHANGED comes
    BY <1>4 DEF ResetButton, Disk, ShowMessage, MessageLoop, ButtonPressed, MessageEnds, world
  <2> QED
    BY <1>4, <2>1, OthersPlaced DEF Exists
<1> QED
  BY <1>1, <1>2, <1>3, <1>4 DEF SerialNext, Steps

-----------------------------------------------------------------------------
(* The players and their controllers.                                      *)

PlayersOf(p) == {j \in Ports : p[j] # Disconnected}
PadsUsed == [Ports -> Ports \cup {Disconnected}]
Errors == [Ports -> BOOLEAN]

Matched(e, p, n) ==
  /\ e \in Errors /\ p \in PadsUsed
  /\ \A j, k \in PlayersOf(p) : p[j] = p[k] => j = k
  /\ \A j \in PlayersOf(p) : ~e[p[j]]
  /\ \A c \in Ports : ~e[c] => \E j \in PlayersOf(p) : p[j] = c
  /\ n = Cardinality(PlayersOf(p))
PlayersInv == Matched(err, portOf, connected)

LEMMA PlayersAreMatched ==
  ASSUME PlayersInv
  PROVE  PlayersHaveControllers
<1>1. /\ err \in Errors /\ portOf \in PadsUsed
      /\ \A j, k \in PlayersOf(portOf) : portOf[j] = portOf[k] => j = k
      /\ \A j \in PlayersOf(portOf) : ~err[portOf[j]]
      /\ \A c \in Ports : ~err[c] => \E j \in PlayersOf(portOf) : portOf[j] = c
      /\ connected = Cardinality(PlayersOf(portOf))
  BY DEF PlayersInv, Matched
<1>2. \A j \in PlayersOf(portOf) : portOf[j] \in Ports
  BY <1>1 DEF PadsUsed, PlayersOf
<1>3. {portOf[j] : j \in PlayersOf(portOf)} = {c \in Ports : ~err[c]}
  BY <1>1, <1>2
<1> QED
  BY <1>1, <1>3 DEF PlayersHaveControllers, PlayersOf

LEMMA PortsFinite ==
  ASSUME NEW S \in SUBSET Ports
  PROVE  IsFiniteSet(S) /\ Cardinality(S) \in 0..NPorts
<1>1. IsFiniteSet(Ports) /\ Cardinality(Ports) = NPorts
  BY FS_Interval DEF Ports
<1>2. IsFiniteSet(S) /\ Cardinality(S) <= Cardinality(Ports)
  BY <1>1, FS_Subset
<1> QED
  BY <1>1, <1>2, FS_CardinalityType

LEMMA MatchedStillAfterLoss ==
  ASSUME NEW e, NEW p, NEW n, Matched(e, p, n), NEW c \in Ports, ~e[c], NEW f, NEW q,
         f \in Errors, \A d \in Ports : f[d] = (e[d] \/ d = c),
         q \in PadsUsed,
         \A j \in Ports : q[j] = IF p[j] = c /\ \A k \in Ports : k > j => p[k] # c
                                 THEN Disconnected ELSE p[j]
  PROVE  Matched(f, q, n - 1)
<1>1. /\ e \in Errors /\ p \in PadsUsed
      /\ \A j, k \in PlayersOf(p) : p[j] = p[k] => j = k
      /\ \A j \in PlayersOf(p) : ~e[p[j]]
      /\ \A d \in Ports : ~e[d] => \E j \in PlayersOf(p) : p[j] = d
      /\ n = Cardinality(PlayersOf(p))
  BY DEF Matched
<1>2. PICK o \in PlayersOf(p) : p[o] = c
  BY <1>1
<1>3. c # Disconnected /\ o \in Ports
  BY <1>2 DEF Ports, Disconnected, PlayersOf
<1>4. \A k \in Ports : p[k] = c => k = o
  BY <1>1, <1>2, <1>3 DEF PlayersOf
<1>5. \A k \in Ports : k > o => p[k] # c
  BY <1>3, <1>4 DEF Ports
<1>6. q[o] = Disconnected /\ \A j \in Ports : j # o => q[j] = p[j]
  BY <1>2, <1>3, <1>4, <1>5
<1>7. PlayersOf(q) = PlayersOf(p) \ {o}
  BY <1>6 DEF PlayersOf
<1>8. PlayersOf(p) \in SUBSET Ports
  BY DEF PlayersOf
<1>9. IsFiniteSet(PlayersOf(p))
  BY <1>8, PortsFinite
<1>10. Cardinality(PlayersOf(q)) = Cardinality(PlayersOf(p)) - 1
  <2>1. PICK P : P = PlayersOf(p)
    OBVIOUS
  <2>2. IsFiniteSet(P) /\ o \in P
    BY <1>2, <1>9, <2>1
  <2>3. Cardinality(P \ {o}) = Cardinality(P) - 1
    BY <2>2, FS_RemoveElement
  <2> QED
    BY <1>7, <2>1, <2>3
<1>11. \A j, k \in PlayersOf(q) : q[j] = q[k] => j = k
  BY <1>1, <1>6, <1>7, <1>8
<1>12. \A j \in PlayersOf(q) : ~f[q[j]]
  <2>1. ASSUME NEW j \in PlayersOf(q)
        PROVE  ~f[q[j]]
    <3>1. j \in PlayersOf(p) /\ j # o /\ j \in Ports /\ q[j] = p[j]
      BY <1>6, <1>7, <1>8
    <3>2. p[j] \in Ports /\ p[j] # c /\ ~e[p[j]]
      BY <1>1, <1>2, <3>1 DEF PadsUsed, PlayersOf
    <3> QED
      BY <3>1, <3>2
  <2> QED
    BY <2>1
<1>13. \A d \in Ports : ~f[d] => \E j \in PlayersOf(q) : q[j] = d
  <2>1. ASSUME NEW d \in Ports, ~f[d]
        PROVE  \E j \in PlayersOf(q) : q[j] = d
    <3>1. ~e[d] /\ d # c
      BY <2>1
    <3>2. PICK j \in PlayersOf(p) : p[j] = d
      BY <1>1, <3>1
    <3>3. j # o /\ j \in Ports
      BY <1>2, <1>8, <3>1, <3>2
    <3> QED
      BY <1>6, <1>7, <3>2, <3>3
  <2> QED
    BY <2>1
<1> QED
  BY <1>1, <1>10, <1>11, <1>12, <1>13 DEF Matched

LEMMA LossMatched ==
  ASSUME PlayersInv, NEW c \in Ports, ~err[c], PortLost(c)
  PROVE  PlayersInv'
<1>1. err \in Errors /\ portOf \in PadsUsed
  BY DEF PlayersInv, Matched
<1>2. err' \in Errors /\ \A d \in Ports : err'[d] = (err[d] \/ d = c)
  <2>1. err' = [err EXCEPT ![c] = TRUE]
    BY DEF PortLost, SetAt
  <2> QED
    BY <1>1, <2>1 DEF Errors
<1>3. /\ portOf' \in PadsUsed
      /\ \A j \in Ports :
           portOf'[j] = IF portOf[j] = c /\ \A k \in Ports : k > j => portOf[k] # c
                        THEN Disconnected ELSE portOf[j]
  BY <1>1 DEF PortLost, PadsUsed
<1>4. connected' = connected - 1
  BY DEF PortLost
<1>5. Matched(err, portOf, connected)
  BY DEF PlayersInv
<1>6. Matched(err', portOf', connected - 1)
  BY <1>2, <1>3, <1>5, MatchedStillAfterLoss
<1> QED
  BY <1>4, <1>6 DEF PlayersInv, Matched, PlayersOf

LEMMA PlayersNext ==
  ASSUME PlacesInv, PlayersInv, [SerialNext]_serialVars
  PROVE  PlayersInv'
<1>1. CASE UNCHANGED <<err, connected, portOf>>
  BY <1>1 DEF PlayersInv, Matched, PlayersOf
<1>2. ASSUME NEW t \in Thread, LookAtPort(t)
      PROVE  PlayersInv'
  <2>1. idx[t] \in 0..NPorts
    BY <1>2, WhereItIs DEF LookAtPort, WellPlaced
  <2>2. CASE idx[t] > 0 /\ ~err[idx[t]] /\ PortLost(idx[t])
    <3>1. idx[t] \in Ports
      BY <2>1, <2>2 DEF Ports
    <3> QED
      BY <2>2, <3>1, LossMatched
  <2>3. CASE UNCHANGED <<err, connected, portOf>>
    BY <1>1, <2>3
  <2> QED
    BY <1>2, <2>2, <2>3 DEF LookAtPort, pads
<1>3. ASSUME NEW t \in Thread, BusStep(t) \/ (ControllerStep(t) /\ ~LookAtPort(t))
      PROVE  UNCHANGED <<err, connected, portOf>>
  BY <1>3 DEF BusStep, GetAccess, Write, Written, Read, ReadWait, StatusStep, StatusWait,
     ControllerStep, ReceivePoll, MotorResult, MotorInit, InitStopped, ResetBegins,
     ResetClears, ResetStops, pads
<1>4. CASE SiInterrupt \/ GameStep \/ ResetButton \/ Disk
           \/ (\E c \in Ports, d \in Devices : Replug(c, d)) \/ UNCHANGED serialVars
  BY <1>1, <1>4 DEF SiInterrupt, GameStep, BeginFrame, Inputs, Cleared, Mode, StartPoll,
     Polled, ResetButton, Disk, ShowMessage, MessageLoop, ButtonPressed, MessageEnds, Replug,
     pads, serialVars
<1> QED
  BY <1>1, <1>2, <1>3, <1>4 DEF SerialNext, Steps

\* Controller_Init numbers the ports that have a controller in their order.
Upto(S, c) == {b \in S : b <= c}
RankIn(S) == [c \in S |-> Cardinality(Upto(S, c))]

LEMMA RanksAreThePlayers ==
  ASSUME NEW S \in SUBSET Ports
  PROVE  /\ \A c \in S : RankIn(S)[c] \in 1..Cardinality(S)
         /\ \A c, d \in S : RankIn(S)[c] = RankIn(S)[d] => c = d
         /\ \A j \in 1..Cardinality(S) : \E c \in S : RankIn(S)[c] = j
<1>1. IsFiniteSet(S) /\ Cardinality(S) \in Nat
  BY PortsFinite
<1>2. ASSUME NEW c \in S
      PROVE  /\ Upto(S, c) \in SUBSET S /\ IsFiniteSet(Upto(S, c))
             /\ Cardinality(Upto(S, c)) \in 1..Cardinality(S)
  <2>1. Upto(S, c) \in SUBSET S /\ c \in Upto(S, c)
    BY DEF Upto, Ports
  <2>2. IsFiniteSet(Upto(S, c)) /\ Cardinality(Upto(S, c)) <= Cardinality(S)
    BY <1>1, <2>1, FS_Subset
  <2>3. Cardinality(Upto(S, c)) \in Nat /\ Cardinality(Upto(S, c)) # 0
    BY <2>1, <2>2, FS_CardinalityType, FS_EmptySet
  <2> QED
    BY <1>1, <2>1, <2>2, <2>3
<1>3. ASSUME NEW c \in S, NEW d \in S, c < d
      PROVE  Cardinality(Upto(S, c)) # Cardinality(Upto(S, d))
  <2>1. c \in Int /\ d \in Int /\ S \subseteq Int
    BY DEF Ports
  <2>2. Upto(S, c) \in SUBSET Upto(S, d) /\ d \in Upto(S, d) /\ d \notin Upto(S, c)
    <3>1. \A b \in S : b <= c => b <= d
      BY <1>3, <2>1
    <3>2. d <= d /\ ~(d <= c)
      BY <1>3, <2>1
    <3> QED
      BY <3>1, <3>2 DEF Upto
  <2>3. IsFiniteSet(Upto(S, d))
    BY <1>2
  <2> QED
    BY <2>2, <2>3, FS_Subset
<1>4. \A c \in S : RankIn(S)[c] = Cardinality(Upto(S, c))
  BY DEF RankIn
<1>5. \A c, d \in S : RankIn(S)[c] = RankIn(S)[d] => c = d
  <2>1. ASSUME NEW c \in S, NEW d \in S, c # d
        PROVE  Cardinality(Upto(S, c)) # Cardinality(Upto(S, d))
    <3>1. c < d \/ d < c
      BY <2>1 DEF Ports
    <3> QED
      BY <1>3, <3>1
  <2> QED
    BY <1>4, <2>1
<1>6. \A c \in S : RankIn(S)[c] \in 1..Cardinality(S)
  BY <1>2, <1>4
<1>7. IsFiniteSet(1..Cardinality(S)) /\ Cardinality(1..Cardinality(S)) = Cardinality(S)
  BY <1>1, FS_Interval
<1>8. RankIn(S) \in Injection(S, 1..Cardinality(S))
  <2>1. RankIn(S) \in [S -> 1..Cardinality(S)]
    BY <1>2 DEF RankIn
  <2> QED
    BY <1>5, <2>1, Fun_IsInj
<1>9. RankIn(S) \in Surjection(S, 1..Cardinality(S))
  BY <1>7, <1>8, FS_Injection
<1> QED
  BY <1>5, <1>6, <1>9 DEF Surjection

LEMMA PlayersInit ==
  ASSUME SerialInit
  PROVE  PlayersInv
<1> DEFINE P == Plugged(dev)
           n == Cardinality(P)
<1>1. P \in SUBSET Ports
  BY DEF Plugged
<1>2. n \in 0..NPorts
  BY <1>1, PortsFinite
<1>3. connected = n /\ err \in Errors /\ \A c \in Ports : ~err[c] <=> c \in P
  BY DEF SerialInit, Errors, Plugged
<1>4. /\ \A c \in P : RankIn(P)[c] \in 1..n
      /\ \A c, d \in P : RankIn(P)[c] = RankIn(P)[d] => c = d
      /\ \A j \in 1..n : \E c \in P : RankIn(P)[c] = j
  BY <1>1, RanksAreThePlayers
<1>5. portOf = [j \in Ports |-> IF j > connected THEN Disconnected
                ELSE CHOOSE c \in P : Cardinality({b \in P : b <= c}) = j]
  BY DEF SerialInit
<1>6. ASSUME NEW j \in Ports, j > n
      PROVE  portOf[j] = Disconnected
  BY <1>3, <1>5, <1>6
<1>7. ASSUME NEW j \in 1..n
      PROVE  j \in Ports /\ portOf[j] \in P /\ RankIn(P)[portOf[j]] = j
  <2>1. j \in Ports /\ ~(j > n)
    BY <1>2 DEF Ports
  <2>2. \A c \in P : RankIn(P)[c] = Cardinality({b \in P : b <= c})
    BY DEF RankIn, Upto
  <2>3. \E c \in P : Cardinality({b \in P : b <= c}) = j
    BY <1>4, <2>2
  <2>4. portOf[j] = CHOOSE c \in P : Cardinality({b \in P : b <= c}) = j
    BY <1>3, <1>5, <2>1
  <2>5. portOf[j] \in P /\ Cardinality({b \in P : b <= portOf[j]}) = j
    BY <2>3, <2>4
  <2> QED
    BY <2>1, <2>2, <2>5
<1>8. Disconnected \notin P
  BY <1>1 DEF Ports, Disconnected
<1>9. PlayersOf(portOf) = 1..n
  <2>1. \A j \in Ports : j \in 1..n \/ j > n
    BY <1>2 DEF Ports
  <2> QED
    BY <1>6, <1>7, <1>8, <2>1 DEF PlayersOf
<1>10. portOf \in PadsUsed
  <2>1. \A j \in Ports : portOf[j] \in Ports \cup {Disconnected}
    <3>1. ASSUME NEW j \in Ports
          PROVE  portOf[j] \in Ports \cup {Disconnected}
      <4>1. j \in 1..n \/ j > n
        BY <1>2 DEF Ports
      <4> QED
        BY <1>1, <1>6, <1>7, <4>1
    <3> QED
      BY <3>1
  <2>2. DOMAIN portOf = Ports
    BY <1>5
  <2>3. portOf = [j \in Ports |-> portOf[j]]
    BY <1>5, <2>2
  <2> QED
    BY <2>1, <2>3 DEF PadsUsed
<1>11. \A j, k \in 1..n : portOf[j] = portOf[k] => j = k
  BY <1>7
<1>12. \A j \in 1..n : ~err[portOf[j]]
  BY <1>1, <1>3, <1>7
<1>13. \A c \in Ports : ~err[c] => \E j \in 1..n : portOf[j] = c
  <2>1. ASSUME NEW c \in P
        PROVE  \E j \in 1..n : portOf[j] = c
    <3>1. PICK j \in 1..n : j = RankIn(P)[c]
      BY <1>4
    <3>2. portOf[j] \in P /\ RankIn(P)[portOf[j]] = RankIn(P)[c]
      BY <1>7, <3>1
    <3>3. portOf[j] = c
      BY <1>4, <3>2
    <3> QED
      BY <3>3
  <2> QED
    BY <1>3, <2>1
<1>14. Cardinality(1..n) = n
  BY <1>2, FS_Interval
<1> HIDE DEF P, n
<1> QED
  BY <1>3, <1>9, <1>10, <1>11, <1>12, <1>13, <1>14 DEF PlayersInv, Matched

\* Each player has a connected controller of his own, whatever is pulled in
\* whichever frame, and however many threads look at the ports.
THEOREM PlayersKeepControllers ==
  SerialSpec => []PlayersHaveControllers
<1>1. SerialInit => PlacesInv /\ Exists /\ PlayersInv
  BY PlacesInit, PlayersInit
<1>2. PlacesInv /\ Exists /\ PlayersInv /\ [SerialNext]_serialVars =>
        PlacesInv' /\ Exists' /\ PlayersInv'
  BY PlacesNext, PlayersNext
<1>3. PlayersInv => PlayersHaveControllers
  BY PlayersAreMatched
<1> QED
  BY <1>1, <1>2, <1>3, PTL DEF SerialSpec

-----------------------------------------------------------------------------
(* The bus: whose command is under way, and who waits for its end.         *)

Names == Selects \cup Detects \cup Motor \cup {"none", "poll", "status"}
TxSet == [cmd : Names, c : 0..NPorts]
DoneSet == [cmd : TxSet, res : Results]
End(t, dir, what) == [by |-> t, dir |-> dir, what |-> what]
Polling == {"polled", "lpoll", "restart"}

Serving == [Thread -> TxSet]
Staged == [Thread -> Stages]
Ended == [Thread -> DoneSet]
Tried == [Thread -> 0..Retries]
Flags == [Ports -> BOOLEAN]
Plugs == [Ports -> Devices]
SerialRanges ==
  /\ tx \in Serving /\ stage \in Staged /\ done \in Ended /\ tries \in Tried
  /\ flag \in BOOLEAN /\ saved \in BOOLEAN /\ resetStarted \in BOOLEAN
  /\ token \in 0..1
  /\ err \in Flags /\ on \in Flags /\ pak \in Flags /\ moving \in Flags /\ dev \in Plugs

\* What a thread at p, which looks at port i, has the bus do: x, at stage s, the
\* last that ended being d.
WellServed(p, i, x, s, d) ==
  /\ x = NoTx => s = "get"
  /\ x # NoTx => x = Poll \/ (x.c = i /\ p \in AtMotor)
  /\ x = Poll => p \in Polling /\ s \in {"get", "write", "written", "read"}
  /\ x # NoTx /\ p = "minit" => x.cmd \in Selects \cup Detects
  /\ x # NoTx /\ p = "motor" => x.cmd \in Motor
  /\ x # NoTx /\ p \in {"mstop", "rwait"} => x.cmd = "stop"
  /\ x.cmd \in Motor => s \in {"get", "write", "written", "read", "readWait"}
  /\ x = NoTx /\ p = "motor" => d.cmd.cmd \in Motor /\ d.cmd.c = i
Served == \A t \in Thread : WellServed(at[t], idx[t], tx[t], stage[t], done[t])

\* Who has the token, and that it is one thread at most.
AllGet == \A t \in Thread : stage[t] = "get"
OneToken ==
  /\ token = 1 <=> AllGet
  /\ \A t, u \in Thread : stage[t] # "get" /\ stage[u] # "get" => t = u

\* The other threads, and what the game does meanwhile.
Active(u) == u \in Others /\ at[u] # "away"
ApartPlaces == {"frame", "inputs", "mode", "poll", "reset", "recv"}
Expecting == flag /\ at["game"] \in {"frame", "inputs", "reset", "recv"}

\* Where the reset thread is, if a poll's end was the game's when it began, until
\* it has cleared the game's mark of it.
Taking == {"recv", "pad", "motor", "minit", "mstop", "clear"}
\* Where the game is from the receipt of that end until it clears the mark itself.
Clearing == {"pad", "motor", "minit", "mstop", "clear", "cleared"}
InReset ==
  /\ resetStarted
  /\ at["game"] \in ApartPlaces \cup {"polled", "rstop", "rwait"}
  /\ at["game"] = "polled" => tx["game"] # NoTx /\ stage["game"] = "get"
  /\ at["reset"] \in Taking => Expecting

\* Is there a poll whose end nobody has received yet?
OwedToGame == Expecting \/ (at["game"] = "polled" /\ tx["game"] = NoTx)
InMessage ==
  /\ stage["game"] = "get" /\ (saved <=> OwedToGame)
  /\ at["game"] \in {"motor", "mstop", "rwait"} => tx["game"] # NoTx
  /\ at["disk"] = "restart" => saved
Phases ==
  /\ \A u \in Others : at[u] # "away" => comes = u
  /\ at["game"] \in {"mode", "poll", "polled", "rstop", "rwait"} => ~flag
  /\ at["game"] \in {"recv"} \cup Clearing => flag \/ resetStarted
  /\ resetStarted => Active("reset")
  /\ Active("reset") => InReset
  /\ Active("disk") => InMessage

OwedToDisk == at["disk"] = "recv" \/ (at["disk"] \in {"lpoll", "restart"} /\ tx["disk"] = NoTx)
Owed ==
  \/ ~Active("disk") /\ (Active("reset") => at["reset"] = "reset") /\ OwedToGame
  \/ Active("reset") /\ at["reset"] = "recv"
  \/ Active("disk") /\ OwedToDisk

OnBus(x) == (dma = x /\ siQ = <<>>) \/ (dma = NoTx /\ siQ = <<x>>)
BusFree  == dma = NoTx /\ siQ = <<>>
Waiting  == {"written", "readWait", "statusWait", "sreadWait"}
Busy     == {"write", "read", "status", "sread"}
\* The DMA whose end is awaited at stage s of the operation x of t.
AwaitedAt(t, x, s) ==
  End(t, IF s \in {"written", "statusWait"} THEN "w" ELSE "r",
      IF s \in {"statusWait", "sreadWait"} THEN Tx("status", x.c) ELSE x)

PollOnBus == \E u \in Thread : OnBus(End(u, "r", Poll))
BusUse ==
  /\ \A t \in Thread : stage[t] \in Busy => BusFree
  /\ \A t \in Thread : stage[t] \in Waiting => OnBus(AwaitedAt(t, tx[t], stage[t]))
  /\ AllGet /\ Owed => PollOnBus
  /\ AllGet /\ ~Owed => BusFree

\* What the PIF has for x at stage s, whose answer is a.
StatusOf(x) == Tx("status", x.c)
PifFor(x, s, a) ==
  /\ x # NoTx /\ (s \in {"get", "write", "written"} \/ x.cmd \in Motor \cup {"poll"}) => a = x
  /\ x # Poll /\ s \in {"written", "statusWait"} => lastCmd # Poll
  /\ s = "written" /\ siQ # <<>> => pif = x
  /\ s \in {"read", "readWait"} => pif = a
  /\ s = "readWait" /\ dma = NoTx => answered = a
  /\ s = "statusWait" /\ siQ # <<>> => pif = StatusOf(x)
  /\ s \in {"sread", "sreadWait"} => pif = StatusOf(x)
  /\ s = "sreadWait" /\ dma = NoTx => answered = StatusOf(x)
PifHas ==
  /\ lastCmd = Poll => pif = Poll
  /\ \A t \in Thread : PifFor(tx[t], stage[t], AnswerTo(t))
  /\ \A t \in Thread : dma = End(t, "r", Poll) => pif = Poll
  /\ \A t \in Thread : siQ = <<End(t, "r", Poll)>> => answered = Poll

\* Motors that turn, and motors that have been stopped.
OperatedOn(c) == \E t \in Thread : idx[t] = c /\ at[t] \in AtMotor
PassedByReset(c) ==
  /\ Active("reset")
  /\ at["reset"] = "done" \/ (at["reset"] \in {"rstop", "rwait"} /\ c < idx["reset"])
TurnsRightly(c) ==
  /\ dev[c] = "rumble"
  /\ on[c] \/ ~pak[c] \/ OperatedOn(c)
  /\ PassedByReset(c) => ~pak[c]
StopJustRead(t) == stage[t] = "readWait" /\ tx[t].cmd = "stop" /\ dma = NoTx
StopJustDone(t) ==
  tx[t] = NoTx /\ (at[t] \in {"mstop", "rwait"}
                   \/ (at[t] = "motor" /\ done[t].cmd.cmd = "stop"))
Motors ==
  /\ \A c \in Ports : moving[c] => TurnsRightly(c)
  /\ \A t \in Thread : StopJustRead(t) => ~moving[tx[t].c]
  /\ \A t \in Thread : StopJustDone(t) => ~moving[idx[t]]

BusInv == SerialRanges /\ Served /\ OneToken /\ Phases /\ BusUse /\ PifHas /\ Motors
SerialInv == PlacesInv /\ Exists /\ BusInv

LEMMA Commands1 ==
  /\ NoTx \in TxSet /\ Poll \in TxSet /\ NoTx # Poll
  /\ NoTx.cmd = "none" /\ Poll.cmd = "poll" /\ NoTx.c = 0 /\ Poll.c = 0
  /\ \A k \in Selects \cup Detects \cup Motor \cup {"status"}, c \in Ports :
       /\ Tx(k, c) \in TxSet /\ Tx(k, c).cmd = k /\ Tx(k, c).c = c
       /\ Tx(k, c) # NoTx /\ Tx(k, c) # Poll
<1>1. "none" \in Names /\ "poll" \in Names /\ 0 \in 0..NPorts
  BY DEF Names
<1>2. NoTx \in TxSet /\ Poll \in TxSet
  BY <1>1 DEF NoTx, Poll, TxSet
<1>3. NoTx.cmd = "none" /\ Poll.cmd = "poll" /\ NoTx.c = 0 /\ Poll.c = 0
  BY DEF NoTx, Poll
<1>4. NoTx # Poll
  BY <1>3
<1>5. ASSUME NEW k \in Selects \cup Detects \cup Motor \cup {"status"}, NEW c \in Ports
      PROVE  /\ Tx(k, c) \in TxSet /\ Tx(k, c).cmd = k /\ Tx(k, c).c = c
             /\ Tx(k, c) # NoTx /\ Tx(k, c) # Poll
  <2>1. k \in Names /\ c \in 0..NPorts
    BY DEF Names, Ports
  <2>2. Tx(k, c) \in TxSet /\ Tx(k, c).cmd = k /\ Tx(k, c).c = c
    BY <2>1 DEF Tx, TxSet
  <2>3. k # "none" /\ k # "poll"
    BY DEF Selects, Detects, Motor
  <2> QED
    BY <1>3, <2>2, <2>3
<1> QED
  BY <1>2, <1>3, <1>4, <1>5

LEMMA Ends1 ==
  ASSUME NEW t, NEW d, NEW x
  PROVE  /\ End(t, d, x) # NoTx
         /\ End(t, d, x).by = t /\ End(t, d, x).dir = d /\ End(t, d, x).what = x
<1>1. DOMAIN End(t, d, x) = {"by", "dir", "what"}
  BY DEF End
<1>2. DOMAIN NoTx = {"cmd", "c"}
  BY DEF NoTx
<1>3. "by" \notin {"cmd", "c"}
  OBVIOUS
<1>4. End(t, d, x) # NoTx
  BY <1>1, <1>2, <1>3
<1> QED
  BY <1>4 DEF End

LEMMA OnePlace ==
  /\ \A x : <<x>> # <<>> /\ Head(<<x>>) = x
  /\ \A x, y : <<x>> = <<y>> => x = y
OBVIOUS

LEMMA StageCases ==
  /\ Stages = {"get"} \cup Busy \cup Waiting
  /\ "get" \notin Busy \cup Waiting /\ Busy \cap Waiting = {}
BY DEF Stages, Busy, Waiting

LEMMA ServedAt ==
  ASSUME SerialInv, NEW t \in Thread
  PROVE  /\ WellServed(at[t], idx[t], tx[t], stage[t], done[t])
         /\ WellPlaced(t, at[t], idx[t], back[t])
         /\ tx[t] \in TxSet /\ stage[t] \in Stages /\ done[t] \in DoneSet
<1>1. WellServed(at[t], idx[t], tx[t], stage[t], done[t])
  BY DEF SerialInv, BusInv, Served
<1>2. WellPlaced(t, at[t], idx[t], back[t])
  BY WhereItIs DEF SerialInv
<1>3. tx[t] \in TxSet /\ stage[t] \in Stages /\ done[t] \in DoneSet
  BY DEF SerialInv, BusInv, SerialRanges, Serving, Staged, Ended
<1> QED
  BY <1>1, <1>2, <1>3

\* One thread at most of the others is about; one that is not has the bus do
\* nothing.
LEMMA WhoIsAbout ==
  ASSUME SerialInv
  PROVE  /\ ~(Active("reset") /\ Active("disk"))
         /\ \A u \in Others : tx[u] # NoTx \/ stage[u] # "get" => Active(u)
         /\ \A u \in Others : at[u] # "away" => Active(u)
<1>1. ~(Active("reset") /\ Active("disk"))
  BY DEF SerialInv, BusInv, Phases, Active
<1>2. \A u \in Others : at[u] # "away" => Active(u)
  BY DEF Active
<1>3. ASSUME NEW u \in Others, tx[u] # NoTx \/ stage[u] # "get"
      PROVE  Active(u)
  <2>1. u \in Thread /\ WellServed(at[u], idx[u], tx[u], stage[u], done[u])
    BY TheThreads, ServedAt
  <2>2. tx[u] # NoTx
    BY <1>3, <2>1 DEF WellServed
  <2>3. at[u] \in Polling \cup AtMotor
    BY <2>1, <2>2 DEF WellServed
  <2> QED
    BY <2>3 DEF Active, Polling, AtMotor
<1> QED
  BY <1>1, <1>2, <1>3

\* At these places the game has the bus do nothing.
LEMMA GameApart ==
  ASSUME SerialInv, at["game"] \in ApartPlaces
  PROVE  tx["game"] = NoTx /\ stage["game"] = "get"
<1>1. WellServed(at["game"], idx["game"], tx["game"], stage["game"], done["game"])
  BY TheThreads, ServedAt
<1>2. at["game"] \notin Polling \cup AtMotor
  BY DEF ApartPlaces, Polling, AtMotor
<1> QED
  BY <1>1, <1>2 DEF WellServed

\* Nobody has the token when those that are about have the bus do nothing.
LEMMA AllGetWhen ==
  ASSUME SerialInv
  PROVE  /\ ~Active("reset") /\ ~Active("disk") /\ stage["game"] = "get" => AllGet
         /\ Active("reset") /\ stage["reset"] = "get" /\ stage["game"] = "get" => AllGet
         /\ Active("disk") /\ stage["disk"] = "get" => AllGet
<1>1. \A t \in Thread : t = "game" \/ (t \in Others /\ t \in {"reset", "disk"})
  BY DEF Thread
<1>2. Active("reset") => ~Active("disk")
  BY WhoIsAbout
<1>3. Active("disk") => stage["game"] = "get"
  BY DEF SerialInv, BusInv, Phases, InMessage
<1>4. \A u \in Others : stage[u] # "get" => Active(u)
  BY WhoIsAbout
<1> QED
  BY <1>1, <1>2, <1>3, <1>4 DEF AllGet

\* While the reset thread takes a poll's end from the game, the game has the bus do
\* nothing.
LEMMA GameIsTakenFrom ==
  ASSUME SerialInv, Active("reset"), at["reset"] \in Taking
  PROVE  /\ flag /\ at["game"] \in {"frame", "inputs", "reset", "recv"}
         /\ tx["game"] = NoTx /\ stage["game"] = "get"
<1>1. Expecting
  BY DEF SerialInv, BusInv, Phases, InReset
<1>2. at["game"] \in ApartPlaces
  BY <1>1 DEF Expecting, ApartPlaces
<1> QED
  BY <1>1, <1>2, GameApart DEF Expecting

LEMMA NobodyWaitsForEver ==
  ASSUME SerialInv
  PROVE  NoEndlessWait
<1> SUFFICES ASSUME NEW t \in Thread, Waits(t), ~Robbed(t)
             PROVE  IF Serves(t) /\ stage[t] = "get"
                    THEN \E u \in Thread \ {t} : /\ Serves(u) /\ stage[u] # "get"
                                                 /\ u = "game" => ~GameStopped
                    ELSE dma # NoTx
  BY DEF NoEndlessWait
<1>1. GameStopped <=> Active("disk")
  BY DEF GameStopped, Active, SerialInv, Exists, BusInv, Phases
<1>2. CASE Serves(t) /\ stage[t] = "get"
  <2>1. token = 0
    BY <1>2 DEF Waits, Serves
  <2>2. PICK u \in Thread : stage[u] # "get"
    BY <2>1 DEF SerialInv, BusInv, OneToken, AllGet
  <2>3. Serves(u)
    BY <2>2, ServedAt DEF WellServed, Serves
  <2>4. u = "game" => ~GameStopped
    BY <1>1, <2>2 DEF SerialInv, BusInv, Phases, InMessage
  <2> QED
    BY <1>2, <2>2, <2>3, <2>4
<1>3. CASE Serves(t) /\ stage[t] # "get"
  <2>1. stage[t] \in Waiting /\ siQ = <<>>
    BY <1>3 DEF Waits, Serves, Waiting
  <2>2. OnBus(AwaitedAt(t, tx[t], stage[t]))
    BY <2>1 DEF SerialInv, BusInv, BusUse
  <2>3. dma = AwaitedAt(t, tx[t], stage[t])
    BY <2>1, <2>2, OnePlace DEF OnBus
  <2> QED
    BY <1>3, <2>3, Ends1 DEF AwaitedAt
<1>4. CASE ~Serves(t)
  <2>1. tx[t] = NoTx /\ at[t] = "recv" /\ siQ = <<>>
    BY <1>4 DEF Waits, Serves
  <2>2. stage[t] = "get"
    BY <2>1, ServedAt DEF WellServed
  <2>3. CASE t = "game"
    <3>1. ~resetStarted /\ ~GameStopped
      BY <1>4, <2>3 DEF Robbed
    <3>2. ~Active("reset") /\ ~Active("disk")
      BY <1>1, <3>1 DEF SerialInv, BusInv, Phases, InReset
    <3>3. AllGet
      BY <2>2, <2>3, <3>2, AllGetWhen
    <3>4. Owed
      BY <2>1, <2>3, <3>1, <3>2 DEF SerialInv, BusInv, Phases, Owed, OwedToGame, Expecting
    <3>5. PICK u \in Thread : OnBus(End(u, "r", Poll))
      BY <3>3, <3>4 DEF SerialInv, BusInv, BusUse, PollOnBus
    <3> QED
      BY <1>4, <2>1, <3>5, OnePlace, Ends1 DEF OnBus
  <2>4. CASE t # "game"
    <3>1. t \in Others /\ t \in {"reset", "disk"}
      BY <2>4 DEF Thread
    <3>2. Active(t)
      BY <2>1, <3>1 DEF Active
    <3>3. AllGet
      <4>1. CASE t = "reset"
        BY <2>1, <2>2, <3>2, <4>1, AllGetWhen, GameIsTakenFrom DEF Taking
      <4>2. CASE t = "disk"
        BY <2>2, <3>2, <4>2, AllGetWhen
      <4> QED
        BY <3>1, <4>1, <4>2
    <3>4. Owed
      BY <2>1, <3>1, <3>2 DEF Owed, OwedToDisk
    <3>5. PICK u \in Thread : OnBus(End(u, "r", Poll))
      BY <3>3, <3>4 DEF SerialInv, BusInv, BusUse, PollOnBus
    <3> QED
      BY <1>4, <2>1, <3>5, OnePlace, Ends1 DEF OnBus
  <2> QED
    BY <2>3, <2>4
<1> QED
  BY <1>2, <1>3, <1>4

LEMMA MotorsAreKnown ==
  ASSUME SerialInv
  PROVE  MotorKnown
<1> SUFFICES ASSUME NEW c \in Ports, moving[c]
             PROVE  /\ ~on[c] => \/ ~pak[c]
                                 \/ \E t \in Thread :
                                      /\ idx[t] = c
                                      /\ at[t] \in {"motor", "minit", "mstop", "rwait"}
                    /\ "reset" \in Others /\ at["reset"] = "done" => ~pak[c]
  BY DEF MotorKnown
<1>1. TurnsRightly(c)
  BY DEF SerialInv, BusInv, Motors
<1> QED
  BY <1>1 DEF TurnsRightly, OperatedOn, AtMotor, PassedByReset, Active

-----------------------------------------------------------------------------
(* A step of an operation on the bus.                                      *)

\* What the game does while another thread is about: that thread waits for an
\* end, or for the token that the game has.
LEMMA GameGoesOn ==
  ASSUME SerialInv, MayRun("game")
  PROVE  /\ ~Active("disk")
         /\ Active("reset") =>
              \/ tx["reset"] = NoTx /\ at["reset"] = "recv" /\ siQ = <<>>
              \/ stage["reset"] \in Waiting /\ siQ = <<>>
              \/ tx["reset"] # NoTx /\ stage["reset"] = "get" /\ stage["game"] # "get"
<1>1. \A u \in Others : at[u] = "away" \/ (Waits(u) /\ u # "disk")
  BY DEF MayRun, Above
<1>2. ~Active("disk")
  BY <1>1 DEF Active
<1>3. ASSUME Active("reset")
      PROVE  \/ tx["reset"] = NoTx /\ at["reset"] = "recv" /\ siQ = <<>>
             \/ stage["reset"] \in Waiting /\ siQ = <<>>
             \/ tx["reset"] # NoTx /\ stage["reset"] = "get" /\ stage["game"] # "get"
  <2>1. Waits("reset")
    BY <1>1, <1>3 DEF Active
  <2>2. stage["reset"] = "get" /\ token = 0 => stage["game"] # "get"
    BY <1>3, AllGetWhen DEF SerialInv, BusInv, OneToken
  <2> QED
    BY <2>1, <2>2 DEF Waits, Waiting
<1> QED
  BY <1>2, <1>3

\* While the reset thread waits it has begun, and has not ended.
LEMMA ResetHasBegun ==
  ASSUME SerialInv, MayRun("game"), Active("reset")
  PROVE  at["reset"] \notin {"reset", "rstop", "clear", "done"}
<1>1. at["reset"] = "recv" \/ tx["reset"] # NoTx
  <2>1. "reset" \in Thread
    BY TheThreads DEF Active
  <2>2. stage["reset"] # "get" => tx["reset"] # NoTx
    BY <2>1, ServedAt DEF WellServed
  <2> QED
    BY <2>2, GameGoesOn, StageCases
<1>2. tx["reset"] # NoTx => at["reset"] \in Polling \cup AtMotor
  BY TheThreads, ServedAt DEF Active, WellServed
<1> QED
  BY <1>1, <1>2 DEF Polling, AtMotor

\* Who is about while t has the bus do something: the reset thread may wait for the
\* game's stopping of a motor.
Alone(t) ==
  \A u \in Others : u # t /\ Active(u) => t = "game" /\ u = "reset" /\ at["game"] = "rwait"

LEMMA AloneOnTheBus ==
  ASSUME SerialInv, NEW t \in Thread, MayRun(t), Serves(t), stage[t] # "get" \/ token = 1
  PROVE  /\ Alone(t) /\ (t # "game" => t \in Others /\ Active(t))
         /\ at[t] \in Polling \cup AtMotor /\ ~Owed
         /\ \A u \in Thread : u # t => stage[u] = "get"
<1>1. WellServed(at[t], idx[t], tx[t], stage[t], done[t]) /\ tx[t] # NoTx
  BY ServedAt DEF Serves
<1>2. at[t] \in Polling \cup AtMotor
  BY <1>1 DEF WellServed
<1>3. at[t] \notin {"frame", "inputs", "reset", "recv"}
  BY <1>2 DEF Polling, AtMotor
<1>4. \A u \in Thread : u # t => stage[u] = "get"
  BY DEF SerialInv, BusInv, OneToken, AllGet
<1>5. CASE t = "game"
  <2>1. ~Active("disk")
    BY <1>5, GameGoesOn
  <2>2. ASSUME Active("reset")
        PROVE  at["game"] = "rwait" /\ at["reset"] \notin Taking /\ at["reset"] # "reset"
    <3>1. at["reset"] \notin Taking
      BY <1>3, <1>5, <2>2, GameIsTakenFrom
    <3>2. stage["reset"] = "get"
      BY <1>4, <1>5, <2>2, TheThreads DEF Active
    <3>3. stage["game"] # "get"
      BY <1>5, <2>2, <3>1, <3>2, GameGoesOn, StageCases DEF Taking
    <3>4. at["game"] # "polled" /\ at["game"] \in ApartPlaces \cup {"polled", "rstop", "rwait"}
      BY <2>2, <3>3 DEF SerialInv, BusInv, Phases, InReset
    <3>5. at["game"] = "rwait"
      BY <1>2, <1>5, <3>4 DEF ApartPlaces, Polling, AtMotor
    <3> QED
      BY <1>5, <2>2, <3>1, <3>5, ResetHasBegun
  <2>3. Alone(t)
    BY <1>5, <2>1, <2>2, TheThreads DEF Alone
  <2>4. ~Owed
    BY <1>1, <1>3, <1>5, <2>1, <2>2 DEF Owed, OwedToGame, Expecting, Taking
  <2> QED
    BY <1>2, <1>4, <1>5, <2>3, <2>4
<1>6. CASE t # "game"
  <2>1. t \in Others /\ t \in {"reset", "disk"}
    BY <1>6 DEF Thread
  <2>2. Active(t)
    BY <1>1, <2>1, WhoIsAbout
  <2>3. \A u \in Others : u # t => ~Active(u)
    BY <2>1, <2>2, WhoIsAbout, TheThreads
  <2>4. Alone(t)
    BY <2>3 DEF Alone
  <2>5. Active("reset") => t = "reset"
    BY <2>3 DEF Active
  <2>6. Active("disk") => t = "disk"
    BY <2>3 DEF Active
  <2>7. ~Owed
    BY <1>1, <1>3, <2>1, <2>2, <2>5, <2>6 DEF Owed, OwedToDisk
  <2> QED
    BY <1>2, <1>4, <1>6, <2>1, <2>2, <2>4, <2>7
<1> QED
  BY <1>5, <1>6

\* The operation of t goes on to x, at stage s, and the last to end is then d.
BusMove(t, x, s, d) ==
  /\ tx' \in Serving /\ stage' \in Staged /\ done' \in Ended /\ tries' \in Tried
  /\ tx'[t] = x /\ stage'[t] = s /\ done'[t] = d
  /\ \A u \in Thread : u # t => /\ tx'[u] = tx[u] /\ stage'[u] = stage[u]
                                /\ done'[u] = done[u] /\ tries'[u] = tries[u]

Keeps == UNCHANGED <<place, game, err, on, pak, moving, dev, comes>>

LEMMA BusMoveServed ==
  ASSUME SerialInv, NEW t \in Thread, NEW x, NEW s, NEW d, BusMove(t, x, s, d),
         UNCHANGED <<at, idx>>, WellServed(at[t], idx[t], x, s, d)
  PROVE  Served'
<1>1. ASSUME NEW u \in Thread
      PROVE  WellServed(at[u], idx[u], tx'[u], stage'[u], done'[u])
  <2>1. CASE u = t
    BY <2>1 DEF BusMove
  <2>2. CASE u # t
    BY <2>2, ServedAt DEF BusMove
  <2> QED
    BY <2>1, <2>2
<1>2. ASSUME NEW u \in Thread
      PROVE  WellServed(at[u], idx[u], tx[u], stage[u], done[u])'
  BY <1>1 DEF WellServed
<1> QED
  BY <1>2 DEF Served

LEMMA BusMovePhases ==
  ASSUME SerialInv, NEW t \in Thread, NEW x, NEW s, NEW d, BusMove(t, x, s, d), Keeps,
         Alone(t), t # "game" => t \in Others /\ Active(t)
  PROVE  Phases'
<1>1. UNCHANGED <<at, flag, saved, resetStarted, comes>>
  BY DEF Keeps, place, game
<1>2. t = "game" => ~Active("disk") /\ (Active("reset") => at["game"] = "rwait")
  BY DEF Alone, Active
<1>3. t # "game" => tx'["game"] = tx["game"] /\ stage'["game"] = stage["game"]
  BY TheThreads DEF BusMove
<1>4. (Expecting' <=> Expecting) /\ \A u : Active(u)' <=> Active(u)
  BY <1>1 DEF Expecting, Active
<1>5. Active("reset") => InReset'
  BY <1>1, <1>2, <1>3, <1>4 DEF SerialInv, BusInv, Phases, InReset
<1>6. Active("disk") => InMessage'
  BY <1>1, <1>2, <1>3, <1>4 DEF SerialInv, BusInv, Phases, InMessage, OwedToGame
<1> QED
  BY <1>1, <1>4, <1>5, <1>6 DEF SerialInv, BusInv, Phases

LEMMA BusMoveOwed ==
  ASSUME SerialInv, NEW t \in Thread, NEW x, NEW s, NEW d, BusMove(t, x, s, d), Keeps,
         Alone(t), t # "game" => t \in Others /\ Active(t), ~Owed
  PROVE  /\ at[t] \in AtMotor \/ x # NoTx => ~Owed'
         /\ at[t] \in Polling /\ x = NoTx => Owed'
<1>1. UNCHANGED <<at, flag, saved, resetStarted, comes>>
  BY DEF Keeps, place, game
<1>2. t \in {"game", "reset", "disk"} /\ WellPlaced(t, at[t], idx[t], back[t])
  BY TheThreads, ServedAt
<1>3. CASE t = "game" /\ ~Active("reset")
  <2>1. ~Active("disk")
    BY <1>3 DEF Alone, Active
  <2>2. at["game"] \in Polling => at["game"] = "polled"
    BY <1>2, <1>3 DEF WellPlaced, Polling, Own, Asking, Receiving
  <2> QED
    BY <1>1, <1>3, <2>1, <2>2
    DEF BusMove, Owed, OwedToGame, Expecting, Active, AtMotor, Polling
<1>4. CASE t = "game" /\ Active("reset")
  <2>1. ~Active("disk") /\ at["game"] = "rwait"
    BY <1>4 DEF Alone, Active
  <2>2. at["reset"] # "recv"
    BY <1>4, <2>1, GameIsTakenFrom DEF Taking
  <2> QED
    BY <1>1, <1>4, <2>1, <2>2 DEF Owed, OwedToGame, Expecting, Active, Polling
<1>5. CASE t = "reset"
  <2>1. Active("reset") /\ ~Active("disk")
    BY <1>5 DEF Alone, Active
  <2>2. at["reset"] \notin Polling
    BY <1>2, <1>5 DEF WellPlaced, Polling, Own, Asking, Receiving
  <2> QED
    BY <1>1, <1>5, <2>1, <2>2, TheThreads
    DEF BusMove, Owed, OwedToGame, Expecting, Active, AtMotor, Polling
<1>6. CASE t = "disk"
  <2>1. Active("disk") /\ ~Active("reset")
    BY <1>6 DEF Alone, Active
  <2>2. at["disk"] \in Polling => at["disk"] \in {"lpoll", "restart"}
    BY <1>2, <1>6 DEF WellPlaced, Polling, Own, Asking, Receiving
  <2> QED
    BY <1>1, <1>6, <2>1, <2>2
    DEF BusMove, Owed, OwedToDisk, Active, AtMotor, Polling
<1> QED
  BY <1>2, <1>3, <1>5, <1>6, <1>4

LEMMA BusMoveMotors ==
  ASSUME SerialInv, NEW t \in Thread, NEW x, NEW s, NEW d, BusMove(t, x, s, d), Keeps,
         \A u \in Thread : u # t => stage[u] = "get",
         StopJustRead(t)' => ~moving[x.c], StopJustDone(t)' => ~moving[idx[t]]
  PROVE  Motors'
<1>1. UNCHANGED <<at, idx, flag, saved, resetStarted, comes, on, pak, moving, dev>>
  BY DEF Keeps, place, game
<1>2. \A c \in Ports : moving'[c] => TurnsRightly(c)'
  BY <1>1 DEF SerialInv, BusInv, Motors, TurnsRightly, OperatedOn, PassedByReset, Active
<1>3. ASSUME NEW u \in Thread, StopJustRead(u)'
      PROVE  ~moving'[tx'[u].c]
  <2>1. CASE u = t
    BY <1>1, <1>3, <2>1 DEF BusMove
  <2>2. CASE u # t
    BY <1>3, <2>2 DEF BusMove, StopJustRead
  <2> QED
    BY <2>1, <2>2
<1>4. ASSUME NEW u \in Thread, StopJustDone(u)'
      PROVE  ~moving'[idx'[u]]
  <2>1. CASE u = t
    BY <1>1, <1>4, <2>1
  <2>2. CASE u # t
    BY <1>1, <1>4, <2>2 DEF BusMove, StopJustDone, SerialInv, BusInv, Motors
  <2> QED
    BY <2>1, <2>2
<1> QED
  BY <1>2, <1>3, <1>4 DEF Motors

LEMMA BusMoveToken ==
  ASSUME NEW t \in Thread, NEW x, NEW s, NEW d, BusMove(t, x, s, d),
         \A u \in Thread : u # t => stage[u] = "get",
         token' = IF s = "get" THEN 1 ELSE 0
  PROVE  OneToken' /\ (AllGet' <=> s = "get")
<1>1. stage'[t] = s /\ \A u \in Thread : u # t => stage'[u] = "get"
  BY DEF BusMove
<1> QED
  BY <1>1 DEF OneToken, AllGet

LEMMA BusMoveUse ==
  ASSUME SerialInv, NEW t \in Thread, NEW x, NEW s \in Stages, NEW d, BusMove(t, x, s, d), Keeps,
         Alone(t), t # "game" => t \in Others /\ Active(t), ~Owed,
         at[t] \in Polling \cup AtMotor,
         \A u \in Thread : u # t => stage[u] = "get",
         token' = IF s = "get" THEN 1 ELSE 0,
         s \in Busy => BusFree',
         s \in Waiting => OnBus(AwaitedAt(t, x, s))',
         s = "get" => x = NoTx,
         s = "get" /\ at[t] \in AtMotor => BusFree',
         s = "get" /\ at[t] \in Polling => PollOnBus'
  PROVE  BusUse'
<1>1. OneToken' /\ (AllGet' <=> s = "get")
  BY BusMoveToken
<1>2. \A u \in Thread : u # t => stage'[u] = "get"
  BY DEF BusMove
<1>3. stage'[t] = s /\ tx'[t] = x
  BY DEF BusMove
<1>4. \A u \in Thread : stage'[u] \in Busy => BusFree'
  BY <1>2, <1>3, StageCases
<1>5. ASSUME NEW u \in Thread, stage'[u] \in Waiting
      PROVE  OnBus(AwaitedAt(u, tx[u], stage[u]))'
  <2>1. u = t
    BY <1>2, <1>5, StageCases
  <2> QED
    BY <1>3, <1>5, <2>1 DEF OnBus, AwaitedAt, End
<1>6. AllGet' /\ Owed' => PollOnBus'
  BY <1>1, BusMoveOwed
<1>7. AllGet' /\ ~Owed' => BusFree'
  BY <1>1, BusMoveOwed
<1> QED
  BY <1>4, <1>5, <1>6, <1>7 DEF BusUse

LEMMA BusMovePif ==
  ASSUME SerialInv, NEW t \in Thread, NEW x, NEW s, NEW d, BusMove(t, x, s, d),
         \A u \in Thread : u # t => stage[u] = "get",
         lastCmd' = Poll => pif' = Poll, NEW a, AnswerTo(t)' = a, PifFor(x, s, a)',
         \A u \in Thread : dma' = End(u, "r", Poll) => pif' = Poll,
         \A u \in Thread : siQ' = <<End(u, "r", Poll)>> => answered' = Poll
  PROVE  PifHas'
<1>1. ASSUME NEW u \in Thread
      PROVE  PifFor(tx[u], stage[u], AnswerTo(u))'
  <2>1. CASE u = t
    <3>1. tx'[u] = x /\ stage'[u] = s /\ AnswerTo(u)' = a
      BY <2>1 DEF BusMove
    <3> QED
      BY <3>1 DEF PifFor, StatusOf, Tx
  <2>2. CASE u # t
    <3>1. /\ stage'[u] = "get" /\ stage[u] = "get" /\ tx'[u] = tx[u]
          /\ AnswerTo(u)' = AnswerTo(u)
      BY <2>2 DEF BusMove, AnswerTo, Tx
    <3>2. PifFor(tx[u], stage[u], AnswerTo(u))
      BY DEF SerialInv, BusInv, PifHas
    <3> QED
      BY <3>1, <3>2 DEF PifFor
  <2> QED
    BY <2>1, <2>2
<1> QED
  BY <1>1 DEF PifHas, End

\* All that a step of an operation has to show.
LEMMA BusMoveInv ==
  ASSUME SerialInv, NEW t \in Thread, NEW x, NEW s \in Stages, NEW d, BusMove(t, x, s, d), Keeps,
         MayRun(t), Serves(t), stage[t] # "get" \/ token = 1,
         WellServed(at[t], idx[t], x, s, d),
         token' = IF s = "get" THEN 1 ELSE 0,
         s \in Busy => BusFree',
         s \in Waiting => OnBus(AwaitedAt(t, x, s))',
         s = "get" => x = NoTx,
         s = "get" /\ at[t] \in AtMotor => BusFree',
         s = "get" /\ at[t] \in Polling => PollOnBus',
         lastCmd' = Poll => pif' = Poll, NEW a, AnswerTo(t)' = a, PifFor(x, s, a)',
         \A u \in Thread : dma' = End(u, "r", Poll) => pif' = Poll,
         \A u \in Thread : siQ' = <<End(u, "r", Poll)>> => answered' = Poll,
         s = "readWait" /\ x.cmd = "stop" /\ dma' = NoTx => ~moving[x.c],
         s = "get" /\ x = NoTx /\ (at[t] \in {"mstop", "rwait"}
                                   \/ (at[t] = "motor" /\ d.cmd.cmd = "stop")) => ~moving[idx[t]]
  PROVE  BusInv'
<1>1. /\ Alone(t) /\ (t # "game" => t \in Others /\ Active(t))
      /\ at[t] \in Polling \cup AtMotor /\ ~Owed
      /\ \A u \in Thread : u # t => stage[u] = "get"
  BY AloneOnTheBus
<1>2. UNCHANGED <<at, idx, flag, saved, resetStarted, err, on, pak, moving, dev>>
  BY DEF Keeps, place, game
<1>3. tx' \in Serving /\ stage' \in Staged /\ done' \in Ended /\ tries' \in Tried
      /\ tx'[t] = x /\ stage'[t] = s /\ done'[t] = d
  BY DEF BusMove
<1>4. SerialRanges'
  BY <1>2, <1>3 DEF SerialInv, BusInv, SerialRanges
<1>5. Served'
  BY <1>2, BusMoveServed
<1>6. OneToken'
  BY <1>1, BusMoveToken
<1>7. Phases'
  BY <1>1, BusMovePhases
<1>8. BusUse'
  BY <1>1, BusMoveUse
<1>9. PifHas'
  BY <1>1, BusMovePif
<1>10. StopJustRead(t)' => ~moving[x.c]
  BY <1>3 DEF StopJustRead
<1>11. StopJustDone(t)' => ~moving[idx[t]]
  <2>1. x = NoTx => s = "get"
    BY DEF WellServed
  <2> QED
    BY <1>2, <1>3, <2>1 DEF StopJustDone
<1>12. Motors'
  BY <1>1, <1>10, <1>11, BusMoveMotors
<1> QED
  BY <1>4, <1>5, <1>6, <1>7, <1>8, <1>9, <1>12 DEF BusInv

LEMMA StageMoves ==
  ASSUME SerialInv, NEW t \in Thread, NEW s \in Stages, Stage(t, s), UNCHANGED <<tx, tries, done>>
  PROVE  BusMove(t, tx[t], s, done[t]) /\ AnswerTo(t)' = AnswerTo(t)
<1>1. BusMove(t, tx[t], s, done[t])
  BY DEF SerialInv, BusInv, SerialRanges, Serving, Staged, Ended, Stage, BusMove
<1> QED
  BY <1>1 DEF AnswerTo, Tx

LEMMA EndMoves ==
  ASSUME SerialInv, NEW t \in Thread, NEW r \in Results, Ends(t, r)
  PROVE  \E d \in DoneSet : d.cmd = tx[t] /\ d.res = r /\ BusMove(t, NoTx, "get", d)
<1>1. tx[t] \in TxSet
  BY ServedAt
<1>2. PICK d : d = [cmd |-> tx[t], res |-> r]
  OBVIOUS
<1>3. d \in DoneSet /\ d.cmd = tx[t] /\ d.res = r
  BY <1>1, <1>2 DEF DoneSet
<1>4. done' = [done EXCEPT ![t] = d]
  BY <1>2 DEF Ends
<1>5. NoTx \in TxSet /\ "get" \in Stages
  BY Commands1, StageCases
<1>6. tx' = [tx EXCEPT ![t] = NoTx] /\ stage' = [stage EXCEPT ![t] = "get"]
  BY DEF Ends, Stage
<1>7. tx' \in Serving /\ tx'[t] = NoTx /\ \A u \in Thread : u # t => tx'[u] = tx[u]
  BY <1>5, <1>6 DEF SerialInv, BusInv, SerialRanges, Serving
<1>8. stage' \in Staged /\ stage'[t] = "get" /\ \A u \in Thread : u # t => stage'[u] = stage[u]
  BY <1>5, <1>6 DEF SerialInv, BusInv, SerialRanges, Staged
<1>9. done' \in Ended /\ done'[t] = d /\ \A u \in Thread : u # t => done'[u] = done[u]
  BY <1>3, <1>4 DEF SerialInv, BusInv, SerialRanges, Ended
<1>10. BusMove(t, NoTx, "get", d)
  BY <1>7, <1>8, <1>9 DEF BusMove, Ends, SerialInv, BusInv, SerialRanges
<1> QED
  BY <1>3, <1>10

\* What is known of the bus while t uses it.
LEMMA InUse ==
  ASSUME SerialInv, NEW t \in Thread
  PROVE  /\ stage[t] \in Busy => BusFree
         /\ stage[t] \in Waiting => OnBus(AwaitedAt(t, tx[t], stage[t]))
         /\ PifFor(tx[t], stage[t], AnswerTo(t)) /\ (lastCmd = Poll => pif = Poll)
         /\ \A u \in Thread : dma = End(u, "r", Poll) => pif = Poll
         /\ \A u \in Thread : siQ = <<End(u, "r", Poll)>> => answered = Poll
BY DEF SerialInv, BusInv, BusUse, PifHas

LEMMA GetAccessInv ==
  ASSUME SerialInv, NEW t \in Thread, GetAccess(t)
  PROVE  BusInv'
<1>1. MayRun(t) /\ Serves(t) /\ stage[t] = "get" /\ token = 1 /\ token' = 0
  BY DEF GetAccess
<1>2. PICK s \in {"read", "write"} :
        /\ Stage(t, s) /\ (s = "read" => tx[t] = Poll /\ lastCmd = Poll)
  BY DEF GetAccess
<1>3. s \in Stages /\ s \in Busy /\ s \notin Waiting /\ s # "get"
  BY <1>2 DEF Stages, Busy, Waiting
<1>4. UNCHANGED <<dma, siQ, pif, answered, lastCmd, tx, tries, done>> /\ Keeps
  BY DEF GetAccess, Keeps, pads, world
<1>5. PICK a : a = AnswerTo(t)
  OBVIOUS
<1>6. BusMove(t, tx[t], s, done[t]) /\ AnswerTo(t)' = a
  BY <1>5, <1>2, <1>3, <1>4, StageMoves
<1>7. BusFree
  BY <1>1, AloneOnTheBus DEF SerialInv, BusInv, OneToken, BusUse
<1>8. BusFree'
  BY <1>4, <1>7 DEF BusFree
<1>9. WellServed(at[t], idx[t], tx[t], s, done[t])
  <2>1. WellServed(at[t], idx[t], tx[t], "get", done[t]) /\ tx[t] # NoTx
    BY <1>1, ServedAt DEF Serves
  <2> QED
    BY <1>2, <2>1 DEF WellServed
<1>10. PifFor(tx[t], s, a)'
  <2>1. PifFor(tx[t], "get", a) /\ tx[t] # NoTx
    BY <1>5, <1>1, InUse DEF Serves
  <2>2. s = "read" => tx[t] = Poll /\ pif = Poll
    BY <1>2, InUse
  <2>3. a = tx[t]
    BY <2>1 DEF PifFor
  <2> QED
    BY <1>2, <1>4, <2>2, <2>3 DEF PifFor
<1>11. /\ \A u \in Thread : dma' = End(u, "r", Poll) => pif' = Poll
       /\ \A u \in Thread : siQ' = <<End(u, "r", Poll)>> => answered' = Poll
       /\ lastCmd' = Poll => pif' = Poll
  BY <1>4, InUse
<1> QED
  BY <1>1, <1>2, <1>3, <1>4, <1>6, <1>8, <1>9, <1>10, <1>11, BusMoveInv

LEMMA Started ==
  ASSUME BusFree, NEW t, NEW dir, NEW x, StartDma(t, dir, x)
  PROVE  dma' = End(t, dir, x)
BY DEF BusFree, StartDma, End

LEMMA WriteInv ==
  ASSUME SerialInv, NEW t \in Thread, Write(t)
  PROVE  BusInv'
<1>1. MayRun(t) /\ Serves(t) /\ stage[t] = "write" /\ token' = token /\ siQ' = siQ
  BY DEF Write
<1>2. BusFree
  BY <1>1, InUse DEF Busy
<1>3. dma' = End(t, "w", tx[t]) /\ siQ' = <<>>
  BY <1>1, <1>2, Started DEF Write, BusFree
<1>4. UNCHANGED <<pif, answered, tx, tries, done>> /\ Keeps /\ Stage(t, "written")
  BY DEF Write, Keeps, pads, world
<1>5. PICK a : a = AnswerTo(t)
  OBVIOUS
<1>6. BusMove(t, tx[t], "written", done[t]) /\ AnswerTo(t)' = a
  BY <1>5, <1>4, StageMoves DEF Stages
<1>7. token = 0
  BY <1>1 DEF SerialInv, BusInv, OneToken, AllGet, SerialRanges
<1>8. OnBus(AwaitedAt(t, tx[t], "written"))'
  BY <1>3, <1>4 DEF OnBus, AwaitedAt, End
<1>9. WellServed(at[t], idx[t], tx[t], "written", done[t])
  <2>1. WellServed(at[t], idx[t], tx[t], "write", done[t]) /\ tx[t] # NoTx
    BY <1>1, ServedAt DEF Serves
  <2> QED
    BY <2>1 DEF WellServed
<1>10. (tx[t] # Poll => lastCmd' # Poll) /\ (tx[t] = Poll => lastCmd' = lastCmd)
  BY Commands1 DEF Write, LastCmdOf
<1>11. (lastCmd' = Poll => pif' = Poll) /\ PifFor(tx[t], "written", a)'
  <2>1. lastCmd' = Poll => pif' = Poll
    BY <1>4, <1>10, InUse
  <2>2. PifFor(tx[t], "written", a)'
    <3>1. PifFor(tx[t], "write", a)
      BY <1>5, <1>1, InUse
    <3> QED
      BY <1>3, <1>4, <1>10, <3>1 DEF PifFor
  <2> QED
    BY <2>1, <2>2
<1>12. /\ \A u \in Thread : dma' = End(u, "r", Poll) => pif' = Poll
       /\ \A u \in Thread : siQ' = <<End(u, "r", Poll)>> => answered' = Poll
  <2>1. \A u \in Thread : dma' # End(u, "r", Poll)
    <3>1. dma'.dir = "w"
      BY <1>3, Ends1
    <3>2. \A u \in Thread : End(u, "r", Poll).dir = "r"
      BY Ends1
    <3> QED
      BY <3>1, <3>2
  <2> QED
    BY <1>3, <2>1, OnePlace
<1> QED
  BY <1>1, <1>4, <1>6, <1>7, <1>8, <1>9, <1>11, <1>12, BusMoveInv
  DEF Busy, Waiting, Stages

LEMMA NoLonger ==
  ASSUME NEW x, OnBus(x), siQ # <<>>
  PROVE  dma = NoTx /\ siQ = <<x>>
BY DEF OnBus

LEMMA WrittenInv ==
  ASSUME SerialInv, NEW t \in Thread, Written(t)
  PROVE  BusInv'
<1>1. MayRun(t) /\ Serves(t) /\ stage[t] = "written" /\ token' = token
      /\ siQ # <<>> /\ siQ' = <<>>
  BY DEF Written, Receives
<1>2. dma = NoTx
  BY <1>1, InUse, NoLonger DEF Waiting
<1>3. UNCHANGED <<dma, pif, answered, lastCmd, tx, tries, done>> /\ Keeps /\ Stage(t, "read")
  BY DEF Written, Keeps, pads, world
<1>4. BusFree'
  BY <1>1, <1>2, <1>3 DEF BusFree
<1>5. PICK a : a = AnswerTo(t)
  OBVIOUS
<1>6. BusMove(t, tx[t], "read", done[t]) /\ AnswerTo(t)' = a
  BY <1>5, <1>3, StageMoves DEF Stages
<1>7. token = 0
  BY <1>1 DEF SerialInv, BusInv, OneToken, AllGet, SerialRanges
<1>8. WellServed(at[t], idx[t], tx[t], "read", done[t])
  <2>1. WellServed(at[t], idx[t], tx[t], "written", done[t]) /\ tx[t] # NoTx
    BY <1>1, ServedAt DEF Serves
  <2> QED
    BY <2>1 DEF WellServed
<1>9. PifFor(tx[t], "written", a) /\ tx[t] # NoTx
  BY <1>5, <1>1, InUse DEF Serves
<1>10. PifFor(tx[t], "read", a)'
  <2>1. pif = tx[t] /\ a = tx[t]
    BY <1>1, <1>9 DEF PifFor
  <2> QED
    BY <1>3, <2>1 DEF PifFor
<1>11. /\ \A u \in Thread : dma' = End(u, "r", Poll) => pif' = Poll
       /\ \A u \in Thread : siQ' = <<End(u, "r", Poll)>> => answered' = Poll
       /\ lastCmd' = Poll => pif' = Poll
  BY <1>1, <1>2, <1>3, Ends1, OnePlace, InUse
<1> QED
  BY <1>1, <1>3, <1>4, <1>6, <1>7, <1>8, <1>10, <1>11, BusMoveInv
  DEF Busy, Waiting, Stages

\* A thread of which x is under way, and that x names a port it looks at.
LEMMA OnAPort ==
  ASSUME SerialInv, NEW t \in Thread, Serves(t), tx[t] # Poll
  PROVE  /\ tx[t].c = idx[t] /\ tx[t].c \in Ports /\ at[t] \in AtMotor
         /\ tx[t].cmd \in Selects \cup Detects \cup Motor
<1>1. WellServed(at[t], idx[t], tx[t], stage[t], done[t]) /\ tx[t] # NoTx
  BY ServedAt DEF Serves
<1>2. tx[t].c = idx[t] /\ at[t] \in AtMotor
  BY <1>1 DEF WellServed
<1>3. idx[t] \in Ports
  BY <1>2, ServedAt DEF WellPlaced
<1>4. tx[t].cmd \in Selects \cup Detects \cup Motor
  BY <1>1, <1>2 DEF WellServed, AtMotor, Motor
<1> QED
  BY <1>2, <1>3, <1>4

LEMMA SortsOfCommands ==
  /\ (Selects \cup Detects) \cap (Motor \cup {"poll", "status", "none"}) = {}
  /\ Motor \cap {"poll", "status", "none"} = {} /\ "stop" \in Motor /\ "start" \in Motor
BY DEF Selects, Detects, Motor

LEMMA ReadInv ==
  ASSUME SerialInv, NEW t \in Thread, Read(t)
  PROVE  BusInv'
<1>1. MayRun(t) /\ Serves(t) /\ stage[t] = "read" /\ siQ' = siQ
  BY DEF Read
<1>2. BusFree
  BY <1>1, InUse DEF Busy
<1>3. dma' = End(t, "r", tx[t]) /\ siQ' = <<>> /\ dma' # NoTx
  BY <1>1, <1>2, Started, Ends1 DEF Read, BusFree
<1>4. UNCHANGED <<pif, answered>> /\ Keeps
  BY DEF Read, Keeps, pads, world
<1>5. WellServed(at[t], idx[t], tx[t], "read", done[t]) /\ tx[t] # NoTx
  BY <1>1, ServedAt DEF Serves
<1>6. PICK a : a = AnswerTo(t)
  OBVIOUS
<1>7. PifFor(tx[t], "read", a) /\ pif = a
  BY <1>1, <1>6, InUse DEF PifFor
<1>8. tx[t] = Poll => pif = Poll
  BY <1>5, <1>7, Commands1 DEF PifFor
<1>9. \A u \in Thread : dma' = End(u, "r", Poll) => pif' = Poll
  <2>1. ASSUME NEW u \in Thread, dma' = End(u, "r", Poll)
        PROVE  pif' = Poll
    <3>1. tx[t] = Poll
      BY <1>3, <2>1, Ends1
    <3> QED
      BY <1>4, <1>8, <3>1
  <2> QED
    BY <2>1
<1>10. \A u \in Thread : siQ' = <<End(u, "r", Poll)>> => answered' = Poll
  BY <1>3, OnePlace
<1>11. CASE tx[t] = Poll
  <2>1. Ends(t, "ok") /\ lastCmd' = Poll /\ token' = 1
    BY <1>11 DEF Read, Ends
  <2>2. PICK d \in DoneSet : BusMove(t, NoTx, "get", d)
    BY <2>1, EndMoves DEF Results
  <2>3. at[t] \in Polling /\ at[t] \notin AtMotor
    BY <1>5, <1>11 DEF WellServed, Polling, AtMotor
  <2>4. WellServed(at[t], idx[t], NoTx, "get", d)
    <3>1. NoTx.cmd \notin Motor
      BY Commands1, SortsOfCommands
    <3>2. at[t] # "motor"
      BY <2>3 DEF AtMotor
    <3> QED
      BY <3>1, <3>2, Commands1 DEF WellServed
  <2>5. PollOnBus'
    <3>1. dma' = End(t, "r", Poll)
      BY <1>3, <1>11
    <3> QED
      BY <1>3, <3>1 DEF PollOnBus, OnBus, End
  <2>6. pif' = Poll /\ \A b : PifFor(NoTx, "get", b)'
    BY <1>4, <1>8, <1>11 DEF PifFor
  <2>7. at[t] \notin {"mstop", "rwait", "motor"}
    BY <2>3 DEF AtMotor
  <2> QED
    BY <1>1, <1>4, <1>9, <1>10, <2>1, <2>2, <2>3, <2>4, <2>5, <2>6, <2>7, BusMoveInv
    DEF Busy, Waiting, Stages
<1>12. CASE tx[t] # Poll
  <2>1. Stage(t, "readWait") /\ UNCHANGED <<token, lastCmd, tx, tries, done>>
    BY <1>12 DEF Read
  <2>2. BusMove(t, tx[t], "readWait", done[t]) /\ AnswerTo(t)' = a
    BY <1>6, <2>1, StageMoves DEF Stages
  <2>3. token = 0
    BY <1>1 DEF SerialInv, BusInv, OneToken, AllGet, SerialRanges
  <2>4. OnBus(AwaitedAt(t, tx[t], "readWait"))'
    BY <1>3, <2>1 DEF OnBus, AwaitedAt, End
  <2>5. WellServed(at[t], idx[t], tx[t], "readWait", done[t])
    BY <1>5, <1>12 DEF WellServed
  <2>6. PifFor(tx[t], "readWait", a)'
    BY <1>3, <1>4, <1>7, <2>1 DEF PifFor
  <2>7. lastCmd' = Poll => pif' = Poll
    BY <1>4, <2>1, InUse
  <2> QED
    BY <1>1, <1>3, <1>4, <1>9, <1>10, <2>1, <2>2, <2>3, <2>4, <2>5, <2>6, <2>7, BusMoveInv
    DEF Busy, Waiting, Stages
<1> QED
  BY <1>11, <1>12

\* The end of an operation on a pak.
LEMMA PakEndInv ==
  ASSUME SerialInv, NEW t \in Thread, MayRun(t), Serves(t), tx[t] # Poll, stage[t] # "get",
         NEW r \in Results, Ends(t, r), Keeps, BusFree',
         UNCHANGED <<pif, answered, lastCmd>>,
         tx[t].cmd = "stop" => ~moving[tx[t].c]
  PROVE  BusInv'
<1>1. PICK d \in DoneSet : d.cmd = tx[t] /\ BusMove(t, NoTx, "get", d)
  BY EndMoves
<1>2. token' = 1
  BY DEF Ends
<1>3. tx[t].c = idx[t] /\ at[t] \in AtMotor /\ tx[t].cmd \in Selects \cup Detects \cup Motor
  BY OnAPort
<1>4. at[t] \notin Polling
  BY <1>3 DEF AtMotor, Polling
<1>5. WellServed(at[t], idx[t], tx[t], stage[t], done[t]) /\ tx[t] # NoTx
  BY ServedAt DEF Serves
<1>6. WellServed(at[t], idx[t], NoTx, "get", d)
  <2>1. NoTx.cmd \notin Motor
    BY Commands1, SortsOfCommands
  <2>2. at[t] = "motor" => tx[t].cmd \in Motor
    BY <1>5 DEF WellServed
  <2> QED
    BY <1>1, <1>3, <2>1, <2>2, Commands1 DEF WellServed
<1>7. at[t] \in {"mstop", "rwait"} => tx[t].cmd = "stop"
  BY <1>5 DEF WellServed
<1>8. \A b : PifFor(NoTx, "get", b)'
  BY DEF PifFor
<1>9. /\ \A u \in Thread : dma' = End(u, "r", Poll) => pif' = Poll
      /\ \A u \in Thread : siQ' = <<End(u, "r", Poll)>> => answered' = Poll
      /\ lastCmd' = Poll => pif' = Poll
  BY Ends1, OnePlace, InUse DEF BusFree
<1> QED
  BY <1>1, <1>2, <1>3, <1>4, <1>6, <1>7, <1>8, <1>9, BusMoveInv DEF Busy, Waiting, Stages

LEMMA ReadWaitInv ==
  ASSUME SerialInv, NEW t \in Thread, ReadWait(t)
  PROVE  BusInv'
<1>1. MayRun(t) /\ Serves(t) /\ stage[t] = "readWait" /\ siQ # <<>> /\ siQ' = <<>>
  BY DEF ReadWait, Receives
<1>2. UNCHANGED <<dma, pif, answered, lastCmd>> /\ Keeps
  BY DEF ReadWait, Keeps, pads
<1>3. dma = NoTx
  BY <1>1, InUse, NoLonger DEF Waiting
<1>4. BusFree'
  BY <1>1, <1>2, <1>3 DEF BusFree
<1>5. WellServed(at[t], idx[t], tx[t], "readWait", done[t]) /\ tx[t] # NoTx
  BY <1>1, ServedAt DEF Serves
<1>6. tx[t] # Poll
  BY <1>5 DEF WellServed
<1>7. tx[t].cmd = "stop" => ~moving[tx[t].c]
  BY <1>1, <1>3 DEF SerialInv, BusInv, Motors, StopJustRead
<1>8. CASE \E r \in Results : Ends(t, r)
  BY <1>1, <1>2, <1>4, <1>6, <1>7, <1>8, PakEndInv
<1>9. CASE tx[t].cmd \notin Motor /\ Stage(t, "status") /\ UNCHANGED <<token, tx, tries, done>>
  <2>1. PICK a : a = AnswerTo(t)
    OBVIOUS
  <2>2. BusMove(t, tx[t], "status", done[t]) /\ AnswerTo(t)' = a
    BY <2>1, <1>9, StageMoves DEF Stages
  <2>3. token = 0
    BY <1>1 DEF SerialInv, BusInv, OneToken, AllGet, SerialRanges
  <2>4. WellServed(at[t], idx[t], tx[t], "status", done[t])
    BY <1>5, <1>6, <1>9 DEF WellServed
  <2>5. PifFor(tx[t], "status", a)'
    <3>1. PifFor(tx[t], "readWait", a)
      BY <1>1, <2>1, InUse
    <3> QED
      BY <1>9, <3>1 DEF PifFor
  <2>6. /\ \A u \in Thread : dma' = End(u, "r", Poll) => pif' = Poll
        /\ \A u \in Thread : siQ' = <<End(u, "r", Poll)>> => answered' = Poll
        /\ lastCmd' = Poll => pif' = Poll
    BY <1>1, <1>2, <1>3, Ends1, OnePlace, InUse
  <2> QED
    BY <1>1, <1>2, <1>4, <1>9, <2>2, <2>3, <2>4, <2>5, <2>6, BusMoveInv
    DEF Busy, Waiting, Stages
<1>10. (\E r \in Results : Ends(t, r))
       \/ (tx[t].cmd \notin Motor /\ Stage(t, "status") /\ UNCHANGED <<token, tx, tries, done>>)
  BY DEF ReadWait, Results
<1> QED
  BY <1>8, <1>9, <1>10

LEMMA StatusStepInv ==
  ASSUME SerialInv, NEW t \in Thread, StatusStep(t)
  PROVE  BusInv'
<1>1. MayRun(t) /\ Serves(t) /\ stage[t] \in {"status", "statusWait", "sread"}
      /\ UNCHANGED <<token, pif, answered, tx, tries, done>> /\ Keeps
  BY DEF StatusStep, Keeps, pads, world
<1>2. WellServed(at[t], idx[t], tx[t], stage[t], done[t]) /\ tx[t] # NoTx
  BY <1>1, ServedAt DEF Serves
<1>3. tx[t] # Poll /\ tx[t].cmd \notin Motor
  BY <1>1, <1>2 DEF WellServed
<1>4. tx[t].c \in Ports /\ tx[t].cmd \in Selects \cup Detects
  BY <1>1, <1>3, OnAPort
<1>5. token = 0
  BY <1>1 DEF SerialInv, BusInv, OneToken, AllGet, SerialRanges
<1>6. PICK a : a = AnswerTo(t)
  OBVIOUS
<1>7. PICK st : st = Tx("status", tx[t].c) /\ st = StatusOf(tx[t])
  BY DEF StatusOf
<1>8. PifFor(tx[t], stage[t], a)
  BY <1>6, InUse
<1>9. st # Poll
  BY <1>4, <1>7, Commands1
<1>10. ASSUME NEW s \in {"statusWait", "sread", "sreadWait"}
      PROVE  WellServed(at[t], idx[t], tx[t], s, done[t]) /\ s \in Stages
  BY <1>2, <1>3, <1>10 DEF WellServed, Stages
<1>11. CASE /\ stage[t] = "status" /\ StartDma(t, "w", st) /\ lastCmd' = NoTx
            /\ Stage(t, "statusWait") /\ UNCHANGED siQ
  <2>1. BusFree
    BY <1>11, InUse DEF Busy
  <2>2. dma' = End(t, "w", st) /\ siQ' = <<>>
    BY <1>11, <2>1, Started DEF BusFree
  <2>3. BusMove(t, tx[t], "statusWait", done[t]) /\ AnswerTo(t)' = a
    BY <1>6, <1>1, <1>11, StageMoves DEF Stages
  <2>4. OnBus(AwaitedAt(t, tx[t], "statusWait"))'
    BY <1>1, <1>7, <2>2 DEF OnBus, AwaitedAt, End, Tx
  <2>5. PifFor(tx[t], "statusWait", a)'
    BY <1>1, <1>3, <1>11, <1>8, <2>2, Commands1 DEF PifFor
  <2>6. \A u \in Thread : dma' # End(u, "r", Poll)
    BY <1>9, <2>2, Ends1
  <2> QED
    BY <1>1, <1>5, <1>10, <1>11, <2>2, <2>3, <2>4, <2>5, <2>6, Commands1, OnePlace, BusMoveInv
    DEF Busy, Waiting, Stages
<1>12. CASE /\ stage[t] = "statusWait" /\ Receives(t) /\ Stage(t, "sread")
            /\ UNCHANGED <<dma, lastCmd>>
  <2>1. siQ # <<>> /\ siQ' = <<>>
    BY <1>12 DEF Receives
  <2>2. dma = NoTx
    BY <1>12, <2>1, InUse, NoLonger DEF Waiting
  <2>3. BusFree'
    BY <1>12, <2>1, <2>2 DEF BusFree
  <2>4. BusMove(t, tx[t], "sread", done[t]) /\ AnswerTo(t)' = a
    BY <1>6, <1>1, <1>12, StageMoves DEF Stages
  <2>5. PifFor(tx[t], "sread", a)'
    BY <1>1, <1>3, <1>12, <1>8, <2>1 DEF PifFor, StatusOf, Tx
  <2>6. /\ \A u \in Thread : dma' = End(u, "r", Poll) => pif' = Poll
        /\ \A u \in Thread : siQ' = <<End(u, "r", Poll)>> => answered' = Poll
        /\ lastCmd' = Poll => pif' = Poll
    BY <1>1, <1>12, <2>1, <2>2, Ends1, OnePlace, InUse
  <2> QED
    BY <1>1, <1>5, <1>10, <1>12, <2>3, <2>4, <2>5, <2>6, BusMoveInv
    DEF Busy, Waiting, Stages
<1>13. CASE /\ stage[t] = "sread" /\ StartDma(t, "r", st) /\ Stage(t, "sreadWait")
            /\ UNCHANGED <<siQ, lastCmd>>
  <2>1. BusFree
    BY <1>13, InUse DEF Busy
  <2>2. dma' = End(t, "r", st) /\ siQ' = <<>>
    BY <1>13, <2>1, Started DEF BusFree
  <2>3. BusMove(t, tx[t], "sreadWait", done[t]) /\ AnswerTo(t)' = a
    BY <1>6, <1>1, <1>13, StageMoves DEF Stages
  <2>4. OnBus(AwaitedAt(t, tx[t], "sreadWait"))'
    BY <1>1, <1>7, <2>2 DEF OnBus, AwaitedAt, End, Tx
  <2>5. PifFor(tx[t], "sreadWait", a)'
    BY <1>1, <1>3, <1>13, <1>8, <2>2, Ends1 DEF PifFor, StatusOf, Tx
  <2>6. \A u \in Thread : dma' # End(u, "r", Poll)
    BY <1>9, <2>2, Ends1
  <2>7. lastCmd' = Poll => pif' = Poll
    BY <1>1, <1>13, InUse
  <2> QED
    BY <1>1, <1>5, <1>10, <2>2, <2>3, <2>4, <2>5, <2>6, <2>7, OnePlace, BusMoveInv
    DEF Busy, Waiting, Stages
<1> QED
  BY <1>7, <1>11, <1>12, <1>13 DEF StatusStep

\* A retry: the older library does not send the command anew, and reads what the
\* PIF has of the status.
LEMMA TriedAgain ==
  ASSUME SerialInv, NEW t \in Thread, NEW s \in Stages, Stage(t, s), UNCHANGED <<tx, done>>,
         tries' = [tries EXCEPT ![t] = @ - 1], tries[t] > 0
  PROVE  /\ BusMove(t, tx[t], s, done[t])
         /\ AnswerTo(t)' = IF RewritesOnRetry THEN tx[t] ELSE StatusOf(tx[t])
<1>1. tries \in [Thread -> 0..Retries] /\ Retries \in Nat
  BY SerialAssumption DEF SerialInv, BusInv, SerialRanges, Tried
<1>2. PICK n \in 0..Retries : n = tries[t]
  BY <1>1
<1>3. n - 1 \in 0..Retries /\ n - 1 < Retries
  BY <1>1, <1>2
<1>4. tries' \in Tried /\ tries'[t] = n - 1 /\ \A u \in Thread : u # t => tries'[u] = tries[u]
  BY <1>1, <1>2, <1>3 DEF Tried
<1>5. BusMove(t, tx[t], s, done[t])
  BY <1>4 DEF SerialInv, BusInv, SerialRanges, Serving, Staged, Ended, Stage, BusMove
<1>6. tries'[t] < Retries
  BY <1>3, <1>4
<1> QED
  BY <1>5, <1>6 DEF AnswerTo, StatusOf, Tx

LEMMA StatusWaitInv ==
  ASSUME SerialInv, NEW t \in Thread, StatusWait(t)
  PROVE  BusInv'
<1>1. MayRun(t) /\ Serves(t) /\ stage[t] = "sreadWait" /\ siQ # <<>> /\ siQ' = <<>>
  BY DEF StatusWait, Receives
<1>2. UNCHANGED <<dma, pif, answered, lastCmd>> /\ Keeps
  BY DEF StatusWait, Keeps, pads
<1>3. dma = NoTx
  BY <1>1, InUse, NoLonger DEF Waiting
<1>4. BusFree'
  BY <1>1, <1>2, <1>3 DEF BusFree
<1>5. WellServed(at[t], idx[t], tx[t], "sreadWait", done[t]) /\ tx[t] # NoTx
  BY <1>1, ServedAt DEF Serves
<1>6. tx[t] # Poll /\ tx[t].cmd \notin Motor
  BY <1>5 DEF WellServed
<1>7. tx[t].cmd # "stop"
  BY <1>6 DEF Motor
<1>8. CASE \E r \in Results : Ends(t, r)
  BY <1>1, <1>2, <1>4, <1>6, <1>7, <1>8, PakEndInv
<1>9. ASSUME tries' = [tries EXCEPT ![t] = @ - 1], tries[t] > 0, UNCHANGED <<token, tx, done>>,
             NEW s, s = (IF RewritesOnRetry THEN "write" ELSE "read"), Stage(t, s)
      PROVE  BusInv'
  <2>1. s \in Stages /\ s \in Busy /\ s \notin Waiting /\ s # "get"
    BY <1>9 DEF Stages, Busy, Waiting
  <2>2. BusMove(t, tx[t], s, done[t])
    BY <1>9, <2>1, TriedAgain
  <2>3. token = 0
    BY <1>1 DEF SerialInv, BusInv, OneToken, AllGet, SerialRanges
  <2>4. WellServed(at[t], idx[t], tx[t], s, done[t])
    BY <1>5, <1>6, <1>9 DEF WellServed
  <2>5. tx[t].cmd \in Selects \cup Detects
    BY <1>1, <1>6, OnAPort
  <2>6. tx[t].cmd \notin Motor \cup {"poll"}
    BY <2>5, SortsOfCommands
  <2>7. AnswerTo(t)' = IF RewritesOnRetry THEN tx[t] ELSE StatusOf(tx[t])
    BY <1>9, <2>1, TriedAgain
  <2>8. PICK a : a = AnswerTo(t)' /\ a = (IF RewritesOnRetry THEN tx[t] ELSE StatusOf(tx[t]))
    BY <2>7
  <2>9. PifFor(tx[t], s, a)'
    <3>1. pif = StatusOf(tx[t])
      BY <1>1, InUse DEF PifFor
    <3> QED
      BY <1>2, <1>9, <2>6, <2>8, <3>1 DEF PifFor
  <2>10. /\ \A u \in Thread : dma' = End(u, "r", Poll) => pif' = Poll
         /\ \A u \in Thread : siQ' = <<End(u, "r", Poll)>> => answered' = Poll
         /\ lastCmd' = Poll => pif' = Poll
    BY <1>1, <1>2, <1>3, Ends1, OnePlace, InUse
  <2> QED
    BY <1>1, <1>2, <1>4, <1>9, <2>1, <2>2, <2>3, <2>4, <2>8, <2>9, <2>10, BusMoveInv
<1>10. \/ \E r \in Results : Ends(t, r)
       \/ /\ tries' = [tries EXCEPT ![t] = @ - 1] /\ tries[t] > 0 /\ UNCHANGED <<token, tx, done>>
          /\ Stage(t, IF RewritesOnRetry THEN "write" ELSE "read")
  BY DEF StatusWait, Results
<1> QED
  BY <1>8, <1>9, <1>10

-----------------------------------------------------------------------------
(* The end of a DMA.                                                       *)

\* It is the one that somebody waits for, or a poll's.
LEMMA WhoseDma ==
  ASSUME SerialInv, dma # NoTx
  PROVE  /\ siQ = <<>>
         /\ \/ \E t \in Thread : stage[t] \in Waiting /\ dma = AwaitedAt(t, tx[t], stage[t])
            \/ AllGet /\ \E u \in Thread : dma = End(u, "r", Poll)
<1>1. CASE AllGet
  <2>1. Owed
    BY <1>1 DEF SerialInv, BusInv, BusUse, BusFree
  <2>2. PICK u \in Thread : OnBus(End(u, "r", Poll))
    BY <1>1, <2>1 DEF SerialInv, BusInv, BusUse, PollOnBus
  <2> QED
    BY <1>1, <2>2 DEF OnBus
<1>2. CASE ~AllGet
  <2>1. PICK t \in Thread : stage[t] # "get"
    BY <1>2 DEF AllGet
  <2>2. stage[t] \in Busy \cup Waiting
    BY <2>1, ServedAt, StageCases
  <2>3. stage[t] \notin Busy
    BY InUse DEF BusFree
  <2>4. OnBus(AwaitedAt(t, tx[t], stage[t]))
    BY <2>2, <2>3, InUse
  <2> QED
    BY <2>2, <2>3, <2>4 DEF OnBus
<1> QED
  BY <1>1, <1>2

\* What does not depend on the interface.
InterruptKeeps ==
  UNCHANGED <<token, lastCmd, tx, stage, done, tries, at, idx, back, flag, saved, resetStarted,
              err, want, pak, on, init, ready, connected, portOf, dev, comes>>

LEMMA OwedKept ==
  ASSUME InterruptKeeps
  PROVE  (Owed' <=> Owed) /\ (AllGet' <=> AllGet) /\ \A u : Active(u)' <=> Active(u)
BY DEF InterruptKeeps, Owed, OwedToGame, OwedToDisk, Expecting, Active, AllGet

\* The queue's one place holds the end now.
LEMMA EndIsPosted ==
  ASSUME SerialInv, dma # NoTx, dma' = NoTx, siQ' = <<dma>>, InterruptKeeps
  PROVE  BusUse'
<1>1. siQ = <<>>
  BY WhoseDma
<1>2. UNCHANGED <<tx, stage>>
  BY DEF InterruptKeeps
<1>3. ASSUME NEW u \in Thread, stage'[u] \in Busy
      PROVE  FALSE
  BY <1>2, <1>3, InUse DEF BusFree
<1>4. ASSUME NEW u \in Thread, stage'[u] \in Waiting
      PROVE  OnBus(AwaitedAt(u, tx[u], stage[u]))'
  <2>1. OnBus(AwaitedAt(u, tx[u], stage[u]))
    BY <1>2, <1>4, InUse
  <2>2. dma = AwaitedAt(u, tx[u], stage[u])
    BY <2>1 DEF OnBus
  <2> QED
    BY <1>2, <2>2 DEF OnBus, AwaitedAt, End
<1>5. AllGet /\ Owed => PollOnBus'
  <2>1. ASSUME AllGet, Owed
        PROVE  PollOnBus'
    <3>1. PICK u \in Thread : OnBus(End(u, "r", Poll))
      BY <2>1 DEF SerialInv, BusInv, BusUse, PollOnBus
    <3>2. dma = End(u, "r", Poll)
      BY <3>1 DEF OnBus
    <3>3. OnBus(End(u, "r", Poll))'
      BY <3>2 DEF OnBus, End
    <3> QED
      BY <3>3 DEF PollOnBus
  <2> QED
    BY <2>1
<1>6. AllGet /\ ~Owed => FALSE
  BY DEF SerialInv, BusInv, BusUse, BusFree
<1> QED
  BY <1>3, <1>4, <1>5, <1>6, OwedKept DEF BusUse

\* At an end that is read: no motor is started but by the thread that waits.
LEMMA WhatIsExecuted ==
  ASSUME SerialInv, dma # NoTx, dma.dir = "r", pif.cmd \in Motor
  PROVE  \E t \in Thread :
           /\ stage[t] = "readWait" /\ pif = tx[t] /\ tx[t].c = idx[t] /\ tx[t].c \in Ports
           /\ at[t] \in AtMotor
           /\ tx[t].cmd = "start" => at[t] = "motor"
<1>1. ~\E u \in Thread : dma = End(u, "r", Poll)
  BY InUse, Commands1, SortsOfCommands
<1>2. PICK t \in Thread : stage[t] \in Waiting /\ dma = AwaitedAt(t, tx[t], stage[t])
  BY <1>1, WhoseDma
<1>3. stage[t] \in {"readWait", "sreadWait"}
  BY <1>2, Ends1 DEF AwaitedAt, Waiting
<1>4. WellServed(at[t], idx[t], tx[t], stage[t], done[t])
  BY ServedAt
<1>5. tx[t] # NoTx /\ tx[t] # Poll
  BY <1>3, <1>4 DEF WellServed
<1>6. tx[t].c = idx[t] /\ tx[t].c \in Ports /\ at[t] \in AtMotor
      /\ tx[t].cmd \in Selects \cup Detects \cup Motor
  BY <1>5, OnAPort DEF Serves
<1>7. PifFor(tx[t], stage[t], AnswerTo(t)) /\ StatusOf(tx[t]).cmd \notin Motor
  BY <1>6, InUse, Commands1, SortsOfCommands DEF StatusOf
<1>8. stage[t] = "readWait" /\ pif = AnswerTo(t)
  BY <1>3, <1>7 DEF PifFor
<1>9. pif = tx[t]
  BY <1>7, <1>8 DEF AnswerTo, StatusOf
<1>10. tx[t].cmd = "start" => at[t] = "motor"
  <2>1. "start" \notin Selects \cup Detects /\ "start" # "stop"
    BY SortsOfCommands
  <2> QED
    BY <1>4, <1>5, <1>6, <2>1 DEF WellServed, AtMotor
<1> QED
  BY <1>6, <1>8, <1>9, <1>10

\* While a thread starts a motor no other one has just stopped one, and the reset
\* thread is not past any.
LEMMA OneStarts ==
  ASSUME SerialInv, NEW t \in Thread, at[t] = "motor", stage[t] # "get"
  PROVE  /\ \A u \in Thread : u # t /\ at[u] \in {"motor", "mstop", "rwait"} => tx[u] # NoTx
         /\ Active("reset") => at["reset"] = "motor"
<1>1. ASSUME NEW v \in Thread, v # "game", at[v] # "away"
      PROVE  v \in {"reset", "disk"} /\ Active(v)
  BY <1>1 DEF Thread, Active
<1>2. ~(Active("reset") /\ Active("disk"))
  BY WhoIsAbout
<1>3. CASE t = "game"
  <2>1. ~Active("disk")
    BY <1>3 DEF SerialInv, BusInv, Phases, InMessage
  <2>2. ~Active("reset")
    BY <1>3 DEF SerialInv, BusInv, Phases, InReset, ApartPlaces
  <2> QED
    BY <1>1, <1>3, <2>1, <2>2
<1>4. CASE t = "disk"
  <2>1. Active("disk") /\ ~Active("reset")
    BY <1>1, <1>2, <1>4
  <2>2. at["game"] \in {"motor", "mstop", "rwait"} => tx["game"] # NoTx
    BY <2>1 DEF SerialInv, BusInv, Phases, InMessage
  <2> QED
    BY <1>1, <1>4, <2>1, <2>2
<1>5. CASE t = "reset"
  <2>1. Active("reset") /\ ~Active("disk")
    BY <1>1, <1>2, <1>5
  <2>2. at["game"] \in {"frame", "inputs", "reset", "recv"}
    BY <1>5, <2>1, GameIsTakenFrom DEF Taking
  <2> QED
    BY <1>1, <1>5, <2>1, <2>2
<1> QED
  BY <1>3, <1>4, <1>5, TheThreads

LEMMA InterruptMotors ==
  ASSUME SerialInv, dma # NoTx, dma' = NoTx, InterruptKeeps,
         IF dma.dir = "w" THEN moving' = moving ELSE Executes(pif),
         dma.dir = "w" \/ dma.dir = "r"
  PROVE  Motors' /\ moving' \in Flags
<1>1. UNCHANGED <<tx, stage, done, at, idx, on, pak, dev>>
  BY DEF InterruptKeeps
<1>2. moving \in Flags /\ dev \in Plugs
  BY DEF SerialInv, BusInv, SerialRanges
<1>3. \A c \in Ports : TurnsRightly(c)' <=> TurnsRightly(c)
  BY <1>1 DEF TurnsRightly, OperatedOn, PassedByReset, Active
<1>4. \A t \in Thread : StopJustDone(t)' <=> StopJustDone(t)
  BY <1>1 DEF StopJustDone
<1>5. /\ \A c \in Ports : moving[c] => TurnsRightly(c)
      /\ \A t \in Thread : StopJustRead(t) => ~moving[tx[t].c]
      /\ \A t \in Thread : StopJustDone(t) => ~moving[idx[t]]
  BY DEF SerialInv, BusInv, Motors
\* Who has read the answer to a stop when this DMA ends waited for it.
<1>6. ASSUME NEW t \in Thread, StopJustRead(t)'
      PROVE  /\ stage[t] = "readWait" /\ tx[t].cmd = "stop" /\ tx[t].c \in Ports
             /\ dma.dir = "r" /\ pif = tx[t]
  <2>1. stage[t] = "readWait" /\ tx[t].cmd = "stop"
    BY <1>1, <1>6 DEF StopJustRead
  <2>2. OnBus(AwaitedAt(t, tx[t], "readWait"))
    BY <2>1, InUse DEF Waiting
  <2>3. dma = End(t, "r", tx[t])
    BY <2>2 DEF OnBus, AwaitedAt
  <2>4. tx[t].cmd \in Motor /\ pif = tx[t]
    <3>1. PifFor(tx[t], "readWait", AnswerTo(t)) /\ tx[t].cmd \in Motor
      BY <2>1, InUse, SortsOfCommands
    <3>2. tx[t] # NoTx
      BY <3>1, Commands1, SortsOfCommands
    <3> QED
      BY <3>1, <3>2 DEF PifFor
  <2>5. tx[t] # NoTx /\ tx[t] # Poll
    BY <2>4, Commands1, SortsOfCommands
  <2> QED
    BY <2>1, <2>3, <2>4, <2>5, Ends1, OnAPort DEF Serves
<1>7. CASE moving' = moving
  <2>1. ASSUME NEW t \in Thread, StopJustRead(t)'
        PROVE  ~moving[tx[t].c]
    <3>1. /\ tx[t].cmd = "stop" /\ tx[t].c \in Ports /\ dma.dir = "r" /\ pif = tx[t]
      BY <1>6, <2>1
    <3>2. Executes(pif)
      BY <3>1
    <3>3. dev[tx[t].c] = "rumble" => ~moving'[tx[t].c]
      BY <1>2, <3>1, <3>2, SortsOfCommands DEF Executes, Flags
    <3> QED
      BY <1>5, <1>7, <3>1, <3>3 DEF TurnsRightly
  <2> QED
    BY <1>1, <1>2, <1>3, <1>4, <1>5, <1>7, <2>1 DEF Motors
<1>8. CASE moving' # moving
  <2>1. dma.dir = "r" /\ pif.cmd \in Motor /\ dev[pif.c] = "rumble"
        /\ moving' = [moving EXCEPT ![pif.c] = (pif.cmd = "start")]
    BY <1>8 DEF Executes
  <2>2. PICK t \in Thread :
           /\ stage[t] = "readWait" /\ pif = tx[t] /\ tx[t].c = idx[t] /\ tx[t].c \in Ports
           /\ at[t] \in AtMotor
           /\ tx[t].cmd = "start" => at[t] = "motor"
    BY <2>1, WhatIsExecuted
  <2>3. PICK c \in Ports : c = pif.c /\ c = idx[t]
    BY <2>2
  <2>4. /\ moving' \in Flags /\ moving'[c] = (pif.cmd = "start")
        /\ \A b \in Ports : b # c => moving'[b] = moving[b]
    BY <1>2, <2>1, <2>3 DEF Flags
  <2>5. ASSUME moving'[c]
        PROVE  /\ TurnsRightly(c)
               /\ \A u \in Thread : StopJustDone(u) => idx[u] # c
    <3>1. pif.cmd = "start" /\ at[t] = "motor"
      BY <2>2, <2>4, <2>5
    <3>2. /\ Active("reset") => at["reset"] = "motor"
          /\ \A u \in Thread : u # t /\ at[u] \in {"motor", "mstop", "rwait"} => tx[u] # NoTx
      BY <2>2, <3>1, OneStarts
    <3>3. TurnsRightly(c)
      BY <2>1, <2>2, <2>3, <3>2 DEF TurnsRightly, OperatedOn, PassedByReset
    <3>4. tx[t] # NoTx
      BY <2>1, <2>2, Commands1, SortsOfCommands
    <3>5. \A u \in Thread : StopJustDone(u) => at[u] \in {"motor", "mstop", "rwait"} /\ tx[u] = NoTx
      BY DEF StopJustDone
    <3>6. \A u \in Thread : StopJustDone(u) => FALSE
      BY <3>2, <3>4, <3>5
    <3> QED
      BY <3>3, <3>6
  <2>6. \A b \in Ports : moving'[b] => TurnsRightly(b)'
    BY <1>3, <1>5, <2>4, <2>5
  <2>7. ASSUME NEW u \in Thread, StopJustRead(u)'
        PROVE  ~moving'[tx'[u].c]
    <3>1. tx[u].cmd = "stop" /\ pif = tx[u]
      BY <1>6, <2>7
    <3>2. tx[u].c = c /\ pif.cmd # "start"
      BY <2>3, <3>1
    <3> QED
      BY <1>1, <2>4, <3>2
  <2>8. ASSUME NEW u \in Thread, StopJustDone(u)'
        PROVE  ~moving'[idx'[u]]
    <3>1. StopJustDone(u) /\ at[u] \in AtMotor
      BY <1>4, <2>8 DEF StopJustDone, AtMotor
    <3>2. idx[u] \in Ports /\ ~moving[idx[u]]
      BY <1>5, <3>1, ServedAt DEF WellPlaced
    <3>3. moving'[c] => idx[u] # c
      BY <2>5, <3>1
    <3> QED
      BY <1>1, <2>4, <3>2, <3>3
  <2> QED
    BY <2>4, <2>6, <2>7, <2>8 DEF Motors
<1> QED
  BY <1>7, <1>8

LEMMA InterruptPif ==
  ASSUME SerialInv, dma # NoTx, dma' = NoTx, siQ' = <<dma>>, InterruptKeeps,
         IF dma.dir = "w" THEN pif' = dma.what /\ answered' = answered
                          ELSE pif' = pif /\ answered' = pif,
         dma.dir = "w" \/ dma.dir = "r"
  PROVE  PifHas'
<1>1. UNCHANGED <<tx, stage, tries, lastCmd>> /\ siQ = <<>>
  BY WhoseDma DEF InterruptKeeps
<1>2. CASE dma.dir = "r"
  <2>1. pif' = pif /\ answered' = pif
    BY <1>2
  <2>2. ASSUME NEW u \in Thread
        PROVE  PifFor(tx[u], stage[u], AnswerTo(u))'
    <3>1. PifFor(tx[u], stage[u], AnswerTo(u))
      BY InUse
    <3>2. stage[u] \notin {"written", "statusWait"}
      <4>1. ASSUME stage[u] \in {"written", "statusWait"}
            PROVE  FALSE
        <5>1. OnBus(AwaitedAt(u, tx[u], stage[u]))
          BY <4>1, InUse DEF Waiting
        <5>2. dma = AwaitedAt(u, tx[u], stage[u])
          BY <5>1 DEF OnBus
        <5> QED
          BY <1>2, <4>1, <5>2, Ends1 DEF AwaitedAt
      <4> QED
        BY <4>1
    <3>3. PICK x, z, a : x = tx[u] /\ z = stage[u] /\ a = AnswerTo(u)
      OBVIOUS
    <3>4. tx'[u] = x /\ stage'[u] = z /\ AnswerTo(u)' = a
      BY <1>1, <3>3 DEF AnswerTo, Tx
    <3>5. PifFor(x, z, a)'
      BY <1>1, <2>1, <3>1, <3>2, <3>3 DEF PifFor
    <3> QED
      BY <3>4, <3>5 DEF PifFor, StatusOf, Tx
  <2>3. ASSUME NEW u \in Thread, siQ' = <<End(u, "r", Poll)>>
        PROVE  answered' = Poll
    <3>1. dma = End(u, "r", Poll)
      BY <2>3, OnePlace
    <3> QED
      BY <2>1, <3>1, InUse
  <2>4. lastCmd' = Poll => pif' = Poll
    BY <1>1, <2>1, TheThreads, InUse
  <2>5. \A u \in Thread : dma' # End(u, "r", Poll)
    BY Ends1
  <2> QED
    BY <2>2, <2>3, <2>4, <2>5 DEF PifHas, End
<1>3. CASE dma.dir = "w"
  <2>1. pif' = dma.what
    BY <1>3
  <2>2. \A u \in Thread : dma # End(u, "r", Poll)
    BY <1>3, Ends1
  <2>3. PICK t \in Thread : stage[t] \in Waiting /\ dma = AwaitedAt(t, tx[t], stage[t])
    BY <2>2, WhoseDma
  <2>4. stage[t] \in {"written", "statusWait"} /\ dma.what = (IF stage[t] = "statusWait"
          THEN Tx("status", tx[t].c) ELSE tx[t])
    BY <1>3, <2>3, Ends1 DEF AwaitedAt, Waiting
  <2>5. PifFor(tx[t], stage[t], AnswerTo(t)) /\ (lastCmd = Poll => pif = Poll)
    BY InUse
  <2>6. PICK x, z, a : x = tx[t] /\ z = stage[t] /\ a = AnswerTo(t)
    OBVIOUS
  <2>7. pif' = (IF z = "statusWait" THEN StatusOf(x) ELSE x) /\ z \in {"written", "statusWait"}
    BY <2>1, <2>4, <2>6 DEF StatusOf
  <2>8. PifFor(x, z, a)' /\ (lastCmd' = Poll => pif' = Poll)
    <3>1. PifFor(x, z, a)'
      BY <1>1, <2>5, <2>6, <2>7 DEF PifFor
    <3>2. z = "statusWait" => x # Poll
      BY <2>6, ServedAt DEF WellServed
    <3>3. lastCmd = Poll => x = Poll /\ z = "written"
      BY <2>5, <2>6, <2>7, <3>2 DEF PifFor
    <3> QED
      BY <1>1, <2>7, <3>1, <3>3
  <2>9. ASSUME NEW u \in Thread
        PROVE  PifFor(tx[u], stage[u], AnswerTo(u))'
    <3>1. AnswerTo(u)' = AnswerTo(u)
      BY <1>1 DEF AnswerTo, Tx
    <3>2. CASE u = t
      BY <1>1, <2>6, <2>8, <3>1, <3>2 DEF PifFor, StatusOf, Tx
    <3>3. CASE u # t
      <4>1. stage'[u] = "get" /\ stage[u] = "get"
        BY <1>1, <2>3, <3>3, StageCases DEF SerialInv, BusInv, OneToken
      <4>2. PifFor(tx[u], "get", AnswerTo(u))
        BY <4>1, InUse
      <4> QED
        BY <1>1, <3>1, <4>1, <4>2 DEF PifFor
    <3> QED
      BY <3>2, <3>3
  <2>10. \A u \in Thread : dma' # End(u, "r", Poll)
    BY Ends1
  <2>11. \A u \in Thread : siQ' # <<End(u, "r", Poll)>>
    BY <2>2, OnePlace
  <2> QED
    BY <2>8, <2>9, <2>10, <2>11 DEF PifHas, End
<1> QED
  BY <1>2, <1>3

LEMMA SiInterruptInv ==
  ASSUME SerialInv, SiInterrupt
  PROVE  BusInv'
<1>1. dma # NoTx /\ dma' = NoTx /\ siQ' = <<dma>>
  BY WhoseDma DEF SiInterrupt
<1>2. InterruptKeeps
  BY DEF SiInterrupt, InterruptKeeps, call, place, game, pads
<1>3. dma.dir = "w" \/ dma.dir = "r"
  <2>1. CASE \E u \in Thread : dma = End(u, "r", Poll)
    BY <2>1, Ends1
  <2>2. CASE \E t \in Thread : dma = AwaitedAt(t, tx[t], stage[t])
    BY <2>2, Ends1 DEF AwaitedAt
  <2> QED
    BY <1>1, <2>1, <2>2, WhoseDma
<1>4. IF dma.dir = "w" THEN pif' = dma.what /\ answered' = answered
                       ELSE pif' = pif /\ answered' = pif
  BY DEF SiInterrupt
<1>5. IF dma.dir = "w" THEN moving' = moving ELSE Executes(pif)
  BY DEF SiInterrupt
<1>6. Motors' /\ moving' \in Flags
  BY <1>1, <1>2, <1>3, <1>5, InterruptMotors
<1>7. PifHas'
  BY <1>1, <1>2, <1>3, <1>4, InterruptPif
<1>8. BusUse'
  BY <1>1, <1>2, EndIsPosted
<1>9. SerialRanges' /\ Served' /\ OneToken' /\ Phases'
  <2> USE DEF InterruptKeeps
  <2>1. SerialRanges'
    BY <1>2, <1>6 DEF SerialInv, BusInv, SerialRanges
  <2>2. Served'
    BY <1>2 DEF SerialInv, BusInv, Served, WellServed
  <2>3. OneToken'
    BY <1>2 DEF SerialInv, BusInv, OneToken, AllGet
  <2>4. Phases'
    BY <1>2 DEF SerialInv, BusInv, Phases, InReset, InMessage, Expecting, OwedToGame, Active
  <2> QED
    BY <2>1, <2>2, <2>3, <2>4
<1> QED
  BY <1>6, <1>7, <1>8, <1>9 DEF BusInv

\* Pulling or putting in a pak stops its motor.
LEMMA ReplugInv ==
  ASSUME SerialInv, NEW c \in Ports, NEW d \in Devices, Replug(c, d)
  PROVE  BusInv'
<1>1. UNCHANGED <<dma, siQ, token, pif, answered, lastCmd, tx, stage, done, tries, at, idx, back,
                  flag, saved, resetStarted, err, on, pak, comes>>
  BY DEF Replug, bus, call, place, game, pads
<1>2. /\ moving' \in Flags /\ dev' \in Plugs /\ moving'[c] = FALSE
      /\ \A b \in Ports : b # c => moving'[b] = moving[b] /\ dev'[b] = dev[b]
  BY DEF Replug, SetAt, SerialInv, BusInv, SerialRanges, Flags, Plugs
<1>3. SerialRanges'
  BY <1>1, <1>2 DEF SerialInv, BusInv, SerialRanges
<1>4. Served'
  BY <1>1 DEF SerialInv, BusInv, Served, WellServed
<1>5. OneToken'
  BY <1>1 DEF SerialInv, BusInv, OneToken, AllGet
<1>6. Phases'
  BY <1>1 DEF SerialInv, BusInv, Phases, InReset, InMessage, Expecting, OwedToGame, Active
<1>7. BusUse'
  BY <1>1 DEF SerialInv, BusInv, BusUse, BusFree, OnBus, PollOnBus, AllGet, Owed, OwedToGame,
     OwedToDisk, Expecting, Active, AwaitedAt, End
<1>8. PifHas'
  BY <1>1 DEF SerialInv, BusInv, PifHas, PifFor, AnswerTo, StatusOf, Tx, End
<1>9. ASSUME NEW b \in Ports, moving'[b]
      PROVE  TurnsRightly(b)'
  <2>1. b # c /\ moving[b]
    BY <1>2, <1>9
  <2>2. TurnsRightly(b)
    BY <2>1 DEF SerialInv, BusInv, Motors
  <2> QED
    BY <1>1, <1>2, <2>1, <2>2 DEF TurnsRightly, OperatedOn, PassedByReset, Active
<1>10. ASSUME NEW b, ~moving[b], b \in Ports
       PROVE  ~moving'[b]
  BY <1>2, <1>10
<1>11. ASSUME NEW t \in Thread, StopJustRead(t)'
       PROVE  ~moving'[tx'[t].c]
  <2>1. StopJustRead(t) /\ tx[t].cmd \in Motor
    BY <1>1, <1>11, SortsOfCommands DEF StopJustRead
  <2>2. tx[t] # NoTx /\ tx[t] # Poll
    BY <2>1, Commands1, SortsOfCommands
  <2>3. tx[t].c \in Ports
    BY <2>2, OnAPort DEF Serves
  <2> QED
    BY <1>1, <1>10, <2>1, <2>3 DEF SerialInv, BusInv, Motors
<1>12. ASSUME NEW t \in Thread, StopJustDone(t)'
       PROVE  ~moving'[idx'[t]]
  <2>1. StopJustDone(t) /\ at[t] \in AtMotor
    BY <1>1, <1>12 DEF StopJustDone, AtMotor
  <2>2. idx[t] \in Ports
    BY <2>1, ServedAt DEF WellPlaced
  <2> QED
    BY <1>1, <1>10, <2>1, <2>2 DEF SerialInv, BusInv, Motors
<1>13. Motors'
  BY <1>9, <1>11, <1>12 DEF Motors
<1> QED
  BY <1>3, <1>4, <1>5, <1>6, <1>7, <1>8, <1>13 DEF BusInv

-----------------------------------------------------------------------------
(* A step of a thread that has the bus do nothing.                         *)

\* t comes to p, looking at port i, and has the bus do x.
SpotMove(t, p, i, x) ==
  /\ at'[t] = p /\ idx'[t] = i /\ tx'[t] = x
  /\ tx' \in Serving /\ stage' = stage /\ done' = done
  /\ tries' \in Tried /\ (x # NoTx => tries'[t] = Retries)
  /\ \A u \in Thread : u # t => /\ at'[u] = at[u] /\ idx'[u] = idx[u]
                                /\ tx'[u] = tx[u] /\ tries'[u] = tries[u]

BusKept == UNCHANGED <<dma, siQ, token, pif, answered, lastCmd>>

LEMMA SpotServed ==
  ASSUME SerialInv, NEW t \in Thread, tx[t] = NoTx,
         NEW p, NEW i, NEW x, SpotMove(t, p, i, x),
         x # NoTx => x = Poll \/ (x.c = i /\ p \in AtMotor),
         x = Poll => p \in Polling,
         x # NoTx /\ p = "minit" => x.cmd \in Selects \cup Detects,
         x # NoTx /\ p = "motor" => x.cmd \in Motor,
         x # NoTx /\ p \in {"mstop", "rwait"} => x.cmd = "stop",
         x = NoTx => p # "motor"
  PROVE  Served'
<1>1. stage[t] = "get"
  BY ServedAt DEF WellServed
<1>2. WellServed(p, i, x, "get", done[t])
  BY DEF WellServed
<1>3. ASSUME NEW u \in Thread
      PROVE  WellServed(at'[u], idx'[u], tx'[u], stage'[u], done'[u])
  <2>1. CASE u = t
    BY <1>1, <1>2, <2>1 DEF SpotMove
  <2>2. CASE u # t
    BY <2>2, ServedAt DEF SpotMove
  <2> QED
    BY <2>1, <2>2
<1>4. ASSUME NEW u \in Thread
      PROVE  WellServed(at[u], idx[u], tx[u], stage[u], done[u])'
  BY <1>3 DEF WellServed
<1> QED
  BY <1>4 DEF Served

\* Who begins an operation has all its tries before it.
LEMMA SpotAnswers ==
  ASSUME SerialInv, NEW t \in Thread, NEW p, NEW i, NEW x, SpotMove(t, p, i, x), tx[t] = NoTx,
         NEW u \in Thread, stage[u] = "get", tx'[u] # NoTx
  PROVE  AnswerTo(u)' = tx'[u]
<1>1. CASE u = t
  <2>1. tries'[u] = Retries /\ ~(Retries < Retries)
    BY <1>1, SerialAssumption DEF SpotMove
  <2> QED
    BY <2>1 DEF AnswerTo
<1>2. CASE u # t
  <2>1. tx'[u] = tx[u] /\ AnswerTo(u)' = AnswerTo(u)
    BY <1>2 DEF SpotMove, AnswerTo, Tx
  <2>2. PifFor(tx[u], "get", AnswerTo(u))
    BY InUse
  <2> QED
    BY <2>1, <2>2 DEF PifFor
<1> QED
  BY <1>1, <1>2

LEMMA SpotBus ==
  ASSUME SerialInv, NEW t \in Thread, tx[t] = NoTx,
         NEW p, NEW i, NEW x, SpotMove(t, p, i, x), BusKept, Owed' <=> Owed
  PROVE  OneToken' /\ BusUse' /\ PifHas'
<1>1. stage' = stage /\ (AllGet' <=> AllGet) /\ token' = token
  BY DEF SpotMove, AllGet, BusKept
<1>2. stage[t] = "get"
  BY ServedAt DEF WellServed
<1>3. \A u \in Thread : stage[u] # "get" => tx'[u] = tx[u]
  BY <1>2 DEF SpotMove
<1>4. OneToken'
  BY <1>1 DEF SerialInv, BusInv, OneToken
<1>5. (BusFree' <=> BusFree) /\ (PollOnBus' <=> PollOnBus)
  BY DEF BusKept, BusFree, PollOnBus, OnBus, End
<1>6. ASSUME NEW u \in Thread, stage'[u] \in Waiting
      PROVE  OnBus(AwaitedAt(u, tx[u], stage[u]))'
  <2>1. stage[u] \in Waiting /\ tx'[u] = tx[u]
    BY <1>1, <1>3, <1>6, StageCases
  <2>2. OnBus(AwaitedAt(u, tx[u], stage[u]))
    BY <2>1, InUse
  <2> QED
    BY <1>1, <2>1, <2>2 DEF BusKept, OnBus, AwaitedAt, End
<1>7. BusUse'
  BY <1>1, <1>5, <1>6 DEF SerialInv, BusInv, BusUse
<1>8. ASSUME NEW u \in Thread
      PROVE  PifFor(tx[u], stage[u], AnswerTo(u))'
  <2>1. CASE stage[u] = "get"
    <3>1. tx'[u] # NoTx => AnswerTo(u)' = tx'[u]
      BY <2>1, SpotAnswers
    <3> QED
      BY <1>1, <2>1, <3>1 DEF PifFor
  <2>2. CASE stage[u] # "get"
    <3>1. u # t
      BY <1>2, <2>2
    <3>2. PICK x0, z, a : x0 = tx[u] /\ z = stage[u] /\ a = AnswerTo(u)
      OBVIOUS
    <3>3. tx'[u] = x0 /\ stage'[u] = z /\ AnswerTo(u)' = a
      BY <1>1, <3>1, <3>2 DEF SpotMove, AnswerTo, Tx
    <3>4. PifFor(x0, z, a)'
      BY <3>2, InUse DEF PifFor, BusKept
    <3> QED
      BY <3>3, <3>4 DEF PifFor, StatusOf, Tx
  <2> QED
    BY <2>1, <2>2
<1>9. PifHas'
  BY <1>8 DEF BusKept, PifHas, End, SerialInv, BusInv
<1> QED
  BY <1>4, <1>7, <1>9

LEMMA SpotMotors ==
  ASSUME SerialInv, NEW t \in Thread, tx[t] = NoTx,
         NEW p, NEW i, NEW x, SpotMove(t, p, i, x),
         UNCHANGED <<moving, dev>>,
         \A c \in Ports : moving[c] => on'[c] \/ ~pak'[c] \/ OperatedOn(c)',
         \A c \in Ports : moving[c] /\ PassedByReset(c)' => ~pak'[c],
         x = NoTx => p \notin {"mstop", "rwait", "motor"},
         dma' = dma
  PROVE  Motors'
<1>1. stage[t] = "get"
  BY ServedAt DEF WellServed
<1>2. \A c \in Ports : moving'[c] => TurnsRightly(c)'
  BY DEF SerialInv, BusInv, Motors, TurnsRightly
<1>3. ASSUME NEW u \in Thread, StopJustRead(u)'
      PROVE  ~moving'[tx'[u].c]
  <2>1. u # t
    BY <1>1, <1>3 DEF StopJustRead, SpotMove
  <2>2. StopJustRead(u) /\ tx'[u] = tx[u]
    BY <1>3, <2>1 DEF StopJustRead, SpotMove
  <2> QED
    BY <2>2 DEF SerialInv, BusInv, Motors
<1>4. ASSUME NEW u \in Thread, StopJustDone(u)'
      PROVE  ~moving'[idx'[u]]
  <2>1. u # t
    BY <1>4 DEF StopJustDone, SpotMove
  <2>2. StopJustDone(u) /\ idx'[u] = idx[u]
    BY <1>4, <2>1 DEF StopJustDone, SpotMove
  <2> QED
    BY <2>2 DEF SerialInv, BusInv, Motors
<1> QED
  BY <1>2, <1>3, <1>4 DEF Motors

\* What is done to the paks and the flags.
LEMMA SpotRanges ==
  ASSUME SerialInv, NEW t \in Thread, NEW p, NEW i, NEW x, SpotMove(t, p, i, x),
         token' = token, UNCHANGED <<moving, dev>>,
         flag' \in BOOLEAN, saved' \in BOOLEAN, resetStarted' \in BOOLEAN,
         err' \in Flags, on' \in Flags, pak' \in Flags
  PROVE  SerialRanges'
BY DEF SerialInv, BusInv, SerialRanges, SpotMove

-----------------------------------------------------------------------------
(* Moves inside Controller_UpdateInputs and Controller_Reset.              *)

Inside == {"pad", "motor", "minit", "mstop", "clear", "rstop", "rwait"}
Outside == {"cleared", "pressed", "inputs", "poll", "done"}

LEMMA InnerPhases ==
  ASSUME SerialInv, NEW t \in Thread, MayRun(t), tx[t] = NoTx,
         NEW p \in Inside \cup Outside, NEW i, NEW x, SpotMove(t, p, i, x),
         at[t] \in Inside, UNCHANGED <<game, comes>>,
         t = "game" /\ p \in {"rstop", "rwait", "inputs", "poll"} => ~flag,
         at[t] \in {"rstop", "rwait"} => p \in {"rstop", "rwait", "inputs", "poll", "done"},
         t = "game" /\ at[t] \in {"rstop", "rwait"} => p # "done"
  PROVE  Phases' /\ (Owed' <=> Owed)
<1>1. UNCHANGED <<flag, saved, resetStarted, comes, stage>>
  BY DEF game, SpotMove
<1>2. /\ \A u \in Thread : u # t => at'[u] = at[u] /\ tx'[u] = tx[u]
      /\ at'[t] = p /\ tx'[t] = x
  BY DEF SpotMove
<1>3. p # "away" /\ p # "reset" /\ p # "recv" /\ p # "polled" /\ p # "restart" /\ p # "lpoll"
      /\ at[t] \notin {"away", "reset", "recv", "polled", "restart", "lpoll"}
  BY DEF Inside, Outside
<1>4. CASE t = "game"
  <2>1. \A u \in Others : at'[u] = at[u] /\ tx'[u] = tx[u]
    BY <1>2, <1>4, TheThreads
  <2>2. ~Active("disk")
    BY <1>4, GameGoesOn
  <2>3. Active("reset") => at["reset"] # "reset"
    BY <1>4, ResetHasBegun
  <2>4. Active("reset") => at["reset"] \notin Taking /\ p \in {"rstop", "rwait", "inputs", "poll"}
    <3>1. ASSUME Active("reset")
          PROVE  at["reset"] \notin Taking /\ p \in {"rstop", "rwait", "inputs", "poll"}
      <4>1. at["reset"] \notin Taking
        BY <1>4, <3>1, GameIsTakenFrom DEF Inside
      <4>2. at["game"] \in {"rstop", "rwait"}
        BY <1>4, <3>1 DEF SerialInv, BusInv, Phases, InReset, ApartPlaces, Inside
      <4>3. p # "done"
        BY <1>4, <4>2
      <4> QED
        BY <1>4, <4>1, <4>2, <4>3
    <3> QED
      BY <3>1
  <2>5. (Active("reset")' <=> Active("reset")) /\ ~Active("disk")'
    BY <2>1, <2>2 DEF Active
  <2>6. Active("reset")' => InReset'
    BY <1>1, <1>2, <1>4, <2>1, <2>3, <2>4, <2>5
    DEF Active, SerialInv, BusInv, Phases, InReset, ApartPlaces
  <2>7. at'["game"] \in {"recv"} \cup Clearing => flag \/ resetStarted
    <3>1. p \in {"recv"} \cup Clearing => at["game"] \in Clearing
      BY <1>3, <1>4 DEF Clearing, Inside
    <3> QED
      BY <1>2, <1>4, <3>1 DEF SerialInv, BusInv, Phases
  <2>8. Phases'
    <3>1. at'["game"] \in {"mode", "poll", "polled", "rstop", "rwait"} => ~flag
      BY <1>2, <1>3, <1>4 DEF Inside, Outside
    <3> QED
      BY <1>1, <2>1, <2>5, <2>6, <2>7, <3>1 DEF SerialInv, BusInv, Phases
  <2>9. ~OwedToGame /\ ~OwedToGame'
    BY <1>1, <1>2, <1>3, <1>4 DEF OwedToGame, Expecting, Inside, Outside
  <2>10. Owed' <=> Owed
    BY <2>1, <2>2, <2>4, <2>5, <2>9 DEF Owed, Active, Taking
  <2> QED
    BY <2>8, <2>10
<1>5. CASE t \in {"reset", "disk"}
  <2>1. t \in Others /\ Active(t) /\ t # "game"
    BY <1>3, <1>5 DEF Thread, Active
  <2>2. at'["game"] = at["game"] /\ tx'["game"] = tx["game"]
    BY <1>2, <2>1, TheThreads
  <2>3. \A u \in Others : u # t => ~Active(u) /\ ~Active(u)'
    BY <1>2, <1>5, <2>1, WhoIsAbout, TheThreads DEF Active
  <2>4. Active(t)'
    BY <1>2, <1>3, <2>1 DEF Active
  <2>5. \A u \in Others : at'[u] # "away" => at[u] # "away"
    BY <1>2, <1>3, TheThreads
  <2>6. t = "reset" /\ p \in Taking => at[t] \in Taking
    BY <1>3 DEF Taking, Inside
  <2>7. Active("reset")' => InReset'
    <3>1. CASE t = "reset"
      <4>1. InReset /\ at'["reset"] = p
        BY <1>2, <2>1, <3>1 DEF SerialInv, BusInv, Phases
      <4>2. Expecting' <=> Expecting
        BY <1>1, <2>2 DEF Expecting
      <4> QED
        BY <1>1, <2>2, <2>6, <3>1, <4>1, <4>2 DEF InReset
    <3>2. CASE t = "disk"
      <4>1. ~Active("reset")'
        BY <2>3, <3>2 DEF Active
      <4> QED
        BY <4>1
    <3> QED
      BY <1>5, <3>1, <3>2
  <2>8. Active("disk")' => InMessage'
    BY <1>1, <1>2, <1>3, <1>5, <2>1, <2>2, <2>3, <2>4
    DEF Active, SerialInv, BusInv, Phases, InMessage, OwedToGame, Expecting
  <2>9. Phases'
    <3>1. resetStarted => Active("reset")'
      <4>1. CASE t = "reset"
        BY <2>4, <4>1
      <4>2. CASE t = "disk"
        <5>1. ~Active("reset")
          BY <2>3, <4>2 DEF Active
        <5> QED
          BY <5>1 DEF SerialInv, BusInv, Phases
      <4> QED
        BY <1>5, <4>1, <4>2
    <3> QED
      BY <1>1, <2>2, <2>5, <2>7, <2>8, <3>1 DEF SerialInv, BusInv, Phases
  <2>10. ~Owed /\ ~Owed'
    BY <1>2, <1>3, <1>5, <2>1, <2>3, <2>4 DEF Owed, OwedToDisk, Active
  <2> QED
    BY <2>9, <2>10
<1> QED
  BY <1>4, <1>5, TheThreads

LEMMA Spot ==
  ASSUME SerialInv, NEW t \in Thread, tx[t] = NoTx, NEW p, NEW i, NEW x \in TxSet,
         Goes(t, p) \/ (at' = at /\ p = at[t]),
         idx' = [idx EXCEPT ![t] = i] \/ (idx' = idx /\ i = idx[t]),
         Call(t, x) \/ (UNCHANGED call /\ x = NoTx)
  PROVE  SpotMove(t, p, i, x)
<1>1. stage[t] = "get"
  BY ServedAt DEF WellServed
<1>2. at \in Everywhere /\ idx \in Counted
  BY DEF SerialInv, PlacesInv
<1>3. tx \in Serving /\ stage \in Staged /\ tries \in Tried
  BY DEF SerialInv, BusInv, SerialRanges
<1>4. /\ tries' \in Tried /\ (x # NoTx => tries'[t] = Retries)
      /\ \A u \in Thread : u # t => tries'[u] = tries[u]
  <2>1. Retries \in 0..Retries
    BY SerialAssumption
  <2> QED
    BY <1>3, <2>1 DEF Tried, Call, call
<1>5. at'[t] = p /\ \A u \in Thread : u # t => at'[u] = at[u]
  BY <1>2 DEF Everywhere, Goes
<1>6. idx'[t] = i /\ \A u \in Thread : u # t => idx'[u] = idx[u]
  BY <1>2 DEF Counted
<1>7. tx' \in Serving /\ tx'[t] = x /\ \A u \in Thread : u # t => tx'[u] = tx[u]
  BY <1>3 DEF Serving, Call, call
<1>8. stage' = stage /\ done' = done
  BY <1>1, <1>3 DEF Staged, Call, call
<1> QED
  BY <1>5, <1>6, <1>7, <1>8, <1>4 DEF SpotMove

LEMMA OperatedStill ==
  ASSUME SerialInv, NEW t \in Thread, NEW p, NEW i, NEW x, SpotMove(t, p, i, x), NEW b,
         OperatedOn(b), at[t] \in AtMotor /\ idx[t] = b => p \in AtMotor /\ i = b
  PROVE  OperatedOn(b)'
BY DEF SpotMove, OperatedOn

LEMMA PassedBefore ==
  ASSUME NEW t \in Thread, NEW p, NEW i, NEW x, SpotMove(t, p, i, x), NEW b,
         t = "reset" => p \notin {"done", "rstop", "rwait"},
         PassedByReset(b)'
  PROVE  PassedByReset(b)
<1>1. "reset" \in Others
  BY DEF PassedByReset, Active
<1>2. "reset" \in Thread
  BY <1>1, TheThreads
<1>3. t # "reset"
  BY DEF PassedByReset, SpotMove
<1> QED
  BY <1>2, <1>3 DEF PassedByReset, Active, SpotMove

\* All that a move inside has to show.
LEMMA InnerInv ==
  ASSUME SerialInv, NEW t \in Thread, Free(t), NEW p \in Inside \cup Outside, NEW i, NEW x \in TxSet,
         SpotMove(t, p, i, x), at[t] \in Inside,
         UNCHANGED <<bus, game, world>>,
         t = "game" /\ p \in {"rstop", "rwait", "inputs", "poll"} => ~flag,
         at[t] \in {"rstop", "rwait"} => p \in {"rstop", "rwait", "inputs", "poll", "done"},
         t = "game" /\ at[t] \in {"rstop", "rwait"} => p # "done",
         x = NoTx => p \in {"pad", "clear", "rstop"} \cup Outside,
         x # NoTx => x.c = i /\ p \in AtMotor,
         x # NoTx /\ p = "minit" => x.cmd \in Selects \cup Detects,
         x # NoTx /\ p = "motor" => x.cmd \in Motor,
         x # NoTx /\ p \in {"mstop", "rwait"} => x.cmd = "stop",
         x # Poll,
         err' \in Flags, on' \in Flags, pak' \in Flags,
         \A c \in Ports : moving[c] => on'[c] \/ ~pak'[c] \/ OperatedOn(c)',
         \A c \in Ports : moving[c] /\ PassedByReset(c)' => ~pak'[c]
  PROVE  BusInv'
<1>1. tx[t] = NoTx /\ MayRun(t)
  BY DEF Free, Serves
<1>2. BusKept /\ dma' = dma /\ token' = token /\ UNCHANGED <<moving, dev, comes, game>>
      /\ UNCHANGED <<flag, saved, resetStarted>>
  BY DEF bus, BusKept, world, game
<1>3. x = NoTx => p \notin {"motor", "mstop", "rwait"}
  BY DEF Outside
<1>4. Phases' /\ (Owed' <=> Owed)
  BY <1>1, <1>2, InnerPhases
<1>5. Served'
  BY <1>1, <1>3, SpotServed
<1>6. OneToken' /\ BusUse' /\ PifHas'
  BY <1>1, <1>2, <1>4, SpotBus
<1>7. Motors'
  BY <1>1, <1>2, <1>3, SpotMotors
<1>8. SerialRanges'
  <2>1. flag \in BOOLEAN /\ saved \in BOOLEAN /\ resetStarted \in BOOLEAN
    BY DEF SerialInv, BusInv, SerialRanges
  <2> QED
    BY <1>2, <2>1, SpotRanges
<1> QED
  BY <1>4, <1>5, <1>6, <1>7, <1>8 DEF BusInv

\* The paks' flags, of which one changes.
LEMMA FlagSet ==
  ASSUME NEW f \in Flags, NEW c \in Ports, NEW v \in BOOLEAN, NEW g, g = SetAt(f, c, v)
  PROVE  g \in Flags /\ g[c] = v /\ \A b \in Ports : b # c => g[b] = f[b]
BY DEF SetAt, Flags

LEMMA OnSet ==
  ASSUME SerialInv, NEW c \in Ports, NEW v \in BOOLEAN, on' = SetAt(on, c, v)
  PROVE  on' \in Flags /\ on'[c] = v /\ \A b \in Ports : b # c => on'[b] = on[b]
<1>1. on \in Flags
  BY DEF SerialInv, BusInv, SerialRanges
<1> QED
  BY <1>1, FlagSet

LEMMA PakSet ==
  ASSUME SerialInv, NEW c \in Ports, NEW v \in BOOLEAN, pak' = SetAt(pak, c, v)
  PROVE  pak' \in Flags /\ pak'[c] = v /\ \A b \in Ports : b # c => pak'[b] = pak[b]
<1>1. pak \in Flags
  BY DEF SerialInv, BusInv, SerialRanges
<1> QED
  BY <1>1, FlagSet

LEMMA PakFlags ==
  ASSUME SerialInv
  PROVE  /\ on \in Flags /\ pak \in Flags /\ err \in Flags
         /\ \A c \in Ports : moving[c] => on[c] \/ ~pak[c] \/ OperatedOn(c)
         /\ \A c \in Ports : moving[c] /\ PassedByReset(c) => ~pak[c]
         /\ \A t \in Thread : StopJustDone(t) => ~moving[idx[t]]
BY DEF SerialInv, BusInv, SerialRanges, Motors, TurnsRightly

LEMMA MotorResultInv ==
  ASSUME SerialInv, NEW t \in Thread, MotorResult(t)
  PROVE  BusInv'
<1>1. PICK c : c = idx[t]
  OBVIOUS
<1>2. Free(t) /\ at[t] = "motor" /\ Goes(t, "pad") /\ idx' = [idx EXCEPT ![t] = c - 1]
      /\ UNCHANGED <<bus, call, game, world>> /\ err' = err
  BY <1>1 DEF MotorResult, NextPort
<1>3. tx[t] = NoTx
  BY <1>2 DEF Free, Serves
<1>4. c \in Ports /\ done[t].cmd.cmd \in Motor
  BY <1>1, <1>2, <1>3, ServedAt DEF WellPlaced, WellServed, AtMotor
<1>5. SpotMove(t, "pad", c - 1, NoTx)
  BY <1>2, <1>3, Commands1, Spot
<1>6. /\ on' \in Flags /\ pak' \in Flags
      /\ \A b \in Ports : b # c => on'[b] = on[b] /\ pak'[b] = pak[b]
      /\ \A b \in Ports : pak'[b] => pak[b]
      /\ pak'[c] => (on'[c] <=> done[t].cmd.cmd = "start")
  <2>1. CASE done[t].res = "ok"
    <3>1. PICK v \in BOOLEAN : v <=> done[t].cmd.cmd = "start"
      OBVIOUS
    <3>2. pak' = pak /\ on' = SetAt(on, c, v)
      BY <1>1, <2>1, <3>1 DEF MotorResult
    <3>3. /\ on' \in Flags /\ on'[c] = v
          /\ \A b \in Ports : b # c => on'[b] = on[b]
      BY <1>4, <3>2, OnSet
    <3> QED
      BY <1>4, <3>1, <3>2, <3>3, PakFlags
  <2>2. CASE done[t].res # "ok"
    <3>1. pak' = SetAt(pak, c, FALSE) /\ on' = on
      BY <1>1, <2>2 DEF MotorResult
    <3>2. /\ pak' \in Flags /\ pak'[c] = FALSE
          /\ \A b \in Ports : b # c => pak'[b] = pak[b]
      BY <1>4, <3>1, PakSet
    <3> QED
      BY <1>4, <3>1, <3>2, PakFlags
  <2> QED
    BY <2>1, <2>2
<1>7. moving[c] /\ pak'[c] => on'[c]
  <2>1. done[t].cmd.cmd = "stop" => StopJustDone(t)
    BY <1>2, <1>3 DEF StopJustDone
  <2> QED
    BY <1>1, <1>4, <1>6, <2>1, PakFlags DEF Motor
<1>8. ASSUME NEW b \in Ports, moving[b]
      PROVE  on'[b] \/ ~pak'[b] \/ OperatedOn(b)'
  <2>1. CASE b = c
    BY <1>7, <1>8, <2>1
  <2>2. CASE b # c
    BY <1>1, <1>5, <1>6, <1>8, <2>2, PakFlags, OperatedStill
  <2> QED
    BY <2>1, <2>2
<1>9. \A b \in Ports : moving[b] /\ PassedByReset(b)' => ~pak'[b]
  BY <1>5, <1>6, PakFlags, PassedBefore
<1>10. "pad" \in Inside \cup Outside /\ "motor" \in Inside
  BY DEF Inside
<1> QED
  BY <1>2, <1>5, <1>6, <1>8, <1>9, <1>10, PakFlags, Commands1, InnerInv

\* A motor at c that no longer rests on what the game did: the others are as before.
LEMMA OnlyAt ==
  ASSUME SerialInv, NEW t \in Thread, NEW p, NEW i, NEW x, SpotMove(t, p, i, x),
         NEW c \in Ports, c = idx[t],
         \A b \in Ports : b # c => on'[b] = on[b] /\ pak'[b] = pak[b],
         moving[c] => ~pak'[c]
  PROVE  \A b \in Ports : moving[b] => on'[b] \/ ~pak'[b] \/ OperatedOn(b)'
<1>1. ASSUME NEW b \in Ports, moving[b], b # c
      PROVE  on'[b] \/ ~pak'[b] \/ OperatedOn(b)'
  BY <1>1, PakFlags, OperatedStill
<1> QED
  BY <1>1

LEMMA InitEndsInv ==
  ASSUME SerialInv, NEW t \in Thread, Free(t), at[t] \in {"minit", "mstop"},
         NEW there \in BOOLEAN, InitEnds(t, idx[t], there), there => at[t] = "mstop",
         UNCHANGED <<bus, call, game, world>>, err' = err
  PROVE  BusInv'
<1>1. PICK c : c = idx[t]
  OBVIOUS
<1>2. Goes(t, "pad") /\ idx' = [idx EXCEPT ![t] = c - 1]
      /\ pak' = SetAt(pak, c, there) /\ on' = SetAt(on, c, FALSE)
  BY <1>1 DEF InitEnds, NextPort
<1>3. tx[t] = NoTx
  BY DEF Free, Serves
<1>4. c \in Ports
  BY <1>1, ServedAt DEF WellPlaced, AtMotor
<1>5. SpotMove(t, "pad", c - 1, NoTx)
  BY <1>2, <1>3, Commands1, Spot
<1>6. /\ on' \in Flags /\ pak' \in Flags /\ pak'[c] = there
      /\ \A b \in Ports : b # c => on'[b] = on[b] /\ pak'[b] = pak[b]
  BY <1>2, <1>4, OnSet, PakSet
<1>7. moving[c] => ~pak'[c]
  <2>1. at[t] = "mstop" => StopJustDone(t)
    BY <1>3 DEF StopJustDone
  <2> QED
    BY <1>1, <1>6, <2>1, PakFlags
<1>8. \A b \in Ports : moving[b] => on'[b] \/ ~pak'[b] \/ OperatedOn(b)'
  BY <1>1, <1>4, <1>5, <1>6, <1>7, OnlyAt
<1>9. \A b \in Ports : moving[b] /\ PassedByReset(b)' => ~pak'[b]
  BY <1>5, <1>6, <1>7, PakFlags, PassedBefore
<1>10. "pad" \in Inside \cup Outside /\ at[t] \in Inside
  BY DEF Inside
<1> QED
  BY <1>2, <1>5, <1>6, <1>8, <1>9, <1>10, PakFlags, Commands1, InnerInv

LEMMA InitStoppedInv ==
  ASSUME SerialInv, NEW t \in Thread, InitStopped(t)
  PROVE  BusInv'
BY InitEndsInv DEF InitStopped

\* A move into an operation leaves what is known of the motors.
LEMMA BeginsInv ==
  ASSUME SerialInv, NEW t \in Thread, Free(t), at[t] \in Inside,
         NEW p \in AtMotor, Goes(t, p), idx' = idx, NEW k, NEW c, c = idx[t], Call(t, Tx(k, c)),
         c \in Ports, k \in Selects \cup Detects \cup Motor,
         p = "minit" => k \in Selects \cup Detects, p = "motor" => k \in Motor,
         p \in {"mstop", "rwait"} => k = "stop",
         p = "rwait" <=> at[t] \in {"rstop", "rwait"}, t = "game" /\ p = "rwait" => ~flag,
         UNCHANGED <<bus, game, world>>, err' \in Flags, UNCHANGED <<on, pak>>
  PROVE  BusInv'
<1>1. tx[t] = NoTx
  BY DEF Free, Serves
<1>2. PICK x \in TxSet : x = Tx(k, c)
  BY Commands1
<1>3. x.cmd = k /\ x.c = c /\ x # NoTx /\ x # Poll
  BY <1>2, Commands1
<1>4. SpotMove(t, p, c, x)
  BY <1>1, <1>2, Spot
<1>5. \A b \in Ports : moving[b] => on'[b] \/ ~pak'[b] \/ OperatedOn(b)'
  BY <1>4, PakFlags, OperatedStill
<1>6. ASSUME NEW b \in Ports, moving[b], PassedByReset(b)'
      PROVE  ~pak'[b]
  <2>1. PassedByReset(b)
    <3>1. CASE t = "reset" /\ p = "rwait"
      BY <1>4, <1>6, <3>1 DEF PassedByReset, Active, SpotMove
    <3>2. CASE ~(t = "reset" /\ p = "rwait")
      BY <1>4, <1>6, <3>2, PassedBefore DEF AtMotor
    <3> QED
      BY <3>1, <3>2
  <2> QED
    BY <1>6, <2>1, PakFlags
<1>7. p \in Inside \cup Outside /\ p \notin {"rstop", "inputs", "poll"}
  BY DEF Inside, AtMotor
<1> QED
  BY <1>3, <1>4, <1>5, <1>6, <1>7, PakFlags, InnerInv

LEMMA MotorInitInv ==
  ASSUME SerialInv, NEW t \in Thread, MotorInit(t)
  PROVE  BusInv'
<1>1. Free(t) /\ at[t] = "minit" /\ UNCHANGED <<bus, game, world>> /\ err' = err
  BY DEF MotorInit
<1>2. CASE NextInit(done[t]) = "fails"
  BY <1>1, <1>2, InitEndsInv DEF MotorInit
<1>3. CASE NextInit(done[t]) # "fails"
  <2>1. PICK k : k = NextInit(done[t])
    OBVIOUS
  <2>2. k \in Selects \cup Detects \cup {"stop"}
    BY <1>3, <2>1 DEF NextInit, Selects, Detects
  <2>3. PICK p \in {"mstop", "minit"} : Goes(t, p) /\ (p = "mstop" <=> k = "stop")
    BY <1>3, <2>1 DEF MotorInit
  <2>4. Call(t, Tx(k, idx[t])) /\ UNCHANGED <<idx, pak, on>>
    BY <1>3, <2>1 DEF MotorInit
  <2>5. idx[t] \in Ports
    BY <1>1, ServedAt DEF WellPlaced, AtMotor
  <2>6. p \in AtMotor /\ at[t] \in Inside
    BY <1>1 DEF AtMotor, Inside
  <2>7. k \in Selects \cup Detects \cup Motor
    BY <2>2 DEF Motor
  <2> QED
    BY <1>1, <2>2, <2>3, <2>4, <2>5, <2>6, <2>7, PakFlags, BeginsInv
<1> QED
  BY <1>2, <1>3

\* A move inside that has the bus do nothing and starts no motor's time.
LEMMA PassesInv ==
  ASSUME SerialInv, NEW t \in Thread, Free(t), at[t] \in Inside,
         NEW p \in {"pad", "clear", "rstop"} \cup Outside, NEW i, SpotMove(t, p, i, NoTx),
         UNCHANGED <<bus, game, world>>,
         t = "game" /\ p \in {"rstop", "inputs", "poll"} => ~flag,
         at[t] \in {"rstop", "rwait"} => p \in {"rstop", "inputs", "poll", "done"},
         t = "game" /\ at[t] \in {"rstop", "rwait"} => p # "done",
         err' \in Flags, on' \in Flags, pak' \in Flags,
         \A c \in Ports : moving[c] => on'[c] \/ ~pak'[c] \/ OperatedOn(c)',
         \A c \in Ports : moving[c] /\ PassedByReset(c)' => ~pak'[c]
  PROVE  BusInv'
<1>1. p \in Inside \cup Outside /\ p # "rwait"
  BY DEF Inside, Outside
<1> QED
  BY <1>1, Commands1, InnerInv

LEMMA LookAtPortInv ==
  ASSUME SerialInv, NEW t \in Thread, LookAtPort(t)
  PROVE  BusInv'
<1>1. PICK c : c = idx[t]
  OBVIOUS
<1>2. Free(t) /\ at[t] = "pad" /\ UNCHANGED <<bus, game, world>>
  BY DEF LookAtPort
<1>3. tx[t] = NoTx
  BY <1>2 DEF Free, Serves
<1>4. WellPlaced(t, "pad", c, back[t]) /\ "pad" \in Inside /\ "pad" \notin AtMotor
      /\ "pad" \notin {"rstop", "rwait"}
  BY <1>1, <1>2, ServedAt DEF Inside, AtMotor
<1>5. c \in 0..NPorts /\ (c > 0 => c \in Ports)
  BY <1>4 DEF WellPlaced, Ports
\* Where a motor moves nothing is changed for the worse.
<1>6. ASSUME NEW p \in {"pad", "clear"} \cup Outside, NEW i, SpotMove(t, p, i, NoTx),
             p \in {"done", "inputs", "poll"} => FALSE,
             err' \in Flags, on' = on, pak' \in Flags, \A b \in Ports : pak'[b] => pak[b]
      PROVE  BusInv'
  <2>1. \A b \in Ports : moving[b] => on'[b] \/ ~pak'[b] \/ OperatedOn(b)'
    BY <1>2, <1>4, <1>6, PakFlags, OperatedStill
  <2>2. p \notin {"done", "rstop", "rwait", "inputs", "poll"}
    BY <1>6 DEF Outside
  <2>3. \A b \in Ports : moving[b] /\ PassedByReset(b)' => ~pak'[b]
    BY <1>6, <2>2, PakFlags, PassedBefore
  <2> QED
    BY <1>2, <1>4, <1>6, <2>1, <2>2, <2>3, PakFlags, PassesInv
<1>7. ASSUME c > 0, NEW p \in {"minit", "motor"}, Goes(t, p), idx' = idx,
             NEW k \in Selects \cup Detects \cup Motor, Call(t, Tx(k, c)),
             p = "minit" => k \in Selects \cup Detects, p = "motor" => k \in Motor,
             err' = err, UNCHANGED <<on, pak>>
      PROVE  BusInv'
  <2>1. p \in AtMotor /\ p \notin {"mstop", "rwait"}
    BY <1>7 DEF AtMotor
  <2> QED
    BY <1>1, <1>2, <1>4, <1>5, <1>7, <2>1, PakFlags, BeginsInv
<1>8. CASE c = 0 /\ Return(t) /\ UNCHANGED <<idx, call, pads>>
  <2>1. PICK h : h = Head(back[t])
    OBVIOUS
  <2>2. Goes(t, h)
    BY <1>8, <2>1 DEF Return
  <2>3. h \in {"clear", "cleared", "pressed"}
    BY <1>4, <2>1 DEF WellPlaced, Receiving, AfterInputs
  <2>4. SpotMove(t, h, c, NoTx)
    BY <1>1, <1>3, <1>8, <2>2, Commands1, Spot
  <2>5. h \in {"pad", "clear"} \cup Outside /\ h \notin {"done", "inputs", "poll"}
    BY <2>3 DEF Outside
  <2>6. UNCHANGED <<err, on, pak>>
    BY <1>8 DEF pads
  <2> QED
    BY <1>6, <2>4, <2>5, <2>6, PakFlags
<1>9. ASSUME c > 0, NextPort(t), at' = at, UNCHANGED call, err' \in Flags, on' = on,
             pak' = pak \/ pak' = SetAt(pak, c, FALSE)
      PROVE  BusInv'
  <2>1. SpotMove(t, "pad", c - 1, NoTx)
    BY <1>1, <1>2, <1>3, <1>9, Commands1, Spot DEF NextPort
  <2>2. pak' \in Flags /\ \A b \in Ports : pak'[b] => pak[b]
    <3>1. CASE pak' = pak
      BY <3>1, PakFlags
    <3>2. CASE pak' = SetAt(pak, c, FALSE)
      BY <1>5, <1>9, <3>2, PakSet
    <3> QED
      BY <1>9, <3>1, <3>2
  <2> QED
    BY <1>6, <1>9, <2>1, <2>2
<1>10. ASSUME c > 0, PortLost(c)
       PROVE  err' \in Flags
  <2>1. err \in Flags /\ err' = SetAt(err, c, TRUE)
    BY <1>10, PakFlags DEF PortLost
  <2> QED
    BY <1>5, <1>10, <2>1, FlagSet
<1>11. err \in Flags
  BY PakFlags
<1>12. ASSUME NEW k \in Motor, Rumble(t, k, c, "motor"), c > 0, UNCHANGED <<err, on>>
       PROVE  BusInv'
  <2>1. k \in Selects \cup Detects \cup Motor
    OBVIOUS
  <2>2. CASE ready[c]
    BY <1>7, <1>12, <2>1, <2>2 DEF Rumble
  <2>3. CASE ~ready[c]
    BY <1>9, <1>11, <1>12, <2>3 DEF Rumble
  <2> QED
    BY <2>2, <2>3
<1>13. CASE c > 0 /\ err[c] /\ NextPort(t) /\ UNCHANGED <<at, back, call, pads>>
  BY <1>9, <1>11, <1>13 DEF pads
<1>14. CASE c > 0 /\ PortLost(c) /\ NextPort(t) /\ UNCHANGED <<at, back, call, want, pak, on>>
  BY <1>9, <1>10, <1>14
<1>15. CASE /\ c > 0 /\ Call(t, Tx("select", c)) /\ Goes(t, "minit")
            /\ UNCHANGED <<idx, back, err, want, pak, on>>
  BY <1>7, <1>15 DEF Selects
<1>16. CASE /\ c > 0 /\ UNCHANGED <<back, err, want, on, init, ready, connected, portOf>>
            /\ \/ StopDue(c) /\ Rumble(t, "stop", c, "motor")
               \/ ~(StopDue(c) /\ on[c]) /\ NextPort(t) /\ UNCHANGED <<at, call, pak>>
               \/ /\ want[c] /\ ~resetStarted /\ pak[c]
                  /\ Rumble(t, IF on[c] THEN "stop" ELSE "start", c, "motor")
  <2>1. CASE \E k \in Motor : Rumble(t, k, c, "motor")
    BY <1>12, <1>16, <2>1
  <2>2. CASE NextPort(t) /\ UNCHANGED <<at, call, pak>>
    BY <1>9, <1>11, <1>16, <2>2
  <2> QED
    BY <1>16, <2>1, <2>2 DEF Motor
<1> QED
  BY <1>1, <1>8, <1>13, <1>14, <1>15, <1>16 DEF LookAtPort

LEMMA ResetStopsInv ==
  ASSUME SerialInv, NEW t \in Thread, ResetStops(t)
  PROVE  BusInv'
<1>1. PICK c : c = idx[t]
  OBVIOUS
<1>2. Free(t) /\ at[t] \in {"rstop", "rwait"} /\ UNCHANGED <<bus, game, world>> /\ err' = err
  BY DEF ResetStops
<1>3. tx[t] = NoTx /\ at[t] \in Inside
  BY <1>2 DEF Free, Serves, Inside
<1>4. WellPlaced(t, at[t], c, back[t]) /\ at[t] \in Asking
  BY <1>1, <1>2, ServedAt DEF Asking
<1>5. t = "game" => ~flag
  BY <1>2 DEF SerialInv, BusInv, Phases
<1>6. t # "game" => t = "reset" /\ Active("reset")
  BY <1>2, <1>4, TheThreads DEF WellPlaced, AfterReset, Active, Thread
<1>7. c \in 1..NPorts + 1 /\ (at[t] = "rwait" \/ ~AfterLast(c) => c \in Ports)
  BY <1>2, <1>4 DEF WellPlaced, AtMotor, AfterLast, Ports
<1>8. CASE at[t] = "rstop" /\ AfterLast(c) /\ Return(t) /\ UNCHANGED <<idx, call, want, pak, on>>
  <2>1. PICK h : h = Head(back[t])
    OBVIOUS
  <2>2. Goes(t, h)
    BY <1>8, <2>1 DEF Return
  <2>3. h \in IF t = "game" THEN {"inputs", "poll"} ELSE {"done"}
    BY <1>4, <2>1 DEF WellPlaced, AfterReset
  <2>4. SpotMove(t, h, c, NoTx)
    BY <1>1, <1>3, <1>8, <2>2, Commands1, Spot
  <2>5. /\ h \in {"pad", "clear", "rstop"} \cup Outside
        /\ h \in {"rstop", "inputs", "poll", "done"} /\ (t = "game" => h # "done")
    BY <2>3 DEF Outside
  <2>6. at[t] \notin AtMotor
    BY <1>8 DEF AtMotor
  <2>7. \A b \in Ports : moving[b] => on'[b] \/ ~pak'[b] \/ OperatedOn(b)'
    BY <1>8, <2>4, <2>6, PakFlags, OperatedStill
  <2>8. ASSUME NEW b \in Ports, moving[b], PassedByReset(b)'
        PROVE  ~pak'[b]
    <3>1. PassedByReset(b)
      <4>1. CASE t = "game"
        BY <2>4, <2>8, <4>1, PassedBefore
      <4>2. CASE t # "game"
        <5>1. b < c
          BY <1>7, <1>8 DEF AfterLast, Ports
        <5> QED
          BY <1>1, <1>6, <1>8, <4>2, <5>1 DEF PassedByReset
      <4> QED
        BY <4>1, <4>2
    <3> QED
      BY <1>8, <2>8, <3>1, PakFlags
  <2> QED
    BY <1>2, <1>3, <1>5, <1>8, <2>4, <2>5, <2>7, <2>8, PakFlags, PassesInv
<1>9. CASE /\ at[t] = "rstop" /\ ~AfterLast(c) /\ Call(t, Tx("stop", c)) /\ Goes(t, "rwait")
           /\ UNCHANGED <<idx, back, want, pak, on>>
  <2>1. "rwait" \in AtMotor /\ "stop" \in Motor
    BY DEF AtMotor, Motor
  <2> QED
    BY <1>1, <1>2, <1>3, <1>5, <1>7, <1>9, <2>1, PakFlags, BeginsInv
\* The motor at c rests, or its pak is given up.
<1>10. ASSUME c \in Ports, idx' = SetAt(idx, t, c + 1), UNCHANGED call,
              NEW there \in BOOLEAN, Rests(c, there), there => ~moving[c],
              (at[t] = "rstop" /\ at' = at) \/ Goes(t, "rstop")
       PROVE  BusInv'
  <2>1. SpotMove(t, "rstop", c + 1, NoTx)
    BY <1>3, <1>10, Commands1, Spot DEF SetAt
  <2>2. /\ on' \in Flags /\ pak' \in Flags /\ pak'[c] = there
        /\ \A b \in Ports : b # c => on'[b] = on[b] /\ pak'[b] = pak[b]
    BY <1>10, OnSet, PakSet DEF Rests
  <2>3. \A b \in Ports : moving[b] => on'[b] \/ ~pak'[b] \/ OperatedOn(b)'
    BY <1>1, <1>10, <2>1, <2>2, OnlyAt
  <2>4. ASSUME NEW b \in Ports, moving[b], PassedByReset(b)'
        PROVE  ~pak'[b]
    <3>1. CASE b = c
      BY <1>10, <2>2, <2>4, <3>1
    <3>2. CASE b # c
      <4>1. PassedByReset(b)
        <5>1. CASE t = "game"
          BY <2>1, <2>4, <5>1, PassedBefore
        <5>2. CASE t # "game"
          <6>1. at'["reset"] = "rstop" /\ idx'["reset"] = c + 1
            BY <1>6, <2>1, <5>2 DEF SpotMove
          <6>2. b < c + 1
            BY <2>4, <6>1 DEF PassedByReset
          <6>3. b < c
            BY <1>10, <3>2, <6>2 DEF Ports
          <6> QED
            BY <1>1, <1>2, <1>6, <5>2, <6>3 DEF PassedByReset
        <5> QED
          BY <5>1, <5>2
      <4> QED
        BY <2>2, <2>4, <3>2, <4>1, PakFlags
    <3> QED
      BY <3>1, <3>2
  <2> QED
    BY <1>2, <1>3, <1>5, <2>1, <2>2, <2>3, <2>4, PakFlags, PassesInv
<1>11. CASE /\ at[t] = "rstop" /\ ~AfterLast(c) /\ Rests(c, FALSE)
            /\ idx' = SetAt(idx, t, c + 1) /\ UNCHANGED <<at, back, call>>
  BY <1>7, <1>10, <1>11
<1>12. CASE /\ at[t] = "rwait" /\ Rests(c, done[t].res = "ok")
            /\ idx' = SetAt(idx, t, c + 1) /\ Goes(t, "rstop") /\ UNCHANGED <<back, call>>
  <2>1. PICK v \in BOOLEAN : v = (done[t].res = "ok")
    OBVIOUS
  <2>2. ~moving[c]
    <3>1. StopJustDone(t)
      BY <1>3, <1>12 DEF StopJustDone
    <3> QED
      BY <1>1, <3>1, PakFlags
  <2>3. Rests(c, v)
    BY <1>12, <2>1
  <2> QED
    BY <1>7, <1>10, <1>12, <2>2, <2>3
<1> QED
  BY <1>1, <1>8, <1>9, <1>11, <1>12 DEF ResetStops

-----------------------------------------------------------------------------
(* Moves outside: the game's frame, the reset thread, the message.         *)

\* All that such a move has to show.
LEMMA OuterInv ==
  ASSUME SerialInv, NEW t \in Thread, tx[t] = NoTx, NEW p, NEW i, NEW x \in TxSet,
         SpotMove(t, p, i, x), BusKept,
         UNCHANGED <<moving, dev, on, pak, err>>,
         flag' \in BOOLEAN, saved' \in BOOLEAN, resetStarted' \in BOOLEAN,
         Phases', Owed' <=> Owed,
         x = NoTx \/ (x = Poll /\ p \in Polling),
         at[t] \notin AtMotor, p \notin AtMotor,
         t = "reset" => p \notin {"done", "rwait"} /\ (p = "rstop" => i = 1)
  PROVE  BusInv'
<1>1. p \notin {"motor", "minit", "mstop", "rwait"}
  BY DEF AtMotor
<1>2. Served'
  BY <1>1, Commands1, SpotServed
<1>3. OneToken' /\ BusUse' /\ PifHas'
  BY SpotBus
<1>4. \A b \in Ports : moving[b] => on'[b] \/ ~pak'[b] \/ OperatedOn(b)'
  BY PakFlags, OperatedStill
<1>5. ASSUME NEW b \in Ports, moving[b], PassedByReset(b)'
      PROVE  ~pak'[b]
  <2>1. CASE t = "reset" /\ p = "rstop"
    <3>1. at'["reset"] = "rstop" /\ idx'["reset"] = 1
      BY <2>1 DEF SpotMove
    <3>2. b < 1
      BY <1>5, <3>1 DEF PassedByReset
    <3> QED
      BY <3>2 DEF Ports
  <2>2. CASE ~(t = "reset" /\ p = "rstop")
    <3>1. PassedByReset(b)
      BY <1>5, <2>2, PassedBefore DEF AtMotor
    <3> QED
      BY <1>5, <3>1, PakFlags
  <2> QED
    BY <2>1, <2>2
<1>6. dma' = dma /\ token' = token
  BY DEF BusKept
<1>7. Motors'
  BY <1>1, <1>4, <1>5, <1>6, SpotMotors
<1>8. SerialRanges'
  BY <1>6, PakFlags, SpotRanges
<1> QED
  BY <1>2, <1>3, <1>7, <1>8 DEF BusInv

LEMMA GameMoves ==
  ASSUME SerialInv, MayRun("game"), tx["game"] = NoTx,
         NEW p, NEW i, NEW x, SpotMove("game", p, i, x),
         UNCHANGED <<saved, resetStarted, comes>>,
         p \in {"mode", "poll", "polled", "rstop", "rwait"} => ~flag',
         p \in {"recv"} \cup Clearing => flag' \/ resetStarted,
         Active("reset") => p \in ApartPlaces \cup {"polled", "rstop", "rwait"},
         p = "polled" => x # NoTx,
         Active("reset") /\ at["reset"] \in Taking => flag' /\ p \in {"frame", "inputs", "reset", "recv"},
         ~Active("reset") => (OwedToGame' <=> OwedToGame)
  PROVE  Phases' /\ (Owed' <=> Owed)
<1>1. /\ at'["game"] = p /\ tx'["game"] = x /\ stage' = stage
      /\ \A u \in Others : at'[u] = at[u] /\ tx'[u] = tx[u]
  BY TheThreads DEF SpotMove
<1>2. ~Active("disk")
  BY GameGoesOn
<1>3. Active("reset") => at["reset"] # "reset"
  BY ResetHasBegun
<1>4. (Active("reset")' <=> Active("reset")) /\ ~Active("disk")'
  BY <1>1, <1>2 DEF Active
<1>5. Active("reset") => at'["reset"] = at["reset"]
  BY <1>1 DEF Active
<1>6. stage["game"] = "get"
  BY TheThreads, ServedAt DEF WellServed
<1>7. Active("reset")' => InReset'
  BY <1>1, <1>4, <1>5, <1>6 DEF SerialInv, BusInv, Phases, InReset, Expecting
<1>8. Phases'
  BY <1>1, <1>4, <1>7 DEF SerialInv, BusInv, Phases
<1>9. Owed' <=> Owed
  BY <1>2, <1>3, <1>4, <1>5 DEF Owed
<1> QED
  BY <1>8, <1>9

LEMMA ResetMoves ==
  ASSUME SerialInv, Active("reset"), NEW p, NEW i, NEW x, SpotMove("reset", p, i, x),
         p # "away", p # "reset", p \in Taking => Expecting',
         flag' => flag, UNCHANGED <<saved, resetStarted, comes>>
  PROVE  Phases' /\ (Owed' <=> p = "recv")
<1>1. "reset" \in Thread /\ "reset" \in Others
  BY TheThreads DEF Active
<1>2. /\ at'["reset"] = p /\ stage' = stage
      /\ \A u \in Thread : u # "reset" => at'[u] = at[u] /\ tx'[u] = tx[u]
  BY <1>1 DEF SpotMove
<1>3. at'["game"] = at["game"] /\ tx'["game"] = tx["game"]
  BY <1>2, TheThreads
<1>4. ~Active("disk") /\ ~Active("disk")'
  BY <1>2, TheThreads, WhoIsAbout DEF Active
<1>5. Active("reset")'
  BY <1>1, <1>2 DEF Active
<1>6. InReset'
  BY <1>2, <1>3 DEF SerialInv, BusInv, Phases, InReset
<1>7. \A u \in Others : at'[u] # "away" => at[u] # "away"
  BY <1>2, TheThreads DEF Active
<1>8. Phases'
  BY <1>3, <1>4, <1>5, <1>6, <1>7 DEF SerialInv, BusInv, Phases, InReset
<1>9. Owed' <=> p = "recv"
  BY <1>2, <1>4, <1>5 DEF Owed
<1> QED
  BY <1>8, <1>9

LEMMA DiskMoves ==
  ASSUME SerialInv, Active("disk"), NEW p, NEW i, NEW x, SpotMove("disk", p, i, x),
         p # "away", p = "restart" => saved, UNCHANGED <<flag, saved, resetStarted, comes>>
  PROVE  Phases' /\ (Owed' <=> p = "recv" \/ (p \in {"lpoll", "restart"} /\ x = NoTx))
<1>1. "disk" \in Thread /\ "disk" \in Others
  BY TheThreads DEF Active
<1>2. /\ at'["disk"] = p /\ tx'["disk"] = x /\ stage' = stage
      /\ \A u \in Thread : u # "disk" => at'[u] = at[u] /\ tx'[u] = tx[u]
  BY <1>1 DEF SpotMove
<1>3. at'["game"] = at["game"] /\ tx'["game"] = tx["game"]
  BY <1>2, TheThreads
<1>4. ~Active("reset") /\ ~Active("reset")'
  BY <1>2, TheThreads, WhoIsAbout DEF Active
<1>5. Active("disk")'
  BY <1>1, <1>2 DEF Active
<1>6. InMessage'
  BY <1>2, <1>3 DEF SerialInv, BusInv, Phases, InMessage, OwedToGame, Expecting
<1>7. \A u \in Others : at'[u] # "away" => at[u] # "away"
  BY <1>2, TheThreads DEF Active
<1>8. Phases'
  BY <1>3, <1>4, <1>5, <1>6, <1>7 DEF SerialInv, BusInv, Phases
<1>9. Owed' <=> p = "recv" \/ (p \in {"lpoll", "restart"} /\ x = NoTx)
  BY <1>2, <1>4, <1>5 DEF Owed, OwedToDisk
<1> QED
  BY <1>8, <1>9

LEMMA ReceivePollInv ==
  ASSUME SerialInv, NEW t \in Thread, ReceivePoll(t)
  PROVE  BusInv' /\ PollOnBus /\ dma = NoTx
<1>1. /\ Free(t) /\ at[t] = "recv" /\ siQ # <<>> /\ siQ' = <<>> /\ Goes(t, "pad")
      /\ idx' = [idx EXCEPT ![t] = NPorts] /\ Bus /\ UNCHANGED <<call, back, game, pads, world>>
  BY DEF ReceivePoll, Receives
<1>2. tx[t] = NoTx /\ MayRun(t) /\ stage[t] = "get"
  BY <1>1, ServedAt DEF Free, Serves, WellServed
<1>3. SpotMove(t, "pad", NPorts, NoTx)
  BY <1>1, <1>2, Commands1, Spot
<1>4. UNCHANGED <<dma, token, pif, answered, lastCmd, flag, saved, resetStarted, err, on, pak,
                  moving, dev, comes>>
  BY <1>1 DEF Bus, game, pads, world
<1>5. AllGet /\ Phases' /\ ~Owed'
  <2>1. CASE t = "game"
    <3>1. ~Active("reset") /\ ~Active("disk")
      BY <1>1, <1>2, <2>1, GameGoesOn
    <3>2. AllGet
      BY <1>2, <2>1, <3>1, AllGetWhen
    <3>3. /\ at'["game"] = "pad" /\ stage' = stage
          /\ \A u \in Others : at'[u] = at[u]
      BY <1>3, <2>1, TheThreads DEF SpotMove
    <3>4. ~Active("reset")' /\ ~Active("disk")'
      BY <3>1, <3>3 DEF Active
    <3>5. Phases'
      BY <1>1, <1>4, <2>1, <3>1, <3>3, <3>4 DEF SerialInv, BusInv, Phases
    <3>6. ~Owed'
      BY <3>3, <3>4 DEF Owed, OwedToGame, Expecting
    <3> QED
      BY <3>2, <3>5, <3>6
  <2>2. CASE t = "reset"
    <3>1. Active("reset")
      BY <1>1, <2>2 DEF Active, Thread
    <3>2. flag /\ at["game"] \in {"frame", "inputs", "reset", "recv"} /\ stage["game"] = "get"
      BY <1>1, <2>2, <3>1, GameIsTakenFrom DEF Taking
    <3>3. Expecting'
      BY <1>3, <1>4, <2>2, <3>2, TheThreads DEF SpotMove, Expecting
    <3> QED
      BY <1>2, <1>3, <1>4, <2>2, <3>1, <3>2, <3>3, AllGetWhen, ResetMoves
  <2>3. CASE t = "disk"
    <3>1. Active("disk")
      BY <1>1, <2>3 DEF Active, Thread
    <3> QED
      BY <1>2, <1>3, <1>4, <2>3, <3>1, AllGetWhen, DiskMoves
  <2> QED
    BY <2>1, <2>2, <2>3, TheThreads
<1>6. PollOnBus /\ dma = NoTx
  <2>1. Owed
    BY <1>1, <1>5 DEF SerialInv, BusInv, BusUse, BusFree
  <2>2. PollOnBus
    BY <1>5, <2>1 DEF SerialInv, BusInv, BusUse
  <2> QED
    BY <1>1, <2>2 DEF PollOnBus, OnBus
<1>7. stage' = stage /\ (AllGet' <=> AllGet) /\ BusFree'
  BY <1>1, <1>3, <1>4, <1>6 DEF SpotMove, AllGet, BusFree
<1>8. OneToken'
  BY <1>4, <1>7 DEF SerialInv, BusInv, OneToken
<1>9. BusUse'
  <2>1. \A u \in Thread : stage'[u] \notin Waiting
    BY <1>5, <1>7, StageCases DEF AllGet
  <2> QED
    BY <1>5, <1>7, <2>1 DEF BusUse
<1>10. PifHas'
  <2>1. ASSUME NEW u \in Thread
        PROVE  PifFor(tx[u], stage[u], AnswerTo(u))'
    <3>1. stage[u] = "get" /\ stage'[u] = "get"
      BY <1>5, <1>7 DEF AllGet
    <3>2. tx'[u] # NoTx => AnswerTo(u)' = tx'[u]
      BY <1>2, <1>3, <3>1, SpotAnswers
    <3> QED
      BY <3>1, <3>2 DEF PifFor
  <2>2. \A u \in Thread : dma' # End(u, "r", Poll) /\ siQ' # <<End(u, "r", Poll)>>
    BY <1>1, <1>4, <1>6, Ends1, OnePlace
  <2>3. lastCmd' = Poll => pif' = Poll
    BY <1>4, TheThreads, InUse
  <2> QED
    BY <2>1, <2>2, <2>3 DEF PifHas, End
<1>11. Served'
  BY <1>2, <1>3, Commands1, SpotServed
<1>12. "recv" \notin AtMotor /\ "pad" \notin {"done", "rstop", "rwait"}
  BY DEF AtMotor
<1>13. \A b \in Ports : moving[b] => on'[b] \/ ~pak'[b] \/ OperatedOn(b)'
  BY <1>1, <1>3, <1>4, <1>12, PakFlags, OperatedStill
<1>14. \A b \in Ports : moving[b] /\ PassedByReset(b)' => ~pak'[b]
  BY <1>3, <1>4, <1>12, PakFlags, PassedBefore
<1>15. Motors'
  BY <1>2, <1>3, <1>4, <1>13, <1>14, SpotMotors
<1>16. SerialRanges'
  <2>1. flag \in BOOLEAN /\ saved \in BOOLEAN /\ resetStarted \in BOOLEAN
    BY DEF SerialInv, BusInv, SerialRanges
  <2> QED
    BY <1>3, <1>4, <2>1, PakFlags, SpotRanges
<1> QED
  BY <1>5, <1>6, <1>8, <1>9, <1>10, <1>11, <1>15, <1>16 DEF BusInv

LEMMA ResetBeginsInv ==
  ASSUME SerialInv, NEW t \in Thread, ResetBegins(t)
  PROVE  BusInv'
<1>1. Free(t) /\ at[t] = "reset" /\ UNCHANGED <<bus, call, game, pads, world>>
  BY DEF ResetBegins
<1>2. tx[t] = NoTx /\ MayRun(t)
  BY <1>1 DEF Free, Serves
<1>3. BusKept /\ UNCHANGED <<flag, saved, resetStarted, err, on, pak, moving, dev, comes>>
  BY <1>1 DEF bus, BusKept, game, pads, world
<1>4. t \in {"game", "reset"} /\ (t = "reset" => Active("reset"))
  BY <1>1, ServedAt, TheThreads DEF WellPlaced, Asking, AfterReset, Active, Thread
<1>5. flag \in BOOLEAN /\ saved \in BOOLEAN /\ resetStarted \in BOOLEAN
  BY DEF SerialInv, BusInv, SerialRanges
<1>6. at[t] \notin AtMotor /\ "recv" \notin AtMotor /\ "rstop" \notin AtMotor
  BY <1>1 DEF AtMotor
<1>7. CASE flag
  <2>1. SpotMove(t, "recv", idx[t], NoTx)
    BY <1>1, <1>2, <1>7, Commands1, Spot DEF ResetBegins, Enter
  <2>2. at'[t] = "recv"
    BY <2>1 DEF SpotMove
  <2>3. CASE t = "game"
    <3>1. OwedToGame' /\ OwedToGame
      BY <1>1, <1>3, <1>7, <2>2, <2>3 DEF OwedToGame, Expecting
    <3>2. Phases' /\ (Owed' <=> Owed)
      BY <1>2, <1>3, <1>7, <2>1, <2>3, <3>1, GameMoves DEF ApartPlaces, Clearing
    <3> QED
      BY <1>2, <1>3, <1>5, <1>6, <2>1, <2>3, <3>2, Commands1, OuterInv
  <2>4. CASE t = "reset"
    <3>1. at'["game"] = at["game"] /\ Active("reset")
      BY <1>4, <2>1, <2>4, TheThreads DEF SpotMove
    <3>2. Expecting
      BY <1>1, <1>7, <2>4, <3>1
      DEF SerialInv, BusInv, Phases, InReset, ApartPlaces, Expecting
    <3>3. Expecting'
      BY <1>3, <3>1, <3>2 DEF Expecting
    <3>4. Phases' /\ Owed'
      BY <1>3, <2>1, <2>4, <3>1, <3>3, ResetMoves
    <3>5. Owed
      BY <1>1, <2>4, <3>1, <3>2, WhoIsAbout DEF Owed, OwedToGame
    <3> QED
      BY <1>2, <1>3, <1>5, <1>6, <2>1, <2>4, <3>4, <3>5, Commands1, OuterInv
  <2> QED
    BY <1>4, <2>3, <2>4
<1>8. CASE ~flag
  <2>1. SpotMove(t, "rstop", 1, NoTx)
    BY <1>1, <1>2, <1>8, Commands1, Spot DEF ResetBegins, SetAt
  <2>2. at'[t] = "rstop"
    BY <2>1 DEF SpotMove
  <2>3. CASE t = "game"
    <3>1. ~OwedToGame' /\ ~OwedToGame
      BY <1>1, <1>3, <1>8, <2>2, <2>3 DEF OwedToGame, Expecting
    <3>2. Active("reset") => at["reset"] \notin Taking
      BY <1>8, GameIsTakenFrom
    <3>3. Phases' /\ (Owed' <=> Owed)
      BY <1>2, <1>3, <1>8, <2>1, <2>3, <3>1, <3>2, GameMoves DEF Clearing
    <3> QED
      BY <1>2, <1>3, <1>5, <1>6, <2>1, <2>3, <3>3, Commands1, OuterInv
  <2>4. CASE t = "reset"
    <3>1. Active("reset")
      BY <1>4, <2>4
    <3>2. ~OwedToGame
      BY <1>1, <1>8, <2>4, <3>1
      DEF SerialInv, BusInv, Phases, InReset, ApartPlaces, OwedToGame, Expecting
    <3>3. Phases' /\ ~Owed'
      BY <1>3, <2>1, <2>4, <3>1, ResetMoves DEF Taking
    <3>4. ~Owed
      BY <1>1, <2>4, <3>1, <3>2, WhoIsAbout DEF Owed
    <3> QED
      BY <1>2, <1>3, <1>5, <1>6, <2>1, <2>4, <3>3, <3>4, Commands1, OuterInv
  <2> QED
    BY <1>4, <2>3, <2>4
<1> QED
  BY <1>7, <1>8

LEMMA ResetClearsInv ==
  ASSUME SerialInv, NEW t \in Thread, ResetClears(t)
  PROVE  BusInv'
<1>1. /\ Free(t) /\ at[t] = "clear" /\ flag' = FALSE /\ Goes(t, "rstop")
      /\ idx' = [idx EXCEPT ![t] = 1]
      /\ UNCHANGED <<bus, call, saved, resetStarted, pads, world>>
  BY DEF ResetClears, SetAt
<1>2. tx[t] = NoTx /\ MayRun(t)
  BY <1>1 DEF Free, Serves
<1>3. BusKept /\ UNCHANGED <<saved, resetStarted, err, on, pak, moving, dev, comes>>
  BY <1>1 DEF bus, BusKept, pads, world
<1>4. t \in {"game", "reset"} /\ (t = "reset" => Active("reset"))
  BY <1>1, ServedAt, TheThreads DEF WellPlaced, Asking, AfterReset, Active, Thread
<1>5. flag' \in BOOLEAN /\ saved \in BOOLEAN /\ resetStarted \in BOOLEAN
  BY <1>1 DEF SerialInv, BusInv, SerialRanges
<1>6. at[t] \notin AtMotor /\ "rstop" \notin AtMotor
  BY <1>1 DEF AtMotor
<1>7. SpotMove(t, "rstop", 1, NoTx)
  BY <1>1, <1>2, Commands1, Spot
<1>8. at'[t] = "rstop"
  BY <1>7 DEF SpotMove
<1>9. CASE t = "game"
  <2>1. ~Active("reset")
    BY <1>1, <1>9 DEF SerialInv, BusInv, Phases, InReset, ApartPlaces
  <2>2. ~OwedToGame' /\ ~OwedToGame
    BY <1>1, <1>8, <1>9 DEF OwedToGame, Expecting
  <2>3. Phases' /\ (Owed' <=> Owed)
    BY <1>1, <1>2, <1>3, <1>7, <1>9, <2>1, <2>2, GameMoves DEF Clearing
  <2> QED
    BY <1>2, <1>3, <1>5, <1>6, <1>7, <1>9, <2>3, Commands1, OuterInv
<1>10. CASE t = "reset"
  <2>1. Active("reset")
    BY <1>4, <1>10
  <2>2. Phases' /\ ~Owed'
    <3>1. flag' => flag
      BY <1>1
    <3>2. SpotMove("reset", "rstop", 1, NoTx)
      BY <1>7, <1>10
    <3> QED
      BY <1>3, <2>1, <3>1, <3>2, ResetMoves DEF Taking
  <2>3. ~Owed
    BY <1>1, <1>10, <2>1, WhoIsAbout DEF Owed
  <2> QED
    BY <1>2, <1>3, <1>5, <1>6, <1>7, <1>10, <2>2, <2>3, Commands1, OuterInv
<1> QED
  BY <1>4, <1>9, <1>10

LEMMA GameStepInv ==
  ASSUME SerialInv, GameStep
  PROVE  BusInv'
<1> DEFINE t == "game"
<1>1. t \in Thread /\ Free(t)
  BY TheThreads DEF GameStep, BeginFrame, Inputs, Cleared, Mode, StartPoll, Polled
<1>2. tx[t] = NoTx /\ MayRun(t)
  BY <1>1 DEF Free, Serves
<1>3. BusKept /\ UNCHANGED <<saved, resetStarted, err, on, pak, moving, dev, comes, idx>>
  BY DEF GameStep, BeginFrame, Inputs, Cleared, Mode, StartPoll, Polled, bus, BusKept, game,
     pads, world
<1>4. flag \in BOOLEAN /\ saved \in BOOLEAN /\ resetStarted \in BOOLEAN
  BY DEF SerialInv, BusInv, SerialRanges
\* What is left to show of a move of the game.
<1>5. ASSUME NEW p, NEW x \in TxSet, Goes(t, p), Call(t, x) \/ (UNCHANGED call /\ x = NoTx),
             at[t] \notin AtMotor, p \notin AtMotor,
             x = NoTx \/ (x = Poll /\ p \in Polling), flag' \in BOOLEAN,
             p \in {"mode", "poll", "polled", "rstop", "rwait"} => ~flag',
             p \in {"recv"} \cup Clearing => flag' \/ resetStarted,
             Active("reset") => p \in ApartPlaces \cup {"polled", "rstop", "rwait"},
             p = "polled" => x # NoTx,
             Active("reset") /\ at["reset"] \in Taking =>
               flag' /\ p \in {"frame", "inputs", "reset", "recv"},
             ~Active("reset") => (OwedToGame' <=> OwedToGame)
      PROVE  BusInv'
  <2>1. SpotMove(t, p, idx[t], x)
    BY <1>1, <1>2, <1>3, <1>5, Spot
  <2>2. Phases' /\ (Owed' <=> Owed)
    BY <1>2, <1>3, <1>5, <2>1, GameMoves
  <2> QED
    BY <1>1, <1>2, <1>3, <1>4, <1>5, <2>1, <2>2, OuterInv
<1>6. /\ at[t] \in {"mode", "poll", "polled"} => ~flag
      /\ Active("reset") /\ at["reset"] \in Taking => Expecting
      /\ Active("reset") => at[t] \in ApartPlaces \cup {"polled", "rstop", "rwait"}
                            /\ (at[t] = "polled" => tx[t] # NoTx)
  BY DEF SerialInv, BusInv, Phases, InReset
<1>7. at \in Everywhere
  BY DEF SerialInv, PlacesInv
<1>8. ASSUME NEW p, Goes(t, p)
      PROVE  at'[t] = p
  BY <1>1, <1>7, <1>8 DEF Goes, Everywhere
<1>9. ASSUME NEW p, GoesOrResets(p)
      PROVE  Goes(t, p) \/ Goes(t, "reset")
  BY <1>9 DEF GoesOrResets, Enter
<1>10. CASE BeginFrame
  <2>1. PICK p \in {"inputs", "reset"} : Goes(t, p)
    BY <1>9, <1>10 DEF BeginFrame
  <2>2. at[t] = "frame" /\ UNCHANGED call /\ flag' = flag
    BY <1>10 DEF BeginFrame, game
  <2>3. OwedToGame' <=> OwedToGame
    BY <1>8, <2>1, <2>2 DEF OwedToGame, Expecting
  <2> QED
    BY <1>4, <1>5, <1>6, <2>1, <2>2, <2>3, Commands1 DEF AtMotor, ApartPlaces, Expecting, Clearing
<1>11. CASE Inputs
  <2>1. at[t] = "inputs" /\ UNCHANGED call /\ flag' = flag
    BY <1>11 DEF Inputs, game
  <2>2. PICK p \in {"recv", "mode"} : Goes(t, p) /\ (p = "recv" <=> flag)
    BY <1>4, <1>11 DEF Inputs, Enter
  <2>3. OwedToGame' <=> OwedToGame
    BY <1>8, <2>1, <2>2 DEF OwedToGame, Expecting
  <2> QED
    BY <1>4, <1>5, <1>6, <2>1, <2>2, <2>3, Commands1 DEF AtMotor, ApartPlaces, Expecting, Clearing
<1>12. CASE Cleared
  <2>1. at[t] = "cleared" /\ UNCHANGED call /\ flag' = FALSE /\ Goes(t, "mode")
    BY <1>12 DEF Cleared
  <2>2. ~Active("reset")
    BY <1>6, <2>1 DEF ApartPlaces
  <2>3. OwedToGame' <=> OwedToGame
    BY <1>8, <2>1 DEF OwedToGame, Expecting
  <2> QED
    BY <1>5, <2>1, <2>2, <2>3, Commands1 DEF AtMotor, Clearing
<1>13. CASE Mode
  <2>1. at[t] = "mode" /\ UNCHANGED call /\ flag' = flag
    BY <1>13 DEF Mode, game
  <2>2. PICK p \in {"poll", "reset"} : Goes(t, p)
    BY <1>9, <1>13 DEF Mode
  <2>3. OwedToGame' <=> OwedToGame
    BY <1>6, <1>8, <2>1, <2>2 DEF OwedToGame, Expecting
  <2> QED
    BY <1>4, <1>5, <1>6, <2>1, <2>2, <2>3, Commands1 DEF AtMotor, ApartPlaces, Expecting, Clearing
<1>14. CASE StartPoll
  <2>1. at[t] = "poll" /\ Call(t, Poll) /\ flag' = flag /\ Goes(t, "polled")
    BY <1>14 DEF StartPoll, game
  <2>2. tx'[t] = Poll
    BY <1>1, <2>1 DEF Call, SerialInv, BusInv, SerialRanges, Serving
  <2>3. OwedToGame' <=> OwedToGame
    BY <1>6, <1>8, <2>1, <2>2, Commands1 DEF OwedToGame, Expecting
  <2> QED
    BY <1>4, <1>5, <1>6, <2>1, <2>3, Commands1 DEF AtMotor, Polling, Expecting, Clearing
<1>15. CASE Polled
  <2>1. at[t] = "polled" /\ UNCHANGED call /\ flag' = TRUE /\ Goes(t, "frame")
    BY <1>15 DEF Polled
  <2>2. ~Active("reset")
    BY <1>2, <1>6, <2>1
  <2>3. OwedToGame' <=> OwedToGame
    BY <1>2, <1>8, <2>1 DEF OwedToGame, Expecting
  <2> QED
    BY <1>5, <2>1, <2>2, <2>3, Commands1 DEF AtMotor, Clearing
<1> QED
  BY <1>10, <1>11, <1>12, <1>13, <1>14, <1>15 DEF GameStep

\* The button, if gControllerReadDataStarted is right: whatever the game does on
\* the bus goes on, and an end that it expects is left to Controller_Reset.
LEMMA ResetButtonInv ==
  ASSUME SerialInv, ResetButton, ~untimely'
  PROVE  BusInv'
<1>1. /\ comes = "reset" /\ at["reset"] = "away" /\ flag = PollDue /\ resetStarted' = TRUE
      /\ Goes("reset", "reset") /\ UNCHANGED <<bus, call, idx, flag, saved, pads, world>>
  BY DEF ResetButton, Enter
<1>2. "reset" \in Others /\ "reset" \in Thread /\ "game" \in Thread
  BY <1>1, TheThreads DEF SerialInv, Exists
<1>3. /\ at["game"] \in ApartPlaces \cup {"polled", "rstop", "rwait"}
      /\ at["game"] = "polled" => tx["game"] # NoTx /\ stage["game"] = "get"
  <2>1. ~resetStarted
    BY <1>1 DEF SerialInv, BusInv, Phases, Active
  <2>2. /\ at["game"] \in Clearing => flag
        /\ at["game"] = "polled" => ~flag
    BY <2>1 DEF SerialInv, BusInv, Phases
  <2>3. at["game"] \notin Clearing
    BY <1>1, <2>2 DEF PollDue, Clearing
  <2>4. at["game"] = "polled" => tx["game"] # NoTx /\ stage["game"] = "get"
    BY <1>1, <2>2 DEF PollDue, Serves
  <2>5. at["game"] \in Own("game") \cup Asking \cup Receiving
    BY <1>2, ServedAt DEF WellPlaced
  <2> QED
    BY <2>3, <2>4, <2>5 DEF Own, Asking, Receiving, Clearing, ApartPlaces
<1>4. ~Active("reset") /\ ~Active("disk")
  BY <1>1 DEF Active, SerialInv, BusInv, Phases
<1>5. tx["reset"] = NoTx
  BY <1>2, <1>4, WhoIsAbout
<1>6. SpotMove("reset", "reset", idx["reset"], NoTx)
  BY <1>1, <1>2, <1>5, Commands1, Spot
<1>7. /\ at'["reset"] = "reset" /\ stage' = stage
      /\ \A u \in Thread : u # "reset" => at'[u] = at[u] /\ tx'[u] = tx[u]
  BY <1>2, <1>6 DEF SpotMove
<1>8. at'["game"] = at["game"] /\ tx'["game"] = tx["game"]
  BY <1>2, <1>7
<1>9. BusKept /\ UNCHANGED <<flag, saved, err, on, pak, moving, dev, comes>>
  BY <1>1 DEF bus, BusKept, pads, world
<1>10. Active("reset")' /\ ~Active("disk")'
  BY <1>2, <1>4, <1>7, TheThreads DEF Active
<1>11. OwedToGame' <=> OwedToGame
  BY <1>8, <1>9 DEF OwedToGame, Expecting
<1>12. Owed' <=> Owed
  BY <1>4, <1>7, <1>10, <1>11 DEF Owed
<1>13. Phases'
  <2>1. InReset'
    BY <1>3, <1>7, <1>8, <1>1 DEF InReset, Taking
  <2>2. \A u \in Others : at'[u] # "away" => comes' = u
    BY <1>1, <1>7, <1>9, TheThreads DEF SerialInv, BusInv, Phases
  <2> QED
    BY <1>8, <1>9, <1>10, <2>1, <2>2 DEF SerialInv, BusInv, Phases, InReset
<1>14. flag' \in BOOLEAN /\ saved' \in BOOLEAN /\ resetStarted' \in BOOLEAN
  BY <1>1, <1>9 DEF SerialInv, BusInv, SerialRanges
<1>15. "away" \notin AtMotor /\ "reset" \notin AtMotor
  BY DEF AtMotor
<1> QED
  BY <1>1, <1>2, <1>5, <1>6, <1>9, <1>12, <1>13, <1>14, <1>15, Commands1, OuterInv

\* A message is to be shown: the end that the game expects is taken from it.
LEMMA ShowMessageInv ==
  ASSUME SerialInv, ShowMessage, ~untimely'
  PROVE  BusInv'
<1>1. /\ comes = "disk" /\ at["disk"] = "away" /\ ~InTheMiddle /\ dma = NoTx
      /\ saved' = (siQ # <<>>) /\ siQ' = <<>> /\ Goes("disk", "loop")
      /\ Bus /\ UNCHANGED <<call, idx, flag, resetStarted, pads, world>>
  BY DEF ShowMessage
<1>2. "disk" \in Others /\ "disk" \in Thread /\ "game" \in Thread
  BY <1>1, TheThreads DEF SerialInv, Exists
<1>3. /\ stage["game"] = "get"
      /\ at["game"] \in {"motor", "mstop", "rwait"} => tx["game"] # NoTx
  <2>1. tx["game"] = NoTx => stage["game"] = "get"
    BY <1>2, ServedAt DEF WellServed
  <2> QED
    BY <1>1, <2>1 DEF InTheMiddle, Serves
<1>4. ~Active("reset") /\ ~Active("disk")
  BY <1>1 DEF Active, SerialInv, BusInv, Phases
<1>5. tx["disk"] = NoTx /\ stage["disk"] = "get"
  BY <1>2, <1>4, WhoIsAbout
<1>6. SpotMove("disk", "loop", idx["disk"], NoTx)
  BY <1>1, <1>2, <1>5, Commands1, Spot
<1>7. /\ at'["disk"] = "loop" /\ stage' = stage
      /\ \A u \in Thread : u # "disk" => at'[u] = at[u] /\ tx'[u] = tx[u]
  BY <1>2, <1>6 DEF SpotMove
<1>8. at'["game"] = at["game"] /\ tx'["game"] = tx["game"]
  BY <1>2, <1>7
<1>9. UNCHANGED <<dma, token, pif, answered, lastCmd, flag, resetStarted, err, on, pak,
                  moving, dev, comes>>
  BY <1>1 DEF Bus, pads, world
<1>10. ~Active("reset")' /\ Active("disk")'
  BY <1>2, <1>4, <1>7, TheThreads DEF Active
<1>11. AllGet /\ AllGet' /\ BusFree'
  <2>1. AllGet
    BY <1>3, <1>4, AllGetWhen
  <2> QED
    BY <1>1, <1>7, <1>9, <2>1 DEF AllGet, BusFree
<1>12. siQ # <<>> <=> OwedToGame
  <2>1. Owed <=> OwedToGame
    BY <1>4 DEF Owed
  <2>2. Owed => siQ # <<>>
    BY <1>1, <1>11, Ends1 DEF SerialInv, BusInv, BusUse, PollOnBus, OnBus
  <2>3. ~Owed => siQ = <<>>
    BY <1>11 DEF SerialInv, BusInv, BusUse, BusFree
  <2> QED
    BY <2>1, <2>2, <2>3
<1>13. Phases'
  <2>1. OwedToGame' <=> OwedToGame
    BY <1>8, <1>9 DEF Expecting, OwedToGame
  <2>2. InMessage'
    BY <1>1, <1>3, <1>7, <1>8, <1>12, <2>1 DEF InMessage
  <2>3. \A u \in Others : at'[u] # "away" => comes' = u
    BY <1>1, <1>7, <1>9, TheThreads DEF SerialInv, BusInv, Phases
  <2> QED
    BY <1>4, <1>8, <1>9, <1>10, <2>2, <2>3 DEF SerialInv, BusInv, Phases
<1>14. ~Owed'
  BY <1>7, <1>10 DEF Owed, OwedToDisk
<1>15. OneToken'
  BY <1>7, <1>9 DEF SerialInv, BusInv, OneToken, AllGet
<1>16. BusUse'
  <2>1. \A u \in Thread : stage'[u] \notin Waiting
    BY <1>11, StageCases DEF AllGet
  <2> QED
    BY <1>11, <1>14, <2>1 DEF BusUse
<1>17. PifHas'
  <2>1. ASSUME NEW u \in Thread
        PROVE  PifFor(tx[u], stage[u], AnswerTo(u))'
    <3>1. stage[u] = "get" /\ stage'[u] = "get"
      BY <1>11 DEF AllGet
    <3>2. tx'[u] # NoTx => AnswerTo(u)' = tx'[u]
      BY <1>2, <1>5, <1>6, <3>1, SpotAnswers
    <3> QED
      BY <3>1, <3>2 DEF PifFor
  <2>2. \A u \in Thread : dma' # End(u, "r", Poll) /\ siQ' # <<End(u, "r", Poll)>>
    BY <1>1, <1>9, Ends1, OnePlace
  <2>3. lastCmd' = Poll => pif' = Poll
    BY <1>9, TheThreads, InUse
  <2> QED
    BY <2>1, <2>2, <2>3 DEF PifHas, End
<1>18. Served'
  BY <1>2, <1>5, <1>6, Commands1, SpotServed
<1>19. "away" \notin AtMotor /\ "loop" \notin AtMotor /\ "loop" \notin {"done", "rstop", "rwait"}
  BY DEF AtMotor
<1>20. \A b \in Ports : moving[b] => on'[b] \/ ~pak'[b] \/ OperatedOn(b)'
  BY <1>1, <1>2, <1>6, <1>9, <1>19, PakFlags, OperatedStill
<1>21. \A b \in Ports : moving[b] /\ PassedByReset(b)' => ~pak'[b]
  BY <1>2, <1>6, <1>9, <1>19, PakFlags, PassedBefore
<1>22. Motors'
  BY <1>2, <1>5, <1>6, <1>9, <1>20, <1>21, SpotMotors
<1>23. SerialRanges'
  <2>1. flag \in BOOLEAN /\ saved' \in BOOLEAN /\ resetStarted \in BOOLEAN
    BY <1>1 DEF SerialInv, BusInv, SerialRanges
  <2> QED
    BY <1>2, <1>6, <1>9, <2>1, PakFlags, SpotRanges
<1> QED
  BY <1>13, <1>15, <1>16, <1>17, <1>18, <1>22, <1>23 DEF BusInv

\* Inside func_807038B0.
LEMMA MessageMoves ==
  ASSUME SerialInv, Active("disk"), Free("disk"), NEW p, NEW x \in TxSet,
         Goes("disk", p), Call("disk", x) \/ (UNCHANGED call /\ x = NoTx),
         UNCHANGED <<bus, idx, game, pads, world>>,
         at["disk"] \notin AtMotor, p \notin AtMotor, p # "away", p = "restart" => saved,
         x = NoTx \/ (x = Poll /\ p \in Polling),
         p = "recv" \/ (p \in {"lpoll", "restart"} /\ x = NoTx) <=> OwedToDisk
  PROVE  BusInv'
<1>1. "disk" \in Thread /\ tx["disk"] = NoTx /\ "disk" # "reset"
  BY TheThreads DEF Free, Serves, Active
<1>2. SpotMove("disk", p, idx["disk"], x)
  BY <1>1, Spot
<1>3. BusKept /\ UNCHANGED <<flag, saved, resetStarted, err, on, pak, moving, dev, comes>>
  BY DEF bus, BusKept, game, pads, world
<1>4. Phases' /\ (Owed' <=> OwedToDisk)
  BY <1>2, <1>3, DiskMoves
<1>5. Owed <=> OwedToDisk
  BY WhoIsAbout DEF Owed
<1>6. flag \in BOOLEAN /\ saved \in BOOLEAN /\ resetStarted \in BOOLEAN
  BY DEF SerialInv, BusInv, SerialRanges
<1> QED
  BY <1>1, <1>2, <1>3, <1>4, <1>5, <1>6, OuterInv

\* The message is taken away: if the service thread has taken the game's end, a
\* poll has been started in its place.
LEMMA MessageOver ==
  ASSUME SerialInv, Active("disk"), Free("disk"), Goes("disk", "away"), UNCHANGED call,
         UNCHANGED <<bus, idx, game, pads, world>>,
         at["disk"] \notin AtMotor, OwedToDisk <=> saved
  PROVE  BusInv'
<1>1. /\ "disk" \in Thread /\ "disk" \in Others /\ "disk" # "reset" /\ "game" \in Thread
      /\ tx["disk"] = NoTx
  BY TheThreads DEF Free, Serves, Active
<1>2. SpotMove("disk", "away", idx["disk"], NoTx)
  BY <1>1, Commands1, Spot
<1>3. BusKept /\ UNCHANGED <<flag, saved, resetStarted, err, on, pak, moving, dev, comes>>
  BY DEF bus, BusKept, game, pads, world
<1>4. /\ at'["disk"] = "away" /\ stage' = stage
      /\ \A u \in Thread : u # "disk" => at'[u] = at[u] /\ tx'[u] = tx[u]
  BY <1>1, <1>2 DEF SpotMove
<1>5. at'["game"] = at["game"] /\ tx'["game"] = tx["game"]
  BY <1>1, <1>4
<1>6. ~Active("reset") /\ ~Active("reset")' /\ ~Active("disk")'
  BY <1>4, TheThreads, WhoIsAbout DEF Active
<1>7. saved <=> OwedToGame
  BY DEF SerialInv, BusInv, Phases, InMessage
<1>8. Owed <=> OwedToDisk
  BY <1>6 DEF Owed
<1>9. Owed' <=> OwedToGame
  <2>1. OwedToGame' <=> OwedToGame
    BY <1>3, <1>5 DEF OwedToGame, Expecting
  <2> QED
    BY <1>6, <2>1 DEF Owed
<1>10. Phases'
  <2>1. \A u \in Others : at'[u] # "away" => at[u] # "away"
    BY <1>4, TheThreads
  <2> QED
    BY <1>3, <1>5, <1>6, <2>1 DEF SerialInv, BusInv, Phases
<1>11. flag \in BOOLEAN /\ saved \in BOOLEAN /\ resetStarted \in BOOLEAN
  BY DEF SerialInv, BusInv, SerialRanges
<1>12. "away" \notin AtMotor
  BY DEF AtMotor
<1> QED
  BY <1>1, <1>2, <1>3, <1>7, <1>8, <1>9, <1>10, <1>11, <1>12, Commands1, OuterInv

LEMMA MessageInv ==
  ASSUME SerialInv, MessageLoop \/ ButtonPressed \/ MessageEnds
  PROVE  BusInv'
<1>1. /\ Free("disk") /\ "disk" \in Others /\ at["disk"] \in {"loop", "lpoll", "pressed", "restart"}
      /\ UNCHANGED <<bus, idx, game, pads, world>>
  BY DEF MessageLoop, ButtonPressed, MessageEnds
<1>2. Active("disk") /\ at["disk"] \notin AtMotor /\ tx["disk"] = NoTx
  BY <1>1 DEF Active, AtMotor, Free, Serves
<1>3. {"loop", "lpoll", "recv", "restart"} \cap AtMotor = {} /\ {"lpoll", "restart"} \subseteq Polling
  BY DEF AtMotor, Polling
<1>4. CASE at["disk"] = "loop"
  <2>1. Goes("disk", "lpoll") /\ Call("disk", Poll)
    BY <1>4 DEF MessageLoop, ButtonPressed, MessageEnds
  <2>2. ~OwedToDisk
    BY <1>4 DEF OwedToDisk
  <2> QED
    BY <1>1, <1>2, <1>3, <2>1, <2>2, Commands1, MessageMoves
<1>5. CASE at["disk"] = "lpoll"
  <2>1. Goes("disk", "recv") /\ UNCHANGED call
    BY <1>5 DEF MessageLoop, ButtonPressed, MessageEnds, Enter, NoCall
  <2>2. OwedToDisk
    BY <1>2, <1>5 DEF OwedToDisk
  <2> QED
    BY <1>1, <1>2, <1>3, <2>1, <2>2, Commands1, MessageMoves
<1>6. CASE at["disk"] = "pressed"
  <2>1. ~OwedToDisk
    BY <1>6 DEF OwedToDisk
  <2>2. CASE Goes("disk", "loop") /\ UNCHANGED call
    BY <1>1, <1>2, <1>3, <2>1, <2>2, Commands1, MessageMoves
  <2>3. CASE saved /\ Goes("disk", "restart") /\ Call("disk", Poll)
    BY <1>1, <1>2, <1>3, <2>1, <2>3, Commands1, MessageMoves
  <2>4. CASE ~saved /\ Goes("disk", "away") /\ UNCHANGED call
    BY <1>1, <1>2, <2>1, <2>4, MessageOver
  <2> QED
    BY <1>6, <2>2, <2>3, <2>4 DEF MessageLoop, ButtonPressed, MessageEnds, NoCall
<1>7. CASE at["disk"] = "restart"
  <2>1. Goes("disk", "away") /\ UNCHANGED call
    BY <1>7 DEF MessageLoop, ButtonPressed, MessageEnds
  <2>2. OwedToDisk /\ saved
    BY <1>2, <1>7 DEF OwedToDisk, SerialInv, BusInv, Phases, InMessage
  <2> QED
    BY <1>1, <1>2, <2>1, <2>2, MessageOver
<1> QED
  BY <1>1, <1>4, <1>5, <1>6, <1>7

LEMMA BusInit ==
  ASSUME SerialInit
  PROVE  BusInv
<1>1. "game" \in Thread /\ "reset" # "game" /\ "disk" # "game"
  BY TheThreads
<1>2. ASSUME NEW t \in Thread
      PROVE  /\ at[t] = (IF t = "game" THEN "frame" ELSE "away") /\ idx[t] = 0
             /\ tx[t] = NoTx /\ stage[t] = "get"
  BY DEF SerialInit
<1>3. \A u \in Others : u \in Thread /\ u # "game" /\ at[u] = "away" /\ ~Active(u)
  BY <1>2, TheThreads DEF Active
<1>4. ~Active("reset") /\ ~Active("disk") /\ at["game"] = "frame"
  BY <1>1, <1>2, <1>3 DEF Active
<1>5. AllGet /\ BusFree /\ ~Owed
  <2>1. ~Owed
    BY <1>4 DEF SerialInit, Owed, OwedToGame, Expecting
  <2> QED
    BY <1>2, <2>1 DEF SerialInit, AllGet, BusFree
<1>6. SerialRanges
  <2>1. tx \in Serving /\ stage \in Staged
    BY Commands1 DEF SerialInit, Serving, Staged, Stages
  <2>2. done \in Ended
    <3>1. [cmd |-> NoTx, res |-> "ok"] \in DoneSet
      BY Commands1 DEF DoneSet, Results
    <3> QED
      BY <3>1 DEF SerialInit, Ended
  <2>3. err \in Flags /\ want \in Flags /\ pak \in Flags /\ dev \in Plugs
    BY DEF SerialInit, Flags, Plugs
  <2>4. on \in Flags /\ moving \in Flags
    BY <2>3 DEF SerialInit
  <2>5. flag \in BOOLEAN /\ saved \in BOOLEAN /\ resetStarted \in BOOLEAN
    BY DEF SerialInit
  <2>6. token \in 0..1 /\ tries \in Tried
    BY SerialAssumption DEF SerialInit, Tried
  <2> QED
    BY <2>1, <2>2, <2>3, <2>4, <2>5, <2>6 DEF SerialRanges
<1>7. Served
  <2>1. ASSUME NEW t \in Thread
        PROVE  WellServed(at[t], idx[t], tx[t], stage[t], done[t])
    BY <1>2, Commands1 DEF WellServed, Motor
  <2> QED
    BY <2>1 DEF Served
<1>8. OneToken
  BY <1>2, <1>5 DEF SerialInit, OneToken
<1>9. Phases
  BY <1>3, <1>4 DEF SerialInit, Phases, Clearing
<1>10. BusUse
  BY <1>2, <1>5, StageCases DEF BusUse
<1>11. PifHas
  <2>1. ASSUME NEW t \in Thread
        PROVE  PifFor(tx[t], stage[t], AnswerTo(t)) /\ dma # End(t, "r", Poll) /\ siQ # <<End(t, "r", Poll)>>
    BY <1>2, Ends1, OnePlace DEF SerialInit, PifFor
  <2>2. lastCmd # Poll
    BY Commands1 DEF SerialInit
  <2> QED
    BY <2>1, <2>2 DEF PifHas
<1>12. Motors
  <2>1. \A c \in Ports : ~moving[c]
    BY DEF SerialInit
  <2>2. \A t \in Thread : ~StopJustRead(t) /\ ~StopJustDone(t)
    BY <1>2 DEF StopJustRead, StopJustDone
  <2> QED
    BY <2>1, <2>2 DEF Motors
<1> QED
  BY <1>6, <1>7, <1>8, <1>9, <1>10, <1>11, <1>12 DEF BusInv

LEMMA BusStays ==
  ASSUME SerialInv, UNCHANGED serialVars
  PROVE  BusInv'
BY DEF SerialInv, BusInv, SerialRanges, Served, WellServed, OneToken, AllGet, Phases, Active,
   InReset, InMessage, Expecting, BusUse, BusFree, Owed, OwedToGame, OwedToDisk, PollOnBus, OnBus,
   AwaitedAt, End, PifHas, PifFor, AnswerTo, StatusOf, Tx, Motors, TurnsRightly, OperatedOn, PassedByReset, StopJustRead,
   StopJustDone, serialVars, bus, call, place, game, pads, world

LEMMA BusNext ==
  ASSUME SerialInv, [SerialNext]_serialVars, ~untimely'
  PROVE  BusInv'
<1>1. CASE SiInterrupt
  BY <1>1, SiInterruptInv
<1>2. ASSUME NEW t \in Thread, BusStep(t)
      PROVE  BusInv'
  BY <1>2, GetAccessInv, WriteInv, WrittenInv, ReadInv, ReadWaitInv, StatusStepInv, StatusWaitInv
  DEF BusStep
<1>3. ASSUME NEW t \in Thread, ControllerStep(t)
      PROVE  BusInv'
  BY <1>3, ReceivePollInv, LookAtPortInv, MotorResultInv, MotorInitInv, InitStoppedInv,
     ResetBeginsInv, ResetClearsInv, ResetStopsInv
  DEF ControllerStep
<1>4. CASE GameStep
  BY <1>4, GameStepInv
<1>5. CASE ResetButton
  BY <1>5, ResetButtonInv
<1>6. CASE Disk
  BY <1>6, ShowMessageInv, MessageInv DEF Disk
<1>7. ASSUME NEW c \in Ports, NEW d \in Devices, Replug(c, d)
      PROVE  BusInv'
  BY <1>7, ReplugInv
<1>8. CASE UNCHANGED serialVars
  BY <1>8, BusStays
<1> QED
  BY <1>1, <1>2, <1>3, <1>4, <1>5, <1>6, <1>7, <1>8 DEF SerialNext, Steps

\* What came at a moment that the code cannot bear has come for good.
LEMMA UntimelyForGood ==
  ASSUME untimely, [SerialNext]_serialVars
  PROVE  untimely'
<1>1. ASSUME NEW t \in Thread, Steps(t)
      PROVE  untimely'
  BY <1>1 DEF Steps, BusStep, ControllerStep, GetAccess, Write, Written, Read, ReadWait, StatusStep,
     StatusWait, ReceivePoll, LookAtPort, MotorResult, MotorInit, InitStopped, ResetBegins,
     ResetClears, ResetStops, game
<1>2. CASE GameStep
  BY <1>2 DEF GameStep, BeginFrame, Inputs, Cleared, Mode, StartPoll, Polled, game
<1>3. CASE ResetButton \/ Disk
  BY <1>3 DEF ResetButton, Disk, ShowMessage, MessageLoop, ButtonPressed, MessageEnds, game
<1>4. CASE SiInterrupt \/ (\E c \in Ports, d \in Devices : Replug(c, d)) \/ UNCHANGED serialVars
  BY <1>4 DEF SiInterrupt, Replug, serialVars, game
<1> QED
  BY <1>1, <1>2, <1>3, <1>4 DEF SerialNext

LEMMA SerialInvHolds ==
  SerialSpec => [](PlacesInv /\ Exists /\ (untimely \/ SerialInv))
<1>1. SerialInit => PlacesInv /\ Exists /\ SerialInv
  BY PlacesInit, BusInit DEF SerialInv
<1>2. PlacesInv /\ Exists /\ (untimely \/ SerialInv) /\ [SerialNext]_serialVars =>
        PlacesInv' /\ Exists' /\ (untimely' \/ SerialInv')
  BY PlacesNext, BusNext, UntimelyForGood DEF SerialInv
<1> QED
  BY <1>1, <1>2, PTL DEF SerialSpec

(***************************************************************************)
(* Nobody waits for ever on the serial bus: an end is awaited only while   *)
(* its DMA is under way, the token only while somebody has it who goes on. *)
(* The reset thread may come wherever gControllerReadDataStarted is right, *)
(* inside any of the game's calls, and the service thread wherever the     *)
(* game has not the token; NoEndlessWait says nothing of the other moments *)
(* (untimely), and of what these two threads rob the game of.              *)
(***************************************************************************)
THEOREM NoEndlessWaitOnTheBus ==
  SerialSpec => []NoEndlessWait
<1>1. untimely \/ SerialInv => NoEndlessWait
  BY NobodyWaitsForEver DEF NoEndlessWait
<1> QED
  BY <1>1, SerialInvHolds, PTL

(***************************************************************************)
(* A motor that turns is one the game has turned on, has given up or is    *)
(* about to stop, and the reset thread leaves none on that it knows of.    *)
(***************************************************************************)
THEOREM MotorsAreAccountedFor ==
  SerialSpec => []MotorKnown
<1>1. untimely \/ SerialInv => MotorKnown
  BY MotorsAreKnown DEF MotorKnown
<1> QED
  BY <1>1, SerialInvHolds, PTL

\* The DMA whose end is in the queue while t waits for it.
LEMMA AnswerStep ==
  ASSUME SerialInv, NEW t \in Thread, siQ # <<>>, siQ' = <<>>
  PROVE  /\ Written(t) \/ ReadWait(t) \/ StatusStep(t) \/ StatusWait(t) =>
              Head(siQ) = [by |-> t,
                           dir |-> IF stage[t] \in {"written", "statusWait"}
                                   THEN "w" ELSE "r",
                           what |-> IF stage[t] \in {"statusWait", "sreadWait"}
                                    THEN Tx("status", tx[t].c) ELSE tx[t]]
         /\ ReadWait(t) => answered = AnswerTo(t)
         /\ StatusWait(t) => answered = Tx("status", tx[t].c)
         /\ ReceivePoll(t) => Head(siQ).what = Poll /\ answered = Poll
<1>1. ASSUME Written(t) \/ ReadWait(t) \/ StatusStep(t) \/ StatusWait(t)
      PROVE  stage[t] \in Waiting
  BY <1>1 DEF Written, ReadWait, StatusStep, StatusWait, Waiting
<1>2. ASSUME stage[t] \in Waiting
      PROVE  dma = NoTx /\ Head(siQ) = AwaitedAt(t, tx[t], stage[t])
  <2>1. dma = NoTx /\ siQ = <<AwaitedAt(t, tx[t], stage[t])>>
    BY <1>2, InUse, NoLonger
  <2> QED
    BY <2>1, OnePlace
<1>3. ASSUME ReadWait(t)
      PROVE  answered = AnswerTo(t)
  <2>1. stage[t] = "readWait" /\ dma = NoTx
    BY <1>1, <1>2, <1>3 DEF ReadWait
  <2> QED
    BY <2>1, InUse DEF PifFor
<1>4. ASSUME StatusWait(t)
      PROVE  answered = Tx("status", tx[t].c)
  <2>1. stage[t] = "sreadWait" /\ dma = NoTx
    BY <1>1, <1>2, <1>4 DEF StatusWait
  <2> QED
    BY <2>1, InUse DEF PifFor, StatusOf
<1>5. ASSUME ReceivePoll(t)
      PROVE  Head(siQ).what = Poll /\ answered = Poll
  <2>1. PICK u \in Thread : OnBus(End(u, "r", Poll))
    BY <1>5, ReceivePollInv DEF PollOnBus
  <2>2. siQ = <<End(u, "r", Poll)>>
    BY <2>1, NoLonger
  <2>3. answered = Poll
    BY <2>2, InUse
  <2> QED
    BY <2>2, <2>3, OnePlace, Ends1
<1> QED
  BY <1>1, <1>2, <1>3, <1>4, <1>5 DEF AwaitedAt, End

(***************************************************************************)
(* Who receives an end receives its own, and what was read is the answer   *)
(* to what was asked: the threads share one queue and one memory of the    *)
(* PIF, and none takes what another one waits for, whenever the others     *)
(* come, untimely moments apart.                                           *)
(***************************************************************************)
THEOREM EachHasItsOwnAnswer ==
  SerialSpec => OwnAnswer
<1>1. (untimely \/ SerialInv) /\ [SerialNext]_serialVars =>
        [\A t \in Thread : siQ # <<>> /\ siQ' = <<>> /\ ~untimely =>
           /\ Written(t) \/ ReadWait(t) \/ StatusStep(t) \/ StatusWait(t) =>
                Head(siQ) = [by |-> t,
                             dir |-> IF stage[t] \in {"written", "statusWait"}
                                     THEN "w" ELSE "r",
                             what |-> IF stage[t] \in {"statusWait", "sreadWait"}
                                      THEN Tx("status", tx[t].c) ELSE tx[t]]
           /\ ReadWait(t) => answered = AnswerTo(t)
           /\ StatusWait(t) => answered = Tx("status", tx[t].c)
           /\ ReceivePoll(t) => Head(siQ).what = Poll /\ answered = Poll]_serialVars
  BY AnswerStep
<1> QED
  BY <1>1, SerialInvHolds, PTL DEF OwnAnswer, SerialSpec
=============================================================================
