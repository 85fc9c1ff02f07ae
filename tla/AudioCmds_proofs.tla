-------------------------- MODULE AudioCmds_proofs --------------------------
(***************************************************************************)
(* The ring of commands keeps their order, for rings and message queues of *)
(* any length, if no retrace comes while the game thread is in a call.     *)
(***************************************************************************)
EXTENDS AudioCmds, TLAPS

-----------------------------------------------------------------------------
(* The invariant.  How far a position is from the first command is its      *)
(* offset; between two positions of the ring all arithmetic is on offsets.  *)

\* The ranges of q follow each other from e to a, as seen from f.
Chained(f, e, q, a) ==
  /\ Distance(f, e) <= Distance(f, a)
  /\ IF q = <<>> THEN e = a ELSE q[1].from = e /\ q[Len(q)].to = a
  /\ \A i, j \in 1..Len(q) : j = i + 1 => q[i].to = q[j].from
  /\ \A i \in 1..Len(q) :
       /\ Distance(f, e) <= Distance(f, q[i].from)
       /\ Distance(f, q[i].from) <= Distance(f, q[i].to)
       /\ Distance(f, q[i].to) <= Distance(f, a)
  /\ \A i, j \in 1..Len(q) : i < j => Distance(f, q[i].to) <= Distance(f, q[j].from)

\* Where the ranges that wait begin.
InHand == IF audioPc = "run" THEN endPos ELSE First

\* What has been announced has been queued.
RangesInOrder ==
  /\ Chained(First, InHand, procQ, Announced)
  /\ Distance(First, Announced) <= Distance(First, Last)

\* No command has been overwritten.
Filled ==
  \A p \in Positions :
    Distance(First, p) < Distance(First, Last) => buffer[p] \in Commands

\* There is room for the command that is being queued, or it will be dropped.
Room == Distance(First, Last) # RingSize - 1 \/ First = Announced

Registers ==
  /\ audioPc \in {"fade", "task"} => gamePc \in {"idle", "spin"}
  /\ gamePc \in {"store", "load", "bump"} => slot = writePos
  /\ gamePc \in {"bump", "check"} => next = Succ(slot)
  /\ gamePc = "check" => writePos = next
  /\ gamePc = "store" => queued < MaxCmds
  /\ gamePc \in {"load", "bump", "check"} =>
       buffer[slot] = queued /\ queued \in Commands
  /\ gamePc \in {"store", "load", "bump", "check"} => Room
  /\ gamePc \in {"send", "mark"} => range = [from |-> readPos, to |-> writePos]

RingType ==
  /\ buffer \in [Positions -> Commands \cup {NoCommand}]
  /\ writePos \in Positions /\ readPos \in Positions
  /\ slot \in Positions /\ next \in Positions /\ range \in Ranges
  /\ curPos \in Positions /\ endPos \in Positions
  /\ procQ \in Seq(Ranges)
  /\ queued \in 0..MaxCmds

IInv == RingType /\ Registers /\ RangesInOrder /\ Filled

-----------------------------------------------------------------------------
(* Arithmetic of the ring.                                                 *)

LEMMA Remainder ==
  ASSUME NEW n \in Nat \ {0}, NEW x \in Nat, x < 2 * n
  PROVE  x % n = IF x < n THEN x ELSE x - n
OBVIOUS

LEMMA DistanceIs ==
  ASSUME NEW a \in Positions, NEW b \in Positions
  PROVE  /\ Distance(a, b) = IF a <= b THEN b - a ELSE b - a + RingSize
         /\ Distance(a, b) \in Nat /\ Distance(a, b) < RingSize
<1>1. PICK n \in Nat \ {0} : n = RingSize
  BY RingAssumption
<1>2. a \in Nat /\ b \in Nat /\ a < n /\ b < n
  BY <1>1 DEF Positions
<1>3. PICK x \in Nat : x = b + n - a /\ x < 2 * n
  BY <1>2
<1>4. x % n = IF x < n THEN x ELSE x - n
  BY <1>3, Remainder
<1>5. Distance(a, b) = x % n
  BY <1>1, <1>3 DEF Distance
<1> QED
  BY <1>1, <1>2, <1>3, <1>4, <1>5

LEMMA SuccIs ==
  ASSUME NEW p \in Positions
  PROVE  /\ Succ(p) = IF p = RingSize - 1 THEN 0 ELSE p + 1
         /\ Succ(p) \in Positions
<1>1. PICK n \in Nat : n = RingSize /\ n >= 2
  BY RingAssumption
<1>2. p \in Nat /\ p < n
  BY <1>1 DEF Positions
<1>3. PICK x \in Nat : x = p + 1 /\ x < 2 * n
  BY <1>1, <1>2
<1>4. x % n = IF x < n THEN x ELSE x - n
  BY <1>1, <1>3, Remainder
<1>5. Succ(p) = x % n
  BY <1>1, <1>3 DEF Succ
<1> QED
  BY <1>1, <1>2, <1>3, <1>4, <1>5 DEF Positions

LEMMA PredIs ==
  ASSUME NEW p \in Positions
  PROVE  Pred(p) \in Positions /\ Pred(Succ(p)) = p
<1>1. PICK n \in Nat : n = RingSize /\ n >= 2
  BY RingAssumption
<1>2. \A r \in Positions :
        r \in Nat /\ r < n /\ Pred(r) = IF r = 0 THEN n - 1 ELSE r - 1
  <2> SUFFICES ASSUME NEW r \in Positions
               PROVE  /\ r \in Nat /\ r < n
                      /\ Pred(r) = IF r = 0 THEN n - 1 ELSE r - 1
    OBVIOUS
  <2>1. r \in Nat /\ r < n
    BY <1>1 DEF Positions
  <2>2. PICK x \in Nat : x = r + n - 1 /\ x < 2 * n
    BY <1>1, <2>1
  <2>3. x % n = IF x < n THEN x ELSE x - n
    BY <1>1, <2>2, Remainder
  <2>4. Pred(r) = x % n
    BY <1>1, <2>2 DEF Pred
  <2> QED
    BY <1>1, <2>1, <2>2, <2>3, <2>4
<1>3. Succ(p) \in Positions /\ Succ(p) = IF p = n - 1 THEN 0 ELSE p + 1
  BY <1>1, SuccIs
<1> QED
  BY <1>1, <1>2, <1>3 DEF Positions

\* The place of the i-th entry from f on.
LEMMA PlaceIs ==
  ASSUME NEW f \in Positions, NEW i \in 1..RingSize
  PROVE  (f + i - 1) % RingSize \in Positions
         /\ Distance(f, (f + i - 1) % RingSize) = i - 1
<1>1. PICK n \in Nat : n = RingSize /\ n >= 2
  BY RingAssumption
<1>2. f \in Nat /\ f < n /\ i \in Nat /\ 1 <= i /\ i <= n
  BY <1>1 DEF Positions
<1>3. PICK x \in Nat : x = f + i - 1 /\ x < 2 * n
  BY <1>2
<1>4. PICK p : p = x % n
  OBVIOUS
<1>5. p = IF x < n THEN x ELSE x - n
  BY <1>1, <1>3, <1>4, Remainder
<1>6. p \in Positions
  BY <1>1, <1>2, <1>3, <1>5 DEF Positions
<1>7. Distance(f, p) = i - 1
  BY <1>1, <1>2, <1>3, <1>5, <1>6, DistanceIs
<1> QED
  BY <1>1, <1>3, <1>4, <1>6, <1>7

LEMMA SameDistance ==
  ASSUME NEW f \in Positions, NEW p \in Positions, NEW r \in Positions,
         Distance(f, p) = Distance(f, r)
  PROVE  p = r
<1>1. PICK n \in Nat : n = RingSize
  BY RingAssumption
<1>2. f \in 0..n - 1 /\ p \in 0..n - 1 /\ r \in 0..n - 1
  BY <1>1 DEF Positions
<1>3. Distance(f, p) = IF f <= p THEN p - f ELSE p - f + n
  BY <1>1, DistanceIs
<1>4. Distance(f, r) = IF f <= r THEN r - f ELSE r - f + n
  BY <1>1, DistanceIs
<1>5. PICK d : d = Distance(f, p) /\ d = Distance(f, r)
  OBVIOUS
<1>6. p = IF f <= p THEN d + f ELSE d + f - n
  BY <1>2, <1>3, <1>5
<1>7. r = IF f <= r THEN d + f ELSE d + f - n
  BY <1>2, <1>4, <1>5
<1>8. d \in Nat
  BY <1>5, DistanceIs
<1> QED
  BY <1>2, <1>6, <1>7, <1>8

\* One further, and one nearer.
LEMMA Further ==
  ASSUME NEW f \in Positions, NEW p \in Positions,
         Distance(f, p) # RingSize - 1
  PROVE  Distance(f, Succ(p)) = Distance(f, p) + 1
<1>1. PICK n \in Nat : n = RingSize /\ n >= 2
  BY RingAssumption
<1>2. f \in 0..n - 1 /\ p \in 0..n - 1
  BY <1>1 DEF Positions
<1>3. PICK r \in Positions : r = Succ(p) /\ r = IF p = n - 1 THEN 0 ELSE p + 1
  BY <1>1, SuccIs
<1>4. Distance(f, p) = IF f <= p THEN p - f ELSE p - f + n
  BY <1>1, DistanceIs
<1>5. Distance(f, r) = IF f <= r THEN r - f ELSE r - f + n
  BY <1>1, DistanceIs
<1> QED
  BY <1>1, <1>2, <1>3, <1>4, <1>5

LEMMA Nearer ==
  ASSUME NEW f \in Positions, NEW p \in Positions, p # f
  PROVE  Distance(Succ(f), p) = Distance(f, p) - 1 /\ Distance(f, p) >= 1
<1>1. PICK n \in Nat : n = RingSize /\ n >= 2
  BY RingAssumption
<1>2. f \in 0..n - 1 /\ p \in 0..n - 1
  BY <1>1 DEF Positions
<1>3. PICK g \in Positions : g = Succ(f) /\ g = IF f = n - 1 THEN 0 ELSE f + 1
  BY <1>1, SuccIs
<1>4. Distance(f, p) = IF f <= p THEN p - f ELSE p - f + n
  BY <1>1, DistanceIs
<1>5. Distance(g, p) = IF g <= p THEN p - g ELSE p - g + n
  BY <1>1, DistanceIs
<1> QED
  BY <1>1, <1>2, <1>3, <1>4, <1>5

-----------------------------------------------------------------------------
(* The commands in the ring.                                               *)

\* The entries of b from f up to l.
Listed(b, f, l) ==
  [i \in 1..Distance(f, l) |-> b[(f + i - 1) % RingSize]]

FilledFrom(b, f, l) ==
  \A p \in Positions : Distance(f, p) < Distance(f, l) => b[p] \in Commands

\* What is written elsewhere does not matter.
LEMMA ListedSame ==
  ASSUME NEW f \in Positions, NEW l \in Positions, NEW b, NEW c,
         \A p \in Positions : Distance(f, p) < Distance(f, l) => c[p] = b[p]
  PROVE  /\ Listed(c, f, l) = Listed(b, f, l)
         /\ FilledFrom(b, f, l) => FilledFrom(c, f, l)
<1>1. Distance(f, l) \in Nat /\ Distance(f, l) < RingSize /\ RingSize \in Nat
  BY DistanceIs, RingAssumption
<1>2. \A i \in 1..Distance(f, l) :
        c[(f + i - 1) % RingSize] = b[(f + i - 1) % RingSize]
  <2> SUFFICES ASSUME NEW i \in 1..Distance(f, l)
               PROVE  c[(f + i - 1) % RingSize] = b[(f + i - 1) % RingSize]
    OBVIOUS
  <2>1. i \in 1..RingSize /\ i - 1 < Distance(f, l)
    BY <1>1
  <2>2. PICK p \in Positions : p = (f + i - 1) % RingSize /\ Distance(f, p) = i - 1
    BY <2>1, PlaceIs
  <2>3. c[p] = b[p]
    BY <2>1, <2>2
  <2> QED
    BY <2>2, <2>3
<1> QED
  BY <1>2 DEF Listed, FilledFrom

LEMMA ListedSeq ==
  ASSUME NEW f \in Positions, NEW l \in Positions, NEW b, FilledFrom(b, f, l)
  PROVE  /\ Listed(b, f, l) \in Seq(Commands)
         /\ Len(Listed(b, f, l)) = Distance(f, l)
<1>1. PICK n \in Nat : n = Distance(f, l) /\ n < RingSize /\ RingSize \in Nat
  BY DistanceIs, RingAssumption
<1>2. \A i \in 1..n : b[(f + i - 1) % RingSize] \in Commands
  <2> SUFFICES ASSUME NEW i \in 1..n
               PROVE  b[(f + i - 1) % RingSize] \in Commands
    OBVIOUS
  <2>1. i \in 1..RingSize /\ i - 1 < n
    BY <1>1
  <2>2. PICK p \in Positions : p = (f + i - 1) % RingSize /\ Distance(f, p) = i - 1
    BY <2>1, PlaceIs
  <2> QED
    BY <1>1, <2>1, <2>2 DEF FilledFrom
<1> DEFINE s == [i \in 1..n |-> b[(f + i - 1) % RingSize]]
<1>3. s \in Seq(Commands) /\ Len(s) = n
  BY <1>2
<1>4. Listed(b, f, l) = s
  BY <1>1 DEF Listed
<1> QED
  BY <1>1, <1>3, <1>4

\* A command comes behind the others.
LEMMA ListedMore ==
  ASSUME NEW f \in Positions, NEW l \in Positions, NEW b,
         FilledFrom(b, f, l), b[l] \in Commands,
         Distance(f, l) # RingSize - 1
  PROVE  /\ Listed(b, f, Succ(l)) = Append(Listed(b, f, l), b[l])
         /\ FilledFrom(b, f, Succ(l))
<1>1. PICK n \in Nat : n = Distance(f, l) /\ n < RingSize /\ RingSize \in Nat
  BY DistanceIs, RingAssumption
<1>2. PICK m \in Positions : m = Succ(l)
  BY SuccIs
<1>3. Distance(f, m) = n + 1
  BY <1>1, <1>2, Further
<1>4. FilledFrom(b, f, m)
  <2> SUFFICES ASSUME NEW p \in Positions, Distance(f, p) < n + 1
               PROVE  b[p] \in Commands
    BY <1>3 DEF FilledFrom
  <2>1. CASE Distance(f, p) < n
    BY <1>1, <2>1 DEF FilledFrom
  <2>2. CASE Distance(f, p) = n
    <3>1. p = l
      BY <1>1, <2>2, SameDistance
    <3> QED
      BY <3>1
  <2>3. Distance(f, p) \in Nat
    BY DistanceIs
  <2> QED
    BY <1>1, <2>1, <2>2, <2>3
<1>5. PICK s, t : s = Listed(b, f, l) /\ t = Listed(b, f, m)
  OBVIOUS
<1>6. s \in Seq(Commands) /\ Len(s) = n /\ t \in Seq(Commands) /\ Len(t) = n + 1
  BY <1>1, <1>3, <1>4, <1>5, ListedSeq
<1>7. \A i \in 1..n : t[i] = s[i]
  BY <1>1, <1>3, <1>5 DEF Listed
<1>8. t[n + 1] = b[l]
  <2>1. n + 1 \in 1..RingSize /\ (n + 1) - 1 = n
    BY <1>1
  <2>2. PICK p \in Positions : p = (f + (n + 1) - 1) % RingSize /\ Distance(f, p) = n
    BY <2>1, PlaceIs
  <2>3. p = l
    BY <1>1, <2>2, SameDistance
  <2> QED
    BY <1>3, <1>5, <2>1, <2>2, <2>3 DEF Listed
<1>9. t = Append(s, b[l])
  BY <1>6, <1>7, <1>8
<1> QED
  BY <1>2, <1>4, <1>5, <1>9

\* The first command leaves.
LEMMA ListedLess ==
  ASSUME NEW f \in Positions, NEW l \in Positions, f # l, NEW b,
         FilledFrom(b, f, l)
  PROVE  /\ Listed(b, f, l) # <<>>
         /\ Head(Listed(b, f, l)) = b[f] /\ b[f] \in Commands
         /\ Listed(b, Succ(f), l) = Tail(Listed(b, f, l))
         /\ FilledFrom(b, Succ(f), l)
<1>1. PICK n \in Nat : n = Distance(f, l) /\ n < RingSize /\ RingSize \in Nat
  BY DistanceIs, RingAssumption
<1>2. PICK g \in Positions : g = Succ(f)
  BY SuccIs
<1>3. n >= 1 /\ Distance(g, l) = n - 1
  BY <1>1, <1>2, Nearer
<1>4. Distance(f, f) = 0
  BY DistanceIs, RingAssumption DEF Positions
<1>5. b[f] \in Commands
  BY <1>1, <1>3, <1>4 DEF FilledFrom
<1>6. FilledFrom(b, g, l)
  <2> SUFFICES ASSUME NEW p \in Positions, Distance(g, p) < n - 1
               PROVE  b[p] \in Commands
    BY <1>3 DEF FilledFrom
  <2>1. CASE p = f
    BY <1>5, <2>1
  <2>2. CASE p # f
    <3>1. Distance(g, p) = Distance(f, p) - 1 /\ Distance(f, p) \in Nat
      BY <1>2, <2>2, Nearer, DistanceIs
    <3> QED
      BY <1>1, <3>1 DEF FilledFrom
  <2> QED
    BY <2>1, <2>2
<1>7. PICK s, t : s = Listed(b, f, l) /\ t = Listed(b, g, l)
  OBVIOUS
<1>8. s \in Seq(Commands) /\ Len(s) = n /\ t \in Seq(Commands) /\ Len(t) = n - 1
  BY <1>1, <1>3, <1>6, <1>7, ListedSeq
<1>9. s[1] = b[f]
  <2>1. 1 \in 1..RingSize
    BY <1>1, <1>3
  <2>2. PICK p \in Positions : p = (f + 1 - 1) % RingSize /\ Distance(f, p) = 0
    BY <2>1, PlaceIs
  <2>3. p = f
    BY <1>4, <2>2, SameDistance
  <2> QED
    BY <1>1, <1>3, <1>7, <2>2, <2>3 DEF Listed
<1>10. ASSUME NEW i \in 1..n - 1
       PROVE  t[i] = s[i + 1]
  <2>1. i \in 1..RingSize /\ i + 1 \in 1..RingSize /\ (i + 1) - 1 = i /\ i - 1 \in Nat
    BY <1>1, <1>3
  <2>2. PICK p \in Positions : p = (g + i - 1) % RingSize /\ Distance(g, p) = i - 1
    BY <2>1, PlaceIs
  <2>3. PICK r \in Positions : r = (f + (i + 1) - 1) % RingSize /\ Distance(f, r) = i
    BY <2>1, PlaceIs
  <2>4. r # f
    BY <1>4, <2>1, <2>3
  <2>5. Distance(g, r) = i - 1
    BY <1>2, <2>3, <2>4, Nearer
  <2>6. p = r
    BY <2>2, <2>5, SameDistance
  <2>7. t[i] = b[p]
    BY <1>3, <1>7, <2>2 DEF Listed
  <2>8. s[i + 1] = b[r]
    <3>1. i + 1 \in 1..n
      BY <1>1, <1>3
    <3> QED
      BY <1>1, <1>7, <2>3, <3>1 DEF Listed
  <2> QED
    BY <2>6, <2>7, <2>8
<1>11. t = Tail(s)
  BY <1>3, <1>8, <1>10
<1>12. s # <<>> /\ Head(s) = b[f]
  BY <1>3, <1>8, <1>9
<1> QED
  BY <1>2, <1>5, <1>6, <1>7, <1>11, <1>12

-----------------------------------------------------------------------------
(* The ranges that have been announced.                                    *)

\* The first range is taken.
LEMMA ChainTake ==
  ASSUME NEW f \in Positions, NEW a \in Positions, NEW q \in Seq(Ranges),
         q # <<>>, Chained(f, f, q, a)
  PROVE  /\ Head(q) = q[1] /\ q[1] \in Ranges /\ q[1].from = f
         /\ Tail(q) \in Seq(Ranges)
         /\ Chained(f, q[1].to, Tail(q), a)
<1>1. PICK m \in Nat : Len(q) = m + 1
  <2>1. Len(q) \in Nat /\ Len(q) # 0
    OBVIOUS
  <2> QED
    BY <2>1
<1>2. PICK r : Len(q) = m + 1 /\ r = Tail(q)
  BY <1>1
<1>3. /\ Head(q) = q[1] /\ q[1] \in Ranges
      /\ r \in Seq(Ranges) /\ Len(r) = m
      /\ \A i \in 1..m : r[i] = q[i + 1] /\ i + 1 \in 1..m + 1
  BY <1>2
<1>4. /\ \A i, j \in 1..m + 1 : j = i + 1 => q[i].to = q[j].from
      /\ \A i \in 1..m + 1 :
           /\ Distance(f, f) <= Distance(f, q[i].from)
           /\ Distance(f, q[i].from) <= Distance(f, q[i].to)
           /\ Distance(f, q[i].to) <= Distance(f, a)
      /\ \A i, j \in 1..m + 1 :
           i < j => Distance(f, q[i].to) <= Distance(f, q[j].from)
      /\ q[1].from = f /\ q[m + 1].to = a
  BY <1>2 DEF Chained
<1>5. 1 \in 1..m + 1
  BY <1>2
<1>6. Distance(f, q[1].to) <= Distance(f, a)
  BY <1>4, <1>5
<1>7. IF r = <<>> THEN q[1].to = a ELSE r[1].from = q[1].to /\ r[Len(r)].to = a
  <2>1. CASE m = 0
    BY <1>3, <1>4, <2>1
  <2>2. CASE m > 0
    <3>1. 1 \in 1..m /\ m \in 1..m /\ 2 \in 1..m + 1
      BY <2>2
    <3>2. r[1] = q[2] /\ r[m] = q[m + 1]
      BY <1>3, <3>1
    <3>3. q[1].to = q[2].from
      BY <1>4, <1>5, <3>1
    <3> QED
      BY <1>3, <1>4, <2>2, <3>2, <3>3
  <2> QED
    BY <2>1, <2>2
<1>8. \A i, j \in 1..m : j = i + 1 => r[i].to = r[j].from
  <2> SUFFICES ASSUME NEW i \in 1..m, NEW j \in 1..m, j = i + 1
               PROVE  r[i].to = r[j].from
    OBVIOUS
  <2>1. i + 1 \in 1..m + 1 /\ j + 1 \in 1..m + 1 /\ j + 1 = (i + 1) + 1
    OBVIOUS
  <2> QED
    BY <1>3, <1>4, <2>1
<1>9. \A i \in 1..m :
        /\ Distance(f, q[1].to) <= Distance(f, r[i].from)
        /\ Distance(f, r[i].from) <= Distance(f, r[i].to)
        /\ Distance(f, r[i].to) <= Distance(f, a)
  <2> SUFFICES ASSUME NEW i \in 1..m
               PROVE  /\ Distance(f, q[1].to) <= Distance(f, r[i].from)
                      /\ Distance(f, r[i].from) <= Distance(f, r[i].to)
                      /\ Distance(f, r[i].to) <= Distance(f, a)
    OBVIOUS
  <2>1. i + 1 \in 1..m + 1 /\ 1 < i + 1
    OBVIOUS
  <2> QED
    BY <1>3, <1>4, <1>5, <2>1
<1>10. \A i, j \in 1..m : i < j => Distance(f, r[i].to) <= Distance(f, r[j].from)
  <2> SUFFICES ASSUME NEW i \in 1..m, NEW j \in 1..m, i < j
               PROVE  Distance(f, r[i].to) <= Distance(f, r[j].from)
    OBVIOUS
  <2>1. i + 1 \in 1..m + 1 /\ j + 1 \in 1..m + 1 /\ i + 1 < j + 1
    OBVIOUS
  <2> QED
    BY <1>3, <1>4, <2>1
<1> QED
  BY <1>2, <1>3, <1>4, <1>6, <1>7, <1>8, <1>9, <1>10 DEF Chained

Span(a, b) == [from |-> a, to |-> b]

\* Another range is announced, from the end of the last one.
LEMMA ChainSend ==
  ASSUME NEW f \in Positions, NEW e \in Positions, NEW a \in Positions,
         NEW b \in Positions, NEW q \in Seq(Ranges), Chained(f, e, q, a),
         Distance(f, a) <= Distance(f, b),
         NEW r, r = Append(q, Span(a, b))
  PROVE  /\ Chained(f, e, r, b) /\ r \in Seq(Ranges)
         /\ r # <<>> /\ Head(r).from = IF q = <<>> THEN a ELSE Head(q).from
<1>1. PICK m \in Nat : m = Len(q)
  OBVIOUS
<1>2. PICK g : m = Len(q) /\ g = Span(a, b)
  BY <1>1
<1>3. g \in Ranges /\ g.from = a /\ g.to = b
  BY <1>2 DEF Ranges, Span
<1>4. /\ r \in Seq(Ranges) /\ Len(r) = m + 1 /\ r # <<>>
      /\ \A i \in 1..m : r[i] = q[i]
      /\ r[m + 1] = g
  BY <1>2, <1>3
<1>5. \A i \in 1..m : q[i].from \in Positions /\ q[i].to \in Positions
  <2>1. \A i \in 1..m : q[i] \in Ranges
    BY <1>2
  <2> QED
    BY <2>1 DEF Ranges
<1>6. /\ Distance(f, e) <= Distance(f, a)
      /\ IF m = 0 THEN e = a ELSE q[1].from = e /\ q[m].to = a
      /\ \A i, j \in 1..m : j = i + 1 => q[i].to = q[j].from
      /\ \A i \in 1..m :
           /\ Distance(f, e) <= Distance(f, q[i].from)
           /\ Distance(f, q[i].from) <= Distance(f, q[i].to)
           /\ Distance(f, q[i].to) <= Distance(f, a)
      /\ \A i, j \in 1..m : i < j => Distance(f, q[i].to) <= Distance(f, q[j].from)
  BY <1>2 DEF Chained
<1>7. \A p \in Positions : Distance(f, p) \in Nat
  BY DistanceIs
<1>8. \A i \in 1..m + 1 : (i \in 1..m /\ r[i] = q[i]) \/ (i = m + 1 /\ r[i] = g)
  BY <1>4
<1>9. r[1].from = e /\ r[m + 1].to = b
  <2>1. CASE m = 0
    BY <1>3, <1>4, <1>6, <2>1
  <2>2. CASE m > 0
    BY <1>3, <1>4, <1>6, <2>2
  <2> QED
    BY <1>1, <2>1, <2>2
<1>10. ASSUME NEW i \in 1..m + 1, NEW j \in 1..m + 1, j = i + 1
      PROVE  r[i].to = r[j].from
  <2>1. i \in 1..m /\ r[i] = q[i]
    BY <1>4, <1>10
  <2>2. CASE j \in 1..m
    BY <1>4, <1>6, <1>10, <2>1, <2>2
  <2>3. CASE j = m + 1
    <3>1. i = m
      BY <1>10, <2>3
    <3> QED
      BY <1>3, <1>4, <1>6, <2>1, <2>3, <3>1
  <2> QED
    BY <1>1, <2>2, <2>3
<1>11. ASSUME NEW i \in 1..m + 1
       PROVE  /\ Distance(f, e) <= Distance(f, r[i].from)
              /\ Distance(f, r[i].from) <= Distance(f, r[i].to)
              /\ Distance(f, r[i].to) <= Distance(f, b)
  <2>1. CASE i \in 1..m
    <3>1. /\ Distance(f, e) <= Distance(f, q[i].from)
          /\ Distance(f, q[i].from) <= Distance(f, q[i].to)
          /\ Distance(f, q[i].to) <= Distance(f, a)
      BY <1>6, <2>1
    <3>2. Distance(f, q[i].to) \in Nat /\ Distance(f, a) \in Nat /\ Distance(f, b) \in Nat
      BY <1>5, <1>7, <2>1
    <3> QED
      BY <1>4, <2>1, <3>1, <3>2
  <2>2. CASE i = m + 1
    <3>1. Distance(f, b) \in Nat
      BY <1>7
    <3> QED
      BY <1>3, <1>4, <1>6, <2>2, <3>1
  <2> QED
    BY <1>1, <2>1, <2>2
<1>12. ASSUME NEW i \in 1..m + 1, NEW j \in 1..m + 1, i < j
       PROVE  Distance(f, r[i].to) <= Distance(f, r[j].from)
  <2>1. i \in 1..m /\ r[i] = q[i]
    BY <1>4, <1>12
  <2>2. CASE j \in 1..m
    BY <1>4, <1>6, <1>12, <2>1, <2>2
  <2>3. CASE j = m + 1
    BY <1>3, <1>4, <1>6, <2>1, <2>3
  <2> QED
    BY <1>1, <2>2, <2>3
<1>13. Head(r).from = IF q = <<>> THEN a ELSE Head(q).from
  <2>1. Head(r) = r[1]
    BY <1>4
  <2>2. CASE q = <<>>
    <3>1. m = 0
      BY <1>2, <2>2
    <3> QED
      BY <1>3, <1>4, <2>1, <2>2, <3>1
  <2>3. CASE q # <<>>
    <3>1. 1 \in 1..m /\ Head(q) = q[1]
      BY <1>2, <2>3
    <3> QED
      BY <1>4, <2>1, <2>3, <3>1
  <2> QED
    BY <2>2, <2>3
<1>14. Distance(f, e) <= Distance(f, b)
  BY <1>6, <1>7
<1> QED
  BY <1>4, <1>9, <1>10, <1>11, <1>12, <1>13, <1>14 DEF Chained

\* A command of the range in hand is carried out.
LEMMA ChainStep ==
  ASSUME NEW f \in Positions, NEW e \in Positions, NEW a \in Positions,
         NEW q \in Seq(Ranges), Chained(f, e, q, a), f # e
  PROVE  Chained(Succ(f), e, q, a)
<1>1. PICK m \in Nat : m = Len(q)
  OBVIOUS
<1>2. PICK g \in Positions : m = Len(q) /\ g = Succ(f)
  BY <1>1, SuccIs
<1>3. \A p \in Positions : Distance(f, p) \in Nat
  BY DistanceIs
<1>4. Distance(f, e) >= 1 /\ Distance(f, f) = 0
  BY Nearer, DistanceIs, RingAssumption DEF Positions
<1>5. \A p \in Positions :
        Distance(f, e) <= Distance(f, p) => Distance(g, p) = Distance(f, p) - 1
  <2> SUFFICES ASSUME NEW p \in Positions, Distance(f, e) <= Distance(f, p)
               PROVE  Distance(g, p) = Distance(f, p) - 1
    OBVIOUS
  <2>1. p # f
    BY <1>3, <1>4
  <2> QED
    BY <1>2, <2>1, Nearer
<1>6. \A i \in 1..m : q[i].from \in Positions /\ q[i].to \in Positions
  <2>1. \A i \in 1..m : q[i] \in Ranges
    BY <1>2
  <2> QED
    BY <2>1 DEF Ranges
<1>7. /\ Distance(f, e) <= Distance(f, a)
      /\ \A i \in 1..m :
           /\ Distance(f, e) <= Distance(f, q[i].from)
           /\ Distance(f, q[i].from) <= Distance(f, q[i].to)
           /\ Distance(f, q[i].to) <= Distance(f, a)
      /\ \A i, j \in 1..m : i < j => Distance(f, q[i].to) <= Distance(f, q[j].from)
  BY <1>2 DEF Chained
<1>8. Distance(g, e) <= Distance(g, a)
  BY <1>3, <1>5, <1>7
<1>9. ASSUME NEW i \in 1..m
      PROVE  /\ Distance(g, q[i].from) = Distance(f, q[i].from) - 1
             /\ Distance(g, q[i].to) = Distance(f, q[i].to) - 1
             /\ Distance(g, e) <= Distance(g, q[i].from)
             /\ Distance(g, q[i].from) <= Distance(g, q[i].to)
             /\ Distance(g, q[i].to) <= Distance(g, a)
  <2>1. /\ Distance(f, e) <= Distance(f, q[i].from)
        /\ Distance(f, q[i].from) <= Distance(f, q[i].to)
        /\ Distance(f, q[i].to) <= Distance(f, a)
    BY <1>7
  <2>2. /\ Distance(f, e) \in Nat /\ Distance(f, a) \in Nat
        /\ Distance(f, q[i].from) \in Nat /\ Distance(f, q[i].to) \in Nat
    BY <1>3, <1>6
  <2>3. /\ Distance(g, q[i].from) = Distance(f, q[i].from) - 1
        /\ Distance(g, q[i].to) = Distance(f, q[i].to) - 1
        /\ Distance(g, e) = Distance(f, e) - 1
        /\ Distance(g, a) = Distance(f, a) - 1
    BY <1>5, <1>6, <1>7, <2>1, <2>2
  <2> QED
    BY <2>1, <2>2, <2>3
<1>10. ASSUME NEW i \in 1..m, NEW j \in 1..m, i < j
      PROVE  Distance(g, q[i].to) <= Distance(g, q[j].from)
  <2>1. Distance(f, q[i].to) <= Distance(f, q[j].from)
    BY <1>7, <1>10
  <2>2. Distance(f, q[i].to) \in Nat /\ Distance(f, q[j].from) \in Nat
    BY <1>3, <1>6
  <2> QED
    BY <1>9, <2>1, <2>2
<1> QED
  BY <1>2, <1>8, <1>9, <1>10 DEF Chained

-----------------------------------------------------------------------------
(* The steps.                                                              *)

\* What the property allows a step to do to the ring.
InOrder ==
  \/ UNCHANGED <<Pending, carried>>
  \/ Ring!Send(queued') /\ UNCHANGED carried
  \/ Ring!Receive /\ carried' = Append(carried, Head(Pending))

LEMMA Views ==
  ASSUME RingType
  PROVE  /\ First \in Positions /\ Last \in Positions
         /\ Announced \in Positions /\ InHand \in Positions
<1>1. procQ # <<>> => Head(procQ) \in Ranges
  BY DEF RingType
<1>2. procQ # <<>> => Head(procQ).from \in Positions
  BY <1>1 DEF Ranges
<1>3. range.to \in Positions
  BY DEF RingType, Ranges
<1>4. Announced \in Positions
  BY <1>3 DEF RingType, Announced
<1>5. First \in Positions
  BY <1>2, <1>4 DEF RingType, First
<1>6. Last \in Positions
  BY PredIs DEF RingType, Last
<1> QED
  BY <1>4, <1>5, <1>6 DEF RingType, InHand

LEMMA PendingIs ==
  /\ Pending = Listed(buffer, First, Last)
  /\ Filled <=> FilledFrom(buffer, First, Last)
BY DEF Pending, Listed, Filled, FilledFrom

\* Nothing is seen of a step of the registers.
LEMMA Unseen ==
  ASSUME IInv, First' = First, Last' = Last, Announced' = Announced,
         InHand' = InHand, procQ' = procQ, carried' = carried,
         \A p \in Positions :
           Distance(First, p) < Distance(First, Last) => buffer'[p] = buffer[p]
  PROVE  RangesInOrder' /\ Filled' /\ (Room => Room') /\ InOrder
<1>1. PICK f, l, b, c : f = First /\ l = Last /\ b = buffer /\ c = buffer'
  OBVIOUS
<1>2. f \in Positions /\ l \in Positions
  BY <1>1, Views DEF IInv
<1>3. /\ Listed(c, f, l) = Listed(b, f, l)
      /\ FilledFrom(b, f, l) => FilledFrom(c, f, l)
  BY <1>1, <1>2, ListedSame
<1>4. Pending' = Listed(c, f, l) /\ (Filled' <=> FilledFrom(c, f, l))
  BY <1>1 DEF Pending, Listed, Filled, FilledFrom
<1>5. Pending' = Pending /\ Filled'
  BY <1>1, <1>3, <1>4, PendingIs DEF IInv
<1>6. RangesInOrder'
  BY DEF IInv, RangesInOrder
<1> QED
  BY <1>5, <1>6 DEF Room, InOrder

\* A range is sent: the ring is the same.
LEMMA Sent ==
  ASSUME IInv, Announced = readPos, gamePc # "check",
         procQ' = Append(procQ, [from |-> readPos, to |-> writePos]), Announced' = writePos,
         UNCHANGED <<buffer, curPos, endPos, carried, writePos>>,
         gamePc' # "check", audioPc' = "run" <=> audioPc = "run"
  PROVE  /\ RangesInOrder' /\ Filled' /\ InOrder /\ procQ' \in Seq(Ranges)
<1>1. PICK f, e, q, r : f = First /\ e = InHand /\ q = procQ /\ r = procQ'
  OBVIOUS
<1>2. /\ f \in Positions /\ e \in Positions /\ q \in Seq(Ranges)
      /\ readPos \in Positions /\ writePos \in Positions
      /\ Chained(f, e, q, readPos) /\ Distance(f, readPos) <= Distance(f, writePos)
  BY <1>1, Views DEF IInv, RingType, RangesInOrder, Last
<1>3. r = Append(q, Span(readPos, writePos))
  BY <1>1 DEF Span
<1>4. /\ Chained(f, e, r, writePos) /\ r \in Seq(Ranges)
      /\ r # <<>> /\ Head(r).from = IF q = <<>> THEN readPos ELSE Head(q).from
  <2>1. PICK a, b : a = readPos /\ b = writePos
    OBVIOUS
  <2>2. /\ f \in Positions /\ e \in Positions /\ a \in Positions
        /\ b \in Positions /\ q \in Seq(Ranges) /\ Chained(f, e, q, a)
        /\ Distance(f, a) <= Distance(f, b) /\ r = Append(q, Span(a, b))
    BY <1>2, <1>3, <2>1
  <2>3. Chained(f, e, r, b) /\ r \in Seq(Ranges)
    BY <2>2, ChainSend
  <2>4. r # <<>> /\ Head(r).from = IF q = <<>> THEN a ELSE Head(q).from
    BY <2>2, <2>3, ChainSend
  <2> QED
    BY <2>1, <2>3, <2>4
<1>5. First' = First
  <2>1. CASE audioPc = "run"
    BY <2>1 DEF First
  <2>2. CASE audioPc # "run"
    <3>1. First' = Head(r).from
      BY <1>1, <1>4, <2>2 DEF First
    <3>2. First = IF q = <<>> THEN readPos ELSE Head(q).from
      BY <1>1, <2>2 DEF First
    <3> QED
      BY <1>4, <3>1, <3>2
  <2> QED
    BY <2>1, <2>2
<1>6. InHand' = InHand /\ Last' = writePos /\ Last = writePos
  BY <1>5 DEF InHand, Last
<1>7. Distance(f, writePos) <= Distance(f, writePos)
  BY <1>2, DistanceIs
<1>8. RangesInOrder'
  BY <1>1, <1>4, <1>5, <1>6, <1>7 DEF RangesInOrder
<1>9. Filled' /\ Pending' = Pending
  BY <1>5, <1>6 DEF IInv, Filled, Pending
<1> QED
  BY <1>1, <1>4, <1>8, <1>9 DEF InOrder

\* A command that has been stored is counted, or dropped.
LEMMA Counted ==
  ASSUME IInv, NEW l, l = Last, NEW k, k = Succ(l), NEW b, b = buffer',
         \A p \in Positions :
           Distance(First, p) < Distance(First, l) => b[p] = buffer[p],
         b[l] = queued', queued' \in Commands,
         Announced = readPos, Room,
         Last' = IF k = readPos THEN l ELSE k,
         First' = First, Announced' = Announced, InHand' = InHand,
         procQ' = procQ, carried' = carried
  PROVE  RangesInOrder' /\ Filled' /\ InOrder
<1>1. PICK f : f = First
  OBVIOUS
<1>2. /\ f \in Positions /\ l \in Positions /\ k \in Positions
      /\ readPos \in Positions
  BY <1>1, Views, SuccIs DEF IInv, RingType
<1>3. CASE k = readPos
  <2>1. Last' = Last
    BY <1>3
  <2> QED
    BY <2>1, Unseen
<1>4. CASE k # readPos
  <2>1. Distance(f, l) # RingSize - 1
    <3>1. SUFFICES ASSUME Distance(f, l) = RingSize - 1
                   PROVE  k = f
      BY <1>1, <1>4 DEF Room
    <3>2. PICK n \in Nat : n = RingSize /\ n >= 2
      BY RingAssumption
    <3>3. f \in 0..n - 1 /\ l \in 0..n - 1
      BY <1>2, <3>2 DEF Positions
    <3>4. n - 1 = IF f <= l THEN l - f ELSE l - f + n
      BY <1>2, <3>1, <3>2, DistanceIs
    <3>5. k = IF l = n - 1 THEN 0 ELSE l + 1
      BY <1>2, <3>2, SuccIs
    <3> QED
      BY <3>2, <3>3, <3>4, <3>5
  <2>2. Distance(f, k) = Distance(f, l) + 1 /\ Distance(f, l) \in Nat
    BY <1>2, <2>1, Further, DistanceIs
  <2>3. Listed(b, f, l) = Pending /\ FilledFrom(b, f, l)
    <3>1. PICK o : o = buffer
      OBVIOUS
    <3>2. /\ Listed(b, f, l) = Listed(o, f, l)
          /\ FilledFrom(o, f, l) => FilledFrom(b, f, l)
      BY <1>1, <1>2, <3>1, ListedSame
    <3> QED
      BY <1>1, <3>1, <3>2, PendingIs DEF IInv
  <2>4. /\ Listed(b, f, k) = Append(Pending, queued') /\ FilledFrom(b, f, k)
    <3>1. b[l] \in Commands
      OBVIOUS
    <3>2. /\ Listed(b, f, Succ(l)) = Append(Listed(b, f, l), b[l])
          /\ FilledFrom(b, f, Succ(l))
      BY <1>2, <2>1, <2>3, <3>1, ListedMore
    <3> QED
      BY <2>3, <3>2
  <2>5. Last' = k
    BY <1>4
  <2>6. Pending' = Listed(b, f, k) /\ (Filled' <=> FilledFrom(b, f, k))
    BY <1>1, <2>5 DEF Pending, Listed, Filled, FilledFrom
  <2>7. Len(Pending) < RingSize - 1
    <3>1. Len(Pending) = Distance(f, l)
      BY <1>1, <1>2, PendingIs, ListedSeq DEF IInv
    <3> QED
      BY <1>2, <2>1, <3>1, DistanceIs, RingAssumption
  <2>8. Distance(f, Announced) <= Distance(f, k)
    <3>1. Distance(f, Announced) <= Distance(f, l) /\ Distance(f, Announced) \in Nat
      BY <1>1, <1>2, DistanceIs DEF IInv, RangesInOrder
    <3> QED
      BY <2>2, <3>1
  <2>9. RangesInOrder'
    BY <1>1, <2>5, <2>8 DEF IInv, RangesInOrder
  <2>10. Ring!Send(queued')
    BY <2>4, <2>6, <2>7 DEF Ring!Send
  <2> QED
    BY <2>4, <2>6, <2>9, <2>10 DEF InOrder
<1> QED
  BY <1>3, <1>4

-----------------------------------------------------------------------------
(* The steps of the game thread.                                           *)

LEMMA GameViews ==
  ASSUME UNCHANGED <<audioVars, procQ>>, Announced' = Announced
  PROVE  /\ First' = First /\ InHand' = InHand
         /\ UNCHANGED <<audioPc, curPos, endPos, carried>>
BY DEF audioVars, First, InHand

LEMMA GameBegins ==
  ASSUME IInv, GameQueue \/ GameSetSpec
  PROVE  IInv' /\ InOrder
<1>1. /\ gamePc = "idle" /\ gamePc' = "store" /\ slot' = writePos
      /\ queued < MaxCmds /\ (NoOverrun \/ ~Full)
      /\ UNCHANGED <<ringVars, audioVars, readPos, procQ, next, range>>
  BY DEF GameQueue, GameSetSpec, GameStep
<1>2. UNCHANGED <<buffer, writePos, queued>>
  BY <1>1 DEF ringVars
<1>3. Announced' = Announced /\ Last' = Last
  BY <1>1, <1>2 DEF Announced, Last
<1>4. /\ First' = First /\ InHand' = InHand
      /\ UNCHANGED <<audioPc, curPos, endPos, carried>>
  BY <1>1, <1>3, GameViews
<1>5. Room
  <2>1. Len(Pending) = Distance(First, Last)
    BY Views, PendingIs, ListedSeq DEF IInv
  <2> QED
    BY <1>1, <2>1 DEF NoOverrun, Full, Room
<1>6. RangesInOrder' /\ Filled' /\ Room' /\ InOrder
  BY <1>1, <1>2, <1>3, <1>4, <1>5, Unseen
<1>7. RingType'
  BY <1>1, <1>2, <1>4 DEF IInv, RingType
<1>8. Registers'
  <2>1. audioPc \notin {"fade", "task"}
    BY DEF GameQueue, GameSetSpec, GameStep
  <2> QED
    BY <1>1, <1>2, <1>4, <1>6, <2>1 DEF Registers
<1> QED
  BY <1>6, <1>7, <1>8 DEF IInv

LEMMA GameStores ==
  ASSUME IInv, GameStore
  PROVE  IInv' /\ InOrder
<1>1. /\ gamePc = "store" /\ gamePc' = "load" /\ queued' = queued + 1
      /\ buffer' = [buffer EXCEPT ![slot] = queued']
      /\ UNCHANGED <<audioVars, writePos, readPos, procQ, slot, next, range>>
      /\ audioPc \notin {"fade", "task"}
  BY DEF GameStore, GameStep
<1>2. /\ slot = writePos /\ queued < MaxCmds /\ Room /\ RingType
      /\ queued \in Nat /\ MaxCmds \in Nat
  BY <1>1, RingAssumption DEF IInv, Registers, RingType
<1>3. queued' \in Commands /\ queued' \in 0..MaxCmds
  BY <1>1, <1>2 DEF Commands
<1>4. Announced' = Announced /\ Last' = Last /\ Last = slot
  BY <1>1, <1>2 DEF Announced, Last
<1>5. /\ First' = First /\ InHand' = InHand
      /\ UNCHANGED <<audioPc, curPos, endPos, carried>>
  BY <1>1, <1>4, GameViews
<1>6. \A p \in Positions :
        Distance(First, p) < Distance(First, Last) => buffer'[p] = buffer[p]
  <2> SUFFICES ASSUME NEW p \in Positions, Distance(First, p) < Distance(First, Last)
               PROVE  buffer'[p] = buffer[p]
    OBVIOUS
  <2>1. Distance(First, Last) \in Nat
    BY <1>2, Views, DistanceIs
  <2>2. p # slot
    BY <1>4, <2>1
  <2> QED
    BY <1>1, <1>2, <2>2 DEF RingType
<1>7. RangesInOrder' /\ Filled' /\ Room' /\ InOrder
  BY <1>1, <1>2, <1>4, <1>5, <1>6, Unseen
<1>8. buffer' \in [Positions -> Commands \cup {NoCommand}] /\ buffer'[slot] = queued'
  BY <1>1, <1>2, <1>3 DEF RingType
<1>9. RingType'
  BY <1>1, <1>2, <1>3, <1>5, <1>8 DEF RingType
<1>10. Registers'
  BY <1>1, <1>2, <1>3, <1>5, <1>7, <1>8 DEF Registers
<1> QED
  BY <1>7, <1>9, <1>10 DEF IInv

LEMMA GameCounts ==
  ASSUME IInv, GameLoad \/ GameBump
  PROVE  IInv' /\ InOrder
<1>1. /\ UNCHANGED <<audioVars, buffer, queued, readPos, procQ, slot, range>>
      /\ audioPc \notin {"fade", "task"}
      /\ \/ /\ gamePc = "load" /\ gamePc' = "bump" /\ next' = Succ(writePos)
            /\ writePos' = writePos
         \/ /\ gamePc = "bump" /\ gamePc' = "check" /\ next' = next
            /\ writePos' = next
  BY DEF GameLoad, GameBump, GameStep, ringVars
<1>2. /\ slot = writePos /\ Room /\ RingType
      /\ buffer[slot] = queued /\ queued \in Commands
      /\ gamePc = "bump" => next = Succ(slot)
  BY <1>1 DEF IInv, Registers
<1>3. next' = Succ(slot) /\ next' \in Positions /\ Pred(next') = slot
      /\ writePos' \in Positions
  <2>1. slot \in Positions
    BY <1>2 DEF RingType
  <2>2. Succ(slot) \in Positions /\ Pred(Succ(slot)) = slot
    BY <2>1, SuccIs, PredIs
  <2> QED
    BY <1>1, <1>2, <2>1, <2>2
<1>4. Announced' = Announced /\ Last' = slot /\ Last = slot
  BY <1>1, <1>2, <1>3 DEF Announced, Last
<1>5. /\ First' = First /\ InHand' = InHand
      /\ UNCHANGED <<audioPc, curPos, endPos, carried>>
  BY <1>1, <1>4, GameViews
<1>6. RangesInOrder' /\ Filled' /\ Room' /\ InOrder
  BY <1>1, <1>2, <1>4, <1>5, Unseen
<1>7. RingType'
  BY <1>1, <1>2, <1>3, <1>5 DEF RingType
<1>8. Registers'
  BY <1>1, <1>2, <1>3, <1>5, <1>6 DEF Registers
<1> QED
  BY <1>6, <1>7, <1>8 DEF IInv

LEMMA GameChecks ==
  ASSUME IInv, GameCheck
  PROVE  IInv' /\ InOrder
<1>1. /\ gamePc = "check" /\ gamePc' \in {"announce", "idle"}
      /\ writePos' = IF next = readPos THEN Pred(next) ELSE writePos
      /\ UNCHANGED <<audioVars, buffer, queued, readPos, procQ, slot, next, range>>
      /\ audioPc \notin {"fade", "task"}
  BY DEF GameCheck, GameStep
<1>2. /\ next = Succ(slot) /\ writePos = next /\ Room /\ RingType
      /\ buffer[slot] = queued /\ queued \in Commands /\ slot \in Positions
  BY <1>1 DEF IInv, Registers, RingType
<1>3. Pred(next) = slot /\ next \in Positions
  BY <1>2, PredIs, SuccIs
<1>4. /\ Announced = readPos /\ Announced' = Announced /\ Last = slot
      /\ Last' = IF next = readPos THEN slot ELSE next
  BY <1>1, <1>2, <1>3 DEF Announced, Last
<1>5. /\ First' = First /\ InHand' = InHand
      /\ UNCHANGED <<audioPc, curPos, endPos, carried>>
  BY <1>1, <1>4, GameViews
<1>6. RangesInOrder' /\ Filled' /\ InOrder
  <2>1. PICK l, k, b : l = Last /\ k = Succ(l) /\ b = buffer'
    OBVIOUS
  <2>2. /\ k = next /\ b[l] = queued' /\ queued' \in Commands
        /\ \A p \in Positions :
             Distance(First, p) < Distance(First, l) => b[p] = buffer[p]
    BY <1>1, <1>2, <1>4, <2>1
  <2>3. Last' = IF k = readPos THEN l ELSE k
    BY <1>4, <2>1, <2>2
  <2> QED
    BY <1>1, <1>2, <1>4, <1>5, <2>1, <2>2, <2>3, Counted
<1>7. writePos' \in Positions
  BY <1>1, <1>2, <1>3
<1>8. RingType'
  BY <1>1, <1>2, <1>5, <1>7 DEF RingType
<1>9. Registers'
  BY <1>1, <1>5 DEF Registers
<1> QED
  BY <1>6, <1>8, <1>9 DEF IInv

LEMMA GameAnnounces ==
  ASSUME IInv, GameAnnounce \/ GameSpin
  PROVE  IInv' /\ InOrder
<1>1. /\ gamePc \in {"announce", "idle", "spin"} /\ gamePc' \in {"send", "idle"}
      /\ UNCHANGED <<audioVars, ringVars, readPos, procQ, slot, next>>
      /\ audioPc \notin {"fade", "task"}
      /\ \/ range' = range /\ gamePc' = "idle"
         \/ range' = [from |-> readPos, to |-> writePos]
  BY DEF GameAnnounce, GameSpin, GameStep
<1>2. UNCHANGED <<buffer, writePos, queued>>
  BY <1>1 DEF ringVars
<1>3. Announced' = Announced /\ Last' = Last
  BY <1>1, <1>2 DEF Announced, Last
<1>4. /\ First' = First /\ InHand' = InHand
      /\ UNCHANGED <<audioPc, curPos, endPos, carried>>
  BY <1>1, <1>3, GameViews
<1>5. RangesInOrder' /\ Filled' /\ InOrder
  BY <1>1, <1>2, <1>3, <1>4, Unseen
<1>6. range' \in Ranges
  BY <1>1 DEF IInv, RingType, Ranges
<1>7. RingType'
  BY <1>1, <1>2, <1>4, <1>6 DEF IInv, RingType
<1>8. Registers'
  BY <1>1, <1>2, <1>4 DEF Registers
<1> QED
  BY <1>5, <1>7, <1>8 DEF IInv

LEMMA GameSends ==
  ASSUME IInv, GameSend
  PROVE  IInv' /\ InOrder
<1>1. /\ gamePc = "send"
      /\ UNCHANGED <<audioVars, ringVars, readPos, slot, next, range>>
      /\ audioPc \notin {"fade", "task"}
      /\ \/ gamePc' = "mark" /\ procQ' = Append(procQ, range)
         \/ gamePc' \in {"spin", "idle"} /\ procQ' = procQ
  BY DEF GameSend, GameStep, AfterAnnounce
<1>2. /\ UNCHANGED <<buffer, writePos, queued>>
      /\ UNCHANGED <<audioPc, curPos, endPos, carried>>
  BY <1>1 DEF ringVars, audioVars
<1>3. range = [from |-> readPos, to |-> writePos] /\ RingType
  BY <1>1 DEF IInv, Registers
<1>4. range.to = writePos /\ Announced = readPos
  BY <1>1, <1>3 DEF Announced
<1>5. /\ RangesInOrder' /\ Filled' /\ InOrder /\ procQ' \in Seq(Ranges)
  <2>1. CASE gamePc' = "mark" /\ procQ' = Append(procQ, range)
    <3>1. Announced' = writePos
      BY <1>1, <1>4, <2>1 DEF Announced
    <3> QED
      BY <1>1, <1>2, <1>3, <1>4, <2>1, <3>1, Sent
  <2>2. CASE gamePc' \in {"spin", "idle"} /\ procQ' = procQ
    <3>1. Announced' = Announced /\ Last' = Last
      BY <1>1, <1>2, <1>4, <2>2 DEF Announced, Last
    <3>2. First' = First /\ InHand' = InHand
      BY <1>1, <2>2, <3>1, GameViews
    <3> QED
      BY <1>1, <1>2, <1>3, <2>2, <3>1, <3>2, Unseen DEF RingType
  <2> QED
    BY <1>1, <2>1, <2>2
<1>6. RingType'
  BY <1>1, <1>2, <1>3, <1>5 DEF RingType
<1>7. Registers'
  BY <1>1, <1>2, <1>3 DEF Registers
<1> QED
  BY <1>5, <1>6, <1>7 DEF IInv

LEMMA GameMarks ==
  ASSUME IInv, GameMark
  PROVE  IInv' /\ InOrder
<1>1. /\ gamePc = "mark" /\ gamePc' \in {"spin", "idle"} /\ readPos' = writePos
      /\ UNCHANGED <<audioVars, ringVars, procQ, slot, next, range>>
      /\ audioPc \notin {"fade", "task"}
  BY DEF GameMark, GameStep, AfterAnnounce
<1>2. UNCHANGED <<buffer, writePos, queued>>
  BY <1>1 DEF ringVars
<1>3. range = [from |-> readPos, to |-> writePos] /\ RingType
  BY <1>1 DEF IInv, Registers
<1>4. range.to = writePos
  BY <1>3
<1>5. Announced' = Announced /\ Last' = Last
  BY <1>1, <1>2, <1>4 DEF Announced, Last
<1>6. /\ First' = First /\ InHand' = InHand
      /\ UNCHANGED <<audioPc, curPos, endPos, carried>>
  BY <1>1, <1>5, GameViews
<1>7. RangesInOrder' /\ Filled' /\ InOrder
  BY <1>1, <1>2, <1>5, <1>6, Unseen
<1>8. RingType'
  BY <1>1, <1>2, <1>3, <1>6 DEF RingType
<1>9. Registers'
  BY <1>1, <1>2, <1>6 DEF Registers
<1> QED
  BY <1>7, <1>8, <1>9 DEF IInv

-----------------------------------------------------------------------------
(* The steps of the audio thread.                                          *)

LEMMA AudioPasses ==
  ASSUME IInv, ~PreemptInside, AudioWake \/ AudioTask
  PROVE  IInv' /\ InOrder
<1>1. /\ audioPc \in {"wait", "task"} /\ audioPc' \in {"fade", "wait", "take"}
      /\ audioPc' = "fade" => gamePc \in {"idle", "spin"}
      /\ UNCHANGED <<gameVars, ringVars, readPos, procQ, curPos, endPos, carried>>
  BY DEF AudioWake, AudioTask, AudioStep
<1>2. /\ UNCHANGED <<buffer, writePos, queued>>
      /\ UNCHANGED <<gamePc, slot, next, range>>
  BY <1>1 DEF ringVars, gameVars
<1>3. Announced' = Announced /\ Last' = Last
  BY <1>1, <1>2 DEF Announced, Last
<1>4. First' = First /\ InHand' = InHand
  BY <1>1, <1>3 DEF First, InHand
<1>5. RangesInOrder' /\ Filled' /\ (Room => Room') /\ InOrder
  BY <1>1, <1>2, <1>3, <1>4, Unseen
<1>6. RingType'
  BY <1>1, <1>2 DEF IInv, RingType
<1>7. Registers'
  BY <1>1, <1>2, <1>5 DEF IInv, Registers
<1> QED
  BY <1>5, <1>6, <1>7 DEF IInv

LEMMA AudioQueues ==
  ASSUME IInv, AudioQueue
  PROVE  IInv' /\ InOrder
<1>1. /\ audioPc = "fade" /\ audioPc' = "fade"
      /\ queued < MaxCmds /\ NoOverrun /\ queued' = queued + 1
      /\ buffer' = [buffer EXCEPT ![writePos] = queued']
      /\ writePos' = IF Succ(writePos) = readPos THEN writePos ELSE Succ(writePos)
      /\ UNCHANGED <<gameVars, readPos, procQ, curPos, endPos, carried>>
  BY DEF AudioQueue, AudioStep
<1>2. gamePc \in {"idle", "spin"} /\ UNCHANGED <<gamePc, slot, next, range>>
  BY <1>1 DEF IInv, Registers, gameVars
<1>3. /\ RingType /\ writePos \in Positions /\ queued \in Nat /\ MaxCmds \in Nat
  BY RingAssumption DEF IInv, RingType
<1>4. queued' \in Commands /\ queued' \in 0..MaxCmds
  BY <1>1, <1>3 DEF Commands
<1>5. /\ Announced = readPos /\ Announced' = Announced
      /\ Last = writePos /\ Last' = writePos'
  BY <1>1, <1>2 DEF Announced, Last
<1>6. First' = First /\ InHand' = InHand
  BY <1>1, <1>5 DEF First, InHand
<1>7. Room
  <2>1. Len(Pending) = Distance(First, Last)
    BY Views, PendingIs, ListedSeq DEF IInv
  <2> QED
    BY <1>1, <2>1 DEF NoOverrun, Full, Room
<1>8. RangesInOrder' /\ Filled' /\ InOrder
  <2>1. PICK l, k, b : l = Last /\ k = Succ(l) /\ b = buffer'
    OBVIOUS
  <2>2. \A p \in Positions :
          Distance(First, p) < Distance(First, l) => b[p] = buffer[p]
    <3> SUFFICES ASSUME NEW p \in Positions, Distance(First, p) < Distance(First, l)
                 PROVE  b[p] = buffer[p]
      OBVIOUS
    <3>1. Distance(First, l) \in Nat
      BY <1>3, <2>1, Views, DistanceIs
    <3>2. p # writePos
      BY <1>5, <2>1, <3>1
    <3> QED
      BY <1>1, <1>3, <2>1, <3>2 DEF RingType
  <2>3. b[l] = queued'
    BY <1>1, <1>3, <1>5, <2>1 DEF RingType
  <2>4. Last' = IF k = readPos THEN l ELSE k
    BY <1>1, <1>5, <2>1
  <2>5. /\ queued' \in Commands /\ Announced = readPos /\ Room
        /\ First' = First /\ Announced' = Announced /\ InHand' = InHand
        /\ procQ' = procQ /\ carried' = carried
    BY <1>1, <1>4, <1>5, <1>6, <1>7
  <2> QED
    BY <2>1, <2>2, <2>3, <2>4, <2>5, Counted
<1>9. writePos' \in Positions
  BY <1>1, <1>3, SuccIs
<1>10. buffer' \in [Positions -> Commands \cup {NoCommand}]
  BY <1>1, <1>3, <1>4 DEF RingType
<1>11. RingType'
  BY <1>1, <1>2, <1>3, <1>4, <1>9, <1>10 DEF RingType
<1>12. Registers'
  BY <1>1, <1>2 DEF Registers
<1> QED
  BY <1>8, <1>11, <1>12 DEF IInv

LEMMA AudioAnnounces ==
  ASSUME IInv, AudioAnnounce
  PROVE  IInv' /\ InOrder
<1>1. /\ audioPc = "fade" /\ audioPc' = "task"
      /\ UNCHANGED <<gameVars, ringVars, curPos, endPos, carried>>
      /\ \/ /\ procQ' = Append(procQ, [from |-> readPos, to |-> writePos])
            /\ readPos' = writePos
         \/ UNCHANGED <<procQ, readPos>>
  BY DEF AudioAnnounce, AudioStep
<1>2. /\ gamePc \in {"idle", "spin"} /\ UNCHANGED <<gamePc, slot, next, range>>
      /\ UNCHANGED <<buffer, writePos, queued>>
  BY <1>1 DEF IInv, Registers, gameVars, ringVars
<1>3. RingType /\ Announced = readPos /\ Announced' = readPos'
  BY <1>2 DEF IInv, Announced
<1>4. RangesInOrder' /\ Filled' /\ InOrder /\ procQ' \in Seq(Ranges)
  <2>1. CASE /\ procQ' = Append(procQ, [from |-> readPos, to |-> writePos])
             /\ readPos' = writePos
    BY <1>1, <1>2, <1>3, <2>1, Sent
  <2>2. CASE UNCHANGED <<procQ, readPos>>
    <3>1. Announced' = Announced /\ Last' = Last
      BY <1>2, <1>3, <2>2 DEF Last
    <3>2. First' = First /\ InHand' = InHand
      BY <1>1, <2>2, <3>1 DEF First, InHand
    <3> QED
      BY <1>1, <1>2, <1>3, <2>2, <3>1, <3>2, Unseen DEF RingType
  <2> QED
    BY <1>1, <2>1, <2>2
<1>5. readPos' \in Positions
  BY <1>1, <1>3 DEF RingType
<1>6. RingType'
  BY <1>1, <1>2, <1>3, <1>4, <1>5 DEF RingType
<1>7. Registers'
  BY <1>1, <1>2 DEF Registers
<1> QED
  BY <1>4, <1>6, <1>7 DEF IInv

LEMMA AudioTakes ==
  ASSUME IInv, AudioTake
  PROVE  IInv' /\ InOrder
<1>1. /\ audioPc = "take" /\ UNCHANGED <<gameVars, ringVars, readPos, carried>>
  BY DEF AudioTake, AudioStep
<1>2. /\ UNCHANGED <<gamePc, slot, next, range>>
      /\ UNCHANGED <<buffer, writePos, queued>>
  BY <1>1 DEF gameVars, ringVars
<1>3. RingType /\ Announced' = Announced /\ Last' = Last
  BY <1>1, <1>2 DEF IInv, Announced, Last
<1>4. CASE procQ = <<>>
  <2>1. /\ audioPc' = "wait" /\ UNCHANGED <<curPos, endPos, procQ>>
    BY <1>4 DEF AudioTake, AudioStep
  <2>2. First' = First /\ InHand' = InHand
    BY <1>1, <1>3, <2>1 DEF First, InHand
  <2>3. RangesInOrder' /\ Filled' /\ (Room => Room') /\ InOrder
    BY <1>1, <1>2, <1>3, <2>1, <2>2, Unseen
  <2>4. RingType'
    BY <1>1, <1>2, <1>3, <2>1 DEF RingType
  <2>5. Registers'
    BY <1>1, <1>2, <2>1, <2>3 DEF IInv, Registers
  <2> QED
    BY <2>3, <2>4, <2>5 DEF IInv
<1>5. CASE procQ # <<>>
  <2>1. /\ audioPc' = "run" /\ curPos' = Head(procQ).from
        /\ endPos' = Head(procQ).to /\ procQ' = Tail(procQ)
    BY <1>5 DEF AudioTake, AudioStep
  <2>2. PICK f, a, q : f = First /\ a = Announced /\ q = procQ
    OBVIOUS
  <2>3. /\ f \in Positions /\ a \in Positions /\ q \in Seq(Ranges)
        /\ q # <<>> /\ Chained(f, f, q, a)
    BY <1>1, <1>3, <1>5, <2>2, Views DEF IInv, RangesInOrder, InHand, RingType
  <2>4. /\ Head(q) = q[1] /\ q[1] \in Ranges /\ q[1].from = f
        /\ Tail(q) \in Seq(Ranges) /\ Chained(f, q[1].to, Tail(q), a)
    BY <2>3, ChainTake
  <2>5. First' = First /\ InHand' = q[1].to
    BY <2>1, <2>2, <2>4 DEF First, InHand
  <2>6. RangesInOrder'
    BY <1>3, <2>1, <2>2, <2>4, <2>5 DEF IInv, RangesInOrder
  <2>7. Filled' /\ (Room => Room') /\ InOrder
    BY <1>1, <1>2, <1>3, <2>5 DEF IInv, Filled, Room, Pending, InOrder
  <2>8. curPos' \in Positions /\ endPos' \in Positions
    BY <2>1, <2>2, <2>4 DEF Ranges
  <2>9. RingType'
    BY <1>1, <1>2, <1>3, <2>1, <2>2, <2>4, <2>8 DEF RingType
  <2>10. Registers'
    BY <1>1, <1>2, <2>1, <2>7 DEF IInv, Registers
  <2> QED
    BY <2>6, <2>7, <2>9, <2>10 DEF IInv
<1> QED
  BY <1>4, <1>5

\* A range comes to its end: the next one, if any, begins there.
LEMMA AudioEndsRange ==
  ASSUME IInv, AudioCarryOut, curPos = endPos
  PROVE  IInv' /\ InOrder
<1>1. /\ audioPc = "run" /\ audioPc' = "take"
      /\ UNCHANGED <<gameVars, carried, buffer, curPos, writePos, queued,
                     readPos, procQ, endPos>>
  BY DEF AudioCarryOut, AudioStep
<1>2. UNCHANGED <<gamePc, slot, next, range>>
  BY <1>1 DEF gameVars
<1>3. RingType /\ Announced' = Announced /\ Last' = Last
  BY <1>1, <1>2 DEF IInv, Announced, Last
<1>4. First = endPos /\ InHand = endPos
  BY <1>1 DEF First, InHand
<1>5. First' = endPos
  <2>1. CASE procQ = <<>>
    <3>1. endPos = Announced
      BY <1>4, <2>1 DEF IInv, RangesInOrder, Chained
    <3> QED
      BY <1>1, <1>3, <2>1, <3>1 DEF First
  <2>2. CASE procQ # <<>>
    <3>1. procQ[1].from = endPos
      BY <1>4, <2>2 DEF IInv, RangesInOrder, Chained
    <3>2. Head(procQ) = procQ[1]
      BY <1>3, <2>2 DEF RingType
    <3> QED
      BY <1>1, <2>2, <3>1, <3>2 DEF First
  <2> QED
    BY <2>1, <2>2
<1>6. InHand' = InHand /\ First' = First
  BY <1>1, <1>4, <1>5 DEF InHand
<1>7. RangesInOrder' /\ Filled' /\ (Room => Room') /\ InOrder
  BY <1>1, <1>3, <1>6, Unseen
<1>8. RingType'
  BY <1>1, <1>2, <1>3 DEF RingType
<1>9. Registers'
  BY <1>1, <1>2, <1>7 DEF IInv, Registers
<1> QED
  BY <1>7, <1>8, <1>9 DEF IInv

LEMMA AudioCarries ==
  ASSUME IInv, AudioCarryOut, curPos # endPos
  PROVE  IInv' /\ InOrder
<1>1. /\ audioPc = "run" /\ audioPc' = "run"
      /\ carried' = IF buffer[curPos] = NoCommand THEN carried
                    ELSE Append(carried, buffer[curPos])
      /\ buffer' = [buffer EXCEPT ![curPos] = NoCommand]
      /\ curPos' = Succ(curPos)
      /\ UNCHANGED <<gameVars, writePos, queued, readPos, procQ, endPos>>
  BY DEF AudioCarryOut, AudioStep
<1>2. UNCHANGED <<gamePc, slot, next, range>>
  BY <1>1 DEF gameVars
<1>3. RingType /\ Announced' = Announced /\ Last' = Last
  BY <1>1, <1>2 DEF IInv, Announced, Last
<1>4. /\ First = curPos /\ InHand = endPos /\ First' = Succ(curPos)
      /\ InHand' = endPos
  BY <1>1 DEF First, InHand
<1>5. PICK f, l, e, a, q, b, c :
        /\ f = First /\ l = Last /\ e = InHand /\ a = Announced /\ q = procQ
        /\ b = buffer /\ c = buffer'
  OBVIOUS
<1>6. /\ f \in Positions /\ l \in Positions /\ e \in Positions
      /\ a \in Positions /\ q \in Seq(Ranges) /\ f # e
      /\ Chained(f, e, q, a) /\ Distance(f, a) <= Distance(f, l)
      /\ FilledFrom(b, f, l) /\ Pending = Listed(b, f, l)
  BY <1>3, <1>4, <1>5, Views, PendingIs DEF IInv, RangesInOrder, RingType
<1>7. PICK g : g \in Positions /\ g = Succ(f) /\ First' = g
  BY <1>4, <1>5, <1>6, SuccIs
<1>8. /\ Distance(f, e) >= 1 /\ Distance(f, e) <= Distance(f, a)
      /\ Distance(f, f) = 0
      /\ Distance(f, e) \in Nat /\ Distance(f, a) \in Nat /\ Distance(f, l) \in Nat
  BY <1>6, Nearer, DistanceIs, RingAssumption DEF Chained, Positions
<1>9. f # l /\ f # a
  BY <1>6, <1>8
<1>10. /\ Distance(g, l) = Distance(f, l) - 1
       /\ Distance(g, a) = Distance(f, a) - 1
  BY <1>6, <1>7, <1>9, Nearer
<1>11. Chained(g, e, q, a)
  BY <1>6, <1>7, ChainStep
<1>12. RangesInOrder'
  BY <1>1, <1>3, <1>4, <1>5, <1>6, <1>7, <1>8, <1>10, <1>11 DEF RangesInOrder
<1>13. /\ Listed(b, f, l) # <<>> /\ Head(Listed(b, f, l)) = b[f]
       /\ b[f] \in Commands
       /\ Listed(b, g, l) = Tail(Listed(b, f, l)) /\ FilledFrom(b, g, l)
  BY <1>6, <1>7, <1>9, ListedLess
<1>14. \A p \in Positions : p # f => c[p] = b[p]
  BY <1>1, <1>3, <1>4, <1>5 DEF RingType
<1>15. \A p \in Positions : Distance(g, p) < Distance(g, l) => c[p] = b[p]
  <2>1. \A p \in Positions : Distance(g, p) < Distance(g, l) => p # f
    <3>1. Distance(g, f) = RingSize - 1
      <4>1. PICK n \in Nat : n = RingSize /\ n >= 2
        BY RingAssumption
      <4>2. f \in 0..n - 1 /\ g \in 0..n - 1
        BY <1>6, <1>7, <4>1 DEF Positions
      <4>3. g = IF f = n - 1 THEN 0 ELSE f + 1
        BY <1>6, <1>7, <4>1, SuccIs
      <4>4. Distance(g, f) = IF g <= f THEN f - g ELSE f - g + n
        BY <1>6, <1>7, <4>1, DistanceIs
      <4> QED
        BY <4>1, <4>2, <4>3, <4>4
    <3>2. Distance(g, l) < RingSize /\ Distance(g, l) \in Nat
      BY <1>6, <1>7, DistanceIs
    <3> QED
      BY <3>1, <3>2, RingAssumption
  <2> QED
    BY <1>14, <2>1
<1>16. Listed(c, g, l) = Listed(b, g, l) /\ FilledFrom(c, g, l)
  BY <1>6, <1>7, <1>13, <1>15, ListedSame
<1>17. Pending' = Listed(c, g, l) /\ (Filled' <=> FilledFrom(c, g, l))
  BY <1>3, <1>5, <1>7 DEF Pending, Listed, Filled, FilledFrom
<1>18. InOrder
  <2>1. Pending # <<>> /\ Pending' = Tail(Pending) /\ Head(Pending) = b[f]
    BY <1>6, <1>13, <1>16, <1>17
  <2>2. b[f] # NoCommand
    BY <1>13, RingAssumption DEF Commands, NoCommand
  <2>3. carried' = Append(carried, Head(Pending))
    BY <1>1, <1>4, <1>5, <2>1, <2>2
  <2> QED
    BY <2>1, <2>3 DEF InOrder, Ring!Receive
<1>19. Room'
  <2>1. Distance(g, l) # RingSize - 1
    BY <1>6, <1>8, <1>10, DistanceIs, RingAssumption
  <2> QED
    BY <1>3, <1>5, <1>7, <2>1 DEF Room
<1>20. curPos' \in Positions /\ buffer' \in [Positions -> Commands \cup {NoCommand}]
  BY <1>1, <1>3, SuccIs DEF RingType
<1>21. RingType'
  BY <1>1, <1>2, <1>3, <1>20 DEF RingType
<1>22. gamePc \in {"load", "bump", "check"} =>
         buffer'[slot] = queued /\ queued \in Commands
  <2> SUFFICES ASSUME gamePc \in {"load", "bump", "check"}
               PROVE  buffer'[slot] = queued /\ queued \in Commands
    OBVIOUS
  <2>1. buffer[slot] = queued /\ queued \in Commands /\ slot \in Positions
    BY DEF IInv, Registers, RingType
  <2>2. Last = slot
    <3>1. CASE gamePc = "check"
      BY <2>1, <3>1, PredIs DEF IInv, Registers, Last
    <3>2. CASE gamePc # "check"
      BY <3>2 DEF IInv, Registers, Last
    <3> QED
      BY <3>1, <3>2
  <2> QED
    BY <1>5, <1>9, <1>14, <2>1, <2>2
<1>23. Registers'
  BY <1>1, <1>2, <1>19, <1>22 DEF IInv, Registers
<1>24. Filled'
  BY <1>16, <1>17
<1> QED
  BY <1>12, <1>18, <1>21, <1>23, <1>24 DEF IInv

-----------------------------------------------------------------------------
(* The theorem.                                                            *)

LEMMA Begins ==
  ASSUME Init
  PROVE  IInv /\ Ring!Init
<1>1. /\ 0 \in Positions /\ Distance(0, 0) = 0 /\ <<>> \in Seq(Ranges)
      /\ MaxCmds \in Nat
  <2>1. 0 \in Positions
    BY RingAssumption DEF Positions
  <2> QED
    BY <2>1, DistanceIs, RingAssumption
<1>2. First = 0 /\ Last = 0 /\ Announced = 0 /\ InHand = 0
  BY DEF Init, First, Last, Announced, InHand
<1>3. RingType
  BY <1>1 DEF Init, RingType, Ranges
<1>4. Registers
  BY DEF Init, Registers
<1>5. RangesInOrder
  BY <1>1, <1>2 DEF Init, RangesInOrder, Chained
<1>6. Filled
  <2>1. \A p \in Positions : ~(Distance(0, p) < 0)
    BY <1>1, DistanceIs
  <2> QED
    BY <1>1, <1>2, <2>1 DEF Filled
<1>7. Ring!Init
  <2>1. Pending \in Seq(Commands) /\ Len(Pending) = 0
    BY <1>1, <1>2, <1>6, PendingIs, ListedSeq
  <2> QED
    BY <2>1 DEF Ring!Init
<1> QED
  BY <1>3, <1>4, <1>5, <1>6, <1>7 DEF IInv

LEMMA Steps ==
  ASSUME IInv, ~PreemptInside, [Next]_vars
  PROVE  IInv' /\ InOrder
<1>1. CASE Game
  BY <1>1, GameBegins, GameStores, GameCounts, GameChecks, GameAnnounces,
     GameSends, GameMarks DEF Game, GameInside
<1>2. CASE Audio
  BY <1>2, AudioPasses, AudioQueues, AudioAnnounces, AudioTakes,
     AudioEndsRange, AudioCarries DEF Audio
<1>3. CASE UNCHANGED vars
  <2>1. /\ UNCHANGED <<ringVars, gameVars, audioVars, readPos, procQ>>
    BY <1>3 DEF vars
  <2>2. /\ UNCHANGED <<buffer, writePos, queued>>
        /\ UNCHANGED <<gamePc, slot, next, range>>
        /\ UNCHANGED <<audioPc, curPos, endPos, carried>>
    BY <2>1 DEF ringVars, gameVars, audioVars
  <2>3. Announced' = Announced /\ Last' = Last
    BY <2>1, <2>2 DEF Announced, Last
  <2>4. First' = First /\ InHand' = InHand
    BY <2>1, <2>2, <2>3 DEF First, InHand
  <2>5. RangesInOrder' /\ Filled' /\ (Room => Room') /\ InOrder
    BY <2>1, <2>2, <2>3, <2>4, Unseen
  <2>6. RingType'
    BY <2>1, <2>2 DEF IInv, RingType
  <2>7. Registers'
    BY <2>1, <2>2, <2>5 DEF IInv, Registers
  <2> QED
    BY <2>5, <2>6, <2>7 DEF IInv
<1> QED
  BY <1>1, <1>2, <1>3 DEF Next

\* If no retrace comes while the game thread is in a call of its own
\* (AudioThread_QueueCmd, AudioThread_ScheduleProcessCmds), the commands are
\* carried out in the order in which they were queued, each one once; one is
\* dropped only when the ring is full.  So it is for rings and message queues
\* of every length, and for every number of commands.
THEOREM CommandsInOrder ==
  ASSUME ~PreemptInside
  PROVE  Spec => CommandsKeepOrder
<1>1. Init => IInv /\ Ring!Init
  BY Begins
<1>2. IInv /\ [Next]_vars =>
        /\ IInv'
        /\ [\/ Ring!Send(queued') /\ UNCHANGED carried
            \/ Ring!Receive /\ carried' = Append(carried, Head(Pending))
           ]_<<Pending, carried>>
  BY Steps DEF InOrder
<1> QED
  BY <1>1, <1>2, PTL DEF Spec, CommandsKeepOrder
=============================================================================
