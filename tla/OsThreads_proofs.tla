-------------------------- MODULE OsThreads_proofs --------------------------
(***************************************************************************)
(* The ring buffers of the message queues keep the order of their          *)
(* messages, the most urgent thread that is ready runs, and no wakeup is   *)
(* lost, for queues of any length and for any number of threads.           *)
(***************************************************************************)
EXTENDS OsThreads, TLAPS, WellFoundedInduction, NaturalsInduction,
        FiniteSetTheorems

\* The messages of a ring of n places: count of them, the oldest at first.
Listed(n, first, count, msg) == [i \in 1..count |-> msg[(first + i - 1) % n]]

Put(msg, i, m) == [msg EXCEPT ![i] = m]

IsRing(n, first, count, msg) ==
  /\ n \in Nat \ {0}
  /\ first \in 0..n - 1
  /\ count \in 0..n
  /\ msg \in [0..n - 1 -> Messages]

LEMMA ListedSeq ==
  ASSUME NEW n, NEW f, NEW c, NEW g, IsRing(n, f, c, g)
  PROVE  Listed(n, f, c, g) \in Seq(Messages) /\ Len(Listed(n, f, c, g)) = c
<1> USE DEF IsRing
<1>1. \A i \in 1..c : (f + i - 1) % n \in 0..n - 1
  OBVIOUS
<1> QED
  BY <1>1 DEF Listed

\* osSendMesg appends.
LEMMA StoredList ==
  ASSUME NEW n, NEW f, NEW c, NEW g, IsRing(n, f, c, g), c # n,
         NEW m \in Messages, NEW last, last = (f + c) % n,
         NEW d, d = c + 1, NEW h, h = Put(g, last, m)
  PROVE  /\ IsRing(n, f, d, h)
         /\ Listed(n, f, d, h) = Append(Listed(n, f, c, g), m)
<1> USE DEF IsRing, Put
<1> DEFINE old == Listed(n, f, c, g)
           new == Listed(n, f, d, h)
<1>1. last \in 0..n - 1
  OBVIOUS
<1>2. h \in [0..n - 1 -> Messages] /\ h[last] = m
      /\ \A j \in (0..n - 1) \ {last} : h[j] = g[j]
  BY <1>1
<1>3. d \in 0..n
  OBVIOUS
<1>4. /\ old \in Seq(Messages) /\ Len(old) = c
      /\ new \in Seq(Messages) /\ Len(new) = d
      /\ IsRing(n, f, d, h)
  <2>1. old \in Seq(Messages) /\ Len(old) = c
    BY <1>3, ListedSeq
  <2>2. IsRing(n, f, d, h)
    BY <1>2, <1>3
  <2> HIDE DEF IsRing
  <2>3. new \in Seq(Messages) /\ Len(new) = d
    BY <2>2, ListedSeq
  <2> QED
    BY <2>1, <2>2, <2>3
<1>5. ASSUME NEW i \in 1..d
      PROVE  new[i] = Append(old, m)[i]
  <2> DEFINE at == (f + i - 1) % n
  <2>1. new[i] = h[at]
    BY DEF Listed
  <2>2. CASE i = d
    <3>1. at = last
      BY <2>2
    <3>2. Append(old, m)[i] = m
      BY <1>4, <2>2
    <3> QED
      BY <1>2, <2>1, <3>1, <3>2
  <2>3. CASE i # d
    <3>1. i \in 1..c
      BY <2>3
    <3>2. at \in (0..n - 1) \ {last}
      BY <3>1
    <3>3. Append(old, m)[i] = old[i]
      BY <1>4, <3>1
    <3>4. old[i] = g[at]
      BY <3>1 DEF Listed
    <3> HIDE DEF at
    <3> QED
      BY <1>2, <2>1, <3>2, <3>3, <3>4
  <2> QED
    BY <2>2, <2>3
<1> HIDE DEF old, new
<1>6. Append(old, m) \in Seq(Messages) /\ Len(Append(old, m)) = d
  BY <1>4
<1>7. new = Append(old, m)
  BY <1>4, <1>5, <1>6
<1> QED
  BY <1>4, <1>7 DEF old, new

\* osJamMesg puts in front.
LEMMA JammedList ==
  ASSUME NEW n, NEW f, NEW c, NEW g, IsRing(n, f, c, g), c # n,
         NEW m \in Messages, NEW e, e = (f + n - 1) % n,
         NEW d, d = c + 1, NEW h, h = Put(g, e, m)
  PROVE  /\ IsRing(n, e, d, h)
         /\ Listed(n, e, d, h) = <<m>> \o Listed(n, f, c, g)
<1> USE DEF IsRing, Put
<1> DEFINE old == Listed(n, f, c, g)
           new == Listed(n, e, d, h)
<1>1. e = (IF f = 0 THEN n - 1 ELSE f - 1) /\ e \in 0..n - 1
  OBVIOUS
<1>2. h \in [0..n - 1 -> Messages] /\ h[e] = m
      /\ \A j \in (0..n - 1) \ {e} : h[j] = g[j]
  BY <1>1
<1>3. d \in 0..n
  OBVIOUS
<1>4. /\ old \in Seq(Messages) /\ Len(old) = c
      /\ new \in Seq(Messages) /\ Len(new) = d
      /\ IsRing(n, e, d, h)
  <2>1. old \in Seq(Messages) /\ Len(old) = c
    BY <1>3, ListedSeq
  <2>2. IsRing(n, e, d, h)
    BY <1>1, <1>2, <1>3
  <2> HIDE DEF IsRing
  <2>3. new \in Seq(Messages) /\ Len(new) = d
    BY <2>2, ListedSeq
  <2> QED
    BY <2>1, <2>2, <2>3
<1>5. ASSUME NEW i \in 1..d
      PROVE  new[i] = (<<m>> \o old)[i]
  <2> DEFINE at == (e + i - 1) % n
  <2>1. new[i] = h[at]
    BY DEF Listed
  <2>2. CASE i = 1
    <3>1. at = e
      BY <1>1, <2>2
    <3>2. (<<m>> \o old)[i] = m
      BY <1>4, <2>2
    <3> QED
      BY <1>2, <2>1, <3>1, <3>2
  <2>3. CASE i # 1
    <3> DEFINE j == i - 1
    <3>1. j \in 1..c
      BY <2>3
    <3>2. at = (f + j - 1) % n /\ at \in (0..n - 1) \ {e}
      BY <1>1, <3>1
    <3>3. (<<m>> \o old)[i] = old[j]
      BY <1>4, <3>1
    <3> HIDE DEF j
    <3>4. old[j] = g[at]
      BY <3>1, <3>2 DEF Listed
    <3> HIDE DEF at
    <3> QED
      BY <1>2, <2>1, <3>2, <3>3, <3>4
  <2> QED
    BY <2>2, <2>3
<1> HIDE DEF old, new
<1>6. <<m>> \o old \in Seq(Messages) /\ Len(<<m>> \o old) = d
  BY <1>4
<1>7. new = <<m>> \o old
  BY <1>4, <1>5, <1>6
<1> QED
  BY <1>4, <1>7 DEF old, new

\* osRecvMesg takes the head.
LEMMA TakenList ==
  ASSUME NEW n, NEW f, NEW c, NEW g, IsRing(n, f, c, g), c # 0,
         NEW e, e = (f + 1) % n, NEW d, d = c - 1
  PROVE  /\ IsRing(n, e, d, g)
         /\ Listed(n, f, c, g) # <<>>
         /\ Listed(n, e, d, g) = Tail(Listed(n, f, c, g))
<1> USE DEF IsRing, Put
<1> DEFINE old == Listed(n, f, c, g)
           new == Listed(n, e, d, g)
<1>1. e = (IF f + 1 < n THEN f + 1 ELSE 0) /\ e \in 0..n - 1
  OBVIOUS
<1>2. d \in 0..n
  OBVIOUS
<1>3. /\ old \in Seq(Messages) /\ Len(old) = c
      /\ new \in Seq(Messages) /\ Len(new) = d
  BY <1>1, <1>2, ListedSeq
<1>4. ASSUME NEW i \in 1..d
      PROVE  new[i] = Tail(old)[i]
  <2> DEFINE at == (e + i - 1) % n
             j == i + 1
  <2>1. new[i] = g[at]
    BY DEF Listed
  <2>2. j \in 1..c /\ at = (f + j - 1) % n
    <3>1. j \in 1..c /\ e + i - 1 \in 0..2 * n /\ f + j - 1 = f + i
      BY <1>1
    <3>2. CASE f + 1 < n
      BY <1>1, <3>1, <3>2
    <3>3. CASE f + 1 = n
      BY <1>1, <3>1, <3>3
    <3> QED
      BY <3>1, <3>2, <3>3
  <2>3. Tail(old)[i] = old[j]
    BY <1>3
  <2> HIDE DEF j
  <2>4. old[j] = g[at]
    BY <2>2 DEF Listed
  <2> QED
    BY <2>1, <2>3, <2>4
<1> HIDE DEF old, new
<1>5. Tail(old) \in Seq(Messages) /\ Len(Tail(old)) = d /\ old # <<>>
  BY <1>3
<1>6. new = Tail(old)
  BY <1>3, <1>4, <1>5
<1> QED
  BY <1>1, <1>5, <1>6 DEF old, new

-----------------------------------------------------------------------------
(* The inductive invariant: every ring is a ring of its own length.        *)

Ring(n) == [first : 0..n - 1, validCount : 0..n, msg : [0..n - 1 -> Messages]]

Rings ==
  /\ mesgQ = [q \in Queues |-> mesgQ[q]]
  /\ \A q \in Queues : mesgQ[q] \in Ring(MsgCount[q])

\* What a step does to the queue q when it changes it.
Changes(q) ==
  \/ \E m \in Messages : ~IsFull(q) /\ mesgQ' \in {Stored(q, m), Jammed(q, m)}
  \/ ~IsEmpty(q) /\ mesgQ' = Taken(q)

\* What it is for the abstract queue.
Implements(q) ==
  \/ \E m \in Messages : Fifo(q)!Send(m) \/ Fifo(q)!Jam(m)
  \/ Fifo(q)!Receive

LEMMA StepChanges ==
  ASSUME Next, mesgQ' # mesgQ
  PROVE  \E q \in Queues : Changes(q)
  BY DEF Next, Start, YieldThread, StopThread, SetThreadPri, ThreadCall,
     RecvMesg, SendMesg, JamMesg, Event, WaitIn, Changes

LEMMA InitRings ==
  ASSUME Init
  PROVE  Rings /\ \A q \in Queues : Contents(q) = <<>>
<1>1. \A q \in Queues : MsgCount[q] \in Nat \ {0}
  BY ThreadAssumption
<1>2. PICK m \in Messages :
        mesgQ = [q \in Queues |-> [first |-> 0, validCount |-> 0,
                                   msg |-> [i \in 0..MsgCount[q] - 1 |-> m]]]
  BY DEF Init
<1>3. Rings
  BY <1>1, <1>2 DEF Rings, Ring
<1>4. \A q \in Queues : mesgQ[q].validCount = 0
  BY <1>2
<1> QED
  BY <1>3, <1>4 DEF Contents

\* A ring changes as the abstract queue does, and the others stay.
LEMMA ChangesRings ==
  ASSUME Rings, NEW q \in Queues, Changes(q)
  PROVE  /\ Rings'
         /\ Implements(q)
         /\ \A r \in Queues \ {q} : Contents(r)' = Contents(r)
<1> DEFINE n == MsgCount[q]
           f == mesgQ[q].first
           c == mesgQ[q].validCount
           g == mesgQ[q].msg
           Becomes(e, d, h) == mesgQ' = [mesgQ EXCEPT ![q] =
                                 [first |-> e, validCount |-> d, msg |-> h]]
<1>1. IsRing(n, f, c, g)
  BY ThreadAssumption DEF Rings, Ring, IsRing
<1>2. Contents(q) = Listed(n, f, c, g)
  BY DEF Contents, Listed
<1>3. Len(Contents(q)) = c
  <2> HIDE DEF n, f, c, g
  <2> QED
    BY <1>1, <1>2, ListedSeq
<1>4. ASSUME NEW e, NEW d, NEW h, Becomes(e, d, h), IsRing(n, e, d, h)
      PROVE  /\ Rings'
             /\ Contents(q)' = Listed(n, e, d, h)
             /\ \A r \in Queues \ {q} : Contents(r)' = Contents(r)
  BY <1>4 DEF Rings, Ring, IsRing, Contents, Listed
<1>5. CASE ~IsEmpty(q) /\ mesgQ' = Taken(q)
  <2>1. c # 0
    BY <1>5 DEF IsEmpty
  <2>2. Becomes((f + 1) % n, c - 1, g)
    BY <1>5 DEF Taken, Put
  <2> HIDE DEF n, f, c, g, Becomes
  <2>3. PICK e, d : e = (f + 1) % n /\ d = c - 1 /\ Becomes(e, d, g)
    BY <2>2
  <2>4. /\ IsRing(n, e, d, g)
        /\ Listed(n, f, c, g) # <<>>
        /\ Listed(n, e, d, g) = Tail(Listed(n, f, c, g))
    BY <1>1, <2>1, <2>3, TakenList
  <2> QED
    BY <1>2, <1>4, <2>3, <2>4 DEF Implements, Fifo!Receive
<1>6. ASSUME NEW m \in Messages, ~IsFull(q), mesgQ' = Stored(q, m)
      PROVE  Rings' /\ Implements(q)
             /\ \A r \in Queues \ {q} : Contents(r)' = Contents(r)
  <2>1. c < n /\ c # n
    BY <1>1, <1>6 DEF IsFull, IsRing
  <2>2. Becomes(f, c + 1, Put(g, (f + c) % n, m))
    BY <1>6 DEF Stored, Put
  <2>3. MsgCount[q] = n
    OBVIOUS
  <2> HIDE DEF n, f, c, g, Becomes
  <2>4. PICK last, d, h : /\ last = (f + c) % n /\ d = c + 1
                          /\ h = Put(g, last, m) /\ Becomes(f, d, h)
    BY <2>2
  <2>5. /\ IsRing(n, f, d, h)
        /\ Listed(n, f, d, h) = Append(Listed(n, f, c, g), m)
    BY <1>1, <2>1, <2>4, StoredList
  <2> QED
    BY <1>2, <1>3, <1>4, <2>1, <2>3, <2>4, <2>5 DEF Implements, Fifo!Send
<1>7. ASSUME NEW m \in Messages, ~IsFull(q), mesgQ' = Jammed(q, m)
      PROVE  Rings' /\ Implements(q)
             /\ \A r \in Queues \ {q} : Contents(r)' = Contents(r)
  <2>1. c < n /\ c # n
    BY <1>1, <1>7 DEF IsFull, IsRing
  <2>2. Becomes((f + n - 1) % n, c + 1, Put(g, (f + n - 1) % n, m))
    BY <1>7 DEF Jammed, Put
  <2>3. MsgCount[q] = n
    OBVIOUS
  <2> HIDE DEF n, f, c, g, Becomes
  <2>4. PICK e, d, h : /\ e = (f + n - 1) % n /\ d = c + 1
                       /\ h = Put(g, e, m) /\ Becomes(e, d, h)
    BY <2>2
  <2>5. /\ IsRing(n, e, d, h)
        /\ Listed(n, e, d, h) = <<m>> \o Listed(n, f, c, g)
    BY <1>1, <2>1, <2>4, JammedList
  <2> QED
    BY <1>2, <1>3, <1>4, <2>1, <2>3, <2>4, <2>5 DEF Implements, Fifo!Jam
<1> QED
  BY <1>5, <1>6, <1>7 DEF Changes

\* The queues of the system are the abstract ones: each keeps the order of
\* its messages, loses none and delivers none twice, for any length of the
\* buffer, any number of threads and whatever they do.
THEOREM QueuesAreFifo == Spec => QueuesKeepOrder
<1>1. Init => Rings /\ \A q \in Queues : Fifo(q)!Init
  BY InitRings DEF Fifo!Init
<1>2. ASSUME Rings, [Next]_vars
      PROVE  /\ Rings'
             /\ \A q \in Queues : Fifo(q)!Next \/ UNCHANGED Contents(q)
  <2>1. CASE mesgQ' = mesgQ
    BY <1>2, <2>1 DEF Rings, Contents
  <2>2. CASE mesgQ' # mesgQ
    <3>1. PICK q \in Queues : Changes(q)
      BY <1>2, <2>2, StepChanges DEF vars
    <3>2. /\ Rings' /\ Implements(q)
          /\ \A r \in Queues \ {q} : Contents(r)' = Contents(r)
      BY <1>2, <3>1, ChangesRings
    <3>3. Fifo(q)!Next
      BY <3>2 DEF Implements, Fifo!Next
    <3> QED
      BY <3>2, <3>3
  <2> QED
    BY <2>1, <2>2
<1> QED
  BY <1>1, <1>2, PTL DEF Spec, QueuesKeepOrder

-----------------------------------------------------------------------------
(* Lists in the order of urgency.                                          *)

\* A set of natural numbers has a least one.
LEMMA Least ==
  ASSUME NEW T \in SUBSET Nat, T # {}
  PROVE  \E x \in T : \A y \in T : x <= y
<1> DEFINE R == {ss \in Nat \X Nat : ss[1] < ss[2]}
<1>1. IsWellFoundedOn(R, Nat)
  BY NatLessThanWellFounded DEF OpToRel
<1> HIDE DEF R
<1>2. PICK x \in T : \A y \in T : <<y, x>> \notin R
  BY <1>1, WFMin
<1>3. \A y \in T : ~(y < x)
  BY <1>2 DEF R
<1> QED
  BY <1>2, <1>3

Member(s, t) == \E i \in 1..Len(s) : s[i] = t

\* The most urgent first, and nobody twice.
Ordered(s, pri) ==
  /\ \A i, j \in 1..Len(s) : i <= j => pri[s[j]] <= pri[s[i]]
  /\ \A i, j \in 1..Len(s) : s[i] = s[j] => i = j

\* How many are as urgent as p, from the first one on.
LEMMA PlaceOf ==
  ASSUME NEW s \in Seq(AllThreads), NEW pri \in [AllThreads -> Nat], NEW p \in Nat
  PROVE  LET n == Cardinality({i \in DOMAIN s : \A j \in 1..i : pri[s[j]] >= p}) IN
         /\ n \in 0..Len(s)
         /\ \A i \in 1..n : pri[s[i]] >= p
         /\ n < Len(s) => pri[s[n + 1]] < p
<1> DEFINE D == {i \in DOMAIN s : \A j \in 1..i : pri[s[j]] >= p}
           T == {i \in 1..Len(s) : ~(pri[s[i]] >= p)}
<1>1. /\ \A i \in 1..Len(s) : pri[s[i]] \in Nat
      /\ Len(s) \in Nat /\ DOMAIN s = 1..Len(s)
  OBVIOUS
<1>2. \A m \in Nat : Cardinality(1..m) = m
  BY FS_Interval
<1>3. CASE T = {}
  <2>1. PICK m \in Nat : m = Len(s)
    BY <1>1
  <2>2. D = 1..m
    BY <1>3, <2>1
  <2>3. Cardinality(D) = m
    BY <1>2, <2>2
  <2>4. /\ m \in 0..Len(s) /\ (\A i \in 1..m : pri[s[i]] >= p)
        /\ m < Len(s) => pri[s[m + 1]] < p
    BY <1>1, <1>3, <2>1
  <2> HIDE DEF D, T
  <2> QED
    BY <2>3, <2>4 DEF D
<1>4. CASE T # {}
  <2>1. T \in SUBSET Nat
    BY <1>1
  <2>2. PICK x \in T : \A y \in T : x <= y
    <3> HIDE DEF T
    <3> QED
      BY <1>4, <2>1, Least
  <2>3. x \in 1..Len(s) /\ pri[s[x]] < p
    BY <1>1
  <2>4. \A i \in 1..Len(s) : i < x => pri[s[i]] >= p
    <3>1. \A i \in 1..Len(s) : i < x => i \notin T
      <4>1. \A i \in 1..Len(s) : i < x => ~(x <= i)
        BY <1>1, <2>3
      <4> HIDE DEF T
      <4> QED
        BY <2>2, <4>1
    <3> QED
      BY <3>1
  <2>5. PICK m \in Nat : m = x - 1 /\ x = m + 1
    BY <2>3
  <2>6. D = 1..m
    BY <1>1, <2>3, <2>4, <2>5
  <2>7. Cardinality(D) = m
    BY <1>2, <2>6
  <2>8. /\ m \in 0..Len(s) /\ (\A i \in 1..m : pri[s[i]] >= p)
        /\ m < Len(s) => pri[s[m + 1]] < p
    BY <1>1, <2>3, <2>4, <2>5
  <2> HIDE DEF D, T
  <2> QED
    BY <2>7, <2>8 DEF D
<1> QED
  BY <1>3, <1>4

\* What stands where when t is put behind the first n.
LEMMA Inserted ==
  ASSUME NEW s \in Seq(AllThreads), NEW t \in AllThreads, NEW n \in 0..Len(s)
  PROVE  LET r == InsertAt(s, n + 1, t) IN
         /\ r \in Seq(AllThreads) /\ Len(r) = Len(s) + 1
         /\ \A i \in 1..n : r[i] = s[i]
         /\ r[n + 1] = t
         /\ \A i \in (n + 2)..(Len(s) + 1) : r[i] = s[i - 1]
<1> DEFINE a == SubSeq(s, 1, n)
           b == SubSeq(s, n + 1, Len(s))
           c == a \o <<t>>
           r == c \o b
<1>1. Len(s) \in Nat /\ n \in Nat /\ n <= Len(s)
  OBVIOUS
<1>2. /\ a \in Seq(AllThreads) /\ Len(a) = n
      /\ \A i \in 1..n : a[i] = s[i]
  BY <1>1
<1>3. /\ b \in Seq(AllThreads) /\ Len(b) = Len(s) - n
      /\ \A i \in 1..(Len(s) - n) : b[i] = s[n + i]
  BY <1>1
<1> HIDE DEF a, b
<1>4. /\ c \in Seq(AllThreads) /\ Len(c) = n + 1
      /\ \A i \in 1..n : c[i] = a[i]
      /\ c[n + 1] = t
  BY <1>1, <1>2
<1> HIDE DEF c
<1>5. /\ r \in Seq(AllThreads) /\ Len(r) = Len(s) + 1
      /\ \A i \in 1..(n + 1) : r[i] = c[i]
      /\ \A i \in (n + 2)..(Len(s) + 1) : r[i] = b[i - (n + 1)]
  BY <1>1, <1>3, <1>4
<1>6. r = InsertAt(s, n + 1, t)
  <2>1. (n + 1) - 1 = n
    BY <1>1
  <2> QED
    BY <2>1 DEF InsertAt, a, b, c
<1> HIDE DEF r
<1>7. /\ \A i \in 1..n : r[i] = s[i]
      /\ r[n + 1] = t
  BY <1>1, <1>2, <1>4, <1>5
<1>8. ASSUME NEW i \in (n + 2)..(Len(s) + 1)
      PROVE  r[i] = s[i - 1]
  <2>1. i - (n + 1) \in 1..(Len(s) - n) /\ n + (i - (n + 1)) = i - 1
    BY <1>1
  <2> QED
    BY <1>3, <1>5, <2>1
<1> QED
  BY <1>5, <1>6, <1>7, <1>8

\* How many stay before t.
Before(s, pri, t) ==
  Cardinality({i \in DOMAIN s : \A j \in 1..i : pri[s[j]] >= pri[t]})

\* __osEnqueueThread keeps the order.
LEMMA InsertOrdered ==
  ASSUME NEW s \in Seq(AllThreads), NEW pri \in [AllThreads -> Nat],
         Ordered(s, pri), NEW t \in AllThreads, ~Member(s, t)
  PROVE  LET r == InsertAt(s, Before(s, pri, t) + 1, t)
         IN  /\ r \in Seq(AllThreads) /\ Ordered(r, pri)
             /\ \A u : Member(r, u) <=> Member(s, u) \/ u = t
<1> DEFINE card == Before(s, pri, t)
<1>1. /\ card \in 0..Len(s)
      /\ \A i \in 1..card : pri[s[i]] >= pri[t]
      /\ card < Len(s) => pri[s[card + 1]] < pri[t]
  BY PlaceOf DEF Before
<1> HIDE DEF card
<1>2. PICK n \in 0..Len(s) : n = card
  BY <1>1
<1>3. PICK r : r = InsertAt(s, n + 1, t)
  OBVIOUS
<1>4. /\ r \in Seq(AllThreads) /\ Len(r) = Len(s) + 1
      /\ \A i \in 1..n : r[i] = s[i]
      /\ r[n + 1] = t
      /\ \A i \in (n + 2)..(Len(s) + 1) : r[i] = s[i - 1]
  BY <1>3, Inserted
<1>5. PICK m \in Nat : m = Len(s)
  OBVIOUS
<1>6. /\ n \in 0..m /\ r \in Seq(AllThreads) /\ Len(r) = m + 1
      /\ \A i \in 1..m : pri[s[i]] \in Nat
      /\ pri[t] \in Nat
      /\ \A i \in 1..n : pri[s[i]] >= pri[t]
      /\ n < m => pri[s[n + 1]] < pri[t]
  BY <1>1, <1>2, <1>4, <1>5
<1>7. /\ \A i, j \in 1..m : i <= j => pri[s[j]] <= pri[s[i]]
      /\ \A i, j \in 1..m : s[i] = s[j] => i = j
      /\ \A i \in 1..m : s[i] # t
  BY <1>5 DEF Ordered, Member
<1>8. \A i \in 1..m : i > n => pri[s[i]] < pri[t]
  <2> SUFFICES ASSUME NEW i \in 1..m, i > n
               PROVE  pri[s[i]] < pri[t]
    OBVIOUS
  <2>1. n + 1 \in 1..m /\ n + 1 <= i /\ n < m
    BY <1>6
  <2>2. pri[s[i]] <= pri[s[n + 1]]
    BY <1>7, <2>1
  <2> QED
    BY <1>6, <2>1, <2>2
<1>9. \A i \in 1..(m + 1) :
        \/ i <= n /\ i \in 1..m /\ r[i] = s[i]
        \/ i = n + 1 /\ r[i] = t
        \/ i > n + 1 /\ i - 1 \in 1..m /\ i - 1 > n /\ r[i] = s[i - 1]
  BY <1>4, <1>5, <1>6
<1>10. n \in Nat /\ m \in Nat /\ n <= m
  BY <1>6
<1>11. \A i, j \in 1..(m + 1) : i <= j => pri[r[j]] <= pri[r[i]]
  <2> SUFFICES ASSUME NEW i \in 1..(m + 1), NEW j \in 1..(m + 1), i <= j
               PROVE  pri[r[j]] <= pri[r[i]]
    OBVIOUS
  <2>1. CASE i <= n
    <3>1. i \in 1..m /\ r[i] = s[i] /\ pri[s[i]] >= pri[t]
      BY <1>6, <1>9, <2>1
    <3>2. CASE j <= n
      BY <1>7, <1>9, <3>1, <3>2
    <3>3. CASE j = n + 1
      BY <1>9, <3>1, <3>3
    <3>4. CASE j > n + 1
      <4>1. j - 1 \in 1..m /\ j - 1 > n /\ r[j] = s[j - 1]
        BY <1>9, <1>10, <3>4
      <4>2. pri[s[j - 1]] < pri[t] /\ pri[s[j - 1]] \in Nat /\ pri[s[i]] \in Nat
        BY <1>6, <1>8, <3>1, <4>1
      <4> QED
        BY <1>6, <3>1, <4>1, <4>2
    <3> QED
      BY <1>6, <3>2, <3>3, <3>4
  <2>2. CASE i = n + 1
    <3>1. r[i] = t
      BY <1>4, <2>2
    <3>2. CASE j = n + 1
      BY <1>6, <3>1, <2>2, <3>2
    <3>3. CASE j > n + 1
      <4>1. j - 1 \in 1..m /\ j - 1 > n /\ r[j] = s[j - 1]
        BY <1>9, <1>10, <3>3
      <4>2. pri[s[j - 1]] < pri[t] /\ pri[s[j - 1]] \in Nat
        BY <1>6, <1>8, <4>1
      <4> QED
        BY <1>6, <3>1, <4>1, <4>2
    <3> QED
      BY <1>6, <2>2, <3>2, <3>3
  <2>3. CASE i > n + 1
    <3>1. i - 1 \in 1..m /\ j - 1 \in 1..m /\ i - 1 <= j - 1
          /\ r[i] = s[i - 1] /\ r[j] = s[j - 1]
      BY <1>6, <1>9, <2>3
    <3> QED
      BY <1>7, <3>1
  <2> QED
    BY <1>6, <2>1, <2>2, <2>3
<1>12. \A i, j \in 1..(m + 1) : r[i] = r[j] => i = j
  <2> SUFFICES ASSUME NEW i \in 1..(m + 1), NEW j \in 1..(m + 1), r[i] = r[j]
               PROVE  i = j
    OBVIOUS
  <2>1. \A k \in 1..(m + 1) : k = n + 1 <=> r[k] = t
    <3> SUFFICES ASSUME NEW k \in 1..(m + 1)
                 PROVE  k = n + 1 <=> r[k] = t
      OBVIOUS
    <3>1. CASE k <= n
      <4>1. k \in 1..m /\ r[k] = s[k]
        BY <1>9, <1>10, <3>1
      <4> QED
        BY <1>7, <1>10, <3>1, <4>1
    <3>2. CASE k = n + 1
      BY <1>4, <3>2
    <3>3. CASE k > n + 1
      <4>1. k - 1 \in 1..m /\ r[k] = s[k - 1]
        BY <1>9, <1>10, <3>3
      <4> QED
        BY <1>7, <1>10, <3>3, <4>1
    <3> QED
      BY <1>10, <3>1, <3>2, <3>3
  <2>2. i = n + 1 <=> r[i] = t
    BY <2>1
  <2>3. j = n + 1 <=> r[j] = t
    BY <2>1
  <2>4. CASE i # n + 1
    <3>1. PICK a \in 1..m : s[a] = r[i] /\ a = IF i <= n THEN i ELSE i - 1
      <4>1. CASE i <= n
        BY <1>9, <4>1
      <4>2. CASE i > n + 1
        BY <1>9, <1>10, <4>2
      <4> QED
        BY <1>6, <2>4, <4>1, <4>2
    <3>2. PICK b \in 1..m : s[b] = r[j] /\ b = IF j <= n THEN j ELSE j - 1
      <4>1. CASE j <= n
        BY <1>9, <4>1
      <4>2. CASE j > n + 1
        BY <1>9, <1>10, <4>2
      <4> QED
        BY <1>6, <2>2, <2>3, <2>4, <4>1, <4>2
    <3>3. a = b
      BY <1>7, <3>1, <3>2
    <3> QED
      BY <1>6, <2>2, <2>3, <2>4, <3>1, <3>2, <3>3
  <2> QED
    BY <2>2, <2>3, <2>4
<1>13. ASSUME NEW u
       PROVE  Member(r, u) <=> Member(s, u) \/ u = t
  <2>1. ASSUME Member(r, u)
        PROVE  Member(s, u) \/ u = t
    <3>1. PICK i \in 1..(m + 1) : r[i] = u
      BY <1>6, <2>1 DEF Member
    <3> QED
      BY <1>5, <1>9, <3>1 DEF Member
  <2>2. ASSUME Member(s, u)
        PROVE  Member(r, u)
    <3>1. PICK i \in 1..m : s[i] = u
      BY <1>5, <2>2 DEF Member
    <3>2. CASE i <= n
      <4>1. i \in 1..(m + 1) /\ r[i] = u
        BY <1>6, <1>9, <3>1, <3>2
      <4> QED
        BY <1>6, <4>1 DEF Member
    <3>3. CASE i > n
      <4>1. i + 1 \in 1..(m + 1) /\ (i + 1) - 1 = i /\ i + 1 > n + 1
        BY <1>6, <3>3
      <4>2. r[i + 1] = u
        BY <1>9, <3>1, <4>1
      <4> QED
        BY <1>6, <4>1, <4>2 DEF Member
    <3> QED
      BY <1>6, <3>2, <3>3
  <2>3. Member(r, t)
    <3>1. n + 1 \in 1..(m + 1) /\ r[n + 1] = t
      BY <1>4, <1>6
    <3> QED
      BY <1>6, <3>1 DEF Member
  <2> QED
    BY <2>1, <2>2, <2>3
<1>14. Ordered(r, pri)
  BY <1>6, <1>11, <1>12 DEF Ordered
<1> QED
  BY <1>2, <1>3, <1>4, <1>13, <1>14 DEF card

\* __osPopThread takes the most urgent one.
LEMMA TailOrdered ==
  ASSUME NEW s \in Seq(AllThreads), NEW pri \in [AllThreads -> Nat],
         Ordered(s, pri), s # <<>>
  PROVE  /\ Tail(s) \in Seq(AllThreads) /\ Ordered(Tail(s), pri)
         /\ Head(s) \in AllThreads /\ Member(s, Head(s))
         /\ \A u : Member(Tail(s), u) <=> Member(s, u) /\ u # Head(s)
         /\ \A u : Member(s, u) => pri[u] <= pri[Head(s)]
<1>1. /\ Len(s) >= 1 /\ Head(s) = s[1] /\ Len(Tail(s)) = Len(s) - 1
      /\ Tail(s) \in Seq(AllThreads)
      /\ \A i \in 1..Len(s) - 1 : Tail(s)[i] = s[i + 1]
  OBVIOUS
<1>2. Ordered(Tail(s), pri)
  BY <1>1 DEF Ordered
<1>3. ASSUME NEW u
      PROVE  Member(Tail(s), u) <=> Member(s, u) /\ u # Head(s)
  <2>1. ASSUME Member(Tail(s), u)
        PROVE  Member(s, u) /\ u # Head(s)
    <3>1. PICK i \in 1..Len(s) - 1 : Tail(s)[i] = u
      BY <1>1, <2>1 DEF Member
    <3>2. i + 1 \in 1..Len(s) /\ s[i + 1] = u /\ i + 1 # 1
      BY <1>1, <3>1
    <3> QED
      BY <1>1, <3>2 DEF Member, Ordered
  <2>2. ASSUME Member(s, u), u # Head(s)
        PROVE  Member(Tail(s), u)
    <3>1. PICK i \in 1..Len(s) : s[i] = u
      BY <2>2 DEF Member
    <3>2. i - 1 \in 1..Len(s) - 1 /\ Tail(s)[i - 1] = u
      BY <1>1, <2>2, <3>1
    <3> QED
      BY <1>1, <3>2 DEF Member
  <2> QED
    BY <2>1, <2>2
<1>4. \A u : Member(s, u) => pri[u] <= pri[Head(s)]
  BY <1>1 DEF Member, Ordered
<1>5. Head(s) \in AllThreads /\ Member(s, Head(s))
  BY <1>1 DEF Member
<1> QED
  BY <1>1, <1>2, <1>3, <1>4, <1>5

\* What stands where without the one at n.
LEMMA Removed ==
  ASSUME NEW s \in Seq(AllThreads), NEW n \in 1..Len(s)
  PROVE  LET r == RemoveAt(s, n) IN
         /\ r \in Seq(AllThreads) /\ Len(r) = Len(s) - 1
         /\ \A i \in 1..(Len(s) - 1) : r[i] = IF i < n THEN s[i] ELSE s[i + 1]
<1> DEFINE a == SubSeq(s, 1, n - 1)
           b == SubSeq(s, n + 1, Len(s))
           r == a \o b
<1>1. Len(s) \in Nat /\ n \in Nat /\ 1 <= n /\ n <= Len(s)
  OBVIOUS
<1>2. /\ a \in Seq(AllThreads) /\ Len(a) = n - 1
      /\ \A i \in 1..(n - 1) : a[i] = s[i]
  BY <1>1
<1>3. /\ b \in Seq(AllThreads) /\ Len(b) = Len(s) - n
      /\ \A i \in 1..(Len(s) - n) : b[i] = s[n + i]
  BY <1>1
<1> HIDE DEF a, b
<1>4. /\ r \in Seq(AllThreads) /\ Len(r) = Len(s) - 1
      /\ \A i \in 1..(n - 1) : r[i] = a[i]
      /\ \A i \in n..(Len(s) - 1) : r[i] = b[i - (n - 1)]
  <2>1. a \in Seq(AllThreads) /\ b \in Seq(AllThreads)
    BY <1>2, <1>3
  <2>2. r \in Seq(AllThreads) /\ Len(r) = Len(a) + Len(b)
    BY <2>1
  <2>3. \A i \in 1..(Len(a) + Len(b)) :
          r[i] = IF i <= Len(a) THEN a[i] ELSE b[i - Len(a)]
    BY <2>1
  <2>4. Len(a) + Len(b) = Len(s) - 1
    BY <1>1, <1>2, <1>3
  <2>5. ASSUME NEW i \in 1..(n - 1)
        PROVE  r[i] = a[i]
    <3>1. i \in 1..(Len(a) + Len(b)) /\ i <= Len(a)
      BY <1>1, <1>2, <1>3
    <3> QED
      BY <2>3, <3>1
  <2>6. ASSUME NEW i \in n..(Len(s) - 1)
        PROVE  r[i] = b[i - (n - 1)]
    <3>1. i \in 1..(Len(a) + Len(b)) /\ ~(i <= Len(a))
      BY <1>1, <1>2, <1>3
    <3> QED
      BY <1>2, <2>3, <3>1
  <2> QED
    BY <2>2, <2>4, <2>5, <2>6
<1>5. r = RemoveAt(s, n)
  BY DEF RemoveAt, a, b
<1> HIDE DEF r
<1>6. ASSUME NEW i \in 1..(Len(s) - 1)
      PROVE  r[i] = IF i < n THEN s[i] ELSE s[i + 1]
  <2>1. CASE i < n
    BY <1>1, <1>2, <1>4, <2>1
  <2>2. CASE i >= n
    <3>1. i - (n - 1) \in 1..(Len(s) - n) /\ n + (i - (n - 1)) = i + 1
      BY <1>1, <2>2
    <3> QED
      BY <1>1, <1>3, <1>4, <2>2, <3>1
  <2> QED
    BY <1>1, <2>1, <2>2
<1> QED
  BY <1>4, <1>5, <1>6

\* __osDequeueThread takes one out.
LEMMA RemoveOrdered ==
  ASSUME NEW s \in Seq(AllThreads), NEW pri \in [AllThreads -> Nat],
         Ordered(s, pri), NEW t \in AllThreads, Member(s, t)
  PROVE  LET r == RemoveAt(s, CHOOSE i \in DOMAIN s : s[i] = t)
         IN  /\ r \in Seq(AllThreads) /\ Ordered(r, pri)
             /\ \A u : Member(r, u) <=> Member(s, u) /\ u # t
<1> DEFINE at == CHOOSE i \in DOMAIN s : s[i] = t
<1>1. at \in 1..Len(s) /\ s[at] = t
  BY DEF Member
<1> HIDE DEF at
<1>2. PICK n \in 1..Len(s) : n = at
  BY <1>1
<1>3. PICK m \in Nat : m = Len(s)
  OBVIOUS
<1>4. PICK r : r = RemoveAt(s, n)
  OBVIOUS
<1>5. /\ r \in Seq(AllThreads) /\ Len(r) = m - 1 /\ n \in 1..m /\ s[n] = t
      /\ \A i \in 1..(m - 1) : r[i] = IF i < n THEN s[i] ELSE s[i + 1]
  BY <1>1, <1>2, <1>3, <1>4, Removed
<1>6. /\ \A i, j \in 1..m : i <= j => pri[s[j]] <= pri[s[i]]
      /\ \A i, j \in 1..m : s[i] = s[j] => i = j
  BY <1>3 DEF Ordered
<1>7. Ordered(r, pri)
  <2> DEFINE o(a) == IF a < n THEN a ELSE a + 1
  <2>1. \A a \in 1..(m - 1) : o(a) \in 1..m /\ r[a] = s[o(a)]
    BY <1>5
  <2>2. \A a, b \in 1..(m - 1) : (a <= b => o(a) <= o(b)) /\ (o(a) = o(b) => a = b)
    BY <1>5
  <2> HIDE DEF o
  <2>3. \A i, j \in 1..(m - 1) : i <= j => pri[r[j]] <= pri[r[i]]
    BY <1>6, <2>1, <2>2
  <2>4. \A i, j \in 1..(m - 1) : r[i] = r[j] => i = j
    BY <1>6, <2>1, <2>2
  <2> QED
    BY <1>5, <2>3, <2>4 DEF Ordered
<1>8. ASSUME NEW u
      PROVE  Member(r, u) <=> Member(s, u) /\ u # t
  <2>1. ASSUME Member(r, u)
        PROVE  Member(s, u) /\ u # t
    <3>1. PICK a \in 1..(m - 1) : r[a] = u
      BY <1>5, <2>1 DEF Member
    <3>2. PICK b \in 1..m : s[b] = u /\ b # n
      <4>1. CASE a < n
        <5>1. a \in 1..m /\ s[a] = u /\ a # n
          BY <1>5, <3>1, <4>1
        <5> QED
          BY <5>1
      <4>2. CASE a >= n
        <5>1. a + 1 \in 1..m /\ s[a + 1] = u /\ a + 1 # n
          BY <1>5, <3>1, <4>2
        <5> QED
          BY <5>1
      <4> QED
        BY <1>5, <4>1, <4>2
    <3> QED
      BY <1>3, <1>5, <1>6, <3>2 DEF Member
  <2>2. ASSUME Member(s, u), u # t
        PROVE  Member(r, u)
    <3>1. PICK a \in 1..m : s[a] = u
      BY <1>3, <2>2 DEF Member
    <3>2. CASE a < n
      <4>1. a \in 1..(m - 1) /\ r[a] = u
        BY <1>5, <3>1, <3>2
      <4> QED
        BY <1>5, <4>1 DEF Member
    <3>3. CASE a > n
      <4>1. a - 1 \in 1..(m - 1) /\ ~(a - 1 < n) /\ (a - 1) + 1 = a
        BY <1>5, <3>3
      <4>2. r[a - 1] = u
        BY <1>5, <3>1, <4>1
      <4> QED
        BY <1>5, <4>1, <4>2 DEF Member
    <3>4. a # n
      BY <1>5, <2>2, <3>1
    <3> QED
      BY <1>5, <3>2, <3>3, <3>4
  <2> QED
    BY <2>1, <2>2
<1> QED
  BY <1>2, <1>4, <1>5, <1>7, <1>8 DEF at

-----------------------------------------------------------------------------
(* The lists of the kernel.                                                *)

States == {"STOPPED", "RUNNABLE", "RUNNING", "WAITING"}

KernelType(k) ==
  k \in [state    : [AllThreads -> States],
         priority : [AllThreads -> Nat],
         queue    : [AllThreads -> Lists \cup {NoList}],
         list     : [Lists -> Seq(AllThreads)],
         running  : AllThreads]

\* The threads of out are in no list, each other one in the list that it names,
\* and every list is in the order of urgency.
Placed(k, out) ==
  /\ KernelType(k)
  /\ \A l \in Lists : Ordered(k.list[l], k.priority)
  /\ \A l \in Lists, t \in AllThreads :
       Member(k.list[l], t) <=> t \notin out /\ k.queue[t] = l
  /\ \A t \in AllThreads : t \notin out => k.queue[t] \in Lists

\* What is only about the lists.
SameButLists(h, k) ==
  h.state = k.state /\ h.priority = k.priority /\ h.running = k.running

WithList(k, l, r) == [k EXCEPT !.list[l] = r]

LEMMA NewList ==
  ASSUME NEW k, KernelType(k), NEW l \in Lists, NEW r \in Seq(AllThreads),
         NEW h, h = WithList(k, l, r)
  PROVE  /\ KernelType(h) /\ SameButLists(h, k) /\ h.queue = k.queue
         /\ h.list = [k.list EXCEPT ![l] = r]
<1>1. PICK S : S = Seq(AllThreads)
  OBVIOUS
<1>2. k \in [state    : [AllThreads -> States],
             priority : [AllThreads -> Nat],
             queue    : [AllThreads -> Lists \cup {NoList}],
             list     : [Lists -> S],
             running  : AllThreads]
  BY <1>1 DEF KernelType
<1>3. r \in S
  BY <1>1
<1>4. /\ h \in [state    : [AllThreads -> States],
                priority : [AllThreads -> Nat],
                queue    : [AllThreads -> Lists \cup {NoList}],
                list     : [Lists -> S],
                running  : AllThreads]
      /\ SameButLists(h, k) /\ h.queue = k.queue
      /\ h.list = [k.list EXCEPT ![l] = r]
  BY <1>2, <1>3 DEF SameButLists, WithList
<1> QED
  BY <1>1, <1>4 DEF KernelType

LEMMA EnqueueOf ==
  ASSUME NEW k, NEW out, Placed(k, out), NEW l \in Lists,
         NEW t \in AllThreads, t \in out,
         NEW h, h = EnqueueThread(k, l, t)
  PROVE  /\ Placed(h, out \ {t}) /\ SameButLists(h, k)
         /\ h.queue = [k.queue EXCEPT ![t] = l]
<1>1. PICK s, pri : s = k.list[l] /\ pri = k.priority
  OBVIOUS
<1>2. PICK r : r = InsertAt(s, Before(s, pri, t) + 1, t)
  OBVIOUS
<1>3. h = [WithList(k, l, r) EXCEPT !.queue[t] = l]
  BY <1>1, <1>2 DEF EnqueueThread, Before, WithList
<1>4. /\ s \in Seq(AllThreads) /\ pri \in [AllThreads -> Nat]
      /\ Ordered(s, pri) /\ ~Member(s, t)
  BY <1>1 DEF Placed, KernelType
<1>5. /\ r \in Seq(AllThreads) /\ Ordered(r, pri)
      /\ \A u : Member(r, u) <=> Member(s, u) \/ u = t
  BY <1>2, <1>4, InsertOrdered
<1>6. KernelType(h) /\ SameButLists(h, k)
      /\ h.queue = [k.queue EXCEPT ![t] = l]
      /\ h.list = [k.list EXCEPT ![l] = r]
  <2>1. PICK g : g = WithList(k, l, r)
    OBVIOUS
  <2>2. /\ KernelType(g) /\ SameButLists(g, k) /\ g.queue = k.queue
        /\ g.list = [k.list EXCEPT ![l] = r]
    <3>1. KernelType(k) /\ r \in Seq(AllThreads)
      BY <1>5 DEF Placed
    <3> QED
      BY <2>1, <3>1, NewList
  <2>3. h = [g EXCEPT !.queue[t] = l]
    BY <1>3, <2>1
  <2>4. /\ DOMAIN g = {"state", "priority", "queue", "list", "running"}
        /\ g.queue \in [AllThreads -> Lists \cup {NoList}]
    BY <2>2 DEF KernelType
  <2>5. /\ h.state = g.state /\ h.priority = g.priority /\ h.list = g.list
        /\ h.running = g.running /\ h.queue = [g.queue EXCEPT ![t] = l]
    BY <2>3, <2>4
  <2>6. KernelType(h)
    <3>1. PICK S : S = Seq(AllThreads)
      OBVIOUS
    <3>2. g \in [state    : [AllThreads -> States],
                 priority : [AllThreads -> Nat],
                 queue    : [AllThreads -> Lists \cup {NoList}],
                 list     : [Lists -> S],
                 running  : AllThreads]
      BY <2>2, <3>1 DEF KernelType
    <3> QED
      BY <2>3, <3>1, <3>2 DEF KernelType
  <2> QED
    BY <2>2, <2>5, <2>6 DEF SameButLists
<1>7. k.list \in [Lists -> Seq(AllThreads)]
      /\ k.queue \in [AllThreads -> Lists \cup {NoList}]
  BY DEF Placed, KernelType
<1>8. \A m \in Lists : Ordered(h.list[m], h.priority)
  BY <1>1, <1>5, <1>6, <1>7 DEF Placed, SameButLists
<1>9. ASSUME NEW m \in Lists, NEW u \in AllThreads
      PROVE  Member(h.list[m], u) <=> u \notin out \ {t} /\ h.queue[u] = m
  <2>1. Member(k.list[m], u) <=> u \notin out /\ k.queue[u] = m
    BY DEF Placed
  <2>2. CASE m = l
    <3>1. h.list[m] = r /\ k.list[m] = s
      BY <1>1, <1>6, <1>7, <2>2
    <3>2. Member(h.list[m], u) <=> Member(k.list[m], u) \/ u = t
      BY <1>5, <3>1
    <3> QED
      BY <1>6, <1>7, <2>1, <2>2, <3>2
  <2>3. CASE m # l
    <3>1. h.list[m] = k.list[m]
      BY <1>6, <1>7, <2>3
    <3> QED
      BY <1>6, <1>7, <2>1, <2>3, <3>1
  <2> QED
    BY <2>2, <2>3
<1>10. \A u \in AllThreads : u \notin out \ {t} => h.queue[u] \in Lists
  BY <1>6, <1>7 DEF Placed
<1> QED
  BY <1>6, <1>8, <1>9, <1>10 DEF Placed

LEMMA PopOf ==
  ASSUME NEW k, NEW out, Placed(k, out), NEW l \in Lists, k.list[l] # <<>>,
         NEW t, t = Head(k.list[l]),
         NEW h, h = PopThread(k, l)
  PROVE  /\ Placed(h, out \cup {t}) /\ SameButLists(h, k)
         /\ h.queue = k.queue
         /\ t \in AllThreads /\ t \notin out /\ k.queue[t] = l
         /\ \A u \in AllThreads :
              u \notin out /\ k.queue[u] = l => k.priority[u] <= k.priority[t]
<1>1. PICK s : s = k.list[l]
  OBVIOUS
<1>2. PICK r : r = Tail(s)
  OBVIOUS
<1>3. h = WithList(k, l, r)
  BY <1>1, <1>2 DEF PopThread, WithList
<1>4. /\ s \in Seq(AllThreads) /\ k.priority \in [AllThreads -> Nat]
      /\ Ordered(s, k.priority) /\ s # <<>> /\ t = Head(s)
  BY <1>1 DEF Placed, KernelType
<1>5. /\ r \in Seq(AllThreads) /\ Ordered(r, k.priority)
      /\ t \in AllThreads /\ Member(s, t)
      /\ \A u : Member(r, u) <=> Member(s, u) /\ u # t
      /\ \A u : Member(s, u) => k.priority[u] <= k.priority[t]
  BY <1>2, <1>4, TailOrdered
<1>6. KernelType(h) /\ SameButLists(h, k) /\ h.queue = k.queue
      /\ h.list = [k.list EXCEPT ![l] = r]
  <2>1. KernelType(k) /\ r \in Seq(AllThreads)
    BY <1>5 DEF Placed
  <2> QED
    BY <1>3, <2>1, NewList
<1>7. k.list \in [Lists -> Seq(AllThreads)]
  BY DEF Placed, KernelType
<1>8. \A m \in Lists : Ordered(h.list[m], h.priority)
  BY <1>5, <1>6, <1>7 DEF Placed, SameButLists
<1>9. t \notin out /\ k.queue[t] = l
  BY <1>1, <1>5 DEF Placed
<1>10. ASSUME NEW m \in Lists, NEW u \in AllThreads
      PROVE  Member(h.list[m], u) <=> u \notin out \cup {t} /\ h.queue[u] = m
  <2>1. Member(k.list[m], u) <=> u \notin out /\ k.queue[u] = m
    BY DEF Placed
  <2>2. CASE m = l
    <3>1. h.list[m] = r /\ k.list[m] = s
      BY <1>1, <1>6, <1>7, <2>2
    <3> QED
      BY <1>5, <1>6, <2>1, <3>1
  <2>3. CASE m # l
    <3>1. h.list[m] = k.list[m]
      BY <1>6, <1>7, <2>3
    <3> QED
      BY <1>6, <1>9, <2>1, <2>3, <3>1
  <2> QED
    BY <2>2, <2>3
<1>11. \A u \in AllThreads : u \notin out \cup {t} => h.queue[u] \in Lists
  BY <1>6 DEF Placed
<1>12. \A u \in AllThreads :
         u \notin out /\ k.queue[u] = l => k.priority[u] <= k.priority[t]
  BY <1>1, <1>5 DEF Placed
<1> QED
  BY <1>5, <1>6, <1>8, <1>9, <1>10, <1>11, <1>12 DEF Placed

LEMMA DequeueOf ==
  ASSUME NEW k, NEW out, Placed(k, out), NEW t \in AllThreads, t \notin out,
         NEW h, h = DequeueThread(k, t)
  PROVE  /\ Placed(h, out \cup {t}) /\ SameButLists(h, k)
         /\ h.queue = k.queue
<1>1. PICK l \in Lists : l = k.queue[t]
  BY DEF Placed
<1>2. PICK s : s = k.list[l]
  OBVIOUS
<1>3. PICK r : r = RemoveAt(s, CHOOSE i \in DOMAIN s : s[i] = t)
  OBVIOUS
<1>4. h = WithList(k, l, r)
  BY <1>1, <1>2, <1>3 DEF DequeueThread, WithList
<1>5. /\ s \in Seq(AllThreads) /\ k.priority \in [AllThreads -> Nat]
      /\ Ordered(s, k.priority) /\ Member(s, t)
  BY <1>1, <1>2 DEF Placed, KernelType
<1>6. /\ r \in Seq(AllThreads) /\ Ordered(r, k.priority)
      /\ \A u : Member(r, u) <=> Member(s, u) /\ u # t
  BY <1>3, <1>5, RemoveOrdered
<1>7. KernelType(h) /\ SameButLists(h, k) /\ h.queue = k.queue
      /\ h.list = [k.list EXCEPT ![l] = r]
  <2>1. KernelType(k) /\ r \in Seq(AllThreads)
    BY <1>6 DEF Placed
  <2> QED
    BY <1>4, <2>1, NewList
<1>8. k.list \in [Lists -> Seq(AllThreads)]
  BY DEF Placed, KernelType
<1>9. \A m \in Lists : Ordered(h.list[m], h.priority)
  BY <1>6, <1>7, <1>8 DEF Placed, SameButLists
<1>10. ASSUME NEW m \in Lists, NEW u \in AllThreads
      PROVE  Member(h.list[m], u) <=> u \notin out \cup {t} /\ h.queue[u] = m
  <2>1. Member(k.list[m], u) <=> u \notin out /\ k.queue[u] = m
    BY DEF Placed
  <2>2. CASE m = l
    <3>1. h.list[m] = r /\ k.list[m] = s
      BY <1>2, <1>7, <1>8, <2>2
    <3> QED
      BY <1>6, <1>7, <2>1, <3>1
  <2>3. CASE m # l
    <3>1. h.list[m] = k.list[m]
      BY <1>7, <1>8, <2>3
    <3> QED
      BY <1>1, <1>7, <2>1, <2>3, <3>1
  <2> QED
    BY <2>2, <2>3
<1>11. \A u \in AllThreads : u \notin out \cup {t} => h.queue[u] \in Lists
  BY <1>7 DEF Placed
<1> QED
  BY <1>7, <1>9, <1>10, <1>11 DEF Placed

\* The priorities of those that are in no list do not matter.
LEMMA PlacedSame ==
  ASSUME NEW k, NEW out, Placed(k, out), NEW h, KernelType(h),
         h.list = k.list, h.queue = k.queue,
         \A t \in AllThreads : t \notin out => h.priority[t] = k.priority[t]
  PROVE  Placed(h, out)
<1>1. ASSUME NEW l \in Lists
      PROVE  Ordered(h.list[l], h.priority)
  <2>1. PICK s : s = k.list[l] /\ s = h.list[l]
    OBVIOUS
  <2>2. s \in Seq(AllThreads) /\ Ordered(s, k.priority)
    BY <2>1 DEF Placed, KernelType
  <2>3. \A i \in 1..Len(s) : h.priority[s[i]] = k.priority[s[i]]
    <3>1. \A i \in 1..Len(s) : s[i] \in AllThreads /\ Member(s, s[i])
      BY <2>2 DEF Member
    <3>2. \A u \in AllThreads : Member(s, u) => u \notin out
      BY <2>1 DEF Placed
    <3> QED
      BY <3>1, <3>2
  <2> QED
    BY <2>1, <2>2, <2>3 DEF Ordered
<1> QED
  BY <1>1 DEF Placed

-----------------------------------------------------------------------------
(* The most urgent thread runs.                                            *)

Stopped(k) == {t \in AllThreads : k.state[t] = "STOPPED"}

\* The threads that are in no list when one runs.
Off(k) == {t \in AllThreads : k.state[t] \in {"STOPPED", "RUNNING"}}

\* A thread that waits in a message queue is WAITING, one that is STOPPED is in
\* no list, and the idle thread is always in the run queue or runs.
Core(k, out) ==
  /\ Placed(k, out)
  /\ \A t \in AllThreads : k.queue[t] \in Waits => k.state[t] \in {"WAITING", "STOPPED"}
  /\ \A t \in AllThreads : k.state[t] = "STOPPED" => t \in out
  /\ k.state[Idle] # "STOPPED" /\ k.queue[Idle] = RunQueue

RunsAlone(k) ==
  /\ \A t \in AllThreads : k.state[t] = "RUNNING" <=> t = k.running
  /\ k.queue[k.running] = RunQueue

Sane(k) == Core(k, Off(k)) /\ RunsAlone(k)

Urgent(k) ==
  \A t \in AllThreads :
    t \notin Off(k) /\ k.queue[t] = RunQueue =>
      k.priority[t] <= k.priority[k.running]

\* t is on its way from one list to another.
Moving(k, t) == Core(k, Off(k) \cup {t}) /\ RunsAlone(k) /\ t # k.running

\* Nobody runs, and the thread that ran is on its way to a list.
Leaving(k) ==
  /\ Core(k, Stopped(k) \cup {k.running})
  /\ \A t \in AllThreads : k.state[t] # "RUNNING"
  /\ k.state[k.running] # "STOPPED"

\* Nobody runs.
Vacant(k) ==
  /\ Core(k, Stopped(k))
  /\ \A t \in AllThreads : k.state[t] # "RUNNING"

\* The threads that wait in message queues keep their states.
StatesKept(h, k) ==
  \A t \in AllThreads : h.queue[t] \in Waits => h.state[t] = k.state[t]

LEMMA ListNames ==
  /\ RunQueue \notin Waits /\ NoList \notin Waits
  /\ Lists = {RunQueue} \cup Waits /\ RunQueue \in Lists
BY DEF Lists, Waits, RunQueue, NoList, MtQueue, FullQueue

\* Another state for a thread.
WithState(k, t, st) == [k EXCEPT !.state[t] = st]

LEMMA NewState ==
  ASSUME NEW k, NEW out, Placed(k, out), NEW t \in AllThreads,
         NEW st \in States, NEW h, h = WithState(k, t, st)
  PROVE  /\ Placed(h, out)
         /\ h.state = [k.state EXCEPT ![t] = st]
         /\ k.state \in [AllThreads -> States]
         /\ h.queue = k.queue /\ h.list = k.list
         /\ h.priority = k.priority /\ h.running = k.running
<1>1. PICK S : S = Seq(AllThreads)
  OBVIOUS
<1>2. k \in [state    : [AllThreads -> States],
             priority : [AllThreads -> Nat],
             queue    : [AllThreads -> Lists \cup {NoList}],
             list     : [Lists -> S],
             running  : AllThreads]
  BY <1>1 DEF Placed, KernelType
<1>3. /\ h \in [state    : [AllThreads -> States],
                priority : [AllThreads -> Nat],
                queue    : [AllThreads -> Lists \cup {NoList}],
                list     : [Lists -> S],
                running  : AllThreads]
      /\ h.state = [k.state EXCEPT ![t] = st]
      /\ k.state \in [AllThreads -> States]
      /\ h.queue = k.queue /\ h.list = k.list
      /\ h.priority = k.priority /\ h.running = k.running
  BY <1>2 DEF WithState
<1>4. KernelType(h)
  BY <1>1, <1>3 DEF KernelType
<1> QED
  BY <1>3, <1>4, PlacedSame

LEMMA KernelParts ==
  ASSUME NEW k, KernelType(k)
  PROVE  /\ k.state \in [AllThreads -> States]
         /\ k.priority \in [AllThreads -> Nat]
         /\ k.queue \in [AllThreads -> Lists \cup {NoList}]
         /\ k.list \in [Lists -> Seq(AllThreads)]
         /\ k.running \in AllThreads
BY DEF KernelType

\* __osDispatchThread runs the most urgent one that is ready.
LEMMA DispatchOf ==
  ASSUME NEW k, Vacant(k), NEW h, h = DispatchThread(k)
  PROVE  Sane(h) /\ Urgent(h) /\ h.queue = k.queue /\ StatesKept(h, k)
<1>1. PICK t, p : t = Head(k.list[RunQueue]) /\ p = PopThread(k, RunQueue)
  OBVIOUS
<1>2. Idle \in AllThreads
  BY DEF AllThreads
<1>3. Placed(k, Stopped(k)) /\ KernelType(k)
  BY DEF Vacant, Core, Placed
<1>4. k.list[RunQueue] # <<>>
  <2>1. Member(k.list[RunQueue], Idle)
    BY <1>2, <1>3, ListNames DEF Vacant, Core, Placed, Stopped
  <2> QED
    BY <2>1 DEF Member
<1>5. /\ Placed(p, Stopped(k) \cup {t}) /\ SameButLists(p, k) /\ p.queue = k.queue
      /\ t \in AllThreads /\ t \notin Stopped(k) /\ k.queue[t] = RunQueue
      /\ \A u \in AllThreads :
           u \notin Stopped(k) /\ k.queue[u] = RunQueue =>
             k.priority[u] <= k.priority[t]
  <2>1. PICK l : l = RunQueue /\ l \in Lists
    BY ListNames
  <2>2. PICK out : out = Stopped(k)
    OBVIOUS
  <2>3. /\ Placed(k, out) /\ k.list[l] # <<>> /\ t = Head(k.list[l])
        /\ p = PopThread(k, l)
    BY <1>1, <1>3, <1>4, <2>1, <2>2
  <2>4. /\ Placed(p, out \cup {t}) /\ SameButLists(p, k) /\ p.queue = k.queue
        /\ t \in AllThreads /\ t \notin out /\ k.queue[t] = l
        /\ \A u \in AllThreads :
             u \notin out /\ k.queue[u] = l => k.priority[u] <= k.priority[t]
    BY <2>1, <2>3, PopOf
  <2> QED
    BY <2>1, <2>2, <2>4
<1>6. PICK g : g = WithState(p, t, "RUNNING")
  OBVIOUS
<1>7. /\ Placed(g, Stopped(k) \cup {t})
      /\ g.state = [p.state EXCEPT ![t] = "RUNNING"]
      /\ p.state \in [AllThreads -> States]
      /\ g.queue = p.queue /\ g.priority = p.priority
  <2>1. "RUNNING" \in States
    BY DEF States
  <2> QED
    BY <1>5, <1>6, <2>1, NewState
<1>8. h = [g EXCEPT !.running = t]
  BY <1>1, <1>6 DEF DispatchThread, Ready, WithState
<1>9. /\ h.state = g.state /\ h.queue = g.queue /\ h.priority = g.priority
      /\ h.list = g.list /\ h.running = t /\ KernelType(h)
  <2>1. PICK S : S = Seq(AllThreads)
    OBVIOUS
  <2>2. g \in [state    : [AllThreads -> States],
               priority : [AllThreads -> Nat],
               queue    : [AllThreads -> Lists \cup {NoList}],
               list     : [Lists -> S],
               running  : AllThreads]
    BY <1>7, <2>1 DEF Placed, KernelType
  <2> QED
    BY <1>5, <1>8, <2>1, <2>2 DEF KernelType
<1>10. Placed(h, Stopped(k) \cup {t})
  BY <1>7, <1>9, PlacedSame
<1>11. /\ k.state \in [AllThreads -> States]
       /\ h.state = [k.state EXCEPT ![t] = "RUNNING"]
       /\ h.queue = k.queue /\ h.priority = k.priority
  BY <1>5, <1>7, <1>9 DEF SameButLists
<1>12. \A u \in AllThreads : k.state[u] # "RUNNING"
  BY DEF Vacant
<1>13. Off(h) = Stopped(k) \cup {t}
  BY <1>5, <1>11, <1>12 DEF Off, Stopped
<1>14. Core(h, Off(h))
  <2>1. \A u \in AllThreads : h.queue[u] \in Waits =>
        h.state[u] \in {"WAITING", "STOPPED"}
    BY <1>5, <1>11, ListNames DEF Vacant, Core
  <2>2. \A u \in AllThreads : h.state[u] = "STOPPED" => u \in Off(h)
    BY DEF Off
  <2>3. h.state[Idle] # "STOPPED" /\ h.queue[Idle] = RunQueue
    BY <1>2, <1>5, <1>11 DEF Vacant, Core
  <2> QED
    BY <1>10, <1>13, <2>1, <2>2, <2>3 DEF Core
<1>15. RunsAlone(h)
  BY <1>5, <1>9, <1>11, <1>12 DEF RunsAlone
<1>16. Urgent(h)
  BY <1>5, <1>9, <1>11, <1>13 DEF Urgent
<1>17. StatesKept(h, k)
  BY <1>5, <1>11, ListNames DEF StatesKept
<1> QED
  BY <1>11, <1>14, <1>15, <1>16, <1>17 DEF Sane

\* __osEnqueueAndYield: the thread that ran goes to l.
LEMMA YieldOf ==
  ASSUME NEW k, Leaving(k), NEW l \in Lists,
         l \in Waits => k.state[k.running] = "WAITING",
         k.running = Idle => l = RunQueue,
         NEW h, h = EnqueueAndYield(k, l)
  PROVE  /\ Sane(h) /\ Urgent(h) /\ StatesKept(h, k)
         /\ h.queue = [k.queue EXCEPT ![k.running] = l]
<1>1. PICK t, e : t = k.running /\ e = EnqueueThread(k, l, t)
  OBVIOUS
<1>2. /\ Placed(k, Stopped(k) \cup {t}) /\ t \in AllThreads
      /\ k.queue \in [AllThreads -> Lists \cup {NoList}]
  BY <1>1, KernelParts DEF Leaving, Core, Placed
<1>3. /\ Placed(e, (Stopped(k) \cup {t}) \ {t}) /\ SameButLists(e, k)
      /\ e.queue = [k.queue EXCEPT ![t] = l]
  BY <1>1, <1>2, EnqueueOf
<1>4. Stopped(e) = Stopped(k) /\ t \notin Stopped(k)
  BY <1>1, <1>2, <1>3 DEF Stopped, SameButLists, Leaving
<1>5. (Stopped(k) \cup {t}) \ {t} = Stopped(e)
  BY <1>4
<1>6. Vacant(e)
  <2>1. Placed(e, Stopped(e))
    BY <1>3, <1>5
  <2>2. \A u \in AllThreads : e.queue[u] \in Waits =>
        e.state[u] \in {"WAITING", "STOPPED"}
    BY <1>1, <1>2, <1>3 DEF SameButLists, Leaving, Core
  <2>3. e.state[Idle] # "STOPPED" /\ e.queue[Idle] = RunQueue
    BY <1>1, <1>2, <1>3 DEF SameButLists, Leaving, Core, AllThreads
  <2>4. \A u \in AllThreads : e.state[u] # "RUNNING"
    BY <1>3 DEF SameButLists, Leaving
  <2> QED
    BY <2>1, <2>2, <2>3, <2>4 DEF Vacant, Core, Stopped
<1>7. h = DispatchThread(e)
  BY <1>1 DEF EnqueueAndYield
<1>8. Sane(h) /\ Urgent(h) /\ h.queue = e.queue /\ StatesKept(h, e)
  BY <1>6, <1>7, DispatchOf
<1> QED
  BY <1>1, <1>3, <1>8 DEF StatesKept, SameButLists

\* The running thread gives the processor up in some other state.
LEMMA LeaveOf ==
  ASSUME NEW k, Sane(k), NEW st \in {"RUNNABLE", "WAITING"},
         NEW h, h = WithState(k, k.running, st)
  PROVE  /\ Leaving(h) /\ h.running = k.running /\ h.running \in AllThreads
         /\ h.state[h.running] = st /\ h.queue = k.queue
         /\ h.state = [k.state EXCEPT ![k.running] = st]
<1>1. PICK t : t = k.running
  OBVIOUS
<1>2. t \in AllThreads /\ Placed(k, Off(k))
  BY <1>1, KernelParts DEF Sane, Core, Placed
<1>3. /\ Placed(h, Off(k))
      /\ h.state = [k.state EXCEPT ![t] = st]
      /\ k.state \in [AllThreads -> States]
      /\ h.queue = k.queue /\ h.running = t
  <2>1. st \in States
    BY DEF States
  <2> QED
    BY <1>1, <1>2, <2>1, NewState
<1>4. /\ \A u \in AllThreads : k.state[u] = "RUNNING" <=> u = t
      /\ k.queue[t] = RunQueue
  BY <1>1 DEF Sane, RunsAlone
<1>5. Off(k) = Stopped(h) \cup {t} /\ (\A u \in AllThreads : h.state[u] # "RUNNING")
  BY <1>2, <1>3, <1>4 DEF Off, Stopped
<1>6. \A u \in AllThreads : h.queue[u] \in Waits =>
        h.state[u] \in {"WAITING", "STOPPED"}
  BY <1>2, <1>3, <1>4, ListNames DEF Sane, Core
<1>7. h.state[Idle] # "STOPPED" /\ h.queue[Idle] = RunQueue
  BY <1>2, <1>3 DEF Sane, Core, AllThreads
<1>8. h.state[t] = st
  BY <1>2, <1>3
<1> QED
  BY <1>1, <1>2, <1>3, <1>5, <1>6, <1>7, <1>8 DEF Leaving, Core, Stopped

\* __osDispatchThread is called before the end of an operation, if at all.
LEMMA PreemptOf ==
  ASSUME NEW k, Sane(k), NEW h, h = Preempt(k)
  PROVE  Sane(h) /\ Urgent(h) /\ h.queue = k.queue /\ StatesKept(h, k)
<1>1. Placed(k, Off(k)) /\ KernelType(k) /\ k.running \in AllThreads
  BY KernelParts DEF Sane, Core, Placed
<1>2. CASE Ready(k) # <<>> /\ k.priority[k.running] < k.priority[Head(Ready(k))]
  <2>1. PICK g : g = WithState(k, k.running, "RUNNABLE")
    OBVIOUS
  <2>2. /\ Leaving(g) /\ g.running = k.running /\ g.state[g.running] = "RUNNABLE"
    BY <2>1, LeaveOf
  <2>3. h = EnqueueAndYield(g, RunQueue)
    BY <1>2, <2>1 DEF Preempt, WithState
  <2>4. /\ g.queue = k.queue /\ g.state = [k.state EXCEPT ![k.running] = "RUNNABLE"]
        /\ k.state \in [AllThreads -> States] /\ k.queue[k.running] = RunQueue
        /\ k.queue \in [AllThreads -> Lists \cup {NoList}]
    BY <1>1, <2>1, LeaveOf, KernelParts DEF Sane, RunsAlone
  <2>5. /\ Sane(h) /\ Urgent(h) /\ StatesKept(h, g)
        /\ h.queue = [g.queue EXCEPT ![g.running] = RunQueue]
    BY <2>2, <2>3, YieldOf, ListNames
  <2>6. h.queue = k.queue
    BY <1>1, <2>2, <2>4, <2>5
  <2> QED
    BY <1>1, <2>4, <2>5, <2>6, ListNames DEF StatesKept
<1>3. CASE ~(Ready(k) # <<>> /\ k.priority[k.running] < k.priority[Head(Ready(k))])
  <2>1. h = k
    BY <1>3 DEF Preempt
  <2>2. PICK l : l = RunQueue /\ l \in Lists
    BY ListNames
  <2>3. PICK out : out = Off(k)
    OBVIOUS
  <2>4. PICK u, p : u = Head(k.list[l]) /\ p = PopThread(k, l)
    OBVIOUS
  <2>5. Placed(k, out)
    BY <1>1, <2>3
  <2>6. k.list[l] # <<>> =>
          /\ u \in AllThreads
          /\ \A t \in AllThreads :
               t \notin out /\ k.queue[t] = l => k.priority[t] <= k.priority[u]
    <3> SUFFICES ASSUME k.list[l] # <<>>
                 PROVE  /\ u \in AllThreads
                        /\ \A t \in AllThreads :
                             t \notin out /\ k.queue[t] = l =>
                               k.priority[t] <= k.priority[u]
      OBVIOUS
    <3>1. /\ Placed(k, out) /\ k.list[l] # <<>> /\ u = Head(k.list[l])
          /\ p = PopThread(k, l)
      BY <2>4, <2>5
    <3>2. /\ Placed(p, out \cup {u}) /\ SameButLists(p, k) /\ p.queue = k.queue
          /\ u \in AllThreads /\ u \notin out /\ k.queue[u] = l
          /\ \A t \in AllThreads :
               t \notin out /\ k.queue[t] = l => k.priority[t] <= k.priority[u]
      <4>1. l \in Lists
        BY <2>2
      <4>2. Placed(p, out \cup {u}) /\ SameButLists(p, k) /\ p.queue = k.queue
        BY <3>1, <4>1, PopOf
      <4>3. u \in AllThreads /\ u \notin out /\ k.queue[u] = l
        BY <3>1, <4>1, <4>2, PopOf
      <4>4. \A t \in AllThreads :
               t \notin out /\ k.queue[t] = l => k.priority[t] <= k.priority[u]
        BY <3>1, <4>1, <4>2, PopOf
      <4> QED
        BY <4>2, <4>3, <4>4
    <3> QED
      BY <3>2
  <2>7. ASSUME NEW t \in AllThreads, t \notin Off(k), k.queue[t] = RunQueue
        PROVE  k.priority[t] <= k.priority[k.running]
    <3>1. Member(k.list[l], t)
      BY <1>1, <2>2, <2>7 DEF Placed
    <3>2. k.list[l] # <<>>
      BY <3>1 DEF Member
    <3>3. ~(k.priority[k.running] < k.priority[u])
      BY <1>3, <2>2, <2>4, <3>2 DEF Ready
    <3>4. u \in AllThreads /\ k.priority[t] <= k.priority[u]
      BY <2>2, <2>3, <2>6, <2>7, <3>2
    <3> QED
      BY <1>1, <3>3, <3>4, KernelParts
  <2> QED
    BY <2>1, <2>7 DEF Urgent, StatesKept
<1> QED
  BY <1>2, <1>3

\* Those that wait in message queues, but for t, keep their states.
KeptBut(h, k, t) ==
  \A u \in AllThreads : u # t /\ h.queue[u] \in Waits => h.state[u] = k.state[u]

\* A thread in a call waits in a queue.
LEMMA WaitOf ==
  ASSUME NEW k, Sane(k), k.running # Idle, NEW l \in Waits,
         NEW h, h = Wait(k, l)
  PROVE  /\ Sane(h) /\ Urgent(h)
         /\ h.queue = [k.queue EXCEPT ![k.running] = l]
         /\ KeptBut(h, k, k.running)
<1>1. PICK g : g = WithState(k, k.running, "WAITING")
  OBVIOUS
<1>2. /\ Leaving(g) /\ g.running = k.running /\ g.state[g.running] = "WAITING"
  BY <1>1, LeaveOf
<1>3. h = EnqueueAndYield(g, l)
  BY <1>1 DEF Wait, WithState
<1>4. /\ g.queue = k.queue /\ g.state = [k.state EXCEPT ![k.running] = "WAITING"]
      /\ k.state \in [AllThreads -> States]
  <2>1. g.queue = k.queue /\ g.state = [k.state EXCEPT ![k.running] = "WAITING"]
    BY <1>1, LeaveOf
  <2>2. k.state \in [AllThreads -> States]
    BY KernelParts DEF Sane, Core, Placed
  <2> QED
    BY <2>1, <2>2
<1>5. /\ Sane(h) /\ Urgent(h) /\ StatesKept(h, g)
      /\ h.queue = [g.queue EXCEPT ![g.running] = l]
  BY <1>2, <1>3, YieldOf, ListNames
<1> QED
  BY <1>2, <1>4, <1>5 DEF StatesKept, KeptBut

With(f, x, y) == [f EXCEPT ![x] = y]

\* A thread on its way arrives in a list, in a state that fits it.
LEMMA ArriveOf ==
  ASSUME NEW k, NEW t \in AllThreads, Moving(k, t), NEW l \in Lists,
         NEW st \in {"RUNNABLE", "WAITING"}, l \in Waits => st = "WAITING",
         t = Idle => l = RunQueue,
         NEW h, h = EnqueueThread(WithState(k, t, st), l, t)
  PROVE  /\ Sane(h) /\ h.queue[t] = l /\ t \notin Off(h)
         /\ h.queue = With(k.queue, t, l) /\ h.state = With(k.state, t, st)
<1>1. PICK g : g = WithState(k, t, st)
  OBVIOUS
<1>2. PICK out : out = Off(k) \cup {t}
  OBVIOUS
<1>3. Placed(k, out) /\ st \in States /\ t \in out
  BY <1>2 DEF Moving, Core, States
<1>4. /\ Placed(g, out) /\ g.state = [k.state EXCEPT ![t] = st]
      /\ k.state \in [AllThreads -> States]
      /\ g.queue = k.queue /\ g.running = k.running
  BY <1>1, <1>3, NewState
<1>5. h = EnqueueThread(g, l, t)
  BY <1>1
<1>6. /\ Placed(h, out \ {t}) /\ SameButLists(h, g)
      /\ h.queue = [g.queue EXCEPT ![t] = l]
  BY <1>3, <1>4, <1>5, EnqueueOf
<1>7. /\ h.state = [k.state EXCEPT ![t] = st] /\ h.running = k.running
      /\ h.queue = [k.queue EXCEPT ![t] = l]
      /\ k.queue \in [AllThreads -> Lists \cup {NoList}]
      /\ k.running \in AllThreads
  BY <1>3, <1>4, <1>6, KernelParts DEF SameButLists, Placed
<1>8. Off(h) = out \ {t}
  BY <1>2, <1>4, <1>7 DEF Off
<1>9. t # k.running /\ (\A u \in AllThreads : k.state[u] = "RUNNING" <=> u = k.running)
      /\ k.queue[k.running] = RunQueue
  BY DEF Moving, RunsAlone
<1>10. RunsAlone(h)
  BY <1>4, <1>7, <1>9 DEF RunsAlone
<1>11. Core(h, Off(h))
  <2>1. \A u \in AllThreads : h.queue[u] \in Waits =>
        h.state[u] \in {"WAITING", "STOPPED"}
    BY <1>4, <1>7 DEF Moving, Core
  <2>2. \A u \in AllThreads : h.state[u] = "STOPPED" => u \in Off(h)
    BY DEF Off
  <2>3. h.state[Idle] # "STOPPED" /\ h.queue[Idle] = RunQueue
    BY <1>4, <1>7 DEF Moving, Core, AllThreads
  <2> QED
    BY <1>6, <1>8, <2>1, <2>2, <2>3 DEF Core
<1> QED
  BY <1>7, <1>8, <1>10, <1>11 DEF Sane, With

\* The first thread that waits in l is taken out of it.
LEMMA LeaveListOf ==
  ASSUME NEW k, Sane(k), NEW l \in Waits, k.list[l] # <<>>,
         NEW t, t = Head(k.list[l]), NEW p, p = PopThread(k, l)
  PROVE  /\ Moving(p, t) /\ t \in AllThreads /\ t # Idle
         /\ p.state[t] = "WAITING" /\ p.queue[t] = l
         /\ SameButLists(p, k) /\ p.queue = k.queue
<1>1. PICK out : out = Off(k)
  OBVIOUS
<1>2. Placed(k, out) /\ l \in Lists
  BY <1>1, ListNames DEF Sane, Core
<1>3. /\ Placed(p, out \cup {t}) /\ SameButLists(p, k) /\ p.queue = k.queue
      /\ t \in AllThreads /\ t \notin out /\ k.queue[t] = l
  BY <1>2, PopOf
<1>4. Off(p) = Off(k)
  BY <1>3 DEF Off, SameButLists
<1>5. k.state[t] = "WAITING" /\ t # k.running /\ t # Idle
  <2>1. k.state[t] \in {"WAITING", "STOPPED"}
    BY <1>3 DEF Sane, Core
  <2>2. k.state[t] # "STOPPED" /\ k.state[t] # "RUNNING"
    BY <1>1, <1>3 DEF Off
  <2>3. t # Idle
    BY <1>3, ListNames DEF Sane, Core
  <2> QED
    BY <1>3, <2>1, <2>2, <2>3 DEF Sane, RunsAlone
<1>6. Core(p, Off(p) \cup {t})
  BY <1>1, <1>3, <1>4, <1>5 DEF Sane, Core, SameButLists
<1>7. RunsAlone(p) /\ t # p.running
  BY <1>3, <1>5 DEF Sane, RunsAlone, SameButLists
<1> QED
  BY <1>3, <1>5, <1>6, <1>7 DEF Moving, SameButLists

\* The first thread that waits is made ready, in the state that it has.
LEMMA MovedOf ==
  ASSUME NEW k, Sane(k), NEW l \in Waits, k.list[l] # <<>>,
         NEW h, h = EnqueueThread(PopThread(k, l), RunQueue, Head(k.list[l]))
  PROVE  /\ Sane(h) /\ h.state = k.state
         /\ \E u \in AllThreads :
              /\ k.queue[u] = l /\ k.state[u] = "WAITING"
              /\ h.queue = [k.queue EXCEPT ![u] = RunQueue]
<1>1. PICK t, p : t = Head(k.list[l]) /\ p = PopThread(k, l)
  OBVIOUS
<1>2. /\ Moving(p, t) /\ t \in AllThreads /\ t # Idle
      /\ p.state[t] = "WAITING" /\ p.queue[t] = l
      /\ SameButLists(p, k) /\ p.queue = k.queue
  BY <1>1, LeaveListOf
<1>3. PICK out : out = Off(p) \cup {t}
  OBVIOUS
<1>4. PICK r : r = RunQueue /\ r \in Lists
  BY ListNames
<1>5. Placed(p, out) /\ t \in out
  BY <1>2, <1>3 DEF Moving, Core
<1>6. h = EnqueueThread(p, r, t)
  BY <1>1, <1>4
<1>7. /\ Placed(h, out \ {t}) /\ SameButLists(h, p)
      /\ h.queue = [p.queue EXCEPT ![t] = r]
  <2>1. /\ t \in AllThreads /\ r \in Lists /\ Placed(p, out) /\ t \in out
        /\ h = EnqueueThread(p, r, t)
    BY <1>2, <1>4, <1>5, <1>6
  <2> QED
    BY <2>1, EnqueueOf
<1>8. p.queue \in [AllThreads -> Lists \cup {NoList}] /\ p.running \in AllThreads
  BY <1>5, KernelParts DEF Placed
<1>9. Off(h) = out \ {t}
  <2>1. t \notin Off(p) /\ Off(h) = Off(p)
    BY <1>2, <1>7 DEF Off, SameButLists
  <2> QED
    BY <1>3, <2>1
<1>10. Core(h, Off(h))
  <2>1. \A u \in AllThreads : h.queue[u] \in Waits =>
        h.state[u] \in {"WAITING", "STOPPED"}
    BY <1>2, <1>4, <1>7, <1>8, ListNames DEF Moving, Core, SameButLists
  <2>2. \A u \in AllThreads : h.state[u] = "STOPPED" => u \in Off(h)
    BY DEF Off
  <2>3. h.state[Idle] # "STOPPED" /\ h.queue[Idle] = RunQueue
    BY <1>2, <1>7, <1>8 DEF Moving, Core, SameButLists, AllThreads
  <2> QED
    BY <1>7, <1>9, <2>1, <2>2, <2>3 DEF Core
<1>11. RunsAlone(h)
  BY <1>2, <1>7, <1>8 DEF Moving, RunsAlone, SameButLists
<1> QED
  BY <1>2, <1>4, <1>7, <1>10, <1>11 DEF Sane, SameButLists

\* u becomes ready when t is started: itself, or one that waits where it was
\* stopped.
Restarts(h, k, t, u) ==
  /\ \/ u = t
     \/ /\ k.state[t] = "STOPPED"
        /\ k.queue[u] = k.queue[t]
        /\ k.state[u] = "WAITING"
  /\ h.queue = [k.queue EXCEPT ![u] = RunQueue]
  /\ \A v \in AllThreads \ {t} : h.queue[v] \in Waits => h.state[v] = k.state[v]

\* osStartThread, of a thread that is in no list.
LEMMA StartOf ==
  ASSUME NEW k, NEW t \in AllThreads, Moving(k, t), t # Idle,
         k.state[t] \in {"WAITING", "STOPPED"},
         NEW h, h = StartThread(k, t)
  PROVE  Sane(h) /\ Urgent(h) /\ \E u \in AllThreads : Restarts(h, k, t, u)
<1>1. k.queue[t] \in {RunQueue, NoList} \cup Waits
  BY KernelParts, ListNames DEF Moving, Core, Placed
<1>2. CASE k.state[t] = "WAITING" \/ k.queue[t] \in {NoList, RunQueue}
  <2>1. PICK g : g = MakeReady(k, t)
    OBVIOUS
  <2>2. g = EnqueueThread(WithState(k, t, "RUNNABLE"), RunQueue, t)
    BY <2>1 DEF MakeReady, WithState
  <2>3. /\ Sane(g) /\ g.queue = [k.queue EXCEPT ![t] = RunQueue]
        /\ g.state = [k.state EXCEPT ![t] = "RUNNABLE"]
    <3>1. PICK r, st : r = RunQueue /\ st = "RUNNABLE"
      OBVIOUS
    <3>2. /\ r \in Lists /\ st \in {"RUNNABLE", "WAITING"}
          /\ r \in Waits => st = "WAITING"
          /\ t = Idle => r = RunQueue
          /\ g = EnqueueThread(WithState(k, t, st), r, t)
      BY <2>2, <3>1, ListNames
    <3>3. Sane(g)
      BY <3>2, ArriveOf
    <3>4. g.queue = With(k.queue, t, r) /\ g.state = With(k.state, t, st)
      BY <3>2, ArriveOf
    <3> QED
      BY <3>1, <3>3, <3>4 DEF With
  <2>4. k.state \in [AllThreads -> States]
    BY KernelParts DEF Moving, Core, Placed
  <2>5. h = Preempt(g)
    <3>1. CASE k.state[t] = "WAITING"
      BY <2>1, <3>1 DEF StartThread
    <3>2. CASE k.state[t] # "WAITING"
      BY <1>2, <2>1, <3>2, ListNames DEF StartThread
    <3> QED
      BY <3>1, <3>2
  <2>6. Sane(h) /\ Urgent(h) /\ h.queue = g.queue /\ StatesKept(h, g)
    BY <2>3, <2>5, PreemptOf
  <2>7. Restarts(h, k, t, t)
    <3>1. \A v \in AllThreads \ {t} : g.state[v] = k.state[v]
      BY <2>4, <2>3
    <3>2. h.queue = [k.queue EXCEPT ![t] = RunQueue]
      BY <2>3, <2>6
    <3>3. \A v \in AllThreads \ {t} :
            h.queue[v] \in Waits => h.state[v] = k.state[v]
      BY <2>6, <3>1 DEF StatesKept
    <3> QED
      BY <3>2, <3>3 DEF Restarts
  <2> QED
    BY <2>6, <2>7
<1>3. CASE k.state[t] = "STOPPED" /\ k.queue[t] \in Waits
  <2>1. PICK l, g : /\ l = k.queue[t]
                    /\ g = EnqueueThread(WithState(k, t, "WAITING"), l, t)
    OBVIOUS
  <2>2. l \in Waits /\ l \in Lists
    BY <1>3, <2>1, ListNames
  <2>3. /\ Sane(g) /\ g.queue[t] = l /\ t \notin Off(g)
        /\ g.queue = [k.queue EXCEPT ![t] = l]
        /\ g.state = [k.state EXCEPT ![t] = "WAITING"]
    <3>1. PICK st : st = "WAITING"
      OBVIOUS
    <3>2. /\ st \in {"RUNNABLE", "WAITING"}
          /\ l \in Waits => st = "WAITING"
          /\ t = Idle => l = RunQueue
          /\ g = EnqueueThread(WithState(k, t, st), l, t)
      BY <2>1, <3>1
    <3>3. Sane(g) /\ g.queue[t] = l /\ t \notin Off(g)
      BY <2>2, <3>2, ArriveOf
    <3>4. g.queue = With(k.queue, t, l) /\ g.state = With(k.state, t, st)
      BY <2>2, <3>2, ArriveOf
    <3> QED
      BY <3>1, <3>3, <3>4 DEF With
  <2>4. /\ k.state \in [AllThreads -> States]
        /\ k.queue \in [AllThreads -> Lists \cup {NoList}]
    BY KernelParts DEF Moving, Core, Placed
  <2>5. g.list[l] # <<>>
    <3>1. Member(g.list[l], t)
      BY <2>2, <2>3 DEF Sane, Core, Placed
    <3> QED
      BY <3>1 DEF Member
  <2>6. PICK m : m = EnqueueThread(PopThread(g, l), RunQueue, Head(g.list[l]))
    OBVIOUS
  <2>7. Sane(g)
    BY <2>3
  <2>8. Sane(m) /\ m.state = g.state
    BY <2>2, <2>5, <2>6, <2>7, MovedOf
  <2>9. PICK u \in AllThreads :
          /\ g.queue[u] = l /\ g.state[u] = "WAITING"
          /\ m.queue = [g.queue EXCEPT ![u] = RunQueue]
    BY <2>2, <2>5, <2>6, <2>7, MovedOf
  <2>10. h = Preempt(m)
    BY <1>3, <2>1, <2>2, <2>6, ListNames DEF StartThread, WithState
  <2>11. Sane(h) /\ Urgent(h) /\ h.queue = m.queue /\ StatesKept(h, m)
    BY <2>8, <2>10, PreemptOf
  <2>12. g.queue = k.queue
    BY <2>4, <2>1, <2>3
  <2>13. Restarts(h, k, t, u)
    <3>1. \A v \in AllThreads \ {t} : g.state[v] = k.state[v]
      BY <2>4, <2>3
    <3>2. u = t \/ (k.queue[u] = k.queue[t] /\ k.state[u] = "WAITING")
      <4>1. g.queue[u] = l /\ g.state[u] = "WAITING" /\ l = k.queue[t]
        BY <2>1, <2>9
      <4>2. k.queue[u] = k.queue[t]
        BY <2>12, <4>1
      <4> QED
        BY <2>9, <3>1, <4>1, <4>2
    <3>3. h.queue = [k.queue EXCEPT ![u] = RunQueue]
      BY <2>9, <2>11, <2>12
    <3>4. \A v \in AllThreads \ {t} :
            h.queue[v] \in Waits => h.state[v] = k.state[v]
      BY <2>8, <2>11, <3>1 DEF StatesKept
    <3> QED
      BY <1>3, <3>2, <3>3, <3>4 DEF Restarts
  <2> QED
    BY <2>11, <2>13
<1> QED
  BY <1>1, <1>2, <1>3

Good(k) == Sane(k) /\ Urgent(k)

LEMMA WakeOf ==
  ASSUME NEW k, Good(k), NEW l \in Waits, NEW h, h = WakeOne(k, l)
  PROVE  Good(h)
<1>1. CASE k.list[l] = <<>>
  BY <1>1 DEF WakeOne
<1>2. CASE k.list[l] # <<>>
  <2>1. PICK t, p : t = Head(k.list[l]) /\ p = PopThread(k, l)
    OBVIOUS
  <2>2. Moving(p, t) /\ t \in AllThreads /\ t # Idle /\ p.state[t] = "WAITING"
    BY <1>2, <2>1, LeaveListOf DEF Good
  <2>3. h = StartThread(p, t)
    BY <1>2, <2>1 DEF WakeOne
  <2> QED
    BY <2>2, <2>3, StartOf DEF Good
<1> QED
  BY <1>1, <1>2

LEMMA EventOf ==
  ASSUME NEW k, Good(k), NEW l \in Waits,
         NEW h, h = IF k.list[l] = <<>> THEN k
                    ELSE Preempt(EnqueueThread(PopThread(k, l), RunQueue,
                                               Head(k.list[l])))
  PROVE  Good(h)
<1>1. CASE k.list[l] = <<>>
  BY <1>1
<1>2. CASE k.list[l] # <<>>
  <2>1. PICK m : m = EnqueueThread(PopThread(k, l), RunQueue, Head(k.list[l]))
    OBVIOUS
  <2>2. Sane(m)
    BY <1>2, <2>1, MovedOf DEF Good
  <2> QED
    BY <1>2, <2>1, <2>2, PreemptOf DEF Good
<1> QED
  BY <1>1, <1>2

\* osYieldThread
LEMMA YieldThreadOf ==
  ASSUME NEW k, Good(k),
         NEW h, h = EnqueueAndYield(WithState(k, k.running, "RUNNABLE"), RunQueue)
  PROVE  Good(h) /\ h.queue = k.queue /\ StatesKept(h, k)
<1>1. PICK g : g = WithState(k, k.running, "RUNNABLE")
  OBVIOUS
<1>2. /\ Leaving(g) /\ g.running = k.running /\ g.state[g.running] = "RUNNABLE"
      /\ k.running \in AllThreads
  BY <1>1, LeaveOf DEF Good
<1>3. g.queue = k.queue /\ g.state = [k.state EXCEPT ![k.running] = "RUNNABLE"]
  BY <1>1, LeaveOf DEF Good
<1>4. /\ Sane(h) /\ Urgent(h) /\ StatesKept(h, g)
      /\ h.queue = [g.queue EXCEPT ![g.running] = RunQueue]
  BY <1>1, <1>2, YieldOf, ListNames
<1>5. /\ k.state \in [AllThreads -> States]
      /\ k.queue \in [AllThreads -> Lists \cup {NoList}]
      /\ k.queue[k.running] = RunQueue
  BY KernelParts DEF Good, Sane, Core, Placed, RunsAlone
<1>6. h.queue = k.queue
  BY <1>2, <1>3, <1>4, <1>5
<1>7. StatesKept(h, k)
  BY <1>2, <1>3, <1>4, <1>5, <1>6, ListNames DEF StatesKept
<1> QED
  BY <1>4, <1>6, <1>7 DEF Good

\* osStopThread of the running thread.
LEMMA StopSelfOf ==
  ASSUME NEW k, Good(k), k.running # Idle,
         NEW h, h = DispatchThread(WithState(k, k.running, "STOPPED"))
  PROVE  Good(h) /\ h.queue = k.queue /\ StatesKept(h, k)
<1>1. PICK t, g : t = k.running /\ g = WithState(k, t, "STOPPED")
  OBVIOUS
<1>2. t \in AllThreads /\ Placed(k, Off(k)) /\ "STOPPED" \in States
  BY <1>1, KernelParts DEF Good, Sane, Core, Placed, States
<1>3. /\ Placed(g, Off(k)) /\ g.state = [k.state EXCEPT ![t] = "STOPPED"]
      /\ k.state \in [AllThreads -> States] /\ g.queue = k.queue
  BY <1>1, <1>2, NewState
<1>4. \A u \in AllThreads : k.state[u] = "RUNNING" <=> u = t
  BY <1>1 DEF Good, Sane, RunsAlone
<1>5. Off(k) = Stopped(g) /\ (\A u \in AllThreads : g.state[u] # "RUNNING")
  BY <1>2, <1>3, <1>4 DEF Off, Stopped
<1>6. \A u \in AllThreads : g.queue[u] \in Waits =>
        g.state[u] \in {"WAITING", "STOPPED"}
  BY <1>2, <1>3 DEF Good, Sane, Core
<1>7. g.state[Idle] # "STOPPED" /\ g.queue[Idle] = RunQueue
  BY <1>1, <1>3 DEF Good, Sane, Core, AllThreads
<1>8. Vacant(g)
  BY <1>3, <1>5, <1>6, <1>7 DEF Vacant, Core, Stopped
<1>9. Sane(h) /\ Urgent(h) /\ h.queue = g.queue /\ StatesKept(h, g)
  BY <1>1, <1>8, DispatchOf
<1>10. k.queue[t] = RunQueue
  BY <1>1 DEF Good, Sane, RunsAlone
<1>11. StatesKept(h, k)
  BY <1>3, <1>9, <1>10, ListNames DEF StatesKept
<1> QED
  BY <1>3, <1>9, <1>11 DEF Good

\* osStopThread of another thread.
LEMMA StopOtherOf ==
  ASSUME NEW k, Good(k), NEW t \in AllThreads, t # Idle,
         k.state[t] \in {"RUNNABLE", "WAITING"},
         NEW h, h = DequeueThread(WithState(k, t, "STOPPED"), t)
  PROVE  /\ Good(h) /\ h.queue = k.queue
         /\ \A u \in AllThreads : h.state[u] \in {k.state[u], "STOPPED"}
<1>1. PICK g, out : g = WithState(k, t, "STOPPED") /\ out = Off(k)
  OBVIOUS
<1>2. Placed(k, out) /\ "STOPPED" \in States /\ t \notin out
  BY <1>1 DEF Good, Sane, Core, States, Off
<1>3. /\ Placed(g, out) /\ g.state = [k.state EXCEPT ![t] = "STOPPED"]
      /\ k.state \in [AllThreads -> States] /\ g.queue = k.queue
      /\ g.priority = k.priority /\ g.running = k.running
  BY <1>1, <1>2, NewState
<1>4. /\ Placed(h, out \cup {t}) /\ SameButLists(h, g) /\ h.queue = g.queue
  BY <1>1, <1>2, <1>3, DequeueOf
<1>5. /\ h.state = [k.state EXCEPT ![t] = "STOPPED"] /\ h.queue = k.queue
      /\ h.priority = k.priority /\ h.running = k.running
  BY <1>3, <1>4 DEF SameButLists
<1>6. Off(h) = out \cup {t}
  BY <1>1, <1>3, <1>5 DEF Off
<1>7. Core(h, Off(h))
  <2>1. \A u \in AllThreads : h.queue[u] \in Waits =>
        h.state[u] \in {"WAITING", "STOPPED"}
    BY <1>3, <1>5 DEF Good, Sane, Core
  <2>2. \A u \in AllThreads : h.state[u] = "STOPPED" => u \in Off(h)
    BY DEF Off
  <2>3. h.state[Idle] # "STOPPED" /\ h.queue[Idle] = RunQueue
    BY <1>3, <1>5 DEF Good, Sane, Core, AllThreads
  <2> QED
    BY <1>4, <1>6, <2>1, <2>2, <2>3 DEF Core
<1>8. RunsAlone(h)
  BY <1>3, <1>5 DEF Good, Sane, RunsAlone
<1>9. Urgent(h)
  BY <1>1, <1>5, <1>6 DEF Good, Urgent
<1> QED
  BY <1>3, <1>5, <1>7, <1>8, <1>9 DEF Good, Sane

\* Another priority for a thread.
WithPriority(k, t, p) == [k EXCEPT !.priority[t] = p]

LEMMA NewPriority ==
  ASSUME NEW k, KernelType(k), NEW t \in AllThreads, NEW p \in Nat,
         NEW h, h = WithPriority(k, t, p)
  PROVE  /\ KernelType(h)
         /\ h.priority = [k.priority EXCEPT ![t] = p]
         /\ k.priority \in [AllThreads -> Nat]
         /\ h.queue = k.queue /\ h.list = k.list
         /\ h.state = k.state /\ h.running = k.running
<1>1. PICK S : S = Seq(AllThreads)
  OBVIOUS
<1>2. k \in [state    : [AllThreads -> States],
             priority : [AllThreads -> Nat],
             queue    : [AllThreads -> Lists \cup {NoList}],
             list     : [Lists -> S],
             running  : AllThreads]
  BY <1>1 DEF KernelType
<1>3. /\ h \in [state    : [AllThreads -> States],
                priority : [AllThreads -> Nat],
                queue    : [AllThreads -> Lists \cup {NoList}],
                list     : [Lists -> S],
                running  : AllThreads]
      /\ h.priority = [k.priority EXCEPT ![t] = p]
      /\ k.priority \in [AllThreads -> Nat]
      /\ h.queue = k.queue /\ h.list = k.list
      /\ h.state = k.state /\ h.running = k.running
  BY <1>2 DEF WithPriority
<1> QED
  BY <1>1, <1>3 DEF KernelType

\* What Sane says does not depend on the priorities but for the lists.
LEMMA SaneSame ==
  ASSUME NEW k, Sane(k), NEW h, Placed(h, Off(k)),
         h.state = k.state, h.queue = k.queue, h.running = k.running
  PROVE  Sane(h)
<1>1. Off(h) = Off(k)
  BY DEF Off
<1> QED
  BY <1>1 DEF Sane, Core, RunsAlone

\* osSetThreadPri: out of the list by its old priority, back by the new one.
LEMMA SetPriOf ==
  ASSUME NEW k, Good(k), NEW t \in AllThreads, NEW p \in Nat,
         NEW g, g = WithPriority(k, t, p),
         NEW m, m = IF t # k.running /\ g.state[t] # "STOPPED"
                    THEN EnqueueThread(DequeueThread(g, t), g.queue[t], t)
                    ELSE g,
         NEW h, h = Preempt(m)
  PROVE  Good(h) /\ h.queue = k.queue /\ StatesKept(h, k)
<1>1. PICK out : out = Off(k)
  OBVIOUS
<1>2. Placed(k, out) /\ KernelType(k)
  BY <1>1 DEF Good, Sane, Core, Placed
<1>3. /\ KernelType(g)
      /\ g.priority = [k.priority EXCEPT ![t] = p]
      /\ k.priority \in [AllThreads -> Nat]
      /\ g.queue = k.queue /\ g.list = k.list
      /\ g.state = k.state /\ g.running = k.running
  BY <1>2, NewPriority
<1>4. t \in out <=> t = k.running \/ k.state[t] = "STOPPED"
  BY <1>1 DEF Good, Sane, RunsAlone, Off
<1>5. CASE t \in out
  <2>1. Placed(g, out)
    BY <1>2, <1>3, <1>5, PlacedSame
  <2>2. m = g
    BY <1>3, <1>4, <1>5
  <2>3. Sane(m)
    BY <1>1, <1>3, <2>1, <2>2, SaneSame DEF Good
  <2>4. Sane(h) /\ Urgent(h) /\ h.queue = m.queue /\ StatesKept(h, m)
    BY <2>3, PreemptOf
  <2> QED
    BY <1>3, <2>2, <2>4 DEF Good, StatesKept
<1>6. CASE t \notin out
  <2>1. PICK d, e, l : /\ d = DequeueThread(k, t)
                       /\ e = DequeueThread(g, t)
                       /\ l = k.queue[t]
    OBVIOUS
  <2>2. l \in Lists
    BY <1>2, <1>6, <2>1 DEF Placed
  <2>3. PICK r : r = RemoveAt(k.list[l], CHOOSE i \in DOMAIN k.list[l] : k.list[l][i] = t)
    OBVIOUS
  <2>4. /\ Placed(d, out \cup {t}) /\ SameButLists(d, k) /\ d.queue = k.queue
    BY <1>2, <1>6, <2>1, DequeueOf
  <2>5. d = WithList(k, l, r) /\ e = WithList(g, l, r)
    BY <1>3, <2>1, <2>3 DEF DequeueThread, WithList
  <2>6. r \in Seq(AllThreads)
    <3>1. PICK s : s = k.list[l]
      OBVIOUS
    <3>2. /\ s \in Seq(AllThreads) /\ k.priority \in [AllThreads -> Nat]
          /\ Ordered(s, k.priority) /\ Member(s, t)
      BY <1>2, <1>6, <2>1, <2>2, <3>1 DEF Placed, KernelType
    <3>3. r = RemoveAt(s, CHOOSE i \in DOMAIN s : s[i] = t)
      BY <2>3, <3>1
    <3> QED
      BY <3>2, <3>3, RemoveOrdered
  <2>7. /\ KernelType(e) /\ SameButLists(e, g) /\ e.queue = g.queue
        /\ e.list = [g.list EXCEPT ![l] = r]
    BY <1>3, <2>2, <2>5, <2>6, NewList
  <2>8. d.list = [k.list EXCEPT ![l] = r]
    BY <1>2, <2>2, <2>5, <2>6, NewList
  <2>9. Placed(e, out \cup {t})
    <3>1. e.list = d.list /\ e.queue = d.queue
      BY <1>3, <2>4, <2>7, <2>8
    <3>2. \A u \in AllThreads : u \notin out \cup {t} => e.priority[u] = d.priority[u]
      BY <1>3, <2>4, <2>7 DEF SameButLists
    <3> QED
      BY <2>4, <2>7, <3>1, <3>2, PlacedSame
  <2>10. m = EnqueueThread(e, l, t)
    BY <1>3, <1>4, <1>6, <2>1
  <2>11. PICK o : o = out \cup {t}
    OBVIOUS
  <2>12. /\ Placed(m, o \ {t}) /\ SameButLists(m, e)
         /\ m.queue = [e.queue EXCEPT ![t] = l]
    BY <2>2, <2>9, <2>10, <2>11, EnqueueOf
  <2>13. o \ {t} = out
    BY <1>6, <2>11
  <2>14. m.queue = k.queue
    <3>1. k.queue \in [AllThreads -> Lists \cup {NoList}]
      BY <1>2, KernelParts
    <3> QED
      BY <1>3, <2>1, <2>7, <2>12, <3>1
  <2>15. m.state = k.state /\ m.running = k.running
    BY <1>3, <2>7, <2>12 DEF SameButLists
  <2>16. Sane(m)
    BY <1>1, <2>12, <2>13, <2>14, <2>15, SaneSame DEF Good
  <2>17. Sane(h) /\ Urgent(h) /\ h.queue = m.queue /\ StatesKept(h, m)
    BY <2>16, PreemptOf
  <2> QED
    BY <2>14, <2>15, <2>17 DEF Good, StatesKept
<1> QED
  BY <1>5, <1>6

\* No thread is ready at first, and the idle thread runs.
LEMMA InitGood ==
  ASSUME Init
  PROVE  Good(kernel)
<1>1. /\ Idle \notin Threads /\ InitPri \in [AllThreads -> Nat]
      /\ Idle \in AllThreads
  BY ThreadAssumption DEF AllThreads
<1>2. kernel = [state    |-> [t \in AllThreads |->
                               IF t = Idle THEN "RUNNING" ELSE "STOPPED"],
               priority |-> InitPri,
               queue    |-> [t \in AllThreads |->
                               IF t = Idle THEN RunQueue ELSE NoList],
               list     |-> [l \in Lists |-> <<>>],
               running  |-> Idle]
  BY DEF Init
<1>3. KernelType(kernel)
  <2>1. [l \in Lists |-> <<>>] \in [Lists -> Seq(AllThreads)]
    OBVIOUS
  <2>2. PICK S : S = Seq(AllThreads)
    OBVIOUS
  <2> QED
    BY <1>1, <1>2, <2>1, <2>2, ListNames DEF KernelType, States
<1>4. Off(kernel) = AllThreads
  BY <1>2 DEF Off
<1>5. \A l \in Lists : kernel.list[l] = <<>>
  BY <1>2
<1>6. Placed(kernel, Off(kernel))
  BY <1>3, <1>4, <1>5 DEF Placed, Ordered, Member
<1>7. Core(kernel, Off(kernel))
  BY <1>1, <1>2, <1>4, <1>6, ListNames DEF Core
<1>8. RunsAlone(kernel)
  BY <1>1, <1>2 DEF RunsAlone
<1>9. Urgent(kernel)
  BY <1>4 DEF Urgent
<1> QED
  BY <1>7, <1>8, <1>9 DEF Good, Sane

LEMMA NextGood ==
  ASSUME Good(kernel), [Next]_vars
  PROVE  Good(kernel')
<1>1. PICK k, h : k = kernel /\ h = kernel'
  OBVIOUS
<1>2. Good(k) /\ Idle \notin Threads /\ Idle \in AllThreads
      /\ (\A t \in Threads : t \in AllThreads /\ t # Idle)
      /\ (\A q \in Queues : MtQueue(q) \in Waits /\ FullQueue(q) \in Waits)
  BY <1>1, ThreadAssumption DEF AllThreads, Waits
<1>3. ASSUME NEW l \in Waits, NEW c, WaitIn(l, c), Running \in Threads
      PROVE  Good(h)
  <2>1. h = Wait(k, l) /\ k.running # Idle
    BY <1>1, <1>2, <1>3 DEF WaitIn, Running
  <2> QED
    BY <1>2, <2>1, WaitOf DEF Good
<1>4. CASE YieldThread
  <2>1. h = EnqueueAndYield(WithState(k, k.running, "RUNNABLE"), RunQueue)
    BY <1>1, <1>4 DEF YieldThread, WithState, Running
  <2> QED
    BY <1>1, <1>2, <2>1, YieldThreadOf
<1>5. ASSUME NEW t \in Threads, Start(t)
      PROVE  Good(h)
  <2>1. h = StartThread(k, t) /\ k.state[t] = "STOPPED"
    BY <1>1, <1>5 DEF Start
  <2>2. t \in AllThreads /\ t # Idle /\ t # k.running
    BY <1>2, <2>1 DEF Good, Sane, RunsAlone
  <2>3. Off(k) \cup {t} = Off(k)
    BY <2>1, <2>2 DEF Off
  <2>4. Moving(k, t)
    BY <1>2, <2>2, <2>3 DEF Good, Sane, Moving
  <2> QED
    BY <2>1, <2>2, <2>4, StartOf DEF Good
<1>6. ASSUME NEW t \in Threads, StopThread(t)
      PROVE  Good(h)
  <2>1. t \in AllThreads /\ t # Idle
    BY <1>2
  <2>2. \/ t = k.running /\ h = DispatchThread(WithState(k, t, "STOPPED"))
        \/ /\ k.state[t] \in {"RUNNABLE", "WAITING"}
           /\ h = DequeueThread(WithState(k, t, "STOPPED"), t)
    BY <1>1, <1>6 DEF StopThread, WithState, Running
  <2>3. CASE t = k.running /\ h = DispatchThread(WithState(k, t, "STOPPED"))
    BY <1>2, <2>1, <2>3, StopSelfOf
  <2>4. CASE /\ k.state[t] \in {"RUNNABLE", "WAITING"}
             /\ h = DequeueThread(WithState(k, t, "STOPPED"), t)
    BY <1>2, <2>1, <2>4, StopOtherOf
  <2> QED
    BY <2>2, <2>3, <2>4
<1>7. ASSUME NEW t \in Threads, NEW p \in Priorities, SetThreadPri(t, p)
      PROVE  Good(h)
  <2>1. PICK g : g = WithPriority(k, t, p)
    OBVIOUS
  <2>2. PICK m : m = IF t # k.running /\ g.state[t] # "STOPPED"
                     THEN EnqueueThread(DequeueThread(g, t), g.queue[t], t)
                     ELSE g
    OBVIOUS
  <2>3. h = Preempt(m)
    BY <1>1, <1>7, <2>1, <2>2 DEF SetThreadPri, WithPriority, Running
  <2>4. p \in Nat /\ t \in AllThreads
    BY <1>2, ThreadAssumption
  <2> QED
    BY <1>2, <2>1, <2>2, <2>3, <2>4, SetPriOf
<1>8. ASSUME NEW q \in Queues, RecvMesg(q)
      PROVE  Good(h)
  <2>1. /\ Running \in Threads
        /\ \/ \E c : WaitIn(MtQueue(q), c)
           \/ h = WakeOne(k, FullQueue(q))
    BY <1>1, <1>8 DEF RecvMesg, Calling
  <2> QED
    BY <1>2, <1>3, <2>1, WakeOf
<1>9. ASSUME NEW q \in Queues, NEW m \in Messages,
             SendMesg(q, m) \/ JamMesg(q, m)
      PROVE  Good(h)
  <2>1. /\ Running \in Threads
        /\ \/ \E c : WaitIn(FullQueue(q), c)
           \/ h = WakeOne(k, MtQueue(q))
    BY <1>1, <1>9 DEF SendMesg, JamMesg, Calling
  <2> QED
    BY <1>2, <1>3, <2>1, WakeOf
<1>10. ASSUME NEW q \in Queues, NEW m \in Messages, Event(q, m)
       PROVE  Good(h)
  <2>1. PICK l \in Waits : l = MtQueue(q)
    BY <1>2
  <2>2. h = IF k.list[l] = <<>> THEN k
            ELSE Preempt(EnqueueThread(PopThread(k, l), RunQueue,
                                       Head(k.list[l])))
    BY <1>1, <1>10, <2>1 DEF Event
  <2> QED
    BY <1>2, <2>2, EventOf
<1>11. CASE UNCHANGED vars
  BY <1>1, <1>2, <1>11 DEF vars
<1>12. Good(h)
  <2>1. CASE Next
    <3>1. CASE \E t \in Threads : Start(t) \/ StopThread(t)
      BY <1>5, <1>6, <3>1
    <3>2. CASE \E t \in Threads, p \in Priorities : SetThreadPri(t, p)
      BY <1>7, <3>2
    <3>3. CASE \E q \in Queues : RecvMesg(q)
      BY <1>8, <3>3
    <3>4. CASE \E q \in Queues, m \in Messages :
                 SendMesg(q, m) \/ JamMesg(q, m) \/ Event(q, m)
      BY <1>9, <1>10, <3>4
    <3> QED
      BY <1>1, <1>4, <2>1, <3>1, <3>2, <3>3, <3>4 DEF Next
  <2> QED
    BY <1>1, <1>11, <2>1
<1> QED
  BY <1>1, <1>12

\* The processor never runs a thread while a more urgent one is ready.
THEOREM TheMostUrgentRuns == Spec => []MostUrgentRuns
<1>1. Init => Good(kernel)
  BY InitGood
<1>2. Good(kernel) /\ [Next]_vars => Good(kernel)'
  BY NextGood
<1>3. Good(kernel) => MostUrgentRuns
  <2> SUFFICES ASSUME Good(kernel),
                      NEW i \in DOMAIN Ready(kernel)
               PROVE  kernel.priority[Ready(kernel)[i]] <= kernel.priority[Running]
    BY DEF MostUrgentRuns
  <2>1. PICK s, t : s = kernel.list[RunQueue] /\ t = s[i]
    OBVIOUS
  <2>2. Placed(kernel, Off(kernel)) /\ s \in Seq(AllThreads)
    BY <2>1, KernelParts, ListNames DEF Good, Sane, Core, Placed
  <2>3. i \in 1..Len(s) /\ t \in AllThreads
    BY <2>1, <2>2 DEF Ready
  <2>4. Member(s, t)
    BY <2>1, <2>3 DEF Member
  <2>5. t \notin Off(kernel) /\ kernel.queue[t] = RunQueue
    BY <2>1, <2>2, <2>3, <2>4, ListNames DEF Placed
  <2> QED
    BY <2>1, <2>3, <2>5 DEF Good, Urgent, Ready, Running
<1> QED
  BY <1>1, <1>2, <1>3, PTL DEF Spec

-----------------------------------------------------------------------------
(* No wakeup is lost.                                                      *)

\* The threads that wait in the list l and are not stopped.
Waiting(k, l) == {t \in AllThreads : k.queue[t] = l /\ k.state[t] = "WAITING"}

\* Threads become ready, and none begins to wait where nobody waited.
Quiet(h, k) ==
  /\ \A t \in AllThreads : h.queue[t] = k.queue[t] \/ h.queue[t] = RunQueue
  /\ \A l \in Waits : Waiting(h, l) # {} => Waiting(k, l) # {}

\* And one of those that wait in l, if any, becomes ready.
Wakes(h, k, l) ==
  /\ Quiet(h, k)
  /\ Waiting(k, l) # {} =>
       \E u \in AllThreads : k.queue[u] = l /\ h.queue[u] = RunQueue

LEMMA WaitersListed ==
  ASSUME NEW k, Sane(k), NEW l \in Waits
  PROVE  Waiting(k, l) # {} <=> k.list[l] # <<>>
<1>1. Placed(k, Off(k)) /\ l \in Lists
  BY ListNames DEF Sane, Core
<1>2. PICK s : s = k.list[l]
  OBVIOUS
<1>3. s \in Seq(AllThreads)
  BY <1>1, <1>2, KernelParts DEF Placed
<1>4. ASSUME Waiting(k, l) # {}
      PROVE  k.list[l] # <<>>
  <2>1. PICK t \in AllThreads : k.queue[t] = l /\ k.state[t] = "WAITING"
    BY <1>4 DEF Waiting
  <2>2. t \notin Off(k)
    BY <2>1 DEF Off
  <2>3. Member(k.list[l], t)
    BY <1>1, <2>1, <2>2 DEF Placed
  <2> QED
    BY <2>3 DEF Member
<1>5. ASSUME k.list[l] # <<>>
      PROVE  Waiting(k, l) # {}
  <2>1. s[1] \in AllThreads /\ Member(s, s[1])
    BY <1>2, <1>3, <1>5 DEF Member
  <2>2. PICK t \in AllThreads : t = s[1]
    BY <2>1
  <2>3. t \notin Off(k) /\ k.queue[t] = l
    BY <1>1, <1>2, <2>1, <2>2 DEF Placed
  <2>4. k.state[t] = "WAITING"
    BY <2>3 DEF Sane, Core, Off
  <2> QED
    BY <2>3, <2>4 DEF Waiting
<1> QED
  BY <1>4, <1>5

\* Nothing changes for those that wait when the queues of the threads stay.
LEMMA StaysQuiet ==
  ASSUME NEW k, NEW h, h.queue = k.queue, StatesKept(h, k)
  PROVE  Quiet(h, k)
<1>1. ASSUME NEW l \in Waits, Waiting(h, l) # {}
      PROVE  Waiting(k, l) # {}
  BY <1>1 DEF Waiting, StatesKept
<1> QED
  BY <1>1 DEF Quiet

\* A thread that is stopped waits no more, but keeps its place to wait.
LEMMA StopQuiet ==
  ASSUME NEW k, NEW h, h.queue = k.queue,
         \A u \in AllThreads : h.state[u] \in {k.state[u], "STOPPED"}
  PROVE  Quiet(h, k)
<1>1. ASSUME NEW l \in Waits, Waiting(h, l) # {}
      PROVE  Waiting(k, l) # {}
  BY <1>1 DEF Waiting
<1> QED
  BY <1>1 DEF Quiet

\* When a thread is started, one becomes ready, and if that is another one it
\* waited where the one that was started waits now.
LEMMA StartQuiet ==
  ASSUME NEW k, KernelType(k), NEW t \in AllThreads, NEW u \in AllThreads,
         NEW h, Restarts(h, k, t, u)
  PROVE  Quiet(h, k) /\ h.queue[u] = RunQueue
<1>1. k.queue \in [AllThreads -> Lists \cup {NoList}]
  BY KernelParts
<1>2. h.queue[u] = RunQueue
  BY <1>1 DEF Restarts
<1>3. \A v \in AllThreads : v # u => h.queue[v] = k.queue[v]
  BY <1>1 DEF Restarts
<1>4. /\ u # t => k.queue[u] = k.queue[t] /\ k.state[u] = "WAITING"
      /\ \A v \in AllThreads \ {t} :
           h.queue[v] \in Waits => h.state[v] = k.state[v]
  BY DEF Restarts
<1>5. ASSUME NEW l \in Waits, Waiting(h, l) # {}
      PROVE  Waiting(k, l) # {}
  <2>1. PICK v \in AllThreads : h.queue[v] = l /\ h.state[v] = "WAITING"
    BY <1>5 DEF Waiting
  <2>2. v # u /\ k.queue[v] = l
    BY <1>2, <1>3, <2>1, ListNames
  <2>3. CASE v = t
    BY <1>4, <2>2, <2>3 DEF Waiting
  <2>4. CASE v # t
    BY <1>4, <2>1, <2>2, <2>4 DEF Waiting
  <2> QED
    BY <2>3, <2>4
<1> QED
  BY <1>2, <1>3, <1>5 DEF Quiet

\* The first one that waits in l, if any, becomes ready.
LEMMA WakeWakes ==
  ASSUME NEW k, Good(k), NEW l \in Waits, NEW h, h = WakeOne(k, l)
  PROVE  Wakes(h, k, l)
<1>1. Sane(k) /\ (Waiting(k, l) # {} <=> k.list[l] # <<>>)
  BY WaitersListed DEF Good
<1>2. CASE k.list[l] = <<>>
  BY <1>1, <1>2 DEF WakeOne, Wakes, Quiet
<1>3. CASE k.list[l] # <<>>
  <2>1. PICK t, p : t = Head(k.list[l]) /\ p = PopThread(k, l)
    OBVIOUS
  <2>2. /\ Moving(p, t) /\ t \in AllThreads /\ t # Idle /\ p.state[t] = "WAITING"
        /\ p.queue[t] = l /\ SameButLists(p, k) /\ p.queue = k.queue
    BY <1>1, <1>3, <2>1, LeaveListOf
  <2>3. h = StartThread(p, t)
    BY <1>3, <2>1 DEF WakeOne
  <2>4. PICK u \in AllThreads : Restarts(h, p, t, u)
    BY <2>2, <2>3, StartOf
  <2>5. u = t
    BY <2>2, <2>4 DEF Restarts
  <2>6. KernelType(p)
    BY <2>2 DEF Moving, Core, Placed
  <2>7. Quiet(h, p) /\ h.queue[t] = RunQueue
    BY <2>2, <2>4, <2>5, <2>6, StartQuiet
  <2>8. \A m : Waiting(p, m) = Waiting(k, m)
    BY <2>2 DEF Waiting, SameButLists
  <2>9. Quiet(h, k)
    BY <2>2, <2>7, <2>8 DEF Quiet
  <2> QED
    BY <2>2, <2>7, <2>9 DEF Wakes
<1> QED
  BY <1>2, <1>3

LEMMA EventWakes ==
  ASSUME NEW k, Good(k), NEW l \in Waits,
         NEW h, h = IF k.list[l] = <<>> THEN k
                    ELSE Preempt(EnqueueThread(PopThread(k, l), RunQueue,
                                               Head(k.list[l])))
  PROVE  Wakes(h, k, l)
<1>1. /\ Sane(k) /\ KernelType(k)
      /\ Waiting(k, l) # {} <=> k.list[l] # <<>>
  BY WaitersListed DEF Good, Sane, Core, Placed
<1>2. CASE k.list[l] = <<>>
  BY <1>1, <1>2 DEF Wakes, Quiet
<1>3. CASE k.list[l] # <<>>
  <2>1. PICK m : m = EnqueueThread(PopThread(k, l), RunQueue, Head(k.list[l]))
    OBVIOUS
  <2>2. Sane(m) /\ m.state = k.state
    BY <1>1, <1>3, <2>1, MovedOf
  <2>3. PICK u \in AllThreads :
          /\ k.queue[u] = l /\ k.state[u] = "WAITING"
          /\ m.queue = [k.queue EXCEPT ![u] = RunQueue]
    BY <1>1, <1>3, <2>1, MovedOf
  <2>4. h.queue = m.queue /\ StatesKept(h, m)
    BY <1>3, <2>1, <2>2, PreemptOf
  <2>5. Restarts(h, k, u, u)
    BY <2>2, <2>3, <2>4 DEF Restarts, StatesKept
  <2>6. Quiet(h, k) /\ h.queue[u] = RunQueue
    BY <1>1, <2>3, <2>5, StartQuiet
  <2> QED
    BY <2>3, <2>6 DEF Wakes
<1> QED
  BY <1>2, <1>3

\* Where a call waits.
WaitList(c) == IF c.op = "recv" THEN MtQueue(c.mq) ELSE FullQueue(c.mq)

\* Woken, of any lists and calls.
WokenIn(queue, c, l) ==
  {t \in Threads : queue[t] = RunQueue /\ c[t] # NoCall /\ l = WaitList(c[t])}

\* A thread waits where its call waits.
CallsFit(k, c) ==
  /\ c \in [AllThreads -> Calls \cup {NoCall}]
  /\ \A t \in AllThreads : k.queue[t] \in Waits =>
       t \in Threads /\ c[t] # NoCall /\ k.queue[t] = WaitList(c[t])

\* If threads wait in l, there are as many woken ones as messages or places.
Covered(k, c, l, n) ==
  Waiting(k, l) # {} => n <= Cardinality(WokenIn(k.queue, c, l))

\* NoLostWakeup, of v[q] messages in each queue q.
NoneLost(k, c, v) ==
  \A q \in Queues : /\ Covered(k, c, MtQueue(q), v[q])
                    /\ Covered(k, c, FullQueue(q), MsgCount[q] - v[q])

LEMMA WokenCount ==
  ASSUME NEW queue, NEW c, NEW l
  PROVE  /\ IsFiniteSet(WokenIn(queue, c, l))
         /\ Cardinality(WokenIn(queue, c, l)) \in Nat
<1>1. WokenIn(queue, c, l) \in SUBSET Threads
  BY DEF WokenIn
<1>2. IsFiniteSet(WokenIn(queue, c, l))
  BY <1>1, ThreadAssumption, FS_Subset
<1> QED
  BY <1>2, FS_CardinalityType

\* The three ways in which what is owed and what is covered go together.
LEMMA CoveredSame ==
  ASSUME NEW k, NEW h, NEW c, NEW d, NEW l, NEW n \in Int, Covered(k, c, l, n),
         Waiting(h, l) # {} => Waiting(k, l) # {},
         WokenIn(k.queue, c, l) \subseteq WokenIn(h.queue, d, l)
  PROVE  Covered(h, d, l, n)
<1>1. PICK S, T : S = WokenIn(k.queue, c, l) /\ T = WokenIn(h.queue, d, l)
  OBVIOUS
<1>2. IsFiniteSet(T) /\ Cardinality(T) \in Nat /\ Cardinality(S) \in Nat
  BY <1>1, WokenCount
<1>3. Cardinality(S) <= Cardinality(T)
  BY <1>1, <1>2, FS_Subset
<1> QED
  BY <1>1, <1>2, <1>3 DEF Covered

\* One message less is there, and one thread less is woken.
LEMMA CoveredLess ==
  ASSUME NEW k, NEW h, NEW c, NEW d, NEW l, NEW n \in Int, Covered(k, c, l, n),
         Waiting(h, l) # {} => Waiting(k, l) # {},
         NEW t, WokenIn(k.queue, c, l) \ {t} \subseteq WokenIn(h.queue, d, l)
  PROVE  Covered(h, d, l, n - 1)
<1>1. PICK S, T : S = WokenIn(k.queue, c, l) /\ T = WokenIn(h.queue, d, l)
  OBVIOUS
<1>2. /\ IsFiniteSet(T) /\ Cardinality(T) \in Nat
      /\ IsFiniteSet(S) /\ Cardinality(S) \in Nat
  BY <1>1, WokenCount
<1>3. /\ IsFiniteSet(S \ {t}) /\ Cardinality(S \ {t}) >= Cardinality(S) - 1
      /\ Cardinality(S \ {t}) \in Nat
  <2>1. PICK R : R = S \ {t}
    OBVIOUS
  <2>2. /\ IsFiniteSet(R)
        /\ Cardinality(R) = IF t \in S THEN Cardinality(S) - 1 ELSE Cardinality(S)
    BY <1>2, <2>1, FS_RemoveElement
  <2>3. Cardinality(R) \in Nat
    BY <2>2, FS_CardinalityType
  <2> QED
    BY <1>2, <2>1, <2>2, <2>3
<1>4. Cardinality(S \ {t}) <= Cardinality(T)
  BY <1>1, <1>2, FS_Subset
<1> QED
  BY <1>1, <1>2, <1>3, <1>4 DEF Covered

\* One place more is there, and one thread more is woken.
LEMMA CoveredMore ==
  ASSUME NEW k, NEW h, NEW c, NEW d, NEW l, NEW n \in Int, Covered(k, c, l, n),
         Waiting(h, l) # {} => Waiting(k, l) # {},
         WokenIn(k.queue, c, l) \subseteq WokenIn(h.queue, d, l),
         Waiting(k, l) # {} =>
           \E u : u \in WokenIn(h.queue, d, l) /\ u \notin WokenIn(k.queue, c, l)
  PROVE  Covered(h, d, l, n + 1)
<1>1. PICK S, T : S = WokenIn(k.queue, c, l) /\ T = WokenIn(h.queue, d, l)
  OBVIOUS
<1>2. /\ IsFiniteSet(T) /\ Cardinality(T) \in Nat
      /\ IsFiniteSet(S) /\ Cardinality(S) \in Nat
  BY <1>1, WokenCount
<1>3. CASE Waiting(k, l) # {}
  <2>1. PICK u : u \in T /\ u \notin S
    BY <1>1, <1>3
  <2>2. /\ IsFiniteSet(S \cup {u})
        /\ Cardinality(S \cup {u}) = Cardinality(S) + 1
    BY <1>2, <2>1, FS_AddElement
  <2>3. Cardinality(S \cup {u}) <= Cardinality(T)
    BY <1>1, <1>2, <2>1, FS_Subset
  <2> QED
    BY <1>1, <1>2, <1>3, <2>2, <2>3 DEF Covered
<1>4. CASE ~(Waiting(k, l) # {})
  BY <1>4 DEF Covered
<1> QED
  BY <1>3, <1>4

LEMMA QuietCovered ==
  ASSUME NEW k, NEW h, NEW c, NEW v \in [Queues -> Int], CallsFit(k, c),
         NoneLost(k, c, v), Quiet(h, k)
  PROVE  CallsFit(h, c) /\ NoneLost(h, c, v)
<1>1. CallsFit(h, c)
  BY ListNames DEF CallsFit, Quiet
<1>2. ASSUME NEW l \in Waits
      PROVE  /\ Waiting(h, l) # {} => Waiting(k, l) # {}
             /\ WokenIn(k.queue, c, l) \subseteq WokenIn(h.queue, c, l)
  BY DEF Quiet, WokenIn, AllThreads
<1>3. ASSUME NEW q \in Queues
      PROVE  /\ Covered(h, c, MtQueue(q), v[q])
             /\ Covered(h, c, FullQueue(q), MsgCount[q] - v[q])
  <2>1. PICK mt, full, m, f : /\ mt = MtQueue(q) /\ full = FullQueue(q)
                              /\ m = v[q] /\ f = MsgCount[q] - v[q]
    OBVIOUS
  <2>2. mt \in Waits /\ full \in Waits /\ m \in Int /\ f \in Int
    BY <2>1, ThreadAssumption DEF Waits
  <2>3. Covered(k, c, mt, m) /\ Covered(k, c, full, f)
    BY <2>1 DEF NoneLost
  <2>4. Covered(h, c, mt, m)
    BY <1>2, <2>2, <2>3, CoveredSame
  <2>5. Covered(h, c, full, f)
    BY <1>2, <2>2, <2>3, CoveredSame
  <2> QED
    BY <2>1, <2>4, <2>5
<1> QED
  BY <1>1, <1>3 DEF NoneLost

\* The thread t has begun to wait in l, and nobody anywhere else.
NowWaits(h, k, t, l) ==
  /\ h.queue[t] = l
  /\ \A u \in AllThreads : u # t => h.queue[u] = k.queue[u]
  /\ \A m \in Waits : m # l /\ Waiting(h, m) # {} => Waiting(k, m) # {}

\* There is no message, or no place, for those that wait in l.
NothingFor(l, v) ==
  \A q \in Queues : /\ l = MtQueue(q) => v[q] <= 0
                    /\ l = FullQueue(q) => MsgCount[q] - v[q] <= 0

\* The thread t waits in l, where nothing is left for it.
LEMMA WaitCovered ==
  ASSUME NEW k, NEW h, NEW c, NEW d, NEW v \in [Queues -> Int],
         CallsFit(k, c), NoneLost(k, c, v),
         NEW t \in Threads, k.queue[t] = RunQueue,
         NEW x \in Calls, c[t] = NoCall \/ c[t] = x, d = With(c, t, x),
         NEW l \in Waits, l = WaitList(x),
         NowWaits(h, k, t, l), NothingFor(l, v)
  PROVE  CallsFit(h, d) /\ NoneLost(h, d, v)
<1> USE DEF NowWaits, NothingFor
<1>1. /\ c \in [AllThreads -> Calls \cup {NoCall}]
      /\ t \in AllThreads /\ d[t] = x
      /\ \A u \in AllThreads : u # t => d[u] = c[u]
      /\ d \in [AllThreads -> Calls \cup {NoCall}]
  BY DEF CallsFit, With, AllThreads
<1>2. x # NoCall
  <2>1. x.op # "none"
    BY DEF Calls
  <2> QED
    BY <2>1 DEF NoCall
<1>3. CallsFit(h, d)
  BY <1>1, <1>2 DEF CallsFit
<1>4. ASSUME NEW m \in Waits, m # l
      PROVE  /\ Waiting(h, m) # {} => Waiting(k, m) # {}
             /\ WokenIn(k.queue, c, m) \subseteq WokenIn(h.queue, d, m)
  <2>1. ASSUME NEW u \in WokenIn(k.queue, c, m)
        PROVE  u \in WokenIn(h.queue, d, m)
    <3>1. /\ u \in Threads /\ k.queue[u] = RunQueue /\ c[u] # NoCall
          /\ m = WaitList(c[u])
      BY <2>1 DEF WokenIn
    <3>2. u # t
      BY <1>4, <3>1
    <3> QED
      BY <1>1, <3>1, <3>2 DEF WokenIn, AllThreads
  <2> QED
    BY <1>4, <2>1
<1>5. ASSUME NEW m \in Waits, NEW n \in Int, Covered(k, c, m, n),
             m = l => n <= 0
      PROVE  Covered(h, d, m, n)
  <2>1. CASE m = l
    <3>1. n <= 0 /\ Cardinality(WokenIn(h.queue, d, m)) \in Nat
      BY <1>5, <2>1, WokenCount
    <3> QED
      BY <3>1 DEF Covered
  <2>2. CASE m # l
    BY <1>4, <1>5, <2>2, CoveredSame
  <2> QED
    BY <2>1, <2>2
<1>6. ASSUME NEW q \in Queues
      PROVE  /\ Covered(h, d, MtQueue(q), v[q])
             /\ Covered(h, d, FullQueue(q), MsgCount[q] - v[q])
  <2>1. PICK mt, full, m, f : /\ mt = MtQueue(q) /\ full = FullQueue(q)
                              /\ m = v[q] /\ f = MsgCount[q] - v[q]
    OBVIOUS
  <2>2. mt \in Waits /\ full \in Waits /\ m \in Int /\ f \in Int
    BY <2>1, ThreadAssumption DEF Waits
  <2>3. Covered(k, c, mt, m) /\ Covered(k, c, full, f)
    BY <2>1 DEF NoneLost
  <2>4. (mt = l => m <= 0) /\ (full = l => f <= 0)
    BY <2>1
  <2>5. Covered(h, d, mt, m)
    BY <1>5, <2>2, <2>3, <2>4
  <2>6. Covered(h, d, full, f)
    BY <1>5, <2>2, <2>3, <2>4
  <2> QED
    BY <2>1, <2>5, <2>6
<1> QED
  BY <1>3, <1>6 DEF NoneLost

\* The thread t ends its call x, which could wait in a, and one that waits in b
\* is woken.
LEMMA WakeCovered ==
  ASSUME NEW k, NEW h, NEW c, NEW d, CallsFit(k, c),
         NEW t \in AllThreads, k.queue[t] = RunQueue,
         NEW x, c[t] = NoCall \/ c[t] = x, d = With(c, t, NoCall),
         NEW a \in Waits, NEW b \in Waits, a # b, a = WaitList(x),
         Wakes(h, k, b)
  PROVE  /\ CallsFit(h, d)
         /\ \A l \in Waits, n \in Int :
              l # a /\ Covered(k, c, l, n) => Covered(h, d, l, n)
         /\ \A n \in Int : Covered(k, c, a, n) => Covered(h, d, a, n - 1)
         /\ \A n \in Int : Covered(k, c, b, n) => Covered(h, d, b, n + 1)
<1>1. /\ c \in [AllThreads -> Calls \cup {NoCall}]
      /\ d[t] = NoCall
      /\ \A u \in AllThreads : u # t => d[u] = c[u]
      /\ d \in [AllThreads -> Calls \cup {NoCall}]
  BY DEF CallsFit, With
<1>2. /\ \A u \in AllThreads : h.queue[u] = k.queue[u] \/ h.queue[u] = RunQueue
      /\ \A l \in Waits : Waiting(h, l) # {} => Waiting(k, l) # {}
      /\ h.queue[t] = RunQueue
  BY DEF Wakes, Quiet
<1>3. CallsFit(h, d)
  BY <1>1, <1>2, ListNames DEF CallsFit
<1>4. ASSUME NEW l \in Waits, NEW u \in WokenIn(k.queue, c, l), u # t
      PROVE  u \in WokenIn(h.queue, d, l)
  BY <1>1, <1>2, <1>4 DEF WokenIn, AllThreads
<1>5. ASSUME NEW l \in Waits, l # a
      PROVE  WokenIn(k.queue, c, l) \subseteq WokenIn(h.queue, d, l)
  <2>1. t \notin WokenIn(k.queue, c, l)
    BY <1>5 DEF WokenIn
  <2> QED
    BY <1>4, <2>1
<1>6. ASSUME NEW l \in Waits, NEW n \in Int, l # a, Covered(k, c, l, n)
      PROVE  Covered(h, d, l, n)
  BY <1>2, <1>5, <1>6, CoveredSame
<1>7. ASSUME NEW n \in Int, Covered(k, c, a, n)
      PROVE  Covered(h, d, a, n - 1)
  <2>1. WokenIn(k.queue, c, a) \ {t} \subseteq WokenIn(h.queue, d, a)
    BY <1>4
  <2> QED
    BY <1>2, <1>7, <2>1, CoveredLess
<1>8. ASSUME NEW n \in Int, Covered(k, c, b, n)
      PROVE  Covered(h, d, b, n + 1)
  <2>1. ASSUME Waiting(k, b) # {}
        PROVE  \E u : u \in WokenIn(h.queue, d, b) /\ u \notin WokenIn(k.queue, c, b)
    <3>1. PICK u \in AllThreads : k.queue[u] = b /\ h.queue[u] = RunQueue
      BY <2>1 DEF Wakes
    <3>2. u # t /\ u \notin WokenIn(k.queue, c, b)
      BY <3>1, ListNames DEF WokenIn
    <3>3. u \in Threads /\ c[u] # NoCall /\ b = WaitList(c[u])
      BY <3>1 DEF CallsFit
    <3>4. u \in WokenIn(h.queue, d, b)
      BY <1>1, <3>1, <3>2, <3>3 DEF WokenIn
    <3> QED
      BY <3>2, <3>4
  <2>2. /\ WokenIn(k.queue, c, b) \subseteq WokenIn(h.queue, d, b)
        /\ Waiting(h, b) # {} => Waiting(k, b) # {}
    BY <1>2, <1>5
  <2> QED
    BY <1>8, <2>1, <2>2, CoveredMore
<1> QED
  BY <1>3, <1>6, <1>7, <1>8

LEMMA DifferentLists ==
  ASSUME NEW q \in Queues
  PROVE  /\ MtQueue(q) \in Waits /\ FullQueue(q) \in Waits
         /\ \A r \in Queues : MtQueue(q) # FullQueue(r)
         /\ \A r \in Queues : MtQueue(q) = MtQueue(r) => q = r
         /\ \A r \in Queues : FullQueue(q) = FullQueue(r) => q = r
BY DEF Waits, MtQueue, FullQueue

\* A message is received from q, and one that waits for a place is woken.
LEMMA TakeCovered ==
  ASSUME NEW k, NEW h, NEW c, NEW d, CallsFit(k, c),
         NEW v \in [Queues -> Int], NoneLost(k, c, v),
         NEW t \in AllThreads, k.queue[t] = RunQueue,
         NEW x, c[t] = NoCall \/ c[t] = x, d = With(c, t, NoCall),
         NEW q \in Queues, WaitList(x) = MtQueue(q),
         Wakes(h, k, FullQueue(q)),
         NEW w, w = With(v, q, v[q] - 1)
  PROVE  CallsFit(h, d) /\ NoneLost(h, d, w)
<1>1. PICK a, b : a = MtQueue(q) /\ b = FullQueue(q)
  OBVIOUS
<1>2. /\ a \in Waits /\ b \in Waits /\ a # b
      /\ a = WaitList(x) /\ Wakes(h, k, b)
  BY <1>1, DifferentLists
<1>3. /\ CallsFit(h, d)
      /\ \A l \in Waits, n \in Int :
           l # a /\ Covered(k, c, l, n) => Covered(h, d, l, n)
      /\ \A n \in Int : Covered(k, c, a, n) => Covered(h, d, a, n - 1)
      /\ \A n \in Int : Covered(k, c, b, n) => Covered(h, d, b, n + 1)
  <2>1. CallsFit(h, d)
    BY <1>2, WakeCovered
  <2>2. \A l \in Waits, n \in Int :
          l # a /\ Covered(k, c, l, n) => Covered(h, d, l, n)
    BY <1>2, WakeCovered
  <2>3. \A n \in Int : Covered(k, c, a, n) => Covered(h, d, a, n - 1)
    BY <1>2, WakeCovered
  <2>4. \A n \in Int : Covered(k, c, b, n) => Covered(h, d, b, n + 1)
    BY <1>2, WakeCovered
  <2> QED
    BY <2>1, <2>2, <2>3, <2>4
<1>4. ASSUME NEW r \in Queues
      PROVE  /\ Covered(h, d, MtQueue(r), w[r])
             /\ Covered(h, d, FullQueue(r), MsgCount[r] - w[r])
  <2>1. PICK mt, full, m, f : /\ mt = MtQueue(r) /\ full = FullQueue(r)
                              /\ m = v[r] /\ f = MsgCount[r] - v[r]
    OBVIOUS
  <2>2. mt \in Waits /\ full \in Waits /\ m \in Int /\ f \in Int
    BY <2>1, ThreadAssumption, DifferentLists
  <2>3. Covered(k, c, mt, m) /\ Covered(k, c, full, f)
    BY <2>1 DEF NoneLost
  <2>4. CASE r = q
    <3>1. mt = a /\ full = b
      BY <1>1, <2>1, <2>4
    <3>2. w[r] = m - 1 /\ MsgCount[r] - w[r] = f + 1
      <4>1. w[r] = m - 1
        BY <2>1, <2>4 DEF With
      <4>2. MsgCount[r] \in Int
        BY ThreadAssumption
      <4> QED
        BY <2>1, <2>2, <4>1, <4>2
    <3>3. Covered(h, d, mt, m - 1) /\ Covered(h, d, full, f + 1)
      BY <1>3, <2>2, <2>3, <3>1
    <3> QED
      BY <2>1, <3>2, <3>3
  <2>5. CASE r # q
    <3>1. mt # a /\ full # a
      BY <1>1, <2>1, <2>5, DifferentLists
    <3>2. w[r] = m /\ MsgCount[r] - w[r] = f
      BY <2>1, <2>5 DEF With
    <3>3. Covered(h, d, mt, m) /\ Covered(h, d, full, f)
      BY <1>3, <2>2, <2>3, <3>1
    <3> QED
      BY <2>1, <3>2, <3>3
  <2> QED
    BY <2>4, <2>5
<1> QED
  BY <1>3, <1>4 DEF NoneLost

\* A message is put in q, and one that waits for a message is woken.
LEMMA PutCovered ==
  ASSUME NEW k, NEW h, NEW c, NEW d, CallsFit(k, c),
         NEW v \in [Queues -> Int], NoneLost(k, c, v),
         NEW t \in AllThreads, k.queue[t] = RunQueue,
         NEW x, c[t] = NoCall \/ c[t] = x, d = With(c, t, NoCall),
         NEW q \in Queues, WaitList(x) = FullQueue(q),
         Wakes(h, k, MtQueue(q)),
         NEW w, w = With(v, q, v[q] + 1)
  PROVE  CallsFit(h, d) /\ NoneLost(h, d, w)
<1>1. PICK a, b : a = FullQueue(q) /\ b = MtQueue(q)
  OBVIOUS
<1>2. /\ a \in Waits /\ b \in Waits /\ a # b
      /\ a = WaitList(x) /\ Wakes(h, k, b)
  BY <1>1, DifferentLists
<1>3. /\ CallsFit(h, d)
      /\ \A l \in Waits, n \in Int :
           l # a /\ Covered(k, c, l, n) => Covered(h, d, l, n)
      /\ \A n \in Int : Covered(k, c, a, n) => Covered(h, d, a, n - 1)
      /\ \A n \in Int : Covered(k, c, b, n) => Covered(h, d, b, n + 1)
  <2>1. CallsFit(h, d)
    BY <1>2, WakeCovered
  <2>2. \A l \in Waits, n \in Int :
          l # a /\ Covered(k, c, l, n) => Covered(h, d, l, n)
    BY <1>2, WakeCovered
  <2>3. \A n \in Int : Covered(k, c, a, n) => Covered(h, d, a, n - 1)
    BY <1>2, WakeCovered
  <2>4. \A n \in Int : Covered(k, c, b, n) => Covered(h, d, b, n + 1)
    BY <1>2, WakeCovered
  <2> QED
    BY <2>1, <2>2, <2>3, <2>4
<1>4. ASSUME NEW r \in Queues
      PROVE  /\ Covered(h, d, MtQueue(r), w[r])
             /\ Covered(h, d, FullQueue(r), MsgCount[r] - w[r])
  <2>1. PICK mt, full, m, f : /\ mt = MtQueue(r) /\ full = FullQueue(r)
                              /\ m = v[r] /\ f = MsgCount[r] - v[r]
    OBVIOUS
  <2>2. mt \in Waits /\ full \in Waits /\ m \in Int /\ f \in Int
    BY <2>1, ThreadAssumption, DifferentLists
  <2>3. Covered(k, c, mt, m) /\ Covered(k, c, full, f)
    BY <2>1 DEF NoneLost
  <2>4. CASE r = q
    <3>1. mt = b /\ full = a
      BY <1>1, <2>1, <2>4
    <3>2. w[r] = m + 1 /\ MsgCount[r] - w[r] = f - 1
      <4>1. w[r] = m + 1
        BY <2>1, <2>4 DEF With
      <4>2. MsgCount[r] \in Int
        BY ThreadAssumption
      <4> QED
        BY <2>1, <2>2, <4>1, <4>2
    <3>3. Covered(h, d, mt, m + 1) /\ Covered(h, d, full, f - 1)
      BY <1>3, <2>2, <2>3, <3>1
    <3> QED
      BY <2>1, <3>2, <3>3
  <2>5. CASE r # q
    <3>1. mt # a /\ full # a
      BY <1>1, <2>1, <2>5, DifferentLists
    <3>2. w[r] = m /\ MsgCount[r] - w[r] = f
      BY <2>1, <2>5 DEF With
    <3>3. Covered(h, d, mt, m) /\ Covered(h, d, full, f)
      BY <1>3, <2>2, <2>3, <3>1
    <3> QED
      BY <2>1, <3>2, <3>3
  <2> QED
    BY <2>4, <2>5
<1> QED
  BY <1>3, <1>4 DEF NoneLost

Counts == [q \in Queues |-> mesgQ[q].validCount]

\* The inductive invariant.
WakeInv ==
  /\ Good(kernel)
  /\ Rings
  /\ CallsFit(kernel, call)
  /\ NoneLost(kernel, call, Counts)

LEMMA InitWakeInv ==
  ASSUME Init
  PROVE  WakeInv
<1>1. \A t \in AllThreads : kernel.state[t] # "WAITING"
                            /\ kernel.queue[t] \in {RunQueue, NoList}
  BY DEF Init
<1>2. call = [t \in AllThreads |-> NoCall]
  BY DEF Init
<1>3. CallsFit(kernel, call)
  BY <1>1, <1>2, ListNames DEF CallsFit
<1>4. NoneLost(kernel, call, Counts)
  BY <1>1 DEF NoneLost, Covered, Waiting
<1> QED
  BY <1>3, <1>4, InitGood, InitRings DEF WakeInv

\* What a step does to the number of messages.
LEMMA CountsOf ==
  ASSUME Rings, NEW q \in Queues
  PROVE  /\ Counts \in [Queues -> Int]
         /\ mesgQ' = Taken(q) => Counts' = With(Counts, q, Counts[q] - 1)
         /\ \A m \in Messages : mesgQ' = Stored(q, m) \/ mesgQ' = Jammed(q, m) =>
              Counts' = With(Counts, q, Counts[q] + 1)
<1>1. DOMAIN mesgQ = Queues
  BY DEF Rings
<1>2. Counts \in [Queues -> Int]
  BY ThreadAssumption DEF Rings, Ring, Counts
<1>3. ASSUME mesgQ' = Taken(q)
      PROVE  Counts' = With(Counts, q, Counts[q] - 1)
  BY <1>1, <1>3 DEF Taken, Counts, With
<1>4. ASSUME NEW m \in Messages, mesgQ' = Stored(q, m) \/ mesgQ' = Jammed(q, m)
      PROVE  Counts' = With(Counts, q, Counts[q] + 1)
  <2>1. CASE mesgQ' = Stored(q, m)
    BY <1>1, <2>1 DEF Stored, Counts, With
  <2>2. CASE mesgQ' = Jammed(q, m)
    BY <1>1, <2>2 DEF Jammed, Counts, With
  <2> QED
    BY <1>4, <2>1, <2>2
<1> QED
  BY <1>2, <1>3, <1>4

LEMMA NextWakeInv ==
  ASSUME WakeInv, [Next]_vars
  PROVE  WakeInv'
<1>1. PICK k, h, c, d, v, w :
        /\ k = kernel /\ h = kernel' /\ c = call /\ d = call'
        /\ v = Counts /\ w = Counts'
  OBVIOUS
<1>2. /\ Good(k) /\ Rings /\ CallsFit(k, c) /\ NoneLost(k, c, v)
      /\ Good(h)
  BY <1>1, NextGood DEF WakeInv
<1>3. Rings'
  <2>1. CASE mesgQ' = mesgQ
    BY <1>2, <2>1 DEF Rings
  <2>2. CASE mesgQ' # mesgQ
    BY <1>2, <2>2, StepChanges, ChangesRings DEF vars
  <2> QED
    BY <2>1, <2>2
<1>4. /\ KernelType(k) /\ Sane(k) /\ k.running \in AllThreads
      /\ k.queue \in [AllThreads -> Lists \cup {NoList}]
      /\ k.queue[k.running] = RunQueue
      /\ c \in [AllThreads -> Calls \cup {NoCall}]
  BY <1>2, KernelParts DEF Good, Sane, Core, Placed, RunsAlone, CallsFit
<1>5. v \in [Queues -> Int]
  BY <1>1, <1>2, ThreadAssumption DEF Rings, Ring, Counts
<1>6. \A t \in Threads : t \in AllThreads /\ t # Idle
  BY ThreadAssumption DEF AllThreads
<1> DEFINE Fits == CallsFit(h, d) /\ NoneLost(h, d, w)
<1>7. ASSUME Quiet(h, k), UNCHANGED <<mesgQ, call>>
      PROVE  Fits
  <2>1. d = c /\ w = v
    BY <1>1, <1>7 DEF Counts
  <2> QED
    BY <1>2, <1>5, <1>7, <2>1, QuietCovered
<1>8. ASSUME NEW l \in Waits, NEW x \in Calls, WaitIn(l, x), Calling(x),
             l = WaitList(x), NothingFor(l, v)
      PROVE  Fits
  <2>1. PICK t : t = k.running
    OBVIOUS
  <2>2. /\ t \in Threads /\ t # Idle /\ (c[t] = NoCall \/ c[t] = x)
        /\ h = Wait(k, l) /\ d = With(c, t, x) /\ w = v
    BY <1>1, <1>6, <1>8, <2>1 DEF WaitIn, Calling, Running, With, Counts
  <2>3. Sane(k) /\ k.running # Idle /\ h = Wait(k, l)
    BY <1>4, <2>1, <2>2
  <2>4. h.queue = [k.queue EXCEPT ![k.running] = l]
    BY <2>3, WaitOf
  <2>5. KeptBut(h, k, k.running)
    BY <2>3, WaitOf
  <2>6. h.queue[t] = l /\ \A u \in AllThreads : u # t => h.queue[u] = k.queue[u]
    BY <1>4, <2>1, <2>4
  <2>7. \A m \in Waits : m # l /\ Waiting(h, m) # {} => Waiting(k, m) # {}
    BY <2>1, <2>5, <2>6 DEF Waiting, KeptBut
  <2> QED
    <3>1. /\ k.queue[t] = RunQueue /\ t \in Threads
          /\ c[t] = NoCall \/ c[t] = x
          /\ d = With(c, t, x) /\ l = WaitList(x)
      BY <1>4, <1>8, <2>1, <2>2
    <3>2. NowWaits(h, k, t, l)
      BY <2>6, <2>7 DEF NowWaits
    <3>3. CallsFit(h, d) /\ NoneLost(h, d, v)
      BY <1>2, <1>5, <1>8, <3>1, <3>2, WaitCovered
    <3> QED
      BY <2>2, <3>3
<1>9. ASSUME YieldThread
      PROVE  Fits
  <2>1. h = EnqueueAndYield(WithState(k, k.running, "RUNNABLE"), RunQueue)
    BY <1>1, <1>9 DEF YieldThread, WithState, Running
  <2>2. Quiet(h, k)
    BY <1>2, <2>1, YieldThreadOf, StaysQuiet
  <2> QED
    BY <1>7, <1>9, <2>2 DEF YieldThread, ThreadCall
<1>10. ASSUME NEW t \in Threads, Start(t)
       PROVE  Fits
  <2>1. h = StartThread(k, t) /\ k.state[t] = "STOPPED"
    BY <1>1, <1>10 DEF Start
  <2>2. t \in AllThreads /\ t # Idle /\ t # k.running
    BY <1>4, <1>6, <2>1 DEF Sane, RunsAlone
  <2>3. Off(k) \cup {t} = Off(k)
    BY <2>1, <2>2 DEF Off
  <2>4. Moving(k, t)
    BY <1>4, <2>2, <2>3 DEF Sane, Moving
  <2>5. PICK u \in AllThreads : Restarts(h, k, t, u)
    BY <2>1, <2>2, <2>4, StartOf
  <2>6. Quiet(h, k)
    BY <1>4, <2>2, <2>5, StartQuiet
  <2> QED
    BY <1>7, <1>10, <2>6 DEF Start
<1>11. ASSUME NEW t \in Threads, StopThread(t)
       PROVE  Fits
  <2>1. \/ t = k.running /\ h = DispatchThread(WithState(k, t, "STOPPED"))
        \/ /\ k.state[t] \in {"RUNNABLE", "WAITING"}
           /\ h = DequeueThread(WithState(k, t, "STOPPED"), t)
    BY <1>1, <1>11 DEF StopThread, WithState, Running
  <2>2. CASE t = k.running /\ h = DispatchThread(WithState(k, t, "STOPPED"))
    <3>1. Quiet(h, k)
      BY <1>2, <1>6, <2>2, StopSelfOf, StaysQuiet
    <3> QED
      BY <1>7, <1>11, <3>1 DEF StopThread, ThreadCall
  <2>3. CASE /\ k.state[t] \in {"RUNNABLE", "WAITING"}
             /\ h = DequeueThread(WithState(k, t, "STOPPED"), t)
    <3>1. /\ h.queue = k.queue
          /\ \A u \in AllThreads : h.state[u] \in {k.state[u], "STOPPED"}
      BY <1>2, <1>6, <2>3, StopOtherOf
    <3>2. Quiet(h, k)
      BY <3>1, StopQuiet
    <3> QED
      BY <1>7, <1>11, <3>2 DEF StopThread, ThreadCall
  <2> QED
    BY <2>1, <2>2, <2>3
<1>12. ASSUME NEW t \in Threads, NEW p \in Priorities, SetThreadPri(t, p)
       PROVE  Fits
  <2>1. PICK g : g = WithPriority(k, t, p)
    OBVIOUS
  <2>2. PICK m : m = IF t # k.running /\ g.state[t] # "STOPPED"
                     THEN EnqueueThread(DequeueThread(g, t), g.queue[t], t)
                     ELSE g
    OBVIOUS
  <2>3. h = Preempt(m)
    BY <1>1, <1>12, <2>1, <2>2 DEF SetThreadPri, WithPriority, Running
  <2>4. p \in Nat /\ t \in AllThreads
    BY <1>6, ThreadAssumption
  <2>5. h.queue = k.queue /\ StatesKept(h, k)
    BY <1>2, <2>1, <2>2, <2>3, <2>4, SetPriOf
  <2>6. Quiet(h, k)
    BY <2>5, StaysQuiet
  <2> QED
    BY <1>7, <1>12, <2>6 DEF SetThreadPri, ThreadCall
<1>13. ASSUME NEW q \in Queues, RecvMesg(q)
       PROVE  Fits
  <2>1. PICK x : x = [op |-> "recv", mq |-> q]
    OBVIOUS
  <2>2. x \in Calls /\ WaitList(x) = MtQueue(q)
    BY <2>1 DEF Calls, WaitList
  <2>3. /\ Calling(x)
        /\ \/ IsEmpty(q) /\ WaitIn(MtQueue(q), x)
           \/ mesgQ' = Taken(q) /\ h = WakeOne(k, FullQueue(q)) /\ Return
    BY <1>1, <1>13, <2>1 DEF RecvMesg
  <2>4. CASE IsEmpty(q) /\ WaitIn(MtQueue(q), x)
    <3>1. v[q] <= 0
      BY <1>1, <2>4 DEF IsEmpty, Counts
    <3>2. PICK l : l = MtQueue(q)
      OBVIOUS
    <3>3. l \in Waits /\ l = WaitList(x) /\ WaitIn(l, x) /\ NothingFor(l, v)
      BY <2>2, <2>4, <3>1, <3>2, DifferentLists DEF NothingFor
    <3> QED
      BY <1>8, <2>2, <2>3, <3>3
  <2>5. CASE mesgQ' = Taken(q) /\ h = WakeOne(k, FullQueue(q)) /\ Return
    <3>1. PICK t : t = k.running
      OBVIOUS
    <3>2. /\ t \in AllThreads /\ k.queue[t] = RunQueue
          /\ c[t] = NoCall \/ c[t] = x
          /\ d = With(c, t, NoCall)
      BY <1>1, <1>4, <2>3, <2>5, <3>1 DEF Calling, Return, Running, With
    <3>3. Wakes(h, k, FullQueue(q))
      BY <1>2, <2>5, WakeWakes, DifferentLists
    <3>4. w = With(v, q, v[q] - 1)
      BY <1>1, <1>2, <2>5, CountsOf
    <3> QED
      BY <1>2, <1>5, <2>2, <3>2, <3>3, <3>4, TakeCovered
  <2> QED
    BY <2>3, <2>4, <2>5
<1>14. ASSUME NEW q \in Queues, NEW m \in Messages, NEW x,
              x = [op |-> "send", mq |-> q, msg |-> m]
                \/ x = [op |-> "jam", mq |-> q, msg |-> m]
       PROVE  x \in Calls /\ WaitList(x) = FullQueue(q)
  BY <1>14 DEF Calls, WaitList
<1>15. ASSUME NEW q \in Queues, NEW m \in Messages, NEW x,
              x \in Calls, WaitList(x) = FullQueue(q),
              c[k.running] = NoCall \/ c[k.running] = x,
              mesgQ' = Stored(q, m) \/ mesgQ' = Jammed(q, m),
              Wakes(h, k, MtQueue(q)),
              d = With(c, k.running, NoCall)
       PROVE  Fits
  <2>1. w = With(v, q, v[q] + 1)
    BY <1>1, <1>2, <1>15, CountsOf
  <2>2. PICK t : t = k.running
    OBVIOUS
  <2>3. /\ t \in AllThreads /\ k.queue[t] = RunQueue
        /\ c[t] = NoCall \/ c[t] = x
        /\ d = With(c, t, NoCall)
    BY <1>4, <1>15, <2>2
  <2> QED
    BY <1>2, <1>5, <1>15, <2>1, <2>3, PutCovered
<1>16. ASSUME NEW q \in Queues, NEW m \in Messages,
              SendMesg(q, m) \/ JamMesg(q, m)
       PROVE  Fits
  <2>1. PICK x : /\ x = [op |-> "send", mq |-> q, msg |-> m]
                      \/ x = [op |-> "jam", mq |-> q, msg |-> m]
                 /\ Calling(x)
                 /\ \/ IsFull(q) /\ WaitIn(FullQueue(q), x)
                    \/ /\ mesgQ' = Stored(q, m) \/ mesgQ' = Jammed(q, m)
                       /\ h = WakeOne(k, MtQueue(q))
                       /\ Return
    <3>1. CASE SendMesg(q, m)
      BY <1>1, <3>1 DEF SendMesg
    <3>2. CASE JamMesg(q, m)
      BY <1>1, <3>2 DEF JamMesg
    <3> QED
      BY <1>16, <3>1, <3>2
  <2>2. x \in Calls /\ WaitList(x) = FullQueue(q)
    BY <1>14, <2>1
  <2>3. CASE IsFull(q) /\ WaitIn(FullQueue(q), x)
    <3>1. MsgCount[q] - v[q] <= 0
      <4>1. mesgQ[q].validCount >= MsgCount[q] /\ v[q] = mesgQ[q].validCount
        BY <1>1, <2>3 DEF IsFull, Counts
      <4>2. v[q] \in Int /\ MsgCount[q] \in Int
        BY <1>5, ThreadAssumption
      <4> QED
        BY <4>1, <4>2
    <3>2. PICK l : l = FullQueue(q)
      OBVIOUS
    <3>3. l \in Waits /\ l = WaitList(x) /\ WaitIn(l, x) /\ NothingFor(l, v)
      BY <2>2, <2>3, <3>1, <3>2, DifferentLists DEF NothingFor
    <3> QED
      BY <1>8, <2>1, <2>2, <3>3
  <2>4. CASE /\ mesgQ' = Stored(q, m) \/ mesgQ' = Jammed(q, m)
             /\ h = WakeOne(k, MtQueue(q))
             /\ Return
    <3>1. /\ c[k.running] = NoCall \/ c[k.running] = x
          /\ d = With(c, k.running, NoCall)
      BY <1>1, <2>1, <2>4 DEF Calling, Return, Running, With
    <3>2. Wakes(h, k, MtQueue(q))
      BY <1>2, <2>4, WakeWakes, DifferentLists
    <3> QED
      BY <1>15, <2>2, <2>4, <3>1, <3>2
  <2> QED
    BY <2>1, <2>3, <2>4
<1>17. ASSUME NEW q \in Queues, NEW m \in Messages, Event(q, m)
       PROVE  Fits
  <2>1. PICK l \in Waits : l = MtQueue(q)
    BY DifferentLists
  <2>2. h = IF k.list[l] = <<>> THEN k
            ELSE Preempt(EnqueueThread(PopThread(k, l), RunQueue,
                                       Head(k.list[l])))
    BY <1>1, <1>17, <2>1 DEF Event
  <2>3. Wakes(h, k, MtQueue(q))
    BY <1>2, <2>1, <2>2, EventWakes
  <2>4. c[k.running] = NoCall /\ d = c /\ mesgQ' = Stored(q, m)
    BY <1>1, <1>17 DEF Event, Interruptible, Running
  <2>5. d = With(c, k.running, NoCall)
    BY <1>4, <2>4 DEF With
  <2>6. PICK x : x = [op |-> "send", mq |-> q, msg |-> m]
    OBVIOUS
  <2>7. x \in Calls /\ WaitList(x) = FullQueue(q)
    BY <1>14, <2>6
  <2> QED
    BY <1>15, <2>3, <2>4, <2>5, <2>7
<1>18. ASSUME UNCHANGED vars
       PROVE  Fits
  <2>1. Quiet(h, k)
    BY <1>1, <1>18 DEF vars, Quiet
  <2> QED
    BY <1>7, <1>18, <2>1 DEF vars
<1> HIDE DEF Fits
<1>19. Fits
  <2>1. CASE Next
    <3>1. CASE \E t \in Threads : Start(t) \/ StopThread(t)
      BY <1>10, <1>11, <3>1
    <3>2. CASE \E t \in Threads, p \in Priorities : SetThreadPri(t, p)
      BY <1>12, <3>2
    <3>3. CASE \E q \in Queues : RecvMesg(q)
      BY <1>13, <3>3
    <3>4. CASE \E q \in Queues, m \in Messages :
                 SendMesg(q, m) \/ JamMesg(q, m) \/ Event(q, m)
      BY <1>16, <1>17, <3>4
    <3> QED
      BY <1>9, <2>1, <3>1, <3>2, <3>3, <3>4 DEF Next
  <2> QED
    BY <1>18, <2>1
<1> QED
  BY <1>1, <1>2, <1>3, <1>19 DEF Fits, WakeInv

\* No wakeup is lost: a thread waits for a message, or for a place, only if
\* each one there is left to a thread that was woken for it, for any number of
\* threads, queues of any length and whatever is stopped and started meanwhile.
THEOREM NoWakeupIsLost == Spec => []NoLostWakeup
<1>1. Init => WakeInv
  BY InitWakeInv
<1>2. WakeInv /\ [Next]_vars => WakeInv'
  BY NextWakeInv
<1>3. WakeInv => NoLostWakeup
  <2> SUFFICES ASSUME WakeInv, NEW q \in Queues
               PROVE  /\ kernel.list[MtQueue(q)] # <<>> =>
                           mesgQ[q].validCount <= Cardinality(Woken(MtQueue(q)))
                      /\ kernel.list[FullQueue(q)] # <<>> =>
                           Free(q) <= Cardinality(Woken(FullQueue(q)))
    BY DEF NoLostWakeup
  <2>1. Sane(kernel) /\ MtQueue(q) \in Waits /\ FullQueue(q) \in Waits
    BY DifferentLists DEF WakeInv, Good
  <2>2. /\ Waiting(kernel, MtQueue(q)) # {} <=> kernel.list[MtQueue(q)] # <<>>
    BY <2>1, WaitersListed
  <2>3. Waiting(kernel, FullQueue(q)) # {} <=> kernel.list[FullQueue(q)] # <<>>
    BY <2>1, WaitersListed
  <2>4. \A l : Woken(l) = WokenIn(kernel.queue, call, l)
    BY DEF Woken, WokenIn, WaitList
  <2>5. Free(q) = MsgCount[q] - Counts[q] /\ mesgQ[q].validCount = Counts[q]
    BY DEF Free, Counts
  <2> QED
    BY <2>2, <2>3, <2>4, <2>5 DEF WakeInv, NoneLost, Covered
<1> QED
  BY <1>1, <1>2, <1>3, PTL DEF Spec

\* Each thread is in a state and in a list that it can be in, each buffer holds
\* messages and no more than it has places.
THEOREM TypeCorrect == Spec => []TypeOK
<1>1. Init => WakeInv
  BY InitWakeInv
<1>2. WakeInv /\ [Next]_vars => WakeInv'
  BY NextWakeInv
<1>3. WakeInv => TypeOK
  <2> SUFFICES ASSUME WakeInv
               PROVE  TypeOK
    OBVIOUS
  <2>1. KernelType(kernel)
    BY DEF WakeInv, Good, Sane, Core, Placed
  <2>2. \A q \in Queues : mesgQ[q] \in Ring(MsgCount[q])
    BY DEF WakeInv, Rings
  <2>3. call \in [AllThreads -> Calls \cup {NoCall}]
    BY DEF WakeInv, CallsFit
  <2> QED
    BY <2>1, <2>2, <2>3 DEF TypeOK, KernelType, States, Ring
<1> QED
  BY <1>1, <1>2, <1>3, PTL DEF Spec
=============================================================================
