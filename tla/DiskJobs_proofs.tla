--------------------------- MODULE DiskJobs_proofs ---------------------------
(***************************************************************************)
(* What has been posted for the service thread is neither overwritten nor  *)
(* lost, for rings and queues of any length and any number of operations.  *)
(***************************************************************************)
EXTENDS DiskJobs, TLAPS

-----------------------------------------------------------------------------
(* The invariant of the ring.                                              *)

Dist(a, b) == (b + RingLen - a) % RingLen

\* The slots that are announced and not yet taken.
Waiting(s) == Dist(rd, s) < Dist(rd, wr)
InHand == svc \in {"transfer", "answer"}

Posters ==
  \A p \in Owner :
    /\ nr[p] \in 0..Burst(p) /\ replies[p] \in 0..nr[p]
    /\ pc[p] \in {"away", "mfs"} => nr[p] = 0
    /\ pc[p] \in {"look", "post"} => nr[p] < Burst(p)
    /\ pc[p] = "wait" => nr[p] = Burst(p)

\* The messages name the slots that wait, in the ring's order.
Announced ==
  /\ \A i \in 1..Len(queue) : queue[i] # NULL => Waiting(queue[i])
  /\ \A i, j \in 1..Len(queue) :
       i < j /\ queue[i] # NULL /\ queue[j] # NULL =>
         Dist(rd, queue[i]) < Dist(rd, queue[j])
  /\ \A s \in Slots : Waiting(s) => \E i \in 1..Len(queue) : queue[i] = s

\* A slot that waits, or that is in hand, has words of one who waits.
Due(c, posted, answered) ==
  c.owner \in Owner /\ answered[c.owner] < c.nr /\ c.nr <= posted[c.owner]
Earlier(c, d) == c.owner = d.owner => c.nr < d.nr
Words ==
  /\ \A s \in Slots : Waiting(s) => Due(ring[s], nr, replies) /\ ring[s] \in asked
  /\ \A s, t \in Slots : Waiting(s) /\ Waiting(t) /\ Dist(rd, s) < Dist(rd, t) =>
       Earlier(ring[s], ring[t])
  /\ InHand => /\ Due(ring[hand], nr, replies) /\ ring[hand] = doing
               /\ \A s \in Slots : Waiting(s) => Earlier(ring[hand], ring[s])
  /\ svc = "transfer" => doing \in asked

\* The slot in hand is the one before the first that waits, and the transfers
\* under way are too few to come round to it.
Outstanding == (nr["game"] - replies["game"]) + (nr["audio"] - replies["audio"])
Gap ==
  /\ InHand => rd = Next1(hand)
  /\ Dist(rd, wr) + (IF InHand THEN 1 ELSE 0) <= Outstanding
  /\ \A p \in Owner : pc[p] = "post" /\ scene # "shared" => ~Full
  /\ scene = "full" => nr["game"] = 0 /\ pc["game"] \in {"away", "mfs"}
  /\ scene = "quiet" => pc["audio"] = "away"

RingInv == TypeOK /\ Posters /\ Announced /\ Words /\ Gap

-----------------------------------------------------------------------------
(* The invariant of the operations.                                        *)

HasNull == \E i \in 1..Len(queue) : queue[i] = NULL
Again == result \in {2, 4}
Making(o) == svc \in {"file", "try"} /\ op = o

\* A NULL is alone in the queue.
NullAlone ==
  HasNull =>
    /\ queue = <<NULL>> /\ svc \in {"receive", "file"} /\ rec \in Op
    /\ state[rec] = "posted"
    /\ svc = "file" => rec \in Menu /\ awaits = rec /\ rec # op /\ scene = "quiet"

\* The game is about nothing else while it waits for an operation.
GameAwaits ==
  /\ awaits # None => pc["game"] \in {"away", "mfs"}
  /\ awaits = None => pc["game"] # "mfs"
  /\ awaits \notin Save
  /\ awaits \in Load <=> pc["game"] = "mfs"
  /\ \A o \in Load \cup Menu : state[o] # "idle" => awaits = o
  /\ awaits # None => state[awaits] # "idle"

Trying ==
  /\ Again => /\ svc = "receive" /\ rec \in Menu /\ awaits = rec
              /\ state[rec] = "posted" /\ scene = "quiet"
  /\ svc = "file" => op \in Load \cup Save /\ state[op] = "posted"
  /\ svc = "try" => op \in Menu /\ rec = op /\ state[op] = "posted" /\ awaits = op
  /\ taken <=> svc \in {"file", "try"} \/ Again
  /\ taken \/ svc = "transfer" => busy
  /\ notice => awaits \in Menu /\ state[awaits] = "posted"

\* An answer on gMFSMesgQ that is older than the load is gone when the game looks.
Answers ==
  awaits \in Load /\ state[awaits] = "posted" => mfsQ = None \/ HasNull

JobsInv == NullAlone /\ GameAwaits /\ Trying /\ Answers /\ PostedIsKept

IInv == RingInv /\ JobsInv

-----------------------------------------------------------------------------
(* Arithmetic of the ring.                                                 *)

LEMMA Remainder ==
  ASSUME NEW n \in Nat \ {0}, NEW x \in Nat, x < 2 * n
  PROVE  x % n = IF x < n THEN x ELSE x - n
OBVIOUS

LEMMA DistIs ==
  ASSUME NEW a \in Slots, NEW b \in Slots
  PROVE  /\ Dist(a, b) = IF a <= b THEN b - a ELSE b - a + RingLen
         /\ Dist(a, b) \in Nat /\ Dist(a, b) < RingLen
<1>1. PICK n \in Nat \ {0} : n = RingLen
  BY DiskAssumption
<1>2. a \in Nat /\ b \in Nat /\ a < n /\ b < n
  BY <1>1 DEF Slots
<1>3. PICK x \in Nat : x = b + n - a /\ x < 2 * n
  BY <1>2
<1>4. x % n = IF x < n THEN x ELSE x - n
  BY <1>3, Remainder
<1>5. Dist(a, b) = x % n
  BY <1>1, <1>3 DEF Dist
<1> QED
  BY <1>1, <1>2, <1>3, <1>4, <1>5

LEMMA NextIs ==
  ASSUME NEW p \in Slots
  PROVE  /\ Next1(p) = IF p = RingLen - 1 THEN 0 ELSE p + 1
         /\ Next1(p) \in Slots
<1>1. PICK n \in Nat : n = RingLen /\ n > 2
  BY DiskAssumption
<1>2. p \in Nat /\ p < n
  BY <1>1 DEF Slots
<1>3. PICK x \in Nat : x = p + 1 /\ x < 2 * n
  BY <1>1, <1>2
<1>4. x % n = IF x < n THEN x ELSE x - n
  BY <1>1, <1>3, Remainder
<1>5. Next1(p) = x % n
  BY <1>1, <1>3 DEF Next1
<1> QED
  BY <1>1, <1>2, <1>3, <1>4, <1>5 DEF Slots

LEMMA SameDist ==
  ASSUME NEW f \in Slots, NEW p \in Slots, NEW r \in Slots,
         Dist(f, p) = Dist(f, r)
  PROVE  p = r
<1>1. PICK n \in Nat : n = RingLen
  BY DiskAssumption
<1>2. f \in 0..n - 1 /\ p \in 0..n - 1 /\ r \in 0..n - 1
  BY <1>1 DEF Slots
<1>3. Dist(f, p) = IF f <= p THEN p - f ELSE p - f + n
  BY <1>1, DistIs
<1>4. Dist(f, r) = IF f <= r THEN r - f ELSE r - f + n
  BY <1>1, DistIs
<1>5. PICK d : d = Dist(f, p) /\ d = Dist(f, r)
  OBVIOUS
<1>6. p = IF f <= p THEN d + f ELSE d + f - n
  BY <1>2, <1>3, <1>5
<1>7. r = IF f <= r THEN d + f ELSE d + f - n
  BY <1>2, <1>4, <1>5
<1>8. d \in Nat
  BY <1>5, DistIs
<1> QED
  BY <1>2, <1>6, <1>7, <1>8

\* One further, and one nearer.
LEMMA Further ==
  ASSUME NEW f \in Slots, NEW p \in Slots,
         Dist(f, p) # RingLen - 1
  PROVE  Dist(f, Next1(p)) = Dist(f, p) + 1
<1>1. PICK n \in Nat : n = RingLen /\ n > 2
  BY DiskAssumption
<1>2. f \in 0..n - 1 /\ p \in 0..n - 1
  BY <1>1 DEF Slots
<1>3. PICK r \in Slots : r = Next1(p) /\ r = IF p = n - 1 THEN 0 ELSE p + 1
  BY <1>1, NextIs
<1>4. Dist(f, p) = IF f <= p THEN p - f ELSE p - f + n
  BY <1>1, DistIs
<1>5. Dist(f, r) = IF f <= r THEN r - f ELSE r - f + n
  BY <1>1, DistIs
<1> QED
  BY <1>1, <1>2, <1>3, <1>4, <1>5

LEMMA Nearer ==
  ASSUME NEW f \in Slots, NEW p \in Slots, p # f
  PROVE  Dist(Next1(f), p) = Dist(f, p) - 1 /\ Dist(f, p) >= 1
<1>1. PICK n \in Nat : n = RingLen /\ n > 2
  BY DiskAssumption
<1>2. f \in 0..n - 1 /\ p \in 0..n - 1
  BY <1>1 DEF Slots
<1>3. PICK g \in Slots : g = Next1(f) /\ g = IF f = n - 1 THEN 0 ELSE f + 1
  BY <1>1, NextIs
<1>4. Dist(f, p) = IF f <= p THEN p - f ELSE p - f + n
  BY <1>1, DistIs
<1>5. Dist(g, p) = IF g <= p THEN p - g ELSE p - g + n
  BY <1>1, DistIs
<1> QED
  BY <1>1, <1>2, <1>3, <1>4, <1>5

\* The slot before the first one is the farthest from it.
LEMMA Farthest ==
  ASSUME NEW p \in Slots
  PROVE  Dist(Next1(p), p) = RingLen - 1 /\ Dist(p, p) = 0
<1>1. PICK n \in Nat : n = RingLen /\ n > 2
  BY DiskAssumption
<1>2. p \in 0..n - 1
  BY <1>1 DEF Slots
<1>3. PICK r \in Slots : r = Next1(p) /\ r = IF p = n - 1 THEN 0 ELSE p + 1
  BY <1>1, NextIs
<1>4. Dist(r, p) = IF r <= p THEN p - r ELSE p - r + n
  BY <1>1, DistIs
<1>5. Dist(p, p) = 0
  BY <1>2, DistIs
<1> QED
  BY <1>1, <1>2, <1>3, <1>4, <1>5

LEMMA FullIs ==
  ASSUME rd \in Slots, wr \in Slots
  PROVE  Full <=> Dist(rd, wr) = RingLen - 1
<1>1. Full => Dist(rd, wr) = RingLen - 1
  BY Farthest DEF Full
<1>2. ASSUME Dist(rd, wr) = RingLen - 1
      PROVE  rd = Next1(wr)
  <2>1. PICK n \in Nat : n = RingLen /\ n > 2
    BY DiskAssumption
  <2>2. rd \in 0..n - 1 /\ wr \in 0..n - 1
    BY <2>1 DEF Slots
  <2>3. Dist(rd, wr) = IF rd <= wr THEN wr - rd ELSE wr - rd + n
    BY <2>1, DistIs
  <2>4. Next1(wr) = IF wr = n - 1 THEN 0 ELSE wr + 1
    BY <2>1, NextIs
  <2> QED
    BY <1>2, <2>1, <2>2, <2>3, <2>4
<1> QED
  BY <1>1, <1>2 DEF Full

-----------------------------------------------------------------------------
(* Types.                                                                  *)

LEMMA BurstIs ==
  ASSUME TypeOK
  PROVE  /\ Burst("game") = 1 /\ Burst("audio") \in Nat
         /\ scene = "quiet" => Burst("audio") = 0
         /\ scene = "shared" => Burst("audio") = RingLen - 2
BY DiskAssumption DEF TypeOK, Scenes, Burst, AudioBurst

LEMMA QueueTypes ==
  ASSUME TypeOK
  PROVE  /\ queue # <<>> => /\ Tail(queue) \in Seq(Slots \cup {NULL})
                            /\ Len(Tail(queue)) <= QueueLen
                            /\ Head(queue) \in Slots \cup {NULL}
         /\ \A m \in Slots \cup {NULL} : Len(queue) < QueueLen =>
              /\ Append(queue, m) \in Seq(Slots \cup {NULL})
              /\ Len(Append(queue, m)) <= QueueLen
BY DiskAssumption DEF TypeOK

LEMMA PostTypes ==
  ASSUME TypeOK, Posters, NEW p \in Owner, Post(p)
  PROVE  TypeOK'
<1>1. PICK n : n = nr[p] + 1
  OBVIOUS
<1>2. /\ scene' = scene /\ nr' = [nr EXCEPT ![p] = n]
      /\ ring' = [ring EXCEPT ![wr] = [owner |-> p, nr |-> n]]
      /\ wr' = Next1(wr) /\ queue' = Append(queue, wr) /\ Len(queue) < QueueLen
      /\ asked' = asked \cup {[owner |-> p, nr |-> n]}
      /\ \/ pc' = [pc EXCEPT ![p] = "wait"] \/ pc' = [pc EXCEPT ![p] = "look"]
      /\ UNCHANGED <<rd, replies, recVars, busy, svc, hand, doing>>
  BY <1>1 DEF Post
<1>3. n \in 1..RingLen + 1
  <2>1. pc[p] = "post" /\ nr[p] < Burst(p) /\ Burst(p) \in Nat /\ nr[p] \in Nat
    BY BurstIs DEF Post, Posters, Owner
  <2>2. Burst(p) <= RingLen + 1
    BY DiskAssumption DEF TypeOK, Scenes, Burst, AudioBurst
  <2> QED
    BY <1>1, <2>1, <2>2, DiskAssumption
<1>4. [owner |-> p, nr |-> n] \in Copies
  BY <1>3 DEF Copies
<1>5. wr' \in Slots /\ wr \in Slots
  BY <1>2, NextIs DEF TypeOK
<1>6. ring' \in [Slots -> Copies \cup {NoCopy}] /\ asked' \subseteq Copies
  BY <1>2, <1>4, <1>5 DEF TypeOK
<1>7. queue' \in Seq(Slots \cup {NULL}) /\ Len(queue') <= QueueLen
  BY <1>2, <1>5, QueueTypes
<1>8. nr' \in [Owner -> 0..RingLen + 1]
  BY <1>2, <1>3, DiskAssumption DEF TypeOK
<1>9. pc' \in [Owner -> {"away", "look", "post", "wait", "mfs"}]
  BY <1>2 DEF TypeOK
<1> QED
  BY <1>2, <1>5, <1>6, <1>7, <1>8, <1>9 DEF TypeOK, recVars

LEMMA Types ==
  ASSUME TypeOK, Posters, [Next]_vars
  PROVE  TypeOK'
<1>1. ASSUME NEW p \in Owner, Wake(p) \/ Look(p)
      PROVE  TypeOK'
  <2>1. pc' \in [Owner -> {"away", "look", "post", "wait", "mfs"}]
    BY <1>1 DEF TypeOK, Wake, Look
  <2>2. UNCHANGED <<scene, ringVars, recVars, queue, busy, svc, hand, doing>>
    BY <1>1 DEF Wake, Look
  <2> QED
    BY <2>1, <2>2 DEF TypeOK, ringVars, recVars
<1>2. ASSUME NEW p \in Owner, Post(p)
      PROVE  TypeOK'
  BY <1>2, PostTypes
<1>3. ASSUME NEW p \in Owner, Collect(p)
      PROVE  TypeOK'
  BY <1>3, DiskAssumption DEF TypeOK, Collect, recVars
<1>4. ASSUME NEW o \in Op, Operate(o)
      PROVE  TypeOK'
  <2>1. queue' \in Seq(Slots \cup {NULL}) /\ Len(queue') <= QueueLen
    <3>1. \/ queue' = queue
          \/ queue' = Append(queue, NULL) /\ Len(queue) < QueueLen
      BY <1>4 DEF Operate
    <3>2. CASE queue' = queue
      BY <3>2 DEF TypeOK
    <3>3. CASE queue' = Append(queue, NULL) /\ Len(queue) < QueueLen
      BY <3>3, QueueTypes
    <3> QED
      BY <3>1, <3>2, <3>3
  <2>2. /\ rec' \in Op \cup {None} /\ notice' \in BOOLEAN /\ awaits' \in Op \cup {None}
        /\ state' \in [Op -> {"idle", "posted", "done"}]
    BY <1>4 DEF Operate, TypeOK
  <2>3. pc' \in [Owner -> {"away", "look", "post", "wait", "mfs"}]
    BY <1>4 DEF Operate, TypeOK
  <2>4. UNCHANGED <<scene, ringVars, op, result, taken, recheck, mfsQ, busy,
                    svc, hand, doing>>
    BY <1>4 DEF Operate
  <2> QED
    BY <2>1, <2>2, <2>3, <2>4 DEF TypeOK, ringVars
<1>5. CASE MfsReturn \/ MenuGoesOn
  <2>1. /\ state' \in [Op -> {"idle", "posted", "done"}]
        /\ pc' \in [Owner -> {"away", "look", "post", "wait", "mfs"}]
        /\ awaits' = None /\ mfsQ' \in Op \cup {None}
    BY <1>5 DEF TypeOK, MfsReturn, MenuGoesOn
  <2>2. UNCHANGED <<scene, ringVars, rec, op, notice, result, taken, recheck,
                    queue, busy, svc, hand, doing>>
    BY <1>5 DEF MfsReturn, MenuGoesOn
  <2> QED
    BY <2>1, <2>2 DEF TypeOK, ringVars
<1>6. CASE DrawFrame
  <2>1. queue' \in Seq(Slots \cup {NULL}) /\ Len(queue') <= QueueLen
    BY <1>6, QueueTypes DEF DrawFrame
  <2> QED
    BY <1>6, <2>1 DEF TypeOK, DrawFrame, ringVars, recVars
<1>7. ASSUME NEW s \in Slots, TakeSlot(s)
      PROVE  TypeOK'
  <2>1. queue' \in Seq(Slots \cup {NULL}) /\ Len(queue') <= QueueLen
    BY <1>7, QueueTypes DEF TakeSlot, Receives
  <2>2. rd' \in Slots
    BY <1>7, NextIs DEF TakeSlot, Free, TypeOK
  <2> QED
    BY <1>7, <2>1, <2>2 DEF TypeOK, TakeSlot, Receives, recVars
<1>8. CASE TransferDone
  BY <1>8 DEF TypeOK, TransferDone, recVars
<1>9. CASE Answer
  <2>1. PICK p : p = ring[hand].owner
    OBVIOUS
  <2>2. replies' = [replies EXCEPT ![p] = replies[p] + 1] /\ replies[p] < Burst(p)
    BY <1>9, <2>1 DEF Answer
  <2>3. replies' \in [Owner -> 0..RingLen + 1]
    <3>1. Burst(p) \in Nat /\ Burst(p) <= RingLen + 1
      BY DiskAssumption DEF TypeOK, Scenes, Burst, AudioBurst
    <3>2. p \in Owner => replies[p] \in 0..RingLen + 1
      BY DEF TypeOK
    <3>3. CASE p \in Owner
      <4>1. replies[p] + 1 \in 0..RingLen + 1
        BY <2>2, <3>1, <3>2, <3>3, DiskAssumption
      <4> QED
        BY <2>2, <4>1 DEF TypeOK
    <3>4. CASE p \notin Owner
      BY <2>2, <3>4 DEF TypeOK
    <3> QED
      BY <3>3, <3>4
  <2> QED
    BY <1>9, <2>3 DEF TypeOK, Answer, recVars
<1>10. CASE TakeFile \/ TakeMenu
  <2>1. queue' \in Seq(Slots \cup {NULL}) /\ Len(queue') <= QueueLen
    BY <1>10, QueueTypes DEF TakeFile, TakeMenu, Receives
  <2> QED
    BY <1>10, <2>1 DEF TypeOK, TakeFile, TakeMenu, Receives, ringVars
<1>11. CASE FileDone \/ TrySucceeds
  BY <1>11 DEF TypeOK, FileDone, TrySucceeds, ringVars
<1>12. CASE TryFails
  BY <1>12 DEF TypeOK, TryFails, ringVars
<1>13. CASE UNCHANGED vars
  BY <1>13 DEF TypeOK, vars, ringVars, recVars
<1> QED
  BY <1>1, <1>2, <1>3, <1>4, <1>5, <1>6, <1>7, <1>8, <1>9, <1>10, <1>11,
     <1>12, <1>13
  DEF Next, Service, Disk, Steps, Thread, Game

-----------------------------------------------------------------------------
(* The steps of the ring.                                                  *)

LEMMA Ends ==
  ASSUME RingInv
  PROVE  /\ rd \in Slots /\ wr \in Slots /\ hand \in Slots
         /\ \A s \in Slots : Dist(rd, s) \in Nat /\ Dist(rd, s) < RingLen
         /\ Dist(rd, rd) = 0 /\ RingLen \in Nat
         /\ \A i \in 1..Len(queue) : queue[i] # NULL => queue[i] \in Slots
BY DistIs, Farthest, DiskAssumption DEF RingInv, TypeOK

\* Who posts finds the ring not full, although others may have posted since he
\* looked.
LEMMA PostRoom ==
  ASSUME RingInv, NEW p \in Owner, pc[p] = "post"
  PROVE  Dist(rd, wr) # RingLen - 1
<1>1. CASE scene # "shared"
  BY <1>1, FullIs DEF RingInv, Gap, TypeOK
<1>2. CASE scene = "shared"
  <2>1. Burst("audio") = RingLen - 2 /\ Burst("game") = 1
    BY <1>2, BurstIs DEF RingInv
  <2>2. nr["game"] \in 0..1 /\ nr["audio"] \in 0..RingLen - 2
    BY <2>1 DEF RingInv, Posters, Owner
  <2>3. replies["game"] \in 0..1 /\ replies["audio"] \in 0..RingLen - 2
    BY <2>2, DiskAssumption DEF RingInv, Posters, Owner
  <2>4. nr[p] < Burst(p)
    BY DEF RingInv, Posters
  <2>5. nr["game"] + nr["audio"] < RingLen - 1
    <3>1. CASE p = "game"
      BY <2>1, <2>2, <2>4, <3>1, DiskAssumption
    <3>2. CASE p = "audio"
      BY <2>1, <2>2, <2>4, <3>2, DiskAssumption
    <3> QED
      BY <3>1, <3>2 DEF Owner
  <2>6. Dist(rd, wr) <= Outstanding
    <3>1. Outstanding \in Int
      BY <2>2, <2>3, DiskAssumption DEF Outstanding
    <3>2. Dist(rd, wr) + (IF InHand THEN 1 ELSE 0) <= Outstanding
      BY DEF RingInv, Gap
    <3> QED
      BY <3>1, <3>2, Ends
  <2> QED
    BY <2>2, <2>3, <2>5, <2>6, Ends, DiskAssumption DEF Outstanding
<1> QED
  BY <1>1, <1>2

\* Nothing waits, and nothing is in hand, of one who has posted nothing.
LEMMA NoneDue ==
  ASSUME RingInv, NEW p \in Owner, nr[p] = replies[p]
  PROVE  /\ \A s \in Slots : Waiting(s) => ring[s].owner # p
         /\ InHand => ring[hand].owner # p
<1>1. ASSUME NEW c \in Copies \cup {NoCopy}, Due(c, nr, replies)
      PROVE  c.owner # p
  <2>1. c.nr \in Nat
    BY <1>1, DiskAssumption DEF Copies, NoCopy
  <2>2. nr[p] \in Nat
    BY DEF RingInv, TypeOK
  <2> QED
    BY <1>1, <2>1, <2>2 DEF Due
<1>2. \A s \in Slots : ring[s] \in Copies \cup {NoCopy}
  BY DEF RingInv, TypeOK
<1> QED
  BY <1>1, <1>2, Ends DEF RingInv, Words

\* A step that leaves the ring as it is.
LEMMA WordsLeft ==
  ASSUME RingInv, UNCHANGED <<scene, ringVars, hand, doing>>,
         InHand' = InHand, svc' = "transfer" <=> svc = "transfer"
  PROVE  /\ Words' /\ Full' = Full
         /\ (InHand => rd = Next1(hand))'
         /\ (Dist(rd, wr) + (IF InHand THEN 1 ELSE 0) <= Outstanding)'
         /\ \A p \in Owner : Burst(p)' = Burst(p)
<1>1. Words'
  BY DEF RingInv, Words, Waiting, Due, Earlier, ringVars, Dist
<1>2. Full' = Full /\ Outstanding' = Outstanding /\ Dist(rd, wr)' = Dist(rd, wr)
  BY DEF Full, Next1, Outstanding, Dist, ringVars
<1>3. Next1(hand)' = Next1(hand)
  BY DEF Next1
<1>4. (InHand => rd = Next1(hand))'
  BY <1>3 DEF RingInv, Gap, ringVars
<1>5. (Dist(rd, wr) + (IF InHand THEN 1 ELSE 0) <= Outstanding)'
  BY <1>2 DEF RingInv, Gap
<1> QED
  BY <1>1, <1>2, <1>4, <1>5 DEF Burst, AudioBurst

LEMMA RingLeft ==
  ASSUME RingInv, TypeOK', UNCHANGED <<scene, ringVars, hand, doing>>,
         InHand' = InHand, svc' = "transfer" <=> svc = "transfer", Announced',
         \A p \in Owner :
           \/ pc'[p] = pc[p]
           \/ p = "game" /\ {pc[p], pc'[p]} \subseteq {"away", "mfs"}
  PROVE  RingInv'
<1>1. Posters'
  BY WordsLeft DEF RingInv, Posters, ringVars
<1>2. Gap'
  <2>1. \A p \in Owner : pc'[p] = "post" => pc[p] = "post"
    OBVIOUS
  <2>2. (\A p \in Owner : pc[p] = "post" /\ scene # "shared" => ~Full)'
    BY <2>1, WordsLeft DEF RingInv, Gap
  <2>3. (scene = "full" => nr["game"] = 0 /\ pc["game"] \in {"away", "mfs"})'
    BY DEF RingInv, Gap, ringVars, Owner
  <2>4. (scene = "quiet" => pc["audio"] = "away")'
    BY DEF RingInv, Gap, Owner
  <2> QED
    BY <2>2, <2>3, <2>4, WordsLeft DEF Gap
<1> QED
  BY <1>1, <1>2, WordsLeft DEF RingInv

LEMMA WakeRing ==
  ASSUME RingInv, TypeOK', NEW p \in Owner, Wake(p) \/ Look(p)
  PROVE  RingInv'
<1>1. UNCHANGED <<scene, ringVars, recVars, queue, busy, svc, hand, doing>>
  BY DEF Wake, Look
<1>2. \A q \in Owner : q # p => pc'[q] = pc[q]
  BY DEF RingInv, TypeOK, Wake, Look
<1>3. \/ pc[p] = "away" /\ pc'[p] = "look"
      \/ pc[p] = "look" /\ pc'[p] = "post" /\ ~Full
  BY DEF RingInv, TypeOK, Wake, Look
<1>4. InHand' = InHand /\ Announced'
  BY <1>1 DEF InHand, RingInv, Announced, Waiting, Dist, ringVars
<1>5. nr[p] < Burst(p)
  <2>1. CASE Look(p)
    BY <1>3, <2>1 DEF Look, RingInv, Posters
  <2>2. CASE Wake(p)
    <3>1. 0 < Burst(p)
      BY <2>2, BurstIs DEF Wake, Burst, RingInv, Owner
    <3>2. nr[p] = 0
      BY <2>2 DEF Wake, RingInv, Posters
    <3> QED
      BY <3>1, <3>2
  <2> QED
    BY <2>1, <2>2
<1>6. /\ Words' /\ Full' = Full
      /\ (InHand => rd = Next1(hand))'
      /\ (Dist(rd, wr) + (IF InHand THEN 1 ELSE 0) <= Outstanding)'
      /\ \A q \in Owner : Burst(q)' = Burst(q)
  BY <1>1, <1>4, WordsLeft
<1>7. Posters'
  BY <1>1, <1>2, <1>3, <1>5, <1>6 DEF RingInv, Posters, ringVars
<1>8. (\A q \in Owner : pc[q] = "post" /\ scene # "shared" => ~Full)'
  BY <1>1, <1>2, <1>3, <1>6 DEF RingInv, Gap
<1>9. scene = "full" => p # "game"
  BY <1>3 DEF Wake, Look, RingInv, Gap
<1>10. scene = "quiet" => p # "audio"
  <2>1. CASE Wake(p)
    BY <2>1, BurstIs DEF Wake, Burst, RingInv
  <2>2. CASE Look(p)
    BY <2>2 DEF Look, RingInv, Gap
  <2> QED
    BY <2>1, <2>2
<1>11. /\ (scene = "full" => nr["game"] = 0 /\ pc["game"] \in {"away", "mfs"})'
       /\ (scene = "quiet" => pc["audio"] = "away")'
  BY <1>1, <1>2, <1>9, <1>10 DEF RingInv, Gap, ringVars, Owner
<1> QED
  BY <1>4, <1>6, <1>7, <1>8, <1>11 DEF RingInv, Gap

\* A NULL comes into the queue: the slots are announced as before.
LEMMA NullPosted ==
  ASSUME RingInv, queue' = Append(queue, NULL), UNCHANGED <<rd, wr>>
  PROVE  Announced'
<1>1. PICK n \in Nat : n = Len(queue)
  BY DEF RingInv, TypeOK
<1>2. PICK r : n = Len(queue) /\ r = queue'
  BY <1>1
<1>3. Len(r) = n + 1 /\ r[n + 1] = NULL /\ \A i \in 1..n : r[i] = queue[i]
  BY <1>2 DEF RingInv, TypeOK
<1>4. \A s : Waiting(s)' <=> Waiting(s)
  BY DEF Waiting, Dist
<1>5. \A i \in 1..n + 1 : r[i] # NULL => i \in 1..n /\ r[i] = queue[i]
  BY <1>3
<1>6. /\ \A i \in 1..n + 1 : r[i] # NULL => Waiting(r[i])
      /\ \A i, j \in 1..n + 1 :
           i < j /\ r[i] # NULL /\ r[j] # NULL => Dist(rd, r[i]) < Dist(rd, r[j])
  BY <1>2, <1>5 DEF RingInv, Announced
<1>7. \A s \in Slots : Waiting(s) => \E i \in 1..n + 1 : r[i] = s
  <2>1. \A i \in 1..n : i \in 1..n + 1
    OBVIOUS
  <2> QED
    BY <1>2, <1>3, <2>1 DEF RingInv, Announced
<1>8. \A s, t : Dist(rd, s)' = Dist(rd, s)
  BY DEF Dist
<1> QED
  BY <1>2, <1>3, <1>4, <1>6, <1>7, <1>8 DEF Announced

LEMMA PostRing ==
  ASSUME RingInv, TypeOK', NEW p \in Owner, Post(p)
  PROVE  RingInv'
<1>1. PICK n : n = nr[p] + 1
  OBVIOUS
<1>2. /\ pc[p] = "post" /\ scene' = scene /\ nr' = [nr EXCEPT ![p] = n]
      /\ ring' = [ring EXCEPT ![wr] = [owner |-> p, nr |-> n]]
      /\ wr' = Next1(wr) /\ queue' = Append(queue, wr)
      /\ asked' = asked \cup {[owner |-> p, nr |-> n]}
      /\ pc' = [pc EXCEPT ![p] = IF n = Burst(p) THEN "wait" ELSE "look"]
      /\ UNCHANGED <<rd, replies, svc, hand, doing>>
  <2>1. nr'[p] = nr[p] + 1
    BY DEF Post, RingInv, TypeOK
  <2> QED
    BY <1>1, <2>1 DEF Post, Burst, AudioBurst
<1>3. /\ nr[p] < Burst(p) /\ Burst(p) \in Nat /\ nr[p] \in Nat /\ n \in Nat
      /\ \A q \in Owner : Burst(q)' = Burst(q)
  <2>1. nr[p] < Burst(p) /\ Burst(p) \in Nat
    BY <1>2, BurstIs DEF RingInv, Posters, Owner
  <2>2. nr[p] \in Nat
    BY DEF RingInv, TypeOK
  <2> QED
    BY <1>1, <1>2, <2>1, <2>2 DEF Burst, AudioBurst
<1>4. \A q \in Owner : nr'[q] = IF q = p THEN n ELSE nr[q]
  BY <1>2 DEF RingInv, TypeOK
<1>5. \A q \in Owner : pc'[q] = IF q = p THEN (IF n = Burst(p) THEN "wait" ELSE "look")
                                ELSE pc[q]
  BY <1>2 DEF RingInv, TypeOK
<1>6. Posters'
  BY <1>1, <1>2, <1>3, <1>4, <1>5 DEF RingInv, Posters
<1>7. PICK k \in Nat : k = Dist(rd, wr) /\ k # RingLen - 1 /\ k < RingLen
  BY <1>2, PostRoom, Ends
<1>8. Dist(rd, wr)' = k + 1 /\ \A s : Dist(rd, s)' = Dist(rd, s)
  <2>1. Dist(rd, Next1(wr)) = k + 1
    BY <1>7, Further, Ends
  <2> QED
    BY <1>2, <2>1 DEF Dist
<1>9. \A s \in Slots : Waiting(s)' <=> Waiting(s) \/ s = wr
  <2>1. ASSUME NEW s \in Slots
        PROVE  Waiting(s)' <=> Waiting(s) \/ s = wr
    <3>1. Dist(rd, s) \in Nat
      BY Ends
    <3>2. Dist(rd, s) = k <=> s = wr
      BY <1>7, Ends, SameDist
    <3>3. Waiting(s) <=> Dist(rd, s) < k
      BY <1>7 DEF Waiting
    <3>4. Waiting(s)' <=> Dist(rd, s) < k + 1
      BY <1>8 DEF Waiting
    <3> QED
      BY <3>1, <3>2, <3>3, <3>4
  <2> QED
    BY <2>1
<1>10. ~Waiting(wr) /\ (InHand => hand # wr)
  <2>1. InHand => Dist(rd, hand) = RingLen - 1
    BY Ends, Farthest DEF RingInv, Gap
  <2> QED
    BY <1>7, <2>1 DEF Waiting
<1>11. Announced'
  <2>1. PICK m \in Nat : m = Len(queue)
    BY DEF RingInv, TypeOK
  <2>2. PICK r : m = Len(queue) /\ r = queue'
    BY <2>1
  <2>3. Len(r) = m + 1 /\ r[m + 1] = wr /\ \A i \in 1..m : r[i] = queue[i]
    BY <1>2, <2>2 DEF RingInv, TypeOK
  <2>4. wr # NULL /\ wr \in Slots
    BY Ends, DiskAssumption DEF Slots, NULL
  <2>5. \A i \in 1..m : queue[i] # NULL =>
          queue[i] \in Slots /\ Waiting(queue[i]) /\ Dist(rd, queue[i]) < k
    BY <1>7, <2>2, Ends DEF RingInv, Announced, Waiting
  <2>6. \A i \in 1..m + 1 : (i \in 1..m /\ r[i] = queue[i]) \/ (i = m + 1 /\ r[i] = wr)
    BY <2>3
  <2>7. \A i \in 1..m + 1 : r[i] # NULL => Waiting(r[i])'
    BY <1>9, <2>4, <2>5, <2>6
  <2>8. ASSUME NEW i \in 1..m + 1, NEW j \in 1..m + 1, i < j,
               r[i] # NULL, r[j] # NULL
        PROVE  Dist(rd, r[i]) < Dist(rd, r[j])
    <3>1. i \in 1..m /\ r[i] = queue[i]
      BY <2>6, <2>8
    <3>2. CASE j = m + 1
      BY <1>7, <2>3, <2>5, <2>8, <3>1, <3>2
    <3>3. CASE j # m + 1
      BY <2>2, <2>6, <2>8, <3>1, <3>3 DEF RingInv, Announced
    <3> QED
      BY <3>2, <3>3
  <2>9. \A s \in Slots : Waiting(s)' => \E i \in 1..m + 1 : r[i] = s
    <3>1. \A i \in 1..m : i \in 1..m + 1
      OBVIOUS
    <3>2. m + 1 \in 1..m + 1
      OBVIOUS
    <3> QED
      BY <1>9, <2>2, <2>3, <3>1, <3>2 DEF RingInv, Announced
  <2> QED
    BY <1>8, <2>2, <2>3, <2>7, <2>8, <2>9 DEF Announced
<1>12. Words'
  <2>1. PICK c : c = [owner |-> p, nr |-> n]
    OBVIOUS
  <2>2. c.owner = p /\ c.nr = n
    BY <2>1
  <2>3. \A s \in Slots : s # wr => ring'[s] = ring[s]
    BY <1>2 DEF RingInv, TypeOK
  <2>4. ring'[wr] = c /\ asked' = asked \cup {c}
    BY <1>2, <2>1 DEF RingInv, TypeOK
  <2>5. \A s \in Slots : ring[s].nr \in Nat
    BY DiskAssumption DEF RingInv, TypeOK, Copies, NoCopy
  <2>6. ASSUME NEW d, d.nr \in Nat, Due(d, nr, replies)
        PROVE  Due(d, nr', replies') /\ Earlier(d, c)
    <3>1. d.owner \in Owner /\ nr[d.owner] \in Nat
      BY <2>6 DEF Due, RingInv, TypeOK
    <3>2. CASE d.owner = p
      BY <1>1, <1>2, <1>3, <1>4, <2>2, <2>6, <3>1, <3>2 DEF Due, Earlier
    <3>3. CASE d.owner # p
      BY <1>2, <1>4, <2>2, <2>6, <3>1, <3>3 DEF Due, Earlier
    <3> QED
      BY <3>2, <3>3
  <2>7. Due(c, nr', replies')
    <3>1. replies[p] \in 0..nr[p]
      BY DEF RingInv, Posters
    <3> QED
      BY <1>1, <1>2, <1>3, <1>4, <2>2, <3>1 DEF Due
  <2>8. \A s \in Slots : Waiting(s)' => Due(ring'[s], nr', replies') /\ ring'[s] \in asked'
    <3>1. \A s \in Slots : Waiting(s) =>
            s # wr /\ Due(ring[s], nr, replies) /\ ring[s] \in asked /\ ring[s].nr \in Nat
      BY <1>10, <2>5 DEF RingInv, Words
    <3> QED
      BY <1>9, <2>3, <2>4, <2>6, <2>7, <3>1
  <2>9. ASSUME NEW s \in Slots, NEW t \in Slots, Waiting(s)', Waiting(t)',
               Dist(rd, s) < Dist(rd, t)
        PROVE  Earlier(ring'[s], ring'[t])
    <3>1. Dist(rd, s) \in Nat /\ Dist(rd, t) \in Nat
      BY Ends
    <3>2. s # wr /\ Waiting(s)
      <4>1. CASE t = wr
        BY <1>7, <1>9, <2>9, <3>1, <4>1
      <4>2. CASE t # wr
        <5>1. Dist(rd, t) < k
          BY <1>7, <1>9, <2>9, <4>2 DEF Waiting
        <5> QED
          BY <1>7, <1>9, <2>9, <3>1, <5>1
      <4> QED
        BY <4>1, <4>2
    <3>3. Due(ring[s], nr, replies) /\ ring[s].nr \in Nat /\ ring'[s] = ring[s]
      BY <2>3, <2>5, <3>2 DEF RingInv, Words
    <3>4. CASE t = wr
      BY <2>4, <2>6, <3>3, <3>4
    <3>5. CASE t # wr
      <4>1. Waiting(t) /\ ring'[t] = ring[t]
        BY <1>9, <2>3, <2>9, <3>5
      <4> QED
        BY <2>9, <3>2, <3>3, <4>1 DEF RingInv, Words
    <3> QED
      BY <3>4, <3>5
  <2>10. InHand => /\ Due(ring'[hand], nr', replies') /\ ring'[hand] = doing
                   /\ \A s \in Slots : Waiting(s)' => Earlier(ring'[hand], ring'[s])
    <3> SUFFICES ASSUME InHand
                 PROVE  /\ Due(ring'[hand], nr', replies') /\ ring'[hand] = doing
                        /\ \A s \in Slots : Waiting(s)' => Earlier(ring'[hand], ring'[s])
      OBVIOUS
    <3>1. /\ Due(ring[hand], nr, replies) /\ ring[hand] = doing /\ ring'[hand] = ring[hand]
          /\ ring[hand].nr \in Nat
          /\ \A s \in Slots : Waiting(s) => s # wr /\ Earlier(ring[hand], ring[s])
      BY <1>10, <2>3, <2>5, Ends DEF RingInv, Words
    <3>2. Due(ring[hand], nr', replies') /\ Earlier(ring[hand], c)
      BY <2>6, <3>1
    <3>3. Due(ring'[hand], nr', replies')
      BY <3>1, <3>2 DEF Due
    <3> QED
      BY <1>9, <2>3, <2>4, <3>1, <3>2, <3>3
  <2>11. svc = "transfer" => doing \in asked'
    BY <2>4 DEF RingInv, Words
  <2> QED
    BY <1>2, <1>8, <2>8, <2>9, <2>10, <2>11 DEF Words, InHand, Earlier
<1>13. Gap'
  <2>1. (InHand => rd = Next1(hand))'
    BY <1>2 DEF RingInv, Gap, InHand, Next1
  <2>2. Outstanding' = Outstanding + 1 /\ Outstanding \in Int
    <3>1. /\ nr["game"] \in Nat /\ nr["audio"] \in Nat
          /\ replies["game"] \in Nat /\ replies["audio"] \in Nat
      BY DEF RingInv, TypeOK, Owner
    <3>2. replies' = replies
      BY <1>2
    <3>3. \/ nr'["game"] = nr["game"] + 1 /\ nr'["audio"] = nr["audio"]
          \/ nr'["game"] = nr["game"] /\ nr'["audio"] = nr["audio"] + 1
      BY <1>1, <1>4 DEF Owner
    <3> QED
      BY <3>1, <3>2, <3>3 DEF Outstanding
  <2>3. (Dist(rd, wr) + (IF InHand THEN 1 ELSE 0) <= Outstanding)'
    <3>1. k + (IF InHand THEN 1 ELSE 0) <= Outstanding
      BY <1>7 DEF RingInv, Gap
    <3>2. InHand' = InHand
      BY <1>2 DEF InHand
    <3> QED
      BY <1>8, <2>2, <3>1, <3>2
  <2>4. (\A q \in Owner : pc[q] = "post" /\ scene # "shared" => ~Full)'
    <3>1. ASSUME NEW q \in Owner, pc'[q] = "post"
          PROVE  scene = "shared"
      <4>1. q # p /\ pc[q] = "post"
        BY <1>5, <3>1
      <4>2. pc["game"] = "post" /\ pc["audio"] = "post"
        BY <1>2, <4>1 DEF Owner
      <4> QED
        BY <4>2 DEF RingInv, Gap, TypeOK, Scenes
    <3> QED
      BY <1>2, <3>1
  <2>5. (scene = "full" => nr["game"] = 0 /\ pc["game"] \in {"away", "mfs"})'
    BY <1>2, <1>4, <1>5 DEF RingInv, Gap, Owner
  <2>6. (scene = "quiet" => pc["audio"] = "away")'
    BY <1>2, <1>5 DEF RingInv, Gap, Owner
  <2> QED
    BY <2>1, <2>3, <2>4, <2>5, <2>6 DEF Gap
<1> QED
  BY <1>6, <1>11, <1>12, <1>13 DEF RingInv

LEMMA CollectRing ==
  ASSUME RingInv, TypeOK', NEW p \in Owner, Collect(p)
  PROVE  RingInv'
<1>1. /\ pc[p] = "wait" /\ replies[p] = nr[p]
      /\ UNCHANGED <<scene, ring, wr, rd, asked, queue, svc, hand, doing>>
  BY DEF Collect, RingInv, Posters
<1>2. \A q \in Owner :
        /\ nr'[q] = (IF q = p THEN 0 ELSE nr[q])
        /\ replies'[q] = (IF q = p THEN 0 ELSE replies[q])
        /\ pc'[q] = (IF q = p THEN "away" ELSE pc[q])
  BY DEF Collect, RingInv, TypeOK
<1>3. \A q \in Owner : Burst(q)' = Burst(q) /\ Burst(q) \in Nat
  BY <1>1, BurstIs DEF Burst, AudioBurst, RingInv, Owner
<1>4. Posters'
  BY <1>1, <1>2, <1>3 DEF RingInv, Posters
<1>5. Announced' /\ InHand' = InHand /\ \A s : Waiting(s)' <=> Waiting(s)
  BY <1>1 DEF InHand, RingInv, Announced, Waiting, Dist
<1>6. /\ \A s \in Slots : Waiting(s) => ring[s].owner # p
      /\ InHand => ring[hand].owner # p
  BY <1>1, NoneDue
<1>7. ASSUME NEW c, c.owner # p, Due(c, nr, replies)
      PROVE  Due(c, nr', replies')
  BY <1>2, <1>7 DEF Due
<1>8. Words'
  <2>1. \A s \in Slots : Waiting(s) => Due(ring[s], nr', replies')
    BY <1>6, <1>7 DEF RingInv, Words
  <2>2. InHand => Due(ring[hand], nr', replies')
    BY <1>6, <1>7 DEF RingInv, Words
  <2>3. \A s, t : Dist(rd, s)' = Dist(rd, s)
    BY <1>1 DEF Dist
  <2> QED
    BY <1>1, <1>5, <2>1, <2>2, <2>3 DEF RingInv, Words, Earlier
<1>9. Outstanding' = Outstanding
  <2>1. \A q \in Owner : nr[q] \in Nat /\ replies[q] \in Nat
    BY DEF RingInv, TypeOK
  <2>2. nr[p] - replies[p] = 0
    BY <1>1, <2>1
  <2>3. \A q \in Owner : nr'[q] - replies'[q] = nr[q] - replies[q]
    BY <1>2, <2>1, <2>2
  <2> QED
    BY <2>3 DEF Outstanding, Owner
<1>10. Full' = Full /\ Dist(rd, wr)' = Dist(rd, wr) /\ Next1(hand)' = Next1(hand)
  BY <1>1 DEF Full, Dist, Next1
<1>11. /\ (InHand => rd = Next1(hand))'
       /\ (Dist(rd, wr) + (IF InHand THEN 1 ELSE 0) <= Outstanding)'
  BY <1>1, <1>5, <1>9, <1>10 DEF RingInv, Gap
<1>12. (\A q \in Owner : pc[q] = "post" /\ scene # "shared" => ~Full)'
  BY <1>1, <1>2, <1>10 DEF RingInv, Gap
<1>13. /\ (scene = "full" => nr["game"] = 0 /\ pc["game"] \in {"away", "mfs"})'
       /\ (scene = "quiet" => pc["audio"] = "away")'
  BY <1>1, <1>2 DEF RingInv, Gap, Owner
<1> QED
  BY <1>4, <1>5, <1>8, <1>11, <1>12, <1>13 DEF RingInv, Gap

\* The message that is received names the first slot that waits.
LEMMA FirstWaits ==
  ASSUME RingInv, NEW s \in Slots, queue # <<>>, Head(queue) = s
  PROVE  s = rd /\ rd # wr /\ Waiting(rd)
<1>1. PICK n \in Nat \ {0} : n = Len(queue)
  BY DEF RingInv, TypeOK
<1>2. queue[1] = s /\ 1 \in 1..n /\ s # NULL
  BY <1>1, DiskAssumption DEF Slots, NULL
<1>3. Waiting(s)
  BY <1>1, <1>2 DEF RingInv, Announced
<1>4. Waiting(rd) /\ rd # wr
  BY <1>3, Ends DEF Waiting
<1>5. PICK i \in 1..n : queue[i] = rd
  BY <1>1, <1>4, Ends DEF RingInv, Announced
<1>6. CASE i = 1
  BY <1>2, <1>4, <1>5, <1>6
<1>7. CASE i # 1
  <2>1. 1 < i /\ rd # NULL
    BY <1>7, Ends, DiskAssumption DEF Slots, NULL
  <2>2. Dist(rd, s) < Dist(rd, rd)
    BY <1>1, <1>2, <1>5, <2>1 DEF RingInv, Announced
  <2> QED
    BY <2>2, Ends
<1> QED
  BY <1>6, <1>7

LEMMA TakeSlotRing ==
  ASSUME RingInv, TypeOK', NEW s \in Slots, TakeSlot(s)
  PROVE  RingInv'
<1>1. /\ svc = "receive" /\ queue # <<>> /\ Head(queue) = s
      /\ queue' = Tail(queue) /\ hand' = s /\ doing' = ring[s] /\ svc' = "transfer"
      /\ UNCHANGED <<scene, ring, wr, nr, replies, asked, pc>>
  BY DEF TakeSlot, Receives
<1>2. s = rd /\ rd # wr /\ Waiting(rd)
  BY <1>1, FirstWaits
<1>3. rd' = Next1(rd)
  BY <1>2 DEF TakeSlot, Free
<1>4. PICK k \in Nat : k = Dist(rd, wr) /\ k < RingLen
  BY Ends
<1>5. /\ \A t \in Slots : t # rd =>
           /\ Dist(Next1(rd), t) = Dist(rd, t) - 1
           /\ Dist(rd, t) >= 1 /\ Dist(rd, t) \in Nat
      /\ \A t : Dist(rd, t)' = Dist(Next1(rd), t)
  <2>1. \A t \in Slots : t # rd =>
          Dist(Next1(rd), t) = Dist(rd, t) - 1 /\ Dist(rd, t) >= 1
    BY Nearer, Ends
  <2>2. \A t : Dist(rd, t)' = Dist(Next1(rd), t)
    BY <1>3 DEF Dist
  <2> QED
    BY <2>1, <2>2, Ends
<1>6. Dist(rd, wr)' = k - 1 /\ k >= 1
  <2>1. Dist(Next1(rd), wr) = k - 1 /\ k >= 1
    BY <1>2, <1>4, Nearer, Ends
  <2> QED
    BY <1>1, <1>3, <2>1 DEF Dist
<1>7. Dist(Next1(rd), rd) = RingLen - 1 /\ Dist(rd, rd) = 0
  BY Farthest, Ends
<1>8. \A t \in Slots : Waiting(t)' <=> Waiting(t) /\ t # rd
  <2>1. ASSUME NEW t \in Slots
        PROVE  Waiting(t)' <=> Waiting(t) /\ t # rd
    <3>1. CASE t = rd
      <4>1. Dist(rd, t)' = RingLen - 1
        BY <1>3, <1>7, <3>1 DEF Dist
      <4> QED
        BY <1>4, <1>6, <3>1, <4>1, DiskAssumption DEF Waiting
    <3>2. CASE t # rd
      BY <1>4, <1>5, <1>6, <3>2 DEF Waiting
    <3> QED
      BY <3>1, <3>2
  <2> QED
    BY <2>1
<1>9. InHand' /\ ~InHand
  BY <1>1 DEF InHand
<1>10. Posters'
  <2>1. \A q \in Owner : Burst(q)' = Burst(q)
    BY <1>1 DEF Burst, AudioBurst
  <2> QED
    BY <1>1, <2>1 DEF RingInv, Posters
<1>11. Announced'
  <2>1. PICK n \in Nat \ {0} : n = Len(queue)
    <3>1. queue \in Seq(Slots \cup {NULL}) /\ queue # <<>>
      BY <1>1 DEF RingInv, TypeOK
    <3>2. Len(queue) \in Nat \ {0}
      BY <3>1
    <3> QED
      BY <3>2
  <2>2. PICK r : n = Len(queue) /\ r = queue'
    BY <2>1
  <2>3. Len(r) = n - 1 /\ \A i \in 1..n - 1 : i + 1 \in 1..n /\ r[i] = queue[i + 1]
    BY <1>1, <2>2 DEF RingInv, TypeOK
  <2>4. queue[1] = rd /\ rd # NULL
    BY <1>1, <1>2, Ends, DiskAssumption DEF Slots, NULL
  <2>5. \A i \in 1..n - 1 : r[i] # NULL =>
          r[i] \in Slots /\ Waiting(r[i]) /\ r[i] # rd
    <3>1. ASSUME NEW i \in 1..n - 1, r[i] # NULL
          PROVE  r[i] \in Slots /\ Waiting(r[i]) /\ r[i] # rd
      <4>1. PICK j \in 1..n : j = i + 1 /\ r[i] = queue[j] /\ 1 < j
        BY <2>3
      <4>2. r[i] \in Slots /\ Waiting(r[i])
        BY <2>2, <3>1, <4>1, Ends DEF RingInv, Announced
      <4>3. 1 \in 1..n
        BY <2>1
      <4>4. Dist(rd, rd) < Dist(rd, queue[j])
        BY <2>2, <2>4, <3>1, <4>1, <4>3 DEF RingInv, Announced
      <4> QED
        BY <1>7, <4>1, <4>2, <4>4
    <3> QED
      BY <3>1
  <2>6. ASSUME NEW i \in 1..n - 1, NEW j \in 1..n - 1, i < j,
               r[i] # NULL, r[j] # NULL
        PROVE  Dist(Next1(rd), r[i]) < Dist(Next1(rd), r[j])
    <3>1. Dist(rd, r[i]) < Dist(rd, r[j])
      <4>1. i + 1 \in 1..n /\ j + 1 \in 1..n /\ i + 1 < j + 1
        BY <2>3, <2>6
      <4> QED
        BY <2>2, <2>3, <2>6, <4>1 DEF RingInv, Announced
    <3>2. PICK x \in Slots, y \in Slots : x = r[i] /\ y = r[j] /\ x # rd /\ y # rd
      BY <2>5, <2>6
    <3>3. Dist(Next1(rd), x) < Dist(Next1(rd), y)
      BY <1>5, <3>1, <3>2
    <3> QED
      BY <3>2, <3>3
  <2>7. \A t \in Slots : Waiting(t)' => \E i \in 1..n - 1 : r[i] = t
    <3>1. ASSUME NEW t \in Slots, Waiting(t), t # rd
          PROVE  \E i \in 1..n - 1 : r[i] = t
      <4>1. PICK j \in 1..n : queue[j] = t
        BY <2>2, <3>1 DEF RingInv, Announced
      <4>2. j # 1
        BY <2>4, <3>1, <4>1
      <4>3. PICK i \in 1..n - 1 : i + 1 = j
        BY <4>2
      <4> QED
        BY <2>3, <4>1, <4>3
    <3> QED
      BY <1>8, <3>1
  <2> QED
    BY <1>5, <1>8, <2>2, <2>3, <2>5, <2>6, <2>7 DEF Announced
<1>12. Words'
  <2>1. \A t \in Slots : Waiting(t)' =>
          Due(ring[t], nr', replies') /\ ring[t] \in asked
    BY <1>1, <1>8 DEF RingInv, Words
  <2>2. ASSUME NEW t \in Slots, NEW u \in Slots, Waiting(t)', Waiting(u)',
               Dist(rd, t)' < Dist(rd, u)'
        PROVE  Earlier(ring[t], ring[u])
    <3>1. Dist(rd, t) < Dist(rd, u) /\ Waiting(t) /\ Waiting(u)
      BY <1>5, <1>8, <2>2
    <3> QED
      BY <3>1 DEF RingInv, Words
  <2>3. Due(ring[rd], nr', replies') /\ ring[rd] \in asked
    BY <1>1, <1>2, Ends DEF RingInv, Words
  <2>4. \A t \in Slots : Waiting(t)' => Earlier(ring[rd], ring[t])
    <3>1. \A t \in Slots : Waiting(t)' => Waiting(t) /\ Dist(rd, rd) < Dist(rd, t)
      BY <1>5, <1>7, <1>8
    <3> QED
      BY <1>2, <3>1, Ends DEF RingInv, Words
  <2> QED
    BY <1>1, <1>2, <2>1, <2>2, <2>3, <2>4 DEF Words, Earlier
<1>13. Gap'
  <2>1. (InHand => rd = Next1(hand))'
    BY <1>1, <1>2, <1>3 DEF Next1
  <2>2. Outstanding' = Outstanding /\ Outstanding \in Int
    BY <1>1 DEF Outstanding, RingInv, TypeOK, Owner
  <2>3. (Dist(rd, wr) + (IF InHand THEN 1 ELSE 0) <= Outstanding)'
    <3>1. k <= Outstanding
      BY <1>4, <1>9 DEF RingInv, Gap
    <3> QED
      BY <1>6, <1>9, <2>2, <3>1
  <2>4. ~Full'
    <3>1. rd' \in Slots /\ wr' \in Slots
      BY DEF TypeOK
    <3>2. Full' => Dist(Next1(wr'), wr') = Dist(rd', wr')
      BY DEF Full, Next1
    <3>3. Dist(Next1(wr'), wr') = RingLen - 1
      BY <3>1, Farthest
    <3>4. Dist(rd', wr') = k - 1
      BY <1>6 DEF Dist
    <3> QED
      BY <1>4, <3>2, <3>3, <3>4, DiskAssumption
  <2>5. /\ (scene = "full" => nr["game"] = 0 /\ pc["game"] \in {"away", "mfs"})'
        /\ (scene = "quiet" => pc["audio"] = "away")'
    BY <1>1 DEF RingInv, Gap
  <2> QED
    BY <2>1, <2>3, <2>4, <2>5 DEF Gap
<1> QED
  BY <1>10, <1>11, <1>12, <1>13 DEF RingInv

LEMMA TransferRing ==
  ASSUME RingInv, TypeOK', TransferDone
  PROVE  RingInv'
<1>1. /\ svc = "transfer" /\ svc' = "answer" /\ asked' = asked \ {doing}
      /\ UNCHANGED <<scene, ring, wr, rd, nr, replies, queue, hand, pc, doing>>
  BY DEF TransferDone
<1>2. /\ InHand' /\ InHand /\ Announced' /\ \A s : Waiting(s)' <=> Waiting(s)
      /\ \A s : Dist(rd, s)' = Dist(rd, s)
  BY <1>1 DEF InHand, RingInv, Announced, Waiting, Dist
<1>3. \A s \in Slots : Waiting(s) => ring[s] # doing
  <2>1. ring[hand].nr \in Nat /\ ring[hand] = doing
    BY <1>2, Ends, DiskAssumption DEF RingInv, TypeOK, Copies, NoCopy, Words
  <2>2. \A s \in Slots : Waiting(s) => Earlier(doing, ring[s])
    BY <1>2, <2>1 DEF RingInv, Words
  <2> QED
    BY <2>1, <2>2 DEF Earlier
<1>4. Words'
  BY <1>1, <1>2, <1>3 DEF RingInv, Words, Earlier
<1>5. Posters'
  <2>1. \A q \in Owner : Burst(q)' = Burst(q)
    BY <1>1 DEF Burst, AudioBurst
  <2> QED
    BY <1>1, <2>1 DEF RingInv, Posters
<1>6. Gap'
  <2>1. Full' = Full /\ Dist(rd, wr)' = Dist(rd, wr) /\ Next1(hand)' = Next1(hand)
        /\ Outstanding' = Outstanding
    BY <1>1 DEF Full, Dist, Next1, Outstanding
  <2> QED
    BY <1>1, <1>2, <2>1 DEF RingInv, Gap
<1> QED
  BY <1>2, <1>4, <1>5, <1>6 DEF RingInv

LEMMA AnswerRing ==
  ASSUME RingInv, TypeOK', Answer
  PROVE  RingInv'
<1>1. PICK p : p = ring[hand].owner
  OBVIOUS
<1>2. /\ svc = "answer" /\ svc' = "receive"
      /\ replies' = [replies EXCEPT ![p] = replies[p] + 1]
      /\ UNCHANGED <<scene, ring, wr, rd, nr, asked, queue, hand, pc>>
  BY <1>1 DEF Answer
<1>3. InHand /\ ~InHand' /\ Announced' /\ \A s : Waiting(s)' <=> Waiting(s)
  BY <1>2 DEF InHand, RingInv, Announced, Waiting, Dist
<1>4. Due(ring[hand], nr, replies) /\ p \in Owner
  BY <1>1, <1>3 DEF RingInv, Words, Due
<1>5. \A q \in Owner :
        replies'[q] = IF q = p THEN replies[p] + 1 ELSE replies[q]
  BY <1>2 DEF RingInv, TypeOK
<1>6. /\ \A q \in Owner : nr[q] \in Nat /\ replies[q] \in Nat
      /\ \A s \in Slots : ring[s].nr \in Nat
  BY DiskAssumption DEF RingInv, TypeOK, Copies, NoCopy
<1>7. replies[p] < nr[p]
  <2>1. ring[hand].nr \in Nat
    BY <1>6, Ends
  <2>2. replies[p] < ring[hand].nr /\ ring[hand].nr <= nr[p]
    BY <1>1, <1>4 DEF Due
  <2> QED
    BY <1>4, <1>6, <2>1, <2>2
<1>8. Posters'
  <2>1. \A q \in Owner : Burst(q)' = Burst(q)
    BY <1>2 DEF Burst, AudioBurst
  <2>2. \A q \in Owner : replies'[q] \in 0..nr[q]
    BY <1>4, <1>5, <1>6, <1>7 DEF RingInv, Posters
  <2> QED
    BY <1>2, <2>1, <2>2 DEF RingInv, Posters
<1>9. ASSUME NEW c, c.nr \in Nat, Due(c, nr, replies), Earlier(ring[hand], c)
      PROVE  Due(c, nr', replies')
  <2>1. CASE c.owner # p
    BY <1>2, <1>5, <1>9, <2>1 DEF Due
  <2>2. CASE c.owner = p
    <3>1. PICK h : h = ring[hand].nr /\ h \in Nat
      BY <1>6, Ends
    <3>2. replies[p] < h /\ h < c.nr
      BY <1>1, <1>4, <1>9, <2>2, <3>1 DEF Due, Earlier
    <3>3. replies[p] + 1 < c.nr
      BY <1>4, <1>6, <1>9, <3>1, <3>2
    <3> QED
      BY <1>2, <1>5, <1>9, <2>2, <3>3 DEF Due
  <2> QED
    BY <2>1, <2>2
<1>10. Words'
  <2>1. \A s \in Slots : Waiting(s) => Due(ring[s], nr', replies')
    BY <1>3, <1>6, <1>9 DEF RingInv, Words
  <2>2. \A s, t : Dist(rd, s)' = Dist(rd, s)
    BY <1>2 DEF Dist
  <2> QED
    BY <1>2, <1>3, <2>1, <2>2 DEF RingInv, Words, Earlier
<1>11. Gap'
  <2>1. Outstanding' = Outstanding - 1 /\ Outstanding \in Int
    <3>1. \/ replies'["game"] = replies["game"] + 1 /\ replies'["audio"] = replies["audio"]
          \/ replies'["game"] = replies["game"] /\ replies'["audio"] = replies["audio"] + 1
      BY <1>4, <1>5 DEF Owner
    <3>2. /\ nr["game"] \in Nat /\ nr["audio"] \in Nat
          /\ replies["game"] \in Nat /\ replies["audio"] \in Nat
      BY <1>6 DEF Owner
    <3>3. nr' = nr
      BY <1>2
    <3> QED
      BY <3>1, <3>2, <3>3 DEF Outstanding
  <2>2. Dist(rd, wr)' = Dist(rd, wr) /\ Dist(rd, wr) \in Nat /\ Full' = Full
    BY <1>2, Ends DEF Dist, Full, Next1
  <2>3. Dist(rd, wr) + 1 <= Outstanding
    BY <1>3 DEF RingInv, Gap
  <2>4. Dist(rd, wr) + 0 <= Outstanding - 1
    BY <2>1, <2>2, <2>3
  <2>5. (Dist(rd, wr) + (IF InHand THEN 1 ELSE 0) <= Outstanding)'
    BY <1>3, <2>1, <2>2, <2>4
  <2> QED
    BY <1>2, <1>3, <2>2, <2>5 DEF RingInv, Gap
<1> QED
  BY <1>3, <1>8, <1>10, <1>11 DEF RingInv

\* A NULL is taken from the queue: the slots are announced as before.
LEMMA NullTaken ==
  ASSUME RingInv, queue # <<>>, Head(queue) = NULL, queue' = Tail(queue),
         UNCHANGED <<rd, wr>>
  PROVE  Announced'
<1>1. PICK n \in Nat \ {0} : n = Len(queue)
  <2>1. queue \in Seq(Slots \cup {NULL}) /\ queue # <<>>
    BY DEF RingInv, TypeOK
  <2>2. Len(queue) \in Nat \ {0}
    BY <2>1
  <2> QED
    BY <2>2
<1>2. PICK r : n = Len(queue) /\ r = queue'
  BY <1>1
<1>3. Len(r) = n - 1 /\ \A i \in 1..n - 1 : i + 1 \in 1..n /\ r[i] = queue[i + 1]
  BY <1>2 DEF RingInv, TypeOK
<1>4. queue[1] = NULL
  BY <1>2 DEF RingInv, TypeOK
<1>5. /\ \A s : Waiting(s)' <=> Waiting(s)
      /\ \A s : Dist(rd, s)' = Dist(rd, s)
  BY DEF Waiting, Dist
<1>6. \A i \in 1..n - 1 : r[i] # NULL => Waiting(r[i])
  BY <1>2, <1>3 DEF RingInv, Announced
<1>7. ASSUME NEW i \in 1..n - 1, NEW j \in 1..n - 1, i < j, r[i] # NULL, r[j] # NULL
      PROVE  Dist(rd, r[i]) < Dist(rd, r[j])
  <2>1. i + 1 \in 1..n /\ j + 1 \in 1..n /\ i + 1 < j + 1
    BY <1>3, <1>7
  <2> QED
    BY <1>2, <1>3, <1>7, <2>1 DEF RingInv, Announced
<1>8. ASSUME NEW s \in Slots, Waiting(s)
      PROVE  \E i \in 1..n - 1 : r[i] = s
  <2>1. PICK j \in 1..n : queue[j] = s
    BY <1>2, <1>8 DEF RingInv, Announced
  <2>2. j # 1
    BY <1>4, <2>1, DiskAssumption DEF Slots, NULL
  <2>3. PICK i \in 1..n - 1 : i + 1 = j
    BY <2>2
  <2> QED
    BY <1>3, <2>1, <2>3
<1> QED
  BY <1>2, <1>3, <1>5, <1>6, <1>7, <1>8 DEF Announced

\* The steps that leave the ring as it is.
LEMMA OtherRing ==
  ASSUME RingInv, TypeOK',
         \/ \E o \in Op : Operate(o)
         \/ MfsReturn \/ MenuGoesOn \/ DrawFrame \/ TakeFile \/ TakeMenu
         \/ FileDone \/ TrySucceeds \/ TryFails \/ UNCHANGED vars
  PROVE  RingInv'
<1>1. /\ UNCHANGED <<scene, ringVars, hand, doing>>
      /\ InHand' = InHand
      /\ svc' = "transfer" <=> svc = "transfer"
      /\ \A p \in Owner :
           \/ pc'[p] = pc[p]
           \/ p = "game" /\ {pc[p], pc'[p]} \subseteq {"away", "mfs"}
  <2>1. CASE \E o \in Op : Operate(o)
    BY <2>1 DEF Operate, GameFree, ringVars, InHand, RingInv, TypeOK
  <2>2. CASE MfsReturn
    BY <2>2 DEF MfsReturn, ringVars, InHand, RingInv, TypeOK
  <2>3. CASE MenuGoesOn \/ DrawFrame \/ UNCHANGED vars
    BY <2>3 DEF MenuGoesOn, DrawFrame, vars, ringVars, InHand
  <2>4. CASE TakeFile \/ TakeMenu
    BY <2>4 DEF TakeFile, TakeMenu, Receives, ringVars, InHand
  <2>5. CASE FileDone \/ TrySucceeds \/ TryFails
    BY <2>5 DEF FileDone, TrySucceeds, TryFails, ringVars, InHand
  <2> QED
    BY <2>1, <2>2, <2>3, <2>4, <2>5
<1>2. Announced'
  <2>1. UNCHANGED <<rd, wr>>
    BY <1>1 DEF ringVars
  <2>2. \/ queue' = queue \/ queue' = Append(queue, NULL)
        \/ queue # <<>> /\ Head(queue) = NULL /\ queue' = Tail(queue)
    BY DEF Operate, MfsReturn, MenuGoesOn, DrawFrame, TakeFile, TakeMenu, Receives,
           FileDone, TrySucceeds, TryFails, vars
  <2>3. CASE queue' = queue
    BY <2>1, <2>3 DEF RingInv, Announced, Waiting, Dist
  <2>4. CASE queue' = Append(queue, NULL)
    BY <2>1, <2>4, NullPosted
  <2>5. CASE queue # <<>> /\ Head(queue) = NULL /\ queue' = Tail(queue)
    BY <2>1, <2>5, NullTaken
  <2> QED
    BY <2>2, <2>3, <2>4, <2>5
<1> QED
  BY <1>1, <1>2, RingLeft

LEMMA RingNext ==
  ASSUME RingInv, [Next]_vars
  PROVE  RingInv'
<1>1. TypeOK'
  BY Types DEF RingInv
<1>2. CASE \E p \in Owner : Thread(p)
  BY <1>1, <1>2, WakeRing, PostRing, CollectRing DEF Thread, Steps
<1>3. CASE \E s \in Slots : TakeSlot(s)
  BY <1>1, <1>3, TakeSlotRing
<1>4. CASE TransferDone \/ Answer
  BY <1>1, <1>4, TransferRing, AnswerRing
<1> QED
  BY <1>1, <1>2, <1>3, <1>4, OtherRing DEF Next, Service, Disk, Game

-----------------------------------------------------------------------------
(* The steps of the operations.                                            *)

LEMMA Nulls ==
  ASSUME queue \in Seq(Slots \cup {NULL})
  PROVE  /\ HasNull => queue # <<>>
         /\ queue # <<>> /\ Head(queue) = NULL => HasNull
         /\ queue = <<NULL>> => Head(queue) = NULL /\ Tail(queue) = <<>>
         /\ queue = <<>> => Append(queue, NULL) = <<NULL>>
<1>1. queue # <<>> => Len(queue) \in Nat /\ Len(queue) >= 1 /\ Head(queue) = queue[1]
  OBVIOUS
<1>2. queue # <<>> /\ Head(queue) = NULL => HasNull
  BY <1>1 DEF HasNull
<1>3. HasNull => queue # <<>>
  <2>1. Len(<<>>) = 0
    OBVIOUS
  <2> QED
    BY <2>1 DEF HasNull
<1>4. Head(<<NULL>>) = NULL /\ Tail(<<NULL>>) = <<>> /\ Append(<<>>, NULL) = <<NULL>>
  OBVIOUS
<1> QED
  BY <1>2, <1>3, <1>4

LEMMA EmptyHasNone ==
  ASSUME queue' = <<>>
  PROVE  ~HasNull'
BY DEF HasNull

\* When the sound is silent and the game is about no copy, nothing is under way
\* in the ring.
LEMMA Quiet ==
  ASSUME RingInv, scene = "quiet", pc["game"] \in {"away", "mfs"}
  PROVE  ~InHand /\ (~HasNull => queue = <<>>)
<1>1. \A p \in Owner : nr[p] = 0 /\ replies[p] = 0
  <2>1. Burst("audio") = 0
    BY BurstIs DEF RingInv
  <2>2. nr["game"] = 0 /\ nr["audio"] = 0
    BY <2>1 DEF RingInv, Posters, Owner
  <2> QED
    BY <2>2 DEF RingInv, Posters, Owner
<1>2. \A s \in Slots : ~Waiting(s)
  BY <1>1, NoneDue DEF RingInv, Words, Due
<1>3. ~InHand
  BY <1>1, NoneDue DEF RingInv, Words, Due
<1>4. \A i \in 1..Len(queue) : queue[i] = NULL
  BY <1>2, Ends DEF RingInv, Announced
<1>5. queue # <<>> => 1 \in 1..Len(queue)
  BY DEF RingInv, TypeOK
<1> QED
  BY <1>3, <1>4, <1>5 DEF HasNull

\* Another thread only runs past a NULL while the service thread makes a save.
LEMMA PastNull ==
  ASSUME RingInv, JobsInv, ~ServiceRuns, HasNull
  PROVE  svc = "file" /\ rec \in Menu /\ awaits = rec /\ scene = "quiet"
BY Nulls DEF ServiceRuns, JobsInv, NullAlone, RingInv, TypeOK

LEMMA NoneIsNoOp ==
  None \notin Op /\ None \notin Load /\ None \notin Save /\ None \notin Menu
BY DiskAssumption DEF Op

LEMMA Sorts ==
  ASSUME NEW o \in Op
  PROVE  /\ o \in Load \/ o \in Save \/ o \in Menu
         /\ o \in Load => o \notin Save /\ o \notin Menu
         /\ o \in Save => o \notin Menu
BY DiskAssumption DEF Op

\* A thread that comes to post, or has got its answers.
LEMMA ThreadJobs ==
  ASSUME RingInv, JobsInv, TypeOK', NEW p \in Owner, Thread(p)
  PROVE  JobsInv'
<1>1. UNCHANGED recVars /\ UNCHANGED <<scene, busy, svc>>
  BY DEF Thread, Steps, Wake, Look, Post, Collect, ringVars
<1>2. \A q \in Owner : q # p => pc'[q] = pc[q]
  BY DEF RingInv, TypeOK, Thread, Steps, Wake, Look, Post, Collect
<1>3. /\ pc[p] \in {"away", "look", "post", "wait"}
      /\ pc'[p] \in {"away", "look", "post", "wait"}
  BY DEF RingInv, TypeOK, Thread, Steps, Wake, Look, Post, Collect
<1>4. p = "game" => awaits = None
  <2>1. CASE Wake(p)
    BY <2>1 DEF Wake
  <2>2. CASE ~Wake(p)
    <3>1. pc[p] \in {"look", "post", "wait"}
      BY <2>2 DEF Thread, Steps, Look, Post, Collect
    <3> QED
      BY <3>1 DEF JobsInv, GameAwaits
  <2> QED
    BY <2>1, <2>2
<1>5. GameAwaits'
  <2>1. awaits # None => pc'["game"] = pc["game"]
    BY <1>2, <1>4 DEF Owner
  <2>2. awaits = None => pc'["game"] # "mfs"
    BY <1>2, <1>3 DEF JobsInv, GameAwaits, Owner
  <2> QED
    BY <1>1, <2>1, <2>2, NoneIsNoOp DEF JobsInv, GameAwaits, recVars
<1>6. (HasNull' <=> HasNull) /\ (HasNull => queue' = queue)
  <2>1. CASE queue' = queue
    BY <2>1 DEF HasNull
  <2>2. CASE queue' # queue
    <3>1. MayRun(p) /\ queue' = Append(queue, wr) /\ pc[p] = "post"
      BY <2>2 DEF Thread, Steps, Wake, Look, Post, Collect
    <3>2. ~HasNull
      <4>1. HasNull => scene = "quiet" /\ awaits # None
        BY <3>1, PastNull, NoneIsNoOp DEF MayRun
      <4> QED
        BY <1>4, <3>1, <4>1 DEF RingInv, Gap, Owner
    <3>3. wr # NULL
      BY Ends, DiskAssumption DEF Slots, NULL
    <3>4. ~HasNull'
      BY <3>1, <3>2, <3>3 DEF HasNull, RingInv, TypeOK
    <3> QED
      BY <3>2, <3>4
  <2> QED
    BY <2>1, <2>2
<1> QED
  BY <1>1, <1>5, <1>6
  DEF JobsInv, NullAlone, Trying, Again, Answers, PostedIsKept, HasNull, recVars

\* The service thread about a transfer.
LEMMA TransferJobs ==
  ASSUME RingInv, JobsInv, (\E s \in Slots : TakeSlot(s)) \/ TransferDone \/ Answer
  PROVE  JobsInv'
<1>1. /\ UNCHANGED recVars /\ UNCHANGED <<scene, pc>>
      /\ svc \in {"receive", "transfer", "answer"}
      /\ svc' \in {"receive", "transfer", "answer"}
      /\ svc' = "transfer" => busy'
  BY DEF TakeSlot, TransferDone, Answer, Receives
<1>2. ~HasNull /\ ~HasNull'
  <2>1. CASE TransferDone \/ Answer
    BY <2>1 DEF TransferDone, Answer, JobsInv, NullAlone, HasNull
  <2>2. CASE \E s \in Slots : TakeSlot(s)
    <3>1. PICK s \in Slots : TakeSlot(s)
      BY <2>2
    <3>2. queue # <<>> /\ Head(queue) = s /\ s # NULL /\ queue' = Tail(queue)
      BY <3>1, DiskAssumption DEF TakeSlot, Receives, Slots, NULL
    <3>3. ~HasNull
      BY <3>2, Nulls DEF JobsInv, NullAlone, RingInv, TypeOK
    <3> QED
      BY <3>2, <3>3 DEF HasNull, RingInv, TypeOK
  <2> QED
    BY <2>1, <2>2
<1>3. ~Again
  <2>1. CASE TransferDone \/ Answer
    BY <2>1 DEF TransferDone, Answer, JobsInv, Trying
  <2>2. CASE \E s \in Slots : TakeSlot(s)
    <3>1. Again => scene = "quiet" /\ pc["game"] \in {"away", "mfs"}
      BY NoneIsNoOp DEF JobsInv, Trying, GameAwaits
    <3>2. queue # <<>>
      BY <2>2 DEF TakeSlot, Receives
    <3> QED
      BY <1>2, <3>1, <3>2, Quiet
  <2> QED
    BY <2>1, <2>2
<1>4. ~Again'
  BY <1>1, <1>3 DEF Again, recVars
<1>5. ~taken
  BY <1>1, <1>3 DEF JobsInv, Trying
<1>6. \A o \in Op : state[o] # "posted"
  BY <1>1, <1>2, <1>3 DEF JobsInv, PostedIsKept, HasNull, Again
<1>7. GameAwaits'
  BY <1>1 DEF JobsInv, GameAwaits, recVars
<1>8. Trying'
  <2>1. ~taken' /\ notice' = notice /\ awaits' = awaits /\ state' = state
    BY <1>1, <1>5 DEF recVars
  <2> QED
    BY <1>1, <1>4, <2>1 DEF JobsInv, Trying
<1>9. Answers' /\ NullAlone' /\ PostedIsKept'
  <2>1. state' = state /\ awaits' = awaits /\ mfsQ' = mfsQ
    BY <1>1 DEF recVars
  <2> QED
    BY <1>2, <1>6, <2>1 DEF JobsInv, Answers, NullAlone, PostedIsKept, Op
<1> QED
  BY <1>7, <1>8, <1>9 DEF JobsInv

\* The game finds nothing under way but, perhaps, a save.
LEMMA FreeGame ==
  ASSUME RingInv, JobsInv, GameFree
  PROVE  /\ ~HasNull /\ ~Again /\ ~notice /\ svc \notin {"try", "answer"}
         /\ svc = "receive" => queue = <<>>
         /\ svc = "file" => op \in Save /\ state[op] = "posted"
         /\ \A o \in Op : state[o] = "posted" => Making(o)
         /\ \A o \in Load \cup Menu : state[o] = "idle"
<1>1. ~ServiceRuns /\ pc["game"] = "away" /\ awaits = None
  BY DEF GameFree, MayRun
<1>2. ~HasNull
  BY <1>1, PastNull, NoneIsNoOp
<1>3. ~Again /\ svc # "try" /\ ~notice
  BY <1>1, NoneIsNoOp DEF JobsInv, Trying
<1>4. \A o \in Load \cup Menu : state[o] = "idle"
  BY <1>1, NoneIsNoOp DEF JobsInv, GameAwaits
<1>5. svc = "file" => op \in Save /\ state[op] = "posted"
  BY <1>4 DEF JobsInv, Trying
<1>6. \A o \in Op : state[o] = "posted" => Making(o)
  BY <1>2, <1>3 DEF JobsInv, PostedIsKept, Making, HasNull, Again
<1> QED
  BY <1>1, <1>2, <1>3, <1>4, <1>5, <1>6 DEF ServiceRuns

LEMMA AcceptedJobs ==
  ASSUME RingInv, JobsInv, NEW o \in Op, Operate(o), Accepted(o)
  PROVE  JobsInv'
<1>1. /\ ~HasNull /\ ~Again /\ ~notice /\ svc \notin {"try", "answer"}
      /\ svc = "receive" => queue = <<>>
      /\ svc = "file" => op \in Save /\ state[op] = "posted"
      /\ \A x \in Op : state[x] = "posted" => Making(x)
      /\ \A x \in Load \cup Menu : state[x] = "idle"
  BY FreeGame DEF Operate
<1>2. /\ rec' = o /\ queue' = Append(queue, NULL)
      /\ state' = [state EXCEPT ![o] = "posted"]
      /\ notice' = (IF o \in Menu THEN TRUE ELSE notice)
      /\ pc' = [pc EXCEPT !["game"] = IF o \in Load THEN "mfs" ELSE "away"]
      /\ awaits' = (IF o \in Save THEN None ELSE o)
      /\ UNCHANGED <<scene, op, result, taken, recheck, mfsQ, busy, svc>>
      /\ pc["game"] = "away" /\ awaits = None /\ state[o] = "idle"
      /\ o \in Patient => ~busy
  BY DEF Operate, GameFree
<1>3. \A x \in Op : state'[x] = IF x = o THEN "posted" ELSE state[x]
  BY <1>2 DEF RingInv, TypeOK
<1>4. svc \in {"receive", "transfer", "file"}
  BY <1>1 DEF RingInv, TypeOK
<1>5. svc # "receive" => busy /\ scene = "quiet"
  <2>1. svc # "receive" => busy
    BY <1>4 DEF JobsInv, Trying
  <2>2. scene # "quiet" => o \in Patient
    BY DEF Patient
  <2> QED
    BY <1>2, <2>1, <2>2
<1>6. svc # "transfer"
  BY <1>2, <1>5, Quiet DEF InHand
<1>7. queue = <<>>
  BY <1>1, <1>2, <1>4, <1>5, <1>6, Quiet
<1>8. svc = "file" => o \in Menu /\ o # op
  <2>1. svc = "file" => taken
    BY DEF JobsInv, Trying
  <2> QED
    BY <1>1, <2>1, Sorts DEF Accepted
<1>9. HasNull' /\ queue' = <<NULL>>
  <2>1. queue' = <<NULL>>
    BY <1>2, <1>7
  <2>2. Len(<<NULL>>) = 1 /\ <<NULL>>[1] = NULL
    OBVIOUS
  <2> QED
    BY <2>1, <2>2 DEF HasNull
<1>10. NullAlone'
  BY <1>2, <1>3, <1>4, <1>5, <1>6, <1>8, <1>9, Sorts DEF NullAlone
<1>11. GameAwaits'
  <2>1. pc'["game"] = IF o \in Load THEN "mfs" ELSE "away"
    BY <1>2 DEF RingInv, TypeOK, Owner
  <2>2. o \in Save => o \notin Load /\ o \notin Menu
    BY Sorts
  <2>3. awaits' # None => awaits' = o
    BY <1>2
  <2>4. \A x \in Load \cup Menu : state'[x] # "idle" => x = o /\ awaits' = o
    BY <1>1, <1>2, <1>3, <2>2 DEF Op
  <2>5. awaits' \in Load <=> pc'["game"] = "mfs"
    BY <1>2, <2>1, <2>2, NoneIsNoOp
  <2>6. awaits' \notin Save
    BY <1>2, NoneIsNoOp
  <2>7. awaits' = None => pc'["game"] # "mfs"
    BY <2>5, NoneIsNoOp
  <2> QED
    BY <1>3, <2>1, <2>3, <2>4, <2>5, <2>6, <2>7 DEF GameAwaits
<1>12. Trying'
  <2>1. ~Again'
    BY <1>1, <1>2 DEF Again
  <2>2. taken' <=> svc' = "file"
    BY <1>1, <1>2 DEF JobsInv, Trying
  <2>3. taken' \/ svc' = "transfer" => busy'
    BY <1>2 DEF JobsInv, Trying
  <2>4. notice' => awaits' \in Menu /\ state'[awaits'] = "posted"
    BY <1>1, <1>2, <1>3, Sorts
  <2>5. svc' = "file" => op' \in Load \cup Save /\ state'[op'] = "posted"
    BY <1>1, <1>2, <1>3 DEF Op
  <2> QED
    BY <1>1, <1>2, <2>1, <2>2, <2>3, <2>4, <2>5 DEF Trying
<1>13. Answers'
  BY <1>9 DEF Answers
<1>14. PostedIsKept'
  BY <1>1, <1>2, <1>3, <1>9 DEF PostedIsKept, Making, HasNull
<1> QED
  BY <1>10, <1>11, <1>12, <1>13, <1>14 DEF JobsInv

\* Only a save is ever refused here.
LEMMA RefusedJobs ==
  ASSUME RingInv, JobsInv, NEW o \in Op, Operate(o), ~Accepted(o)
  PROVE  JobsInv'
<1>1. ~notice /\ ~Again /\ svc # "try"
  BY FreeGame DEF Operate
<1>2. taken /\ o \notin Menu /\ busy
  BY <1>1 DEF Accepted, JobsInv, Trying
<1>3. o \notin Load
  BY <1>2 DEF Operate, Patient, Op
<1>4. o \in Save
  BY <1>2, <1>3, Sorts
<1>5. /\ pc' = [pc EXCEPT !["game"] = "away"] /\ pc["game"] = "away"
      /\ awaits' = None /\ awaits = None
      /\ UNCHANGED <<scene, rec, queue, state, notice, op, result, taken, recheck, mfsQ,
                     busy, svc>>
  BY <1>3, <1>4 DEF Operate, GameFree
<1>6. pc'["game"] = "away"
  BY <1>5 DEF RingInv, TypeOK, Owner
<1>7. HasNull' <=> HasNull
  BY <1>5 DEF HasNull
<1>8. GameAwaits'
  BY <1>5, <1>6 DEF JobsInv, GameAwaits
<1> QED
  BY <1>5, <1>7, <1>8
  DEF JobsInv, NullAlone, Trying, Again, Answers, PostedIsKept, HasNull

\* What MfsReturn and MenuGoesOn find: the operation has been made.
LEMMA ReturnsWhenDone ==
  ASSUME RingInv, JobsInv, MfsReturn \/ MenuGoesOn
  PROVE  /\ awaits \in Load \cup Menu /\ state[awaits] = "done"
         /\ ~HasNull /\ ~notice
<1>1. CASE MfsReturn
  <2>1. awaits \in Load /\ mfsQ # None /\ ~ServiceRuns
    BY <1>1 DEF MfsReturn, MayRun, JobsInv, GameAwaits
  <2>2. awaits \notin Menu /\ awaits # None
    BY <2>1, Sorts, NoneIsNoOp DEF Op
  <2>3. ~HasNull
    BY <2>1, <2>2, PastNull
  <2>4. state[awaits] # "posted" /\ state[awaits] # "idle"
    BY <2>1, <2>2, <2>3 DEF JobsInv, Answers, GameAwaits
  <2>5. state[awaits] = "done"
    BY <2>1, <2>4 DEF RingInv, TypeOK, Op
  <2>6. ~notice
    BY <2>2 DEF JobsInv, Trying
  <2> QED
    BY <2>1, <2>3, <2>5, <2>6
<1>2. CASE MenuGoesOn
  <2>1. awaits \in Menu /\ ~busy /\ ~ServiceRuns
    BY <1>2 DEF MenuGoesOn, MayRun
  <2>2. ~taken /\ ~Again /\ svc \notin {"file", "try", "transfer"}
    BY <2>1 DEF JobsInv, Trying
  <2>3. svc = "receive" /\ ~HasNull
    BY <2>1, <2>2, Nulls DEF ServiceRuns, RingInv, TypeOK
  <2>4. state[awaits] # "posted"
    BY <2>1, <2>2, <2>3 DEF JobsInv, PostedIsKept, HasNull, Again, Op
  <2>5. state[awaits] # "idle"
    BY <2>1, NoneIsNoOp DEF JobsInv, GameAwaits
  <2>6. state[awaits] = "done"
    BY <2>1, <2>4, <2>5 DEF RingInv, TypeOK, Op
  <2>7. ~notice
    BY <2>4 DEF JobsInv, Trying
  <2> QED
    BY <2>1, <2>3, <2>6, <2>7
<1> QED
  BY <1>1, <1>2

LEMMA ReturnJobs ==
  ASSUME RingInv, JobsInv, MfsReturn \/ MenuGoesOn
  PROVE  JobsInv'
<1>1. /\ awaits \in Load \cup Menu /\ state[awaits] = "done"
      /\ ~HasNull /\ ~notice
  BY ReturnsWhenDone
<1>2. /\ awaits' = None /\ state' = [state EXCEPT ![awaits] = "idle"]
      /\ UNCHANGED <<scene, rec, op, notice, result, taken, recheck, queue, busy, svc>>
  BY DEF MfsReturn, MenuGoesOn
<1>3. \A x \in Op : state'[x] = IF x = awaits THEN "idle" ELSE state[x]
  BY <1>2 DEF RingInv, TypeOK
<1>4. pc'["game"] = "away"
  <2>1. CASE MfsReturn
    BY <2>1 DEF MfsReturn, RingInv, TypeOK, Owner
  <2>2. CASE MenuGoesOn
    <3>1. awaits \notin Load /\ awaits # None
      BY <2>2, Sorts, NoneIsNoOp DEF MenuGoesOn, Op
    <3> QED
      BY <2>2, <3>1 DEF MenuGoesOn, JobsInv, GameAwaits
  <2> QED
    BY <2>1, <2>2
<1>5. ~HasNull'
  BY <1>1, <1>2 DEF HasNull
<1>6. GameAwaits'
  <2>1. \A x \in Load \cup Menu : state'[x] = "idle"
    BY <1>3 DEF JobsInv, GameAwaits, Op
  <2> QED
    BY <1>2, <1>4, <2>1, NoneIsNoOp DEF GameAwaits
<1>7. ~Again /\ svc # "try"
  BY <1>1 DEF JobsInv, Trying
<1>8. Trying'
  <2>1. svc = "file" => op \in Load \cup Save /\ state'[op] = "posted"
    BY <1>1, <1>3 DEF JobsInv, Trying, Op
  <2> QED
    BY <1>1, <1>2, <1>7, <2>1 DEF JobsInv, Trying, Again
<1>9. NullAlone' /\ Answers'
  BY <1>2, <1>5, NoneIsNoOp DEF NullAlone, Answers
<1>10. PostedIsKept'
  <2>1. \A x \in Op : state'[x] = "posted" => state[x] = "posted"
    BY <1>3
  <2> QED
    BY <1>2, <2>1 DEF JobsInv, PostedIsKept
<1> QED
  BY <1>6, <1>8, <1>9, <1>10 DEF JobsInv

LEMMA DrawFrameJobs ==
  ASSUME RingInv, JobsInv, DrawFrame
  PROVE  JobsInv'
<1>1. /\ ~ServiceRuns /\ Again /\ queue' = Append(queue, NULL)
      /\ UNCHANGED recVars /\ UNCHANGED <<scene, busy, svc, pc>>
  BY DEF DrawFrame, MayRun, Again
<1>2. svc = "receive" /\ rec \in Menu /\ state[rec] = "posted"
  BY <1>1 DEF JobsInv, Trying
<1>3. queue' = <<NULL>>
  BY <1>1, <1>2, Nulls DEF ServiceRuns, RingInv, TypeOK
<1>4. HasNull'
  <2>1. Len(<<NULL>>) = 1 /\ <<NULL>>[1] = NULL
    OBVIOUS
  <2> QED
    BY <1>3, <2>1 DEF HasNull
<1>5. NullAlone'
  BY <1>1, <1>2, <1>3 DEF NullAlone, recVars, Op
<1>6. PostedIsKept'
  BY <1>1, <1>2 DEF JobsInv, PostedIsKept, Again, recVars
<1> QED
  BY <1>1, <1>4, <1>5, <1>6
  DEF JobsInv, GameAwaits, Trying, Again, Answers, recVars

\* The NULL that is received is the only message.
LEMMA TakeNullJobs ==
  ASSUME RingInv, JobsInv, TakeFile \/ TakeMenu
  PROVE  JobsInv'
<1>1. /\ svc = "receive" /\ queue # <<>> /\ Head(queue) = NULL /\ queue' = Tail(queue)
      /\ busy' /\ taken' /\ op' = rec
      /\ UNCHANGED <<scene, rec, notice, awaits, state, pc>>
  BY DEF TakeFile, TakeMenu, Receives
<1>2. queue = <<NULL>> /\ rec \in Op /\ state[rec] = "posted"
  BY <1>1, Nulls DEF JobsInv, NullAlone, RingInv, TypeOK
<1>3. queue' = <<>> /\ ~HasNull'
  <2>1. queue' = <<>>
    BY <1>1, <1>2, Nulls DEF RingInv, TypeOK
  <2> QED
    BY <2>1, EmptyHasNone
<1>4. \A x \in Op : state[x] = "posted" => x = rec
  BY <1>1 DEF JobsInv, PostedIsKept
<1>5. ~Again'
  <2>1. CASE TakeFile
    <3>1. ~Again /\ result' = result
      BY <2>1 DEF TakeFile, JobsInv, Trying
    <3> QED
      BY <3>1 DEF Again
  <2>2. CASE TakeMenu
    BY <2>2 DEF TakeMenu, Again
  <2> QED
    BY <2>1, <2>2
<1>6. /\ svc' = "file" => op' \in Load \cup Save
      /\ svc' = "try" => op' \in Menu /\ awaits = rec
      /\ svc' \in {"file", "try"}
  <2>1. CASE TakeFile
    BY <1>2, <2>1 DEF TakeFile, Op
  <2>2. CASE TakeMenu
    BY <1>2, <2>2 DEF TakeMenu, JobsInv, GameAwaits
  <2> QED
    BY <2>1, <2>2
<1>7. Trying'
  BY <1>1, <1>2, <1>5, <1>6 DEF JobsInv, Trying
<1>8. Answers'
  <2>1. CASE TakeFile
    BY <2>1 DEF TakeFile, Answers
  <2>2. CASE TakeMenu
    <3>1. awaits \notin Load
      BY <1>2, <2>2, Sorts DEF TakeMenu, JobsInv, GameAwaits
    <3> QED
      BY <1>1, <3>1 DEF Answers
  <2> QED
    BY <2>1, <2>2
<1>9. NullAlone' /\ GameAwaits'
  BY <1>1, <1>3 DEF JobsInv, NullAlone, GameAwaits
<1>10. PostedIsKept'
  BY <1>1, <1>4, <1>6 DEF PostedIsKept
<1> QED
  BY <1>7, <1>8, <1>9, <1>10 DEF JobsInv

LEMMA FileDoneJobs ==
  ASSUME RingInv, JobsInv, FileDone
  PROVE  JobsInv'
<1>1. /\ svc = "file" /\ svc' = "receive" /\ ~taken' /\ ~busy' /\ mfsQ' = op
      /\ state' = [state EXCEPT ![op] = IF op \in Save THEN "idle" ELSE "done"]
      /\ UNCHANGED <<scene, rec, op, notice, result, awaits, queue, pc>>
  BY DEF FileDone
<1>2. op \in Load \cup Save /\ op \notin Menu /\ state[op] = "posted" /\ op \in Op
  <2>1. op \in Load \cup Save /\ state[op] = "posted"
    BY <1>1 DEF JobsInv, Trying
  <2> QED
    BY <2>1, Sorts DEF Op
<1>3. \A x \in Op : state'[x] = IF x = op THEN (IF op \in Save THEN "idle" ELSE "done")
                                ELSE state[x]
  BY <1>1, <1>2 DEF RingInv, TypeOK
<1>4. ~Again /\ ~Again'
  BY <1>1 DEF JobsInv, Trying, Again
<1>5. HasNull' <=> HasNull
  BY <1>1 DEF HasNull
<1>6. HasNull => queue = <<NULL>> /\ rec \in Menu /\ rec # op /\ state[rec] = "posted"
  BY <1>1 DEF JobsInv, NullAlone
<1>7. NullAlone'
  BY <1>1, <1>3, <1>5, <1>6 DEF NullAlone, Op
<1>8. GameAwaits'
  <2>1. \A x \in Load \cup Menu : state'[x] # "idle" => awaits = x
    BY <1>2, <1>3 DEF JobsInv, GameAwaits, Op
  <2>2. awaits # None => state'[awaits] # "idle"
    <3>1. awaits # None => awaits \in Op /\ awaits \notin Save /\ state[awaits] # "idle"
      BY DEF JobsInv, GameAwaits, RingInv, TypeOK
    <3> QED
      BY <1>3, <3>1
  <2> QED
    BY <1>1, <2>1, <2>2 DEF JobsInv, GameAwaits
<1>9. Trying'
  <2>1. notice => awaits \in Menu /\ state'[awaits] = "posted"
    BY <1>2, <1>3 DEF JobsInv, Trying, Op
  <2> QED
    BY <1>1, <1>4, <2>1 DEF Trying
<1>10. Answers'
  <2>1. ASSUME awaits \in Load, state'[awaits] = "posted"
        PROVE  FALSE
    <3>1. awaits \in Op /\ awaits # op /\ state[awaits] = "posted"
      BY <1>3, <2>1 DEF Op
    <3>2. rec = awaits /\ HasNull
      BY <1>4, <3>1 DEF JobsInv, PostedIsKept, HasNull, Again
    <3> QED
      BY <1>6, <2>1, <3>1, <3>2, Sorts
  <2> QED
    BY <1>1, <2>1 DEF Answers
<1>11. PostedIsKept'
  <2>1. \A x \in Op : state'[x] = "posted" => x # op /\ state[x] = "posted"
    BY <1>3
  <2> QED
    BY <1>1, <2>1 DEF JobsInv, PostedIsKept
<1> QED
  BY <1>7, <1>8, <1>9, <1>10, <1>11 DEF JobsInv

LEMMA TryJobs ==
  ASSUME RingInv, JobsInv, TrySucceeds \/ TryFails
  PROVE  JobsInv'
<1>1. /\ svc = "try" /\ svc' = "receive"
      /\ UNCHANGED <<rec, op, mfsQ, awaits, queue, pc, scene>>
  BY DEF TrySucceeds, TryFails
<1>2. op \in Menu /\ rec = op /\ state[op] = "posted" /\ awaits = op /\ op \in Op
  BY <1>1 DEF JobsInv, Trying, Op
<1>3. ~HasNull /\ ~HasNull'
  BY <1>1 DEF JobsInv, NullAlone, HasNull
<1>4. ~Again /\ taken
  BY <1>1 DEF JobsInv, Trying
<1>5. \A x \in Op : state[x] = "posted" => x = op
  BY <1>2, <1>3 DEF JobsInv, PostedIsKept, HasNull, Again
<1>6. awaits \notin Load /\ awaits # None /\ awaits \notin Save
  BY <1>2, Sorts, NoneIsNoOp
<1>7. NullAlone' /\ Answers'
  BY <1>1, <1>3, <1>6 DEF NullAlone, Answers
<1>8. CASE TrySucceeds
  <2>1. /\ ~notice' /\ result' = 0 /\ ~busy' /\ ~taken'
        /\ state' = [state EXCEPT ![op] = "done"]
    BY <1>8 DEF TrySucceeds
  <2>2. \A x \in Op : state'[x] = IF x = op THEN "done" ELSE state[x]
    BY <2>1 DEF RingInv, TypeOK
  <2>3. GameAwaits'
    <3>1. \A x \in Load \cup Menu : state'[x] # "idle" => awaits = x
      BY <1>2, <2>2 DEF JobsInv, GameAwaits, Op
    <3> QED
      BY <1>1, <1>2, <2>2, <3>1 DEF JobsInv, GameAwaits
  <2>4. Trying'
    BY <1>1, <2>1 DEF Trying, Again
  <2>5. PostedIsKept'
    BY <1>5, <2>2 DEF PostedIsKept
  <2> QED
    BY <1>7, <2>3, <2>4, <2>5 DEF JobsInv
<1>9. CASE TryFails
  <2>1. scene = "quiet" /\ Again' /\ UNCHANGED <<taken, state, busy>>
    BY <1>9 DEF TryFails, Again
  <2>2. GameAwaits'
    BY <1>1, <2>1 DEF JobsInv, GameAwaits
  <2>3. Trying'
    BY <1>1, <1>2, <1>4, <2>1 DEF JobsInv, Trying
  <2>4. PostedIsKept'
    BY <1>1, <1>2, <1>5, <2>1 DEF PostedIsKept, Again
  <2> QED
    BY <1>7, <2>2, <2>3, <2>4 DEF JobsInv
<1> QED
  BY <1>8, <1>9

LEMMA JobsNext ==
  ASSUME RingInv, JobsInv, [Next]_vars
  PROVE  JobsInv'
<1>1. TypeOK'
  BY RingNext DEF RingInv
<1>2. CASE \E o \in Op : Operate(o)
  BY <1>2, AcceptedJobs, RefusedJobs
<1>3. CASE UNCHANGED vars
  BY <1>3 DEF JobsInv, NullAlone, HasNull, GameAwaits, Trying, Again, Answers,
              PostedIsKept, vars, recVars
<1> QED
  BY <1>1, <1>2, <1>3, ThreadJobs, TransferJobs, ReturnJobs, DrawFrameJobs,
     TakeNullJobs, FileDoneJobs, TryJobs DEF Next, Service, Disk, Game

-----------------------------------------------------------------------------
(* The theorems.                                                           *)

LEMMA InitInv == Init => IInv
<1> SUFFICES ASSUME Init
             PROVE  IInv
  OBVIOUS
<1>1. 0 \in Slots /\ RingLen + 1 \in Nat
  BY DiskAssumption DEF Slots
<1>2. TypeOK
  BY <1>1, DiskAssumption DEF Init, TypeOK
<1>3. Len(queue) = 0 /\ svc = "receive" /\ ~InHand
  BY DEF Init, InHand
<1>4. \A p \in Owner : nr[p] = 0 /\ replies[p] = 0 /\ pc[p] = "away"
  BY DEF Init
<1>5. Dist(rd, wr) = 0 /\ \A s \in Slots : ~Waiting(s)
  <2>1. Dist(rd, wr) = 0 /\ rd \in Slots
    BY <1>1, Farthest DEF Init
  <2>2. \A s \in Slots : Dist(rd, s) \in Nat
    BY <2>1, DistIs
  <2> QED
    BY <2>1, <2>2 DEF Waiting
<1>6. Posters
  <2>1. \A p \in Owner : Burst(p) \in Nat
    BY <1>2, BurstIs DEF Owner
  <2> QED
    BY <1>4, <2>1 DEF Posters
<1>7. Announced /\ Words
  BY <1>3, <1>5 DEF Announced, Words
<1>8. Outstanding = 0
  BY <1>4 DEF Outstanding, Owner
<1>9. Gap
  BY <1>3, <1>4, <1>5, <1>8 DEF Gap, Owner
<1>10. RingInv
  BY <1>2, <1>6, <1>7, <1>9 DEF RingInv
<1>11. ~HasNull /\ ~Again /\ \A o \in Op : state[o] = "idle"
  BY <1>3 DEF Init, HasNull, Again
<1>12. JobsInv
  BY <1>3, <1>4, <1>11, NoneIsNoOp
  DEF Init, JobsInv, NullAlone, GameAwaits, Trying, Answers, PostedIsKept, Owner, Op
<1> QED
  BY <1>10, <1>12 DEF IInv

LEMMA NextInv == IInv /\ [Next]_vars => IInv'
BY RingNext, JobsNext DEF IInv

LEMMA Invariant == Spec => []IInv
BY InitInv, NextInv, PTL DEF Spec

\* The slot, the record and the flags of the service thread hold values of their
\* types.
THEOREM TypeCorrect == Spec => []TypeOK
<1>1. IInv => TypeOK
  BY DEF IInv, RingInv
<1> QED
  BY <1>1, Invariant, PTL

\* The slot of the transfer in hand is not written again before its words have been
\* read for the last time, and the transfer is one that somebody waits for.
THEOREM SlotsAreWhole == Spec => []HandIsWhole
<1>1. IInv => HandIsWhole
  BY DEF IInv, RingInv, Words, InHand, HandIsWhole
<1> QED
  BY <1>1, Invariant, PTL

\* The operation that has been posted in the one record is not lost.
THEOREM NothingPostedIsLost == Spec => []PostedIsKept
<1>1. IInv => PostedIsKept
  BY DEF IInv, JobsInv
<1> QED
  BY <1>1, Invariant, PTL

\* The game goes on from a load or from an operation of the menus when it has been
\* made, never on the answer or on the flag of another.
THEOREM GameGoesOnWhenDone == Spec => GoesOnWhenDone
<1>1. IInv => [MfsReturn \/ MenuGoesOn => state[awaits] = "done"]_vars
  BY ReturnsWhenDone DEF IInv
<1> QED
  BY <1>1, Invariant, PTL DEF GoesOnWhenDone
=============================================================================
