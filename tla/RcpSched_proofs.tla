--------------------------- MODULE RcpSched_proofs ---------------------------
(***************************************************************************)
(* Proofs about RcpSched, for every length of the queue, every bound and   *)
(* every set of frame rates that the ASSUMEs of RcpSched allow.            *)
(***************************************************************************)
EXTENDS RcpSched, TLAPS, FiniteSetTheorems

-----------------------------------------------------------------------------
(* Counting the messages of a queue.                                       *)

\* The number of messages of a kind is a natural number.
LEMMA PendingType ==
  ASSUME NEW S, NEW q \in Seq(S), NEW e
  PROVE  /\ IsFiniteSet({i \in DOMAIN q : q[i] = e})
         /\ Pending(q, e) \in Nat
<1>1. IsFiniteSet(1..Len(q))
  BY FS_Interval
<1>2. {i \in DOMAIN q : q[i] = e} \in SUBSET (1..Len(q))
  OBVIOUS
<1>3. IsFiniteSet({i \in DOMAIN q : q[i] = e})
  BY <1>1, <1>2, FS_Subset
<1> QED
  BY <1>3, FS_CardinalityType DEF Pending

\* osSendMesg adds one message of its kind.
LEMMA PendingAppend ==
  ASSUME NEW S, NEW q \in Seq(S), NEW x \in S, NEW e
  PROVE  Pending(Append(q, x), e) = Pending(q, e) + B(x = e)
<1> DEFINE old == {i \in DOMAIN q : q[i] = e}
           new == {i \in DOMAIN Append(q, x) : Append(q, x)[i] = e}
<1>1. IsFiniteSet(old) /\ Cardinality(old) \in Nat
  BY PendingType DEF Pending
<1>2. Len(q) + 1 \notin old
  OBVIOUS
<1>3. CASE x = e
  <2>1. new = old \cup {Len(q) + 1}
    BY <1>3
  <2>2. Cardinality(new) = Cardinality(old) + 1
    BY <1>1, <1>2, <2>1, FS_AddElement
  <2> QED
    BY <1>3, <2>2 DEF Pending, B
<1>4. CASE x # e
  <2>1. new = old
    BY <1>4
  <2>2. Pending(Append(q, x), e) = Pending(q, e) /\ B(x = e) = 0
    BY <1>4, <2>1 DEF Pending, B
  <2>3. Pending(q, e) \in Nat
    BY PendingType
  <2> HIDE DEF old, new
  <2> QED
    BY <2>2, <2>3
<1> QED
  BY <1>3, <1>4

\* osRecvMesg takes one message of the kind at the head away.
LEMMA PendingTail ==
  ASSUME NEW S, NEW q \in Seq(S), q # <<>>, NEW e
  PROVE  Pending(q, e) = Pending(Tail(q), e) + B(Head(q) = e)
<1> DEFINE old == {i \in DOMAIN q : q[i] = e}
           rest == old \ {1}
           new == {i \in DOMAIN Tail(q) : Tail(q)[i] = e}
           f == [i \in new |-> i + 1]
<1>1. IsFiniteSet(old) /\ Cardinality(old) \in Nat
  BY PendingType DEF Pending
<1>2. Tail(q) \in Seq(S)
  OBVIOUS
<1>3. IsFiniteSet(new) /\ Cardinality(new) \in Nat
  BY <1>2, PendingType DEF Pending
<1>4. \A i \in new : i + 1 \in rest
  OBVIOUS
<1>5. \A j \in rest : j - 1 \in new /\ f[j - 1] = j
  OBVIOUS
<1>6. f \in Bijection(new, rest)
  <2>1. f \in [new -> rest]
    BY <1>4
  <2>2. \A i, j \in new : f[i] = f[j] => i = j
    OBVIOUS
  <2>3. \A j \in rest : \E i \in new : f[i] = j
    BY <1>5
  <2> QED
    BY <2>1, <2>2, <2>3 DEF Bijection, Injection, Surjection, IsInjective
<1>7. Cardinality(rest) = Cardinality(new)
  BY <1>3, <1>6, FS_Bijection DEF ExistsBijection
<1>8. 1 \in old <=> Head(q) = e
  OBVIOUS
<1>9. Cardinality(rest) = IF 1 \in old THEN Cardinality(old) - 1
                                       ELSE Cardinality(old)
  BY <1>1, FS_RemoveElement
<1>10. CASE Head(q) = e
  <2>1. Cardinality(old) = Cardinality(new) + 1
    <3> HIDE DEF old, new, rest, f
    <3> QED BY <1>1, <1>3, <1>7, <1>8, <1>9, <1>10
  <2> QED
    BY <1>10, <2>1 DEF Pending, B
<1>11. CASE Head(q) # e
  <2>1. Cardinality(old) = Cardinality(new) /\ B(Head(q) = e) = 0
    BY <1>7, <1>8, <1>9, <1>11 DEF B
  <2>2. Pending(q, e) = Pending(Tail(q), e)
    BY <2>1 DEF Pending
  <2>3. Pending(Tail(q), e) \in Nat
    BY <1>2, PendingType
  <2> HIDE DEF old, new, rest, f
  <2> QED
    BY <2>1, <2>2, <2>3
<1> QED
  BY <1>10, <1>11

\* The cardinality of a disjoint union.
LEMMA CardDisjoint ==
  ASSUME NEW S, IsFiniteSet(S), NEW T, IsFiniteSet(T), S \cap T = {}
  PROVE  /\ IsFiniteSet(S \cup T)
         /\ Cardinality(S \cup T) = Cardinality(S) + Cardinality(T)
         /\ Cardinality(S) \in Nat /\ Cardinality(T) \in Nat
<1>1. /\ IsFiniteSet(S \cup T)
      /\ Cardinality(S \cup T) = Cardinality(S) + Cardinality(T) - Cardinality(S \cap T)
  BY FS_Union
<1>2. Cardinality(S) \in Nat /\ Cardinality(T) \in Nat
  BY FS_CardinalityType
<1>3. Cardinality(S \cap T) = 0
  BY FS_EmptySet
<1> QED
  BY <1>1, <1>2, <1>3

\* The length of the queue is the sum of what waits in it.
LEMMA PendingLen ==
  ASSUME NEW q \in Seq(Events)
  PROVE  Len(q) = Pending(q, "SP") + Pending(q, "DP") + Pending(q, "VI")
                  + Pending(q, "AUDIO_SET") + Pending(q, "GFX_SET")
<1> DEFINE At(e) == {i \in DOMAIN q : q[i] = e}
<1>1. /\ IsFiniteSet(At("SP")) /\ IsFiniteSet(At("DP")) /\ IsFiniteSet(At("VI"))
      /\ IsFiniteSet(At("AUDIO_SET")) /\ IsFiniteSet(At("GFX_SET"))
  BY PendingType
<1>2. /\ Pending(q, "SP") = Cardinality(At("SP"))
      /\ Pending(q, "DP") = Cardinality(At("DP"))
      /\ Pending(q, "VI") = Cardinality(At("VI"))
      /\ Pending(q, "AUDIO_SET") = Cardinality(At("AUDIO_SET"))
      /\ Pending(q, "GFX_SET") = Cardinality(At("GFX_SET"))
  BY DEF Pending
<1>3. (At("SP") \cup At("DP") \cup At("VI") \cup At("AUDIO_SET"))
         \cup At("GFX_SET") = 1..Len(q)
  BY DEF Events
<1>4. Cardinality(1..Len(q)) = Len(q)
  <2>1. Len(q) \in Nat
    OBVIOUS
  <2> QED
    BY <2>1, FS_Interval
<1>5. /\ At("SP") \cap At("DP") = {}
      /\ (At("SP") \cup At("DP")) \cap At("VI") = {}
      /\ (At("SP") \cup At("DP") \cup At("VI")) \cap At("AUDIO_SET") = {}
      /\ (At("SP") \cup At("DP") \cup At("VI") \cup At("AUDIO_SET"))
            \cap At("GFX_SET") = {}
  OBVIOUS
<1> HIDE DEF At
<1>6. /\ IsFiniteSet(At("SP") \cup At("DP"))
      /\ Cardinality(At("SP") \cup At("DP"))
           = Cardinality(At("SP")) + Cardinality(At("DP"))
      /\ Cardinality(At("SP")) \in Nat /\ Cardinality(At("DP")) \in Nat
  BY <1>1, <1>5, CardDisjoint
<1>7. /\ IsFiniteSet(At("SP") \cup At("DP") \cup At("VI"))
      /\ Cardinality(At("SP") \cup At("DP") \cup At("VI"))
           = Cardinality(At("SP") \cup At("DP")) + Cardinality(At("VI"))
      /\ Cardinality(At("VI")) \in Nat
  BY <1>1, <1>5, <1>6, CardDisjoint
<1>8. /\ IsFiniteSet(At("SP") \cup At("DP") \cup At("VI") \cup At("AUDIO_SET"))
      /\ Cardinality(At("SP") \cup At("DP") \cup At("VI") \cup At("AUDIO_SET"))
           = Cardinality(At("SP") \cup At("DP") \cup At("VI"))
             + Cardinality(At("AUDIO_SET"))
      /\ Cardinality(At("AUDIO_SET")) \in Nat
  BY <1>1, <1>5, <1>7, CardDisjoint
<1>9. /\ Cardinality(1..Len(q))
           = Cardinality(At("SP") \cup At("DP") \cup At("VI") \cup At("AUDIO_SET"))
             + Cardinality(At("GFX_SET"))
      /\ Cardinality(At("GFX_SET")) \in Nat
  BY <1>1, <1>3, <1>5, <1>8, CardDisjoint
<1> QED
  BY <1>2, <1>4, <1>6, <1>7, <1>8, <1>9

-----------------------------------------------------------------------------
(* What a step does to the counts of the main thread's queue.              *)

Counted(q) == \A e \in Events : Pending(q, e) \in Nat

\* Only the count of e differs between q and r, by one.
OneMore(q, r, e) ==
  /\ Pending(q, e) = Pending(r, e) + 1
  /\ \A k \in Events \ {e} : Pending(q, k) = Pending(r, k)

LEMMA CountedSeq ==
  ASSUME NEW q \in Seq(Events)
  PROVE  Counted(q)
BY PendingType DEF Counted

\* Handling a message takes it out of the queue.
LEMMA ReceiveCounts ==
  ASSUME mainQ \in Seq(Events), NEW e \in Events, Receive(e)
  PROVE  /\ mainQ' \in Seq(Events)
         /\ Counted(mainQ) /\ Counted(mainQ')
         /\ OneMore(mainQ, mainQ', e)
<1>1. /\ mainQ # <<>> /\ Head(mainQ) = e
      /\ mainQ' = Tail(mainQ) /\ mainQ' \in Seq(Events)
  BY DEF Receive
<1>2. Counted(mainQ) /\ Counted(mainQ')
  BY <1>1, CountedSeq
<1>3. \A k : Pending(mainQ, k) = Pending(mainQ', k) + B(e = k)
  BY <1>1, PendingTail
<1>4. B(e = e) = 1
  BY DEF B
<1>5. \A k \in Events \ {e} : B(e = k) = 0
  BY DEF B
<1> QED
  BY <1>1, <1>2, <1>3, <1>4, <1>5 DEF OneMore, Counted

\* Sending a message puts it into the queue.
LEMMA SendCounts ==
  ASSUME mainQ \in Seq(Events), NEW e \in Events, mainQ' = Append(mainQ, e)
  PROVE  /\ mainQ' \in Seq(Events)
         /\ Counted(mainQ) /\ Counted(mainQ')
         /\ OneMore(mainQ', mainQ, e)
<1>1. mainQ' \in Seq(Events)
  OBVIOUS
<1>2. Counted(mainQ) /\ Counted(mainQ')
  BY <1>1, CountedSeq
<1>3. \A k : Pending(mainQ', k) = Pending(mainQ, k) + B(e = k)
  BY PendingAppend
<1>4. B(e = e) = 1
  BY DEF B
<1>5. \A k \in Events \ {e} : B(e = k) = 0
  BY DEF B
<1> QED
  BY <1>1, <1>2, <1>3, <1>4, <1>5 DEF OneMore, Counted

\* No message waits when the queue is empty.
LEMMA EmptyCounts ==
  ASSUME mainQ = <<>>
  PROVE  \A e \in Events : Pending(mainQ, e) = 0
<1> SUFFICES ASSUME NEW e \in Events
             PROVE  Pending(mainQ, e) = 0
  OBVIOUS
<1>1. {i \in DOMAIN mainQ : mainQ[i] = e} = {}
  OBVIOUS
<1> QED
  BY <1>1, FS_EmptySet DEF Pending

-----------------------------------------------------------------------------
(* Consequences of the invariant.                                          *)

\* A frame is in at most one place, and then the game thread has set it.
LEMMA OnePlace ==
  ASSUME IInv
  PROVE  /\ FramesInFlight \in Nat
         /\ Pending(mainQ, "GFX_SET") \in {0, 1} /\ Pending(mainQ, "DP") \in {0, 1}
         /\ rdpSyncs \in {0, 1}
         /\ Pending(mainQ, "GFX_SET") = 1 \/ gfxTaskQueued
             \/ (rspTask \in GfxTasks /\ ~rspSynced) \/ spYielded \/ gfxTaskYielded
             \/ rdpSyncs = 1 \/ Pending(mainQ, "DP") = 1 \/ dpQ
            => gamePc \in {"tick", "build", "sync", "dp"} /\ curGfx \in GfxTasks
         /\ Pending(mainQ, "GFX_SET") = 1 =>
              /\ ~gfxTaskQueued /\ ~(rspTask \in GfxTasks /\ ~rspSynced)
              /\ ~spYielded /\ ~gfxTaskYielded
         /\ gfxTaskQueued => /\ ~(rspTask \in GfxTasks /\ ~rspSynced)
                             /\ ~spYielded /\ ~gfxTaskYielded
         /\ rspTask \in GfxTasks /\ ~rspSynced => ~spYielded /\ ~gfxTaskYielded
         /\ spYielded => ~gfxTaskYielded
         /\ rdpSyncs = 1 => Pending(mainQ, "DP") = 0
         /\ Pending(mainQ, "DP") = 1 => ~dpQ
<1> DEFINE a == Pending(mainQ, "GFX_SET")
           b == B(gfxTaskQueued)
           c == B(rspTask \in GfxTasks /\ ~rspSynced)
           d == B(spYielded)
           e == B(gfxTaskYielded)
           f == rdpSyncs
           g == Pending(mainQ, "DP")
           h == B(dpQ)
           n == B(gamePc \in {"tick", "build", "sync", "dp"})
<1>1. a \in Nat /\ f \in Nat /\ g \in Nat
  BY CountedSeq DEF IInv, TypeOK, Counted, Events
<1>2. /\ b \in {0, 1} /\ (b = 1 <=> gfxTaskQueued)
      /\ c \in {0, 1} /\ (c = 1 <=> rspTask \in GfxTasks /\ ~rspSynced)
      /\ d \in {0, 1} /\ (d = 1 <=> spYielded)
      /\ e \in {0, 1} /\ (e = 1 <=> gfxTaskYielded)
      /\ h \in {0, 1} /\ (h = 1 <=> dpQ)
      /\ n \in {0, 1} /\ (n = 1 <=> gamePc \in {"tick", "build", "sync", "dp"})
  BY DEF B
<1>3. FramesInFlight = a + b + c + d + e + f + g + h
  BY DEF FramesInFlight
<1>4. FramesInFlight = n \/ FramesInFlight <= n
  BY DEF IInv, OneFrameInFlight
<1>5. n = 1 => curGfx \in GfxTasks
  BY <1>2 DEF IInv, FrameIsCurGfx
<1> HIDE DEF a, b, c, d, e, f, g, h, n
<1>6. FramesInFlight \in Nat /\ a + b + c + d + e + f + g + h <= n
  BY <1>1, <1>2, <1>3, <1>4
<1>7. /\ a \in {0, 1} /\ g \in {0, 1} /\ f \in {0, 1}
      /\ a = 1 \/ b = 1 \/ c = 1 \/ d = 1 \/ e = 1 \/ f = 1 \/ g = 1 \/ h = 1 => n = 1
      /\ a = 1 => b = 0 /\ c = 0 /\ d = 0 /\ e = 0
      /\ b = 1 => c = 0 /\ d = 0 /\ e = 0
      /\ c = 1 => d = 0 /\ e = 0
      /\ d = 1 => e = 0
      /\ f = 1 => g = 0
      /\ g = 1 => h = 0
  BY <1>1, <1>2, <1>6
<1>8. /\ a = Pending(mainQ, "GFX_SET") /\ f = rdpSyncs /\ g = Pending(mainQ, "DP")
  BY DEF a, f, g
<1> QED
  BY <1>2, <1>5, <1>6, <1>7, <1>8

\* The 16 places are enough: NoEventLost follows from the invariant.
LEMMA RoomInQueue ==
  ASSUME IInv
  PROVE  /\ Len(mainQ) \in Nat
         /\ NoEventLost
         /\ Len(mainQ) <= MaxPendingVi + 2 + Pending(mainQ, "SP")
         /\ Len(mainQ) <= MaxPendingVi + 2 + Pending(mainQ, "DP")
         /\ Len(mainQ) <= 3 + Pending(mainQ, "VI")
<1>1. mainQ \in Seq(Events)
  BY DEF IInv, TypeOK
<1>2. Counted(mainQ)
  BY <1>1, CountedSeq
<1>3. Pending(mainQ, "SP") <= 1
  BY DEF IInv, SpAccounting
<1>4. Pending(mainQ, "DP") <= 1
  BY OnePlace
<1> QED
  BY <1>1, <1>2, <1>3, <1>4, PendingLen, QueueAssumption
  DEF IInv, QueueShares, Counted, Events, NoEventLost

-----------------------------------------------------------------------------
(* Each action preserves the invariant.                                    *)

\* begins counts up to two.
LEMMA BeginsType ==
  ASSUME TypeOK, NEW t \in GfxTasks \cup AudioTasks,
         begins' = [begins EXCEPT ![t] = Min2(@ + 1, 2)]
  PROVE  /\ begins' \in [GfxTasks \cup AudioTasks -> 0..2]
         /\ begins[t] = 0 => begins'[t] = 1
         /\ \A u \in GfxTasks \cup AudioTasks : u # t => begins'[u] = begins[u]
<1>1. begins \in [GfxTasks \cup AudioTasks -> 0..2]
  BY DEF TypeOK
<1>2. begins[t] \in 0..2
  BY <1>1
<1>3. Min2(begins[t] + 1, 2) \in 0..2 /\ (begins[t] = 0 => Min2(begins[t] + 1, 2) = 1)
  BY <1>2 DEF Min2
<1>4. begins' = [begins EXCEPT ![t] = Min2(begins[t] + 1, 2)]
  OBVIOUS
<1> QED
  BY <1>1, <1>3, <1>4

\* The task the RSP yields, or has yielded, is kept to be resumed, and the
\* audio task begins.
LEMMA SpWhileYieldingInv ==
  ASSUME IInv, SpWhileYielding
  PROVE  IInv'
<1>1. /\ TypeOK /\ SpAccounting /\ RspMatchesState /\ QueueShares
      /\ AudioTaskKnown /\ OneFrameInFlight /\ FrameIsCurGfx /\ NotBegunYet
      /\ GfxBeginsOnce
  BY DEF IInv
<1>2. /\ mainQ' \in Seq(Events)
      /\ Counted(mainQ) /\ Counted(mainQ')
      /\ OneMore(mainQ, mainQ', "SP")
  BY <1>1, ReceiveCounts DEF TypeOK, Events, SpWhileYielding
<1>3. /\ spTaskState = "YIELDING" /\ spTaskActive /\ spYield
      /\ Pending(mainQ', "SP") = 0 /\ rspTask = NoTask
      /\ curAudio \in AudioTasks /\ curAudio \notin GfxTasks
  BY <1>1, <1>2 DEF SpAccounting, OneMore, Counted, Events, SpWhileYielding,
     RspMatchesState, AudioTaskKnown, AudioTasks, GfxTasks
<1>4. spYielded => ~gfxTaskYielded /\ curGfx \in GfxTasks
  BY OnePlace
<1>5. /\ rspTask' = curAudio /\ rspSynced' = FALSE
      /\ begins' = [begins EXCEPT ![curAudio] = Min2(@ + 1, 2)]
      /\ spYield' = FALSE /\ spYielded' = FALSE
      /\ spTaskState' = "AUDIO" /\ spTaskActive' = TRUE
      /\ gfxTaskYielded' = (gfxTaskYielded \/ spYielded)
      /\ yieldFlag' = SpTaskYielded
      /\ UNCHANGED <<gfxTaskQueued, tickVars, audioTickQ, frameTickQ, dpQ,
                     audioVars, gameVars, yieldBuf, rdpSyncs, resetPc, troubles>>
  BY <1>3 DEF SpWhileYielding, Receive, Sched_SpTaskStartAudio, SpTaskStart
<1>6. /\ yieldFlag' \in [GfxTasks -> BOOLEAN]
      /\ \A t \in GfxTasks : yieldFlag'[t] = (gfxTaskYielded' /\ t = curGfx)
  <2>1. CASE spYielded
    BY <1>1, <1>3, <1>4, <1>5, <2>1 DEF SpTaskYielded, TypeOK, FrameIsCurGfx
  <2>2. CASE ~spYielded
    BY <1>1, <1>3, <1>4, <1>5, <2>2 DEF SpTaskYielded, TypeOK, FrameIsCurGfx
  <2> QED
    BY <2>1, <2>2
<1>7. /\ begins' \in [GfxTasks \cup AudioTasks -> 0..2]
      /\ \A t \in GfxTasks : begins'[t] = begins[t]
  BY <1>1, <1>3, <1>5, BeginsType
<1>8. TypeOK'
  <2>1. gfxTaskYielded' \in BOOLEAN
    BY <1>5
  <2>2. /\ rspTask' \in GfxTasks \cup AudioTasks \cup {NoTask}
        /\ rspSynced' \in BOOLEAN /\ spYield' \in BOOLEAN
        /\ spYielded' \in BOOLEAN /\ spTaskActive' \in BOOLEAN
        /\ spTaskState' \in {"INACTIVE", "YIELDING", "AUDIO", "GFX"}
    BY <1>3, <1>5
  <2>3. UNCHANGED <<gfxTaskQueued, tickVars, audioTickQ, frameTickQ, dpQ,
                    audioVars, gameVars, yieldBuf, rdpSyncs, resetPc, troubles>>
    BY <1>5
  <2> QED
    BY <1>1, <1>2, <1>6, <1>7, <2>1, <2>2, <2>3 DEF TypeOK, tickVars, audioVars, gameVars
<1>9. SpAccounting' /\ RspMatchesState' /\ AudioTaskKnown'
  BY <1>1, <1>2, <1>3, <1>5 DEF SpAccounting, RspMatchesState, TypeOK,
     AudioTaskKnown, AudioTasks, NoTask, audioVars
<1>10. QueueShares'
  BY <1>1, <1>2 DEF QueueShares, OneMore, Counted, Events
<1>11. OneFrameInFlight'
  <2>1. /\ Pending(mainQ', "GFX_SET") = Pending(mainQ, "GFX_SET")
        /\ Pending(mainQ', "DP") = Pending(mainQ, "DP")
        /\ Pending(mainQ, "GFX_SET") \in Nat /\ Pending(mainQ, "DP") \in Nat
    BY <1>2 DEF OneMore, Counted, Events
  <2>2. /\ B(rspTask \in GfxTasks /\ ~rspSynced)' = 0
        /\ B(rspTask \in GfxTasks /\ ~rspSynced) = 0
    BY <1>3, <1>5 DEF NoTask, GfxTasks, B
  <2>3. B(spYielded)' + B(gfxTaskYielded)' = B(spYielded) + B(gfxTaskYielded)
    <3>1. ~spYielded' /\ (gfxTaskYielded' <=> gfxTaskYielded \/ spYielded)
      BY <1>5
    <3> QED
      BY <1>4, <3>1 DEF B
  <2>4. /\ B(spYielded) \in Nat /\ B(gfxTaskYielded) \in Nat
        /\ B(spYielded)' \in Nat /\ B(gfxTaskYielded)' \in Nat
        /\ B(gfxTaskQueued) \in Nat /\ B(dpQ) \in Nat
    BY DEF B
  <2>5. B(gfxTaskQueued)' = B(gfxTaskQueued) /\ B(dpQ)' = B(dpQ) /\ rdpSyncs' = rdpSyncs
    BY <1>5
  <2>6. FramesInFlight' = FramesInFlight
    BY <1>1, <2>1, <2>2, <2>3, <2>4, <2>5 DEF FramesInFlight, TypeOK
  <2> QED
    BY <1>1, <1>5, <2>6 DEF OneFrameInFlight, ResetStarted, gameVars
<1>12. FrameIsCurGfx'
  BY <1>1, <1>3, <1>5, <1>6 DEF FrameIsCurGfx, gameVars
<1>13. NotBegunYet' /\ GfxBeginsOnce'
  BY <1>1, <1>2, <1>5, <1>7 DEF NotBegunYet, GfxBeginsOnce, OneMore, Counted,
     Events, gameVars
<1> QED
  BY <1>8, <1>9, <1>10, <1>11, <1>12, <1>13 DEF IInv

\* The task that was yielded goes on where it was.
LEMMA SpAudioResumeGfxInv ==
  ASSUME IInv, SpAudioResumeGfx
  PROVE  IInv'
<1>1. /\ TypeOK /\ SpAccounting /\ RspMatchesState /\ QueueShares
      /\ AudioTaskKnown /\ OneFrameInFlight /\ FrameIsCurGfx /\ NotBegunYet
      /\ GfxBeginsOnce
  BY DEF IInv
<1>2. /\ mainQ' \in Seq(Events)
      /\ Counted(mainQ) /\ Counted(mainQ')
      /\ OneMore(mainQ, mainQ', "SP")
  BY <1>1, ReceiveCounts DEF TypeOK, Events, SpAudioResumeGfx
<1>3. /\ spTaskState = "AUDIO" /\ spTaskActive /\ gfxTaskYielded /\ ~spYielded
      /\ Pending(mainQ', "SP") = 0 /\ rspTask = NoTask /\ rspTask \notin GfxTasks
  BY <1>1, <1>2 DEF SpAccounting, OneMore, Counted, Events, SpAudioResumeGfx,
     RspMatchesState, NoTask, GfxTasks
<1>4. /\ curGfx \in GfxTasks /\ ~gfxTaskQueued /\ Pending(mainQ, "GFX_SET") = 0
      /\ gamePc \in {"tick", "build", "sync", "dp"}
  BY <1>3, OnePlace
<1>5. yieldFlag[curGfx] /\ yieldBuf = [task |-> curGfx, synced |-> FALSE]
  BY <1>1, <1>3, <1>4 DEF FrameIsCurGfx
<1>6. /\ rspTask' = curGfx /\ rspSynced' = FALSE
      /\ yieldFlag' = [yieldFlag EXCEPT ![curGfx] = FALSE]
      /\ spYield' = FALSE /\ spYielded' = FALSE
      /\ spTaskState' = "GFX" /\ spTaskActive' = TRUE /\ gfxTaskYielded' = FALSE
      /\ UNCHANGED <<begins, gfxTaskQueued, tickVars, audioTickQ, frameTickQ,
                     dpQ, audioVars, gameVars, yieldBuf, rdpSyncs, resetPc,
                     troubles>>
  BY <1>4, <1>5 DEF SpAudioResumeGfx, Receive, Sched_SpTaskStartGfx, SpTaskStart
<1>7. /\ yieldFlag' \in [GfxTasks -> BOOLEAN]
      /\ \A t \in GfxTasks : yieldFlag'[t] = FALSE
  BY <1>1, <1>4, <1>6 DEF TypeOK, FrameIsCurGfx
<1>8. TypeOK'
  <2>1. /\ rspTask' \in GfxTasks \cup AudioTasks \cup {NoTask}
        /\ rspSynced' \in BOOLEAN /\ spYield' \in BOOLEAN
        /\ spYielded' \in BOOLEAN /\ spTaskActive' \in BOOLEAN
        /\ spTaskState' \in {"INACTIVE", "YIELDING", "AUDIO", "GFX"}
        /\ gfxTaskYielded' \in BOOLEAN
    BY <1>4, <1>6
  <2>2. UNCHANGED <<begins, gfxTaskQueued, tickVars, audioTickQ, frameTickQ,
                    dpQ, audioVars, gameVars, yieldBuf, rdpSyncs, resetPc,
                    troubles>>
    BY <1>6
  <2> QED
    BY <1>1, <1>2, <1>7, <2>1, <2>2 DEF TypeOK, tickVars, audioVars, gameVars
<1>9. SpAccounting' /\ RspMatchesState' /\ AudioTaskKnown'
  BY <1>1, <1>2, <1>3, <1>4, <1>6 DEF SpAccounting, RspMatchesState, TypeOK,
     AudioTaskKnown, AudioTasks, GfxTasks, NoTask, audioVars, OneMore, Counted, Events
<1>10. QueueShares'
  BY <1>1, <1>2 DEF QueueShares, OneMore, Counted, Events
<1>11. OneFrameInFlight'
  <2>1. /\ Pending(mainQ', "GFX_SET") = Pending(mainQ, "GFX_SET")
        /\ Pending(mainQ', "DP") = Pending(mainQ, "DP")
        /\ Pending(mainQ, "GFX_SET") \in Nat /\ Pending(mainQ, "DP") \in Nat
    BY <1>2 DEF OneMore, Counted, Events
  <2>2. /\ B(rspTask \in GfxTasks /\ ~rspSynced) = 0
        /\ B(rspTask \in GfxTasks /\ ~rspSynced)' = 1
        /\ B(gfxTaskYielded) = 1 /\ B(gfxTaskYielded)' = 0
        /\ B(spYielded) = 0 /\ B(spYielded)' = 0
        /\ B(gfxTaskQueued) \in Nat /\ B(dpQ) \in Nat
    BY <1>3, <1>4, <1>6 DEF B
  <2>3. B(gfxTaskQueued)' = B(gfxTaskQueued) /\ B(dpQ)' = B(dpQ) /\ rdpSyncs' = rdpSyncs
    BY <1>6
  <2>4. FramesInFlight' = FramesInFlight
    BY <1>1, <2>1, <2>2, <2>3 DEF FramesInFlight, TypeOK
  <2> QED
    BY <1>1, <1>6, <2>4 DEF OneFrameInFlight, ResetStarted, gameVars
<1>12. FrameIsCurGfx'
  BY <1>1, <1>3, <1>6, <1>7 DEF FrameIsCurGfx, gameVars
<1>13. NotBegunYet' /\ GfxBeginsOnce'
  BY <1>1, <1>2, <1>6 DEF NotBegunYet, GfxBeginsOnce, OneMore, Counted,
     Events, gameVars
<1> QED
  BY <1>8, <1>9, <1>10, <1>11, <1>12, <1>13 DEF IInv

\* The task that was queued begins.
LEMMA SpAudioStartGfxInv ==
  ASSUME IInv, SpAudioStartGfx
  PROVE  IInv'
<1>1. /\ TypeOK /\ SpAccounting /\ RspMatchesState /\ QueueShares
      /\ AudioTaskKnown /\ OneFrameInFlight /\ FrameIsCurGfx /\ NotBegunYet
      /\ GfxBeginsOnce
  BY DEF IInv
<1>2. /\ mainQ' \in Seq(Events)
      /\ Counted(mainQ) /\ Counted(mainQ')
      /\ OneMore(mainQ, mainQ', "SP")
  BY <1>1, ReceiveCounts DEF TypeOK, Events, SpAudioStartGfx
<1>3. /\ spTaskState = "AUDIO" /\ spTaskActive /\ ~gfxTaskYielded /\ ~spYielded
      /\ gfxTaskQueued
      /\ Pending(mainQ', "SP") = 0 /\ rspTask = NoTask /\ rspTask \notin GfxTasks
  BY <1>1, <1>2 DEF SpAccounting, OneMore, Counted, Events, SpAudioStartGfx,
     RspMatchesState, NoTask, GfxTasks
<1>4. /\ curGfx \in GfxTasks /\ Pending(mainQ, "GFX_SET") = 0
      /\ gamePc \in {"tick", "build", "sync", "dp"}
  BY <1>3, OnePlace
<1>5. ~yieldFlag[curGfx] /\ begins[curGfx] = 0
  BY <1>1, <1>3, <1>4 DEF FrameIsCurGfx, NotBegunYet
<1>6. /\ rspTask' = curGfx /\ rspSynced' = FALSE /\ yieldFlag' = yieldFlag
      /\ begins' = [begins EXCEPT ![curGfx] = Min2(@ + 1, 2)]
      /\ spYield' = FALSE /\ spYielded' = FALSE
      /\ spTaskState' = "GFX" /\ spTaskActive' = TRUE /\ gfxTaskQueued' = FALSE
      /\ UNCHANGED <<gfxTaskYielded, tickVars, audioTickQ, frameTickQ,
                     dpQ, audioVars, gameVars, yieldBuf, rdpSyncs, resetPc,
                     troubles>>
  BY <1>4, <1>5 DEF SpAudioStartGfx, Receive, Sched_SpTaskStartGfx, SpTaskStart
<1>7. /\ begins' \in [GfxTasks \cup AudioTasks -> 0..2]
      /\ begins'[curGfx] = 1
      /\ \A t \in GfxTasks : t # curGfx => begins'[t] = begins[t]
  BY <1>1, <1>4, <1>5, <1>6, BeginsType
<1>8. TypeOK'
  <2>1. /\ rspTask' \in GfxTasks \cup AudioTasks \cup {NoTask}
        /\ rspSynced' \in BOOLEAN /\ spYield' \in BOOLEAN
        /\ spYielded' \in BOOLEAN /\ spTaskActive' \in BOOLEAN
        /\ spTaskState' \in {"INACTIVE", "YIELDING", "AUDIO", "GFX"}
        /\ gfxTaskQueued' \in BOOLEAN
    BY <1>4, <1>6
  <2>2. UNCHANGED <<yieldFlag, gfxTaskYielded, tickVars, audioTickQ, frameTickQ,
                    dpQ, audioVars, gameVars, yieldBuf, rdpSyncs, resetPc,
                    troubles>>
    BY <1>6
  <2> QED
    BY <1>1, <1>2, <1>7, <2>1, <2>2 DEF TypeOK, tickVars, audioVars, gameVars
<1>9. SpAccounting' /\ RspMatchesState' /\ AudioTaskKnown'
  BY <1>1, <1>2, <1>3, <1>4, <1>6 DEF SpAccounting, RspMatchesState, TypeOK,
     AudioTaskKnown, AudioTasks, GfxTasks, NoTask, audioVars, OneMore, Counted, Events
<1>10. QueueShares'
  BY <1>1, <1>2 DEF QueueShares, OneMore, Counted, Events
<1>11. OneFrameInFlight'
  <2>1. /\ Pending(mainQ', "GFX_SET") = Pending(mainQ, "GFX_SET")
        /\ Pending(mainQ', "DP") = Pending(mainQ, "DP")
        /\ Pending(mainQ, "GFX_SET") \in Nat /\ Pending(mainQ, "DP") \in Nat
    BY <1>2 DEF OneMore, Counted, Events
  <2>2. /\ B(rspTask \in GfxTasks /\ ~rspSynced) = 0
        /\ B(rspTask \in GfxTasks /\ ~rspSynced)' = 1
        /\ B(gfxTaskQueued) = 1 /\ B(gfxTaskQueued)' = 0
        /\ B(spYielded) = 0 /\ B(spYielded)' = 0
        /\ B(gfxTaskYielded) \in Nat /\ B(dpQ) \in Nat
    BY <1>3, <1>4, <1>6 DEF B
  <2>3. B(gfxTaskYielded)' = B(gfxTaskYielded) /\ B(dpQ)' = B(dpQ) /\ rdpSyncs' = rdpSyncs
    BY <1>6
  <2>4. FramesInFlight' = FramesInFlight
    BY <1>1, <2>1, <2>2, <2>3 DEF FramesInFlight, TypeOK
  <2> QED
    BY <1>1, <1>6, <2>4 DEF OneFrameInFlight, ResetStarted, gameVars
<1>12. FrameIsCurGfx'
  BY <1>1, <1>3, <1>6 DEF FrameIsCurGfx, gameVars
<1>13. NotBegunYet' /\ GfxBeginsOnce'
  BY <1>1, <1>2, <1>4, <1>6, <1>7 DEF NotBegunYet, GfxBeginsOnce, OneMore,
     Counted, Events, gameVars
<1> QED
  BY <1>8, <1>9, <1>10, <1>11, <1>12, <1>13 DEF IInv

\* The RSP has nothing to go on with.
LEMMA SpIdleInv ==
  ASSUME IInv, SpIdle
  PROVE  IInv'
<1>1. /\ TypeOK /\ SpAccounting /\ RspMatchesState /\ QueueShares
      /\ AudioTaskKnown /\ OneFrameInFlight /\ FrameIsCurGfx /\ NotBegunYet
      /\ GfxBeginsOnce
  BY DEF IInv
<1>2. /\ mainQ' \in Seq(Events)
      /\ Counted(mainQ) /\ Counted(mainQ')
      /\ OneMore(mainQ, mainQ', "SP")
  BY <1>1, ReceiveCounts DEF TypeOK, Events, SpIdle
<1>3. /\ spTaskState # "YIELDING" /\ ~gfxTaskYielded /\ ~spYielded
      /\ Pending(mainQ', "SP") = 0 /\ rspTask = NoTask
  BY <1>1, <1>2 DEF SpAccounting, OneMore, Counted, Events, SpIdle, RspMatchesState
<1>4. /\ spTaskState' = "INACTIVE" /\ spTaskActive' = FALSE
      /\ UNCHANGED <<gfxTaskYielded, gfxTaskQueued, rspVars, taskVars, tickVars,
                     audioTickQ, frameTickQ, dpQ, audioVars, gameVars, yieldBuf,
                     rdpSyncs, resetPc, troubles>>
  BY DEF SpIdle, Receive
<1>5. TypeOK'
  <2>1. /\ spTaskActive' \in BOOLEAN
        /\ spTaskState' \in {"INACTIVE", "YIELDING", "AUDIO", "GFX"}
    BY <1>4
  <2>2. UNCHANGED <<gfxTaskYielded, gfxTaskQueued, rspVars, taskVars, tickVars,
                    audioTickQ, frameTickQ, dpQ, audioVars, gameVars, yieldBuf,
                    rdpSyncs, resetPc, troubles>>
    BY <1>4
  <2> QED
    BY <1>1, <1>2, <2>1, <2>2
    DEF TypeOK, rspVars, taskVars, tickVars, audioVars, gameVars
<1>6. SpAccounting' /\ RspMatchesState' /\ AudioTaskKnown'
  BY <1>1, <1>2, <1>3, <1>4 DEF SpAccounting, RspMatchesState, TypeOK,
     AudioTaskKnown, AudioTasks, GfxTasks, NoTask, rspVars, audioVars, OneMore,
     Counted, Events
<1>7. QueueShares'
  BY <1>1, <1>2 DEF QueueShares, OneMore, Counted, Events
<1>8. OneFrameInFlight'
  <2>1. /\ Pending(mainQ', "GFX_SET") = Pending(mainQ, "GFX_SET")
        /\ Pending(mainQ', "DP") = Pending(mainQ, "DP")
    BY <1>2 DEF OneMore, Events
  <2>2. FramesInFlight' = FramesInFlight
    BY <1>4, <2>1 DEF FramesInFlight, rspVars
  <2> QED
    BY <1>1, <1>4, <2>2 DEF OneFrameInFlight, ResetStarted, gameVars
<1>9. FrameIsCurGfx'
  BY <1>1, <1>4 DEF FrameIsCurGfx, gameVars, rspVars, taskVars
<1>10. NotBegunYet' /\ GfxBeginsOnce'
  BY <1>1, <1>2, <1>4 DEF NotBegunYet, GfxBeginsOnce, OneMore, Counted,
     Events, gameVars, taskVars
<1> QED
  BY <1>5, <1>6, <1>7, <1>8, <1>9, <1>10 DEF IInv

\* A retrace changes only the counts of retraces and the ticks.
LEMMA RetraceInv ==
  ASSUME IInv, Retrace
  PROVE  IInv'
<1>1. /\ TypeOK /\ SpAccounting /\ RspMatchesState /\ QueueShares
      /\ AudioTaskKnown /\ OneFrameInFlight /\ FrameIsCurGfx /\ NotBegunYet
      /\ GfxBeginsOnce
  BY DEF IInv
<1>2. /\ mainQ' \in Seq(Events)
      /\ Counted(mainQ) /\ Counted(mainQ')
      /\ OneMore(mainQ, mainQ', "VI")
  BY <1>1, ReceiveCounts DEF TypeOK, Events, Retrace
<1>3. UNCHANGED <<schedVars, rspVars, taskVars, dpQ, audioVars, gameVars,
                  yieldBuf, rdpSyncs, resetPc, troubles>>
  BY DEF Retrace, Receive
<1>4. TypeOK'
  <2>1. retraces' \in Nat /\ period' \in Periods
    BY <1>1 DEF TypeOK, Retrace
  <2>2. audioTickQ' \in BOOLEAN /\ frameTickQ' \in BOOLEAN
    BY <1>1 DEF TypeOK, Retrace
  <2> QED
    BY <1>1, <1>2, <1>3, <2>1, <2>2
    DEF TypeOK, schedVars, rspVars, taskVars, audioVars, gameVars
<1>5. SpAccounting' /\ RspMatchesState' /\ AudioTaskKnown'
  BY <1>1, <1>2, <1>3 DEF SpAccounting, RspMatchesState, AudioTaskKnown,
     schedVars, rspVars, audioVars, OneMore, Counted, Events
<1>6. QueueShares'
  BY <1>1, <1>2, QueueAssumption DEF QueueShares, OneMore, Counted, Events
<1>7. OneFrameInFlight'
  <2>1. /\ Pending(mainQ', "GFX_SET") = Pending(mainQ, "GFX_SET")
        /\ Pending(mainQ', "DP") = Pending(mainQ, "DP")
    BY <1>2 DEF OneMore, Events
  <2>2. FramesInFlight' = FramesInFlight
    BY <1>3, <2>1 DEF FramesInFlight, rspVars, schedVars
  <2> QED
    BY <1>1, <1>3, <2>2 DEF OneFrameInFlight, ResetStarted, gameVars
<1>8. FrameIsCurGfx'
  BY <1>1, <1>3 DEF FrameIsCurGfx, gameVars, rspVars, taskVars, schedVars
<1>9. NotBegunYet' /\ GfxBeginsOnce'
  BY <1>1, <1>2, <1>3 DEF NotBegunYet, GfxBeginsOnce, OneMore, Counted,
     Events, gameVars, taskVars, schedVars
<1> QED
  BY <1>4, <1>5, <1>6, <1>7, <1>8, <1>9 DEF IInv

\* An audio task begins on an idle RSP; a busy one is asked to yield.
LEMMA AudioTaskSetInv ==
  ASSUME IInv, AudioTaskSet
  PROVE  IInv'
<1>1. /\ TypeOK /\ SpAccounting /\ RspMatchesState /\ QueueShares
      /\ AudioTaskKnown /\ OneFrameInFlight /\ FrameIsCurGfx /\ NotBegunYet
      /\ GfxBeginsOnce
  BY DEF IInv
<1>2. /\ mainQ' \in Seq(Events)
      /\ Counted(mainQ) /\ Counted(mainQ')
      /\ OneMore(mainQ, mainQ', "AUDIO_SET")
  BY <1>1, ReceiveCounts DEF TypeOK, Events, AudioTaskSet
<1>3. curAudio \in AudioTasks /\ curAudio \notin GfxTasks /\ curAudio # NoTask
  BY <1>1, <1>2 DEF AudioTaskKnown, OneMore, Counted, Events, AudioTasks,
     GfxTasks, NoTask
<1>4. UNCHANGED <<gfxTaskYielded, gfxTaskQueued, yieldFlag, tickVars, audioTickQ,
                  frameTickQ, dpQ, audioVars, gameVars, yieldBuf, rdpSyncs,
                  resetPc, troubles>>
  BY <1>3 DEF AudioTaskSet, Receive, taskVars, Sched_SpTaskStartAudio,
     SpTaskStart, Sched_SpTaskYield
<1>5. QueueShares'
  BY <1>1, <1>2 DEF QueueShares, OneMore, Counted, Events
<1>6. /\ Pending(mainQ', "GFX_SET") = Pending(mainQ, "GFX_SET")
      /\ Pending(mainQ', "DP") = Pending(mainQ, "DP")
      /\ Pending(mainQ', "SP") = Pending(mainQ, "SP")
      /\ Pending(mainQ', "SP") \in Nat
  BY <1>2 DEF OneMore, Events, Counted
<1>7. CASE ~spTaskActive
  <2>1. /\ rspTask = NoTask /\ spTaskState = "INACTIVE" /\ Pending(mainQ, "SP") = 0
        /\ ~gfxTaskYielded /\ ~spYielded /\ rspTask \notin GfxTasks
    BY <1>1, <1>7 DEF SpAccounting, RspMatchesState, GfxTasks, NoTask
  <2>2. /\ rspTask' = curAudio /\ rspSynced' = FALSE
        /\ begins' = [begins EXCEPT ![curAudio] = Min2(@ + 1, 2)]
        /\ spYield' = FALSE /\ spYielded' = FALSE
        /\ spTaskState' = "AUDIO" /\ spTaskActive' = TRUE
    BY <1>3, <1>7 DEF AudioTaskSet, Sched_SpTaskStartAudio, SpTaskStart
  <2>3. /\ begins' \in [GfxTasks \cup AudioTasks -> 0..2]
        /\ \A t \in GfxTasks : begins'[t] = begins[t]
    BY <1>1, <1>3, <2>2, BeginsType
  <2>4. TypeOK'
    <3>1. /\ rspTask' \in GfxTasks \cup AudioTasks \cup {NoTask}
          /\ rspSynced' \in BOOLEAN /\ spYield' \in BOOLEAN
          /\ spYielded' \in BOOLEAN /\ spTaskActive' \in BOOLEAN
          /\ spTaskState' \in {"INACTIVE", "YIELDING", "AUDIO", "GFX"}
      BY <1>3, <2>2
    <3> QED
      BY <1>1, <1>2, <1>4, <2>3, <3>1 DEF TypeOK, tickVars, audioVars, gameVars
  <2>5. SpAccounting' /\ RspMatchesState' /\ AudioTaskKnown'
    BY <1>3, <1>4, <1>6, <2>1, <2>2 DEF SpAccounting, RspMatchesState,
       AudioTaskKnown, audioVars
  <2>6. OneFrameInFlight'
    <3>1. /\ B(rspTask \in GfxTasks /\ ~rspSynced)' = B(rspTask \in GfxTasks /\ ~rspSynced)
          /\ B(spYielded)' = B(spYielded)
      BY <1>3, <2>1, <2>2 DEF B
    <3>2. FramesInFlight' = FramesInFlight
      BY <1>4, <1>6, <3>1 DEF FramesInFlight
    <3> QED
      BY <1>1, <1>4, <3>2 DEF OneFrameInFlight, ResetStarted, gameVars
  <2>7. FrameIsCurGfx'
    BY <1>1, <1>3, <1>4, <2>1, <2>2 DEF FrameIsCurGfx, gameVars
  <2>8. NotBegunYet' /\ GfxBeginsOnce'
    BY <1>1, <1>4, <1>6, <2>3 DEF NotBegunYet, GfxBeginsOnce, gameVars
  <2> QED
    BY <1>5, <2>4, <2>5, <2>6, <2>7, <2>8 DEF IInv
<1>8. CASE spTaskActive /\ spTaskState # "YIELDING"
  <2>1. /\ spYield' = TRUE /\ spTaskState' = "YIELDING" /\ spTaskActive' = TRUE
        /\ UNCHANGED <<rspTask, rspSynced, spYielded, begins>>
    BY <1>8 DEF AudioTaskSet, Sched_SpTaskYield, taskVars
  <2>2. TypeOK'
    <3>1. /\ spYield' \in BOOLEAN /\ spTaskActive' \in BOOLEAN
          /\ spTaskState' \in {"INACTIVE", "YIELDING", "AUDIO", "GFX"}
      BY <2>1
    <3> QED
      BY <1>1, <1>2, <1>4, <2>1, <3>1 DEF TypeOK, tickVars, audioVars, gameVars
  <2>3. SpAccounting' /\ RspMatchesState' /\ AudioTaskKnown'
    BY <1>1, <1>3, <1>4, <1>6, <1>8, <2>1 DEF SpAccounting, RspMatchesState,
       AudioTaskKnown, audioVars
  <2>4. OneFrameInFlight'
    <3>1. FramesInFlight' = FramesInFlight
      BY <1>4, <1>6, <2>1 DEF FramesInFlight
    <3> QED
      BY <1>1, <1>4, <3>1 DEF OneFrameInFlight, ResetStarted, gameVars
  <2>5. FrameIsCurGfx'
    BY <1>1, <1>4, <2>1 DEF FrameIsCurGfx, gameVars
  <2>6. NotBegunYet' /\ GfxBeginsOnce'
    BY <1>1, <1>4, <1>6, <2>1 DEF NotBegunYet, GfxBeginsOnce, gameVars
  <2> QED
    BY <1>5, <2>2, <2>3, <2>4, <2>5, <2>6 DEF IInv
<1>9. CASE spTaskActive /\ spTaskState = "YIELDING"
  <2>1. UNCHANGED <<spTaskState, spTaskActive, rspVars, taskVars>>
    BY <1>9 DEF AudioTaskSet
  <2>2. TypeOK'
    BY <1>1, <1>2, <1>4, <2>1 DEF TypeOK, tickVars, audioVars, gameVars, rspVars,
       taskVars
  <2>3. SpAccounting' /\ RspMatchesState' /\ AudioTaskKnown'
    BY <1>1, <1>3, <1>4, <1>6, <2>1 DEF SpAccounting, RspMatchesState,
       AudioTaskKnown, audioVars, rspVars
  <2>4. OneFrameInFlight'
    <3>1. FramesInFlight' = FramesInFlight
      BY <1>4, <1>6, <2>1 DEF FramesInFlight, rspVars
    <3> QED
      BY <1>1, <1>4, <3>1 DEF OneFrameInFlight, ResetStarted, gameVars
  <2>5. FrameIsCurGfx'
    BY <1>1, <1>4, <2>1 DEF FrameIsCurGfx, gameVars, rspVars
  <2>6. NotBegunYet' /\ GfxBeginsOnce'
    BY <1>1, <1>4, <1>6, <2>1 DEF NotBegunYet, GfxBeginsOnce, gameVars, taskVars
  <2> QED
    BY <1>5, <2>2, <2>3, <2>4, <2>5, <2>6 DEF IInv
<1> QED
  BY <1>7, <1>8, <1>9

\* A graphics task begins on an idle RSP and is queued for a busy one.
LEMMA GfxTaskSetInv ==
  ASSUME IInv, GfxTaskSet
  PROVE  IInv'
<1>1. /\ TypeOK /\ SpAccounting /\ RspMatchesState /\ QueueShares
      /\ AudioTaskKnown /\ OneFrameInFlight /\ FrameIsCurGfx /\ NotBegunYet
      /\ GfxBeginsOnce
  BY DEF IInv
<1>2. /\ mainQ' \in Seq(Events)
      /\ Counted(mainQ) /\ Counted(mainQ')
      /\ OneMore(mainQ, mainQ', "GFX_SET")
  BY <1>1, ReceiveCounts DEF TypeOK, Events, GfxTaskSet
<1>3. /\ Pending(mainQ, "GFX_SET") = 1 /\ Pending(mainQ', "GFX_SET") = 0
      /\ Pending(mainQ', "DP") = Pending(mainQ, "DP")
      /\ Pending(mainQ', "SP") = Pending(mainQ, "SP")
      /\ Pending(mainQ', "AUDIO_SET") = Pending(mainQ, "AUDIO_SET")
      /\ Pending(mainQ, "DP") \in Nat /\ Pending(mainQ, "SP") \in Nat
  BY <1>2, OnePlace DEF OneMore, Events, Counted
<1>4. /\ curGfx \in GfxTasks /\ gamePc \in {"tick", "build", "sync", "dp"}
      /\ ~gfxTaskQueued /\ ~(rspTask \in GfxTasks /\ ~rspSynced)
      /\ ~spYielded /\ ~gfxTaskYielded
  BY <1>3, OnePlace
<1>5. ~yieldFlag[curGfx] /\ begins[curGfx] = 0
  <2>1. ~yieldFlag[curGfx]
    BY <1>1, <1>4 DEF FrameIsCurGfx
  <2>2. Pending(mainQ, "GFX_SET") > 0
    BY <1>3
  <2>3. begins[curGfx] = 0
    BY <1>1, <1>4, <2>2 DEF NotBegunYet
  <2> QED
    BY <2>1, <2>3
<1>6. UNCHANGED <<gfxTaskYielded, tickVars, audioTickQ, frameTickQ, dpQ,
                  audioVars, gameVars, yieldBuf, rdpSyncs, resetPc, troubles>>
  BY DEF GfxTaskSet, Receive
<1>7. QueueShares'
  BY <1>1, <1>2 DEF QueueShares, OneMore, Counted, Events
<1>8. B(gfxTaskQueued) = 0 /\ B(rspTask \in GfxTasks /\ ~rspSynced) = 0
      /\ B(spYielded) = 0 /\ B(gfxTaskYielded) = 0 /\ B(dpQ) \in Nat
      /\ rdpSyncs \in Nat
  BY <1>1, <1>4 DEF B, TypeOK
<1>9. B(gfxTaskYielded)' = 0 /\ B(dpQ)' = B(dpQ) /\ rdpSyncs' = rdpSyncs
  BY <1>6, <1>8
<1>10. CASE ResetStarted
  <2>1. UNCHANGED <<spTaskState, spTaskActive, gfxTaskQueued, rspVars, taskVars>>
    BY <1>10 DEF GfxTaskSet
  <2>2. TypeOK'
    BY <1>1, <1>2, <1>6, <2>1 DEF TypeOK, tickVars, audioVars, gameVars, rspVars,
       taskVars
  <2>3. SpAccounting' /\ RspMatchesState' /\ AudioTaskKnown'
    BY <1>1, <1>3, <1>6, <2>1 DEF SpAccounting, RspMatchesState,
       AudioTaskKnown, audioVars, rspVars
  <2>4. OneFrameInFlight'
    <3>1. FramesInFlight' = FramesInFlight - 1 /\ FramesInFlight \in Nat
      <4>1. B(gfxTaskQueued)' = 0 /\ B(rspTask \in GfxTasks /\ ~rspSynced)' = 0
            /\ B(spYielded)' = 0
        BY <1>8, <2>1 DEF rspVars
      <4> QED
        BY <1>3, <1>8, <1>9, <4>1 DEF FramesInFlight
    <3>2. B(gamePc \in {"tick", "build", "sync", "dp"}) = 1
          /\ B(gamePc \in {"tick", "build", "sync", "dp"})' = 1
      BY <1>4, <1>6 DEF B, gameVars
    <3>3. FramesInFlight <= 1 /\ ResetStarted'
      BY <1>1, <1>6, <1>10, <3>2 DEF OneFrameInFlight, ResetStarted
    <3> QED
      BY <3>1, <3>2, <3>3 DEF OneFrameInFlight
  <2>5. FrameIsCurGfx'
    BY <1>1, <1>6, <2>1 DEF FrameIsCurGfx, gameVars, rspVars, taskVars
  <2>6. NotBegunYet' /\ GfxBeginsOnce'
    BY <1>1, <1>3, <1>6, <2>1 DEF NotBegunYet, GfxBeginsOnce, gameVars, taskVars
  <2> QED
    BY <1>7, <2>2, <2>3, <2>4, <2>5, <2>6 DEF IInv
<1>11. CASE ~ResetStarted /\ spTaskActive
  <2>1. /\ gfxTaskQueued' = TRUE
        /\ UNCHANGED <<spTaskState, spTaskActive, rspVars, taskVars>>
    BY <1>11 DEF GfxTaskSet
  <2>2. TypeOK'
    BY <1>1, <1>2, <1>6, <2>1 DEF TypeOK, tickVars, audioVars, gameVars, rspVars,
       taskVars
  <2>3. SpAccounting' /\ RspMatchesState' /\ AudioTaskKnown'
    BY <1>1, <1>3, <1>6, <2>1 DEF SpAccounting, RspMatchesState,
       AudioTaskKnown, audioVars, rspVars
  <2>4. OneFrameInFlight'
    <3>1. B(gfxTaskQueued)' = 1
      BY <2>1 DEF B
    <3>2. B(rspTask \in GfxTasks /\ ~rspSynced)' = 0 /\ B(spYielded)' = 0
      BY <1>8, <2>1 DEF rspVars
    <3>3. FramesInFlight' = FramesInFlight
      BY <1>3, <1>8, <1>9, <3>1, <3>2 DEF FramesInFlight
    <3> QED
      BY <1>1, <1>6, <3>3 DEF OneFrameInFlight, ResetStarted, gameVars
  <2>5. FrameIsCurGfx'
    BY <1>1, <1>6, <2>1 DEF FrameIsCurGfx, gameVars, rspVars, taskVars
  <2>6. NotBegunYet' /\ GfxBeginsOnce'
    BY <1>1, <1>3, <1>5, <1>6, <2>1 DEF NotBegunYet, GfxBeginsOnce, gameVars, taskVars
  <2> QED
    BY <1>7, <2>2, <2>3, <2>4, <2>5, <2>6 DEF IInv
<1>12. CASE ~ResetStarted /\ ~spTaskActive
  <2>1. /\ rspTask' = curGfx /\ rspSynced' = FALSE
        /\ begins' = [begins EXCEPT ![curGfx] = Min2(@ + 1, 2)]
        /\ spYield' = FALSE /\ spYielded' = FALSE
        /\ spTaskState' = "GFX" /\ spTaskActive' = TRUE
        /\ UNCHANGED <<gfxTaskQueued, yieldFlag>>
    BY <1>4, <1>5, <1>12 DEF GfxTaskSet, Sched_SpTaskStartGfx, SpTaskStart
  <2>2. rspTask = NoTask /\ Pending(mainQ, "SP") = 0
    BY <1>1, <1>12 DEF SpAccounting
  <2>3. /\ begins' \in [GfxTasks \cup AudioTasks -> 0..2]
        /\ begins'[curGfx] = 1
        /\ \A t \in GfxTasks : t # curGfx => begins'[t] = begins[t]
    BY <1>1, <1>4, <1>5, <2>1, BeginsType
  <2>4. TypeOK'
    <3>1. /\ rspTask' \in GfxTasks \cup AudioTasks \cup {NoTask}
          /\ rspSynced' \in BOOLEAN /\ spYield' \in BOOLEAN
          /\ spYielded' \in BOOLEAN /\ spTaskActive' \in BOOLEAN
          /\ spTaskState' \in {"INACTIVE", "YIELDING", "AUDIO", "GFX"}
      BY <1>4, <2>1
    <3>2. UNCHANGED <<gfxTaskQueued, yieldFlag>>
      BY <2>1
    <3> QED
      BY <1>1, <1>2, <1>6, <2>3, <3>1, <3>2 DEF TypeOK, tickVars, audioVars, gameVars
  <2>5. SpAccounting' /\ RspMatchesState' /\ AudioTaskKnown'
    BY <1>1, <1>3, <1>4, <1>6, <2>1, <2>2 DEF SpAccounting, RspMatchesState,
       AudioTaskKnown, audioVars, GfxTasks, AudioTasks, NoTask
  <2>6. OneFrameInFlight'
    <3>1. B(gfxTaskQueued)' = 0 /\ B(spYielded)' = 0
          /\ B(rspTask \in GfxTasks /\ ~rspSynced)' = 1
      BY <1>4, <1>8, <2>1 DEF B
    <3>2. FramesInFlight' = FramesInFlight
      BY <1>3, <1>8, <1>9, <3>1 DEF FramesInFlight
    <3> QED
      BY <1>1, <1>6, <3>2 DEF OneFrameInFlight, ResetStarted, gameVars
  <2>7. FrameIsCurGfx'
    BY <1>1, <1>4, <1>6, <2>1 DEF FrameIsCurGfx, gameVars
  <2>8. NotBegunYet' /\ GfxBeginsOnce'
    BY <1>1, <1>3, <1>4, <1>6, <2>1, <2>3 DEF NotBegunYet, GfxBeginsOnce, gameVars
  <2> QED
    BY <1>7, <2>4, <2>5, <2>6, <2>7, <2>8 DEF IInv
<1> QED
  BY <1>10, <1>11, <1>12

\* The game thread is told that the RDP has drawn the frame.
LEMMA DpDoneInv ==
  ASSUME IInv, DpDone
  PROVE  IInv'
<1>1. /\ TypeOK /\ SpAccounting /\ RspMatchesState /\ QueueShares
      /\ AudioTaskKnown /\ OneFrameInFlight /\ FrameIsCurGfx /\ NotBegunYet
      /\ GfxBeginsOnce
  BY DEF IInv
<1>2. /\ mainQ' \in Seq(Events)
      /\ Counted(mainQ) /\ Counted(mainQ')
      /\ OneMore(mainQ, mainQ', "DP")
  BY <1>1, ReceiveCounts DEF TypeOK, Events, DpDone
<1>3. /\ dpQ' = TRUE
      /\ UNCHANGED <<schedVars, rspVars, taskVars, tickVars, audioTickQ,
                     frameTickQ, audioVars, gameVars, yieldBuf, rdpSyncs, resetPc,
                     troubles>>
  BY DEF DpDone, Receive
<1>4. TypeOK'
  BY <1>1, <1>2, <1>3 DEF TypeOK, schedVars, rspVars, taskVars, tickVars,
     audioVars, gameVars
<1>5. SpAccounting' /\ RspMatchesState' /\ AudioTaskKnown'
  BY <1>1, <1>2, <1>3 DEF SpAccounting, RspMatchesState, AudioTaskKnown,
     schedVars, rspVars, audioVars, OneMore, Counted, Events
<1>6. QueueShares'
  BY <1>1, <1>2 DEF QueueShares, OneMore, Counted, Events
<1>7. OneFrameInFlight'
  <2>1. /\ Pending(mainQ', "GFX_SET") = Pending(mainQ, "GFX_SET")
        /\ Pending(mainQ', "GFX_SET") \in Nat
        /\ Pending(mainQ, "DP") = Pending(mainQ', "DP") + 1
        /\ Pending(mainQ, "DP") \in {0, 1} /\ Pending(mainQ', "DP") \in Nat
    BY <1>2, OnePlace DEF OneMore, Counted, Events
  <2>2. ~dpQ
    BY <2>1, OnePlace
  <2>3. B(dpQ) = 0 /\ B(dpQ)' = 1
    BY <1>3, <2>2 DEF B
  <2>4. /\ B(gfxTaskQueued) \in Nat /\ B(spYielded) \in Nat
        /\ B(rspTask \in GfxTasks /\ ~rspSynced) \in Nat
        /\ B(gfxTaskYielded) \in Nat /\ rdpSyncs \in Nat
    BY <1>1 DEF B, TypeOK
  <2>5. /\ B(gfxTaskQueued)' = B(gfxTaskQueued) /\ B(spYielded)' = B(spYielded)
        /\ B(rspTask \in GfxTasks /\ ~rspSynced)' = B(rspTask \in GfxTasks /\ ~rspSynced)
        /\ B(gfxTaskYielded)' = B(gfxTaskYielded) /\ rdpSyncs' = rdpSyncs
    BY <1>3 DEF rspVars, schedVars
  <2>6. FramesInFlight' = FramesInFlight
    BY <2>1, <2>3, <2>4, <2>5 DEF FramesInFlight
  <2> QED
    BY <1>1, <1>3, <2>6 DEF OneFrameInFlight, ResetStarted, gameVars
<1>8. FrameIsCurGfx'
  BY <1>1, <1>3 DEF FrameIsCurGfx, gameVars, rspVars, taskVars, schedVars
<1>9. NotBegunYet' /\ GfxBeginsOnce'
  BY <1>1, <1>2, <1>3 DEF NotBegunYet, GfxBeginsOnce, OneMore, Counted,
     Events, gameVars, taskVars, schedVars
<1> QED
  BY <1>4, <1>5, <1>6, <1>7, <1>8, <1>9 DEF IInv

\* What the audio thread does between two messages of its own.
LEMMA AudioInv ==
  ASSUME IInv, AudioDrain \/ AudioTick \/ AudioCreateTask \/ AudioCreateNull
  PROVE  IInv'
<1>1. /\ TypeOK /\ SpAccounting /\ RspMatchesState /\ QueueShares
      /\ AudioTaskKnown /\ OneFrameInFlight /\ FrameIsCurGfx /\ NotBegunYet
      /\ GfxBeginsOnce
  BY DEF IInv
<1>2. UNCHANGED <<mainQ, schedVars, tickVars, hwVars, yieldFlag, gameVars,
                  frameTickQ, dpQ, resetPc>>
  BY DEF AudioDrain, AudioTick, AudioCreateTask, AudioCreateNull, AudioCreate,
     taskVars
<1>3. /\ begins' \in [GfxTasks \cup AudioTasks -> 0..2]
      /\ \A t \in GfxTasks : begins'[t] = begins[t]
  BY <1>1 DEF TypeOK, AudioDrain, AudioTick, AudioCreateTask, AudioCreateNull,
     AudioCreate, taskVars, AudioTasks, GfxTasks, NoTask
<1>4. /\ curAudio \in AudioTasks => curAudio' \in AudioTasks
      /\ audioPc' = "send" => curAudio' \in AudioTasks
  BY <1>1 DEF TypeOK, AudioDrain, AudioTick, AudioCreateTask, AudioCreateNull,
     AudioCreate, taskVars
<1>5. TypeOK'
  <2>1. /\ audioTickQ' \in BOOLEAN
        /\ audioPc' \in {"drain", "wait", "send", "create"}
        /\ audioBuf' \in AudioTasks
        /\ audioTask' \in AudioTasks \cup {NoTask}
        /\ curAudio' \in AudioTasks \cup {NoTask}
    BY <1>1 DEF TypeOK, AudioDrain, AudioTick, AudioCreateTask, AudioCreateNull,
       AudioCreate, OtherAudio, AudioTasks
  <2>2. slow' \in BOOLEAN /\ hasty' \in BOOLEAN
    <3>1. /\ slow' = slow \/ slow' = (spTaskState \in {"YIELDING", "AUDIO"})
          /\ hasty' = hasty \/ hasty' = (spTaskState = "YIELDING")
      BY DEF AudioDrain, AudioTick, AudioCreateTask, AudioCreateNull, AudioCreate
    <3>2. slow \in BOOLEAN /\ hasty \in BOOLEAN
      BY <1>1 DEF TypeOK
    <3>3. /\ (spTaskState \in {"YIELDING", "AUDIO"}) \in BOOLEAN
          /\ (spTaskState = "YIELDING") \in BOOLEAN
      OBVIOUS
    <3>4. slow' \in BOOLEAN
      BY <3>1, <3>2, <3>3
    <3>5. hasty' \in BOOLEAN
      BY <3>1, <3>2, <3>3
    <3> QED
      BY <3>4, <3>5
  <2> QED
    BY <1>1, <1>2, <1>3, <2>1, <2>2
    DEF TypeOK, schedVars, tickVars, hwVars, rspVars, gameVars
<1>6. SpAccounting' /\ RspMatchesState' /\ QueueShares'
  BY <1>1, <1>2 DEF SpAccounting, RspMatchesState, QueueShares, schedVars, hwVars,
     rspVars
<1>7. AudioTaskKnown'
  BY <1>1, <1>2, <1>4 DEF AudioTaskKnown, schedVars, TypeOK, NoTask
<1>8. OneFrameInFlight'
  BY <1>1, <1>2 DEF OneFrameInFlight, FramesInFlight, ResetStarted, gameVars,
     schedVars, hwVars, rspVars
<1>9. FrameIsCurGfx'
  BY <1>1, <1>2 DEF FrameIsCurGfx, gameVars, schedVars, hwVars, rspVars
<1>10. NotBegunYet' /\ GfxBeginsOnce'
  BY <1>1, <1>2, <1>3 DEF NotBegunYet, GfxBeginsOnce, gameVars, schedVars
<1> QED
  BY <1>5, <1>6, <1>7, <1>8, <1>9, <1>10 DEF IInv

\* The audio thread sends its message into an empty queue.
LEMMA AudioSendInv ==
  ASSUME IInv, AudioSend
  PROVE  IInv'
<1>1. /\ TypeOK /\ SpAccounting /\ RspMatchesState /\ QueueShares
      /\ AudioTaskKnown /\ OneFrameInFlight /\ FrameIsCurGfx /\ NotBegunYet
      /\ GfxBeginsOnce
  BY DEF IInv
<1>2. /\ mainQ' \in Seq(Events)
      /\ Counted(mainQ) /\ Counted(mainQ')
      /\ OneMore(mainQ', mainQ, "AUDIO_SET")
  BY <1>1, SendCounts DEF TypeOK, Events, AudioSend
<1>3. \A e \in Events : Pending(mainQ, e) = 0
  BY EmptyCounts DEF AudioSend, AudioMayRun
<1>4. /\ audioPc' = "create" /\ audioPc = "send"
      /\ audioBuf' = OtherAudio(audioBuf)
      /\ UNCHANGED <<schedVars, tickVars, hwVars, taskVars, audioTask, curAudio,
                     slow, hasty, gameVars, audioTickQ, frameTickQ, dpQ, resetPc>>
  BY DEF AudioSend
<1>5. TypeOK'
  <2>1. /\ audioPc' \in {"drain", "wait", "send", "create"}
        /\ audioBuf' \in AudioTasks
    BY <1>1, <1>4 DEF TypeOK, OtherAudio, AudioTasks
  <2> QED
    BY <1>1, <1>2, <1>4, <2>1 DEF TypeOK, schedVars, tickVars, hwVars, rspVars,
       taskVars, gameVars
<1>6. SpAccounting' /\ RspMatchesState' /\ AudioTaskKnown'
  BY <1>1, <1>2, <1>4 DEF SpAccounting, RspMatchesState, AudioTaskKnown,
     schedVars, hwVars, rspVars, OneMore, Counted, Events
<1>7. QueueShares'
  BY <1>2, <1>3, QueueAssumption DEF QueueShares, OneMore, Counted, Events
<1>8. OneFrameInFlight'
  <2>1. /\ Pending(mainQ', "GFX_SET") = Pending(mainQ, "GFX_SET")
        /\ Pending(mainQ', "DP") = Pending(mainQ, "DP")
    BY <1>2 DEF OneMore, Events
  <2>2. FramesInFlight' = FramesInFlight
    BY <1>4, <2>1 DEF FramesInFlight, rspVars, schedVars, hwVars
  <2> QED
    BY <1>1, <1>4, <2>2 DEF OneFrameInFlight, ResetStarted, gameVars
<1>9. FrameIsCurGfx'
  BY <1>1, <1>4 DEF FrameIsCurGfx, gameVars, schedVars, hwVars, rspVars, taskVars
<1>10. NotBegunYet' /\ GfxBeginsOnce'
  BY <1>1, <1>2, <1>4 DEF NotBegunYet, GfxBeginsOnce, OneMore, Counted, Events,
     gameVars, schedVars, taskVars
<1> QED
  BY <1>5, <1>6, <1>7, <1>8, <1>9, <1>10 DEF IInv

\* A step of the game thread leaves the rest alone.
LEMMA GameStepFrame ==
  ASSUME IInv, NEW from, NEW to \in {"boot", "tick", "build", "sync", "dp", "set", "send"},
         GameStep(from, to)
  PROVE  /\ gamePc = from /\ gamePc' = to /\ mainQ = <<>>
         /\ UNCHANGED <<schedVars, tickVars, hwVars, audioVars, audioTickQ, resetPc>>
         /\ mainQ' = mainQ =>
              SpAccounting' /\ RspMatchesState' /\ QueueShares' /\ AudioTaskKnown'
<1>1. /\ gamePc = from /\ gamePc' = to /\ mainQ = <<>>
      /\ UNCHANGED <<schedVars, tickVars, hwVars, audioVars, audioTickQ, resetPc>>
  BY DEF GameStep, GameMayRun, AudioMayRun
<1> QED
  BY <1>1 DEF IInv, SpAccounting, RspMatchesState, QueueShares, AudioTaskKnown,
     schedVars, hwVars, rspVars, audioVars

\* The next frame takes the other task.
LEMMA GameTickInv ==
  ASSUME IInv, GameTick
  PROVE  IInv'
<1>1. /\ TypeOK /\ OneFrameInFlight /\ FrameIsCurGfx /\ NotBegunYet
      /\ GfxBeginsOnce
  BY DEF IInv
<1>2. /\ \/ gamePc = "tick" /\ gamePc' = "build"
         \/ gamePc = "boot" /\ gamePc' = "set"
      /\ UNCHANGED <<schedVars, tickVars, hwVars, audioVars, audioTickQ, resetPc>>
      /\ mainQ' = mainQ =>
           SpAccounting' /\ RspMatchesState' /\ QueueShares' /\ AudioTaskKnown'
  BY GameStepFrame DEF GameTick
<1>3. /\ frameTickQ' = FALSE /\ gfxBuf' \in GfxTasks /\ gfxBuf' # gfxBuf
      /\ UNCHANGED <<mainQ, taskVars, curGfx, nextPeriod, dpQ>>
  BY <1>1 DEF GameTick, OtherGfx, GfxTasks, TypeOK
<1>4. TypeOK'
  <2>1. /\ frameTickQ' \in BOOLEAN
        /\ gamePc' \in {"boot", "tick", "build", "sync", "dp", "set", "send"}
    BY <1>2, <1>3
  <2> QED
    BY <1>1, <1>2, <1>3, <2>1 DEF TypeOK, schedVars, tickVars, hwVars, rspVars,
       taskVars, audioVars
<1>5. OneFrameInFlight'
  <2>1. FramesInFlight' = FramesInFlight
    BY <1>2, <1>3 DEF FramesInFlight, schedVars, hwVars, rspVars
  <2>2. B(gamePc \in {"tick", "build", "sync", "dp"})' = B(gamePc \in {"tick", "build", "sync", "dp"})
    BY <1>2 DEF B
  <2> QED
    BY <1>1, <1>2, <2>1, <2>2 DEF OneFrameInFlight, ResetStarted
<1>6. FrameIsCurGfx'
  BY <1>1, <1>2, <1>3 DEF FrameIsCurGfx, schedVars, hwVars, rspVars, taskVars,
     TypeOK, NoTask, GfxTasks
<1>7. NotBegunYet' /\ GfxBeginsOnce'
  BY <1>1, <1>2, <1>3 DEF NotBegunYet, GfxBeginsOnce, schedVars, taskVars
<1> QED
  BY <1>2, <1>3, <1>4, <1>5, <1>6, <1>7 DEF IInv

\* While it builds a frame, whether it waits for a retrace or not.
LEMMA GameBuildInv ==
  ASSUME IInv, GameBuild \/ GameDrain \/ GameSync
  PROVE  IInv'
<1>1. /\ TypeOK /\ OneFrameInFlight /\ FrameIsCurGfx /\ NotBegunYet
      /\ GfxBeginsOnce
  BY DEF IInv
<1>2. /\ gamePc \in {"build", "sync"} /\ gamePc' \in {"sync", "dp"}
      /\ UNCHANGED <<schedVars, tickVars, hwVars, audioVars, audioTickQ, resetPc>>
      /\ mainQ' = mainQ =>
           SpAccounting' /\ RspMatchesState' /\ QueueShares' /\ AudioTaskKnown'
  BY GameStepFrame DEF GameBuild, GameDrain, GameSync
<1>3. /\ nextPeriod' \in Periods /\ frameTickQ' \in BOOLEAN
      /\ UNCHANGED <<mainQ, taskVars, curGfx, gfxBuf, dpQ>>
  BY <1>1 DEF GameBuild, GameDrain, GameSync, TypeOK
<1>4. TypeOK'
  <2>1. gamePc' \in {"boot", "tick", "build", "sync", "dp", "set", "send"}
    BY <1>2
  <2> QED
    BY <2>1, <1>1, <1>2, <1>3 DEF TypeOK, schedVars, tickVars, hwVars, rspVars,
       taskVars, audioVars
<1>5. OneFrameInFlight'
  <2>1. FramesInFlight' = FramesInFlight
    BY <1>2, <1>3 DEF FramesInFlight, schedVars, hwVars, rspVars
  <2>2. B(gamePc \in {"tick", "build", "sync", "dp"})' = B(gamePc \in {"tick", "build", "sync", "dp"})
    BY <1>2 DEF B
  <2> QED
    BY <1>1, <1>2, <2>1, <2>2 DEF OneFrameInFlight, ResetStarted
<1>6. FrameIsCurGfx'
  BY <1>1, <1>2, <1>3 DEF FrameIsCurGfx, schedVars, hwVars, rspVars, taskVars
<1>7. NotBegunYet' /\ GfxBeginsOnce'
  BY <1>1, <1>2, <1>3 DEF NotBegunYet, GfxBeginsOnce, schedVars, taskVars
<1> QED
  BY <1>2, <1>3, <1>4, <1>5, <1>6, <1>7 DEF IInv

\* The game thread takes the frame back that was drawn.
LEMMA GameDpInv ==
  ASSUME IInv, GameDp
  PROVE  IInv'
<1>1. /\ TypeOK /\ OneFrameInFlight /\ FrameIsCurGfx /\ NotBegunYet
      /\ GfxBeginsOnce
  BY DEF IInv
<1>2. /\ gamePc = "dp" /\ gamePc' = "set"
      /\ UNCHANGED <<schedVars, tickVars, hwVars, audioVars, audioTickQ, resetPc>>
      /\ mainQ' = mainQ =>
           SpAccounting' /\ RspMatchesState' /\ QueueShares' /\ AudioTaskKnown'
  BY GameStepFrame DEF GameDp
<1>3. /\ dpQ /\ dpQ' = FALSE
      /\ UNCHANGED <<mainQ, taskVars, curGfx, gfxBuf, nextPeriod, frameTickQ>>
  BY DEF GameDp
<1>4. TypeOK'
  <2>1. /\ dpQ' \in BOOLEAN
        /\ gamePc' \in {"boot", "tick", "build", "sync", "dp", "set", "send"}
        /\ UNCHANGED <<mainQ, taskVars, curGfx, gfxBuf, nextPeriod, frameTickQ>>
    BY <1>2, <1>3
  <2> QED
    BY <1>1, <1>2, <2>1 DEF TypeOK, schedVars, tickVars, hwVars, rspVars,
       taskVars, audioVars
<1>5. OneFrameInFlight'
  <2>1. /\ B(gfxTaskQueued) \in Nat /\ B(spYielded) \in Nat
        /\ B(rspTask \in GfxTasks /\ ~rspSynced) \in Nat
        /\ B(gfxTaskYielded) \in Nat /\ rdpSyncs \in Nat
    BY <1>1 DEF B, TypeOK
  <2>2. /\ B(gfxTaskQueued)' = B(gfxTaskQueued) /\ B(spYielded)' = B(spYielded)
        /\ B(rspTask \in GfxTasks /\ ~rspSynced)' = B(rspTask \in GfxTasks /\ ~rspSynced)
        /\ B(gfxTaskYielded)' = B(gfxTaskYielded) /\ rdpSyncs' = rdpSyncs
        /\ mainQ' = mainQ
    BY <1>2, <1>3 DEF rspVars, schedVars, hwVars
  <2>3. B(dpQ) = 1 /\ B(dpQ)' = 0
    BY <1>3 DEF B
  <2>4. /\ Pending(mainQ, "GFX_SET") \in Nat /\ Pending(mainQ, "DP") \in Nat
    BY OnePlace
  <2>5. FramesInFlight' = FramesInFlight - 1 /\ FramesInFlight \in Nat
    BY <2>1, <2>2, <2>3, <2>4 DEF FramesInFlight
  <2>6. /\ B(gamePc \in {"tick", "build", "sync", "dp"}) = 1
        /\ B(gamePc \in {"tick", "build", "sync", "dp"})' = 0
    BY <1>2 DEF B
  <2>7. ResetStarted' <=> ResetStarted
    BY <1>2 DEF ResetStarted
  <2> QED
    BY <1>1, <2>5, <2>6, <2>7 DEF OneFrameInFlight
<1>6. FrameIsCurGfx'
  BY <1>1, <1>2, <1>3 DEF FrameIsCurGfx, schedVars, hwVars, rspVars, taskVars
<1>7. NotBegunYet' /\ GfxBeginsOnce'
  BY <1>1, <1>2, <1>3 DEF NotBegunYet, GfxBeginsOnce, schedVars, taskVars
<1> QED
  BY <1>2, <1>3, <1>4, <1>5, <1>6, <1>7 DEF IInv

\* No frame is in flight when the game thread moves gCurGfxTask.
LEMMA GameSetTaskInv ==
  ASSUME IInv, GameSetTask
  PROVE  IInv'
<1>1. /\ TypeOK /\ OneFrameInFlight /\ FrameIsCurGfx /\ NotBegunYet
      /\ GfxBeginsOnce
  BY DEF IInv
<1>2. /\ gamePc = "set" /\ gamePc' = "send"
      /\ UNCHANGED <<schedVars, tickVars, hwVars, audioVars, audioTickQ, resetPc>>
      /\ mainQ' = mainQ =>
           SpAccounting' /\ RspMatchesState' /\ QueueShares' /\ AudioTaskKnown'
  BY GameStepFrame DEF GameSetTask
<1>3. /\ yieldFlag' = [yieldFlag EXCEPT ![gfxBuf] = FALSE]
      /\ begins' = [begins EXCEPT ![gfxBuf] = 0]
      /\ curGfx' = gfxBuf /\ gfxBuf \in GfxTasks
      /\ UNCHANGED <<mainQ, gfxBuf, nextPeriod, frameTickQ, dpQ>>
  BY <1>1 DEF GameSetTask, TypeOK
<1>4. /\ ~gfxTaskQueued /\ ~(rspTask \in GfxTasks /\ ~rspSynced)
      /\ ~spYielded /\ ~gfxTaskYielded
  BY <1>2, OnePlace
<1>5. /\ yieldFlag' \in [GfxTasks -> BOOLEAN]
      /\ \A t \in GfxTasks : yieldFlag'[t] = FALSE
      /\ begins' \in [GfxTasks \cup AudioTasks -> 0..2]
      /\ begins'[gfxBuf] = 0
      /\ \A t \in GfxTasks : begins'[t] \in {begins[t], 0}
  BY <1>1, <1>3, <1>4 DEF TypeOK, FrameIsCurGfx
<1>6. TypeOK'
  <2>1. curGfx' \in GfxTasks \cup {NoTask}
    BY <1>3
  <2> QED
    BY <1>1, <1>2, <1>3, <1>5, <2>1 DEF TypeOK, schedVars, tickVars, hwVars,
       rspVars, audioVars
<1>7. OneFrameInFlight'
  <2>1. FramesInFlight' = FramesInFlight
    BY <1>2, <1>3 DEF FramesInFlight, schedVars, hwVars, rspVars
  <2>2. B(gamePc \in {"tick", "build", "sync", "dp"})' = B(gamePc \in {"tick", "build", "sync", "dp"})
    BY <1>2 DEF B
  <2> QED
    BY <1>1, <1>2, <2>1, <2>2 DEF OneFrameInFlight, ResetStarted
<1>8. FrameIsCurGfx'
  BY <1>2, <1>3, <1>4, <1>5 DEF FrameIsCurGfx, schedVars, hwVars, rspVars
<1>9. NotBegunYet' /\ GfxBeginsOnce'
  BY <1>1, <1>3, <1>5 DEF NotBegunYet, GfxBeginsOnce, TypeOK
<1> QED
  BY <1>2, <1>3, <1>6, <1>7, <1>8, <1>9 DEF IInv

\* The game thread sends its message into an empty queue.
LEMMA GameSendInv ==
  ASSUME IInv, GameSend
  PROVE  IInv'
<1>1. /\ TypeOK /\ SpAccounting /\ RspMatchesState /\ QueueShares
      /\ AudioTaskKnown /\ OneFrameInFlight /\ FrameIsCurGfx /\ NotBegunYet
      /\ GfxBeginsOnce
  BY DEF IInv
<1>2. /\ gamePc = "send" /\ gamePc' = "tick" /\ mainQ = <<>>
      /\ UNCHANGED <<schedVars, tickVars, hwVars, audioVars, audioTickQ, resetPc>>
  BY GameStepFrame DEF GameSend
<1>3. /\ mainQ' \in Seq(Events)
      /\ Counted(mainQ) /\ Counted(mainQ')
      /\ OneMore(mainQ', mainQ, "GFX_SET")
  BY <1>1, SendCounts DEF TypeOK, Events, GameSend
<1>4. \A e \in Events : Pending(mainQ, e) = 0
  BY <1>2, EmptyCounts
<1>5. UNCHANGED <<taskVars, curGfx, gfxBuf, nextPeriod, frameTickQ, dpQ>>
  BY DEF GameSend
<1>6. TypeOK'
  BY <1>1, <1>2, <1>3, <1>5 DEF TypeOK, schedVars, tickVars, hwVars, rspVars,
     taskVars, audioVars
<1>7. SpAccounting' /\ RspMatchesState' /\ AudioTaskKnown'
  BY <1>1, <1>2, <1>3 DEF SpAccounting, RspMatchesState, AudioTaskKnown,
     schedVars, hwVars, rspVars, audioVars, OneMore, Counted, Events
<1>8. QueueShares'
  BY <1>3, <1>4, QueueAssumption DEF QueueShares, OneMore, Counted, Events
<1>9. OneFrameInFlight'
  <2>1. /\ Pending(mainQ', "GFX_SET") = 1 /\ Pending(mainQ, "GFX_SET") = 0
        /\ Pending(mainQ', "DP") = 0 /\ Pending(mainQ, "DP") = 0
    BY <1>3, <1>4 DEF OneMore, Events
  <2>2. /\ B(gfxTaskQueued) \in Nat /\ B(spYielded) \in Nat
        /\ B(rspTask \in GfxTasks /\ ~rspSynced) \in Nat
        /\ B(gfxTaskYielded) \in Nat /\ rdpSyncs \in Nat /\ B(dpQ) \in Nat
    BY <1>1 DEF B, TypeOK
  <2>3. /\ B(gfxTaskQueued)' = B(gfxTaskQueued) /\ B(spYielded)' = B(spYielded)
        /\ B(rspTask \in GfxTasks /\ ~rspSynced)' = B(rspTask \in GfxTasks /\ ~rspSynced)
        /\ B(gfxTaskYielded)' = B(gfxTaskYielded) /\ rdpSyncs' = rdpSyncs
        /\ B(dpQ)' = B(dpQ)
    BY <1>2, <1>5 DEF rspVars, schedVars, hwVars
  <2>4. FramesInFlight' = FramesInFlight + 1 /\ FramesInFlight \in Nat
    BY <2>1, <2>2, <2>3 DEF FramesInFlight
  <2>5. /\ B(gamePc \in {"tick", "build", "sync", "dp"}) = 0
        /\ B(gamePc \in {"tick", "build", "sync", "dp"})' = 1
    BY <1>2 DEF B
  <2>6. ResetStarted' <=> ResetStarted
    BY <1>2 DEF ResetStarted
  <2> QED
    BY <1>1, <2>4, <2>5, <2>6 DEF OneFrameInFlight
<1>10. FrameIsCurGfx'
  BY <1>1, <1>2, <1>5 DEF FrameIsCurGfx, schedVars, hwVars, rspVars, taskVars
<1>11. NotBegunYet' /\ GfxBeginsOnce'
  BY <1>1, <1>2, <1>5 DEF NotBegunYet, GfxBeginsOnce, taskVars
<1> QED
  BY <1>6, <1>7, <1>8, <1>9, <1>10, <1>11 DEF IInv

LEMMA TroubleBounded ==
  ASSUME TypeOK, Trouble
  PROVE  troubles' \in 0..MaxTroubles
  BY QueueAssumption DEF TypeOK, Trouble

LEMMA ResetInv ==
  ASSUME IInv, ResetBegin \/ ResetSpin
  PROVE  IInv'
<1>1. /\ TypeOK /\ SpAccounting /\ RspMatchesState /\ QueueShares
      /\ AudioTaskKnown /\ OneFrameInFlight /\ FrameIsCurGfx /\ NotBegunYet
      /\ GfxBeginsOnce
  BY DEF IInv
<1>2. /\ UNCHANGED <<mainQ, schedVars, tickVars, rspVars, yieldBuf, rdpSyncs, taskVars,
                     audioVars, gameVars, audioTickQ, frameTickQ, dpQ>>
      /\ resetPc' \in {"started", "spin"}
      /\ troubles' = troubles \/ Trouble
  BY DEF ResetBegin, ResetSpin, hwVars
<1>3. TypeOK'
  <2>1. troubles' \in 0..MaxTroubles
    BY <1>1, <1>2, TroubleBounded DEF TypeOK
  <2> QED
    BY <1>1, <1>2, <2>1 DEF TypeOK, schedVars, tickVars, rspVars, taskVars,
       audioVars, gameVars
<1>4. SpAccounting' /\ RspMatchesState' /\ QueueShares' /\ AudioTaskKnown'
  BY <1>1, <1>2 DEF SpAccounting, RspMatchesState, QueueShares, AudioTaskKnown,
     schedVars, rspVars, audioVars
<1>5. OneFrameInFlight'
  <2>1. FramesInFlight' = FramesInFlight /\ FramesInFlight \in Nat
    BY <1>2, OnePlace DEF FramesInFlight, schedVars, rspVars
  <2>2. FramesInFlight <= B(gamePc \in {"tick", "build", "sync", "dp"})
    BY <1>1, <2>1 DEF OneFrameInFlight
  <2>3. B(gamePc \in {"tick", "build", "sync", "dp"})' = B(gamePc \in {"tick", "build", "sync", "dp"})
    BY <1>2 DEF gameVars
  <2>4. ResetStarted'
    BY <1>2 DEF ResetStarted
  <2> QED
    BY <2>1, <2>2, <2>3, <2>4 DEF OneFrameInFlight
<1>6. FrameIsCurGfx'
  BY <1>1, <1>2 DEF FrameIsCurGfx, schedVars, rspVars, taskVars, gameVars
<1>7. NotBegunYet' /\ GfxBeginsOnce'
  BY <1>1, <1>2 DEF NotBegunYet, GfxBeginsOnce, schedVars, taskVars, gameVars
<1> QED
  BY <1>3, <1>4, <1>5, <1>6, <1>7 DEF IInv

\* The graphics microcode passes the frame on to the RDP.
LEMMA RspSyncInv ==
  ASSUME IInv, RspSync
  PROVE  IInv'
<1>1. /\ TypeOK /\ SpAccounting /\ RspMatchesState /\ QueueShares
      /\ AudioTaskKnown /\ OneFrameInFlight /\ FrameIsCurGfx /\ NotBegunYet
      /\ GfxBeginsOnce
  BY DEF IInv
<1>2. /\ rspTask \in GfxTasks /\ ~rspSynced
      /\ rspSynced' = TRUE /\ rdpSyncs' = rdpSyncs + 1
      /\ UNCHANGED <<mainQ, rspTask, spYield, spYielded, yieldBuf, softVars,
                     troubles>>
  BY DEF RspSync
<1>3. TypeOK'
  <2>1. rspSynced' \in BOOLEAN /\ rdpSyncs' \in Nat
    BY <1>1, <1>2 DEF TypeOK
  <2> QED
    BY <1>1, <1>2, <2>1 DEF TypeOK, softVars, schedVars, tickVars, taskVars,
       audioVars, gameVars
<1>4. SpAccounting' /\ RspMatchesState' /\ QueueShares' /\ AudioTaskKnown'
  BY <1>1, <1>2 DEF SpAccounting, RspMatchesState, QueueShares, AudioTaskKnown,
     softVars, schedVars, audioVars
<1>5. OneFrameInFlight'
  <2>1. /\ B(rspTask \in GfxTasks /\ ~rspSynced) = 1
        /\ B(rspTask \in GfxTasks /\ ~rspSynced)' = 0
    BY <1>2 DEF B
  <2>2. /\ B(gfxTaskQueued) \in Nat /\ B(spYielded) \in Nat
        /\ B(gfxTaskYielded) \in Nat /\ rdpSyncs \in Nat /\ B(dpQ) \in Nat
        /\ Pending(mainQ, "GFX_SET") \in Nat /\ Pending(mainQ, "DP") \in Nat
    BY <1>1, OnePlace DEF B, TypeOK
  <2>3. /\ B(gfxTaskQueued)' = B(gfxTaskQueued) /\ B(spYielded)' = B(spYielded)
        /\ B(gfxTaskYielded)' = B(gfxTaskYielded) /\ B(dpQ)' = B(dpQ)
        /\ rdpSyncs' = rdpSyncs + 1 /\ mainQ' = mainQ
    BY <1>2 DEF softVars, schedVars
  <2>4. FramesInFlight' = FramesInFlight
    BY <2>1, <2>2, <2>3 DEF FramesInFlight
  <2> QED
    BY <1>1, <1>2, <2>4 DEF OneFrameInFlight, ResetStarted, softVars, gameVars
<1>6. FrameIsCurGfx'
  BY <1>1, <1>2 DEF FrameIsCurGfx, softVars, schedVars, taskVars, gameVars
<1>7. NotBegunYet' /\ GfxBeginsOnce'
  BY <1>1, <1>2 DEF NotBegunYet, GfxBeginsOnce, softVars, schedVars, taskVars,
     gameVars
<1> QED
  BY <1>3, <1>4, <1>5, <1>6, <1>7 DEF IInv

\* An interrupt's message finds a place in the queue, and is counted.
LEMMA InterruptCounts ==
  ASSUME IInv, NEW e \in Events, Interrupt(e),
         \/ e \in {"SP", "DP"} /\ Pending(mainQ, e) = 0
         \/ e = "VI" /\ Pending(mainQ, e) < MaxPendingVi
  PROVE  /\ mainQ' \in Seq(Events)
         /\ Counted(mainQ) /\ Counted(mainQ')
         /\ OneMore(mainQ', mainQ, e)
<1>1. mainQ \in Seq(Events)
  BY DEF IInv, TypeOK
<1>2. Counted(mainQ)
  BY <1>1, CountedSeq
<1>3. Len(mainQ) < MainQLen
  <2>1. CASE e = "SP"
    BY <2>1, RoomInQueue, QueueAssumption
  <2>2. CASE e = "DP"
    BY <2>2, RoomInQueue, QueueAssumption
  <2>3. CASE e = "VI"
    BY <1>2, <2>3, RoomInQueue, QueueAssumption DEF Counted, Events
  <2> QED
    BY <2>1, <2>2, <2>3
<1>4. mainQ' = Append(mainQ, e)
  BY <1>3 DEF Interrupt
<1> QED
  BY <1>1, <1>4, SendCounts

\* The RSP stops and its message tells the main thread.
LEMMA RspDoneInv ==
  ASSUME IInv, RspDone
  PROVE  IInv'
<1>1. /\ TypeOK /\ SpAccounting /\ RspMatchesState /\ QueueShares
      /\ AudioTaskKnown /\ OneFrameInFlight /\ FrameIsCurGfx /\ NotBegunYet
      /\ GfxBeginsOnce
  BY DEF IInv
<1>2. /\ rspTask # NoTask /\ ~(rspTask \in GfxTasks /\ ~rspSynced)
      /\ rspTask' = NoTask /\ rspSynced' = FALSE /\ Interrupt("SP")
      /\ UNCHANGED <<spYield, spYielded, yieldBuf, rdpSyncs, softVars, troubles>>
  BY DEF RspDone, GfxTasks, AudioTasks, NoTask
<1>3. spTaskActive /\ Pending(mainQ, "SP") = 0
  BY <1>1, <1>2 DEF SpAccounting
<1>4. /\ mainQ' \in Seq(Events)
      /\ Counted(mainQ) /\ Counted(mainQ')
      /\ OneMore(mainQ', mainQ, "SP")
  BY <1>2, <1>3, InterruptCounts DEF Events
<1>5. TypeOK'
  <2>1. rspTask' \in GfxTasks \cup AudioTasks \cup {NoTask} /\ rspSynced' \in BOOLEAN
    BY <1>2
  <2> QED
    BY <1>1, <1>2, <1>4, <2>1 DEF TypeOK, softVars, schedVars, tickVars, taskVars,
       audioVars, gameVars
<1>6. SpAccounting' /\ RspMatchesState' /\ QueueShares' /\ AudioTaskKnown'
  <2>1. NoTask \notin GfxTasks /\ NoTask \notin AudioTasks
    BY DEF NoTask, GfxTasks, AudioTasks
  <2>2. SpAccounting'
    BY <1>1, <1>2, <1>3, <1>4 DEF SpAccounting, OneMore, Counted, Events,
       softVars, schedVars
  <2>3. RspMatchesState'
    BY <1>1, <1>2, <2>1 DEF RspMatchesState, softVars, schedVars
  <2>4. QueueShares' /\ AudioTaskKnown'
    BY <1>1, <1>2, <1>4 DEF QueueShares, AudioTaskKnown, OneMore, Counted, Events,
       softVars, schedVars, audioVars
  <2> QED
    BY <2>2, <2>3, <2>4
<1>7. OneFrameInFlight'
  <2>1. /\ B(rspTask \in GfxTasks /\ ~rspSynced) = 0
        /\ B(rspTask \in GfxTasks /\ ~rspSynced)' = 0
    BY <1>2 DEF B, NoTask, GfxTasks
  <2>2. /\ Pending(mainQ', "GFX_SET") = Pending(mainQ, "GFX_SET")
        /\ Pending(mainQ', "DP") = Pending(mainQ, "DP")
    BY <1>4 DEF OneMore, Events
  <2>3. FramesInFlight' = FramesInFlight
    BY <1>2, <2>1, <2>2 DEF FramesInFlight, softVars, schedVars
  <2> QED
    BY <1>1, <1>2, <2>3 DEF OneFrameInFlight, ResetStarted, softVars, gameVars
<1>8. FrameIsCurGfx'
  BY <1>1, <1>2 DEF FrameIsCurGfx, softVars, schedVars, taskVars, gameVars, NoTask,
     GfxTasks
<1>9. NotBegunYet' /\ GfxBeginsOnce'
  BY <1>1, <1>2, <1>4 DEF NotBegunYet, GfxBeginsOnce, softVars, schedVars, taskVars,
     gameVars, OneMore, Events
<1> QED
  BY <1>5, <1>6, <1>7, <1>8, <1>9 DEF IInv

\* The RSP saves the task of the frame, before the RDP has its full sync.
LEMMA RspYieldInv ==
  ASSUME IInv, RspYield, ~LateYield
  PROVE  IInv'
<1>1. /\ TypeOK /\ SpAccounting /\ RspMatchesState /\ QueueShares
      /\ AudioTaskKnown /\ OneFrameInFlight /\ FrameIsCurGfx /\ NotBegunYet
      /\ GfxBeginsOnce
  BY DEF IInv
<1>2. /\ rspTask \in GfxTasks /\ rspTask # NoTask /\ ~rspSynced /\ spYield
      /\ yieldBuf' = [task |-> rspTask, synced |-> rspSynced]
      /\ rspTask' = NoTask /\ rspSynced' = FALSE /\ spYielded' = TRUE
      /\ Interrupt("SP")
      /\ UNCHANGED <<spYield, rdpSyncs, softVars, troubles>>
  BY DEF RspYield, GfxTasks, NoTask
<1>3. /\ spTaskActive /\ Pending(mainQ, "SP") = 0 /\ spTaskState = "YIELDING"
      /\ ~spYielded /\ ~gfxTaskYielded /\ curGfx = rspTask
  BY <1>1, <1>2, OnePlace DEF SpAccounting, RspMatchesState, FrameIsCurGfx
<1>4. /\ mainQ' \in Seq(Events)
      /\ Counted(mainQ) /\ Counted(mainQ')
      /\ OneMore(mainQ', mainQ, "SP")
  BY <1>2, <1>3, InterruptCounts DEF Events
<1>5. TypeOK'
  <2>1. /\ rspTask' \in GfxTasks \cup AudioTasks \cup {NoTask}
        /\ rspSynced' \in BOOLEAN /\ spYielded' \in BOOLEAN
        /\ yieldBuf' \in [task : GfxTasks \cup {NoTask}, synced : BOOLEAN]
    BY <1>1, <1>2 DEF TypeOK
  <2> QED
    BY <1>1, <1>2, <1>4, <2>1 DEF TypeOK, softVars, schedVars, tickVars, taskVars,
       audioVars, gameVars
<1>6. SpAccounting' /\ RspMatchesState' /\ QueueShares' /\ AudioTaskKnown'
  <2>1. NoTask \notin GfxTasks /\ NoTask \notin AudioTasks
    BY DEF NoTask, GfxTasks, AudioTasks
  <2>2. SpAccounting'
    BY <1>1, <1>2, <1>3, <1>4 DEF SpAccounting, OneMore, Counted, Events,
       softVars, schedVars
  <2>3. RspMatchesState'
    BY <1>1, <1>2, <1>3, <2>1 DEF RspMatchesState, softVars, schedVars
  <2>4. QueueShares' /\ AudioTaskKnown'
    BY <1>1, <1>2, <1>4 DEF QueueShares, AudioTaskKnown, OneMore, Counted, Events,
       softVars, schedVars, audioVars
  <2> QED
    BY <2>2, <2>3, <2>4
<1>7. OneFrameInFlight'
  <2>1. /\ B(rspTask \in GfxTasks /\ ~rspSynced) = 1
        /\ B(rspTask \in GfxTasks /\ ~rspSynced)' = 0
        /\ B(spYielded) = 0 /\ B(spYielded)' = 1
    BY <1>2, <1>3 DEF B, NoTask, GfxTasks
  <2>2. /\ Pending(mainQ', "GFX_SET") = Pending(mainQ, "GFX_SET")
        /\ Pending(mainQ', "DP") = Pending(mainQ, "DP")
        /\ Pending(mainQ, "GFX_SET") \in Nat /\ Pending(mainQ, "DP") \in Nat
    BY <1>4 DEF OneMore, Events, Counted
  <2>3. /\ B(gfxTaskQueued) \in Nat /\ B(gfxTaskYielded) \in Nat
        /\ B(dpQ) \in Nat /\ rdpSyncs \in Nat
    BY <1>1 DEF B, TypeOK
  <2>4. /\ B(gfxTaskQueued)' = B(gfxTaskQueued) /\ B(dpQ)' = B(dpQ)
        /\ B(gfxTaskYielded)' = B(gfxTaskYielded) /\ rdpSyncs' = rdpSyncs
    BY <1>2 DEF softVars, schedVars
  <2>5. FramesInFlight' = FramesInFlight
    BY <2>1, <2>2, <2>3, <2>4 DEF FramesInFlight
  <2> QED
    BY <1>1, <1>2, <2>5 DEF OneFrameInFlight, ResetStarted, softVars, gameVars
<1>8. FrameIsCurGfx'
  <2>1. yieldBuf' = [task |-> curGfx, synced |-> FALSE]
    BY <1>1, <1>2, <1>3 DEF TypeOK
  <2> QED
    BY <1>1, <1>2, <1>3, <2>1 DEF FrameIsCurGfx, softVars, schedVars, taskVars,
       gameVars, NoTask, GfxTasks
<1>9. NotBegunYet' /\ GfxBeginsOnce'
  BY <1>1, <1>2, <1>4 DEF NotBegunYet, GfxBeginsOnce, softVars, schedVars, taskVars,
     gameVars, OneMore, Events
<1> QED
  BY <1>5, <1>6, <1>7, <1>8, <1>9 DEF IInv

\* The RDP has drawn the frame.
LEMMA RdpDoneInv ==
  ASSUME IInv, RdpDone
  PROVE  IInv'
<1>1. /\ TypeOK /\ SpAccounting /\ RspMatchesState /\ QueueShares
      /\ AudioTaskKnown /\ OneFrameInFlight /\ FrameIsCurGfx /\ NotBegunYet
      /\ GfxBeginsOnce
  BY DEF IInv
<1>2. /\ rdpSyncs = 1 /\ rdpSyncs' = 0 /\ Interrupt("DP")
      /\ UNCHANGED <<rspVars, yieldBuf, softVars, troubles>>
  BY OnePlace DEF RdpDone
<1>3. Pending(mainQ, "DP") = 0
  BY <1>2, OnePlace
<1>4. /\ mainQ' \in Seq(Events)
      /\ Counted(mainQ) /\ Counted(mainQ')
      /\ OneMore(mainQ', mainQ, "DP")
  BY <1>2, <1>3, InterruptCounts DEF Events
<1>5. TypeOK'
  BY <1>1, <1>2, <1>4 DEF TypeOK, softVars, schedVars, tickVars, taskVars,
     audioVars, gameVars, rspVars
<1>6. SpAccounting' /\ RspMatchesState' /\ QueueShares' /\ AudioTaskKnown'
  BY <1>1, <1>2, <1>4 DEF SpAccounting, RspMatchesState, QueueShares,
     AudioTaskKnown, OneMore, Counted, Events, softVars, schedVars, audioVars,
     rspVars
<1>7. OneFrameInFlight'
  <2>1. /\ Pending(mainQ', "GFX_SET") = Pending(mainQ, "GFX_SET")
        /\ Pending(mainQ', "DP") = Pending(mainQ, "DP") + 1
        /\ Pending(mainQ, "GFX_SET") \in Nat /\ Pending(mainQ, "DP") \in Nat
    BY <1>4 DEF OneMore, Events, Counted
  <2>2. /\ B(gfxTaskQueued) \in Nat /\ B(gfxTaskYielded) \in Nat
        /\ B(rspTask \in GfxTasks /\ ~rspSynced) \in Nat
        /\ B(dpQ) \in Nat /\ B(spYielded) \in Nat
    BY DEF B
  <2>3. /\ B(gfxTaskQueued)' = B(gfxTaskQueued) /\ B(dpQ)' = B(dpQ)
        /\ B(gfxTaskYielded)' = B(gfxTaskYielded)
        /\ B(spYielded)' = B(spYielded)
        /\ B(rspTask \in GfxTasks /\ ~rspSynced)' = B(rspTask \in GfxTasks /\ ~rspSynced)
    BY <1>2 DEF softVars, schedVars, rspVars
  <2>4. FramesInFlight' = FramesInFlight
    BY <1>2, <2>1, <2>2, <2>3 DEF FramesInFlight
  <2> QED
    BY <1>1, <1>2, <2>4 DEF OneFrameInFlight, ResetStarted, softVars, gameVars
<1>8. FrameIsCurGfx'
  BY <1>1, <1>2 DEF FrameIsCurGfx, softVars, schedVars, taskVars, gameVars, rspVars
<1>9. NotBegunYet' /\ GfxBeginsOnce'
  BY <1>1, <1>2, <1>4 DEF NotBegunYet, GfxBeginsOnce, softVars, schedVars, taskVars,
     gameVars, OneMore, Events
<1> QED
  BY <1>5, <1>6, <1>7, <1>8, <1>9 DEF IInv

LEMMA ViRetraceInv ==
  ASSUME IInv, ViRetrace
  PROVE  IInv'
<1>1. /\ TypeOK /\ SpAccounting /\ RspMatchesState /\ QueueShares
      /\ AudioTaskKnown /\ OneFrameInFlight /\ FrameIsCurGfx /\ NotBegunYet
      /\ GfxBeginsOnce
  BY DEF IInv
<1>2. /\ Pending(mainQ, "VI") < MaxPendingVi /\ Interrupt("VI")
      /\ UNCHANGED <<rspVars, yieldBuf, rdpSyncs, softVars>>
      /\ troubles' = troubles \/ Trouble
  BY DEF ViRetrace
<1>3. /\ mainQ' \in Seq(Events)
      /\ Counted(mainQ) /\ Counted(mainQ')
      /\ OneMore(mainQ', mainQ, "VI")
  BY <1>2, InterruptCounts DEF Events
<1>4. TypeOK'
  <2>1. troubles' \in 0..MaxTroubles
    BY <1>1, <1>2, TroubleBounded DEF TypeOK
  <2> QED
    BY <1>1, <1>2, <1>3, <2>1 DEF TypeOK, softVars, schedVars, tickVars, taskVars,
       audioVars, gameVars, rspVars
<1>5. SpAccounting' /\ RspMatchesState' /\ AudioTaskKnown'
  BY <1>1, <1>2, <1>3 DEF SpAccounting, RspMatchesState,
     AudioTaskKnown, OneMore, Counted, Events, softVars, schedVars, audioVars,
     rspVars
<1>6. QueueShares'
  BY <1>1, <1>2, <1>3, QueueAssumption DEF QueueShares, OneMore, Counted, Events
<1>7. OneFrameInFlight'
  <2>1. /\ Pending(mainQ', "GFX_SET") = Pending(mainQ, "GFX_SET")
        /\ Pending(mainQ', "DP") = Pending(mainQ, "DP")
    BY <1>3 DEF OneMore, Events
  <2>2. FramesInFlight' = FramesInFlight
    BY <1>2, <2>1 DEF FramesInFlight, rspVars, softVars, schedVars
  <2> QED
    BY <1>1, <1>2, <2>2 DEF OneFrameInFlight, ResetStarted, softVars, gameVars
<1>8. FrameIsCurGfx'
  BY <1>1, <1>2 DEF FrameIsCurGfx, softVars, schedVars, taskVars, gameVars, rspVars
<1>9. NotBegunYet' /\ GfxBeginsOnce'
  BY <1>1, <1>2, <1>3 DEF NotBegunYet, GfxBeginsOnce, softVars, schedVars, taskVars,
     gameVars, OneMore, Events
<1> QED
  BY <1>4, <1>5, <1>6, <1>7, <1>8, <1>9 DEF IInv

-----------------------------------------------------------------------------
(* The invariant holds, and what follows from it.                          *)

LEMMA InitInv ==
  ASSUME Init
  PROVE  IInv
<1>1. PICK n \in 0..MaxPendingVi : mainQ = [i \in 1..n |-> "VI"]
  BY DEF Init
<1>2. n \in Nat /\ n <= MaxPendingVi
  BY QueueAssumption
<1>3. mainQ \in Seq(Events)
  BY <1>1, <1>2 DEF Events
<1>4. \A e \in Events \ {"VI"} : Pending(mainQ, e) = 0
  <2> SUFFICES ASSUME NEW e \in Events \ {"VI"}
               PROVE  Pending(mainQ, e) = 0
    OBVIOUS
  <2>1. {i \in DOMAIN mainQ : mainQ[i] = e} = {}
    BY <1>1
  <2> QED
    BY <2>1, FS_EmptySet DEF Pending
<1>5. Pending(mainQ, "VI") = n
  <2>1. {i \in DOMAIN mainQ : mainQ[i] = "VI"} = 1..n
    BY <1>1
  <2>2. Cardinality(1..n) = n
    BY <1>2, FS_Interval
  <2> QED
    BY <2>1, <2>2 DEF Pending
<1>6. TypeOK
  <2>1. /\ spTaskState \in {"INACTIVE", "YIELDING", "AUDIO", "GFX"}
        /\ retraces \in Nat /\ period \in Periods /\ nextPeriod \in Periods
        /\ curGfx \in GfxTasks \cup {NoTask}
        /\ curAudio \in AudioTasks \cup {NoTask}
        /\ rspTask \in GfxTasks \cup AudioTasks \cup {NoTask} /\ rdpSyncs \in Nat
        /\ audioPc \in {"drain", "wait", "send", "create"}
        /\ audioBuf \in AudioTasks /\ audioTask \in AudioTasks \cup {NoTask}
        /\ gamePc \in {"boot", "tick", "build", "sync", "dp", "set", "send"}
        /\ gfxBuf \in GfxTasks /\ resetPc \in {"wait", "started", "spin"}
    BY EnvAssumption DEF Init, GfxTasks, AudioTasks
  <2>2. /\ spTaskActive \in BOOLEAN /\ gfxTaskYielded \in BOOLEAN
        /\ gfxTaskQueued \in BOOLEAN /\ rspSynced \in BOOLEAN
        /\ spYield \in BOOLEAN /\ spYielded \in BOOLEAN
        /\ audioTickQ \in BOOLEAN /\ frameTickQ \in BOOLEAN /\ dpQ \in BOOLEAN
        /\ slow \in BOOLEAN /\ hasty \in BOOLEAN
    BY DEF Init
  <2>3. /\ yieldFlag \in [GfxTasks -> BOOLEAN]
        /\ yieldBuf \in [task : GfxTasks \cup {NoTask}, synced : BOOLEAN]
        /\ begins \in [GfxTasks \cup AudioTasks -> 0..2]
    BY DEF Init
  <2>4. troubles \in 0..MaxTroubles
    BY QueueAssumption DEF Init
  <2> QED
    BY <1>3, <2>1, <2>2, <2>3, <2>4 DEF TypeOK
<1>7. SpAccounting /\ RspMatchesState
  BY <1>4 DEF Init, SpAccounting, RspMatchesState, NoTask, GfxTasks, AudioTasks, Events
<1>8. QueueShares
  BY <1>2, <1>4, <1>5 DEF QueueShares, Events
<1>9. AudioTaskKnown
  BY <1>4 DEF Init, AudioTaskKnown, Events
<1>10. OneFrameInFlight
  <2>1. Pending(mainQ, "GFX_SET") = 0 /\ Pending(mainQ, "DP") = 0 /\ rdpSyncs = 0
    BY <1>4 DEF Init, Events
  <2>2. /\ B(gfxTaskQueued) = 0 /\ B(gfxTaskYielded) = 0 /\ B(spYielded) = 0
        /\ B(dpQ) = 0 /\ B(rspTask \in GfxTasks /\ ~rspSynced) = 0
        /\ B(gamePc \in {"tick", "build", "sync", "dp"}) = 0 /\ ~ResetStarted
    BY DEF Init, B, NoTask, GfxTasks, ResetStarted
  <2> QED
    BY <2>1, <2>2 DEF OneFrameInFlight, FramesInFlight
<1>11. FrameIsCurGfx
  BY DEF Init, FrameIsCurGfx, NoTask, GfxTasks
<1>12. NotBegunYet /\ GfxBeginsOnce
  BY DEF Init, NotBegunYet, GfxBeginsOnce, NoTask, GfxTasks
<1> QED
  BY <1>6, <1>7, <1>8, <1>9, <1>10, <1>11, <1>12 DEF IInv

LEMMA NextInv ==
  ASSUME IInv, Next, ~LateYield
  PROVE  IInv'
<1>1. CASE Main
  BY <1>1, SpWhileYieldingInv, SpAudioResumeGfxInv, SpAudioStartGfxInv, SpIdleInv,
     RetraceInv, AudioTaskSetInv, GfxTaskSetInv, DpDoneInv DEF Main
<1>2. CASE Audio
  BY <1>2, AudioInv, AudioSendInv DEF Audio
<1>3. CASE Game
  BY <1>3, GameTickInv, GameBuildInv, GameDpInv, GameSetTaskInv, GameSendInv
  DEF Game
<1>4. CASE ResetBegin \/ ResetSpin
  BY <1>4, ResetInv
<1>5. CASE Hardware
  BY <1>5, RspSyncInv, RspDoneInv, RspYieldInv, RdpDoneInv DEF Hardware
<1>6. CASE ViRetrace
  BY <1>6, ViRetraceInv
<1> QED
  BY <1>1, <1>2, <1>3, <1>4, <1>5, <1>6 DEF Next

LEMMA StutterInv ==
  ASSUME IInv, UNCHANGED vars
  PROVE  IInv'
<1>1. /\ UNCHANGED <<mainQ, schedVars, tickVars, rspVars, taskVars, audioVars,
                     gameVars, yieldBuf, rdpSyncs, audioTickQ, frameTickQ, dpQ,
                     resetPc, troubles>>
  BY DEF vars
<1> USE <1>1 DEF schedVars, tickVars, rspVars, taskVars, audioVars, gameVars, IInv
<1>2. TypeOK'
  BY DEF TypeOK
<1>3. SpAccounting' /\ RspMatchesState' /\ QueueShares' /\ AudioTaskKnown'
  BY DEF SpAccounting, RspMatchesState, QueueShares, AudioTaskKnown
<1>4. OneFrameInFlight'
  BY DEF OneFrameInFlight, FramesInFlight, ResetStarted
<1>5. FrameIsCurGfx' /\ NotBegunYet' /\ GfxBeginsOnce'
  BY DEF FrameIsCurGfx, NotBegunYet, GfxBeginsOnce
<1> QED
  BY <1>2, <1>3, <1>4, <1>5

\* IInv is an inductive invariant of the scheduler, if the graphics microcode
\* does not yield after its full sync.
THEOREM Invariance ==
  ASSUME ~LateYield
  PROVE  Spec => []IInv
<1>1. Init => IInv
  BY InitInv
<1>2. IInv /\ [Next]_vars => IInv'
  BY NextInv, StutterInv
<1> QED
  BY <1>1, <1>2, PTL DEF Spec

\* The variables keep their types: the main thread never starts a task
\* through a gCurGfxTask or a gCurAudioOSTask that is still NULL.
THEOREM TypeCorrect ==
  ASSUME ~LateYield
  PROVE  Spec => []TypeOK
<1>1. IInv => TypeOK
  BY DEF IInv
<1> QED
  BY <1>1, Invariance, PTL

\* sSpTaskActive and the SP messages in the queue agree with the RSP.
THEOREM SpAccounted ==
  ASSUME ~LateYield
  PROVE  Spec => []SpAccounting
<1>1. IInv => SpAccounting
  BY DEF IInv
<1> QED
  BY <1>1, Invariance, PTL

\* A graphics task that was set begins at most once.
THEOREM BeginsOnce ==
  ASSUME ~LateYield
  PROVE  Spec => []GfxBeginsOnce
<1>1. IInv => GfxBeginsOnce
  BY DEF IInv
<1> QED
  BY <1>1, Invariance, PTL

\* Exactly one frame is in flight while the game thread works on the next.
THEOREM OneFrame ==
  ASSUME ~LateYield
  PROVE  Spec => []OneFrameInFlight
<1>1. IInv => OneFrameInFlight
  BY DEF IInv
<1> QED
  BY <1>1, Invariance, PTL

\* No interrupt's message is dropped by gMainThreadMesgQueue, whatever its
\* length is as long as it has three places more than the retraces that wait.
THEOREM NothingLost ==
  ASSUME ~LateYield
  PROVE  Spec => []NoEventLost
<1>1. IInv => NoEventLost
  BY RoomInQueue
<1> QED
  BY <1>1, Invariance, PTL

\* The game thread writes only to a pool that the RSP is through with.
THEOREM PoolsExclusive ==
  ASSUME ~LateYield
  PROVE  Spec => []PoolExclusive
<1>1. ASSUME IInv
      PROVE  PoolExclusive
  <2>1. SUFFICES ASSUME gamePc \in {"build", "sync", "dp", "set"}
                 PROVE  /\ rspTask = gfxBuf => rspSynced
                        /\ gfxTaskYielded => yieldBuf.task # gfxBuf \/ yieldBuf.synced
                        /\ gfxTaskQueued => curGfx # gfxBuf
    BY DEF PoolExclusive
  <2>2. curGfx # gfxBuf /\ gfxBuf \in GfxTasks
    BY <1>1, <2>1 DEF IInv, FrameIsCurGfx, TypeOK
  <2>3. /\ rspTask \in GfxTasks /\ ~rspSynced => rspTask = curGfx
        /\ gfxTaskYielded => yieldBuf = [task |-> curGfx, synced |-> FALSE]
    BY <1>1 DEF IInv, FrameIsCurGfx
  <2> QED
    BY <2>2, <2>3
<1> QED
  BY <1>1, Invariance, PTL

\* A task is started only on an idle RSP.
LEMMA StartStep ==
  ASSUME IInv, [Next]_vars
  PROVE  [rspTask # NoTask => rspTask' \in {rspTask, NoTask}]_vars
<1>1. mainQ \in Seq(Events)
  BY DEF IInv, TypeOK
<1>2. ASSUME Receive("SP")
      PROVE  rspTask = NoTask
  <2>1. Counted(mainQ) /\ Counted(mainQ') /\ OneMore(mainQ, mainQ', "SP")
    BY <1>1, <1>2, ReceiveCounts DEF Events
  <2> QED
    BY <2>1 DEF IInv, SpAccounting, OneMore, Counted, Events
<1>3. ~spTaskActive => rspTask = NoTask
  BY DEF IInv, SpAccounting
<1>4. CASE Main
  <2>1. CASE SpWhileYielding \/ SpAudioResumeGfx \/ SpAudioStartGfx \/ SpIdle
    BY <1>2, <2>1 DEF SpWhileYielding, SpAudioResumeGfx, SpAudioStartGfx, SpIdle
  <2>2. CASE Retrace
    BY <2>2 DEF Retrace, rspVars
  <2>3. CASE AudioTaskSet
    BY <1>3, <2>3 DEF AudioTaskSet, rspVars, Sched_SpTaskYield
  <2>4. CASE GfxTaskSet
    BY <1>3, <2>4 DEF GfxTaskSet, rspVars
  <2>5. CASE DpDone
    BY <2>5 DEF DpDone, rspVars
  <2> QED
    BY <1>4, <2>1, <2>2, <2>3, <2>4, <2>5 DEF Main
<1>5. CASE Audio
  BY <1>5 DEF Audio, AudioDrain, AudioTick, AudioSend, AudioCreateTask,
     AudioCreateNull, AudioCreate, hwVars, rspVars
<1>6. CASE Game
  BY <1>6 DEF Game, GameTick, GameBuild, GameDrain, GameSync, GameDp, GameSetTask, GameSend, GameStep,
     hwVars, rspVars
<1>7. CASE ResetBegin \/ ResetSpin
  BY <1>7 DEF ResetBegin, ResetSpin, hwVars, rspVars
<1>8. CASE Hardware
  BY <1>8 DEF Hardware, RspSync, RspDone, RspYield, RdpDone, rspVars
<1>9. CASE ViRetrace
  BY <1>9 DEF ViRetrace, rspVars
<1>10. CASE UNCHANGED vars
  BY <1>10
<1> QED
  BY <1>4, <1>5, <1>6, <1>7, <1>8, <1>9, <1>10 DEF Next

\* osSpTaskStart never finds the RSP at work.
THEOREM NeverStartsOnBusyRsp ==
  ASSUME ~LateYield
  PROVE  Spec => NeverStartOnBusyRsp
<1>1. IInv /\ [Next]_vars => [rspTask # NoTask => rspTask' \in {rspTask, NoTask}]_vars
  BY StartStep
<1> QED
  BY <1>1, Invariance, PTL DEF Spec, NeverStartOnBusyRsp

\* Each step is a step of FrameService or leaves "frame" as it is.
LEMMA ServiceStep ==
  ASSUME IInv, [Next]_vars
  PROVE  [Service!Next]_frame
<1>1. CASE GameSend
  <2>1. gamePc = "send" /\ gamePc' = "tick" /\ dpQ' = dpQ
    BY <1>1 DEF GameSend, GameStep
  <2>2. ~dpQ
    BY <2>1, OnePlace
  <2> QED
    BY <2>1, <2>2 DEF frame, Service!Next, Service!Set
<1>2. CASE DpDone
  <2>1. Pending(mainQ, "DP") = 1
    <3>1. mainQ \in Seq(Events)
      BY DEF IInv, TypeOK
    <3>2. Counted(mainQ) /\ Counted(mainQ') /\ OneMore(mainQ, mainQ', "DP")
      BY <1>2, <3>1, ReceiveCounts DEF Events, DpDone
    <3> QED
      BY <3>2, OnePlace DEF OneMore, Counted, Events
  <2>2. gamePc \in {"tick", "build", "sync", "dp"} /\ ~dpQ
    BY <2>1, OnePlace
  <2>3. dpQ' /\ gamePc' = gamePc
    BY <1>2 DEF DpDone, Receive, gameVars
  <2> QED
    BY <2>2, <2>3 DEF frame, Service!Next, Service!Draw
<1>3. CASE GameDp
  BY <1>3 DEF GameDp, GameStep, frame, Service!Next, Service!Collect
<1>4. CASE GameTick \/ GameBuild \/ GameDrain \/ GameSync \/ GameSetTask
  BY <1>4 DEF GameTick, GameBuild, GameDrain, GameSync, GameSetTask, GameStep, frame
<1>5. CASE SpWhileYielding \/ SpAudioResumeGfx \/ SpAudioStartGfx \/ SpIdle
           \/ Retrace \/ AudioTaskSet \/ GfxTaskSet
  BY <1>5 DEF SpWhileYielding, SpAudioResumeGfx, SpAudioStartGfx, SpIdle, Retrace,
     AudioTaskSet, GfxTaskSet, Receive, gameVars, frame
<1>6. CASE Audio
  BY <1>6 DEF Audio, AudioDrain, AudioTick, AudioSend, AudioCreateTask,
     AudioCreateNull, AudioCreate, gameVars, frame
<1>7. CASE ResetBegin \/ ResetSpin
  BY <1>7 DEF ResetBegin, ResetSpin, gameVars, frame
<1>8. CASE Hardware \/ ViRetrace
  BY <1>8 DEF Hardware, RspSync, RspDone, RspYield, RdpDone, ViRetrace, softVars,
     gameVars, frame
<1>9. CASE UNCHANGED vars
  BY <1>9 DEF vars, gameVars, frame
<1> QED
  BY <1>1, <1>2, <1>3, <1>4, <1>5, <1>6, <1>7, <1>8, <1>9 DEF Next, Main, Game

\* The scheduler implements FrameService: every frame the game thread sets is
\* reported as drawn at most once, and none that it did not set.
THEOREM DrawsOnce ==
  ASSUME ~LateYield
  PROVE  Spec => DrawsEachFrameOnce
<1>1. Init => Service!Init
  BY DEF Init, Service!Init, frame
<1>2. IInv /\ [Next]_vars => [Service!Next]_frame
  BY ServiceStep
<1> QED
  BY <1>1, <1>2, Invariance, PTL DEF Spec, DrawsEachFrameOnce, Service!Spec


-----------------------------------------------------------------------------
(* The audio thread's turns.  A task is hasty when it is set while a yield *)
(* is awaited for the one before, and the thread is slow when it finds a   *)
(* task of its own that is not over.                                       *)

AudioSet  == Pending(mainQ, "AUDIO_SET") > 0
AudioBusy == AudioSet \/ spTaskState \in {"YIELDING", "AUDIO"}

\* What a task that is no hasty one has behind it.
TaskTurns ==
  /\ AudioSet => audioPc = "create"
  /\ ~hasty =>
       /\ audioPc = "send" \/ AudioSet =>
            spTaskState # "YIELDING" /\ begins[curAudio] = 0
       /\ spTaskState = "YIELDING" => begins[curAudio] = 0
       /\ curAudio \in AudioTasks => begins[curAudio] <= 1

\* What the audio thread finds when it was not slow: the RSP is with the task
\* in the other buffer, or with none.
BufferTurns ==
  /\ audioPc \in {"wait", "drain", "send"} => audioTask \in {NoTask, audioBuf}
  /\ audioPc = "send" => curAudio = audioBuf
  /\ ~slow =>
       /\ audioPc = "send" => spTaskState \notin {"YIELDING", "AUDIO"}
       /\ audioPc = "create" =>
            /\ AudioBusy => curAudio # audioBuf
            /\ rspTask \in AudioTasks => rspTask = curAudio

AudioTurns == TaskTurns /\ BufferTurns

\* A step of the others leaves the turns alone if it brings no audio task and
\* begins none.
Elsewhere ==
  /\ UNCHANGED audioVars
  /\ \A a \in AudioTasks : begins'[a] = begins[a]
  /\ Pending(mainQ', "AUDIO_SET") > 0 => Pending(mainQ, "AUDIO_SET") > 0
  /\ spTaskState' \in {"YIELDING", "AUDIO"} => spTaskState' = spTaskState
  /\ rspTask' \in AudioTasks => rspTask' = rspTask

LEMMA TurnsKept ==
  ASSUME IInv, AudioTurns, Elsewhere
  PROVE  AudioTurns'
<1> USE DEF Elsewhere
<1>1. /\ audioPc' = audioPc /\ audioBuf' = audioBuf /\ audioTask' = audioTask
      /\ curAudio' = curAudio /\ slow' = slow /\ hasty' = hasty
  BY DEF audioVars
<1>2. audioPc = "send" \/ AudioSet \/ spTaskState = "YIELDING" =>
        curAudio \in AudioTasks
  BY DEF IInv, AudioTaskKnown, AudioSet
<1>3. (AudioSet' => AudioSet) /\ (AudioBusy' => AudioBusy)
  BY DEF AudioSet, AudioBusy
<1>4. spTaskState' = "YIELDING" => spTaskState = "YIELDING"
  OBVIOUS
<1>5. TaskTurns'
  <2>1. AudioSet' => audioPc' = "create"
    BY <1>1, <1>3 DEF AudioTurns, TaskTurns
  <2>2. ~hasty' /\ (audioPc' = "send" \/ AudioSet') =>
          spTaskState' # "YIELDING" /\ begins'[curAudio'] = 0
    BY <1>1, <1>2, <1>3, <1>4 DEF AudioTurns, TaskTurns
  <2>3. ~hasty' /\ spTaskState' = "YIELDING" => begins'[curAudio'] = 0
    BY <1>1, <1>2, <1>4 DEF AudioTurns, TaskTurns
  <2>4. ~hasty' /\ curAudio' \in AudioTasks => begins'[curAudio'] <= 1
    BY <1>1 DEF AudioTurns, TaskTurns
  <2> QED
    BY <2>1, <2>2, <2>3, <2>4 DEF TaskTurns
<1>6. BufferTurns'
  BY <1>1, <1>3 DEF AudioTurns, BufferTurns
<1> QED
  BY <1>5, <1>6 DEF AudioTurns

\* What the counts of the queue say of the step that takes a message.
LEMMA ReceiveTurns ==
  ASSUME IInv, NEW e \in Events, Receive(e)
  PROVE  /\ Pending(mainQ, e) > 0
         /\ Pending(mainQ', "AUDIO_SET") > 0 => Pending(mainQ, "AUDIO_SET") > 0
         /\ e = "AUDIO_SET" => ~(Pending(mainQ', "AUDIO_SET") > 0)
         /\ UNCHANGED audioVars
<1>1. mainQ \in Seq(Events)
  BY DEF IInv, TypeOK
<1>2. Counted(mainQ) /\ Counted(mainQ') /\ OneMore(mainQ, mainQ', e)
  BY <1>1, ReceiveCounts
<1>3. /\ Pending(mainQ, "AUDIO_SET") + Pending(mainQ, "GFX_SET") <= 1
  BY DEF IInv, QueueShares
<1>4. /\ Pending(mainQ, "AUDIO_SET") \in Nat /\ Pending(mainQ', "AUDIO_SET") \in Nat
      /\ Pending(mainQ, "GFX_SET") \in Nat
      /\ Pending(mainQ, e) \in Nat /\ Pending(mainQ', e) \in Nat
  BY <1>2 DEF Counted, Events
<1>5. UNCHANGED audioVars
  BY DEF Receive
<1>6. Pending(mainQ, "AUDIO_SET") = Pending(mainQ', "AUDIO_SET") \/ e = "AUDIO_SET"
  BY <1>2 DEF OneMore, Events
<1>7. Pending(mainQ, e) = Pending(mainQ', e) + 1
  BY <1>2 DEF OneMore
<1>8. Pending(mainQ, e) > 0
  BY <1>4, <1>7
<1>9. Pending(mainQ', "AUDIO_SET") > 0 => Pending(mainQ, "AUDIO_SET") > 0
  BY <1>6, <1>8
<1>10. e = "AUDIO_SET" => ~(Pending(mainQ', "AUDIO_SET") > 0)
  BY <1>3, <1>4, <1>7
<1> QED
  BY <1>5, <1>8, <1>9, <1>10

\* A graphics task that starts or goes on is no audio task.
LEMMA GfxIsNoAudio ==
  ASSUME IInv, Sched_SpTaskStartGfx
  PROVE  /\ rspTask' \notin AudioTasks /\ spTaskState' = "GFX"
         /\ \A a \in AudioTasks : begins'[a] = begins[a]
<1>1. /\ curGfx \in GfxTasks \cup {NoTask}
      /\ yieldBuf \in [task : GfxTasks \cup {NoTask}, synced : BOOLEAN]
      /\ begins \in [GfxTasks \cup AudioTasks -> 0..2]
  BY DEF IInv, TypeOK
<1>2. yieldBuf.task \notin AudioTasks /\ curGfx \notin AudioTasks
  BY <1>1 DEF AudioTasks, GfxTasks, NoTask
<1>3. SpTaskStart(curGfx, yieldFlag) /\ spTaskState' = "GFX"
  BY DEF Sched_SpTaskStartGfx
<1>4. rspTask' \in {yieldBuf.task, curGfx}
  BY <1>3 DEF SpTaskStart
<1>5. \A a \in AudioTasks : begins'[a] = begins[a]
  BY <1>1, <1>2, <1>3 DEF SpTaskStart
<1> QED
  BY <1>2, <1>3, <1>4, <1>5

\* The audio task begins, for the first time since it was set unless it is a
\* hasty one.
LEMMA AudioStarts ==
  ASSUME IInv, AudioTurns, NEW flags, Sched_SpTaskStartAudio(flags),
         UNCHANGED audioVars,
         AudioBusy, ~hasty => begins[curAudio] = 0,
         ~(Pending(mainQ', "AUDIO_SET") > 0), audioPc # "send"
  PROVE  AudioTurns'
<1>1. /\ audioPc' = audioPc /\ audioBuf' = audioBuf /\ audioTask' = audioTask
      /\ curAudio' = curAudio /\ slow' = slow /\ hasty' = hasty
  BY DEF audioVars
<1>2. /\ begins \in [GfxTasks \cup AudioTasks -> 0..2]
      /\ curAudio \in AudioTasks
  BY DEF IInv, TypeOK, AudioTaskKnown, AudioBusy, AudioSet
<1>3. curAudio \notin GfxTasks
  BY <1>2 DEF AudioTasks, GfxTasks
<1>4. /\ rspTask' = curAudio
      /\ begins' = [begins EXCEPT ![curAudio] = Min2(@ + 1, 2)]
      /\ spTaskState' = "AUDIO"
  BY <1>3 DEF Sched_SpTaskStartAudio, SpTaskStart
<1>5. ~hasty => begins'[curAudio] <= 1
  BY <1>2, <1>4 DEF Min2
<1>6. ~AudioSet'
  BY DEF AudioSet
<1>7. TaskTurns'
  BY <1>1, <1>4, <1>5, <1>6 DEF TaskTurns
<1>8. BufferTurns'
  BY <1>1, <1>4 DEF AudioTurns, BufferTurns
<1> QED
  BY <1>7, <1>8 DEF AudioTurns

LEMMA MainTurns ==
  ASSUME IInv, AudioTurns, Main
  PROVE  AudioTurns'
<1>1. CASE SpWhileYielding
  <2>1. /\ Receive("SP") /\ spTaskState = "YIELDING"
        /\ Sched_SpTaskStartAudio(SpTaskYielded)
    BY <1>1 DEF SpWhileYielding
  <2>2. "SP" \in Events
    BY DEF Events
  <2>3. /\ Pending(mainQ', "AUDIO_SET") > 0 => AudioSet
        /\ UNCHANGED audioVars
    BY <2>1, <2>2, ReceiveTurns DEF AudioSet
  <2>4. CASE audioPc = "send"
    <3>1. hasty /\ slow /\ ~AudioSet
      BY <2>1, <2>4 DEF AudioTurns, TaskTurns, BufferTurns
    <3>2. /\ audioPc' = audioPc /\ hasty' = hasty /\ slow' = slow
          /\ audioTask' = audioTask /\ audioBuf' = audioBuf /\ curAudio' = curAudio
      BY <2>3 DEF audioVars
    <3>3. ~AudioSet'
      BY <2>3, <3>1 DEF AudioSet
    <3> QED
      BY <2>4, <3>1, <3>2, <3>3 DEF AudioTurns, TaskTurns, BufferTurns
  <2>5. CASE audioPc # "send" /\ ~AudioSet
    <3>1. AudioBusy /\ (~hasty => begins[curAudio] = 0)
      BY <2>1 DEF AudioBusy, AudioTurns, TaskTurns
    <3> QED
      BY <2>1, <2>3, <2>5, <3>1, AudioStarts
  <2>6. CASE AudioSet
    <3>1. hasty /\ audioPc = "create"
      BY <2>1, <2>6 DEF AudioTurns, TaskTurns
    <3>2. /\ audioPc' = audioPc /\ hasty' = hasty /\ slow' = slow
          /\ audioTask' = audioTask /\ audioBuf' = audioBuf /\ curAudio' = curAudio
      BY <2>3 DEF audioVars
    <3>3. curAudio \in AudioTasks
      BY <2>1 DEF IInv, AudioTaskKnown
    <3>4. rspTask' = curAudio
      BY <2>1, <3>3 DEF Sched_SpTaskStartAudio, SpTaskStart, AudioTasks, GfxTasks
    <3>5. AudioBusy
      BY <2>6 DEF AudioBusy
    <3>6. TaskTurns'
      BY <3>1, <3>2 DEF TaskTurns
    <3>7. BufferTurns'
      BY <3>1, <3>2, <3>4, <3>5 DEF AudioTurns, BufferTurns
    <3> QED
      BY <3>6, <3>7 DEF AudioTurns
  <2> QED
    BY <2>4, <2>5, <2>6
<1>2. CASE SpAudioResumeGfx \/ SpAudioStartGfx
  <2>1. /\ Receive("SP") /\ Sched_SpTaskStartGfx
    BY <1>2 DEF SpAudioResumeGfx, SpAudioStartGfx
  <2>2. "SP" \in Events
    BY DEF Events
  <2>3. Elsewhere
    BY <2>1, <2>2, ReceiveTurns, GfxIsNoAudio DEF Elsewhere
  <2> QED
    BY <2>3, TurnsKept
<1>3. CASE SpIdle
  <2>1. /\ Receive("SP") /\ spTaskState' = "INACTIVE" /\ rspTask' = rspTask
        /\ begins' = begins
    BY <1>3 DEF SpIdle, rspVars, taskVars
  <2>2. "SP" \in Events
    BY DEF Events
  <2>3. Elsewhere
    BY <2>1, <2>2, ReceiveTurns DEF Elsewhere
  <2> QED
    BY <2>3, TurnsKept
<1>4. CASE Retrace
  <2>1. /\ Receive("VI") /\ begins' = begins /\ rspTask' = rspTask
        /\ spTaskState' = spTaskState
    BY <1>4 DEF Retrace, schedVars, rspVars, taskVars
  <2>2. "VI" \in Events
    BY DEF Events
  <2>3. Elsewhere
    BY <2>1, <2>2, ReceiveTurns DEF Elsewhere
  <2> QED
    BY <2>3, TurnsKept
<1>5. CASE AudioTaskSet
  <2>1. Receive("AUDIO_SET")
    BY <1>5 DEF AudioTaskSet
  <2>2. "AUDIO_SET" \in Events
    BY DEF Events
  <2>3. /\ AudioSet /\ ~(Pending(mainQ', "AUDIO_SET") > 0)
        /\ UNCHANGED audioVars
    BY <2>1, <2>2, ReceiveTurns DEF AudioSet
  <2>4. /\ AudioBusy /\ audioPc = "create" /\ (~hasty => begins[curAudio] = 0)
    BY <2>3 DEF AudioBusy, AudioTurns, TaskTurns
  <2>5. CASE ~spTaskActive
    <3>1. Sched_SpTaskStartAudio(yieldFlag)
      BY <1>5, <2>5 DEF AudioTaskSet
    <3> QED
      BY <2>3, <2>4, <3>1, AudioStarts
  <2>6. CASE spTaskActive
    <3>1. spTaskState' = "YIELDING" /\ rspTask' = rspTask /\ begins' = begins
      <4>1. CASE spTaskState # "YIELDING"
        BY <1>5, <2>6, <4>1 DEF AudioTaskSet, Sched_SpTaskYield, taskVars
      <4>2. CASE spTaskState = "YIELDING"
        BY <1>5, <2>6, <4>2 DEF AudioTaskSet, rspVars, taskVars
      <4> QED
        BY <4>1, <4>2
    <3>2. /\ audioPc' = audioPc /\ audioBuf' = audioBuf /\ audioTask' = audioTask
          /\ curAudio' = curAudio /\ slow' = slow /\ hasty' = hasty
      BY <2>3 DEF audioVars
    <3>3. ~AudioSet'
      BY <2>3 DEF AudioSet
    <3>4. TaskTurns'
      BY <2>4, <3>1, <3>2, <3>3 DEF AudioTurns, TaskTurns
    <3>5. BufferTurns'
      BY <2>4, <3>1, <3>2 DEF AudioTurns, BufferTurns
    <3> QED
      BY <3>4, <3>5 DEF AudioTurns
  <2> QED
    BY <2>5, <2>6 DEF IInv, TypeOK
<1>6. CASE GfxTaskSet
  <2>1. Receive("GFX_SET")
    BY <1>6 DEF GfxTaskSet
  <2>2. "GFX_SET" \in Events
    BY DEF Events
  <2>3. CASE Sched_SpTaskStartGfx
    <3>1. Elsewhere
      BY <2>1, <2>2, <2>3, ReceiveTurns, GfxIsNoAudio DEF Elsewhere
    <3> QED
      BY <3>1, TurnsKept
  <2>4. CASE UNCHANGED <<spTaskState, rspVars, taskVars>>
    <3>1. spTaskState' = spTaskState /\ rspTask' = rspTask /\ begins' = begins
      BY <2>4 DEF rspVars, taskVars
    <3>2. Elsewhere
      BY <2>1, <2>2, <3>1, ReceiveTurns DEF Elsewhere
    <3> QED
      BY <3>2, TurnsKept
  <2> QED
    BY <1>6, <2>3, <2>4 DEF GfxTaskSet
<1>7. CASE DpDone
  <2>1. /\ Receive("DP") /\ begins' = begins
        /\ rspTask' = rspTask /\ spTaskState' = spTaskState
    BY <1>7 DEF DpDone, schedVars, rspVars, taskVars
  <2>2. "DP" \in Events
    BY DEF Events
  <2>3. Elsewhere
    BY <2>1, <2>2, ReceiveTurns DEF Elsewhere
  <2> QED
    BY <2>3, TurnsKept
<1> QED
  BY <1>1, <1>2, <1>3, <1>4, <1>5, <1>6, <1>7 DEF Main

LEMMA AudioThreadTurns ==
  ASSUME IInv, AudioTurns, Audio
  PROVE  AudioTurns'
<1>1. /\ mainQ = <<>>
      /\ UNCHANGED <<spTaskState, rspTask>>
  BY DEF Audio, AudioDrain, AudioTick, AudioSend, AudioCreateTask, AudioCreateNull,
     AudioCreate, AudioMayRun, schedVars, hwVars, rspVars
<1>2. Pending(mainQ, "AUDIO_SET") = 0 /\ ~AudioSet
  BY <1>1, EmptyCounts DEF Events, AudioSet
<1>3. /\ audioBuf \in AudioTasks /\ audioTask \in AudioTasks \cup {NoTask}
      /\ curAudio \in AudioTasks \cup {NoTask}
      /\ begins \in [GfxTasks \cup AudioTasks -> 0..2]
      /\ mainQ \in Seq(Events)
  BY DEF IInv, TypeOK
<1>4. /\ spTaskState = "YIELDING" \/ audioPc = "send" => curAudio \in AudioTasks
      /\ rspTask \in AudioTasks => spTaskState \in {"AUDIO", "YIELDING"}
  BY DEF IInv, AudioTaskKnown, RspMatchesState
<1>5. OtherAudio(audioBuf) # audioBuf
  BY <1>3 DEF OtherAudio, AudioTasks
<1>6. CASE AudioDrain
  <2>1. /\ mainQ' = mainQ /\ audioPc = "drain" /\ audioPc' = "wait"
        /\ UNCHANGED <<audioBuf, audioTask, curAudio, begins, slow, hasty>>
    BY <1>6 DEF AudioDrain, taskVars
  <2>2. ~AudioSet'
    BY <1>2, <2>1 DEF AudioSet
  <2> QED
    BY <1>1, <2>1, <2>2 DEF AudioTurns, TaskTurns, BufferTurns
<1>7. CASE AudioTick
  <2>1. /\ mainQ' = mainQ /\ audioPc = "wait"
        /\ audioTask' = audioTask
        /\ slow' = (spTaskState \in {"YIELDING", "AUDIO"})
    BY <1>7 DEF AudioTick
  <2>2. audioTask \in {NoTask, audioBuf}
    BY <2>1 DEF AudioTurns, BufferTurns
  <2>3. ~AudioSet' /\ spTaskState' = spTaskState
    BY <1>1, <1>2, <2>1 DEF AudioSet
  <2>4. CASE audioTask # NoTask
    <3>1. /\ curAudio' = audioTask /\ audioPc' = "send" /\ audioBuf' = audioBuf
          /\ begins' = [begins EXCEPT ![audioTask] = 0]
          /\ hasty' = (spTaskState = "YIELDING")
      BY <1>7, <2>4 DEF AudioTick
    <3>2. audioTask = audioBuf
      BY <2>2, <2>4
    <3>3. begins'[curAudio'] = 0
      BY <1>3, <3>1, <3>2
    <3>4. ~hasty' => spTaskState' # "YIELDING"
      BY <2>3, <3>1
    <3>5. TaskTurns'
      BY <2>3, <3>1, <3>3, <3>4 DEF TaskTurns
    <3>6. BufferTurns'
      BY <1>1, <2>1, <3>1, <3>2 DEF BufferTurns
    <3> QED
      BY <3>5, <3>6 DEF AudioTurns
  <2>5. CASE audioTask = NoTask
    <3>1. /\ curAudio' = curAudio /\ audioPc' = "create" /\ begins' = begins
          /\ hasty' = hasty
      BY <1>7, <2>5 DEF AudioTick
    <3>2. TaskTurns'
      BY <1>1, <2>3, <3>1 DEF AudioTurns, TaskTurns
    <3>3. BufferTurns'
      BY <1>1, <1>4, <2>1, <2>3, <3>1 DEF BufferTurns, AudioBusy
    <3> QED
      BY <3>2, <3>3 DEF AudioTurns
  <2> QED
    BY <2>4, <2>5
<1>8. CASE AudioSend
  <2>1. /\ mainQ' = Append(mainQ, "AUDIO_SET") /\ audioPc = "send"
        /\ audioPc' = "create" /\ audioBuf' = OtherAudio(audioBuf)
        /\ UNCHANGED <<begins, curAudio, audioTask, slow, hasty>>
    BY <1>8 DEF AudioSend, taskVars
  <2>2. curAudio = audioBuf
    BY <2>1 DEF AudioTurns, BufferTurns
  <2>3. TaskTurns'
    BY <1>1, <2>1 DEF AudioTurns, TaskTurns
  <2>4. ~slow => rspTask \notin AudioTasks
    BY <1>4, <2>1 DEF AudioTurns, BufferTurns
  <2>5. BufferTurns'
    BY <1>1, <1>5, <2>1, <2>2, <2>4 DEF BufferTurns
  <2> QED
    BY <2>3, <2>5 DEF AudioTurns
<1>9. CASE AudioCreateTask \/ AudioCreateNull
  <2>1. /\ mainQ' = mainQ /\ audioPc = "create" /\ audioPc' = "drain"
        /\ UNCHANGED <<audioBuf, curAudio, begins, slow, hasty>>
        /\ audioTask' \in {NoTask, audioBuf}
    BY <1>9 DEF AudioCreateTask, AudioCreateNull, AudioCreate, taskVars
  <2>2. ~AudioSet'
    BY <1>2, <2>1 DEF AudioSet
  <2> QED
    BY <1>1, <2>1, <2>2 DEF AudioTurns, TaskTurns, BufferTurns
<1> QED
  BY <1>6, <1>7, <1>8, <1>9 DEF Audio

LEMMA GameTurns ==
  ASSUME IInv, AudioTurns, Game
  PROVE  AudioTurns'
<1>1. /\ UNCHANGED <<audioVars, spTaskState, rspTask>>
  BY DEF Game, GameTick, GameBuild, GameDrain, GameSync, GameDp, GameSetTask,
     GameSend, GameStep, schedVars, hwVars, rspVars
<1>2. \A a \in AudioTasks : begins'[a] = begins[a]
  <2>1. CASE GameSetTask
    <3>1. /\ begins' = [begins EXCEPT ![gfxBuf] = 0]
          /\ gfxBuf \in GfxTasks
          /\ begins \in [GfxTasks \cup AudioTasks -> 0..2]
      BY <2>1 DEF GameSetTask, IInv, TypeOK
    <3>2. gfxBuf \notin AudioTasks
      BY <3>1 DEF GfxTasks, AudioTasks
    <3> QED
      BY <3>1, <3>2
  <2>2. CASE ~GameSetTask
    BY <2>2 DEF Game, GameTick, GameBuild, GameDrain, GameSync, GameDp, GameSend,
       taskVars
  <2> QED
    BY <2>1, <2>2
<1>3. Pending(mainQ', "AUDIO_SET") = Pending(mainQ, "AUDIO_SET")
  <2>1. CASE GameSend
    <3>1. mainQ \in Seq(Events) /\ mainQ' = Append(mainQ, "GFX_SET")
      BY <2>1 DEF GameSend, IInv, TypeOK
    <3>2. OneMore(mainQ', mainQ, "GFX_SET")
      BY <3>1, SendCounts DEF Events
    <3> QED
      BY <3>2 DEF OneMore, Events
  <2>2. CASE ~GameSend
    <3>1. mainQ' = mainQ
      BY <2>2 DEF Game, GameTick, GameBuild, GameDrain, GameSync, GameDp, GameSetTask
    <3> QED
      BY <3>1
  <2> QED
    BY <2>1, <2>2
<1>4. Elsewhere
  BY <1>1, <1>2, <1>3 DEF Elsewhere
<1> QED
  BY <1>4, TurnsKept

LEMMA HardwareTurns ==
  ASSUME IInv, AudioTurns, Hardware
  PROVE  AudioTurns'
<1>1. /\ UNCHANGED <<audioVars, spTaskState, begins>>
  BY DEF Hardware, RspSync, RspDone, RspYield, RdpDone, softVars, schedVars, taskVars
<1>2. rspTask' \in {rspTask, NoTask}
  BY DEF Hardware, RspSync, RspDone, RspYield, RdpDone, rspVars
<1>3. NoTask \notin AudioTasks
  BY DEF NoTask, AudioTasks
<1>4. mainQ \in Seq(Events) /\ "SP" \in Events /\ "DP" \in Events
  BY DEF IInv, TypeOK, Events
<1>5. mainQ' = mainQ \/ mainQ' = Append(mainQ, "SP") \/ mainQ' = Append(mainQ, "DP")
  BY DEF Hardware, RspSync, RspDone, RspYield, RdpDone, Interrupt
<1>6. Pending(mainQ', "AUDIO_SET") = Pending(mainQ, "AUDIO_SET")
  <2>1. CASE mainQ' = mainQ
    BY <2>1
  <2>2. CASE mainQ' = Append(mainQ, "SP")
    <3>1. OneMore(mainQ', mainQ, "SP")
      BY <1>4, <2>2, SendCounts
    <3> QED
      BY <3>1 DEF OneMore, Events
  <2>3. CASE mainQ' = Append(mainQ, "DP")
    <3>1. OneMore(mainQ', mainQ, "DP")
      BY <1>4, <2>3, SendCounts
    <3> QED
      BY <3>1 DEF OneMore, Events
  <2> QED
    BY <1>5, <2>1, <2>2, <2>3
<1>7. \A a \in AudioTasks : begins'[a] = begins[a]
  BY <1>1
<1>8. Elsewhere
  BY <1>1, <1>2, <1>3, <1>6, <1>7 DEF Elsewhere
<1> QED
  BY <1>8, TurnsKept

LEMMA ViTurns ==
  ASSUME IInv, AudioTurns, ViRetrace
  PROVE  AudioTurns'
<1>1. UNCHANGED <<audioVars, spTaskState, begins, rspTask>>
  BY DEF ViRetrace, softVars, schedVars, taskVars, rspVars
<1>2. mainQ \in Seq(Events) /\ "VI" \in Events
  BY DEF IInv, TypeOK, Events
<1>3. mainQ' = mainQ \/ mainQ' = Append(mainQ, "VI")
  BY DEF ViRetrace, Interrupt
<1>4. Pending(mainQ', "AUDIO_SET") = Pending(mainQ, "AUDIO_SET")
  <2>1. CASE mainQ' = mainQ
    BY <2>1
  <2>2. CASE mainQ' = Append(mainQ, "VI")
    <3>1. OneMore(mainQ', mainQ, "VI")
      BY <1>2, <2>2, SendCounts
    <3> QED
      BY <3>1 DEF OneMore, Events
  <2> QED
    BY <1>3, <2>1, <2>2
<1>5. \A a \in AudioTasks : begins'[a] = begins[a]
  BY <1>1
<1>6. Elsewhere
  BY <1>1, <1>4, <1>5 DEF Elsewhere
<1> QED
  BY <1>6, TurnsKept

LEMMA ResetTurns ==
  ASSUME IInv, AudioTurns, ResetBegin \/ ResetSpin \/ UNCHANGED vars
  PROVE  AudioTurns'
<1>1. UNCHANGED <<mainQ, audioVars, spTaskState, begins, rspTask>>
  BY DEF ResetBegin, ResetSpin, vars, schedVars, taskVars, hwVars, rspVars
<1>2. \A a \in AudioTasks : begins'[a] = begins[a]
  BY <1>1
<1>3. Pending(mainQ', "AUDIO_SET") = Pending(mainQ, "AUDIO_SET")
  BY <1>1
<1>4. Elsewhere
  BY <1>1, <1>2, <1>3 DEF Elsewhere
<1> QED
  BY <1>4, TurnsKept

LEMMA InitTurns ==
  ASSUME Init
  PROVE  AudioTurns
<1>1. PICK n \in 0..MaxPendingVi : mainQ = [i \in 1..n |-> "VI"]
  BY DEF Init
<1>2. {i \in DOMAIN mainQ : mainQ[i] = "AUDIO_SET"} = {}
  BY <1>1
<1>3. ~AudioSet
  BY <1>2, FS_EmptySet DEF Pending, AudioSet
<1>4. /\ audioPc = "drain" /\ audioTask = NoTask /\ spTaskState = "INACTIVE"
      /\ curAudio = NoTask
  BY DEF Init
<1>5. NoTask \notin AudioTasks
  BY DEF NoTask, AudioTasks
<1> QED
  BY <1>3, <1>4, <1>5 DEF AudioTurns, TaskTurns, BufferTurns

\* However long the audio tasks take: each that is set begins once, except one
\* that is set while a yield is awaited for the task before; and the audio
\* thread fills the buffer that the RSP reads only after a retrace that found
\* a task which was not over.
THEOREM AudioBeginsOnce ==
  ASSUME ~LateYield
  PROVE  Spec => []AudioTaskOnce
<1>1. Init => AudioTurns
  BY InitTurns
<1>2. IInv /\ AudioTurns /\ [Next]_vars => AudioTurns'
  BY MainTurns, AudioThreadTurns, GameTurns, HardwareTurns, ViTurns, ResetTurns
  DEF Next
<1>3. IInv /\ AudioTurns => AudioTaskOnce
  <2>1. ASSUME IInv, AudioTurns
        PROVE  /\ curAudio \in AudioTasks \cup {NoTask}
               /\ audioBuf \in AudioTasks
               /\ rspTask \in AudioTasks => AudioBusy
    BY <2>1 DEF IInv, TypeOK, RspMatchesState, AudioBusy
  <2>2. ASSUME IInv, AudioTurns
        PROVE  curAudio # NoTask /\ ~hasty => begins[curAudio] <= 1
    BY <2>1, <2>2 DEF AudioTurns, TaskTurns
  <2>3. ASSUME IInv, AudioTurns
        PROVE  audioPc = "create" /\ ~slow => rspTask # audioBuf
    BY <2>1, <2>3 DEF AudioTurns, BufferTurns
  <2> QED
    BY <2>2, <2>3 DEF AudioTaskOnce
<1> QED
  BY <1>1, <1>2, <1>3, Invariance, PTL DEF Spec

=============================================================================
