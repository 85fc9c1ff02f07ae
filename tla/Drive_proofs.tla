---------------------------- MODULE Drive_proofs ----------------------------
(***************************************************************************)
(* The bus to the cartridge and the disk drive, and the files on its       *)
(* disks.                                                                  *)
(*                                                                         *)
(* Whoever takes the PI finds it at rest, a thread that copies has its     *)
(* data when its wait returns, and a block of the disk told of without an  *)
(* error is whole: for any number of clients, any lengths of the queues    *)
(* and any size of a block, with a drive that may count wrong (but not at  *)
(* the first sector of a second block) or give up.                         *)
(*                                                                         *)
(* A file that has been saved is on the disk until it is saved again or    *)
(* erased: for any number of disks and files and any room on them, however *)
(* often the power goes and the player takes a disk out.                   *)
(***************************************************************************)
EXTENDS PiManager, DiskFiles, TLAPS, FiniteSetTheorems, FunctionTheorems

-----------------------------------------------------------------------------
(* The inductive invariant.                                                *)

Ranges ==
  /\ cmdQ \in Seq(Client)
  /\ ret \in [Client -> Nat] /\ moved \in [Client -> Nat]
  /\ evtQ \in 0..1
  /\ mgrPc \in {"command", "access", "event"} /\ mb \in Client \cup {Idle}
  /\ messageSend \in BOOLEAN
  /\ state \in [Copier \cup {Leo} -> {"idle", "wait", "seek"}]
  /\ dma \in [what : {"none", "copy", "sector", "c2"},
              for : Client \cup {Idle}, block : Blocks]
  /\ {piIntr, piOn, cartOn} \subseteq BOOLEAN
  /\ info \in [type : Types, mode : Modes, blockNum : Blocks, sectorNum : Int,
               c1 : [Blocks -> Nat], err : [Blocks -> Errors]]
  /\ beat \in Int /\ next \in 0..1 /\ left \in 0..2

Queued(c) == \E i \in DOMAIN cmdQ : cmdQ[i] = c
Once(c)   == \A i, j \in DOMAIN cmdQ : cmdQ[i] = c /\ cmdQ[j] = c => i = j

\* A thread that copies has one command, or one answer, at most; and its data
\* is in memory from the end of its DMA on.
CopiesOnce ==
  \A c \in Copier :
    /\ state[c] # "seek"
    /\ state[c] = "idle" => ~Queued(c) /\ mb # c /\ ret[c] = 0
    /\ ret[c] > 0 => ret[c] = 1 /\ ~Queued(c) /\ mb # c
    /\ mb = c => ~Queued(c)
    /\ Once(c)
    /\ moved[c] = IF ret[c] > 0 \/ (mb = c /\ mgrPc = "event" /\ dma = NoDma)
                  THEN 1 ELSE 0

\* The thread of the Expansion Kit does one thing at a time.
LeoAlone ==
  state[Leo] # "idle" =>
    /\ ExpansionKit
    /\ \A c \in Copier : state[c] = "idle"
    /\ \A c \in Streamer : ~Queued(c) /\ mb # c

\* Where Leo's command is, and how many ends of blocks Leo has and will get.

LeoRests ==
  state[Leo] \in {"idle", "seek"} /\ ~Queued(Leo) /\ mb # Leo /\ ret[Leo] = 0

LeoPosted ==
  /\ state[Leo] = "wait" /\ cmdQ = <<Leo>> /\ mb = Idle
  /\ ret[Leo] = 0 /\ next = 0
  /\ left = IF info.type = "read" /\ info.mode = "track" THEN 2 ELSE 1
  /\ info.type # "none" /\ info.blockNum = 0

LeoServed ==
  /\ state[Leo] = "wait" /\ cmdQ = <<>> /\ mb = Leo
  /\ \/ messageSend /\ left = 2 /\ ret[Leo] = 0 /\ next = 0
     \/ ~messageSend /\ left = 1 /\ ret[Leo] = 0
     \/ /\ ~messageSend /\ left = 2 /\ ret[Leo] = 1 /\ next = 0
        /\ info.err[0] = Good /\ info.blockNum = 1

LeoTold ==
  /\ state[Leo] = "wait" /\ cmdQ = <<>> /\ mb = Idle
  /\ \/ left = 1 /\ ret[Leo] = 1
     \/ left = 2 /\ next = 0 /\ ret[Leo] = 1 /\ info.err[0] # Good
     \/ left = 2 /\ next = 0 /\ ret[Leo] = 2 /\ info.err[0] = Good

LeoStage == LeoRests \/ LeoPosted \/ LeoServed \/ LeoTold

\* What goes on on the bus.

Rest ==
  dma = NoDma /\ ~piIntr /\ evtQ = 0 /\ piOn /\ cartOn /\ beat = Off

\* The last DMA of a transfer, its interrupt, its event.
Ending ==
  /\ piOn /\ cartOn /\ beat = Off
  /\ \/ dma # NoDma /\ ~piIntr /\ evtQ = 0
     \/ dma = NoDma /\ piIntr /\ evtQ = 0
     \/ dma = NoDma /\ ~piIntr /\ evtQ = 1

Copying ==
  Ending /\ (dma # NoDma => dma.what = "copy" /\ dma.for = mb)

\* The drive asks for sectors.  The end of a first block waits in the event
\* queue once the second has begun.
Transferring ==
  /\ ~piOn /\ cartOn /\ beat >= 0 /\ info.sectorNum >= -1
  /\ dma.what # "copy"
  /\ info.type \in {"read", "write"}
  /\ messageSend => info.type = "read" /\ info.mode = "track"
  /\ info.type = "read" /\ info.mode = "track" /\ ~messageSend => info.blockNum = 1
  /\ SecondBegins => messageSend /\ beat = 0 /\ info.err[0] # Good
  /\ evtQ = 0 /\ messageSend /\ info.blockNum = 1 => SecondBegins
  /\ evtQ = 1 => /\ messageSend /\ info.blockNum = 1 /\ info.sectorNum # -1
                 /\ info.err[0] = Good /\ info.err[1] # 29

\* An interrupt of the drive has met a DMA.
Met ==
  /\ evtQ = 1 /\ info.err[info.blockNum] = 29 /\ dma.what # "copy"
  /\ messageSend => info.blockNum = 0 \/ info.err[0] # Good

Ended == Ending /\ dma.what # "copy" /\ (messageSend => info.err[0] # Good)

Bus ==
  /\ mgrPc = "command" <=> mb = Idle
  /\ mgrPc # "event" => Rest
  /\ mgrPc = "event" /\ mb # Leo => Copying
  /\ mgrPc = "event" /\ mb = Leo => Transferring \/ Met \/ Ended
  /\ mgrPc = "access" /\ mb = Leo =>
       /\ info.type # "none" /\ info.blockNum = 0 /\ info.sectorNum = -1
       /\ messageSend <=> info.type = "read" /\ info.mode = "track"

IInv == Ranges /\ CopiesOnce /\ LeoAlone /\ LeoStage /\ Bus
-----------------------------------------------------------------------------
(* The queue of commands.                                                  *)

LEMMA Posted ==
  ASSUME NEW c \in Client, cmdQ \in Seq(Client), Post(c) \/ PostHigh(c)
  PROVE  /\ cmdQ' \in Seq(Client)
         /\ \A d : d # c => (Queued(d)' => Queued(d)) /\ (Once(d) => Once(d)')
         /\ ~Queued(c) => Once(c)'
         /\ cmdQ = <<>> => cmdQ' = <<c>>
<1> USE DEF Queued, Once
<1>1. CASE cmdQ' = cmdQ /\ cmdQ # <<>>
  BY <1>1
<1>2. CASE cmdQ' = Append(cmdQ, c)
  <2>1. /\ cmdQ' \in Seq(Client) /\ Len(cmdQ') = Len(cmdQ) + 1
        /\ DOMAIN cmdQ' = 1..Len(cmdQ) + 1 /\ DOMAIN cmdQ = 1..Len(cmdQ)
        /\ \A i \in DOMAIN cmdQ : cmdQ'[i] = cmdQ[i]
        /\ cmdQ'[Len(cmdQ) + 1] = c /\ Len(cmdQ) \in Nat
    BY <1>2
  <2>2. cmdQ = <<>> => cmdQ' = <<c>>
    BY <1>2
  <2> QED
    BY <2>1, <2>2
<1>3. CASE cmdQ' = <<c>> \o cmdQ
  <2>1. /\ cmdQ' \in Seq(Client) /\ Len(cmdQ') = Len(cmdQ) + 1
        /\ DOMAIN cmdQ' = 1..Len(cmdQ) + 1 /\ DOMAIN cmdQ = 1..Len(cmdQ)
        /\ \A i \in DOMAIN cmdQ' : i # 1 => i - 1 \in DOMAIN cmdQ /\ cmdQ'[i] = cmdQ[i - 1]
        /\ cmdQ'[1] = c /\ Len(cmdQ) \in Nat
    BY <1>3
  <2>2. cmdQ = <<>> => cmdQ' = <<c>>
    BY <1>3
  <2> QED
    BY <2>1, <2>2
<1>4. cmdQ' = cmdQ => ~(Len(cmdQ) < CmdLen) \/ cmdQ # <<>>
  BY DEF Post, PostHigh
<1> QED
  BY <1>1, <1>2, <1>3, PiAssumption DEF Post, PostHigh

LEMMA Taken ==
  ASSUME cmdQ \in Seq(Client), cmdQ # <<>>, cmdQ' = Tail(cmdQ),
         NEW h, h = Head(cmdQ)
  PROVE  /\ cmdQ' \in Seq(Client) /\ h \in Client
         /\ Queued(h)
         /\ \A d : (Queued(d)' => Queued(d)) /\ (Once(d) => Once(d)')
         /\ Once(h) => ~Queued(h)'
<1> USE DEF Queued, Once
<1>1. /\ cmdQ' \in Seq(Client) /\ Len(cmdQ') = Len(cmdQ) - 1 /\ Len(cmdQ) > 0
      /\ DOMAIN cmdQ' = 1..Len(cmdQ) - 1 /\ DOMAIN cmdQ = 1..Len(cmdQ)
      /\ \A i \in DOMAIN cmdQ' : i + 1 \in DOMAIN cmdQ /\ cmdQ'[i] = cmdQ[i + 1]
      /\ h = cmdQ[1] /\ 1 \in DOMAIN cmdQ /\ Len(cmdQ) \in Nat
  OBVIOUS
<1>2. ASSUME NEW d
      PROVE  (Queued(d)' => Queued(d)) /\ (Once(d) => Once(d)')
  <2>1. Queued(d)' => Queued(d)
    BY <1>1
  <2>2. ASSUME Once(d), NEW i \in DOMAIN cmdQ', NEW j \in DOMAIN cmdQ',
               cmdQ'[i] = d, cmdQ'[j] = d
        PROVE  i = j
    <3>1. i + 1 = j + 1
      BY <1>1, <2>2
    <3> QED
      BY <3>1, <1>1
  <2> QED
    BY <2>1, <2>2
<1>3. ASSUME Once(h), NEW i \in DOMAIN cmdQ', cmdQ'[i] = h
      PROVE  FALSE
  <2>1. i + 1 = 1
    BY <1>1, <1>3
  <2> QED
    BY <2>1, <1>1
<1>4. Queued(h) /\ h \in Client
  BY <1>1
<1>5. Once(h) => ~Queued(h)'
  BY <1>3
<1> HIDE DEF Queued, Once
<1> QED
  BY <1>1, <1>2, <1>4, <1>5

-----------------------------------------------------------------------------
(* The clients.                                                            *)

\* Who is who.
LEMMA Parties ==
  /\ Leo \notin Copier /\ Leo \notin Streamer /\ Leo \in Client
  /\ Copier \subseteq Client /\ Streamer \subseteq Client
  /\ Copier \cap Streamer = {} /\ Idle \notin Client
  /\ \A c \in Copier : RetLen(c) = 1
  /\ RetLen(Leo) = 2
BY PiAssumption DEF Client, RetLen

LEMMA FreeBus ==
  ASSUME IInv, BusFree
  PROVE  /\ cmdQ = <<>> /\ mb = Idle /\ mgrPc = "command" /\ ret[Leo] = 0
         /\ state[Leo] = "idle" /\ Rest
<1> USE DEF IInv
<1>1. /\ \A c \in Copier : ~Queued(c) /\ mb # c
      /\ \A c \in Streamer : ~Queued(c) /\ mb # c
      /\ state[Leo] = "idle"
  BY DEF BusFree, CopiesOnce, Queued
<1>2. LeoRests
  BY <1>1 DEF LeoStage, LeoPosted, LeoServed, LeoTold
<1>3. mb = Idle /\ mgrPc = "command" /\ Rest
  BY <1>1, <1>2 DEF Ranges, Client, Bus, LeoRests
<1>4. \A c \in Client : ~Queued(c)
  BY <1>1, <1>2 DEF Client, LeoRests
<1>5. cmdQ = <<>>
  BY <1>4 DEF Ranges, Queued
<1> QED
  BY <1>1, <1>2, <1>3, <1>5 DEF LeoRests

LEMMA CopyStep ==
  ASSUME IInv, NEW c \in Copier, Copy(c)
  PROVE  IInv'
<1> USE DEF IInv
<1>1. /\ state[c] = "idle" /\ (ExpansionKit => BusFree)
      /\ Post(c) \/ PostHigh(c)
      /\ state' = [state EXCEPT ![c] = "wait"]
      /\ UNCHANGED <<evtQ, ret, manager, next, left, pi, masks, disk, moved>>
  BY DEF Copy
<1>2. /\ mgrPc' = mgrPc /\ mb' = mb /\ messageSend' = messageSend
      /\ dma' = dma /\ piIntr' = piIntr /\ piOn' = piOn /\ cartOn' = cartOn
      /\ info' = info /\ beat' = beat
  BY <1>1 DEF manager, pi, masks, disk
<1>3. /\ cmdQ' \in Seq(Client)
      /\ \A d : d # c => (Queued(d)' => Queued(d)) /\ (Once(d) => Once(d)')
      /\ ~Queued(c) => Once(c)'
  BY <1>1, Parties, Posted DEF Ranges
<1>4. /\ state'[c] = "wait" /\ state'[Leo] = state[Leo] /\ state[Leo] = "idle"
      /\ \A d \in Copier : d # c => state'[d] = state[d]
  BY <1>1, Parties DEF Ranges, LeoAlone, BusFree
<1>5. Ranges'
  BY <1>1, <1>2, <1>3 DEF Ranges
<1>6. CopiesOnce'
  <2> SUFFICES ASSUME NEW d \in Copier
               PROVE  /\ state'[d] # "seek"
                      /\ state'[d] = "idle" => ~Queued(d)' /\ mb # d /\ ret[d] = 0
                      /\ ret[d] > 0 => ret[d] = 1 /\ ~Queued(d)' /\ mb # d
                      /\ mb = d => ~Queued(d)'
                      /\ Once(d)'
                      /\ moved[d] = IF ret[d] > 0 \/ (mb = d /\ mgrPc = "event" /\ dma = NoDma)
                                    THEN 1 ELSE 0
    BY <1>1, <1>2 DEF CopiesOnce
  <2>1. CASE d = c
    BY <2>1, <1>1, <1>3, <1>4 DEF CopiesOnce
  <2>2. CASE d # c
    BY <2>2, <1>3, <1>4 DEF CopiesOnce
  <2> QED
    BY <2>1, <2>2
<1>7. LeoAlone'
  BY <1>4 DEF LeoAlone
<1>8. LeoStage'
  <2>1. LeoRests
    BY <1>4 DEF LeoStage, LeoPosted, LeoServed, LeoTold
  <2> QED
    BY <2>1, <1>1, <1>2, <1>3, <1>4, Parties DEF LeoStage, LeoRests
<1>9. Bus'
  BY <1>1, <1>2 DEF Bus, Rest, Copying, Ending, Transferring, Met, Ended, SecondBegins, blk
<1> QED
  BY <1>5, <1>6, <1>7, <1>8, <1>9

LEMMA CopyReturnStep ==
  ASSUME IInv, NEW c \in Copier, CopyReturn(c)
  PROVE  IInv'
<1> USE DEF IInv
<1>1. /\ state[c] = "wait" /\ ret[c] > 0
      /\ ret' = [ret EXCEPT ![c] = @ - 1]
      /\ moved' = [moved EXCEPT ![c] = IF @ > 0 THEN @ - 1 ELSE 0]
      /\ state' = [state EXCEPT ![c] = "idle"]
      /\ UNCHANGED <<cmdQ, evtQ, manager, next, left, pi, masks, disk>>
  BY DEF CopyReturn
<1>2. /\ mgrPc' = mgrPc /\ mb' = mb /\ messageSend' = messageSend
      /\ dma' = dma /\ piIntr' = piIntr /\ piOn' = piOn /\ cartOn' = cartOn
      /\ info' = info /\ beat' = beat
  BY <1>1 DEF manager, pi, masks, disk
<1>3. /\ state'[c] = "idle" /\ ret[c] = 1 /\ ret'[c] = 0 /\ moved'[c] = 0
      /\ ~Queued(c) /\ mb # c
      /\ state'[Leo] = state[Leo] /\ ret'[Leo] = ret[Leo]
      /\ \A d \in Copier : d # c =>
           state'[d] = state[d] /\ ret'[d] = ret[d] /\ moved'[d] = moved[d]
  BY <1>1, Parties DEF Ranges, CopiesOnce
<1>4. Ranges'
  BY <1>1, <1>2, Parties DEF Ranges
<1>5. CopiesOnce'
  BY <1>1, <1>2, <1>3 DEF CopiesOnce, Queued, Once
<1>6. LeoAlone' /\ LeoStage'
  BY <1>1, <1>2, <1>3 DEF LeoAlone, LeoStage, LeoRests, LeoPosted, LeoServed, LeoTold, Queued
<1>7. Bus'
  BY <1>1, <1>2 DEF Bus, Rest, Copying, Ending, Transferring, Met, Ended, SecondBegins, blk
<1> QED
  BY <1>4, <1>5, <1>6, <1>7

LEMMA StreamStep ==
  ASSUME IInv, NEW c \in Streamer, Stream(c)
  PROVE  IInv'
<1> USE DEF IInv
<1>1. /\ ExpansionKit => BusFree
      /\ Post(c) \/ PostHigh(c)
      /\ UNCHANGED <<evtQ, ret, manager, state, next, left, pi, masks, disk, moved>>
  BY DEF Stream, clients
<1>2. /\ mgrPc' = mgrPc /\ mb' = mb /\ messageSend' = messageSend
      /\ dma' = dma /\ piIntr' = piIntr /\ piOn' = piOn /\ cartOn' = cartOn
      /\ info' = info /\ beat' = beat
  BY <1>1 DEF manager, pi, masks, disk
<1>3. /\ cmdQ' \in Seq(Client)
      /\ \A d : d # c => (Queued(d)' => Queued(d)) /\ (Once(d) => Once(d)')
  BY <1>1, Parties, Posted DEF Ranges
<1>4. state[Leo] = "idle" /\ \A d \in Copier : d # c
  BY <1>1, Parties DEF LeoAlone, BusFree
<1>5. Ranges'
  BY <1>1, <1>2, <1>3 DEF Ranges
<1>6. CopiesOnce'
  BY <1>1, <1>2, <1>3, <1>4 DEF CopiesOnce
<1>7. LeoAlone'
  BY <1>1, <1>4 DEF LeoAlone
<1>8. LeoStage'
  <2>1. LeoRests
    BY <1>4 DEF LeoStage, LeoPosted, LeoServed, LeoTold
  <2> QED
    BY <2>1, <1>1, <1>2, <1>3, <1>4, Parties DEF LeoStage, LeoRests
<1>9. Bus'
  BY <1>1, <1>2 DEF Bus, Rest, Copying, Ending, Transferring, Met, Ended, SecondBegins, blk
<1> QED
  BY <1>5, <1>6, <1>7, <1>8, <1>9

LEMMA ProbeStep ==
  ASSUME IInv, NEW p \in Prober, ProbeGet(p) \/ ProbeRel(p)
  PROVE  IInv'
<1> USE DEF IInv
<1>1. UNCHANGED <<cmdQ, evtQ, ret, mgrPc, mb, messageSend, state, next, left, dma,
                  piIntr, piOn, cartOn, info, beat, moved>>
  BY DEF ProbeGet, ProbeRel, manager, pi, masks, disk
<1> QED
  BY <1>1 DEF Ranges, CopiesOnce, LeoAlone, LeoStage, LeoRests, LeoPosted,
     LeoServed, LeoTold, Queued, Once, Bus, Rest, Copying, Ending, Transferring,
     Met, Ended, SecondBegins, blk

LEMMA LeoTransferStep ==
  ASSUME IInv, NEW type \in {"read", "write"}, NEW mode \in Modes,
         LeoTransfer(type, mode)
  PROVE  IInv'
<1> USE DEF IInv
<1>1. /\ ExpansionKit /\ BusFree
      /\ info' = NewInfo(type, mode)
      /\ PostHigh(Leo)
      /\ state' = [state EXCEPT ![Leo] = "wait"]
      /\ next' = 0 /\ left' = IF type = "read" /\ mode = "track" THEN 2 ELSE 1
      /\ UNCHANGED <<evtQ, ret, mgrPc, mb, messageSend, dma, piIntr, piOn, cartOn,
                     beat, moved>>
  BY DEF LeoTransfer, manager, pi, masks
<1>2. /\ cmdQ = <<>> /\ mb = Idle /\ mgrPc = "command" /\ ret[Leo] = 0
      /\ state[Leo] = "idle" /\ Rest
  BY <1>1, FreeBus
<1>3. cmdQ' = <<Leo>> /\ cmdQ' \in Seq(Client)
  BY <1>1, <1>2, Parties, Posted DEF Ranges
<1>4. /\ info'.type = type /\ info'.mode = mode /\ info'.blockNum = 0
      /\ info' \in [type : Types, mode : Modes, blockNum : Blocks, sectorNum : Int,
                    c1 : [Blocks -> Nat], err : [Blocks -> Errors]]
  BY <1>1 DEF NewInfo, Types, Blocks, Errors, Good
<1>5. Ranges'
  BY <1>1, <1>3, <1>4 DEF Ranges
<1>6. \A c \in Client : c # Leo => ~Queued(c)'
  BY <1>3 DEF Queued
<1>7. state'[Leo] = "wait" /\ \A c \in Copier : state'[c] = state[c] /\ state[c] = "idle"
  BY <1>1, Parties DEF Ranges, BusFree
<1>8. CopiesOnce'
  <2>1. \A c \in Copier : Once(c)'
    BY <1>3, Parties DEF Once
  <2> QED
    BY <2>1, <1>1, <1>2, <1>6, <1>7, Parties DEF CopiesOnce
<1>9. LeoAlone'
  BY <1>1, <1>2, <1>6, <1>7, Parties DEF LeoAlone
<1>10. LeoPosted'
  BY <1>1, <1>2, <1>3, <1>4, <1>7 DEF LeoPosted
<1>11. Bus'
  BY <1>1, <1>2, Parties DEF Bus, Rest
<1> QED
  BY <1>5, <1>8, <1>9, <1>10, <1>11 DEF LeoStage

LEMMA LeoReturnStep ==
  ASSUME IInv, LeoReturn
  PROVE  IInv'
<1> USE DEF IInv
<1>1. /\ state[Leo] = "wait" /\ ret[Leo] > 0
      /\ ret' = [ret EXCEPT ![Leo] = @ - 1]
      /\ UNCHANGED <<cmdQ, evtQ, mgrPc, mb, messageSend, dma, piIntr, piOn, cartOn,
                     info, beat, moved>>
  BY DEF LeoReturn, manager, pi, masks, disk
<1>2. \/ /\ info.err[next] # Good \/ left = 1
         /\ state' = [state EXCEPT ![Leo] = "idle"] /\ next' = 0 /\ left' = 0
      \/ /\ info.err[next] = Good /\ left # 1
         /\ next' = 1 /\ left' = 1 /\ state' = state
  BY DEF LeoReturn
<1>3. /\ ret'[Leo] = ret[Leo] - 1 /\ state'[Leo] \in {"idle", "wait"}
      /\ \A c \in Copier : ret'[c] = ret[c] /\ state'[c] = state[c]
      /\ ret' \in [Client -> Nat]
  BY <1>1, <1>2, Parties DEF Ranges
<1>4. Ranges'
  BY <1>1, <1>2, <1>3, Parties DEF Ranges
<1>5. CopiesOnce' /\ LeoAlone'
  BY <1>1, <1>3 DEF CopiesOnce, LeoAlone, Queued, Once
<1>6. LeoStage'
  <2>1. CASE LeoServed
    <3>1. /\ ~messageSend /\ left = 2 /\ ret[Leo] = 1 /\ next = 0
          /\ info.err[0] = Good
      BY <2>1, <1>1 DEF LeoServed
    <3>2. LeoServed'
      BY <2>1, <3>1, <1>1, <1>2, <1>3 DEF LeoServed
    <3> QED
      BY <3>2 DEF LeoStage
  <2>2. CASE LeoTold
    <3>1. cmdQ = <<>> /\ mb # Leo /\ mb = Idle /\ ~Queued(Leo)'
      BY <2>2, <1>1, Parties DEF LeoTold, Queued
    <3>2. CASE left = 1 /\ ret[Leo] = 1
      BY <3>1, <3>2, <1>1, <1>2, <1>3, Parties DEF LeoStage, LeoRests, Ranges
    <3>3. CASE left = 2 /\ next = 0 /\ ret[Leo] = 1 /\ info.err[0] # Good
      BY <3>1, <3>3, <1>1, <1>2, <1>3, Parties DEF LeoStage, LeoRests, Ranges
    <3>4. CASE left = 2 /\ next = 0 /\ ret[Leo] = 2 /\ info.err[0] = Good
      BY <3>1, <3>4, <2>2, <1>1, <1>2, <1>3 DEF LeoStage, LeoTold
    <3> QED
      BY <2>2, <3>2, <3>3, <3>4 DEF LeoTold
  <2> QED
    BY <2>1, <2>2, <1>1 DEF LeoStage, LeoRests, LeoPosted
<1>7. Bus'
  BY <1>1 DEF Bus, Rest, Copying, Ending, Transferring, Met, Ended, SecondBegins, blk
<1> QED
  BY <1>4, <1>5, <1>6, <1>7

LEMMA LeoSeekStep ==
  ASSUME IInv, LeoSeek
  PROVE  IInv'
<1> USE DEF IInv
<1>1. /\ ExpansionKit /\ BusFree
      /\ state' = [state EXCEPT ![Leo] = "seek"]
      /\ info' = [info EXCEPT !.type = "none"]
      /\ UNCHANGED <<cmdQ, evtQ, ret, mgrPc, mb, messageSend, next, left, dma,
                     piIntr, piOn, cartOn, beat, moved>>
  BY DEF LeoSeek, queues, manager, pi, masks
<1>2. /\ cmdQ = <<>> /\ mb = Idle /\ mgrPc = "command" /\ ret[Leo] = 0
      /\ state[Leo] = "idle" /\ Rest
  BY <1>1, FreeBus
<1>3. state'[Leo] = "seek" /\ \A c \in Copier : state'[c] = state[c] /\ state[c] = "idle"
  BY <1>1, Parties DEF Ranges, BusFree
<1>4. Ranges'
  BY <1>1 DEF Ranges, Types
<1>5. CopiesOnce'
  BY <1>1, <1>3 DEF CopiesOnce, Queued, Once
<1>6. LeoAlone' /\ LeoStage'
  BY <1>1, <1>2, <1>3, Parties DEF LeoAlone, LeoStage, LeoRests, Queued
<1>7. Bus'
  BY <1>1, <1>2, Parties DEF Bus, Rest
<1> QED
  BY <1>4, <1>5, <1>6, <1>7

-----------------------------------------------------------------------------
(* The manager.                                                            *)

LEMMA MgrCommandStep ==
  ASSUME IInv, MgrCommand
  PROVE  IInv'
<1> USE DEF IInv
<1>1. PICK h : h = Head(cmdQ)
  OBVIOUS
<1>2. /\ mgrPc = "command" /\ cmdQ # <<>>
      /\ mb' = h /\ cmdQ' = Tail(cmdQ) /\ mgrPc' = "access"
      /\ IF h = Leo
         THEN /\ info' = [info EXCEPT !.sectorNum = -1]
              /\ messageSend' = (info.mode = "track" /\ info.type = "read")
         ELSE UNCHANGED <<info, messageSend>>
      /\ UNCHANGED <<evtQ, ret, state, next, left, dma, piIntr, piOn, cartOn, beat, moved>>
  BY <1>1 DEF MgrCommand, clients, pi, masks
<1>3. /\ cmdQ' \in Seq(Client) /\ h \in Client
      /\ Queued(h)
      /\ \A d : (Queued(d)' => Queued(d)) /\ (Once(d) => Once(d)')
      /\ Once(h) => ~Queued(h)'
  BY <1>1, <1>2, Taken DEF Ranges
<1>4. mb = Idle /\ Rest
  BY <1>2 DEF Bus
<1>5. Ranges'
  <2>1. CASE h = Leo
    <3>1. messageSend' \in BOOLEAN
      BY <2>1, <1>2
    <3>2. \E i \in Int : info' = [info EXCEPT !.sectorNum = i]
      <4>1. info' = [info EXCEPT !.sectorNum = -1]
        BY <2>1, <1>2
      <4>2. -1 \in Int
        OBVIOUS
      <4> QED
        BY <4>1, <4>2, Zenon
    <3>3. info' \in [type : Types, mode : Modes, blockNum : Blocks, sectorNum : Int,
                     c1 : [Blocks -> Nat], err : [Blocks -> Errors]]
      <4>1. PICK i \in Int : info' = [info EXCEPT !.sectorNum = i]
        BY <3>2
      <4> QED
        BY <4>1 DEF Ranges
    <3> QED
      BY <3>1, <3>3, <1>2, <1>3 DEF Ranges
  <2>2. CASE h # Leo
    BY <2>2, <1>2, <1>3 DEF Ranges
  <2> QED
    BY <2>1, <2>2
<1>6. CopiesOnce'
  BY <1>2, <1>3, <1>4, Parties DEF CopiesOnce
<1>7. LeoAlone'
  BY <1>2, <1>3, <1>4, Parties DEF LeoAlone
<1>8. CASE h = Leo
  <2>1. LeoPosted
    BY <1>2, <1>3, <1>4, <1>8, Parties DEF LeoStage, LeoRests, LeoServed, LeoTold, Queued
  <2>2. cmdQ' = <<>>
    BY <2>1, <1>2 DEF LeoPosted
  <2>3. info'.type = info.type /\ info'.mode = info.mode /\ info'.blockNum = info.blockNum
        /\ info'.sectorNum = -1
    BY <1>2, <1>8 DEF Ranges
  <2>4. LeoServed'
    BY <2>1, <2>2, <1>2, <1>8 DEF LeoServed, LeoPosted, Ranges
  <2>5. Bus'
    BY <2>1, <2>3, <1>2, <1>4, <1>8, Parties DEF Bus, Rest, LeoPosted
  <2> QED
    BY <1>5, <1>6, <1>7, <2>4, <2>5 DEF LeoStage
<1>9. CASE h # Leo
  <2>1. state[Leo] = "idle"
    BY <1>3, <1>9 DEF LeoAlone, CopiesOnce, Client
  <2>2. LeoRests'
    BY <2>1, <1>2, <1>3, <1>9 DEF LeoStage, LeoRests, LeoPosted, LeoServed, LeoTold
  <2>3. Bus'
    BY <1>2, <1>3, <1>4, <1>9, Parties DEF Bus, Rest
  <2> QED
    BY <1>5, <1>6, <1>7, <2>2, <2>3 DEF LeoStage
<1> QED
  BY <1>8, <1>9

LEMMA MgrAccessStep ==
  ASSUME IInv, MgrAccess
  PROVE  IInv'
<1> USE DEF IInv
<1>1. /\ mgrPc = "access" /\ mgrPc' = "event"
      /\ IF mb = Leo
         THEN beat' = 0 /\ piOn' = FALSE /\ UNCHANGED dma
         ELSE /\ dma' = [what |-> "copy", for |-> mb, block |-> 0]
              /\ UNCHANGED <<beat, piOn>>
      /\ UNCHANGED <<cmdQ, evtQ, ret, mb, messageSend, state, next, left, piIntr,
                     cartOn, info, moved>>
  BY DEF MgrAccess, MaskPi, clients
<1>2. mb # Idle /\ mb \in Client /\ Rest
  BY <1>1 DEF Bus, Ranges
<1>3. Ranges'
  <2>1. beat' \in Int
    BY <1>1 DEF Ranges
  <2>2. piIntr' \in BOOLEAN /\ piOn' \in BOOLEAN /\ cartOn' \in BOOLEAN
    BY <1>1 DEF Ranges
  <2>3. dma' \in [what : {"none", "copy", "sector", "c2"},
                  for : Client \cup {Idle}, block : Blocks]
    BY <1>1, <1>2 DEF Ranges, Blocks
  <2> QED
    BY <2>1, <2>3, <2>2, <1>1 DEF Ranges
<1>4. LeoAlone' /\ LeoStage'
  BY <1>1 DEF LeoAlone, LeoStage, LeoRests, LeoPosted, LeoServed, LeoTold, Queued
<1>5. CASE mb = Leo
  <2>1. CopiesOnce'
    BY <1>1, <1>5, Parties DEF CopiesOnce, Queued, Once
  <2>2. Transferring'
    BY <1>1, <1>2, <1>5
    DEF Bus, Rest, Transferring, Ranges, Types, SecondBegins, blk, NoDma, Off
  <2>3. Bus'
    BY <2>2, <1>1, <1>2, <1>5 DEF Bus
  <2> QED
    BY <2>1, <2>3, <1>3, <1>4
<1>6. CASE mb # Leo
  <2>1. dma' # NoDma /\ dma'.what = "copy" /\ dma'.for = mb
    BY <1>1, <1>6 DEF NoDma
  <2>2. CopiesOnce'
    BY <2>1, <1>1, <1>6 DEF CopiesOnce, Queued, Once
  <2>3. Copying'
    BY <2>1, <1>1, <1>2, <1>6 DEF Copying, Ending, Rest
  <2>4. Bus'
    BY <2>3, <1>1, <1>2, <1>6 DEF Bus
  <2> QED
    BY <2>2, <2>4, <1>3, <1>4
<1> QED
  BY <1>5, <1>6

\* The answer to a client that is not a Copier, or has none yet.
LEMMA Told ==
  ASSUME Ranges, NEW c \in Client, Tell(c)
  PROVE  /\ ret' \in [Client -> Nat]
         /\ \A d \in Client : d # c => ret'[d] = ret[d]
         /\ ret'[c] = IF ret[c] < RetLen(c) THEN ret[c] + 1 ELSE ret[c]
<1>1. ret' = [ret EXCEPT ![c] = IF @ < RetLen(c) THEN @ + 1 ELSE @]
  BY DEF Tell
<1> QED
  BY <1>1 DEF Ranges

LEMMA MgrEndCopyStep ==
  ASSUME IInv, MgrEndCopy
  PROVE  IInv'
<1> USE DEF IInv
<1>1. /\ mgrPc = "event" /\ mb # Leo /\ evtQ = 1 /\ evtQ' = 0 /\ Tell(mb)
      /\ mgrPc' = "command" /\ mb' = Idle
      /\ UNCHANGED <<cmdQ, messageSend, state, next, left, dma, piIntr, piOn, cartOn,
                     info, beat, moved>>
  BY DEF MgrEndCopy, clients, pi, masks, disk
<1>2. mb \in Client /\ Copying
  BY <1>1 DEF Bus, Ranges
<1>3. dma = NoDma /\ ~piIntr /\ piOn /\ cartOn /\ beat = Off
  BY <1>1, <1>2 DEF Copying, Ending
<1>4. /\ ret' \in [Client -> Nat]
      /\ \A d \in Client : d # mb => ret'[d] = ret[d]
      /\ ret'[mb] = IF ret[mb] < RetLen(mb) THEN ret[mb] + 1 ELSE ret[mb]
  BY <1>1, <1>2, Told
<1>5. Ranges'
  BY <1>1, <1>4 DEF Ranges
<1>6. CopiesOnce'
  <2> SUFFICES ASSUME NEW c \in Copier
               PROVE  /\ state[c] # "seek"
                      /\ state[c] = "idle" => ~Queued(c) /\ Idle # c /\ ret'[c] = 0
                      /\ ret'[c] > 0 => ret'[c] = 1 /\ ~Queued(c) /\ Idle # c
                      /\ Once(c)
                      /\ moved[c] = IF ret'[c] > 0 THEN 1 ELSE 0
    BY <1>1, Parties DEF CopiesOnce, Queued, Once
  <2>1. CASE c = mb
    <3>1. ret[c] = 0 /\ ret'[c] = 1
      BY <2>1, <1>4, Parties DEF CopiesOnce, Ranges
    <3> QED
      BY <2>1, <3>1, <1>1, <1>3, Parties DEF CopiesOnce
  <2>2. CASE c # mb
    BY <2>2, <1>4, Parties DEF CopiesOnce
  <2> QED
    BY <2>1, <2>2
<1>7. state[Leo] = "idle"
  BY <1>1, <1>2 DEF LeoAlone, CopiesOnce, Client
<1>8. LeoAlone' /\ LeoStage'
  <2>1. LeoRests
    BY <1>7 DEF LeoStage, LeoPosted, LeoServed, LeoTold
  <2> QED
    BY <2>1, <1>1, <1>4, <1>7, Parties DEF LeoAlone, LeoStage, LeoRests, Queued
<1>9. Bus'
  BY <1>1, <1>3, Parties DEF Bus, Rest
<1> QED
  BY <1>5, <1>6, <1>8, <1>9

LEMMA MgrEndBlockStep ==
  ASSUME IInv, MgrEndBlock
  PROVE  IInv'
<1> USE DEF IInv
<1> DEFINE b   == info.blockNum
           err == IF info.err[b] = 29 THEN [info.err EXCEPT ![b] = 4] ELSE info.err
<1>1. /\ mgrPc = "event" /\ mb = Leo /\ evtQ = 1 /\ evtQ' = 0 /\ Tell(Leo)
      /\ info' = [info EXCEPT !.err = err]
      /\ UNCHANGED <<cmdQ, state, next, left, dma, moved>>
  BY DEF MgrEndBlock, clients
<1>2. \/ /\ info.err[b] = 29 /\ dma = NoDma
         /\ beat' = Off /\ ~piIntr' /\ piOn' /\ cartOn'
         /\ {piIntr', piOn', cartOn'} \subseteq BOOLEAN
      \/ info.err[b] # 29 /\ UNCHANGED <<beat, piIntr, piOn, cartOn>>
  BY DEF MgrEndBlock
<1>3. \/ /\ messageSend /\ err[0] = Good
         /\ ~messageSend' /\ messageSend' \in BOOLEAN /\ UNCHANGED <<mgrPc, mb>>
      \/ /\ ~messageSend \/ err[0] # Good
         /\ mgrPc' = "command" /\ mb' = Idle /\ UNCHANGED messageSend
  BY DEF MgrEndBlock, Follows
<1>4. /\ ret' \in [Client -> Nat]
      /\ \A d \in Client : d # Leo => ret'[d] = ret[d]
      /\ ret'[Leo] = IF ret[Leo] < 2 THEN ret[Leo] + 1 ELSE ret[Leo]
  BY <1>1, Parties, Told
<1>5. /\ b \in Blocks /\ info.err \in [Blocks -> Errors] /\ 0 \in Blocks
      /\ err \in [Blocks -> Errors]
      /\ info.err[b] = 29 /\ b = 0 => err[0] # Good
      /\ b # 0 => err[0] = info.err[0]
      /\ info.err[b] # 29 => err = info.err
  BY DEF Ranges, Blocks, Errors, Good
<1> HIDE DEF err
<1>6. /\ info'.type = info.type /\ info'.mode = info.mode /\ info'.blockNum = b
      /\ info'.sectorNum = info.sectorNum /\ info'.err = err
      /\ info' \in [type : Types, mode : Modes, blockNum : Blocks, sectorNum : Int,
                    c1 : [Blocks -> Nat], err : [Blocks -> Errors]]
  BY <1>1, <1>5 DEF Ranges
<1>7. Ranges'
  <2>1. beat' \in Int
    BY <1>2 DEF Ranges, Off
  <2>2. {piIntr', piOn', cartOn'} \subseteq BOOLEAN
    BY <1>2 DEF Ranges
  <2>3. /\ mgrPc' \in {"command", "access", "event"} /\ mb' \in Client \cup {Idle}
        /\ messageSend' \in BOOLEAN
    BY <1>3 DEF Ranges
  <2>4. /\ cmdQ' \in Seq(Client) /\ moved' \in [Client -> Nat] /\ evtQ' \in 0..1
        /\ state' \in [Copier \cup {Leo} -> {"idle", "wait", "seek"}]
        /\ dma' \in [what : {"none", "copy", "sector", "c2"},
                     for : Client \cup {Idle}, block : Blocks]
        /\ next' \in 0..1 /\ left' \in 0..2
    BY <1>1 DEF Ranges
  <2> QED
    BY <2>1, <2>2, <2>3, <2>4, <1>4, <1>6 DEF Ranges
<1>8. LeoServed
  BY <1>1, Parties DEF LeoStage, LeoRests, LeoPosted, LeoTold
<1>9. CopiesOnce' /\ LeoAlone'
  BY <1>1, <1>3, <1>4, <1>8, Parties DEF CopiesOnce, LeoAlone, LeoServed, Queued, Once
<1>10. Transferring \/ Met \/ Ended
  BY <1>1 DEF Bus
<1>11. CASE messageSend /\ err[0] = Good
  <2>1. ~messageSend' /\ mgrPc' = mgrPc /\ mb' = mb
    BY <1>3, <1>11
  <2>2. Transferring /\ info.err[b] # 29
    BY <1>1, <1>5, <1>10, <1>11 DEF Transferring, Met, Ended, Ranges, Blocks
  <2>3. UNCHANGED <<beat, piIntr, piOn, cartOn>> /\ err = info.err /\ b = 1
    BY <1>1, <1>2, <1>5, <2>2 DEF Transferring
  <2>4. LeoServed'
    BY <2>1, <2>3, <1>1, <1>4, <1>6, <1>8, <1>11 DEF LeoServed
  <2>5. Transferring'
    <3>1. SecondBegins' = SecondBegins
      BY <1>6 DEF SecondBegins, blk
    <3> QED
      BY <3>1, <2>1, <2>2, <2>3, <1>1, <1>6 DEF Transferring, SecondBegins
  <2> QED
    BY <2>1, <2>4, <2>5, <1>1, <1>7, <1>9, Parties DEF LeoStage, Bus
<1>12. CASE ~messageSend \/ err[0] # Good
  <2>1. mgrPc' = "command" /\ mb' = Idle /\ messageSend' = messageSend
    BY <1>3, <1>12
  <2>2. LeoTold'
    <3>1. CASE messageSend /\ left = 2 /\ ret[Leo] = 0 /\ next = 0
      BY <3>1, <2>1, <1>1, <1>4, <1>6, <1>8, <1>12 DEF LeoTold, LeoServed
    <3>2. CASE ~messageSend /\ left = 1 /\ ret[Leo] = 0
      BY <3>2, <2>1, <1>1, <1>4, <1>6, <1>8, <1>12 DEF LeoTold, LeoServed
    <3>3. CASE /\ ~messageSend /\ left = 2 /\ ret[Leo] = 1 /\ next = 0
               /\ info.err[0] = Good /\ info.blockNum = 1
      BY <3>3, <2>1, <1>1, <1>4, <1>5, <1>6, <1>8, <1>12 DEF LeoTold, LeoServed
    <3> QED
      BY <3>1, <3>2, <3>3, <1>8 DEF LeoServed
  <2>3. Rest'
    <3>1. CASE Transferring
      <4>1. messageSend /\ err[0] = Good
        BY <3>1, <1>1, <1>5 DEF Transferring
      <4> QED
        BY <4>1, <1>12
    <3>2. CASE Met
      BY <3>2, <1>1, <1>2 DEF Met, Rest
    <3>3. CASE Ended
      <4>1. dma = NoDma /\ ~piIntr /\ piOn /\ cartOn /\ beat = Off
        BY <3>3, <1>1 DEF Ended, Ending
      <4>2. ~piIntr' /\ piOn' /\ cartOn' /\ beat' = Off
        <5>1. CASE beat' = Off /\ ~piIntr' /\ piOn' /\ cartOn'
          BY <5>1
        <5>2. CASE UNCHANGED <<beat, piIntr, piOn, cartOn>>
          BY <5>2, <4>1
        <5> QED
          BY <5>1, <5>2, <1>2
      <4> QED
        BY <4>1, <4>2, <1>1 DEF Rest
    <3> QED
      BY <3>1, <3>2, <3>3, <1>10
  <2> QED
    BY <2>1, <2>2, <2>3, <1>7, <1>9, Parties DEF LeoStage, Bus
<1> QED
  BY <1>11, <1>12

-----------------------------------------------------------------------------
(* The drive and the PI.                                                   *)

Infos ==
  [type : Types, mode : Modes, blockNum : Blocks, sectorNum : Int,
   c1 : [Blocks -> Nat], err : [Blocks -> Errors]]

Dmas ==
  [what : {"none", "copy", "sector", "c2"}, for : Client \cup {Idle}, block : Blocks]

\* An interrupt of the drive's transfer finds the manager waiting for the end
\* of a block, with no other end in the event queue.
LEMMA DriveTransfers ==
  ASSUME IInv, beat # Off, MgrWaits
  PROVE  mgrPc = "event" /\ mb = Leo /\ evtQ = 0 /\ Transferring
<1> USE DEF IInv
<1>1. mgrPc = "event" /\ mb = Leo
  BY DEF Bus, Rest, Copying, Ending
<1>2. evtQ = 0
  BY <1>1 DEF MgrWaits, Ranges
<1> QED
  BY <1>1, <1>2 DEF Bus, Met, Ended, Ending

\* What the interrupt handlers leave alone, and what they have to see to.
LEMMA DriveStep ==
  ASSUME IInv, mgrPc = "event", mb = Leo,
         UNCHANGED <<cmdQ, ret, mgrPc, mb, messageSend, state, next, left, moved>>,
         evtQ' \in 0..1, beat' \in Int, info' \in Infos, dma' \in Dmas,
         piIntr' \in BOOLEAN, piOn' \in BOOLEAN, cartOn' \in BOOLEAN,
         info.blockNum = 1 /\ ~messageSend =>
           info'.blockNum = 1 /\ info'.err[0] = info.err[0],
         (Transferring \/ Met \/ Ended)'
  PROVE  IInv'
<1> USE DEF IInv
<1>1. Ranges'
  BY DEF Ranges, Infos, Dmas
<1>2. CopiesOnce' /\ LeoAlone'
  BY Parties DEF CopiesOnce, LeoAlone, Queued, Once
<1>3. LeoServed
  BY Parties DEF LeoStage, LeoRests, LeoPosted, LeoTold
<1>4. LeoServed'
  <2>1. CASE messageSend /\ left = 2 /\ ret[Leo] = 0 /\ next = 0
    BY <2>1, <1>3 DEF LeoServed
  <2>2. CASE ~messageSend /\ left = 1 /\ ret[Leo] = 0
    BY <2>2, <1>3 DEF LeoServed
  <2>3. CASE /\ ~messageSend /\ left = 2 /\ ret[Leo] = 1 /\ next = 0
             /\ info.err[0] = Good /\ info.blockNum = 1
    BY <2>3, <1>3 DEF LeoServed
  <2> QED
    BY <2>1, <2>2, <2>3, <1>3 DEF LeoServed
<1>5. Bus'
  BY Parties DEF Bus
<1> QED
  BY <1>1, <1>2, <1>4, <1>5 DEF LeoStage

\* The transfer ends with the error e of block k.
LEMMA StopStep ==
  ASSUME IInv, beat # Off, MgrWaits, dma = NoDma,
         NEW k \in Blocks, NEW e \in Errors,
         k = blk \/ SecondBegins,
         messageSend /\ k = 0 => e # Good,
         info' \in Infos, info'.blockNum = info.blockNum,
         info'.err = [info.err EXCEPT ![k] = e],
         evtQ' = 1, beat' = Off, piIntr' = FALSE, piOn' = TRUE,
         UNCHANGED <<cmdQ, ret, mgrPc, mb, messageSend, state, next, left, moved,
                     dma, cartOn>>
  PROVE  IInv'
<1> USE DEF IInv
<1>1. mgrPc = "event" /\ mb = Leo /\ evtQ = 0 /\ Transferring
  BY DriveTransfers
<1>2. info.err \in [Blocks -> Errors] /\ blk \in Blocks /\ info' \in Infos
  BY DEF Ranges, blk
<1>3. /\ info'.err[k] = e
      /\ \A b \in Blocks : b # k => info'.err[b] = info.err[b]
      /\ 0 \in Blocks /\ 1 \in Blocks /\ k \in {0, 1} /\ blk \in {0, 1}
  BY <1>2 DEF Blocks
<1>4. SecondBegins => messageSend /\ info.err[0] # Good /\ blk = 1
  BY <1>1 DEF Transferring, SecondBegins
<1>5. messageSend => info'.err[0] # Good
  <2>1. CASE k = 0
    BY <2>1, <1>3
  <2>2. CASE k = 1
    BY <2>2, <1>1, <1>3, <1>4 DEF Transferring, blk
  <2> QED
    BY <2>1, <2>2, <1>3
<1>6. info.blockNum = 1 /\ ~messageSend =>
        info'.blockNum = 1 /\ info'.err[0] = info.err[0]
  BY <1>3, <1>4 DEF blk
<1>7. cartOn /\ cartOn' = cartOn /\ cartOn' \in BOOLEAN
  BY <1>1 DEF Transferring, Ranges
<1>8. Ended'
  <2>1. dma' = NoDma /\ dma'.what # "copy"
    BY DEF NoDma
  <2> QED
    BY <2>1, <1>5, <1>7 DEF Ended, Ending
<1>9. dma' \in Dmas /\ beat' \in Int
  BY DEF Ranges, Dmas, Off
<1>10. evtQ' \in 0..1 /\ piIntr' \in BOOLEAN /\ piOn' \in BOOLEAN
  <2>1. evtQ' \in 0..1
    OBVIOUS
  <2>2. piIntr' \in BOOLEAN
    OBVIOUS
  <2>3. piOn' \in BOOLEAN
    OBVIOUS
  <2> QED
    BY <2>1, <2>2, <2>3
<1>11. (Transferring \/ Met \/ Ended)'
  BY <1>8
<1> QED
  BY <1>1, <1>2, <1>6, <1>7, <1>9, <1>10, <1>11, DriveStep

LEMMA DmaDoneStep ==
  ASSUME IInv, DmaDone
  PROVE  IInv'
<1> USE DEF IInv
<1>1. /\ dma # NoDma /\ dma' = NoDma /\ piIntr' = TRUE
      /\ moved' = IF dma.what = "copy" /\ moved[dma.for] < RetLen(dma.for)
                  THEN [moved EXCEPT ![dma.for] = @ + 1] ELSE moved
      /\ UNCHANGED <<cmdQ, evtQ, ret, mgrPc, mb, messageSend, state, next, left,
                     piOn, cartOn, info, beat>>
  BY DEF DmaDone, queues, manager, clients, masks
<1>2. mgrPc = "event" /\ mb \in Client
  BY <1>1 DEF Bus, Rest, Ranges
<1>3. NoDma \in Dmas /\ NoDma.what # "copy"
  BY DEF NoDma, Dmas, Blocks
<1>4. piIntr' \in BOOLEAN /\ piOn' \in BOOLEAN /\ cartOn' \in BOOLEAN
  BY <1>1 DEF Ranges
<1>5. CASE mb = Leo
  <2>1. Transferring \/ Met \/ Ended
    BY <1>2, <1>5 DEF Bus
  <2>2. moved' = moved
    BY <1>1, <2>1 DEF Transferring, Met, Ended
  <2>3. (Transferring \/ Met \/ Ended)'
    <3>1. CASE Transferring
      BY <3>1, <1>1, <1>3 DEF Transferring, SecondBegins, blk
    <3>2. CASE Met
      BY <3>2, <1>1, <1>3 DEF Met
    <3>3. CASE Ended
      BY <3>3, <1>1, <1>3 DEF Ended, Ending
    <3> QED
      BY <2>1, <3>1, <3>2, <3>3
  <2>4. evtQ' \in 0..1 /\ beat' \in Int /\ info' \in Infos /\ dma' \in Dmas
    BY <1>1, <1>3 DEF Ranges, Infos
  <2> QED
    BY <2>2, <2>3, <2>4, <1>1, <1>2, <1>4, <1>5, DriveStep
<1>6. CASE mb # Leo
  <2>1. Copying /\ dma.what = "copy" /\ dma.for = mb
    BY <1>1, <1>2, <1>6 DEF Bus, Copying
  <2>2. /\ moved' \in [Client -> Nat]
        /\ \A c \in Client : c # mb => moved'[c] = moved[c]
        /\ moved'[mb] = IF moved[mb] < RetLen(mb) THEN moved[mb] + 1 ELSE moved[mb]
    BY <2>1, <1>1, <1>2 DEF Ranges
  <2>3. Ranges'
    BY <2>2, <1>1, <1>3, <1>4 DEF Ranges, Dmas
  <2>4. CopiesOnce'
    <3> SUFFICES ASSUME NEW c \in Copier
                 PROVE  moved'[c] = IF ret[c] > 0 \/ mb = c THEN 1 ELSE 0
      BY <1>1, <1>2 DEF CopiesOnce, Queued, Once
    <3>1. CASE c = mb
      BY <3>1, <2>2, <1>1, Parties DEF CopiesOnce, Ranges
    <3>2. CASE c # mb
      BY <3>2, <2>2, Parties DEF CopiesOnce
    <3> QED
      BY <3>1, <3>2
  <2>5. LeoAlone' /\ LeoStage'
    BY <1>1 DEF LeoAlone, LeoStage, LeoRests, LeoPosted, LeoServed, LeoTold, Queued
  <2>6. Copying'
    BY <2>1, <1>1 DEF Copying, Ending
  <2>7. Bus'
    BY <2>6, <1>1, <1>2, <1>6 DEF Bus
  <2> QED
    BY <2>3, <2>4, <2>5, <2>7
<1> QED
  BY <1>5, <1>6

LEMMA PiInterruptStep ==
  ASSUME IInv, PiInterrupt
  PROVE  IInv'
<1> USE DEF IInv
<1>1. /\ piIntr /\ piOn /\ piIntr' = FALSE /\ evtQ' = 1
      /\ UNCHANGED <<cmdQ, ret, mgrPc, mb, messageSend, state, next, left, dma,
                     piOn, cartOn, info, beat, moved>>
  BY DEF PiInterrupt, manager, clients, masks, disk
<1>2. mgrPc = "event" /\ mb \in Client
  BY <1>1 DEF Bus, Rest, Ranges
<1>3. piIntr' \in BOOLEAN /\ piOn' \in BOOLEAN /\ cartOn' \in BOOLEAN
  <2>1. piIntr' \in BOOLEAN
    BY <1>1
  <2> QED
    BY <2>1, <1>1 DEF Ranges
<1>4. evtQ' \in 0..1
  BY <1>1
<1>5. CASE mb = Leo
  <2>1. Met \/ Ended
    BY <1>1, <1>2, <1>5 DEF Bus, Transferring
  <2>2. (Transferring \/ Met \/ Ended)'
    <3>1. CASE Met
      BY <3>1, <1>1 DEF Met
    <3>2. CASE Ended
      BY <3>2, <1>1 DEF Ended, Ending
    <3> QED
      BY <2>1, <3>1, <3>2
  <2>3. beat' \in Int /\ info' \in Infos /\ dma' \in Dmas
    BY <1>1 DEF Ranges, Infos, Dmas
  <2> QED
    BY <2>2, <2>3, <1>1, <1>2, <1>3, <1>4, <1>5, DriveStep
<1>6. CASE mb # Leo
  <2>1. Ranges'
    BY <1>1, <1>3, <1>4 DEF Ranges
  <2>2. CopiesOnce' /\ LeoAlone' /\ LeoStage'
    BY <1>1 DEF CopiesOnce, LeoAlone, LeoStage, LeoRests, LeoPosted, LeoServed,
                LeoTold, Queued, Once
  <2>3. Copying'
    BY <1>1, <1>2, <1>6 DEF Bus, Copying, Ending
  <2>4. Bus'
    BY <2>3, <1>1, <1>2, <1>6 DEF Bus
  <2> QED
    BY <2>1, <2>2, <2>4
<1> QED
  BY <1>5, <1>6

\* While Leo waits for the mechanics nobody uses the bus.
LEMMA SeekRests ==
  ASSUME IInv, state[Leo] = "seek"
  PROVE  mb = Idle /\ mgrPc = "command" /\ Rest /\ LeoRests
<1> USE DEF IInv
<1>1. LeoRests
  BY DEF LeoStage, LeoPosted, LeoServed, LeoTold
<1>2. mb = Idle
  BY <1>1 DEF LeoRests, LeoAlone, CopiesOnce, Ranges, Client
<1> QED
  BY <1>1, <1>2 DEF Bus

LEMMA DriveMeetsDmaStep ==
  ASSUME IInv, DriveMeetsDma
  PROVE  IInv'
<1> USE DEF IInv
<1>1. /\ beat # Off \/ state[Leo] = "seek"
      /\ cartOn /\ dma # NoDma /\ MgrWaits
      /\ cartOn' = FALSE /\ info' = [info EXCEPT !.err[blk] = 29] /\ evtQ' = 1
      /\ UNCHANGED <<cmdQ, ret, mgrPc, mb, messageSend, state, next, left, dma,
                     piIntr, piOn, beat, moved>>
  BY DEF DriveMeetsDma, manager, clients, pi
<1>2. beat # Off
  BY <1>1, SeekRests DEF Rest
<1>3. mgrPc = "event" /\ mb = Leo /\ evtQ = 0 /\ Transferring
  BY <1>1, <1>2, DriveTransfers
<1>4. /\ info \in Infos /\ info' \in Infos /\ blk \in {0, 1}
      /\ info'.blockNum = blk /\ info'.err[blk] = 29
      /\ \A b \in Blocks : b # blk => info'.err[b] = info.err[b]
      /\ 0 \in Blocks /\ 1 \in Blocks
  <2>1. info \in Infos /\ blk \in Blocks /\ 29 \in Errors /\ blk = info.blockNum
    BY DEF Ranges, Infos, blk, Errors
  <2>2. /\ info'.blockNum = blk /\ info' \in Infos
        /\ info'.err = [info.err EXCEPT ![blk] = 29]
    BY <2>1, <1>1 DEF Infos
  <2>3. info.err \in [Blocks -> Errors] /\ blk \in {0, 1} /\ 0 \in Blocks /\ 1 \in Blocks
    BY <2>1 DEF Infos, Blocks
  <2> QED
    BY <2>1, <2>2, <2>3
<1>5. messageSend => info'.blockNum = 0 \/ info'.err[0] # Good
  <2>1. messageSend /\ blk = 1 => info.err[0] # Good
    BY <1>3 DEF Transferring, blk
  <2> QED
    BY <2>1, <1>4
<1>6. Met'
  BY <1>1, <1>3, <1>4, <1>5 DEF Met, Transferring
<1>7. piIntr' \in BOOLEAN /\ piOn' \in BOOLEAN /\ cartOn' \in BOOLEAN
  <2>1. cartOn' \in BOOLEAN
    BY <1>1
  <2> QED
    BY <2>1, <1>1 DEF Ranges
<1>8. evtQ' \in 0..1 /\ beat' \in Int /\ dma' \in Dmas
  BY <1>1 DEF Ranges, Dmas
<1>9. info.blockNum = 1 /\ ~messageSend =>
        info'.blockNum = 1 /\ info'.err[0] = info.err[0]
  BY <1>4 DEF blk
<1> QED
  BY <1>1, <1>3, <1>4, <1>6, <1>7, <1>8, <1>9, DriveStep

LEMMA MechaReadyStep ==
  ASSUME IInv, MechaReady
  PROVE  IInv'
<1> USE DEF IInv
<1>1. /\ state[Leo] = "seek"
      /\ info' = [info EXCEPT !.err[blk] = Good]
      /\ state' = [state EXCEPT ![Leo] = "idle"]
      /\ UNCHANGED <<cmdQ, evtQ, ret, mgrPc, mb, messageSend, next, left, dma,
                     piIntr, piOn, cartOn, beat, moved>>
  BY DEF MechaReady, queues, manager, pi, masks
<1>2. mb = Idle /\ mgrPc = "command" /\ Rest /\ LeoRests
  BY <1>1, SeekRests
<1>3. state'[Leo] = "idle" /\ \A c \in Copier : state'[c] = state[c]
  BY <1>1, Parties DEF Ranges
<1>4. Ranges'
  <2>1. info' \in Infos
    BY <1>1 DEF Ranges, Infos, blk, Errors, Good
  <2> QED
    BY <2>1, <1>1 DEF Ranges, Infos
<1>5. CopiesOnce' /\ LeoAlone'
  BY <1>1, <1>3 DEF CopiesOnce, LeoAlone, Queued, Once
<1>6. LeoRests'
  BY <1>1, <1>2, <1>3 DEF LeoRests, Queued
<1>7. Bus'
  BY <1>1, <1>2, Parties DEF Bus, Rest
<1> QED
  BY <1>4, <1>5, <1>6, <1>7 DEF LeoStage

LEMMA BufferErrorStep ==
  ASSUME IInv, BufferError
  PROVE  IInv'
<1>1. /\ beat # Off /\ dma = NoDma /\ MgrWaits
      /\ info' = [info EXCEPT !.err[blk] = Pending]
      /\ evtQ' = 1 /\ beat' = Off /\ piIntr' = FALSE /\ piOn' = TRUE
      /\ UNCHANGED <<cmdQ, ret, mgrPc, mb, messageSend, state, next, left, moved,
                     dma, cartOn>>
  BY DEF BufferError, Stop, unmoved, manager, clients
<1>2. info \in Infos /\ blk \in Blocks
  BY DEF IInv, Ranges, Infos, blk
<1>3. /\ info' \in Infos /\ info'.blockNum = info.blockNum
      /\ info'.err = [info.err EXCEPT ![blk] = Pending]
      /\ Pending \in Errors /\ Pending # Good
  BY <1>1, <1>2 DEF Infos, Errors, Pending, Good
<1> QED
  BY <1>1, <1>2, <1>3, StopStep

\* What an interrupt of a transfer finds, the drive counting the first sector
\* of a second block right.
LEMMA AsksFinds ==
  ASSUME IInv, "first" \notin Faults, NEW kind, Asks(kind)
  PROVE  /\ beat # Off /\ dma = NoDma /\ MgrWaits
         /\ mgrPc = "event" /\ mb = Leo /\ evtQ = 0 /\ Transferring
         /\ SecondBegins => kind = "data" /\ messageSend /\ blk = 1 /\ info.sectorNum = -1
<1>1. /\ beat # Off /\ dma = NoDma /\ MgrWaits
      /\ SecondBegins => kind = Expected
  BY DEF Asks
<1>2. mgrPc = "event" /\ mb = Leo /\ evtQ = 0 /\ Transferring
  BY <1>1, DriveTransfers
<1>3. SecondBegins => beat = 0 /\ info.type = "read" /\ info.mode = "track"
                      /\ messageSend /\ blk = 1 /\ info.sectorNum = -1
  BY <1>2 DEF Transferring, SecondBegins
<1>4. SecondBegins => Expected = "data"
  <2> SUFFICES ASSUME SecondBegins PROVE Expected = "data"
    OBVIOUS
  <2>1. info.type # "write" /\ info.mode # "sector" /\ beat < Sectors
    BY <1>3, PiAssumption
  <2> QED
    BY <2>1 DEF Expected
<1> QED
  BY <1>1, <1>2, <1>3, <1>4

LEMMA CountedIs ==
  ASSUME IInv, NEW bad \in BOOLEAN
  PROVE  /\ Counted(bad) \in Infos
         /\ Counted(bad).type = info.type /\ Counted(bad).mode = info.mode
         /\ Counted(bad).blockNum = info.blockNum
         /\ Counted(bad).sectorNum = info.sectorNum
         /\ Counted(bad).err = info.err
<1>1. info \in Infos /\ blk \in Blocks
  BY DEF IInv, Ranges, Infos, blk
<1>2. PICK c1 \in [Blocks -> Nat] : Counted(bad) = [info EXCEPT !.c1 = c1]
  <2>1. info.c1 \in [Blocks -> Nat]
    BY <1>1 DEF Infos
  <2>2. [info.c1 EXCEPT ![blk] = IF bad THEN @ + 1 ELSE @] \in [Blocks -> Nat]
    BY <2>1, <1>1
  <2> QED
    BY <2>2 DEF Counted
<1> QED
  BY <1>1, <1>2 DEF Infos

LEMMA WriteSectorStep ==
  ASSUME IInv, "first" \notin Faults, WriteSector
  PROVE  IInv'
<1> USE DEF IInv
<1>1. /\ info.type = "write" /\ Asks("data")
      /\ info' = [info EXCEPT !.sectorNum = @ + 1]
      /\ dma' = SectorDma /\ beat' = beat + 1
      /\ UNCHANGED <<cmdQ, ret, mgrPc, mb, messageSend, state, next, left, moved,
                     cartOn, evtQ, piIntr, piOn>>
  BY DEF WriteSector, unmoved, manager, clients
<1>2. mgrPc = "event" /\ mb = Leo /\ evtQ = 0 /\ Transferring
  BY <1>1, AsksFinds
<1>3. info \in Infos /\ blk \in Blocks /\ beat \in Int
  BY DEF Ranges, Infos, blk
<1>4. /\ info' \in Infos /\ info'.type = "write" /\ info'.blockNum = info.blockNum
      /\ info'.err = info.err /\ info'.sectorNum = info.sectorNum + 1
  BY <1>1, <1>3 DEF Infos
<1>5. dma' \in Dmas /\ dma'.what # "copy"
  BY <1>1, <1>3, Parties DEF SectorDma, Dmas
<1>6. ~messageSend
  BY <1>1, <1>2 DEF Transferring
<1>7. Transferring'
  <2>1. ~SecondBegins'
    BY <1>4 DEF SecondBegins
  <2>2. beat' >= 0 /\ info'.sectorNum >= -1
    BY <1>1, <1>2, <1>3, <1>4 DEF Transferring, Infos
  <2> QED
    BY <2>1, <2>2, <1>1, <1>2, <1>4, <1>5, <1>6 DEF Transferring
<1>8. beat' \in Int /\ evtQ' \in 0..1
      /\ piIntr' \in BOOLEAN /\ piOn' \in BOOLEAN /\ cartOn' \in BOOLEAN
  BY <1>1, <1>3 DEF Ranges
<1> QED
  BY <1>1, <1>2, <1>4, <1>5, <1>7, <1>8, DriveStep

\* A transfer that ends with an error of the block it is in, or well.
LEMMA StopsStep ==
  ASSUME IInv, beat # Off, dma = NoDma, MgrWaits,
         NEW e \in Errors, Stop(e), messageSend => e # Good,
         UNCHANGED <<unmoved, dma>>
  PROVE  IInv'
<1>1. /\ info' = [info EXCEPT !.err[blk] = e]
      /\ evtQ' = 1 /\ beat' = Off /\ piIntr' = FALSE /\ piOn' = TRUE
      /\ UNCHANGED <<cmdQ, ret, mgrPc, mb, messageSend, state, next, left, moved,
                     dma, cartOn>>
  BY DEF Stop, unmoved, manager, clients
<1>2. info \in Infos /\ blk \in Blocks
  BY DEF IInv, Ranges, Infos, blk
<1>3. /\ info' \in Infos /\ info'.blockNum = info.blockNum
      /\ info'.err = [info.err EXCEPT ![blk] = e]
  BY <1>1, <1>2 DEF Infos
<1> QED
  BY <1>1, <1>2, <1>3, StopStep

LEMMA EndSteps ==
  ASSUME IInv, "first" \notin Faults, WriteEnd \/ ReadSystemEnd \/ ReadTooManyC1
  PROVE  IInv'
<1>1. Good \in Errors /\ 23 \in Errors /\ 24 \in Errors /\ Good # 23 /\ Good # 24
  BY DEF Errors, Good
<1>2. CASE WriteEnd
  <2>1. PICK kind \in {"none", "c2"} : Asks(kind)
    BY <1>2 DEF WriteEnd
  <2>2. PICK e \in {Good, 24} : Stop(e)
    BY <1>2 DEF WriteEnd
  <2>3. ~messageSend /\ beat # Off /\ dma = NoDma /\ MgrWaits
    BY <2>1, <1>2, AsksFinds DEF WriteEnd, Transferring
  <2> QED
    BY <2>2, <2>3, <1>1, <1>2, StopsStep DEF WriteEnd
<1>3. CASE ReadSystemEnd
  <2>1. PICK kind \in Kinds : Asks(kind) /\ (Stop(Good) \/ Stop(23))
    BY <1>3 DEF ReadSystemEnd
  <2>2. PICK e \in {Good, 23} : Stop(e)
    BY <2>1
  <2>3. ~messageSend /\ beat # Off /\ dma = NoDma /\ MgrWaits
    BY <2>1, <1>3, AsksFinds DEF ReadSystemEnd, Transferring
  <2> QED
    BY <2>2, <2>3, <1>1, <1>3, StopsStep DEF ReadSystemEnd
<1>4. CASE ReadTooManyC1
  <2>1. PICK kind \in Kinds : Asks(kind)
    BY <1>4 DEF ReadTooManyC1
  <2>2. beat # Off /\ dma = NoDma /\ MgrWaits
    BY <2>1, AsksFinds
  <2> QED
    BY <2>2, <1>1, <1>4, StopsStep DEF ReadTooManyC1
<1> QED
  BY <1>2, <1>3, <1>4

LEMMA ReadC2Step ==
  ASSUME IInv, "first" \notin Faults, NEW bad \in BOOLEAN, ReadC2(bad)
  PROVE  IInv'
<1> USE DEF IInv
<1>1. /\ info.type = "read" /\ Asks("c2") /\ info.mode # "sector" /\ C2InPlace
      /\ dma' = [what |-> "c2", for |-> Leo, block |-> blk]
      /\ UNCHANGED <<cmdQ, ret, mgrPc, mb, messageSend, state, next, left, moved,
                     cartOn, evtQ>>
  BY DEF ReadC2, Readable, unmoved, manager, clients
<1>2. mgrPc = "event" /\ mb = Leo /\ evtQ = 0 /\ Transferring
  BY <1>1, AsksFinds
<1>3. /\ info \in Infos /\ blk \in {0, 1} /\ blk = info.blockNum
      /\ 0 \in Blocks /\ 1 \in Blocks /\ blk \in Blocks
  BY DEF Ranges, Infos, Blocks, blk
<1>4. ~SecondBegins
  BY <1>1, <1>3, PiAssumption DEF SecondBegins, C2InPlace, Infos, Gap
<1>5. /\ Counted(bad) \in Infos /\ Counted(bad).type = "read"
      /\ Counted(bad).mode = info.mode /\ Counted(bad).err = info.err
      /\ Counted(bad).blockNum = blk
  BY <1>1, <1>3, CountedIs
<1>6. /\ dma' \in Dmas /\ dma' # NoDma /\ dma'.what # "copy"
  BY <1>1, <1>3, Parties DEF Dmas, NoDma
<1>7. evtQ' \in 0..1 /\ cartOn' \in BOOLEAN
  BY <1>1 DEF Ranges
<1>8. info.blockNum = 1 => ~messageSend
  BY <1>2, <1>4 DEF Transferring
<1>9. CASE info.mode = "track" /\ blk = 0
  <2>1. /\ info' = [Counted(bad) EXCEPT !.blockNum = 1, !.sectorNum = -1,
                                        !.err[0] = Pending]
        /\ beat' = 0 /\ UNCHANGED <<piIntr, piOn>>
    BY <1>9 DEF ReadC2
  <2>2. /\ info' \in Infos /\ info'.type = "read" /\ info'.mode = info.mode
        /\ info'.blockNum = 1 /\ info'.sectorNum = -1 /\ info'.err[0] = Pending
    <3>1. [info.err EXCEPT ![0] = Pending] \in [Blocks -> Errors]
      BY <1>3 DEF Infos, Errors, Pending
    <3>2. \E i \in Int : i = -1 /\ info' = [Counted(bad) EXCEPT !.blockNum = 1,
             !.sectorNum = i, !.err = [info.err EXCEPT ![0] = Pending]]
      <4>1. info' = [Counted(bad) EXCEPT !.blockNum = 1, !.sectorNum = -1,
                       !.err = [Counted(bad).err EXCEPT ![0] = Pending]]
        BY <2>1
      <4>2. info' = [Counted(bad) EXCEPT !.blockNum = 1, !.sectorNum = -1,
                       !.err = [info.err EXCEPT ![0] = Pending]]
        BY <4>1, <1>5
      <4>3. -1 \in Int
        OBVIOUS
      <4> QED
        BY <4>2, <4>3, Zenon
    <3>3. PICK i \in Int : i = -1 /\ info' = [Counted(bad) EXCEPT !.blockNum = 1,
             !.sectorNum = i, !.err = [info.err EXCEPT ![0] = Pending]]
      BY <3>2
    <3>4. info'.err = [info.err EXCEPT ![0] = Pending] /\ info.err \in [Blocks -> Errors]
      BY <3>3, <1>3, <1>5 DEF Infos
    <3>5. info'.err[0] = Pending
      BY <3>4, <1>3
    <3>6. info' \in Infos
      BY <3>1, <3>3, <1>3, <1>5 DEF Infos
    <3> QED
      BY <3>3, <3>5, <3>6, <1>5 DEF Infos
  <2>3. messageSend
    BY <1>1, <1>2, <1>3, <1>9 DEF Transferring
  <2>4. Transferring'
    <3>1. info'.err[0] # Good
      BY <2>2 DEF Pending, Good
    <3>2. SecondBegins'
      BY <2>2, <1>9 DEF SecondBegins, blk
    <3>3. beat' = 0 /\ beat' >= 0 /\ info'.sectorNum >= -1 /\ ~piOn' /\ cartOn' /\ evtQ' = 0
      BY <2>1, <2>2, <1>1, <1>2 DEF Transferring
    <3> QED
      BY <3>1, <3>2, <3>3, <2>2, <2>3, <1>1, <1>6, <1>9 DEF Transferring
  <2>5. beat' \in Int /\ piIntr' \in BOOLEAN /\ piOn' \in BOOLEAN
    BY <2>1 DEF Ranges
  <2>6. (Transferring \/ Met \/ Ended)'
    BY <2>4
  <2> QED
    BY <2>2, <2>5, <2>6, <1>1, <1>2, <1>3, <1>6, <1>7, <1>9, DriveStep
<1>10. CASE ~(info.mode = "track" /\ blk = 0)
  <2>1. /\ info' = [Counted(bad) EXCEPT !.type = "none", !.err[blk] = Good]
        /\ beat' = Off /\ piIntr' = FALSE /\ piOn' = TRUE
    BY <1>10 DEF ReadC2
  <2>2. /\ info' \in Infos /\ info'.blockNum = blk
        /\ info'.err = [info.err EXCEPT ![blk] = Good]
    BY <2>1, <1>3, <1>5 DEF Infos, Types, Errors, Good
  <2>3. ~messageSend
    BY <1>1, <1>2, <1>3, <1>8, <1>10 DEF Transferring
  <2>4. Ended'
    BY <2>1, <2>3, <1>1, <1>2, <1>6 DEF Ended, Ending, Transferring
  <2>5. info.blockNum = 1 => info'.blockNum = 1 /\ info'.err[0] = info.err[0]
    BY <2>2, <1>3 DEF Infos
  <2>6. beat' \in Int
    BY <2>1 DEF Off
  <2>7. piIntr' \in BOOLEAN
    BY <2>1
  <2>8. piOn' \in BOOLEAN
    BY <2>1
  <2>9. (Transferring \/ Met \/ Ended)'
    BY <2>4
  <2> QED
    BY <2>2, <2>5, <2>6, <2>7, <2>8, <2>9, <1>1, <1>2, <1>6, <1>7, DriveStep
<1> QED
  BY <1>9, <1>10

LEMMA ReadStopSteps ==
  ASSUME IInv, "first" \notin Faults, NEW bad \in BOOLEAN,
         ReadC2Early(bad) \/ \E kind \in Kinds : ReadFirstBad(kind, bad)
  PROVE  IInv'
<1>1. /\ info \in Infos /\ blk \in Blocks /\ blk = info.blockNum /\ 0 \in Blocks
      /\ Counted(bad) \in Infos /\ Counted(bad).err = info.err
      /\ Counted(bad).blockNum = info.blockNum
  BY CountedIs DEF IInv, Ranges, Infos, Blocks, blk
<1>2. 23 \in Errors /\ 24 \in Errors /\ Good # 23 /\ Good # 24
  BY DEF Errors, Good
<1>3. PICK kind : Asks(kind)
  BY DEF ReadC2Early, ReadFirstBad, Readable
<1>4. beat # Off /\ dma = NoDma /\ MgrWaits
  BY <1>3 DEF Asks
<1>5. PICK k \in Blocks, e \in {23, 24} :
        /\ k = blk \/ SecondBegins
        /\ info' = [Counted(bad) EXCEPT !.err[k] = e]
  BY <1>1 DEF ReadC2Early, ReadFirstBad
<1>6. /\ info' \in Infos /\ info'.blockNum = info.blockNum
      /\ info'.err = [info.err EXCEPT ![k] = e]
  BY <1>1, <1>2, <1>5 DEF Infos
<1>7. /\ evtQ' = 1 /\ beat' = Off /\ piIntr' = FALSE /\ piOn' = TRUE
      /\ UNCHANGED <<cmdQ, ret, mgrPc, mb, messageSend, state, next, left, moved,
                     dma, cartOn>>
  BY DEF ReadC2Early, ReadFirstBad, unmoved, manager, clients
<1>8. e \in Errors /\ e # Good
  BY <1>2
<1> QED
  BY <1>4, <1>5, <1>6, <1>7, <1>8, StopStep

LEMMA ReadSectorStep ==
  ASSUME IInv, "first" \notin Faults, NEW bad \in BOOLEAN, NEW kind \in Kinds,
         ReadSector(kind, bad)
  PROVE  IInv'
<1> USE DEF IInv
<1> DEFINE n     == info.sectorNum + 1
           first == IF SecondBegins THEN [Counted(bad) EXCEPT !.err[0] = Good]
                    ELSE Counted(bad)
           wrong == IF kind = "data" THEN n > Sectors - 1 ELSE n <= Sectors - 1
           noted == IF wrong THEN 24 ELSE IF kind = "data" THEN Good ELSE first.err[blk]
<1>1. /\ info.type = "read" /\ Asks(kind)
      /\ info' = [first EXCEPT !.sectorNum = n, !.err[blk] = noted]
      /\ evtQ' = IF SecondBegins \/ wrong THEN 1 ELSE evtQ
      /\ dma' = IF kind = "data" /\ ~wrong THEN SectorDma ELSE dma
      /\ UNCHANGED <<cmdQ, ret, mgrPc, mb, messageSend, state, next, left, moved, cartOn>>
  BY DEF ReadSector, Readable, unmoved, manager, clients
<1>2. \/ wrong /\ beat' = Off /\ piIntr' = FALSE /\ piOn' = TRUE
      \/ ~wrong /\ beat' = beat + 1 /\ UNCHANGED <<piIntr, piOn>>
  BY DEF ReadSector
<1>3. /\ beat # Off /\ dma = NoDma /\ MgrWaits
      /\ mgrPc = "event" /\ mb = Leo /\ evtQ = 0 /\ Transferring
      /\ SecondBegins => kind = "data" /\ messageSend /\ blk = 1 /\ info.sectorNum = -1
  BY <1>1, AsksFinds
<1>4. /\ info \in Infos /\ blk \in {0, 1} /\ blk = info.blockNum
      /\ 0 \in Blocks /\ 1 \in Blocks /\ blk \in Blocks /\ n \in Int
  BY DEF Ranges, Infos, Blocks, blk
<1>5. SecondBegins => ~wrong
  BY <1>3, PiAssumption
<1>6. Good \in Errors /\ 24 \in Errors /\ Good # 24 /\ Good # 29
  BY DEF Errors, Good
<1>7. /\ first \in Infos /\ first.type = "read" /\ first.mode = info.mode
      /\ first.blockNum = blk /\ first.sectorNum = info.sectorNum
      /\ first.err = IF SecondBegins THEN [info.err EXCEPT ![0] = Good] ELSE info.err
  <2>1. /\ Counted(bad) \in Infos /\ Counted(bad).err = info.err
        /\ Counted(bad).type = "read" /\ Counted(bad).mode = info.mode
        /\ Counted(bad).blockNum = blk /\ Counted(bad).sectorNum = info.sectorNum
    BY <1>1, <1>4, CountedIs
  <2> QED
    BY <2>1, <1>4, <1>6 DEF Infos
<1> HIDE DEF first
<1>8. noted \in Errors
  BY <1>4, <1>6, <1>7 DEF Infos
<1> HIDE DEF noted
<1>9. /\ info' \in Infos /\ info'.type = "read" /\ info'.mode = info.mode
      /\ info'.blockNum = blk /\ info'.sectorNum = n
      /\ info'.err = [first.err EXCEPT ![blk] = noted]
  BY <1>1, <1>4, <1>7, <1>8 DEF Infos
<1>10. CASE wrong
  <2>1. noted = 24 /\ ~SecondBegins /\ first.err = info.err /\ dma' = dma /\ evtQ' = 1
    BY <1>1, <1>5, <1>7, <1>10 DEF noted
  <2>2. beat' = Off /\ piIntr' = FALSE /\ piOn' = TRUE
    BY <1>2, <1>10
  <2>3. info'.err = [info.err EXCEPT ![blk] = 24] /\ info'.blockNum = info.blockNum
    BY <2>1, <1>4, <1>9
  <2> QED
    BY <2>1, <2>2, <2>3, <1>1, <1>3, <1>4, <1>6, <1>9, StopStep
<1>11. CASE ~wrong
  <2>1. /\ beat' = beat + 1 /\ piIntr' = piIntr /\ piOn' = piOn
        /\ beat' \in Int /\ beat' >= 0
        /\ piIntr' \in BOOLEAN /\ piOn' \in BOOLEAN /\ cartOn' \in BOOLEAN
    BY <1>1, <1>2, <1>3, <1>11 DEF Ranges, Transferring
  <2>2. dma' \in Dmas /\ dma'.what # "copy"
    BY <1>1, <1>3, <1>4, Parties DEF SectorDma, Dmas, NoDma
  <2>3. n >= 0 /\ n >= -1 /\ n # -1 /\ ~SecondBegins'
    BY <1>3, <1>4, <1>9 DEF Transferring, SecondBegins, Infos
  <2>4. CASE SecondBegins
    <3>1. /\ evtQ' = 1 /\ evtQ' \in 0..1 /\ messageSend /\ blk = 1 /\ noted = Good
      BY <2>4, <1>1, <1>3, <1>11 DEF noted
    <3>2. info'.err[0] = Good /\ info'.err[1] # 29
      BY <2>4, <3>1, <1>4, <1>6, <1>7, <1>9 DEF Infos
    <3>3. Transferring'
      BY <2>1, <2>2, <2>3, <3>1, <3>2, <1>1, <1>3, <1>4, <1>9 DEF Transferring
    <3>4. (Transferring \/ Met \/ Ended)'
      BY <3>3
    <3> QED
      BY <2>1, <2>2, <3>1, <3>4, <1>1, <1>3, <1>9, DriveStep
  <2>5. CASE ~SecondBegins
    <3>1. evtQ' = 0 /\ evtQ' \in 0..1
      BY <2>5, <1>1, <1>3, <1>11
    <3>2. info.blockNum = 1 => ~messageSend /\ info'.blockNum = 1 /\ info'.err[0] = info.err[0]
      BY <2>5, <1>3, <1>4, <1>7, <1>9 DEF Transferring, Infos
    <3>3. Transferring'
      BY <2>1, <2>2, <2>3, <3>1, <3>2, <1>1, <1>3, <1>4, <1>9 DEF Transferring
    <3>4. (Transferring \/ Met \/ Ended)'
      BY <3>3
    <3> QED
      BY <2>1, <2>2, <3>1, <3>2, <3>4, <1>1, <1>3, <1>9, DriveStep
  <2> QED
    BY <2>4, <2>5
<1> QED
  BY <1>10, <1>11

-----------------------------------------------------------------------------
(* The theorems.                                                           *)

LEMMA InitInv == Init => IInv
<1> SUFFICES ASSUME Init PROVE IInv
  OBVIOUS
<1> USE DEF Init
<1>1. \A c \in Client : ~Queued(c) /\ Once(c)
  BY DEF Queued, Once
<1>2. NoDma \in Dmas /\ Idle \notin Client
  BY Parties DEF NoDma, Dmas, Blocks
<1>3. info \in Infos
  BY DEF NewInfo, Infos, Types, Modes, Blocks, Errors, Good
<1>4. Ranges
  <2>1. cmdQ \in Seq(Client) /\ ret \in [Client -> Nat] /\ moved \in [Client -> Nat]
    OBVIOUS
  <2>2. /\ {piIntr, piOn, cartOn} \subseteq BOOLEAN /\ messageSend \in BOOLEAN
        /\ mgrPc \in {"command", "access", "event"} /\ mb \in Client \cup {Idle}
    OBVIOUS
  <2>3. evtQ \in 0..1 /\ next \in 0..1 /\ left \in 0..2 /\ beat \in Int
    BY DEF Off
  <2>4. state \in [Copier \cup {Leo} -> {"idle", "wait", "seek"}]
    OBVIOUS
  <2> QED
    BY <2>1, <2>2, <2>3, <2>4, <1>2, <1>3 DEF Ranges, Infos, Dmas
<1>5. CopiesOnce
  <2>1. ASSUME NEW c \in Copier
        PROVE  /\ state[c] # "seek" /\ ~(ret[c] > 0) /\ ret[c] = 0 /\ moved[c] = 0
               /\ ~Queued(c) /\ Once(c) /\ mb # c
    BY <1>1, <1>2, Parties
  <2> HIDE DEF Init
  <2> QED
    BY <2>1 DEF CopiesOnce
<1>6. LeoAlone /\ LeoRests
  BY <1>1, <1>2, Parties DEF LeoAlone, LeoRests
<1>7. Bus
  BY Parties DEF Bus, Rest
<1> QED
  BY <1>4, <1>5, <1>6, <1>7 DEF IInv, LeoStage

LEMMA StutterInv ==
  ASSUME IInv, UNCHANGED vars
  PROVE  IInv'
<1>1. UNCHANGED <<cmdQ, evtQ, ret, mgrPc, mb, messageSend, state, next, left, dma,
                  piIntr, piOn, cartOn, info, beat, moved>>
  BY DEF vars, queues, manager, clients, pi, masks, disk
<1> QED
  BY <1>1 DEF IInv, Ranges, CopiesOnce, LeoAlone, LeoStage, LeoRests, LeoPosted,
     LeoServed, LeoTold, Queued, Once, Bus, Rest, Copying, Ending, Transferring,
     Met, Ended, SecondBegins, blk

LEMMA NextInv ==
  ASSUME IInv, "first" \notin Faults, [Next]_vars
  PROVE  IInv'
<1>1. CASE Manager
  BY <1>1, MgrCommandStep, MgrAccessStep, MgrEndCopyStep, MgrEndBlockStep DEF Manager
<1>2. CASE Clients
  BY <1>2, CopyStep, CopyReturnStep, StreamStep, ProbeStep, LeoTransferStep,
     LeoReturnStep, LeoSeekStep DEF Clients
<1>3. CASE Hardware
  <2>1. CASE Transfer
    <3>1. CASE WriteSector
      BY <3>1, WriteSectorStep
    <3>2. CASE WriteEnd \/ ReadSystemEnd \/ ReadTooManyC1
      BY <3>2, EndSteps
    <3>3. ASSUME NEW bad \in BOOLEAN, ReadC2(bad)
          PROVE  IInv'
      BY <3>3, ReadC2Step
    <3>4. ASSUME NEW bad \in BOOLEAN,
                 ReadC2Early(bad) \/ \E kind \in Kinds : ReadFirstBad(kind, bad)
          PROVE  IInv'
      BY <3>4, ReadStopSteps
    <3>5. ASSUME NEW bad \in BOOLEAN, NEW kind \in Kinds, ReadSector(kind, bad)
          PROVE  IInv'
      BY <3>5, ReadSectorStep
    <3> QED
      BY <2>1, <3>1, <3>2, <3>3, <3>4, <3>5 DEF Transfer, Read
  <2> QED
    BY <1>3, <2>1, DmaDoneStep, PiInterruptStep, DriveMeetsDmaStep, MechaReadyStep,
       BufferErrorStep DEF Hardware
<1>4. CASE UNCHANGED vars
  BY <1>4, StutterInv
<1> QED
  BY <1>1, <1>2, <1>3, <1>4 DEF Next

\* The invariant holds as long as the drive counts right at the first sector of
\* a second block (section 6 of the README says what happens otherwise).
THEOREM Invariance ==
  ASSUME "first" \notin Faults
  PROVE  Spec => []IInv
<1>1. Init => IInv
  BY InitInv
<1>2. IInv /\ [Next]_vars => IInv'
  BY NextInv
<1> QED
  BY <1>1, <1>2, PTL DEF Spec

\* Whoever takes the token of the PI (osPiGetAccess, or the manager) finds no
\* DMA, no interrupt and no event of an earlier transfer, and both interrupts
\* unmasked: for any clients, queues and size of a block.
THEOREM TheBusIsAtRest ==
  ASSUME "first" \notin Faults
  PROVE  Spec => []BusAtRest
<1>1. IInv => BusAtRest
  BY DEF IInv, Bus, Rest, BusAtRest
<1> QED
  BY <1>1, Invariance, PTL

-----------------------------------------------------------------------------
(* The manager implements DmaService.                                      *)

Copies ==
  [c \in Copier |-> IF state[c] = "idle" THEN "none"
                    ELSE IF moved[c] > 0 THEN "moved" ELSE "asked"]

\* A step that neither moves the data of a Copier nor is one of its own.
LEMMA SameCopies ==
  ASSUME \A c \in Copier : state'[c] = state[c] /\ moved'[c] = moved[c]
  PROVE  Copies' = Copies
BY DEF Copies

\* A step that changes the data of one.
LEMMA OneCopy ==
  ASSUME NEW c \in Copier, NEW v,
         \A d \in Copier : d # c => state'[d] = state[d] /\ moved'[d] = moved[d],
         v = IF state'[c] = "idle" THEN "none"
             ELSE IF moved'[c] > 0 THEN "moved" ELSE "asked"
  PROVE  Copies' = [Copies EXCEPT ![c] = v]
<1>1. \A d \in Copier : Copies'[d] = IF d = c THEN v ELSE Copies[d]
  BY DEF Copies
<1> QED
  BY <1>1 DEF Copies

LEMMA CopiesInit == Init => Service!Init
<1> SUFFICES ASSUME Init PROVE Service!Init
  OBVIOUS
<1>1. Copies = [c \in Copier |-> "none"]
  BY DEF Init, Copies
<1> QED
  BY <1>1 DEF Service!Init, Copies

LEMMA CopiesNext ==
  ASSUME IInv, IInv', [Next]_vars
  PROVE  [Service!Next]_Copies
<1>1. ASSUME NEW c \in Copier, Copy(c)
      PROVE  Service!Ask(c)
  <2>1. /\ state[c] = "idle" /\ state' = [state EXCEPT ![c] = "wait"] /\ moved' = moved
        /\ state \in [Copier \cup {Leo} -> {"idle", "wait", "seek"}]
    BY <1>1 DEF Copy, IInv, Ranges
  <2>2. moved[c] = 0
    <3>1. ret[c] = 0 /\ mb # c
      BY <2>1 DEF IInv, CopiesOnce
    <3> QED
      BY <3>1 DEF IInv, CopiesOnce
  <2>3. Copies[c] = "none"
    BY <2>1 DEF Copies
  <2>4. /\ state'[c] = "wait" /\ ~(moved'[c] > 0)
        /\ \A d \in Copier : d # c => state'[d] = state[d] /\ moved'[d] = moved[d]
    BY <2>1, <2>2
  <2>5. Copies' = [Copies EXCEPT ![c] = "asked"]
    BY <2>4, OneCopy
  <2> QED
    BY <2>3, <2>5 DEF Service!Ask, Copies
<1>2. ASSUME NEW c \in Copier, CopyReturn(c)
      PROVE  Service!Return(c)
  <2>1. /\ state[c] = "wait" /\ ret[c] > 0 /\ state' = [state EXCEPT ![c] = "idle"]
        /\ moved' = [moved EXCEPT ![c] = IF @ > 0 THEN @ - 1 ELSE 0]
        /\ state \in [Copier \cup {Leo} -> {"idle", "wait", "seek"}]
        /\ moved \in [Client -> Nat]
    BY <1>2 DEF CopyReturn, IInv, Ranges
  <2>2. moved[c] = 1
    BY <2>1 DEF IInv, CopiesOnce
  <2>3. \A d \in Copier : d # c => moved'[d] = moved[d] /\ state'[d] = state[d]
    BY <2>1, Parties
  <2>4. state'[c] = "idle"
    BY <2>1
  <2>5. Copies[c] = "moved"
    BY <2>1, <2>2 DEF Copies
  <2>6. Copies' = [Copies EXCEPT ![c] = "none"]
    BY <2>3, <2>4, OneCopy
  <2> QED
    BY <2>5, <2>6 DEF Service!Return, Copies
<1>3. ASSUME DmaDone
      PROVE  Copies' = Copies \/ \E c \in Copier : Service!Move(c)
  <2>1. /\ dma # NoDma /\ state' = state
        /\ moved' = IF dma.what = "copy" /\ moved[dma.for] < RetLen(dma.for)
                    THEN [moved EXCEPT ![dma.for] = @ + 1] ELSE moved
        /\ moved \in [Client -> Nat]
    BY <1>3 DEF DmaDone, clients, IInv, Ranges
  <2>2. CASE moved' = moved
    BY <2>1, <2>2, SameCopies
  <2>3. CASE moved' # moved
    <3>1. /\ dma.what = "copy" /\ moved' = [moved EXCEPT ![dma.for] = @ + 1]
      BY <2>1, <2>3
    <3>2. mgrPc = "event" /\ mb # Leo /\ dma.for = mb
      BY <2>1, <3>1 DEF IInv, Bus, Rest, Transferring, Met, Ended, Copying
    <3>3. CASE mb \in Copier
      <4>1. PICK u \in Copier : u = mb
        BY <3>3
      <4>2. moved[u] = 0 /\ state[u] = "wait" /\ moved'[u] = 1 /\ state'[u] = "wait"
        BY <2>1, <3>1, <3>2, <4>1, Parties DEF IInv, CopiesOnce, Ranges
      <4>3. \A d \in Copier : d # u => state'[d] = state[d] /\ moved'[d] = moved[d]
        BY <2>1, <3>1, <3>2, <4>1, Parties
      <4>4. Copies[u] = "asked"
        BY <4>2 DEF Copies
      <4>5. Copies' = [Copies EXCEPT ![u] = "moved"]
        BY <4>2, <4>3, OneCopy
      <4>6. Service!Move(u)
        BY <4>4, <4>5 DEF Service!Move, Copies
      <4> QED
        BY <4>6
    <3>4. CASE mb \notin Copier
      <4>1. \A d \in Copier : moved'[d] = moved[d]
        BY <2>1, <3>1, <3>2, <3>4, Parties
      <4> QED
        BY <4>1, <2>1, SameCopies
    <3> QED
      BY <3>3, <3>4
  <2> QED
    BY <2>2, <2>3
<1>4. ASSUME \/ Manager \/ \E c \in Streamer : Stream(c)
             \/ \E p \in Prober : ProbeGet(p) \/ ProbeRel(p)
             \/ PiInterrupt \/ DriveMeetsDma \/ BufferError \/ Transfer
             \/ UNCHANGED vars
      PROVE  Copies' = Copies
  <2>1. state' = state /\ moved' = moved
    BY <1>4 DEF Manager, MgrCommand, MgrAccess, MgrEndCopy, MgrEndBlock, Stream,
       ProbeGet, ProbeRel, PiInterrupt, DriveMeetsDma, BufferError, Transfer,
       WriteSector, WriteEnd, Read, ReadSystemEnd, ReadTooManyC1, ReadC2, ReadC2Early,
       ReadFirstBad, ReadSector, unmoved, clients, vars
  <2> QED
    BY <2>1, SameCopies
<1>5. ASSUME \/ \E type \in {"read", "write"}, mode \in Modes : LeoTransfer(type, mode)
             \/ LeoReturn \/ LeoSeek \/ MechaReady
      PROVE  Copies' = Copies
  <2>1. moved' = moved /\ \A c \in Copier : state'[c] = state[c]
    <3>1. moved' = moved /\ (\/ state' = state
                             \/ \E s : state' = [state EXCEPT ![Leo] = s])
      BY <1>5 DEF LeoTransfer, LeoReturn, LeoSeek, MechaReady
    <3> QED
      BY <3>1, Parties DEF IInv, Ranges
  <2> QED
    BY <2>1, SameCopies
<1>6. CASE Clients
  BY <1>6, <1>1, <1>2, <1>4, <1>5 DEF Clients, Service!Next
<1>7. CASE Manager \/ UNCHANGED vars
  BY <1>7, <1>4
<1>8. CASE Hardware
  BY <1>8, <1>3, <1>4, <1>5 DEF Hardware, Service!Next
<1> QED
  BY <1>6, <1>7, <1>8 DEF Next

\* For a thread that copies, the manager is what DmaService says: the data is
\* in memory when the wait for it returns (Dma_RomCopy, Sram_ReadWrite).
THEOREM CopiesAreDone ==
  ASSUME "first" \notin Faults
  PROVE  Spec => Service!Spec
<1>1. Init => Service!Init
  BY CopiesInit
<1>2. IInv /\ IInv' /\ [Next]_vars => [Service!Next]_Copies
  BY CopiesNext
<1> QED
  BY <1>1, <1>2, Invariance, PTL DEF Spec, Service!Spec, Copies
-----------------------------------------------------------------------------
(* The data of the disk: the invariant on top of IInv.                     *)

\* All the sectors of a write of one block, or of two.
Total == Sectors * (IF info.mode = "track" THEN 2 ELSE 1)

OnItsWay   == IF dma.what = "sector" THEN 1 ELSE 0
C2Comes(b) == gotC2[b] \/ (dma.what = "c2" /\ dma.block = b)

\* How many sectors of the block the drive has asked for.
Reached ==
  IF info.type = "write" \/ info.sectorNum < Sectors
  THEN info.sectorNum + 1 ELSE Sectors

\* With no DMA under way, what Leo is promised of a block.
Complete(b) ==
  IF info.type = "write" THEN got[0] = Total ELSE got[b] = Sectors /\ C2Comes(b)

LeoReads == state[Leo] = "wait" /\ info.mode # "sector"

DataRanges == got \in [Blocks -> Nat] /\ gotC2 \in [Blocks -> BOOLEAN]

NothingYet ==
  mgrPc # "event" /\ ret[Leo] = 0 =>
    got[0] = 0 /\ got[1] = 0 /\ ~gotC2[0] /\ ~gotC2[1]

\* The end that comes last is that of the block Leo waits for.
Awaited ==
  mb = Leo /\ ~messageSend /\ left = 1 =>
    next = info.blockNum /\ (next = 1 => info.err[0] = Good)

\* The second block begins when the sectors of the first are in memory and its
\* C2 data is on its way: its end is told when that has come.
FirstIsOver ==
  info.blockNum = 1 =>
    /\ info.type # "write" /\ got[0] = Sectors /\ C2Comes(0)
    /\ info.err[0] = Good => gotC2[0]

\* A DMA is one of the block the drive is in, or the C2 data of the block before.
InPlace ==
  /\ dma.what = "sector" => dma.block = info.blockNum /\ beat # Off
  /\ dma.what = "c2" /\ dma.block = 1 => info.blockNum = 1
  /\ info.blockNum = 0 => got[1] = 0 /\ ~gotC2[1]

\* While the drive asks for sectors, memory has all up to the last one.
UpToDate ==
  beat # Off /\ cartOn => got[info.blockNum] + OnItsWay = Reached

\* A transfer that has ended well ended with its block complete.
EndedWell ==
  /\ beat = Off /\ info.err[info.blockNum] = Good
  /\ info.blockNum = 1 => info.err[0] = Good
  => Complete(info.blockNum)

Results ==
  mb = Idle /\ ret[Leo] > 0 =>
    /\ left = 1 /\ info.err[next] = Good => Complete(next)
    /\ left = 2 /\ info.err[0] = Good =>
         Complete(0) /\ (info.err[1] = Good => Complete(1))

InTransfer ==
  mgrPc = "event" /\ mb = Leo => FirstIsOver /\ InPlace /\ UpToDate /\ EndedWell

DataInv ==
  /\ DataRanges
  /\ LeoReads => NothingYet /\ Awaited /\ InTransfer /\ Results

LEMMA BlocksOf ==
  ASSUME IInv
  PROVE  /\ info \in Infos /\ info.blockNum \in {0, 1} /\ blk = info.blockNum
         /\ info.err \in [Blocks -> Errors] /\ info.sectorNum \in Int
         /\ 0 \in Blocks /\ 1 \in Blocks /\ info.blockNum \in Blocks
         /\ next \in {0, 1} /\ Sectors \in Nat \ {0}
BY PiAssumption DEF IInv, Ranges, Infos, Blocks, blk

\* A step that is none of Leo's, and changes nothing of its transfer.
LEMMA DataSame ==
  ASSUME DataInv,
         UNCHANGED <<got, gotC2, dma, info, beat, cartOn, mgrPc, mb, messageSend,
                     next, left>>,
         state'[Leo] = state[Leo], ret'[Leo] = ret[Leo]
  PROVE  DataInv'
<1>1. DataRanges' /\ (LeoReads' <=> LeoReads)
  BY DEF DataInv, DataRanges, LeoReads
<1>2. ASSUME LeoReads
      PROVE  (NothingYet /\ Awaited /\ InTransfer /\ Results)'
  <2>1. NothingYet'
    BY <1>2 DEF DataInv, NothingYet
  <2>2. Awaited'
    BY <1>2 DEF DataInv, Awaited
  <2>3. InTransfer'
    BY <1>2 DEF DataInv, InTransfer, FirstIsOver, InPlace, UpToDate, EndedWell,
                Complete, C2Comes, Total, OnItsWay, Reached
  <2>4. Results'
    BY <1>2 DEF DataInv, Results, Complete, C2Comes, Total
  <2> QED
    BY <2>1, <2>2, <2>3, <2>4
<1> QED
  BY <1>1, <1>2 DEF DataInv

\* A step that finds or leaves Leo with no transfer to wait for.
LEMMA DataAtRest ==
  ASSUME DataInv, state'[Leo] # "wait", UNCHANGED <<got, gotC2>>
  PROVE  DataInv'
BY DEF DataInv, DataRanges, LeoReads

LEMMA DataClients ==
  ASSUME IInv, DataInv,
         \/ \E c \in Copier : Copy(c) \/ CopyReturn(c)
         \/ \E c \in Streamer : Stream(c)
         \/ \E p \in Prober : ProbeGet(p) \/ ProbeRel(p)
         \/ LeoSeek \/ MechaReady \/ PiInterrupt \/ UNCHANGED vars
  PROVE  DataInv'
<1>1. /\ state \in [Copier \cup {Leo} -> {"idle", "wait", "seek"}]
      /\ ret \in [Client -> Nat]
  BY DEF IInv, Ranges
<1>2. CASE \E c \in Copier : Copy(c) \/ CopyReturn(c)
  <2>1. /\ UNCHANGED <<got, gotC2, dma, info, beat, cartOn, mgrPc, mb, messageSend,
                       next, left>>
        /\ state'[Leo] = state[Leo] /\ ret'[Leo] = ret[Leo]
    BY <1>1, <1>2, Parties DEF Copy, CopyReturn, manager, pi, masks, disk
  <2> QED
    BY <2>1, DataSame
<1>3. CASE \/ \E c \in Streamer : Stream(c)
           \/ \E p \in Prober : ProbeGet(p) \/ ProbeRel(p)
           \/ PiInterrupt \/ UNCHANGED vars
  <2>1. UNCHANGED <<got, gotC2, dma, info, beat, cartOn, mgrPc, mb, messageSend,
                    next, left, state, ret>>
    BY <1>3 DEF Stream, ProbeGet, ProbeRel, PiInterrupt, vars, queues, manager, clients,
       pi, masks, disk
  <2> QED
    BY <2>1, DataSame
<1>4. CASE LeoSeek \/ MechaReady
  <2>1. state'[Leo] # "wait" /\ UNCHANGED <<got, gotC2>>
    BY <1>1, <1>4 DEF LeoSeek, MechaReady
  <2> QED
    BY <2>1, DataAtRest
<1> QED
  BY <1>2, <1>3, <1>4

LEMMA DataLeoTransfer ==
  ASSUME IInv, DataInv, NEW type \in {"read", "write"}, NEW mode \in Modes,
         LeoTransfer(type, mode)
  PROVE  DataInv'
<1>1. /\ ExpansionKit /\ BusFree
      /\ got' = [b \in Blocks |-> 0] /\ gotC2' = [b \in Blocks |-> FALSE]
      /\ UNCHANGED <<ret, mgrPc, mb>>
  BY DEF LeoTransfer, manager
<1>2. mb = Idle /\ mgrPc = "command" /\ ret[Leo] = 0 /\ Leo # Idle
  BY <1>1, FreeBus, Parties
<1>3. DataRanges'
  BY <1>1 DEF DataRanges
<1>4. NothingYet'
  BY <1>1 DEF NothingYet, Blocks
<1>5. Awaited' /\ InTransfer' /\ Results'
  BY <1>1, <1>2 DEF Awaited, InTransfer, Results
<1> QED
  BY <1>3, <1>4, <1>5 DEF DataInv

LEMMA DataLeoReturn ==
  ASSUME IInv, DataInv, LeoReturn
  PROVE  DataInv'
<1>1. /\ state[Leo] = "wait" /\ ret[Leo] > 0 /\ ret'[Leo] = ret[Leo] - 1
      /\ UNCHANGED <<mgrPc, mb, messageSend, dma, cartOn, info, beat, got, gotC2>>
  BY Parties DEF LeoReturn, manager, pi, masks, disk, IInv, Ranges
<1>2. CASE info.err[next] # Good \/ left = 1
  <2>1. state'[Leo] = "idle"
    BY <1>2 DEF LeoReturn, IInv, Ranges
  <2> QED
    BY <1>1, <2>1, DataAtRest
<1>3. CASE ~(info.err[next] # Good \/ left = 1)
  <2>1. info.err[next] = Good /\ next' = 1 /\ left' = 1 /\ state' = state
    BY <1>3 DEF LeoReturn
  <2>2. ret[Leo] \in Nat
    BY Parties DEF IInv, Ranges
  <2>3. DataRanges' /\ (LeoReads' <=> LeoReads)
    BY <1>1, <2>1 DEF DataInv, DataRanges, LeoReads
  <2>4. CASE LeoServed
    <3>1. /\ mb = Leo /\ left = 2 /\ ret[Leo] = 1 /\ next = 0
          /\ info.err[0] = Good /\ info.blockNum = 1 /\ ~messageSend
      BY <1>1, <1>3, <2>4 DEF LeoServed
    <3>2. mgrPc = "event"
      BY <3>1, Parties DEF IInv, Bus, Ranges
    <3>3. Awaited' /\ NothingYet' /\ Results'
      BY <1>1, <2>1, <3>1, <3>2, Parties DEF Awaited, NothingYet, Results
    <3>4. LeoReads => InTransfer'
      BY <1>1 DEF DataInv, InTransfer, FirstIsOver, InPlace, UpToDate, EndedWell,
                  Complete, C2Comes, Total, OnItsWay, Reached
    <3> QED
      BY <2>3, <3>3, <3>4 DEF DataInv
  <2>5. CASE LeoTold
    <3>1. mb = Idle /\ left = 2 /\ next = 0 /\ ret[Leo] = 2 /\ info.err[0] = Good
      BY <1>3, <2>1, <2>5 DEF LeoTold
    <3>2. NothingYet' /\ Awaited' /\ InTransfer'
      BY <1>1, <3>1, Parties DEF NothingYet, Awaited, InTransfer
    <3>3. LeoReads => (info.err[1] = Good => Complete(1))
      BY <1>1, <3>1 DEF DataInv, Results
    <3>4. LeoReads => Results'
      BY <1>1, <2>1, <3>1, <3>3 DEF Results, Complete, C2Comes, Total
    <3> QED
      BY <2>3, <3>2, <3>4 DEF DataInv
  <2> QED
    BY <1>1, <2>4, <2>5 DEF IInv, LeoStage, LeoRests, LeoPosted
<1> QED
  BY <1>2, <1>3

\* Leo waits for no transfer of its own while another client's is made.
LEMMA Elsewhere ==
  ASSUME IInv, mb \notin {Idle, Leo} \/ (cmdQ # <<>> /\ Head(cmdQ) # Leo /\ mb = Idle)
  PROVE  state[Leo] # "wait"
BY Parties DEF IInv, LeoStage, LeoRests, LeoPosted, LeoServed, LeoTold

LEMMA DataMgrCommand ==
  ASSUME IInv, DataInv, MgrCommand
  PROVE  DataInv'
<1>1. PICK h : h = Head(cmdQ)
  OBVIOUS
<1>2. /\ mgrPc = "command" /\ cmdQ # <<>> /\ mb' = h /\ mgrPc' = "access"
      /\ IF h = Leo
         THEN /\ info' = [info EXCEPT !.sectorNum = -1]
              /\ messageSend' = (info.mode = "track" /\ info.type = "read")
         ELSE UNCHANGED <<info, messageSend>>
      /\ UNCHANGED <<ret, state, next, left, got, gotC2>>
  BY <1>1 DEF MgrCommand, clients
<1>3. mb = Idle
  BY <1>2 DEF IInv, Bus
<1>4. CASE h # Leo
  <2>1. state'[Leo] # "wait"
    BY <1>1, <1>2, <1>3, <1>4, Elsewhere
  <2> QED
    BY <2>1, <1>2, DataAtRest
<1>5. CASE h = Leo
  <2>1. info'.mode = info.mode /\ info'.blockNum = info.blockNum
    BY <1>2, <1>5 DEF IInv, Ranges
  <2>2. DataRanges' /\ (LeoReads' <=> LeoReads)
    BY <1>2, <2>1 DEF DataInv, DataRanges, LeoReads
  <2>3. CASE state[Leo] # "wait"
    BY <2>3, <1>2, DataAtRest
  <2>4. CASE state[Leo] = "wait"
    <3>1. next = 0 /\ info.blockNum = 0
      BY <1>2, <1>3, <2>4, Parties
      DEF IInv, LeoStage, LeoRests, LeoPosted, LeoServed, LeoTold
    <3>2. Awaited'
      BY <1>2, <2>1, <3>1 DEF Awaited
    <3>3. LeoReads => NothingYet'
      BY <1>2 DEF DataInv, NothingYet
    <3>4. InTransfer' /\ Results'
      BY <1>2, <1>5, Parties DEF InTransfer, Results
    <3> QED
      BY <2>2, <3>2, <3>3, <3>4 DEF DataInv
  <2> QED
    BY <2>3, <2>4
<1> QED
  BY <1>4, <1>5

LEMMA DataMgrAccess ==
  ASSUME IInv, DataInv, MgrAccess
  PROVE  DataInv'
<1>1. /\ mgrPc = "access" /\ mgrPc' = "event" /\ dma = NoDma
      /\ UNCHANGED <<ret, mb, messageSend, state, next, left, cartOn, info, got, gotC2>>
  BY DEF MgrAccess, clients
<1>2. mb # Idle
  BY <1>1 DEF IInv, Bus
<1>3. CASE mb # Leo
  <2>1. state[Leo] # "wait"
    BY <1>2, <1>3, Elsewhere
  <2> QED
    BY <2>1, <1>1, DataAtRest
<1>4. CASE mb = Leo
  <2>1. /\ beat' = 0 /\ dma' = NoDma
        /\ info.blockNum = 0 /\ info.sectorNum = -1 /\ info.type # "none"
    BY <1>1, <1>4 DEF MgrAccess, IInv, Bus
  <2>2. DataRanges' /\ (LeoReads' <=> LeoReads)
    BY <1>1 DEF DataInv, DataRanges, LeoReads
  <2>3. ASSUME LeoReads
        PROVE  (NothingYet /\ Awaited /\ InTransfer /\ Results)'
    <3>1. ret[Leo] = 0
      BY <2>1, <2>3, <1>4, Parties
      DEF LeoReads, IInv, LeoStage, LeoRests, LeoPosted, LeoServed, LeoTold
    <3>2. got[0] = 0 /\ got[1] = 0 /\ ~gotC2[0] /\ ~gotC2[1]
      BY <2>3, <3>1, <1>1 DEF DataInv, NothingYet
    <3>3. NothingYet' /\ Results'
      BY <1>1, <1>2 DEF NothingYet, Results
    <3>4. Awaited'
      BY <2>3, <1>1 DEF DataInv, Awaited
    <3>5. FirstIsOver'
      BY <2>1, <1>1 DEF FirstIsOver
    <3>6. InPlace'
      BY <2>1, <3>2, <1>1 DEF InPlace, NoDma
    <3>7. Sectors \in Nat \ {0}
      BY PiAssumption
    <3>8. UpToDate'
      <4>1. Reached' = 0
        BY <2>1, <3>7, <1>1 DEF Reached
      <4>2. OnItsWay' = 0
        BY <2>1 DEF OnItsWay, NoDma
      <4> QED
        BY <2>1, <3>2, <4>1, <4>2, <1>1 DEF UpToDate
    <3>9. EndedWell'
      BY <2>1 DEF EndedWell, Off
    <3> QED
      BY <3>3, <3>4, <3>5, <3>6, <3>8, <3>9 DEF InTransfer
  <2> QED
    BY <2>2, <2>3 DEF DataInv
<1> QED
  BY <1>3, <1>4

LEMMA DataMgrEndCopy ==
  ASSUME IInv, DataInv, MgrEndCopy
  PROVE  DataInv'
<1>1. mgrPc = "event" /\ mb # Leo /\ state' = state /\ UNCHANGED <<got, gotC2>>
  BY DEF MgrEndCopy, clients, disk
<1>2. state[Leo] # "wait"
  BY <1>1, Elsewhere DEF IInv, Bus
<1> QED
  BY <1>1, <1>2, DataAtRest

LEMMA DataMgrEndBlock ==
  ASSUME IInv, DataInv, MgrEndBlock
  PROVE  DataInv'
<1> DEFINE b   == info.blockNum
           err == IF info.err[b] = 29 THEN [info.err EXCEPT ![b] = 4] ELSE info.err
<1>1. /\ mgrPc = "event" /\ mb = Leo /\ evtQ = 1 /\ Tell(Leo)
      /\ info' = [info EXCEPT !.err = err]
      /\ UNCHANGED <<state, next, left, dma, got, gotC2>>
      /\ info.err[b] # 29 => UNCHANGED <<beat, cartOn>>
  BY DEF MgrEndBlock, clients
<1>2. \/ /\ messageSend /\ err[0] = Good
         /\ ~messageSend' /\ UNCHANGED <<mgrPc, mb>>
      \/ /\ ~messageSend \/ err[0] # Good
         /\ mgrPc' = "command" /\ mb' = Idle
  BY DEF MgrEndBlock, Follows
<1>3. ret'[Leo] = IF ret[Leo] < 2 THEN ret[Leo] + 1 ELSE ret[Leo]
  BY <1>1, Parties, Told DEF IInv
<1>4. /\ b \in {0, 1} /\ info.err \in [Blocks -> Errors] /\ 0 \in Blocks /\ 1 \in Blocks
      /\ b \in Blocks /\ info \in Infos
  BY BlocksOf
<1>5. /\ info.err[b] = 29 => err[b] = 4
      /\ \A k \in Blocks : k # b => err[k] = info.err[k]
      /\ info.err[b] # 29 => err = info.err
  BY <1>4
<1> HIDE DEF err
<1>6. /\ info'.type = info.type /\ info'.mode = info.mode /\ info'.blockNum = b
      /\ info'.sectorNum = info.sectorNum /\ info'.err = err
  BY <1>1, <1>4 DEF Infos
<1>7. DataRanges' /\ (LeoReads' <=> LeoReads)
  BY <1>1, <1>6 DEF DataInv, DataRanges, LeoReads
<1>8. /\ Transferring \/ Met \/ Ended
      /\ state[Leo] = "wait" => LeoServed
      /\ LeoServed
  BY <1>1, Parties DEF IInv, Bus, LeoStage, LeoRests, LeoPosted, LeoTold
<1>9. ret[Leo] \in Nat /\ ret'[Leo] > 0
  BY <1>3, Parties DEF IInv, Ranges
<1>10. NothingYet'
  BY <1>9 DEF NothingYet
<1>11. CASE messageSend /\ err[0] = Good
  <2>1. ~messageSend' /\ mgrPc' = mgrPc /\ mb' = Leo
    BY <1>1, <1>2, <1>11
  <2>2. info.err[b] # 29
    BY <1>1, <1>4, <1>5, <1>8, <1>11 DEF Transferring, Met, Ended, Good
  <2>3. UNCHANGED <<beat, cartOn>> /\ err = info.err
    BY <2>2, <1>1, <1>5
  <2>4. left = 2
    BY <1>8, <1>11 DEF LeoServed
  <2>5. Awaited' /\ Results'
    BY <2>1, <2>4, <1>1, Parties DEF Awaited, Results
  <2>6. LeoReads => InTransfer'
    BY <2>1, <2>3, <1>1, <1>6 DEF DataInv, InTransfer, FirstIsOver, InPlace, UpToDate,
       EndedWell, Complete, C2Comes, Total, OnItsWay, Reached
  <2> QED
    BY <1>7, <1>10, <2>5, <2>6 DEF DataInv
<1>12. CASE ~messageSend \/ err[0] # Good
  <2>1. mgrPc' = "command" /\ mb' = Idle
    BY <1>2, <1>12
  <2>2. Awaited' /\ InTransfer'
    BY <2>1, Parties DEF Awaited, InTransfer
  <2>3. ASSUME LeoReads
        PROVE  Results'
    <3>1. FirstIsOver /\ EndedWell /\ Awaited
      BY <2>3, <1>1 DEF DataInv, InTransfer
    <3>2. ASSUME ~messageSend, err[b] = Good, b = 1 => err[0] = Good
          PROVE  Complete(b) /\ dma = NoDma
      <4>1. info.err[b] # 29 /\ err = info.err
        BY <3>2, <1>5 DEF Good
      <4>2. Ended
        BY <4>1, <3>2, <1>1, <1>8 DEF Transferring, Met
      <4>3. beat = Off /\ dma = NoDma
        BY <4>2, <1>1 DEF Ended, Ending
      <4>4. Complete(b)
        BY <4>1, <4>3, <3>1, <3>2 DEF EndedWell
      <4> QED
        BY <4>3, <4>4
    <3>3. ASSUME NEW k, Complete(k)
          PROVE  Complete(k)'
      BY <3>3, <1>1, <1>6 DEF Complete, C2Comes, Total
    <3>4. CASE messageSend /\ left = 2 /\ ret[Leo] = 0 /\ next = 0
      BY <3>4, <1>1, <1>6, <1>12 DEF Results
    <3>5. CASE ~messageSend /\ left = 1 /\ ret[Leo] = 0
      <4>1. next = b /\ (b = 1 => info.err[0] = Good)
        BY <3>1, <3>5, <1>1 DEF Awaited
      <4>2. b = 1 => err[0] = Good
        BY <4>1, <1>4, <1>5
      <4>3. ASSUME err[b] = Good
            PROVE  Complete(next)'
        <5>1. Complete(b)
          BY <4>2, <4>3, <3>2, <3>5
        <5>2. Complete(next)
          BY <4>1, <5>1
        <5>3. next' = next
          BY <1>1
        <5> QED
          BY <5>2, <5>3, <3>3
      <4> QED
        BY <4>1, <4>3, <3>5, <1>1, <1>6 DEF Results
    <3>6. CASE /\ ~messageSend /\ left = 2 /\ ret[Leo] = 1 /\ next = 0
               /\ info.err[0] = Good /\ info.blockNum = 1
      <4>1. Complete(0)
        BY <3>1, <3>6 DEF FirstIsOver, Complete, C2Comes
      <4>2. err[0] = Good
        BY <3>6, <1>4, <1>5
      <4>3. err[1] = Good => Complete(1)'
        BY <4>2, <3>2, <3>3, <3>6
      <4> QED
        BY <4>1, <4>3, <3>3, <3>6, <1>1, <1>6 DEF Results
    <3> QED
      BY <3>4, <3>5, <3>6, <1>8 DEF LeoServed
  <2> QED
    BY <1>7, <1>10, <2>2, <2>3 DEF DataInv
<1> QED
  BY <1>11, <1>12

\* What the interrupt handlers leave alone, and what they have to see to.
LEMMA DataStep ==
  ASSUME IInv, DataInv, mgrPc = "event", mb = Leo,
         UNCHANGED <<ret, mgrPc, mb, messageSend, state, next, left>>,
         DataRanges', info'.mode = info.mode,
         ~messageSend => /\ info'.blockNum = info.blockNum
                         /\ info.blockNum = 1 => info'.err[0] = info.err[0],
         LeoReads => (FirstIsOver /\ InPlace /\ UpToDate /\ EndedWell)'
  PROVE  DataInv'
<1>1. LeoReads' <=> LeoReads
  BY DEF LeoReads
<1>2. NothingYet' /\ Results'
  BY Parties DEF NothingYet, Results
<1>3. LeoReads => InTransfer'
  BY DEF InTransfer
<1>4. LeoReads => Awaited'
  <2>1. next \in {0, 1}
    BY BlocksOf
  <2> QED
    BY <2>1 DEF DataInv, Awaited
<1> QED
  BY <1>1, <1>2, <1>3, <1>4 DEF DataInv

LEMMA DataDmaDone ==
  ASSUME IInv, DataInv, DmaDone
  PROVE  DataInv'
<1>1. /\ dma # NoDma /\ dma' = NoDma
      /\ got' = IF dma.what = "sector" THEN [got EXCEPT ![dma.block] = @ + 1] ELSE got
      /\ gotC2' = IF dma.what = "c2" THEN [gotC2 EXCEPT ![dma.block] = TRUE] ELSE gotC2
      /\ UNCHANGED <<ret, mgrPc, mb, messageSend, state, next, left, cartOn, info, beat>>
  BY DEF DmaDone, queues, manager, clients, masks
<1>2. dma \in Dmas /\ dma.block \in Blocks /\ mgrPc = "event" /\ mb # Idle
  BY <1>1 DEF IInv, Ranges, Dmas, Bus, Rest
<1>3. got \in [Blocks -> Nat] /\ gotC2 \in [Blocks -> BOOLEAN]
  BY DEF DataInv, DataRanges
<1>4. DataRanges'
  <2>1. got' \in [Blocks -> Nat]
    BY <1>1, <1>2, <1>3
  <2>2. gotC2' \in [Blocks -> BOOLEAN]
    BY <1>1, <1>2, <1>3
  <2> QED
    BY <2>1, <2>2 DEF DataRanges
<1>5. CASE mb # Leo
  <2>1. state'[Leo] # "wait"
    BY <1>1, <1>2, <1>5, Elsewhere
  <2> QED
    BY <2>1, <1>4 DEF DataInv, LeoReads
<1>6. CASE mb = Leo
  <2>1. ASSUME LeoReads
        PROVE  (FirstIsOver /\ InPlace /\ UpToDate /\ EndedWell)'
    <3>1. FirstIsOver /\ InPlace /\ UpToDate /\ EndedWell
      BY <2>1, <1>2, <1>6 DEF DataInv, InTransfer
    <3>2. /\ info.blockNum \in {0, 1} /\ 0 \in Blocks /\ 1 \in Blocks
          /\ dma.block \in {0, 1}
      BY <1>2, BlocksOf DEF Blocks
    <3>3. /\ \A k \in Blocks : gotC2'[k] <=> C2Comes(k)
          /\ \A k \in Blocks : C2Comes(k)' <=> C2Comes(k)
      BY <1>1, <1>2, <1>3 DEF C2Comes, NoDma
    <3>4. dma.what = "sector" =>
            /\ dma.block = info.blockNum /\ beat # Off
            /\ got'[info.blockNum] = got[info.blockNum] + 1
            /\ \A k \in Blocks : k # info.blockNum => got'[k] = got[k]
      BY <3>1, <3>2, <1>1, <1>3 DEF InPlace
    <3>5. dma.what # "sector" => got' = got
      BY <1>1
    <3>6. FirstIsOver'
      <4>1. info.blockNum = 1 => got'[0] = got[0]
        BY <3>2, <3>4, <3>5
      <4>2. gotC2[0] => gotC2'[0]
        BY <3>2, <3>3 DEF C2Comes
      <4> QED
        BY <3>1, <3>2, <3>3, <4>1, <4>2, <1>1 DEF FirstIsOver
    <3>7. InPlace'
      <4>1. info.blockNum = 0 => got'[1] = got[1]
        BY <3>2, <3>4, <3>5
      <4>2. info.blockNum = 0 => ~gotC2'[1]
        BY <3>1, <3>2, <3>3 DEF InPlace, C2Comes
      <4> QED
        BY <3>1, <4>1, <4>2, <1>1 DEF InPlace, NoDma
    <3>8. UpToDate'
      <4>1. OnItsWay' = 0 /\ got[info.blockNum] \in Nat /\ Reached' = Reached
        BY <3>2, <1>1, <1>3 DEF OnItsWay, NoDma, Reached
      <4>2. got'[info.blockNum] = got[info.blockNum] + OnItsWay
        BY <3>4, <3>5, <4>1 DEF OnItsWay
      <4> QED
        BY <3>1, <4>1, <4>2, <1>1 DEF UpToDate
    <3>9. EndedWell'
      <4>1. beat = Off => got' = got
        BY <3>4, <3>5
      <4> QED
        BY <3>1, <3>2, <3>3, <4>1, <1>1 DEF EndedWell, Complete, Total
    <3> QED
      BY <3>6, <3>7, <3>8, <3>9
  <2> QED
    BY <2>1, <1>1, <1>2, <1>4, <1>6, DataStep
<1> QED
  BY <1>5, <1>6

LEMMA DataDriveMeetsDma ==
  ASSUME IInv, DataInv, DriveMeetsDma
  PROVE  DataInv'
<1>1. /\ beat # Off \/ state[Leo] = "seek"
      /\ cartOn /\ dma # NoDma /\ MgrWaits /\ cartOn' = FALSE
      /\ info' = [info EXCEPT !.err[blk] = 29]
      /\ UNCHANGED <<ret, mgrPc, mb, messageSend, state, next, left, dma, beat, got, gotC2>>
  BY DEF DriveMeetsDma, manager, clients, pi
<1>2. beat # Off
  BY <1>1, SeekRests DEF Rest
<1>3. mgrPc = "event" /\ mb = Leo
  BY <1>1, <1>2, DriveTransfers
<1>4. /\ info \in Infos /\ info.blockNum \in {0, 1} /\ blk = info.blockNum
      /\ info.err \in [Blocks -> Errors] /\ 0 \in Blocks /\ 1 \in Blocks /\ blk \in Blocks
  BY BlocksOf
<1>5. /\ info'.type = info.type /\ info'.mode = info.mode
      /\ info'.blockNum = info.blockNum /\ info'.sectorNum = info.sectorNum
      /\ info'.err = [info.err EXCEPT ![blk] = 29]
  BY <1>1, <1>4 DEF Infos
<1>6. info.blockNum = 1 => info'.err[0] = info.err[0]
  BY <1>4, <1>5
<1>7. DataRanges'
  BY <1>1 DEF DataInv, DataRanges
<1>8. ASSUME LeoReads
      PROVE  (FirstIsOver /\ InPlace /\ UpToDate /\ EndedWell)'
  <2>1. FirstIsOver /\ InPlace
    BY <1>3, <1>8 DEF DataInv, InTransfer
  <2>2. FirstIsOver'
    BY <2>1, <1>1, <1>5, <1>6 DEF FirstIsOver, C2Comes
  <2>3. InPlace'
    BY <2>1, <1>1, <1>5 DEF InPlace
  <2>4. UpToDate' /\ EndedWell'
    BY <1>1, <1>2 DEF UpToDate, EndedWell
  <2> QED
    BY <2>2, <2>3, <2>4
<1> QED
  BY <1>1, <1>3, <1>5, <1>6, <1>7, <1>8, DataStep

\* The transfer ends with the error e of block k; if it ends well, a write is over.
LEMMA DataStop ==
  ASSUME IInv, DataInv, beat # Off, MgrWaits, dma = NoDma,
         NEW k \in Blocks, NEW e \in Errors,
         k = blk \/ (SecondBegins /\ k = 0 /\ e # Good),
         e = Good => info.mode = "sector" \/ (info.type = "write" /\ got[0] = Total),
         info'.type = info.type, info'.mode = info.mode,
         info'.blockNum = info.blockNum,
         info'.err = [info.err EXCEPT ![k] = e], beat' = Off,
         UNCHANGED <<ret, mgrPc, mb, messageSend, state, next, left, dma, got, gotC2>>
  PROVE  DataInv'
<1>1. mgrPc = "event" /\ mb = Leo /\ Transferring
  BY DriveTransfers
<1>2. /\ info.blockNum \in {0, 1} /\ blk = info.blockNum
      /\ info.err \in [Blocks -> Errors] /\ 0 \in Blocks /\ 1 \in Blocks
  BY BlocksOf
<1>3. /\ info'.err[k] = e
      /\ \A b \in Blocks : b # k => info'.err[b] = info.err[b]
  BY <1>2
<1>4. SecondBegins => messageSend /\ blk = 1
  BY <1>1 DEF Transferring, SecondBegins
<1>5. DataRanges'
  BY DEF DataInv, DataRanges
<1>6. ~messageSend => (info.blockNum = 1 => info'.err[0] = info.err[0])
  BY <1>2, <1>3, <1>4
<1>7. ASSUME LeoReads
      PROVE  (FirstIsOver /\ InPlace /\ UpToDate /\ EndedWell)'
  <2>1. FirstIsOver /\ InPlace
    BY <1>1, <1>7 DEF DataInv, InTransfer
  <2>2. FirstIsOver'
    <3>1. info.blockNum = 1 => (info'.err[0] = Good => info.err[0] = Good)
      BY <1>2, <1>3, <1>4
    <3> QED
      BY <2>1, <3>1 DEF FirstIsOver, C2Comes
  <2>3. InPlace'
    BY <2>1 DEF InPlace, NoDma
  <2>4. UpToDate'
    BY DEF UpToDate
  <2>5. EndedWell'
    <3>1. CASE k = blk
      <4>1. CASE e # Good
        BY <3>1, <4>1, <1>2, <1>3 DEF EndedWell
      <4>2. CASE e = Good
        <5>1. info.type = "write" /\ got[0] = Total
          BY <4>2, <1>7 DEF LeoReads
        <5>2. Complete(info.blockNum)'
          BY <5>1 DEF Complete, Total
        <5> QED
          BY <5>2 DEF EndedWell
      <4> QED
        BY <4>1, <4>2
    <3>2. CASE SecondBegins /\ k = 0 /\ e # Good
      BY <3>2, <1>2, <1>3, <1>4 DEF EndedWell
    <3> QED
      BY <3>1, <3>2
  <2> QED
    BY <2>2, <2>3, <2>4, <2>5
<1> QED
  BY <1>1, <1>5, <1>6, <1>7, DataStep

LEMMA DataStopped ==
  ASSUME IInv, DataInv, beat # Off, dma = NoDma, MgrWaits, NEW e \in Errors, Stop(e),
         e = Good => info.mode = "sector" \/ (info.type = "write" /\ got[0] = Total),
         UNCHANGED <<unmoved, dma>>
  PROVE  DataInv'
<1>1. /\ info' = [info EXCEPT !.err[blk] = e] /\ beat' = Off
      /\ UNCHANGED <<ret, mgrPc, mb, messageSend, state, next, left, dma, got, gotC2>>
  BY DEF Stop, unmoved, manager, clients
<1>2. info \in Infos /\ blk \in Blocks
  BY BlocksOf
<1>3. /\ info'.type = info.type /\ info'.mode = info.mode
      /\ info'.blockNum = info.blockNum
      /\ info'.err = [info.err EXCEPT ![blk] = e]
  BY <1>1, <1>2 DEF Infos
<1> QED
  BY <1>1, <1>2, <1>3, DataStop

\* What an interrupt finds in memory.
LEMMA AsksFindsData ==
  ASSUME IInv, DataInv, "first" \notin Faults, NEW kind, Asks(kind), info.mode # "sector"
  PROVE  /\ LeoReads /\ FirstIsOver /\ InPlace
         /\ got[info.blockNum] = Reached
         /\ info.blockNum = 1 => gotC2[0]
<1>1. /\ beat # Off /\ dma = NoDma /\ mgrPc = "event" /\ mb = Leo /\ Transferring
  BY AsksFinds
<1>2. state[Leo] = "wait"
  BY <1>1, Parties DEF IInv, LeoStage, LeoRests, LeoPosted, LeoServed, LeoTold
<1>3. LeoReads /\ FirstIsOver /\ InPlace /\ UpToDate
  BY <1>1, <1>2 DEF LeoReads, DataInv, InTransfer
<1>4. got[info.blockNum] \in Nat /\ OnItsWay = 0
  BY <1>1, BlocksOf DEF DataInv, DataRanges, OnItsWay, NoDma
<1>5. got[info.blockNum] = Reached
  BY <1>1, <1>3, <1>4 DEF UpToDate, Transferring
<1>6. info.blockNum = 1 => gotC2[0]
  BY <1>1, <1>3 DEF FirstIsOver, C2Comes, NoDma
<1> QED
  BY <1>3, <1>5, <1>6

LEMMA DataEnds ==
  ASSUME IInv, DataInv, "first" \notin Faults,
         BufferError \/ WriteEnd \/ ReadSystemEnd \/ ReadTooManyC1
  PROVE  DataInv'
<1>1. /\ Good \in Errors /\ 23 \in Errors /\ 24 \in Errors /\ Pending \in Errors
      /\ Good # 23 /\ Good # 24 /\ Good # Pending
  BY DEF Errors, Good, Pending
<1>2. CASE BufferError
  BY <1>1, <1>2, DataStopped DEF BufferError
<1>3. CASE WriteEnd
  <2>1. PICK kind \in {"none", "c2"} : Asks(kind)
    BY <1>3 DEF WriteEnd
  <2>2. beat # Off /\ dma = NoDma /\ MgrWaits
    BY <2>1, AsksFinds
  <2>3. info.type = "write" /\ Stop(IF info.sectorNum + 1 = Total THEN Good ELSE 24)
    BY <1>3 DEF WriteEnd, Total
  <2>4. CASE info.sectorNum + 1 = Total
    <3>1. info.mode # "sector" => got[0] = Total
      <4>1. info.mode # "sector" => FirstIsOver /\ got[info.blockNum] = Reached
        BY <2>1, AsksFindsData
      <4>2. info.mode # "sector" => info.blockNum = 0
        BY <2>3, <4>1, BlocksOf DEF FirstIsOver
      <4> QED
        BY <2>3, <2>4, <4>1, <4>2 DEF Reached
    <3>2. Stop(Good)
      BY <2>3, <2>4
    <3> QED
      BY <2>2, <2>3, <3>1, <3>2, <1>1, <1>3, DataStopped DEF WriteEnd
  <2>5. CASE info.sectorNum + 1 # Total
    <3>1. Stop(24)
      BY <2>3, <2>5
    <3> QED
      BY <2>2, <3>1, <1>1, <1>3, DataStopped DEF WriteEnd
  <2> QED
    BY <2>4, <2>5
<1>4. CASE ReadSystemEnd
  <2>1. PICK kind \in Kinds : Asks(kind) /\ (Stop(Good) \/ Stop(23))
    BY <1>4 DEF ReadSystemEnd
  <2>2. PICK e \in {Good, 23} : Stop(e)
    BY <2>1
  <2>3. beat # Off /\ dma = NoDma /\ MgrWaits
    BY <2>1, AsksFinds
  <2> QED
    BY <2>2, <2>3, <1>1, <1>4, DataStopped DEF ReadSystemEnd
<1>5. CASE ReadTooManyC1
  <2>1. PICK kind \in Kinds : Asks(kind)
    BY <1>5 DEF ReadTooManyC1
  <2>2. beat # Off /\ dma = NoDma /\ MgrWaits
    BY <2>1, AsksFinds
  <2> QED
    BY <2>2, <1>1, <1>5, DataStopped DEF ReadTooManyC1
<1> QED
  BY <1>2, <1>3, <1>4, <1>5

LEMMA DataReadStops ==
  ASSUME IInv, DataInv, "first" \notin Faults, NEW bad \in BOOLEAN,
         ReadC2Early(bad) \/ \E kind \in Kinds : ReadFirstBad(kind, bad)
  PROVE  DataInv'
<1>1. /\ info \in Infos /\ blk \in Blocks /\ blk = info.blockNum /\ 0 \in Blocks
      /\ Counted(bad) \in Infos /\ Counted(bad).err = info.err
      /\ Counted(bad).type = info.type /\ Counted(bad).mode = info.mode
      /\ Counted(bad).blockNum = info.blockNum
  BY CountedIs, BlocksOf
<1>2. 23 \in Errors /\ 24 \in Errors /\ Good # 23 /\ Good # 24
  BY DEF Errors, Good
<1>3. PICK kind : Asks(kind)
  BY DEF ReadC2Early, ReadFirstBad, Readable
<1>4. beat # Off /\ dma = NoDma /\ MgrWaits
  BY <1>3 DEF Asks
<1>5. PICK k \in Blocks, e \in {23, 24} :
        /\ k = blk \/ (SecondBegins /\ k = 0)
        /\ info' = [Counted(bad) EXCEPT !.err[k] = e]
  BY <1>1 DEF ReadC2Early, ReadFirstBad
<1>6. /\ info'.type = info.type /\ info'.mode = info.mode
      /\ info'.blockNum = info.blockNum
      /\ info'.err = [info.err EXCEPT ![k] = e]
  BY <1>1, <1>2, <1>5 DEF Infos
<1>7. /\ beat' = Off
      /\ UNCHANGED <<ret, mgrPc, mb, messageSend, state, next, left, dma, got, gotC2>>
  BY DEF ReadC2Early, ReadFirstBad, unmoved, manager, clients
<1>8. e \in Errors /\ e # Good
  BY <1>2
<1> QED
  BY <1>4, <1>5, <1>6, <1>7, <1>8, DataStop

LEMMA DataWriteSector ==
  ASSUME IInv, DataInv, "first" \notin Faults, WriteSector
  PROVE  DataInv'
<1>1. /\ info.type = "write" /\ Asks("data")
      /\ info' = [info EXCEPT !.sectorNum = @ + 1]
      /\ dma' = SectorDma /\ beat' = beat + 1
      /\ UNCHANGED <<ret, mgrPc, mb, messageSend, state, next, left, cartOn, got, gotC2>>
  BY DEF WriteSector, unmoved, manager, clients
<1>2. mgrPc = "event" /\ mb = Leo /\ Transferring /\ beat \in Int
  BY <1>1, AsksFinds DEF IInv, Ranges
<1>3. /\ info \in Infos /\ blk = info.blockNum /\ info.sectorNum \in Int
      /\ info.blockNum \in Blocks /\ info.blockNum \in {0, 1}
  BY BlocksOf
<1>4. /\ info'.type = "write" /\ info'.mode = info.mode /\ info'.blockNum = info.blockNum
      /\ info'.err = info.err /\ info'.sectorNum = info.sectorNum + 1
  BY <1>1, <1>3 DEF Infos
<1>5. DataRanges'
  BY <1>1 DEF DataInv, DataRanges
<1>6. dma'.what = "sector" /\ dma'.block = info.blockNum /\ beat' # Off
  BY <1>1, <1>2, <1>3 DEF SectorDma, Transferring, Off
<1>7. ASSUME LeoReads
      PROVE  (FirstIsOver /\ InPlace /\ UpToDate /\ EndedWell)'
  <2>1. FirstIsOver /\ InPlace /\ got[info.blockNum] = Reached
    BY <1>1, <1>7, AsksFindsData DEF LeoReads
  <2>2. info.blockNum = 0
    BY <2>1, <1>1, <1>3 DEF FirstIsOver
  <2>3. FirstIsOver' /\ InPlace' /\ EndedWell'
    BY <2>1, <2>2, <1>1, <1>4, <1>6 DEF FirstIsOver, InPlace, EndedWell
  <2>4. UpToDate'
    <3>1. Reached = info.sectorNum + 1 /\ Reached' = info.sectorNum + 2
      BY <1>1, <1>3, <1>4 DEF Reached
    <3>2. OnItsWay' = 1
      BY <1>6 DEF OnItsWay
    <3> QED
      BY <2>1, <3>1, <3>2, <1>1, <1>3, <1>4 DEF UpToDate
  <2> QED
    BY <2>3, <2>4
<1> QED
  BY <1>1, <1>2, <1>4, <1>5, <1>7, DataStep

LEMMA DataReadC2 ==
  ASSUME IInv, DataInv, "first" \notin Faults, NEW bad \in BOOLEAN, ReadC2(bad)
  PROVE  DataInv'
<1>1. /\ info.type = "read" /\ Asks("c2") /\ info.mode # "sector" /\ C2InPlace
      /\ dma' = [what |-> "c2", for |-> Leo, block |-> blk]
      /\ UNCHANGED <<ret, mgrPc, mb, messageSend, state, next, left, cartOn, got, gotC2>>
  BY DEF ReadC2, Readable, unmoved, manager, clients
<1>2. mgrPc = "event" /\ mb = Leo /\ evtQ = 0 /\ Transferring /\ dma = NoDma
  BY <1>1, AsksFinds
<1>3. /\ info \in Infos /\ blk \in {0, 1} /\ blk = info.blockNum
      /\ 0 \in Blocks /\ 1 \in Blocks /\ blk \in Blocks
      /\ info.sectorNum \in Int /\ Sectors \in Nat \ {0}
      /\ info.err \in [Blocks -> Errors]
  BY BlocksOf
<1>4. ~SecondBegins
  BY <1>1, <1>3 DEF SecondBegins, C2InPlace, Gap
<1>5. /\ Counted(bad) \in Infos /\ Counted(bad).type = "read"
      /\ Counted(bad).mode = info.mode /\ Counted(bad).err = info.err
      /\ Counted(bad).blockNum = blk /\ Counted(bad).sectorNum = info.sectorNum
  BY <1>1, <1>3, CountedIs
<1>6. DataRanges'
  BY <1>1 DEF DataInv, DataRanges
<1>7. dma'.what = "c2" /\ dma'.block = blk
  BY <1>1
<1>8. /\ LeoReads /\ FirstIsOver /\ InPlace /\ got[blk] = Sectors
      /\ blk = 1 => gotC2[0]
  <2>1. /\ LeoReads /\ FirstIsOver /\ InPlace /\ got[blk] = Reached
        /\ blk = 1 => gotC2[0]
    BY <1>1, <1>3, AsksFindsData
  <2>2. Reached = Sectors
    BY <1>1, <1>3 DEF C2InPlace, Reached, Gap
  <2> QED
    BY <2>1, <2>2
<1>9. CASE info.mode = "track" /\ blk = 0
  <2>1. /\ info' = [Counted(bad) EXCEPT !.blockNum = 1, !.sectorNum = -1,
                                        !.err[0] = Pending]
        /\ beat' = 0
    BY <1>9 DEF ReadC2
  <2>2. /\ info'.type = "read" /\ info'.mode = info.mode
        /\ info'.blockNum = 1 /\ info'.sectorNum = -1
        /\ info'.err = [info.err EXCEPT ![0] = Pending]
    BY <2>1, <1>5 DEF Infos
  <2>3. messageSend
    BY <1>1, <1>2, <1>3, <1>9 DEF Transferring
  <2>4. info'.err[0] # Good
    BY <2>2, <1>3 DEF Pending, Good
  <2>5. FirstIsOver'
    BY <2>2, <2>4, <1>1, <1>7, <1>8, <1>9 DEF FirstIsOver, C2Comes
  <2>6. InPlace'
    BY <2>2, <1>7, <1>9 DEF InPlace
  <2>7. UpToDate'
    <3>1. got[1] = 0
      BY <1>3, <1>8, <1>9 DEF InPlace
    <3>2. OnItsWay' = 0 /\ Reached' = 0
      <4>1. info'.sectorNum + 1 = 0 /\ info'.sectorNum < Sectors
        BY <2>2, <1>3
      <4> QED
        BY <4>1, <2>2, <1>7 DEF OnItsWay, Reached
    <3> QED
      BY <2>2, <3>1, <3>2, <1>1 DEF UpToDate
  <2>8. EndedWell'
    BY <2>1 DEF EndedWell, Off
  <2> QED
    BY <2>2, <2>3, <2>5, <2>6, <2>7, <2>8, <1>1, <1>2, <1>6, DataStep
<1>10. CASE ~(info.mode = "track" /\ blk = 0)
  <2>1. /\ info' = [Counted(bad) EXCEPT !.type = "none", !.err[blk] = Good]
        /\ beat' = Off
    BY <1>10 DEF ReadC2
  <2>2. /\ info'.type = "none" /\ info'.mode = info.mode /\ info'.blockNum = blk
        /\ info'.err = [info.err EXCEPT ![blk] = Good]
    BY <2>1, <1>3, <1>5 DEF Infos
  <2>3. blk = 1 => info'.err[0] = info.err[0]
    BY <2>2, <1>3
  <2>4. FirstIsOver'
    BY <2>2, <1>1, <1>3, <1>7, <1>8 DEF FirstIsOver, C2Comes
  <2>5. InPlace'
    BY <2>2, <1>1, <1>3, <1>7, <1>8 DEF InPlace
  <2>6. UpToDate'
    BY <2>1 DEF UpToDate
  <2>7. EndedWell'
    BY <2>2, <1>1, <1>7, <1>8 DEF EndedWell, Complete, C2Comes
  <2> QED
    BY <2>2, <2>3, <2>4, <2>5, <2>6, <2>7, <1>1, <1>2, <1>3, <1>6, DataStep
<1> QED
  BY <1>9, <1>10

LEMMA DataReadSector ==
  ASSUME IInv, DataInv, "first" \notin Faults, NEW bad \in BOOLEAN, NEW kind \in Kinds,
         ReadSector(kind, bad)
  PROVE  DataInv'
<1> DEFINE n     == info.sectorNum + 1
           first == IF SecondBegins THEN [Counted(bad) EXCEPT !.err[0] = Good]
                    ELSE Counted(bad)
           wrong == IF kind = "data" THEN n > Sectors - 1 ELSE n <= Sectors - 1
           noted == IF wrong THEN 24 ELSE IF kind = "data" THEN Good ELSE first.err[blk]
<1>1. /\ info.type = "read" /\ Asks(kind)
      /\ info' = [first EXCEPT !.sectorNum = n, !.err[blk] = noted]
      /\ dma' = IF kind = "data" /\ ~wrong THEN SectorDma ELSE dma
      /\ wrong => beat' = Off
      /\ ~wrong => beat' = beat + 1
      /\ UNCHANGED <<ret, mgrPc, mb, messageSend, state, next, left, cartOn, got, gotC2>>
  BY DEF ReadSector, Readable, unmoved, manager, clients
<1>2. /\ beat # Off /\ dma = NoDma /\ MgrWaits /\ beat \in Int
      /\ mgrPc = "event" /\ mb = Leo /\ Transferring
      /\ SecondBegins => kind = "data" /\ messageSend /\ blk = 1 /\ info.sectorNum = -1
  BY <1>1, AsksFinds DEF IInv, Ranges
<1>3. /\ info \in Infos /\ blk \in {0, 1} /\ blk = info.blockNum
      /\ 0 \in Blocks /\ 1 \in Blocks /\ blk \in Blocks /\ n \in Int
      /\ info.sectorNum \in Int /\ Sectors \in Nat \ {0}
  BY BlocksOf
<1>4. SecondBegins => ~wrong
  BY <1>2, <1>3
<1>5. Good \in Errors /\ 24 \in Errors /\ Good # 24
  BY DEF Errors, Good
<1>6. /\ first \in Infos /\ first.type = "read" /\ first.mode = info.mode
      /\ first.blockNum = blk /\ first.sectorNum = info.sectorNum
      /\ first.err = IF SecondBegins THEN [info.err EXCEPT ![0] = Good] ELSE info.err
  <2>1. /\ Counted(bad) \in Infos /\ Counted(bad).err = info.err
        /\ Counted(bad).type = "read" /\ Counted(bad).mode = info.mode
        /\ Counted(bad).blockNum = blk /\ Counted(bad).sectorNum = info.sectorNum
    BY <1>1, <1>3, CountedIs
  <2> QED
    BY <2>1, <1>3, <1>5 DEF Infos
<1> HIDE DEF first
<1>7. noted \in Errors
  BY <1>3, <1>5, <1>6 DEF Infos
<1> HIDE DEF noted
<1>8. /\ info'.type = "read" /\ info'.mode = info.mode
      /\ info'.blockNum = blk /\ info'.sectorNum = n
      /\ info'.err = [first.err EXCEPT ![blk] = noted]
  BY <1>1, <1>3, <1>6, <1>7 DEF Infos
<1>9. DataRanges'
  BY <1>1 DEF DataInv, DataRanges
<1>10. CASE wrong
  <2>1. noted = 24 /\ ~SecondBegins /\ first.err = info.err /\ dma' = dma /\ beat' = Off
    BY <1>1, <1>4, <1>6, <1>10 DEF noted
  <2>2. info'.err = [info.err EXCEPT ![blk] = 24]
    BY <2>1, <1>8
  <2>3. info'.type = info.type /\ info'.blockNum = info.blockNum
    BY <1>1, <1>3, <1>8
  <2> QED
    BY <2>1, <2>2, <2>3, <1>1, <1>2, <1>3, <1>5, <1>8, DataStop
<1>11. CASE ~wrong
  <2>1. beat' = beat + 1 /\ beat' # Off
    BY <1>1, <1>2, <1>11 DEF Transferring, Off
  <2>2. ~messageSend => (info.blockNum = 1 => info'.err[0] = info.err[0])
    BY <1>2, <1>3, <1>6, <1>8 DEF Infos
  <2>3. ASSUME LeoReads
        PROVE  (FirstIsOver /\ InPlace /\ UpToDate /\ EndedWell)'
    <3>1. /\ FirstIsOver /\ InPlace /\ got[blk] = Reached
          /\ blk = 1 => gotC2[0]
      BY <2>3, <1>1, <1>3, AsksFindsData DEF LeoReads
    <3>2. FirstIsOver'
      BY <3>1, <1>1, <1>3, <1>8 DEF FirstIsOver, C2Comes
    <3>3. CASE kind = "data"
      <4>1. dma'.what = "sector" /\ dma'.block = blk
        BY <3>3, <1>1, <1>11 DEF SectorDma
      <4>2. InPlace'
        BY <2>1, <3>1, <4>1, <1>1, <1>3, <1>8 DEF InPlace
      <4>3. Reached = n /\ Reached' = n + 1 /\ OnItsWay' = 1
        <5>1. n <= Sectors - 1
          BY <3>3, <1>3, <1>11
        <5>2. info'.sectorNum = n
          BY <1>8
        <5>3. Reached' = n + 1
          BY <5>1, <5>2, <1>3 DEF Reached
        <5>4. Reached = n
          BY <5>1, <1>3 DEF Reached
        <5> QED
          BY <4>1, <5>3, <5>4 DEF OnItsWay
      <4>4. UpToDate'
        BY <3>1, <4>3, <1>1, <1>3, <1>8 DEF UpToDate
      <4> QED
        BY <2>1, <3>2, <4>2, <4>4 DEF EndedWell
    <3>4. CASE kind # "data"
      <4>1. dma' = NoDma
        BY <3>4, <1>1, <1>2
      <4>2. InPlace'
        BY <2>1, <3>1, <4>1, <1>1, <1>3, <1>8 DEF InPlace, NoDma
      <4>3. Reached = Sectors /\ Reached' = Sectors /\ OnItsWay' = 0
        <5>1. n >= Sectors
          BY <3>4, <1>3, <1>11
        <5>2. info'.sectorNum = n /\ info'.type = "read"
          BY <1>8
        <5>3. Reached' = Sectors
          BY <5>1, <5>2, <1>3 DEF Reached
        <5>4. Reached = Sectors
          BY <5>1, <1>1, <1>3 DEF Reached
        <5> QED
          BY <4>1, <5>3, <5>4 DEF OnItsWay, NoDma
      <4>4. UpToDate'
        BY <3>1, <4>3, <1>1, <1>3, <1>8 DEF UpToDate
      <4> QED
        BY <2>1, <3>2, <4>2, <4>4 DEF EndedWell
    <3> QED
      BY <3>3, <3>4
  <2> QED
    BY <2>2, <2>3, <1>1, <1>2, <1>3, <1>8, <1>9, DataStep
<1> QED
  BY <1>10, <1>11

LEMMA DataNext ==
  ASSUME IInv, DataInv, "first" \notin Faults, [Next]_vars
  PROVE  DataInv'
<1>1. CASE Manager
  BY <1>1, DataMgrCommand, DataMgrAccess, DataMgrEndCopy, DataMgrEndBlock DEF Manager
<1>2. CASE Clients \/ UNCHANGED vars
  BY <1>2, DataClients, DataLeoTransfer, DataLeoReturn DEF Clients
<1>3. CASE Hardware
  <2>1. CASE Transfer
    <3>1. CASE WriteSector
      BY <3>1, DataWriteSector
    <3>2. CASE WriteEnd \/ ReadSystemEnd \/ ReadTooManyC1
      BY <3>2, DataEnds
    <3>3. ASSUME NEW bad \in BOOLEAN, ReadC2(bad)
          PROVE  DataInv'
      BY <3>3, DataReadC2
    <3>4. ASSUME NEW bad \in BOOLEAN,
                 ReadC2Early(bad) \/ \E kind \in Kinds : ReadFirstBad(kind, bad)
          PROVE  DataInv'
      BY <3>4, DataReadStops
    <3>5. ASSUME NEW bad \in BOOLEAN, NEW kind \in Kinds, ReadSector(kind, bad)
          PROVE  DataInv'
      BY <3>5, DataReadSector
    <3> QED
      BY <2>1, <3>1, <3>2, <3>3, <3>4, <3>5 DEF Transfer, Read
  <2> QED
    BY <1>3, <2>1, DataDmaDone, DataDriveMeetsDma, DataEnds, DataClients DEF Hardware
<1> QED
  BY <1>1, <1>2, <1>3 DEF Next

\* A block of the disk that read_write_track is told of, without an error, is
\* in memory, or has left it, whole: for any size of a block, whatever the
\* drive does but to miscount the first sector of a second block.
THEOREM ToldBlocksAreWhole ==
  ASSUME "first" \notin Faults
  PROVE  Spec => []BlocksAreWhole
<1>1. Init => DataInv
  BY DEF Init, DataInv, DataRanges, LeoReads
<1>2. IInv /\ DataInv /\ [Next]_vars => DataInv'
  BY DataNext
<1>3. IInv /\ DataInv => BlocksAreWhole
  <2> SUFFICES ASSUME IInv, DataInv, state[Leo] = "wait", ret[Leo] > 0,
                      info.err[next] = Good, info.mode # "sector"
               PROVE  \/ got[next] = Sectors /\ gotC2[next]
                      \/ info.type = "write" /\ got[0] = Total
    BY DEF BlocksAreWhole, Total
  <2>1. LeoReads
    BY DEF LeoReads
  <2>2. CASE LeoServed
    <3>1. next = 0 /\ info.err[0] = Good /\ info.blockNum = 1 /\ mb = Leo
      BY <2>2 DEF LeoServed
    <3>2. mgrPc = "event"
      BY <3>1, Parties DEF IInv, Bus, Ranges
    <3> QED
      BY <2>1, <3>1, <3>2 DEF DataInv, InTransfer, FirstIsOver
  <2>3. CASE LeoTold
    <3>1. mb = Idle /\ dma = NoDma
      BY <2>3 DEF LeoTold, IInv, Bus, Rest
    <3>2. Complete(next)
      BY <2>1, <2>3, <3>1 DEF DataInv, Results, LeoTold
    <3> QED
      BY <3>1, <3>2 DEF Complete, C2Comes, NoDma
  <2> QED
    BY <2>2, <2>3 DEF IInv, LeoStage, LeoRests, LeoPosted
<1> QED
  BY <1>1, <1>2, <1>3, Invariance, PTL DEF Spec

-----------------------------------------------------------------------------
(* Saved files: the inductive invariant.                                   *)

Dirs == [Entries -> 0..NumSlots]
Files == [name : Entries, version : Nat]
Areas == [whole : BOOLEAN, dir : Dirs]
Memories == [valid : BOOLEAN, dir : Dirs]
Calls == [kind : {"none", "save", "load", "erase"}, name : Entries, version : Nat,
          slot : 0..NumSlots, write : BOOLEAN, recover : BOOLEAN, again : BOOLEAN]
Steps == {"rest", "check", "new", "go", "full", "data", "read", "delete",
          "rename", "area", "copy", "recover", "rewrite", "off"}

FileRanges ==
  /\ drive \in Disks \cup {NoDisk} /\ attention \in BOOLEAN
  /\ area \in [Disks -> Areas] /\ copy \in [Disks -> Areas]
  /\ data \in [Disks -> [Slots -> Files]]
  /\ mem \in Memories /\ newDisk \in BOOLEAN
  /\ pc \in Steps /\ op \in Calls /\ ops \in Nat
  /\ done \in [Disks -> [Names -> Nat]] /\ erased \in [Disks -> SUBSET Names]
  /\ trust \in [Disks -> {"both", "first", "none"}]

\* An operation has a name and a version of its own; and what is erased in
\* memory counts as not saved.
Versions ==
  /\ pc \notin {"rest", "off"} => op.kind # "none"
  /\ op.kind # "none" => op.name \in Names
  /\ op.kind = "save" => op.version = ops + 1
  /\ pc \in {"data", "delete", "rename"} => op.kind = "save"
  /\ \A d \in Disks, n \in Names : done[d][n] <= ops + 1
  /\ \A d \in Disks : \A n \in erased[d] : done[d][n] = 0

\* The copy is good, and the area too if it is whole; or the area is good.
Trusted ==
  \A d \in Disks :
    /\ trust[d] = "both" => copy[d].whole /\ (area[d].whole => area[d].dir = copy[d].dir)
    /\ trust[d] = "first" => area[d].whole

\* The area in memory is taken for that of the disk in the drive.
Holds == pc # "off" /\ Ready /\ ~newDisk /\ mem.valid

\* An entry is as on the disk.
Same(n) == mem.dir[n] = area[drive].dir[n]

\* The data of a save is in its slot.
Written ==
  op.slot # NoSlot
  /\ data[drive][op.slot] = [name |-> op.name, version |-> op.version]

Saves == op.kind = "save"

InStep ==
  /\ pc # "rewrite" => area[drive].whole
  /\ pc # "rewrite" => \A n \in Names \ erased[drive] :
       n # op.name \/ ~Saves \/ pc \notin {"rename", "area"} => Same(n)
  /\ pc = "data" => op.slot # NoSlot /\ op.slot \notin Used(mem.dir)
  /\ pc \in {"data", "delete", "rename"} => heldError = "good"
  /\ pc \in {"delete", "rename"} => Written /\ mem.dir[Tmp] = op.slot
  /\ pc = "rename" => mem.dir[op.name] = NoSlot
  /\ pc \in {"area", "copy"} /\ Saves => Written /\ mem.dir[op.name] = op.slot
  /\ pc = "copy" => area[drive].dir = mem.dir /\ trust[drive] # "both"
  /\ pc = "rewrite" => mem.dir = copy[drive].dir

\* What is worked on is known to be of the disk in the drive, or the commands fail.
Known ==
  /\ pc \notin {"rest", "check", "new", "off"} => ~newDisk
  /\ pc \in {"data", "copy", "rewrite"} => mem.valid

FilesInv == FileRanges /\ Versions /\ Trusted /\ Known /\ (Holds => InStep) /\ SavedStays

-----------------------------------------------------------------------------
(* The first disks.                                                        *)

LEMMA LeastSlot ==
  ASSUME NEW S \in SUBSET Nat, S # {}
  PROVE  Min(S) \in S
<1> DEFINE R == {p \in Nat \X Nat : p[1] < p[2]}
<1>1. IsWellFoundedOn(R, Nat)
  BY NatLessThanWellFounded DEF OpToRel
<1>2. PICK x \in S : \A y \in S : ~(<<y, x>> \in R)
  BY <1>1, WFMin
<1>3. ASSUME NEW y \in S PROVE x <= y
  <2>1. ~(y < x)
    BY <1>2
  <2> QED
    BY <2>1
<1> QED
  BY <1>3 DEF Min

LEMMA HomesExist ==
  \E f \in [Stored -> 1..Cardinality(Stored)] :
    \A m, n \in Stored : f[m] = f[n] => m = n
<1>1. ExistsBijection(1..Cardinality(Stored), Stored)
  BY DisksAssumption, FS_CardinalityType
<1>2. ExistsBijection(Stored, 1..Cardinality(Stored))
  BY <1>1, Fun_ExistsBijSymmetric
<1>3. PICK f \in Bijection(Stored, 1..Cardinality(Stored)) : TRUE
  BY <1>2 DEF ExistsBijection
<1>4. f \in Injection(Stored, 1..Cardinality(Stored))
  BY <1>3, Fun_BijectionProperties
<1>5. /\ f \in [Stored -> 1..Cardinality(Stored)]
      /\ \A m, n \in Stored : f[m] = f[n] => m = n
  BY <1>4, Fun_InjectionProperties
<1> QED
  BY <1>5

LEMMA FilesInitInv == FilesInit => FilesInv
<1> SUFFICES ASSUME FilesInit PROVE FilesInv
  OBVIOUS
<1>1. PICK home \in [Stored -> 1..Cardinality(Stored)] :
        /\ \A m, n \in Stored : home[m] = home[n] => m = n
        /\ area = [d \in Disks |-> Whole([n \in Entries |->
                      IF n \in Stored THEN home[n] ELSE NoSlot])]
        /\ data = [d \in Disks |-> [s \in Slots |->
                      IF \E n \in Stored : home[n] = s
                        THEN [name |-> CHOOSE n \in Stored : home[n] = s, version |-> 1]
                        ELSE Broken]]
  <2> DEFINE h == CHOOSE f \in [Stored -> 1..Cardinality(Stored)] :
                   \A m, n \in Stored : f[m] = f[n] => m = n
  <2>1. /\ h \in [Stored -> 1..Cardinality(Stored)]
        /\ \A m, n \in Stored : h[m] = h[n] => m = n
    BY HomesExist
  <2>2. /\ area = [d \in Disks |-> Whole([n \in Entries |->
                      IF n \in Stored THEN h[n] ELSE NoSlot])]
        /\ data = [d \in Disks |-> [s \in Slots |->
                      IF \E n \in Stored : h[n] = s
                        THEN [name |-> CHOOSE n \in Stored : h[n] = s, version |-> 1]
                        ELSE Broken]]
    BY DEF FilesInit
  <2> HIDE DEF h
  <2> QED
    BY <2>1, <2>2
<1> DEFINE first == [n \in Entries |-> IF n \in Stored THEN home[n] ELSE NoSlot]
<1>2. first \in Dirs
  <2>1. Cardinality(Stored) \in Nat
    BY DisksAssumption, FS_CardinalityType
  <2>2. \A n \in Stored : home[n] \in 1..NumSlots
    BY <2>1, DisksAssumption
  <2> QED
    BY <2>2, DisksAssumption DEF Dirs, NoSlot
<1>3. area = [d \in Disks |-> [whole |-> TRUE, dir |-> first]]
  BY <1>1 DEF Whole
<1> DEFINE names == [n \in Names |-> IF n \in Stored THEN 1 ELSE 0]
<1>rest. /\ copy = area /\ drive = NoDisk /\ attention = FALSE
        /\ mem = Nothing /\ newDisk = TRUE /\ pc = "rest" /\ op = NoOp /\ ops = 0
        /\ done = [d \in Disks |-> names]
        /\ erased = [d \in Disks |-> {}] /\ trust = [d \in Disks |-> "both"]
  BY DEF FilesInit
<1>4. \A n \in Stored, d \in Disks :
        home[n] \in Slots /\ data[d][home[n]] = [name |-> n, version |-> 1]
  <2> TAKE n \in Stored, d \in Disks
  <2>1. home[n] \in Slots
    BY <1>2, DisksAssumption DEF Dirs, Slots, Entries, NoSlot
  <2>2. (CHOOSE m \in Stored : home[m] = home[n]) = n
    BY <1>1
  <2> QED
    BY <1>1, <2>1, <2>2
<1>5. data \in [Disks -> [Slots -> Files]]
  <2>1. Broken \in Files
    BY DEF Broken, Files, Entries
  <2>2. \A s \in Slots : (\E n \in Stored : home[n] = s) =>
          (CHOOSE n \in Stored : home[n] = s) \in Entries
    BY DisksAssumption DEF Entries
  <2> QED
    BY <1>1, <2>1, <2>2 DEF Files
<1>first. \A n \in Entries : first[n] = IF n \in Stored THEN home[n] ELSE NoSlot
  OBVIOUS
<1> HIDE DEF first
<1>6. area \in [Disks -> Areas]
  BY <1>2, <1>3 DEF Areas
<1>7. FileRanges
  <2>1. NoFiles \in Dirs /\ Tmp \in Entries
    BY DisksAssumption DEF NoFiles, Dirs, NoSlot, Entries
  <2>2. done \in [Disks -> [Names -> Nat]] /\ erased \in [Disks -> SUBSET Names]
    BY <1>rest
  <2>3. op \in Calls
    BY <1>rest, <2>1, DisksAssumption DEF NoOp, NoSlot, Calls
  <2> QED
    BY <1>5, <1>6, <1>rest, <2>1, <2>2, <2>3 DEF FileRanges, Steps, Nothing, Memories
<1>8. Versions
  BY <1>rest DEF Versions, NoOp
<1>9. Trusted /\ Known
  BY <1>3, <1>rest DEF Trusted, Known
<1>10. ~Holds
  BY <1>rest DEF Holds, Nothing
<1>11. SavedStays
  <2> SUFFICES ASSUME NEW d \in Disks, NEW n \in Names
               PROVE  IF area[d].dir[n] = NoSlot THEN done[d][n] = 0
                      ELSE LET c == data[d][area[d].dir[n]]
                           IN  c.name = n /\ c.version >= done[d][n]
    BY <1>3, <1>rest DEF SavedStays
  <2>1. done[d][n] = IF n \in Stored THEN 1 ELSE 0
    BY <1>rest
  <2>2. area[d].dir[n] = IF n \in Stored THEN home[n] ELSE NoSlot
    BY <1>3, <1>first DEF Entries
  <2>3. CASE n \in Stored
    <3>1. home[n] # NoSlot
      BY <1>4, <2>3, DisksAssumption DEF Slots, NoSlot
    <3>2. data[d][home[n]] = [name |-> n, version |-> 1]
      BY <1>4, <2>3
    <3>3. area[d].dir[n] # NoSlot /\ done[d][n] = 1
      BY <2>1, <2>2, <2>3, <3>1
    <3>4. /\ data[d][area[d].dir[n]].name = n
          /\ data[d][area[d].dir[n]].version = 1
      BY <2>2, <2>3, <3>2
    <3>5. 1 >= 1
      OBVIOUS
    <3> QED
      BY <3>3, <3>4, <3>5
  <2>4. CASE n \notin Stored
    BY <2>1, <2>2, <2>4 DEF NoSlot
  <2> QED
    BY <2>3, <2>4
<1> QED
  BY <1>7, <1>8, <1>9, <1>10, <1>11 DEF FilesInv

-----------------------------------------------------------------------------
(* Steps that change nothing on a disk.                                    *)

LEMMA DisksAlone ==
  ASSUME FilesInv, UNCHANGED <<diskVars, history>>
  PROVE  Trusted' /\ SavedStays'
BY DEF FilesInv, Trusted, SavedStays, diskVars, history

LEMMA NoOpIsOne == NoOp \in Calls
BY DisksAssumption DEF NoOp, Calls, NoSlot, Entries

Quiet == {"rest", "check", "new", "go", "full", "read", "recover", "off"}

AsRead ==
  area[drive].whole /\ \A n \in Names \ erased[drive] : Same(n)

LEMMA QuietStep ==
  /\ pc \in Quiet => (InStep <=> AsRead)
  /\ pc' \in Quiet => (InStep' <=> AsRead')
BY DEF Quiet, InStep, AsRead

\* A step between the commands that leaves the area in memory alone, or forgets it.
LEMMA StaysInStep ==
  ASSUME FilesInv, UNCHANGED <<drive, diskVars, history>>,
         pc \in Quiet, pc' \in Quiet, Holds' => Holds /\ mem' = mem
  PROVE  Holds' => InStep'
<1> SUFFICES ASSUME Holds' PROVE AsRead'
  BY QuietStep
<1>1. AsRead /\ mem' = mem
  BY QuietStep DEF FilesInv
<1> QED
  BY <1>1 DEF AsRead, Same, diskVars, history

\* The area that a function of the file system has, once it has one.
LEMMA AreaRead ==
  ASSUME FilesInv, AreaGood, pc = "go"
  PROVE  /\ drive \in Disks /\ area[drive].whole /\ TheArea \in Dirs
         /\ \A n \in Names \ erased[drive] : TheArea[n] = area[drive].dir[n]
<1>1. drive \in Disks
  BY DEF AreaGood, AreaInMemory, AreaReadable, Ready, FilesInv, FileRanges
<1>2. area[drive] \in Areas /\ mem \in Memories
  BY <1>1 DEF FilesInv, FileRanges
<1>3. CASE ~mem.valid
  BY <1>1, <1>2, <1>3 DEF AreaGood, AreaInMemory, AreaReadable, TheArea, Areas
<1>4. CASE mem.valid
  <2>1. Holds
    BY <1>4 DEF AreaGood, AreaInMemory, AreaReadable, Holds, FilesInv, Known
  <2>2. AsRead
    BY <2>1, QuietStep DEF FilesInv, Quiet
  <2> QED
    BY <1>1, <1>2, <1>4, <2>2 DEF AsRead, Same, TheArea, Memories
<1> QED
  BY <1>3, <1>4

LEMMA NewCall ==
  ASSUME NEW n \in Names, NEW v \in Nat, NEW w \in BOOLEAN,
         NEW k \in {"save", "load", "erase"}
  PROVE  [NoOp EXCEPT !.kind = k, !.name = n, !.version = v, !.write = w] \in Calls
<1>1. n \in Entries /\ NoSlot \in 0..NumSlots
  BY DisksAssumption DEF Entries, NoSlot
<1> QED
  BY <1>1 DEF NoOp, Calls

LEMMA BeginKeeps ==
  ASSUME FilesInv, NEW n \in Names, NEW w \in BOOLEAN, NEW k \in {"save", "load", "erase"},
         Begin(k, n, w)
  PROVE  FilesInv'
<1> USE DEF Begin, FilesInv, deviceVars, diskVars, memVars, history
<1>1. mem' \in Memories /\ op' \in Calls
  <2>1. ops + 2 \in Nat
    BY DEF FileRanges
  <2>2. op' \in Calls
    BY <2>1, NewCall
  <2> QED
    BY <2>2 DEF FileRanges
<1>2. FileRanges'
  BY <1>1, DisksAssumption DEF FileRanges, Steps
<1>3. Versions'
  BY NoOpIsOne, DisksAssumption DEF FileRanges, Versions, Calls, NoOp
<1>4. Known'
  BY DEF Known
<1>5. Holds' => InStep'
  <2>1. pc \in Quiet /\ pc' \in Quiet
    BY DEF Quiet
  <2>2. Holds' => Holds /\ mem' = mem
    BY DEF Holds, Ready, Memories, FileRanges
  <2> QED
    BY <2>1, <2>2, StaysInStep
<1>6. Trusted' /\ SavedStays'
  BY DisksAlone
<1> QED
  BY <1>2, <1>3, <1>4, <1>5, <1>6

LEMMA CheckDiskKeeps ==
  ASSUME FilesInv, CheckDisk
  PROVE  FilesInv'
<1> USE DEF CheckDisk, FilesInv, deviceVars, diskVars, memVars, history
<1>1. mem' \in Memories /\ op' \in Calls
  BY NoOpIsOne, DisksAssumption DEF FileRanges, Memories, Calls
<1>2. FileRanges'
  BY <1>1, DisksAssumption DEF FileRanges, Steps
<1>3. Versions'
  BY NoOpIsOne, DisksAssumption DEF FileRanges, Versions, Calls, NoOp
<1>4. Known'
  BY DEF Known
<1>5. Holds' => InStep'
  <2>1. pc \in Quiet /\ pc' \in Quiet
    BY DEF Quiet
  <2>2. Holds' => Holds /\ mem' = mem
    BY DEF Holds, Ready, Memories, FileRanges
  <2> QED
    BY <2>1, <2>2, StaysInStep
<1>6. Trusted' /\ SavedStays'
  BY DisksAlone
<1> QED
  BY <1>2, <1>3, <1>4, <1>5, <1>6

LEMMA NewDiskKeeps ==
  ASSUME FilesInv, NewDisk
  PROVE  FilesInv'
<1> USE DEF NewDisk, FilesInv, deviceVars, diskVars, memVars, history
<1>1. mem' \in Memories /\ op' \in Calls
  BY NoOpIsOne, DisksAssumption DEF FileRanges, Memories, Calls
<1>2. FileRanges'
  BY <1>1, DisksAssumption DEF FileRanges, Steps
<1>3. Versions'
  BY NoOpIsOne, DisksAssumption DEF FileRanges, Versions, Calls, NoOp
<1>4. Known'
  BY DEF Known
<1>5. Holds' => InStep'
  <2>1. pc \in Quiet /\ pc' \in Quiet
    BY DEF Quiet
  <2>2. Holds' => Holds /\ mem' = mem
    BY DEF Holds, Ready, Memories, FileRanges
  <2> QED
    BY <2>1, <2>2, StaysInStep
<1>6. Trusted' /\ SavedStays'
  BY DisksAlone
<1> QED
  BY <1>2, <1>3, <1>4, <1>5, <1>6

LEMMA FindDamageKeeps ==
  ASSUME FilesInv, FindDamage
  PROVE  FilesInv'
<1> USE DEF FindDamage, AreaDamaged, FilesInv, deviceVars, diskVars, memVars, history
<1>1. mem' \in Memories /\ op' \in Calls
  BY NoOpIsOne, DisksAssumption DEF FileRanges, Memories, Calls
<1>2. FileRanges'
  BY <1>1, DisksAssumption DEF FileRanges, Steps
<1>3. Versions'
  BY NoOpIsOne, DisksAssumption DEF FileRanges, Versions, Calls, NoOp
<1>4. Known'
  BY DEF Known
<1>5. Holds' => InStep'
  BY DEF Holds, Ready, Memories, FileRanges
<1>6. Trusted' /\ SavedStays'
  BY DisksAlone
<1> QED
  BY <1>2, <1>3, <1>4, <1>5, <1>6

LEMMA GoFailsKeeps ==
  ASSUME FilesInv, GoFails
  PROVE  FilesInv'
<1> USE DEF GoFails, AreaFails, Retry, FilesInv, deviceVars, diskVars, memVars, history
<1>1. mem' \in Memories /\ op' \in Calls
  BY NoOpIsOne, DisksAssumption DEF FileRanges, Memories, Calls
<1>2. FileRanges'
  BY <1>1, DisksAssumption DEF FileRanges, Steps
<1>3. Versions'
  BY NoOpIsOne, DisksAssumption DEF FileRanges, Versions, Calls, NoOp
<1>4. Known'
  BY DEF Known
<1>5. Holds' => InStep'
  <2>1. pc \in Quiet /\ pc' \in Quiet
    BY DEF Quiet
  <2>2. Holds' => Holds /\ mem' = mem
    BY DEF Holds, Ready, Memories, FileRanges
  <2> QED
    BY <2>1, <2>2, StaysInStep
<1>6. Trusted' /\ SavedStays'
  BY DisksAlone
<1> QED
  BY <1>2, <1>3, <1>4, <1>5, <1>6

LEMMA ReadDataKeeps ==
  ASSUME FilesInv, ReadData
  PROVE  FilesInv'
<1> USE DEF ReadData, Return, FilesInv, deviceVars, diskVars, memVars, history
<1>1. mem' \in Memories /\ op' \in Calls
  BY NoOpIsOne, DisksAssumption DEF FileRanges, Memories, Calls
<1>2. FileRanges'
  BY <1>1, DisksAssumption DEF FileRanges, Steps
<1>3. Versions'
  <2>1. CASE op' = NoOp
    BY <2>1 DEF Versions, NoOp
  <2>2. CASE pc' = "check" /\ op' = [op EXCEPT !.kind = "erase", !.write = TRUE]
    <3>1. op'.kind = "erase" /\ op'.name = op.name
      BY <2>2 DEF FileRanges, Calls
    <3> QED
      BY <2>2, <3>1 DEF Versions
  <2> QED
    BY <2>1, <2>2
<1>4. Known'
  BY DEF Known
<1>5. Holds' => InStep'
  <2>1. pc \in Quiet /\ pc' \in Quiet
    BY DEF Quiet
  <2>2. Holds' => Holds /\ mem' = mem
    BY DEF Holds, Ready, Memories, FileRanges
  <2> QED
    BY <2>1, <2>2, StaysInStep
<1>6. Trusted' /\ SavedStays'
  BY DisksAlone
<1> QED
  BY <1>2, <1>3, <1>4, <1>5, <1>6

LEMMA CommandFailsKeeps ==
  ASSUME FilesInv, CommandFails
  PROVE  FilesInv'
<1> USE DEF CommandFails, Retry, FilesInv, deviceVars, diskVars, memVars, history
<1>1. mem' \in Memories /\ op' \in Calls
  BY NoOpIsOne, DisksAssumption DEF FileRanges, Memories, Calls
<1>2. FileRanges'
  BY <1>1, DisksAssumption DEF FileRanges, Steps
<1>3. Versions'
  BY NoOpIsOne, DisksAssumption DEF FileRanges, Versions, Calls, NoOp
<1>4. Known'
  BY DEF Known
<1>5. Holds' => InStep'
  BY DEF Holds, Ready, Memories, FileRanges
<1>6. Trusted' /\ SavedStays'
  BY DisksAlone
<1> QED
  BY <1>2, <1>3, <1>4, <1>5, <1>6

LEMMA RecoverFailsKeeps ==
  ASSUME FilesInv, RecoverFails
  PROVE  FilesInv'
<1> USE DEF RecoverFails, Retry, FilesInv, deviceVars, diskVars, memVars, history
<1>1. mem' \in Memories /\ op' \in Calls
  BY NoOpIsOne, DisksAssumption DEF FileRanges, Memories, Calls
<1>2. FileRanges'
  BY <1>1, DisksAssumption DEF FileRanges, Steps
<1>3. Versions'
  BY NoOpIsOne, DisksAssumption DEF FileRanges, Versions, Calls, NoOp
<1>4. Known'
  BY DEF Known
<1>5. Holds' => InStep'
  BY DEF Holds, Ready, Memories, FileRanges
<1>6. Trusted' /\ SavedStays'
  BY DisksAlone
<1> QED
  BY <1>2, <1>3, <1>4, <1>5, <1>6

LEMMA PutInKeeps ==
  ASSUME FilesInv, NEW d \in Disks, PutIn(d)
  PROVE  FilesInv'
<1> USE DEF PutIn, FilesInv, deviceVars, diskVars, memVars, history
<1>1. mem' \in Memories /\ op' \in Calls
  BY NoOpIsOne, DisksAssumption DEF FileRanges, Memories, Calls
<1>2. FileRanges'
  BY <1>1, DisksAssumption DEF FileRanges, Steps
<1>3. Versions'
  BY NoOpIsOne, DisksAssumption DEF FileRanges, Versions, Calls, NoOp
<1>4. Known'
  BY DEF Known
<1>5. Holds' => InStep'
  BY DEF Holds, Ready, Memories, FileRanges
<1>6. Trusted' /\ SavedStays'
  BY DisksAlone
<1> QED
  BY <1>2, <1>3, <1>4, <1>5, <1>6

LEMMA PowerOnKeeps ==
  ASSUME FilesInv, PowerOn
  PROVE  FilesInv'
<1> USE DEF PowerOn, Nothing, FilesInv, deviceVars, diskVars, memVars, history
<1>1. mem' \in Memories /\ op' \in Calls
  BY NoOpIsOne, DisksAssumption DEF FileRanges, Memories, Calls, NoFiles, Dirs, Entries, NoSlot
<1>2. FileRanges'
  BY <1>1, DisksAssumption DEF FileRanges, Steps
<1>3. Versions'
  BY NoOpIsOne, DisksAssumption DEF FileRanges, Versions, Calls, NoOp
<1>4. Known'
  BY DEF Known
<1>5. Holds' => InStep'
  BY DEF Holds, Ready, Memories, FileRanges
<1>6. Trusted' /\ SavedStays'
  BY DisksAlone
<1> QED
  BY <1>2, <1>3, <1>4, <1>5, <1>6

-----------------------------------------------------------------------------
(* The area comes into memory, and changes there.                          *)

LEMMA FunctionsBegin ==
  ASSUME FilesInv, AreaGood, pc = "go", UNCHANGED <<drive, diskVars, erased>>,
         mem' = [valid |-> TRUE, dir |-> TheArea]
  PROVE  mem' \in Memories /\ AsRead'
<1>1. /\ area[drive].whole /\ TheArea \in Dirs
      /\ \A n \in Names \ erased[drive] : TheArea[n] = area[drive].dir[n]
  BY AreaRead
<1>2. mem' \in Memories
  BY <1>1 DEF Memories
<1>3. AsRead'
  BY <1>1 DEF AsRead, Same, diskVars
<1> QED
  BY <1>2, <1>3

LEMMA GoLoadKeeps ==
  ASSUME FilesInv, GoLoad
  PROVE  FilesInv'
<1> USE DEF GoLoad, Return, FilesInv, deviceVars, diskVars, history
<1>1. mem' \in Memories /\ AsRead'
  BY FunctionsBegin
<1>2. op' \in Calls
  <2>1. TheArea \in Dirs
    BY AreaRead
  <2>2. TheArea[op.name] \in 0..NumSlots
    BY <2>1 DEF FileRanges, Calls, Dirs
  <2> QED
    BY <2>2, NoOpIsOne DEF FileRanges, Calls
<1>3. FileRanges'
  BY <1>1, <1>2 DEF FileRanges, Steps
<1>4. Versions'
  BY DEF FileRanges, Versions, Calls, NoOp
<1>5. Known'
  BY DEF Known
<1>6. InStep'
  BY <1>1, QuietStep DEF Quiet
<1>7. Trusted' /\ SavedStays'
  BY DisksAlone
<1> QED
  BY <1>3, <1>4, <1>5, <1>6, <1>7

LEMMA GoSaveKeeps ==
  ASSUME FilesInv, GoSave
  PROVE  FilesInv'
<1> USE DEF GoSave, FilesInv, deviceVars, diskVars, history
<1>1. mem' \in Memories /\ AsRead'
  BY FunctionsBegin
<1> DEFINE free == Slots \ Used(TheArea)
<1>2. free # {} => Min(free) \in free
  BY LeastSlot, DisksAssumption DEF Slots
<1>3. free # {} => Min(free) # NoSlot /\ Min(free) \in 0..NumSlots
  BY <1>2, DisksAssumption DEF Slots, NoSlot
<1>4. op' \in Calls
  BY <1>3 DEF FileRanges, Calls
<1>5. FileRanges'
  BY <1>1, <1>4 DEF FileRanges, Steps
<1>6. Versions'
  BY DEF FileRanges, Versions, Calls
<1>7. Known'
  BY DEF Known
<1>8. InStep'
  <2>1. CASE free = {}
    BY <1>1, <2>1, QuietStep DEF Quiet
  <2>2. CASE free # {}
    <3>1. pc' = "data" /\ op'.slot = Min(free) /\ mem'.dir = TheArea
      BY <2>2 DEF FileRanges, Calls
    <3>2. op'.slot # NoSlot /\ op'.slot \notin Used(mem'.dir)
      BY <1>2, <1>3, <2>2, <3>1
    <3>3. heldError' = "good"
      BY DEF AreaGood, AreaInMemory, AreaReadable
    <3> QED
      BY <1>1, <3>1, <3>2, <3>3 DEF InStep, AsRead
  <2> QED
    BY <2>1, <2>2
<1>9. Trusted' /\ SavedStays'
  BY DisksAlone
<1> QED
  BY <1>5, <1>6, <1>7, <1>8, <1>9

LEMMA EntrySet ==
  ASSUME NEW m \in Memories, NEW n \in Entries, NEW s \in 0..NumSlots
  PROVE  [m EXCEPT !.dir[n] = s] \in Memories
BY DEF Memories, Dirs

LEMMA AreaFailing ==
  ASSUME FilesInv, AreaFails
  PROVE  mem' \in Memories /\ (mem' = mem \/ ~mem'.valid)
BY DEF AreaFails, FilesInv, FileRanges, Memories

LEMMA DeleteOldKeeps ==
  ASSUME FilesInv, DeleteOld
  PROVE  FilesInv'
<1> USE DEF DeleteOld, FilesInv, deviceVars, diskVars, history
<1>1. mem' \in Memories
  <2>1. NoSlot \in 0..NumSlots
    BY DisksAssumption DEF NoSlot
  <2>2. op.name \in Entries
    BY DEF FileRanges, Calls
  <2>3. [mem EXCEPT !.dir[op.name] = NoSlot] \in Memories
    BY <2>1, <2>2, EntrySet DEF FileRanges
  <2> QED
    BY <2>3, AreaFailing
<1>2. FileRanges'
  BY <1>1, DisksAssumption DEF AreaFails, FileRanges, Steps
<1>3. Versions'
  BY DEF Versions
<1>4. Known'
  BY DEF Known
<1>5. Holds' => InStep'
  <2> SUFFICES ASSUME Holds' PROVE InStep'
    OBVIOUS
  <2>1. mem.valid /\ Holds
    BY DEF Holds, Ready, AreaFails, FileRanges, Memories
  <2>2. InStep /\ heldError = "good"
    BY <2>1 DEF InStep
  <2>3. mem' = [mem EXCEPT !.dir[op.name] = NoSlot] /\ heldError' = heldError
    BY <2>1, <2>2 DEF AreaFails, Holds
  <2>4. op.name \in Names /\ op.name # Tmp
    BY DisksAssumption DEF Versions
  <2>5. /\ mem'.dir[op.name] = NoSlot
        /\ \A n \in Entries : n # op.name => mem'.dir[n] = mem.dir[n]
    BY <2>3, <2>4 DEF FileRanges, Memories, Dirs, Entries
  <2>6. mem'.dir[Tmp] = mem.dir[Tmp]
    BY <2>4, <2>5 DEF Entries
  <2>7. Written'
    BY <2>2 DEF InStep, Written
  <2>8. ASSUME NEW n \in Names \ erased'[drive'], n # op'.name
        PROVE  Same(n)'
    BY <2>2, <2>5, <2>8 DEF InStep, Same, Entries
  <2>9. area'[drive'].whole /\ Saves'
    BY <2>2 DEF InStep, Saves, Versions
  <2> QED
    BY <2>2, <2>3, <2>5, <2>6, <2>7, <2>8, <2>9 DEF InStep
<1>6. Trusted' /\ SavedStays'
  BY DisksAlone
<1> QED
  BY <1>2, <1>3, <1>4, <1>5, <1>6

LEMMA RenameNewKeeps ==
  ASSUME FilesInv, RenameNew
  PROVE  FilesInv'
<1> USE DEF RenameNew, FilesInv, deviceVars, diskVars, history
<1>name. op.name \in Names /\ op.name # Tmp /\ Tmp \in Entries /\ op.name \in Entries
  BY DisksAssumption DEF Versions, Entries
<1>1. mem' \in Memories
  <2> DEFINE m == [mem EXCEPT !.dir[op.name] = mem.dir[Tmp]]
  <2>1. NoSlot \in 0..NumSlots /\ mem.dir[Tmp] \in 0..NumSlots /\ mem \in Memories
    BY <1>name, DisksAssumption DEF NoSlot, FileRanges, Memories, Dirs
  <2>2. m \in Memories
    BY <2>1, <1>name, EntrySet
  <2> HIDE DEF m
  <2>3. [m EXCEPT !.dir[Tmp] = NoSlot] \in Memories
    BY <2>1, <2>2, <1>name, EntrySet
  <2>4. mem' = mem \/ mem' = [m EXCEPT !.dir[Tmp] = NoSlot] \/ AreaFails
    BY <2>1, <1>name DEF m, Memories, Dirs
  <2> QED
    BY <2>1, <2>3, <2>4, AreaFailing
<1>2. FileRanges'
  BY <1>1, DisksAssumption DEF AreaFails, FileRanges, Steps
<1>3. Versions'
  BY DEF Versions
<1>4. Known'
  BY DEF Known
<1>5. Holds' => InStep'
  <2> SUFFICES ASSUME Holds' PROVE InStep'
    OBVIOUS
  <2>1. mem.valid /\ Holds
    BY DEF Holds, Ready, AreaFails, FileRanges, Memories
  <2>2. InStep /\ heldError = "good"
    BY <2>1 DEF InStep
  <2>3. mem' = [mem EXCEPT !.dir[op.name] = mem.dir[Tmp], !.dir[Tmp] = NoSlot]
    BY <2>1, <2>2 DEF AreaFails, Holds, InStep
  <2>4. /\ mem'.dir[op.name] = mem.dir[Tmp]
        /\ \A n \in Names : n # op.name => mem'.dir[n] = mem.dir[n]
    BY <2>3, <1>name, DisksAssumption DEF FileRanges, Memories, Dirs, Entries
  <2>5. mem'.dir[op'.name] = op'.slot
    BY <2>2, <2>4 DEF InStep
  <2>6. Written'
    BY <2>2 DEF InStep, Written
  <2>7. ASSUME NEW n \in Names \ erased'[drive'], n # op'.name
        PROVE  Same(n)'
    BY <2>2, <2>4, <2>7 DEF InStep, Same
  <2>8. area'[drive'].whole /\ Saves'
    BY <2>2 DEF InStep, Saves, Versions
  <2> QED
    BY <2>5, <2>6, <2>7, <2>8 DEF InStep
<1>6. Trusted' /\ SavedStays'
  BY DisksAlone
<1> QED
  BY <1>2, <1>3, <1>4, <1>5, <1>6

LEMMA RecoverKeeps ==
  ASSUME FilesInv, Recover
  PROVE  FilesInv'
<1> USE DEF Recover, FilesInv, deviceVars, diskVars, history
<1>1. drive \in Disks /\ copy[drive] \in Areas
  BY DEF Ready, FileRanges
<1>2. mem' \in Memories
  BY <1>1 DEF Areas, Memories
<1>3. FileRanges'
  BY <1>2 DEF FileRanges, Steps
<1>4. Versions'
  BY DEF Versions
<1>5. Known'
  BY DEF Known
<1>6. InStep'
  BY DEF InStep
<1>7. Trusted' /\ SavedStays'
  BY DisksAlone
<1> QED
  BY <1>3, <1>4, <1>5, <1>6, <1>7

-----------------------------------------------------------------------------
(* Steps that change a disk: that in the drive, and no other.              *)

\* What is read of a disk, and what lies in a slot that stands for a file.
ReadDir(d) == IF area[d].whole THEN area[d].dir ELSE copy[d].dir
Has(d, n, s) ==
  IF s = NoSlot THEN done[d][n] = 0
  ELSE data[d][s].name = n /\ data[d][s].version >= done[d][n]

KeptOn(d) ==
  trust[d] # "none" => \A n \in Names \ erased[d] : Has(d, n, ReadDir(d)[n])

TrustedOn(d) ==
  /\ trust[d] = "both" => copy[d].whole /\ (area[d].whole => area[d].dir = copy[d].dir)
  /\ trust[d] = "first" => area[d].whole

LEMMA DiskByDisk ==
  /\ SavedStays <=> \A d \in Disks : KeptOn(d)
  /\ SavedStays' <=> \A d \in Disks : KeptOn(d)'
  /\ Trusted <=> \A d \in Disks : TrustedOn(d)
  /\ Trusted' <=> \A d \in Disks : TrustedOn(d)'
BY DEF SavedStays, KeptOn, Trusted, TrustedOn, ReadDir, Has

OthersStay(D) ==
  \A d \in Disks \ {D} :
    /\ area'[d] = area[d] /\ copy'[d] = copy[d] /\ data'[d] = data[d]
    /\ done'[d] = done[d] /\ erased'[d] = erased[d] /\ trust'[d] = trust[d]

LEMMA OneDisk ==
  ASSUME FilesInv, NEW D, OthersStay(D), KeptOn(D)', TrustedOn(D)'
  PROVE  Trusted' /\ SavedStays'
<1> SUFFICES ASSUME NEW d \in Disks PROVE KeptOn(d)' /\ TrustedOn(d)'
  BY DiskByDisk
<1>1. KeptOn(d) /\ TrustedOn(d)
  BY DiskByDisk DEF FilesInv
<1>2. CASE d = D
  BY <1>2
<1>3. CASE d # D
  BY <1>1, <1>3 DEF OthersStay, KeptOn, TrustedOn, ReadDir, Has
<1> QED
  BY <1>2, <1>3
LEMMA GoEraseKeeps ==
  ASSUME FilesInv, GoErase
  PROVE  FilesInv'
<1> USE DEF FilesInv
<1>1. PICK D : D = drive
  OBVIOUS
<1>2. /\ D \in Disks /\ area[D].whole /\ TheArea \in Dirs
      /\ \A n \in Names \ erased[D] : TheArea[n] = area[D].dir[n]
  BY <1>1, AreaRead DEF GoErase
<1>3. /\ op.name \in Names /\ op.name \in Entries
      /\ mem' = [valid |-> TRUE, dir |-> [TheArea EXCEPT ![op.name] = NoSlot]]
      /\ UNCHANGED <<drive, attention, area, copy, data, heldError, newDisk, ops, trust>>
  BY DEF GoErase, Versions, Entries, deviceVars, diskVars
<1>4. /\ mem'.valid /\ mem' \in Memories
      /\ \A n \in Names : n # op.name => mem'.dir[n] = TheArea[n]
      /\ TheArea[op.name] = NoSlot => mem'.dir = TheArea
  BY <1>2, <1>3, DisksAssumption DEF Memories, Dirs, Entries, NoSlot
<1>5. op' \in Calls /\ pc' \in Quiet \cup {"area"} /\ (op' = op \/ op' = NoOp)
  BY NoOpIsOne DEF GoErase, Return, FileRanges, Quiet
<1>6. /\ op' = NoOp \/ pc' # "rest"
      /\ pc' = "area" => op' = op /\ op.kind = "erase"
      /\ pc' \in {"rest", "area"}
  BY DEF GoErase, Return
<1>7. \/ TheArea[op.name] = NoSlot /\ UNCHANGED <<done, erased>>
      \/ /\ done' = [done EXCEPT ![D][op.name] = 0]
         /\ erased' = [erased EXCEPT ![D] = @ \cup {op.name}]
  BY <1>1 DEF GoErase
<1>8. /\ done' \in [Disks -> [Names -> Nat]] /\ erased' \in [Disks -> SUBSET Names]
      /\ \A n \in erased'[D] : n \in erased[D] \/ (n = op.name /\ done'[D][n] = 0)
      /\ \A n \in Names \ erased'[D] : n \in Names \ erased[D] /\ done'[D][n] = done[D][n]
      /\ \A n \in Names : done'[D][n] = done[D][n] \/ done'[D][n] = 0
      /\ \A d \in Disks \ {D} : done'[d] = done[d] /\ erased'[d] = erased[d]
  <2>1. CASE UNCHANGED <<done, erased>>
    BY <1>2, <2>1 DEF FileRanges
  <2>2. CASE /\ done' = [done EXCEPT ![D][op.name] = 0]
             /\ erased' = [erased EXCEPT ![D] = @ \cup {op.name}]
    <3>1. /\ done' \in [Disks -> [Names -> Nat]]
          /\ \A d \in Disks \ {D} : done'[d] = done[d]
          /\ \A n \in Names \ {op.name} : done'[D][n] = done[D][n]
          /\ done'[D][op.name] = 0
      BY <1>2, <1>3, <2>2 DEF FileRanges
    <3>2. /\ erased' \in [Disks -> SUBSET Names]
          /\ \A d \in Disks \ {D} : erased'[d] = erased[d]
          /\ erased'[D] = erased[D] \cup {op.name}
      BY <1>2, <1>3, <2>2 DEF FileRanges
    <3> QED
      BY <3>1, <3>2
  <2> QED
    BY <1>7, <2>1, <2>2
<1>9. FileRanges'
  BY <1>3, <1>4, <1>5, <1>6, <1>8 DEF FileRanges, Steps
<1>10. Versions'
  <2>1. ASSUME NEW d \in Disks, NEW n \in Names
        PROVE  done'[d][n] <= ops' + 1
    <3>1. done'[d][n] = done[d][n] \/ done'[d][n] = 0
      BY <1>8
    <3>2. done[d][n] <= ops + 1 /\ 0 <= ops + 1 /\ ops' = ops
      BY <1>3 DEF Versions, FileRanges
    <3> QED
      BY <3>1, <3>2
  <2>2. \A d \in Disks : \A n \in erased'[d] : done'[d][n] = 0
    BY <1>8 DEF Versions
  <2> QED
    BY <2>1, <2>2, <1>3, <1>5, <1>6 DEF Versions, NoOp
<1>11. Known'
  BY <1>3, <1>6 DEF Known, GoErase
<1>12. InStep'
  <2>1. \A n \in Names \ erased'[D] : mem'.dir[n] = area'[D].dir[n]
    <3>1. CASE TheArea[op.name] = NoSlot
      BY <1>2, <1>3, <1>4, <1>8, <3>1
    <3>2. CASE op.name \in erased'[D]
      BY <1>2, <1>3, <1>4, <1>8, <3>2
    <3> QED
      BY <1>2, <1>7, <3>1, <3>2 DEF FileRanges
  <2>2. AsRead'
    BY <1>1, <1>2, <1>3, <2>1 DEF AsRead, Same
  <2>3. ~Saves' \/ pc' # "area"
    BY <1>6 DEF Saves
  <2> QED
    BY <1>6, <2>2, <2>3 DEF InStep, AsRead
<1>13. Trusted' /\ SavedStays'
  <2>1. OthersStay(D)
    BY <1>3, <1>8 DEF OthersStay
  <2>2. KeptOn(D) /\ TrustedOn(D)
    BY <1>2, DiskByDisk
  <2>3. TrustedOn(D)'
    BY <1>3, <2>2 DEF TrustedOn
  <2>4. KeptOn(D)'
    BY <1>3, <1>8, <2>2 DEF KeptOn, ReadDir, Has
  <2> QED
    BY <2>1, <2>3, <2>4, OneDisk
<1> QED
  BY <1>9, <1>10, <1>11, <1>12, <1>13

\* What comes into the slot that a save has found concerns no file yet.
LEMMA FreeSlot ==
  ASSUME FilesInv, pc = "data", Ready, NEW w \in Files,
         data' = [data EXCEPT ![drive][op.slot] = w],
         UNCHANGED <<area, copy, done, erased, trust>>
  PROVE  data' \in [Disks -> [Slots -> Files]] /\ Trusted' /\ SavedStays'
<1> USE DEF FilesInv
<1>1. PICK D : D = drive
  OBVIOUS
<1>2. PICK s : s = op.slot
  OBVIOUS
<1>3. D \in Disks /\ Holds
  BY <1>1 DEF Ready, FileRanges, Holds, Known
<1>4. /\ area[D].whole /\ s # NoSlot /\ s \notin Used(mem.dir)
      /\ \A n \in Names \ erased[D] : mem.dir[n] = area[D].dir[n]
  BY <1>1, <1>2, <1>3 DEF InStep, Same
<1>5. s \in Slots /\ Names \subseteq Entries
  BY <1>2, <1>4, DisksAssumption DEF FileRanges, Calls, Slots, NoSlot, Entries
<1>6. /\ data' \in [Disks -> [Slots -> Files]]
      /\ \A t \in Slots : t # s => data'[D][t] = data[D][t]
      /\ \A d \in Disks \ {D} : data'[d] = data[d]
  BY <1>1, <1>2, <1>3, <1>5 DEF FileRanges
<1>7. OthersStay(D)
  BY <1>6 DEF OthersStay
<1>8. KeptOn(D) /\ TrustedOn(D)
  BY <1>3, DiskByDisk
<1>9. TrustedOn(D)'
  BY <1>8 DEF TrustedOn
<1>10. ASSUME NEW n \in Names \ erased[D], area[D].dir[n] # NoSlot
       PROVE  area[D].dir[n] \in Slots /\ area[D].dir[n] # s
  <2>1. area[D].dir[n] = mem.dir[n] /\ n \in Entries
    BY <1>4, <1>5
  <2>2. area[D].dir[n] \in Slots
    BY <1>3, <1>10, <2>1, DisksAssumption DEF FileRanges, Areas, Dirs, Slots, NoSlot
  <2>3. mem.dir[n] \in Used(mem.dir)
    BY <1>10, <2>1 DEF Used
  <2> QED
    BY <1>4, <2>1, <2>2, <2>3
<1>11. KeptOn(D)'
  BY <1>4, <1>6, <1>8, <1>10 DEF KeptOn, ReadDir, Has
<1> QED
  BY <1>6, <1>7, <1>9, <1>11, OneDisk

LEMMA WriteDataKeeps ==
  ASSUME FilesInv, WriteData
  PROVE  FilesInv'
<1> USE DEF FilesInv
<1>1. PICK D : D = drive
  OBVIOUS
<1>2. PICK s : s = op.slot
  OBVIOUS
<1>3. PICK w : w = [name |-> op.name, version |-> op.version]
  OBVIOUS
<1>4. /\ Ready /\ pc = "data" /\ D \in Disks /\ Holds
      /\ UNCHANGED <<drive, attention, area, copy, heldError, newDisk, op, ops, done, erased, trust>>
      /\ data' = [data EXCEPT ![D][s] = w]
  BY <1>1, <1>2, <1>3 DEF WriteData, Ready, FileRanges, Holds, Known, deviceVars, history
<1>5. /\ area[D].whole /\ s # NoSlot /\ s \notin Used(mem.dir) /\ heldError = "good"
      /\ op.kind = "save" /\ op.name \in Names /\ op.name # Tmp
      /\ \A n \in Names \ erased[D] : mem.dir[n] = area[D].dir[n]
  BY <1>1, <1>2, <1>4, DisksAssumption DEF InStep, Same, Versions
<1>6. s \in Slots /\ s \in 0..NumSlots /\ w \in Files /\ Names \subseteq Entries /\ Tmp \in Entries
  BY <1>2, <1>3, <1>5, DisksAssumption DEF FileRanges, Calls, Slots, NoSlot, Files, Entries
<1>7. /\ data' \in [Disks -> [Slots -> Files]]
      /\ data'[D][s] = w
      /\ \A t \in Slots : t # s => data'[D][t] = data[D][t]
      /\ \A d \in Disks \ {D} : data'[d] = data[d]
  BY <1>4, <1>6 DEF FileRanges
<1>8. PICK e \in {op.name, Tmp} :
        /\ mem' = [mem EXCEPT !.dir[e] = s]
        /\ e = op.name => pc' = "area"
        /\ e = Tmp => pc' = "delete"
  BY <1>2, <1>5 DEF WriteData
<1>9. /\ e \in Entries /\ mem' \in Memories /\ mem'.dir[e] = s
      /\ \A n \in Entries : n # e => mem'.dir[n] = mem.dir[n]
  <2>1. e \in Entries /\ mem \in Memories
    BY <1>5, <1>6, <1>8 DEF FileRanges
  <2>2. mem' \in Memories
    BY <1>6, <1>8, <2>1, EntrySet
  <2> QED
    BY <1>6, <1>8, <2>1, <2>2 DEF Memories, Dirs
<1>10. FileRanges'
  BY <1>4, <1>7, <1>8, <1>9 DEF FileRanges, Steps
<1>11. Versions'
  BY <1>4, <1>5, <1>8 DEF Versions
<1>12. Known'
  BY <1>4, <1>8 DEF Known
<1>13. InStep'
  <2>1. Written' /\ Saves'
    BY <1>1, <1>2, <1>3, <1>4, <1>5, <1>7 DEF Written, Saves
  <2>2. ASSUME NEW n \in Names \ erased'[drive'], n # op'.name \/ pc' # "area"
        PROVE  Same(n)'
    <3>1. n # e
      BY <1>5, <1>4, <1>8, <2>2, DisksAssumption
    <3> QED
      BY <1>1, <1>4, <1>5, <1>6, <1>9, <3>1 DEF Same
  <2> QED
    BY <1>1, <1>2, <1>4, <1>5, <1>8, <1>9, <2>1, <2>2 DEF InStep
<1>14. Trusted' /\ SavedStays'
  BY <1>1, <1>2, <1>4, <1>6, FreeSlot
<1> QED
  BY <1>10, <1>11, <1>12, <1>13, <1>14

LEMMA WriteAreaKeeps ==
  ASSUME FilesInv, WriteArea
  PROVE  FilesInv'
<1> USE DEF FilesInv
<1>1. PICK D : D = drive
  OBVIOUS
<1>2. PICK T : T = IF trust[D] = "both" THEN "first" ELSE trust[D]
  OBVIOUS
<1>3. /\ pc = "area" /\ pc' = "copy" /\ D \in Disks /\ Holds /\ mem.dir \in Dirs
      /\ UNCHANGED <<drive, attention, copy, data, mem, heldError, newDisk, op, ops,
                     done, erased>>
      /\ area' = [area EXCEPT ![D] = Whole(mem.dir)]
      /\ trust' = [trust EXCEPT ![D] = T]
  BY <1>1, <1>2 DEF WriteArea, Ready, FileRanges, Memories, Holds, Known, deviceVars, memVars
<1>4. /\ area[D].whole
      /\ \A n \in Names \ erased[D] : n # op.name \/ ~Saves => mem.dir[n] = area[D].dir[n]
      /\ Saves => Written /\ mem.dir[op.name] = op.slot
  BY <1>1, <1>3 DEF InStep, Same
<1>5. /\ area' \in [Disks -> Areas] /\ area'[D].whole /\ area'[D].dir = mem.dir
      /\ \A d \in Disks \ {D} : area'[d] = area[d]
  BY <1>3 DEF Whole, Areas, FileRanges
<1>6. /\ trust' \in [Disks -> {"both", "first", "none"}] /\ trust'[D] = T
      /\ \A d \in Disks \ {D} : trust'[d] = trust[d]
      /\ T # "both" /\ (T # "none" => trust[D] # "none")
  BY <1>2, <1>3 DEF FileRanges
<1>7. FileRanges'
  BY <1>3, <1>5, <1>6 DEF FileRanges, Steps
<1>8. Versions'
  BY <1>3 DEF Versions
<1>9. Known'
  BY <1>3 DEF Known, Holds
<1>10. InStep'
  <2>1. Saves' => Written' /\ mem'.dir[op'.name] = op'.slot
    BY <1>1, <1>3, <1>4 DEF Saves, Written
  <2>2. ASSUME NEW n \in Names \ erased'[drive'] PROVE Same(n)'
    BY <1>1, <1>3, <1>5 DEF Same
  <2> QED
    BY <1>1, <1>3, <1>5, <1>6, <2>1, <2>2 DEF InStep
<1>11. Trusted' /\ SavedStays'
  <2>1. OthersStay(D)
    BY <1>3, <1>5, <1>6 DEF OthersStay
  <2>2. KeptOn(D) /\ TrustedOn(D)
    BY <1>3, DiskByDisk
  <2>3. TrustedOn(D)'
    BY <1>5, <1>6 DEF TrustedOn
  <2>4. ASSUME NEW n \in Names \ erased[D], trust[D] # "none"
        PROVE  Has(D, n, mem.dir[n])
    <3>1. CASE n # op.name \/ ~Saves
      BY <1>4, <2>2, <2>4, <3>1 DEF KeptOn, ReadDir
    <3>2. CASE n = op.name /\ Saves
      <4>1. data[D][op.slot].name = n /\ data[D][op.slot].version = ops + 1
        BY <1>1, <1>4, <3>2 DEF Written, Saves, Versions
      <4>2. done[D][n] <= ops + 1 /\ done[D][n] \in Nat /\ ops \in Nat
        BY <1>3 DEF Versions, FileRanges
      <4>3. mem.dir[n] = op.slot /\ op.slot # NoSlot
        BY <1>4, <3>2 DEF Written
      <4> QED
        BY <4>1, <4>2, <4>3 DEF Has
    <3> QED
      BY <3>1, <3>2
  <2>5. KeptOn(D)'
    BY <1>3, <1>5, <1>6, <2>4 DEF KeptOn, ReadDir, Has
  <2> QED
    BY <2>1, <2>3, <2>5, OneDisk
<1> QED
  BY <1>7, <1>8, <1>9, <1>10, <1>11

LEMMA WriteCopyKeeps ==
  ASSUME FilesInv, WriteCopy
  PROVE  FilesInv'
<1> USE DEF FilesInv
<1>1. PICK D : D = drive
  OBVIOUS
<1>2. PICK T : T = IF trust[D] = "first" THEN "both" ELSE trust[D]
  OBVIOUS
<1>3. PICK E : E = {n \in erased[D] : mem.dir[n] # NoSlot /\ ~(Saves /\ n = op.name)}
  OBVIOUS
<1>4. /\ pc = "copy" /\ pc' = "rest" /\ D \in Disks /\ Holds /\ mem.dir \in Dirs
      /\ UNCHANGED <<drive, attention, area, data, mem, heldError, newDisk, ops>>
      /\ op' = NoOp
      /\ copy' = [copy EXCEPT ![D] = Whole(mem.dir)]
      /\ trust' = [trust EXCEPT ![D] = T]
      /\ erased' = [erased EXCEPT ![D] = E]
      /\ done' = IF Saves THEN [done EXCEPT ![D][op.name] = op.version] ELSE done
  BY <1>1, <1>2, <1>3
     DEF WriteCopy, Ready, FileRanges, Memories, Holds, Known, deviceVars, memVars, Return, Saves
<1>5. /\ area[D].whole /\ area[D].dir = mem.dir /\ trust[D] # "both"
      /\ \A n \in Names \ erased[D] : mem.dir[n] = area[D].dir[n]
      /\ Saves => Written /\ mem.dir[op.name] = op.slot
  BY <1>1, <1>4 DEF InStep, Same
<1>6. /\ copy' \in [Disks -> Areas] /\ copy'[D].whole /\ copy'[D].dir = mem.dir
      /\ \A d \in Disks \ {D} : copy'[d] = copy[d]
  BY <1>4 DEF Whole, Areas, FileRanges
<1>7. /\ trust' \in [Disks -> {"both", "first", "none"}] /\ trust'[D] = T
      /\ \A d \in Disks \ {D} : trust'[d] = trust[d]
      /\ T # "first" /\ (T # "none" => trust[D] # "none")
  BY <1>2, <1>4 DEF FileRanges
<1>8. /\ erased' \in [Disks -> SUBSET Names] /\ erased'[D] = E
      /\ \A d \in Disks \ {D} : erased'[d] = erased[d]
  BY <1>3, <1>4 DEF FileRanges
<1>9. Saves => op.name \in Names /\ op.version = ops + 1 /\ ops + 1 \in Nat
  BY DEF Saves, Versions, FileRanges
<1>10. /\ done' \in [Disks -> [Names -> Nat]]
       /\ \A d \in Disks \ {D} : done'[d] = done[d]
       /\ \A n \in Names : ~(Saves /\ n = op.name) => done'[D][n] = done[D][n]
       /\ Saves => done'[D][op.name] = ops + 1
  <2>1. CASE Saves
    BY <1>4, <1>9, <2>1 DEF FileRanges
  <2>2. CASE ~Saves
    BY <1>4, <2>2 DEF FileRanges
  <2> QED
    BY <2>1, <2>2
<1>11. FileRanges'
  BY <1>4, <1>6, <1>7, <1>8, <1>10, NoOpIsOne DEF FileRanges, Steps
<1>12. Versions'
  <2>1. ASSUME NEW d \in Disks, NEW n \in Names
        PROVE  done'[d][n] <= ops' + 1
    <3>1. done'[d][n] = done[d][n] \/ done'[d][n] = ops + 1
      BY <1>10
    <3>2. done[d][n] <= ops + 1 /\ ops + 1 <= ops + 1 /\ ops' = ops
      BY <1>4 DEF Versions, FileRanges
    <3> QED
      BY <3>1, <3>2
  <2>2. ASSUME NEW d \in Disks, NEW n \in erased'[d]
        PROVE  done'[d][n] = 0
    <3>1. CASE d # D
      BY <1>8, <1>10, <2>2, <3>1 DEF Versions
    <3>2. CASE d = D
      <4>1. n \in erased[D] /\ ~(Saves /\ n = op.name) /\ n \in Names
        BY <1>3, <1>4, <1>8, <2>2, <3>2 DEF FileRanges
      <4> QED
        BY <1>4, <1>10, <3>2, <4>1 DEF Versions
    <3> QED
      BY <3>1, <3>2
  <2> QED
    BY <1>4, <2>1, <2>2 DEF Versions, NoOp
<1>13. Known'
  BY <1>4 DEF Known
<1>14. InStep'
  <2>1. AsRead'
    BY <1>1, <1>4, <1>5 DEF AsRead, Same
  <2> QED
    BY <1>4, <2>1, QuietStep DEF Quiet
<1>15. Trusted' /\ SavedStays'
  <2>1. OthersStay(D)
    BY <1>4, <1>6, <1>7, <1>8, <1>10 DEF OthersStay
  <2>2. KeptOn(D) /\ TrustedOn(D)
    BY <1>4, DiskByDisk
  <2>3. TrustedOn(D)'
    BY <1>4, <1>5, <1>6, <1>7 DEF TrustedOn
  <2>4. ASSUME NEW n \in Names \ E, trust[D] # "none"
        PROVE  Has(D, n, mem.dir[n])'
    <3>1. CASE Saves /\ n = op.name
      <4>1. /\ data[D][op.slot].name = n /\ data[D][op.slot].version = ops + 1
            /\ mem.dir[n] = op.slot /\ op.slot # NoSlot
        BY <1>1, <1>5, <1>9, <3>1 DEF Written
      <4>2. done'[D][n] = ops + 1 /\ ops + 1 >= ops + 1
        BY <1>9, <1>10, <3>1
      <4> QED
        BY <1>4, <4>1, <4>2 DEF Has
    <3>2. CASE n \in erased[D] /\ ~(Saves /\ n = op.name)
      <4>1. mem.dir[n] = NoSlot /\ done[D][n] = 0 /\ done'[D][n] = done[D][n]
        BY <1>3, <1>4, <1>10, <2>4, <3>2 DEF Versions
      <4> QED
        BY <1>4, <4>1 DEF Has
    <3>3. CASE n \notin erased[D] /\ ~(Saves /\ n = op.name)
      <4>1. Has(D, n, mem.dir[n]) /\ done'[D][n] = done[D][n]
        BY <1>5, <1>10, <2>2, <2>4, <3>3 DEF KeptOn, ReadDir
      <4> QED
        BY <1>4, <4>1 DEF Has
    <3> QED
      BY <3>1, <3>2, <3>3
  <2>5. KeptOn(D)'
    BY <1>4, <1>5, <1>7, <1>8, <2>4 DEF KeptOn, ReadDir
  <2> QED
    BY <2>1, <2>3, <2>5, OneDisk
<1> QED
  BY <1>11, <1>12, <1>13, <1>14, <1>15

-----------------------------------------------------------------------------
(* The copy's turn, and disks laid out anew.                               *)

\* A call that has recovered the area goes on, or is over.
LEMMA RecoveredCall ==
  ASSUME FilesInv, Recovered, pc \in {"recover", "rewrite"}
  PROVE  /\ op' \in Calls /\ pc' \in {"check", "rest"}
         /\ UNCHANGED <<ops, done, erased>> => Versions'
<1>1. CASE pc' = "rest" /\ op' = NoOp
  BY <1>1, NoOpIsOne DEF FilesInv, FileRanges, Versions, NoOp
<1>2. CASE pc' = "check" /\ op' = [op EXCEPT !.recover = FALSE]
  <2>1. op' \in Calls
    BY <1>2 DEF FilesInv, FileRanges, Calls
  <2>2. op'.kind = op.kind /\ op'.name = op.name /\ op'.version = op.version
    BY <1>2 DEF FilesInv, FileRanges, Calls
  <2> QED
    BY <1>2, <2>1, <2>2 DEF FilesInv, Versions
<1> QED
  BY <1>1, <1>2 DEF Recovered, Return

LEMMA RewriteAreaKeeps ==
  ASSUME FilesInv, RewriteArea
  PROVE  FilesInv'
<1> USE DEF FilesInv
<1>1. PICK D : D = drive
  OBVIOUS
<1>2. PICK T : T = IF trust[D] = "first" THEN "none" ELSE trust[D]
  OBVIOUS
<1>3. /\ pc = "rewrite" /\ Recovered /\ D \in Disks /\ Holds /\ mem.dir \in Dirs
      /\ UNCHANGED <<drive, attention, copy, data, mem, newDisk, ops, done, erased>>
      /\ area' = [area EXCEPT ![D] = Whole(mem.dir)]
      /\ trust' = [trust EXCEPT ![D] = T]
  BY <1>1, <1>2 DEF RewriteArea, CopyAsked, Ready, FileRanges, Memories, Holds, Known, deviceVars
<1>4. mem.dir = copy[D].dir
  BY <1>1, <1>3 DEF InStep
<1>5. /\ area' \in [Disks -> Areas] /\ area'[D].whole /\ area'[D].dir = mem.dir
      /\ \A d \in Disks \ {D} : area'[d] = area[d]
  BY <1>3 DEF Whole, Areas, FileRanges
<1>6. /\ trust' \in [Disks -> {"both", "first", "none"}] /\ trust'[D] = T
      /\ \A d \in Disks \ {D} : trust'[d] = trust[d]
      /\ T # "first" /\ (T # "none" => T = trust[D] /\ T = "both")
  BY <1>2, <1>3 DEF FileRanges
<1>7. FileRanges' /\ Versions'
  BY <1>3, <1>5, <1>6, RecoveredCall DEF FileRanges, Steps
<1>8. Known'
  BY <1>3, RecoveredCall DEF Known
<1>9. InStep'
  <2>1. AsRead'
    BY <1>1, <1>3, <1>5 DEF AsRead, Same
  <2>2. pc' \in Quiet
    BY <1>3, RecoveredCall DEF Quiet
  <2> QED
    BY <2>1, <2>2, QuietStep
<1>10. Trusted' /\ SavedStays'
  <2>1. OthersStay(D)
    BY <1>3, <1>5, <1>6 DEF OthersStay
  <2>2. KeptOn(D) /\ TrustedOn(D)
    BY <1>3, DiskByDisk
  <2>3. TrustedOn(D)'
    BY <1>3, <1>4, <1>5, <1>6, <2>2 DEF TrustedOn
  <2>4. KeptOn(D)'
    BY <1>3, <1>4, <1>5, <1>6, <2>2 DEF KeptOn, TrustedOn, ReadDir, Has
  <2> QED
    BY <2>1, <2>3, <2>4, OneDisk
<1> QED
  BY <1>7, <1>8, <1>9, <1>10

\* Of a disk that was laid out anew, nothing is said.
LEMMA LaidOut ==
  ASSUME FilesInv, LayOut, trust' = [trust EXCEPT ![drive] = "none"],
         op' \in Calls, pc' \in {"check", "rest"}
  PROVE  FileRanges' /\ Known' /\ ~Holds' /\ Trusted' /\ SavedStays'
<1> USE DEF FilesInv
<1>1. PICK D : D = drive
  OBVIOUS
<1>2. /\ D \in Disks /\ mem' \in Memories /\ ~mem'.valid /\ newDisk' = FALSE
      /\ UNCHANGED <<drive, data, ops, done, erased>> /\ attention' = FALSE
      /\ area' = [area EXCEPT ![D] = Whole(NoFiles)]
      /\ copy' = [copy EXCEPT ![D] = Whole(NoFiles)]
      /\ trust' = [trust EXCEPT ![D] = "none"]
  BY <1>1, DisksAssumption DEF LayOut, FileRanges, Memories
<1>3. Whole(NoFiles) \in Areas
  BY DisksAssumption DEF Whole, Areas, NoFiles, Dirs, NoSlot
<1>4. /\ area' \in [Disks -> Areas] /\ copy' \in [Disks -> Areas]
      /\ trust' \in [Disks -> {"both", "first", "none"}] /\ trust'[D] = "none"
      /\ \A d \in Disks \ {D} :
           area'[d] = area[d] /\ copy'[d] = copy[d] /\ trust'[d] = trust[d]
  BY <1>2, <1>3 DEF FileRanges
<1>5. FileRanges'
  BY <1>2, <1>4 DEF FileRanges, Steps
<1>6. Known' /\ ~Holds'
  BY <1>2 DEF Known, Holds
<1>7. OthersStay(D)
  BY <1>2, <1>4 DEF OthersStay
<1>8. KeptOn(D)' /\ TrustedOn(D)'
  BY <1>4 DEF KeptOn, TrustedOn
<1> QED
  BY <1>5, <1>6, <1>7, <1>8, OneDisk

LEMMA GiveUpCopyKeeps ==
  ASSUME FilesInv, GiveUpCopy
  PROVE  FilesInv'
<1> USE DEF FilesInv
<1>1. drive \in Disks
  BY DEF GiveUpCopy, Ready, FileRanges
<1>2. trust[drive] # "both"
  BY <1>1 DEF GiveUpCopy, Trusted
<1>3. trust' = [trust EXCEPT ![drive] = "none"]
  <2>1. trust[drive] \in {"first", "none"}
    BY <1>1, <1>2 DEF FileRanges
  <2>2. trust' = [trust EXCEPT ![drive] = IF trust[drive] = "first" THEN "none" ELSE trust[drive]]
    BY DEF GiveUpCopy, CopyAsked
  <2>3. (IF trust[drive] = "first" THEN "none" ELSE trust[drive]) = "none"
    BY <2>1
  <2> QED
    BY <2>2, <2>3
<1>4. LayOut /\ UNCHANGED <<ops, done, erased>> /\ Recovered /\ pc = "recover"
  BY DEF GiveUpCopy, LayOut
<1>5. op' \in Calls /\ pc' \in {"check", "rest"} /\ Versions'
  BY <1>4, RecoveredCall
<1> QED
  BY <1>3, <1>4, <1>5, LaidOut

LEMMA GiveUpAreaKeeps ==
  ASSUME FilesInv, GiveUpArea
  PROVE  FilesInv'
<1> USE DEF FilesInv
<1>1. /\ LayOut /\ UNCHANGED <<ops, done, erased>> /\ pc = "area"
      /\ trust' = [trust EXCEPT ![drive] = "none"]
      /\ \/ pc' = "rest" /\ op' = NoOp
         \/ pc' = "check" /\ op' = op
  BY DEF GiveUpArea, LayOut, Return, Retry
<1>2. op' \in Calls /\ pc' \in {"check", "rest"}
  BY <1>1, NoOpIsOne DEF FileRanges
<1>3. Versions'
  BY <1>1 DEF Versions, NoOp
<1> QED
  BY <1>1, <1>2, <1>3, LaidOut

-----------------------------------------------------------------------------
(* Writes that are broken off.                                             *)

LEMMA MixedArea ==
  ASSUME NEW a \in Dirs, NEW b \in Dirs, NEW m \in Mixed(a, b)
  PROVE  m \in Areas /\ m.whole = FALSE
<1>1. PICK S \in SUBSET {n \in Entries : a[n] # b[n]} :
        m = [whole |-> FALSE, dir |-> [n \in Entries |-> IF n \in S THEN b[n] ELSE a[n]]]
  BY DEF Mixed
<1>2. [n \in Entries |-> IF n \in S THEN b[n] ELSE a[n]] \in Dirs
  BY DEF Dirs
<1> QED
  BY <1>1, <1>2 DEF Areas

LEMMA Interrupted ==
  ASSUME FilesInv, Interrupt, UNCHANGED <<done, erased>>
  PROVE  /\ data' \in [Disks -> [Slots -> Files]]
         /\ area' \in [Disks -> Areas] /\ copy' \in [Disks -> Areas]
         /\ trust' \in [Disks -> {"both", "first", "none"}]
         /\ Trusted' /\ SavedStays'
<1> USE DEF FilesInv
<1>1. PICK D : D = drive
  OBVIOUS
<1>2. PICK T : T = IF trust[D] = "first" THEN "none" ELSE trust[D]
  OBVIOUS
<1>3. CASE UNCHANGED <<diskVars, trust>>
  BY <1>3, DisksAlone DEF diskVars, history, FileRanges
<1>4. CASE /\ pc = "data" /\ Ready
           /\ data' = [data EXCEPT ![drive][op.slot] = Broken]
           /\ UNCHANGED <<area, copy, trust>>
  <2>1. Broken \in Files
    BY DEF Broken, Files, Entries
  <2> QED
    BY <1>4, <2>1, FreeSlot DEF FileRanges
<1>5. CASE /\ Ready /\ CopyAsked /\ UNCHANGED <<copy, data>>
           /\ \E m \in Mixed(area[drive].dir, mem.dir) : area' = [area EXCEPT ![drive] = m]
  <2>1. PICK m \in Mixed(area[D].dir, mem.dir) : area' = [area EXCEPT ![D] = m]
    BY <1>1, <1>5
  <2>2. D \in Disks /\ area[D].dir \in Dirs /\ mem.dir \in Dirs
    BY <1>1, <1>5 DEF Ready, FileRanges, Areas, Memories
  <2>3. m \in Areas /\ m.whole = FALSE
    BY <2>2, MixedArea
  <2>4. /\ area' \in [Disks -> Areas] /\ area'[D].whole = FALSE
        /\ \A d \in Disks \ {D} : area'[d] = area[d]
    BY <2>1, <2>2, <2>3 DEF FileRanges
  <2>5. trust' = [trust EXCEPT ![D] = T]
    BY <1>1, <1>2, <1>5 DEF CopyAsked
  <2>6. /\ trust' \in [Disks -> {"both", "first", "none"}] /\ trust'[D] = T
        /\ \A d \in Disks \ {D} : trust'[d] = trust[d]
        /\ T # "first" /\ (T # "none" => T = trust[D] /\ T = "both")
    BY <1>2, <2>2, <2>5 DEF FileRanges
  <2>7. OthersStay(D)
    BY <1>5, <2>4, <2>6 DEF OthersStay
  <2>8. KeptOn(D) /\ TrustedOn(D)
    BY <2>2, DiskByDisk
  <2>9. TrustedOn(D)'
    BY <1>5, <2>4, <2>6, <2>8 DEF TrustedOn
  <2>10. KeptOn(D)'
    BY <1>5, <2>4, <2>6, <2>8 DEF KeptOn, TrustedOn, ReadDir, Has
  <2> QED
    BY <1>5, <2>4, <2>6, <2>7, <2>9, <2>10, OneDisk DEF FileRanges
<1>6. CASE /\ pc = "copy" /\ Ready /\ UNCHANGED <<area, data, trust>>
           /\ \E m \in Mixed(copy[drive].dir, mem.dir) : copy' = [copy EXCEPT ![drive] = m]
  <2>1. PICK m \in Mixed(copy[D].dir, mem.dir) : copy' = [copy EXCEPT ![D] = m]
    BY <1>1, <1>6
  <2>2. D \in Disks /\ copy[D].dir \in Dirs /\ mem.dir \in Dirs
    BY <1>1, <1>6 DEF Ready, FileRanges, Areas, Memories
  <2>3. m \in Areas
    BY <2>2, MixedArea
  <2>4. copy' \in [Disks -> Areas] /\ \A d \in Disks \ {D} : copy'[d] = copy[d]
    BY <2>1, <2>2, <2>3 DEF FileRanges
  <2>5. area[D].whole /\ trust[D] # "both"
    BY <1>1, <1>6 DEF Known, Holds, InStep
  <2>6. OthersStay(D)
    BY <1>6, <2>4 DEF OthersStay
  <2>7. KeptOn(D) /\ TrustedOn(D)
    BY <2>2, DiskByDisk
  <2>8. KeptOn(D)' /\ TrustedOn(D)'
    BY <1>6, <2>5, <2>7 DEF KeptOn, TrustedOn, ReadDir, Has
  <2> QED
    BY <1>6, <2>4, <2>6, <2>8, OneDisk DEF FileRanges
<1> QED
  BY <1>3, <1>4, <1>5, <1>6 DEF Interrupt, BrokenOff

LEMMA TakeOutKeeps ==
  ASSUME FilesInv, TakeOut
  PROVE  FilesInv'
<1>1. /\ drive' = NoDisk /\ attention' = FALSE /\ Interrupt
      /\ UNCHANGED <<mem, heldError, newDisk, pc, op, ops, done, erased>>
  BY DEF TakeOut, memVars
<1>2. Trusted' /\ SavedStays'
  BY <1>1, Interrupted
<1>3. FileRanges'
  BY <1>1, Interrupted DEF FilesInv, FileRanges
<1>4. Versions' /\ Known'
  BY <1>1 DEF FilesInv, Versions, Known
<1>5. ~Holds'
  BY <1>1 DEF Holds, Ready
<1> QED
  BY <1>2, <1>3, <1>4, <1>5 DEF FilesInv

LEMMA PowerCutKeeps ==
  ASSUME FilesInv, PowerCut
  PROVE  FilesInv'
<1>1. /\ Interrupt /\ pc' = "off" /\ op' = NoOp
      /\ UNCHANGED <<drive, attention, mem, heldError, newDisk, ops, done, erased>>
  BY DEF PowerCut, memVars, deviceVars
<1>2. Trusted' /\ SavedStays'
  BY <1>1, Interrupted
<1>3. FileRanges'
  BY <1>1, Interrupted, NoOpIsOne DEF FilesInv, FileRanges, Steps
<1>4. Versions' /\ Known'
  BY <1>1 DEF FilesInv, Versions, Known, NoOp
<1>5. ~Holds'
  BY <1>1 DEF Holds
<1> QED
  BY <1>2, <1>3, <1>4, <1>5 DEF FilesInv

LEMMA FilesStep == FilesInv /\ [FilesNext]_filesVars => FilesInv'
<1> SUFFICES ASSUME FilesInv, [FilesNext]_filesVars PROVE FilesInv'
  OBVIOUS
<1>1. CASE UNCHANGED filesVars
  <2>1. Trusted' /\ SavedStays'
    BY <1>1, DisksAlone DEF filesVars
  <2>2. FileRanges' /\ Versions' /\ Known'
    BY <1>1 DEF FilesInv, FileRanges, Versions, Known, filesVars, deviceVars, diskVars,
                memVars, history
  <2>3. Holds' => InStep'
    BY <1>1 DEF FilesInv, Holds, Ready, InStep, Same, Written, Saves, filesVars, deviceVars,
                diskVars, memVars, history
  <2> QED
    BY <2>1, <2>2, <2>3 DEF FilesInv
<1>2. CASE \E n \in Names : Save(n) \/ Load(n) \/ \E w \in BOOLEAN : Erase(n, w)
  BY <1>2, BeginKeeps DEF Save, Load, Erase
<1>3. CASE Operations
  BY <1>3, CheckDiskKeeps, NewDiskKeeps, FindDamageKeeps, GoFailsKeeps, GoSaveKeeps,
     GoEraseKeeps, GoLoadKeeps, ReadDataKeeps, WriteDataKeeps, DeleteOldKeeps, RenameNewKeeps,
     WriteAreaKeeps, WriteCopyKeeps, CommandFailsKeeps, RecoverKeeps, RewriteAreaKeeps,
     RecoverFailsKeeps, GiveUpCopyKeeps, GiveUpAreaKeeps DEF Operations
<1>4. CASE TakeOut
  BY <1>4, TakeOutKeeps
<1>5. CASE \E d \in Disks : PutIn(d)
  BY <1>5, PutInKeeps
<1>6. CASE PowerCut
  BY <1>6, PowerCutKeeps
<1>7. CASE PowerOn
  BY <1>7, PowerOnKeeps
<1> QED
  BY <1>1, <1>2, <1>3, <1>4, <1>5, <1>6, <1>7 DEF FilesNext

\* Saved files: whatever the player does with the disks and the power, the
\* directory that will be read names every file that was saved, with the data
\* of that save or a later one (mfs_save.c, mfs_ram.c and the calls of
\* sys_leo_dd.c), unless the disk's fate has hung on a copy out of step.
THEOREM SavedFilesStay == FilesSpec => []SavedStays
<1>1. FilesInv => SavedStays
  BY DEF FilesInv
<1> QED
  BY <1>1, FilesInitInv, FilesStep, PTL DEF FilesSpec
=============================================================================
