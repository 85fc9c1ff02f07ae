----------------------------- MODULE PiManager -----------------------------
(***************************************************************************)
(* The bus of the cartridge and of the disk drive, and its manager         *)
(* (src/libultra/io/devmgr.c, piacs.c, epidma.c, leo/lib/leointerrupt.c).  *)
(*                                                                         *)
(* One thread, the manager, takes commands from a queue, takes the access  *)
(* token, starts the transfer, waits for its end and tells the client.     *)
(* A transfer of the disk is made of one short DMA per sector, which the   *)
(* drive asks for by an interrupt each; the interrupt handler starts them  *)
(* itself (__osLeoInterrupt), while the PI's own interrupt is masked, and  *)
(* wakes the manager through the PI's event queue when a block is over.    *)
(* Direct accesses (osEPiReadIo, osEPiWriteIo) take the same token.        *)
(*                                                                         *)
(* The clients: Copiers wait for each transfer (Dma_RomCopy and its        *)
(* variants, Sram_ReadWrite, the loads of the sound); Streamers never look *)
(* at their return queue (the samples of the sound); Leo is the disk       *)
(* manager's interrupt thread, whose command is jammed in front; Probers   *)
(* access the bus directly.                                                *)
(***************************************************************************)
EXTENDS Integers, Sequences

CONSTANTS
  Copier, Streamer, Prober, \* sets of clients, see above
  Leo,                      \* the disk manager's thread
  CmdLen,       \* length of sPiMgrCmdBuf: 64
  Burst,        \* bound: transfers a Streamer has under way
  StreamLen,    \* length of a Streamer's return queue: 64
  Sectors,      \* data sectors of a block: 85
  C1Limit,      \* sectors of a block that C1 may give up on: 4
  LastSystem,   \* the last sector read in sector mode, when no C1 error: 17
  ExpansionKit, \* with the disk drive, and one thread making all transfers?
  Faults        \* what the drive may do wrong: "count" the sectors, "first"
                \* the same at the first of a second block, "buffer": give up

Client == Copier \cup Streamer \cup {Leo}
Idle == "idle"

ASSUME PiAssumption ==
  /\ CmdLen \in Nat \ {0} /\ StreamLen \in Nat \ {0} /\ Burst \in Nat
  /\ Sectors \in Nat \ {0} /\ C1Limit \in Nat /\ LastSystem \in Nat
  /\ ExpansionKit \in BOOLEAN
  /\ Faults \subseteq {"count", "first", "buffer"}
  /\ Copier \cap Streamer = {} /\ Leo \notin Copier \cup Streamer
  /\ Idle \notin Client

Blocks == 0..1
NoDma == [what |-> "none", for |-> Idle, block |-> 0]
Gap == 3       \* sectors between the last of the data and the transfer of C2
MaxBeat == 2 * Sectors + Gap + 1  \* bound: from here on the drive counts right

VARIABLES
  cmdQ,        \* sPiMgrCmdQueue: the clients whose commands wait
  token,       \* __osPiAccessQueue: 1 if the token is in it
  evtQ,        \* piEventQueue: 1 if it holds a message
  ret,         \* the number of messages in each client's return queue
  mgrPc, mb,   \* the manager: where it is, and for whom
  messageSend, \* its local: does a second message follow?
  state,       \* Copiers and Leo: "idle" or "wait", Leo also "seek"
  probe,       \* Probers: "idle" or "hold" (the token)
  dma,         \* PI: what is under way, for whom, and for which block
  piIntr,      \* PI: an interrupt is pending
  piOn, cartOn,\* __OSGlobalIntMask: OS_IM_PI and SR_IBIT4
  info,        \* transferInfo of the disk
  beat,        \* drive: interrupts of this block so far, or Off
  moved,       \* history: transfers made and not yet collected, per client
  got, gotC2,  \* history: sectors and C2 data of each block in memory
  next, left   \* Leo: the block whose end it waits for, the ends to come

queues  == <<cmdQ, token, evtQ, ret>>
manager == <<mgrPc, mb, messageSend>>
clients == <<state, probe, next, left>>
pi      == <<dma, piIntr>>
masks   == <<piOn, cartOn>>
disk    == <<info, beat, got, gotC2>>

vars == <<queues, manager, clients, pi, masks, disk, moved>>

Off == -1

Modes == {"block", "track", "sector"}
Types == {"read", "write", "none"}     \* LEO_CMD_TYPE_0, _1 and _2

\* The errors: 29 is the handler's word to the manager, Pending that of the
\* first block of a track whose C2 data is on its way.
Good == 0
Pending == 22
Errors == {Good, 4, Pending, 23, 24, 29}

NewInfo(type, mode) ==
  [ type |-> type, mode |-> mode, blockNum |-> 0, sectorNum |-> -1,
    c1 |-> [b \in Blocks |-> 0], err |-> [b \in Blocks |-> Good] ]

RetLen(c) == IF c \in Streamer THEN StreamLen ELSE IF c = Leo THEN 2 ELSE 1

TypeOK ==
  /\ cmdQ \in Seq(Client) /\ Len(cmdQ) <= CmdLen
  /\ token \in 0..1 /\ evtQ \in 0..1
  /\ \A c \in Client : ret[c] \in 0..RetLen(c) /\ moved[c] \in Nat
  /\ mgrPc \in {"command", "access", "event"} /\ mb \in Client \cup {Idle}
  /\ messageSend \in BOOLEAN
  /\ state \in [Copier \cup {Leo} -> {"idle", "wait", "seek"}]
  /\ probe \in [Prober -> {"idle", "hold"}]
  /\ dma \in [what : {"none", "copy", "sector", "c2"},
              for : Client \cup {Idle}, block : Blocks]
  /\ {piIntr, piOn, cartOn} \subseteq BOOLEAN
  /\ info \in [type : Types, mode : Modes, blockNum : Blocks,
               sectorNum : -1..MaxBeat, c1 : [Blocks -> 0..MaxBeat + 1],
               err : [Blocks -> Errors]]
  /\ beat \in {Off} \cup 0..MaxBeat
  /\ got \in [Blocks -> 0..MaxBeat] /\ gotC2 \in [Blocks -> BOOLEAN]
  /\ next \in 0..1 /\ left \in 0..2

Init ==
  /\ cmdQ = <<>> /\ token = 1 /\ evtQ = 0
  /\ ret = [c \in Client |-> 0]
  /\ mgrPc = "command" /\ mb = Idle /\ messageSend = FALSE
  /\ state = [c \in Copier \cup {Leo} |-> "idle"]
  /\ probe = [p \in Prober |-> "idle"]
  /\ dma = NoDma /\ piIntr = FALSE /\ piOn = TRUE /\ cartOn = TRUE
  /\ info = NewInfo("none", "block") /\ beat = Off
  /\ moved = [c \in Client |-> 0]
  /\ got = [b \in Blocks |-> 0] /\ gotC2 = [b \in Blocks |-> FALSE]
  /\ next = 0 /\ left = 0

-----------------------------------------------------------------------------
(* The queues.                                                             *)

\* Mutant: a client of the cartridge is not told.
TellLeo(c) == ret' = [ret EXCEPT ![Leo] = IF c = Leo /\ @ < RetLen(c) THEN @ + 1 ELSE @]

\* osSendMesg(..., OS_MESG_NOBLOCK) to a client: a message that finds the
\* queue full is lost, and nobody waits.
Tell(c) == ret' = [ret EXCEPT ![c] = IF @ < RetLen(c) THEN @ + 1 ELSE @]

\* osEPiStartDma: a command that finds the queue full is refused with -1,
\* which no caller looks at.
Post(c) == cmdQ' = IF Len(cmdQ) < CmdLen THEN Append(cmdQ, c) ELSE cmdQ

PostHigh(c) == cmdQ' = IF Len(cmdQ) < CmdLen THEN <<c>> \o cmdQ ELSE cmdQ

\* Nobody else uses the bus: the thread of the Expansion Kit makes one
\* transfer at a time, and waits for it (func_80767958).
BusFree ==
  /\ \A c \in Copier \cup {Leo} : state[c] = "idle"
  /\ \A c \in Streamer : c # mb /\ \A i \in DOMAIN cmdQ : cmdQ[i] # c

-----------------------------------------------------------------------------
(* The clients.                                                            *)

\* Dma_RomCopy, Dma_RomCopyWithBssInit, Sram_ReadWrite; AudioLoad_SyncDma, at
\* high priority.
Copy(c) ==
  /\ state[c] = "idle"
  /\ ExpansionKit => BusFree
  /\ Post(c) \/ PostHigh(c)
  /\ state' = [state EXCEPT ![c] = "wait"]
  /\ UNCHANGED <<token, evtQ, ret, manager, probe, next, left, pi, masks, disk, moved>>

\* The wait returns with the first message there is.
CopyReturn(c) ==
  /\ state[c] = "wait" /\ ret[c] > 0
  /\ ret' = [ret EXCEPT ![c] = @ - 1]
  /\ moved' = [moved EXCEPT ![c] = IF @ > 0 THEN @ - 1 ELSE 0]
  /\ state' = [state EXCEPT ![c] = "idle"]
  /\ UNCHANGED <<cmdQ, token, evtQ, manager, probe, next, left, pi, masks, disk>>

UnderWay(c) ==
  Len(SelectSeq(cmdQ, LAMBDA d : d = c)) + IF mb = c THEN 1 ELSE 0

\* AudioLoad_DmaSampleData.
Stream(c) ==
  /\ UnderWay(c) < Burst
  /\ ExpansionKit => BusFree
  /\ Post(c)
  /\ UNCHANGED <<token, evtQ, ret, manager, clients, pi, masks, disk, moved>>

\* osEPiReadIo, osEPiWriteIo; the access itself waits for the PI (EPI_SYNC).
ProbeGet(p) ==
  /\ probe[p] = "idle" /\ token = 1
  /\ token' = 0
  /\ probe' = [probe EXCEPT ![p] = "hold"]
  /\ UNCHANGED <<cmdQ, evtQ, ret, manager, state, next, left, pi, masks, disk, moved>>

ProbeRel(p) ==
  /\ probe[p] = "hold" /\ dma = NoDma
  /\ probe' = [probe EXCEPT ![p] = "idle"]
  /\ token' = 1
  /\ UNCHANGED <<cmdQ, evtQ, ret, manager, state, next, left, pi, masks, disk, moved>>

\* read_write_track: one or two blocks, or a sector of the system area.
LeoTransfer(type, mode) ==
  /\ ExpansionKit /\ BusFree
  /\ type = "write" => mode # "sector"
  /\ info' = NewInfo(type, mode)
  /\ PostHigh(Leo)
  /\ state' = [state EXCEPT ![Leo] = "wait"]
  /\ next' = 0
  /\ left' = IF type = "read" /\ mode = "track" THEN 2 ELSE 1
  /\ got' = [b \in Blocks |-> 0] /\ gotC2' = [b \in Blocks |-> FALSE]
  /\ UNCHANGED <<token, evtQ, ret, manager, probe, pi, masks, beat, moved>>

\* The loop over the blocks in read_write_track: an error ends it.
LeoReturn ==
  /\ state[Leo] = "wait" /\ ret[Leo] > 0
  /\ ret' = [ret EXCEPT ![Leo] = @ - 1]
  /\ IF info.err[next] # Good \/ left = 1
     THEN state' = [state EXCEPT ![Leo] = "idle"] /\ next' = 0 /\ left' = 0
     ELSE next' = 1 /\ left' = 1 /\ UNCHANGED state
  /\ UNCHANGED <<cmdQ, token, evtQ, manager, probe, pi, masks, disk, moved>>

\* A command to the mechanics; its end is an interrupt of the drive.
LeoSeek ==
  /\ ExpansionKit /\ BusFree
  /\ state' = [state EXCEPT ![Leo] = "seek"]
  /\ info' = [info EXCEPT !.type = "none"]
  /\ UNCHANGED <<queues, manager, probe, next, left, pi, masks, beat, got, gotC2, moved>>

-----------------------------------------------------------------------------
(* The manager, __osDevMgrMain.                                            *)

\* The next command.  For a transfer of the disk it sets up the count first.
MgrCommand ==
  /\ mgrPc = "command" /\ cmdQ # <<>>
  /\ mb' = Head(cmdQ) /\ cmdQ' = Tail(cmdQ)
  /\ mgrPc' = "access"
  /\ IF Head(cmdQ) = Leo
     THEN /\ info' = [info EXCEPT !.sectorNum = -1]
          /\ messageSend' = (info.mode = "track" /\ info.type = "read")
     ELSE UNCHANGED <<info, messageSend>>
  /\ UNCHANGED <<token, evtQ, ret, clients, pi, masks, beat, got, gotC2, moved>>

\* While the drive transfers, only its own interrupt counts.
MaskPi == piOn' = FALSE

\* The token, and the start of the transfer: of the DMA, or of the drive's
\* buffer manager with the PI's interrupt masked.
MgrAccess ==
  /\ mgrPc = "access" /\ token = 1 /\ dma = NoDma
  /\ token' = 0
  /\ mgrPc' = "event"
  /\ IF mb = Leo
     THEN beat' = 0 /\ MaskPi /\ UNCHANGED dma
     ELSE dma' = [what |-> "copy", for |-> mb, block |-> 0] /\ UNCHANGED <<beat, piOn>>
  /\ UNCHANGED <<cmdQ, evtQ, ret, mb, messageSend, clients, piIntr, cartOn,
                 info, got, gotC2, moved>>

\* The end of a copy.
MgrEndCopy ==
  /\ mgrPc = "event" /\ mb # Leo /\ evtQ = 1
  /\ evtQ' = 0 /\ Tell(mb)
  /\ token' = 1
  /\ mgrPc' = "command" /\ mb' = Idle
  /\ UNCHANGED <<cmdQ, messageSend, clients, pi, masks, disk, moved>>

\* Mutant: the first block's end is taken for that of the track.
FollowsNot(err) == FALSE

\* Does the end of another block follow?
Follows(err) == messageSend /\ err[0] = Good

\* The end of a block of the disk, or of the whole.  Error 29 stands for an
\* interrupt of the drive that found the last DMA under way: the manager
\* stops the drive, waits for the PI, and unmasks both interrupts.
MgrEndBlock ==
  /\ mgrPc = "event" /\ mb = Leo /\ evtQ = 1
  /\ evtQ' = 0 /\ Tell(Leo)
  /\ LET b == info.blockNum
         late == info.err[b] = 29
         err == IF late THEN [info.err EXCEPT ![b] = 4] ELSE info.err
     IN  /\ late => dma = NoDma
         /\ info' = [info EXCEPT !.err = err]
         /\ IF late
            THEN beat' = Off /\ piIntr' = FALSE /\ piOn' = TRUE /\ cartOn' = TRUE
            ELSE UNCHANGED <<beat, piIntr, piOn, cartOn>>
         /\ IF Follows(err)
            THEN messageSend' = FALSE /\ UNCHANGED <<token, mgrPc, mb>>
            ELSE /\ token' = 1 /\ mgrPc' = "command" /\ mb' = Idle
                 /\ UNCHANGED messageSend
  /\ UNCHANGED <<cmdQ, clients, dma, got, gotC2, moved>>

\* The manager has nothing to do but to wait.  It is more urgent than every
\* client, and the interrupts of the drive are a sector's time apart: neither
\* finds it at work.
MgrWaits ==
  /\ ~(mgrPc = "command" /\ cmdQ # <<>>)
  /\ ~(mgrPc = "access" /\ token = 1)
  /\ ~(mgrPc = "event" /\ evtQ = 1)

-----------------------------------------------------------------------------
(* The PI and its interrupt.                                               *)

\* A DMA ends: the data is in memory, and an interrupt is pending.
DmaDone ==
  /\ dma # NoDma
  /\ dma' = NoDma /\ piIntr' = TRUE
  /\ moved' = IF dma.what = "copy" /\ moved[dma.for] < RetLen(dma.for)
              THEN [moved EXCEPT ![dma.for] = @ + 1] ELSE moved
  /\ got' = IF dma.what = "sector" THEN [got EXCEPT ![dma.block] = @ + 1] ELSE got
  /\ gotC2' = IF dma.what = "c2" THEN [gotC2 EXCEPT ![dma.block] = TRUE] ELSE gotC2
  /\ UNCHANGED <<queues, manager, clients, masks, info, beat>>

\* The interrupt handler sends the PI's event; a full queue loses it.
PiInterrupt ==
  /\ piIntr /\ piOn
  /\ piIntr' = FALSE
  /\ evtQ' = 1
  /\ UNCHANGED <<cmdQ, token, ret, manager, clients, dma, masks, disk, moved>>

-----------------------------------------------------------------------------
(* The drive and its interrupt, __osLeoInterrupt.  What the drive asks for *)
(* at an interrupt is `kind': the DMA of a sector, nothing, or the         *)
(* transfer of the C2 data that ends a block.                              *)

Kinds == {"data", "none", "c2"}

\* What a drive asks for that counts its sectors right.
Expected ==
  IF info.type = "write"
  THEN IF beat < Sectors * (IF info.mode = "track" THEN 2 ELSE 1)
       THEN "data" ELSE "none"
  ELSE IF info.mode = "sector" \/ beat < Sectors THEN "data"
  ELSE IF beat < Sectors + Gap THEN "none" ELSE "c2"

blk == info.blockNum

\* At the first sector of the second block of a track, which is being read,
\* the first block is over: its C2 data has come.
SecondBegins ==
  info.type = "read" /\ info.sectorNum = -1 /\ info.mode = "track" /\ blk = 1

\* An interrupt of a transfer that is handled when the PI is not busy.
Asks(kind) ==
  /\ beat # Off /\ cartOn /\ dma = NoDma
  /\ MgrWaits
  /\ \/ kind = Expected
     \/ beat < MaxBeat /\ (IF SecondBegins THEN "first" ELSE "count") \in Faults

\* Mutant: the interrupt of the last sector's DMA is left pending.
StopPending(err) ==
  /\ info' = [info EXCEPT !.err[blk] = err]
  /\ evtQ' = 1 /\ beat' = Off /\ piOn' = TRUE
  /\ UNCHANGED piIntr

\* __osLeoResume: the PI's event, unless the queue is full.  The drive stops,
\* by itself or reset by __osLeoAbnormalResume; its error is noted.
Stop(err) ==
  /\ info' = [info EXCEPT !.err[blk] = err]
  /\ evtQ' = 1
  /\ beat' = Off
  /\ piIntr' = FALSE /\ piOn' = TRUE

unmoved == <<cmdQ, token, ret, manager, clients, cartOn, got, gotC2, moved>>

\* The last DMA is not over: an error, and no more interrupts of the drive.
\* If the drive's mechanics are ready while another client uses the PI, the
\* handler does the same.
DriveMeetsDma ==
  /\ beat # Off \/ state[Leo] = "seek"
  /\ cartOn /\ dma # NoDma
  /\ MgrWaits
  /\ cartOn' = FALSE
  /\ info' = [info EXCEPT !.err[blk] = 29]
  /\ evtQ' = 1
  /\ UNCHANGED <<cmdQ, token, ret, manager, clients, pi, piOn, beat, got, gotC2, moved>>

\* The mechanics are ready: an event for Leo, which goes on.
MechaReady ==
  /\ state[Leo] = "seek" /\ cartOn /\ dma = NoDma
  /\ MgrWaits
  /\ info' = [info EXCEPT !.err[blk] = Good]
  /\ state' = [state EXCEPT ![Leo] = "idle"]
  /\ UNCHANGED <<queues, manager, probe, next, left, pi, masks, beat, got, gotC2, moved>>

BufferError ==
  /\ beat # Off /\ cartOn /\ dma = NoDma /\ "buffer" \in Faults
  /\ MgrWaits
  /\ info.type # "none"
  /\ Stop(Pending)
  /\ UNCHANGED <<unmoved, dma>>

SectorDma == [what |-> "sector", for |-> Leo, block |-> blk]

WriteSector ==
  /\ info.type = "write" /\ Asks("data")
  /\ info' = [info EXCEPT !.sectorNum = @ + 1]
  /\ dma' = SectorDma
  /\ beat' = beat + 1
  /\ UNCHANGED <<unmoved, evtQ, piIntr, piOn>>

\* Mutant: the number of sectors is not looked at.
WriteEndAny ==
  /\ info.type = "write" /\ \E kind \in {"none", "c2"} : Asks(kind)
  /\ Stop(Good)
  /\ UNCHANGED <<unmoved, dma>>

WriteEnd ==
  /\ info.type = "write" /\ \E kind \in {"none", "c2"} : Asks(kind)
  /\ Stop(IF info.sectorNum + 1 = Sectors * (IF info.mode = "track" THEN 2 ELSE 1)
          THEN Good ELSE 24)
  /\ UNCHANGED <<unmoved, dma>>

(* Reading: the checks in the order of the code.                           *)

SystemOver ==
  info.mode = "sector" /\ info.sectorNum > info.c1[blk] + LastSystem

TooManyC1 ==
  /\ info.c1[blk] >= C1Limit
  /\ info.mode # "sector" \/ info.sectorNum > Sectors - 3

\* The errors of the sector, counted if C1 gave up on it.
Counted(bad) == [info EXCEPT !.c1[blk] = IF bad THEN @ + 1 ELSE @]

ReadSystemEnd ==
  /\ info.type = "read" /\ info.mode = "sector"
  /\ \E kind \in Kinds :
       /\ Asks(kind)
       /\ \/ SystemOver /\ Stop(Good)
          \/ ~SystemOver /\ kind # "data" /\ Stop(23)
  /\ UNCHANGED <<unmoved, dma>>

\* May the handler go on to the sector?
Readable(kind, bad) ==
  /\ info.type = "read" /\ Asks(kind)
  /\ info.mode = "sector" => ~SystemOver /\ kind = "data"
  /\ ~(bad /\ TooManyC1)

ReadTooManyC1 ==
  /\ info.type = "read"
  /\ \E kind \in Kinds :
       Asks(kind) /\ (info.mode = "sector" => ~SystemOver /\ kind = "data")
  /\ TooManyC1
  /\ Stop(23)
  /\ UNCHANGED <<unmoved, dma>>

C2InPlace == info.sectorNum + 1 = Sectors + Gap

\* The C2 data of a block.  The end of its DMA is the end of the transfer,
\* unless a second block follows: its end is then told at the next interrupt.
ReadC2(bad) ==
  /\ Readable("c2", bad) /\ C2InPlace
  /\ dma' = [what |-> "c2", for |-> Leo, block |-> blk]
  /\ IF info.mode = "track" /\ blk = 0
     THEN /\ info' = [Counted(bad) EXCEPT !.blockNum = 1, !.sectorNum = -1,
                                          !.err[0] = Pending]
          /\ beat' = 0
          /\ UNCHANGED <<piIntr, piOn>>
     ELSE /\ info' = [Counted(bad) EXCEPT !.type = "none", !.err[blk] = Good]
          /\ beat' = Off
          /\ piIntr' = FALSE /\ piOn' = TRUE
  /\ UNCHANGED <<unmoved, evtQ>>

\* C2 data out of place.
ReadC2Early(bad) ==
  /\ Readable("c2", bad) /\ ~C2InPlace
  /\ info' = [Counted(bad) EXCEPT !.err[blk] = 24]
  /\ evtQ' = 1 /\ beat' = Off /\ piIntr' = FALSE /\ piOn' = TRUE
  /\ UNCHANGED <<unmoved, dma>>

\* Data that C1 found no error in must have none in C2.
ReadFirstBad(kind, bad) ==
  /\ kind # "c2" /\ Readable(kind, bad) /\ SecondBegins
  /\ info.c1[0] = 0
  /\ info' = [Counted(bad) EXCEPT !.err[0] = 23]
  /\ evtQ' = 1 /\ beat' = Off /\ piIntr' = FALSE /\ piOn' = TRUE
  /\ UNCHANGED <<unmoved, dma>>

ReadSector(kind, bad) ==
  /\ kind # "c2" /\ Readable(kind, bad)
  /\ LET n == info.sectorNum + 1
         first == IF SecondBegins THEN [Counted(bad) EXCEPT !.err[0] = Good]
                  ELSE Counted(bad)
         wrong == IF kind = "data" THEN n > Sectors - 1 ELSE n <= Sectors - 1
     IN  /\ info' = [first EXCEPT !.sectorNum = n,
                        !.err[blk] = IF wrong THEN 24
                                     ELSE IF kind = "data" THEN Good ELSE @]
         /\ evtQ' = IF SecondBegins \/ wrong THEN 1 ELSE evtQ
         /\ IF wrong
            THEN beat' = Off /\ piIntr' = FALSE /\ piOn' = TRUE
            ELSE beat' = beat + 1 /\ UNCHANGED <<piIntr, piOn>>
         /\ dma' = IF kind = "data" /\ ~wrong THEN SectorDma ELSE dma
  /\ UNCHANGED unmoved

Read ==
  \/ ReadSystemEnd \/ ReadTooManyC1
  \/ \E bad \in BOOLEAN :
       \/ ReadC2(bad) \/ ReadC2Early(bad)
       \/ \E kind \in Kinds : ReadFirstBad(kind, bad) \/ ReadSector(kind, bad)

Transfer == WriteSector \/ WriteEnd \/ Read

-----------------------------------------------------------------------------
Manager == MgrCommand \/ MgrAccess \/ MgrEndCopy \/ MgrEndBlock

\* Every client is less urgent than the manager.
Clients ==
  /\ MgrWaits
  /\ \/ \E c \in Copier : Copy(c) \/ CopyReturn(c)
     \/ \E c \in Streamer : Stream(c)
     \/ \E p \in Prober : ProbeGet(p) \/ ProbeRel(p)
     \/ \E type \in {"read", "write"}, mode \in Modes : LeoTransfer(type, mode)
     \/ LeoReturn \/ LeoSeek

Hardware ==
  DmaDone \/ PiInterrupt \/ DriveMeetsDma \/ MechaReady \/ BufferError \/ Transfer

Next == Manager \/ Clients \/ Hardware

Spec == Init /\ [][Next]_vars

\* The manager waits for every event, so that the less urgent threads get the
\* processor again and again: strong fairness for them, and for the taking of
\* the token, which others take in between.
FairSpec ==
  /\ Spec
  /\ WF_vars(MgrCommand) /\ SF_vars(MgrAccess)
  /\ WF_vars(MgrEndCopy) /\ WF_vars(MgrEndBlock)
  /\ WF_vars(DmaDone) /\ WF_vars(PiInterrupt)
  /\ WF_vars(Transfer) /\ WF_vars(MechaReady)
  /\ SF_vars(MgrWaits /\ LeoReturn)
  /\ \A c \in Copier : SF_vars(MgrWaits /\ CopyReturn(c))
  /\ \A p \in Prober : SF_vars(MgrWaits /\ ProbeRel(p))

-----------------------------------------------------------------------------
(* Properties.                                                             *)

\* Whoever takes the token finds the bus at rest: no DMA, no interrupt and no
\* event of an earlier transfer, which would be taken for the end of the next
\* one, and both interrupts unmasked.
BusAtRest ==
  mgrPc # "event" =>
    /\ dma = NoDma /\ ~piIntr /\ evtQ = 0
    /\ piOn /\ cartOn /\ beat = Off

\* A block of the disk that Leo is told of, without an error, is in memory
\* (or, written, has left it): every sector, and the C2 data.
BlocksAreWhole ==
  state[Leo] = "wait" /\ ret[Leo] > 0 /\ info.err[next] = Good /\ info.mode # "sector" =>
    \/ got[next] = Sectors /\ gotC2[next]
    \/ info.type = "write" /\ got[0] = Sectors * (IF info.mode = "track" THEN 2 ELSE 1)

\* For the threads that copy, the manager is what DmaService says: the data is
\* there when the wait returns, and every wait returns.
Service ==
  INSTANCE DmaService WITH User <- Copier,
    copy <- [c \in Copier |-> IF state[c] = "idle" THEN "none"
                             ELSE IF moved[c] > 0 THEN "moved" ELSE "asked"]
CopiesReturn   == Service!FairSpec

\* Every command of the disk manager ends, whatever the drive does.
LeoGoesOn == state[Leo] # "idle" ~> state[Leo] = "idle"
=============================================================================
