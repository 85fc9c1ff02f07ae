------------------------------ MODULE DiskJobs ------------------------------
(***************************************************************************)
(* The service thread of the Expansion Kit (src/sys/disk/75000.c), which   *)
(* makes every transfer and every operation on the disk's files.           *)
(*                                                                         *)
(* Transfers are posted in a ring of slots by the game and by the sound,   *)
(* each slot announced by a message.  Operations on files are posted in    *)
(* the one record D_807C6EA8, announced by a NULL message; the poster only *)
(* looks at D_80794E18, which the service thread sets when it takes the    *)
(* NULL.  Three sorts of operation: "load" is waited for on gMFSMesgQ,     *)
(* "save" answers on the same queue and nobody waits, and "menu" is tried  *)
(* once per NULL until it succeeds, the game posting a NULL each frame     *)
(* (func_xk1_8002ED64) and looking at D_80794E14 to know the end.          *)
(*                                                                         *)
(* The service thread is more urgent than the sound, and the sound more    *)
(* than the game: a thread only runs while those above it wait.            *)
(***************************************************************************)
EXTENDS Integers, Sequences, FiniteSets

CONSTANTS
  RingLen,        \* D_807C6F10: 8 slots
  QueueLen,       \* D_807C7030: 8 messages
  Load, Save, Menu   \* the operations on files, by sort

Op == Load \cup Save \cup Menu
Owner == {"game", "audio"}

NULL == -1
None == "none"

ASSUME DiskAssumption ==
  /\ RingLen \in Nat /\ RingLen > 2 /\ QueueLen \in Nat \ {0}
  /\ None \notin Op
  /\ Load \cap Save = {} /\ Load \cap Menu = {} /\ Save \cap Menu = {}

Slots == 0..RingLen - 1
NoCopy == [owner |-> None, nr |-> 0]
Copies == [owner : Owner, nr : 1..RingLen + 1]
Scenes == {"quiet", "shared", "full"}

VARIABLES
  scene,          \* what goes on beside the operations on files, see below
  ring, wr, rd,   \* D_807C6F10, D_80794E2C, D_80794E28
  queue,          \* D_807C6E90
  rec,            \* D_807C6EA8: the operation it describes
  notice, result, \* its unk_08 (is there a message to show?) and unk_10
  busy, taken,    \* D_80794E14, D_80794E18
  svc, hand, op,  \* the service thread, its slot (D_807C7074), its operation
  recheck,        \* D_xk1_80033400
  mfsQ,           \* gMFSMesgQ: the operation whose answer it holds
  pc, nr,         \* the threads that post, and their count of transfers
  replies,        \* what is in gDmaMesgQueue, gCurAudioFrameDmaQueue
  awaits,         \* the operation the game waits for, or None
  doing,          \* history: what the service thread is about
  asked,          \* history: transfers asked for and not yet made
  state           \* history: of each operation

ringVars == <<ring, wr, rd, nr, replies, asked>>
recVars  == <<rec, op, notice, result, taken, recheck, mfsQ, awaits, state>>
vars == <<scene, ringVars, recVars, queue, busy, svc, hand, pc, doing>>

(***************************************************************************)
(* A behaviour is in one scene: the sound is silent and tries may fail, or *)
(* the sound and the game (Dma_RomCopy) share the ring, or the sound alone *)
(* posts more in a frame than the ring holds.  The game looks at           *)
(* D_80794E14 before a load, and before any operation if the sound may be  *)
(* making transfers.                                                       *)
(***************************************************************************)
AudioBurst == [quiet |-> 0, shared |-> RingLen - 2, full |-> RingLen + 1][scene]
Burst(p) == IF p = "audio" THEN AudioBurst ELSE 1
Patient == IF scene = "quiet" THEN Load ELSE Op

TypeOK ==
  /\ scene \in Scenes
  /\ ring \in [Slots -> Copies \cup {NoCopy}] /\ wr \in Slots /\ rd \in Slots
  /\ queue \in Seq(Slots \cup {NULL}) /\ Len(queue) <= QueueLen
  /\ {rec, op} \subseteq Op \cup {None} /\ notice \in BOOLEAN /\ result \in {0, 1, 2, 4}
  /\ {busy, taken, recheck} \subseteq BOOLEAN
  /\ svc \in {"receive", "transfer", "answer", "file", "try"}
  /\ hand \in Slots
  /\ mfsQ \in Op \cup {None} /\ awaits \in Op \cup {None}
  /\ pc \in [Owner -> {"away", "look", "post", "wait", "mfs"}]
  /\ {nr, replies} \subseteq [Owner -> 0..RingLen + 1]
  /\ doing \in Copies \cup {NoCopy} /\ asked \subseteq Copies
  /\ state \in [Op -> {"idle", "posted", "done"}]

Init ==
  /\ scene \in Scenes
  /\ ring = [s \in Slots |-> NoCopy] /\ wr = 0 /\ rd = 0 /\ queue = <<>>
  /\ rec = None /\ op = None /\ notice = FALSE /\ result = 0
  /\ busy = FALSE /\ taken = FALSE /\ recheck = FALSE
  /\ svc = "receive" /\ hand = 0 /\ mfsQ = None
  /\ pc = [p \in Owner |-> "away"] /\ nr = [p \in Owner |-> 0]
  /\ replies = [p \in Owner |-> 0] /\ awaits = None
  /\ doing = NoCopy /\ asked = {} /\ state = [o \in Op |-> "idle"]
-----------------------------------------------------------------------------
(* Who runs                                                                *)

ServiceRuns == svc = "answer" \/ (svc = "receive" /\ queue # <<>>)
AudioRuns == \/ pc["audio"] \in {"look", "post"}
             \/ pc["audio"] = "wait" /\ replies["audio"] = AudioBurst
MayRun(p) == ~ServiceRuns /\ (p = "game" => ~AudioRuns)

(***************************************************************************)
(* Posting a transfer.  The look at the indices comes before the           *)
(* interrupts are masked: the service thread and, for the game, the sound  *)
(* may run between Look and Post.                                          *)
(***************************************************************************)
Next1(i) == (i + 1) % RingLen
\* Mutant: all the slots are used.
FullLate == rd = wr /\ queue # <<>>

Full == rd = Next1(wr)

\* The sound is woken for its frame; the game comes to a copy.
Wake(p) ==
  /\ pc[p] = "away" /\ pc' = [pc EXCEPT ![p] = "look"]
  /\ IF p = "audio" THEN AudioBurst > 0
                    ELSE scene # "full" /\ MayRun(p) /\ awaits = None
  /\ UNCHANGED <<scene, ringVars, recVars, queue, busy, svc, hand, doing>>

Look(p) ==
  /\ MayRun(p) /\ pc[p] = "look" /\ ~Full
  /\ pc' = [pc EXCEPT ![p] = "post"]
  /\ UNCHANGED <<scene, ringVars, recVars, queue, busy, svc, hand, doing>>

Post(p) ==
  LET copy == [owner |-> p, nr |-> nr[p] + 1] IN
  /\ MayRun(p) /\ pc[p] = "post" /\ Len(queue) < QueueLen
  /\ ring' = [ring EXCEPT ![wr] = copy] /\ wr' = Next1(wr)
  /\ queue' = Append(queue, wr)
  /\ asked' = asked \cup {copy} /\ nr' = [nr EXCEPT ![p] = @ + 1]
  /\ pc' = [pc EXCEPT ![p] = IF nr'[p] = Burst(p) THEN "wait" ELSE "look"]
  /\ UNCHANGED <<scene, rd, replies, recVars, busy, svc, hand, doing>>

\* The thread has received as many answers as it posted transfers.
Collect(p) ==
  /\ MayRun(p) /\ pc[p] = "wait" /\ replies[p] = Burst(p)
  /\ replies' = [replies EXCEPT ![p] = 0] /\ nr' = [nr EXCEPT ![p] = 0]
  /\ pc' = [pc EXCEPT ![p] = "away"]
  /\ UNCHANGED <<scene, ring, wr, rd, asked, recVars, queue, busy, svc, hand, doing>>
-----------------------------------------------------------------------------
(* Posting an operation on files.                                          *)

GameFree == MayRun("game") /\ pc["game"] = "away" /\ awaits = None

\* Mutant: the flag is not looked at.
AcceptedAlways(o) == TRUE

\* The posters of the menus ask func_80767E30, the others look at the flag.
Accepted(o) == ~taken \/ (o \in Menu /\ ~notice)

\* A refused load is waited for all the same, a refused save is forgotten,
\* a refused operation of a menu shows a message.
Operate(o) ==
  /\ GameFree /\ state[o] = "idle" /\ Len(queue) < QueueLen
  /\ o \in Patient => ~busy
  /\ IF Accepted(o)
     THEN /\ rec' = o /\ queue' = Append(queue, NULL)
          /\ state' = [state EXCEPT ![o] = "posted"]
          /\ notice' = IF o \in Menu THEN TRUE ELSE notice
     ELSE UNCHANGED <<rec, queue, state, notice>>
  /\ pc' = [pc EXCEPT !["game"] = IF o \in Load THEN "mfs" ELSE "away"]
  /\ awaits' = IF o \in Save THEN None ELSE o
  /\ UNCHANGED <<scene, ringVars, op, result, taken, recheck, mfsQ, busy, svc, hand,
                 doing>>

MfsReturn ==
  /\ MayRun("game") /\ pc["game"] = "mfs" /\ mfsQ # None
  /\ mfsQ' = None /\ pc' = [pc EXCEPT !["game"] = "away"] /\ awaits' = None
  /\ state' = [state EXCEPT ![awaits] = "idle"]
  /\ UNCHANGED <<scene, ringVars, rec, op, notice, result, taken, recheck, queue,
                 busy, svc, hand, doing>>

\* The menus go on when the flag is down.
MenuGoesOn ==
  /\ MayRun("game") /\ awaits \in Menu /\ ~busy
  /\ awaits' = None /\ state' = [state EXCEPT ![awaits] = "idle"]
  /\ UNCHANGED <<scene, ringVars, rec, op, notice, result, taken, recheck, mfsQ,
                 queue, busy, svc, hand, pc, doing>>

\* Each frame that is drawn while the last try failed asks for another.
DrawFrame ==
  /\ MayRun("game") /\ pc["game"] = "away" /\ result \in {2, 4}
  /\ Len(queue) < QueueLen /\ queue' = Append(queue, NULL)
  /\ UNCHANGED <<scene, ringVars, recVars, busy, svc, hand, pc, doing>>
-----------------------------------------------------------------------------
(* The service thread.                                                     *)

\* Mutant: the flag D_80794E14 is not set.
ReceivesQuietly(m) == /\ svc = "receive" /\ queue # <<>> /\ Head(queue) = m
                      /\ queue' = Tail(queue) /\ busy' = busy

Receives(m) == /\ svc = "receive" /\ queue # <<>> /\ Head(queue) = m
               /\ queue' = Tail(queue) /\ busy' = TRUE

\* The slot is given back before it has been read.
Free == rd' = IF wr # rd THEN Next1(rd) ELSE rd

TakeSlot(s) ==
  /\ Receives(s) /\ Free /\ hand' = s /\ doing' = ring[s]
  /\ svc' = "transfer"
  /\ UNCHANGED <<scene, ring, wr, nr, replies, asked, recVars, pc>>

TransferDone ==
  /\ svc = "transfer" /\ svc' = "answer" /\ asked' = asked \ {doing}
  /\ UNCHANGED <<scene, ring, wr, rd, nr, replies, recVars, queue, busy, hand, pc,
                 doing>>

\* The queue to answer on is read from the slot, which must still be there.
Answer ==
  LET p == ring[hand].owner IN
  /\ svc = "answer" /\ svc' = "receive" /\ replies[p] < Burst(p)
  /\ replies' = [replies EXCEPT ![p] = @ + 1]
  /\ busy' = FALSE /\ doing' = NoCopy
  /\ UNCHANGED <<scene, ring, wr, rd, nr, asked, recVars, queue, hand, pc>>

\* A load or a save takes its arguments from the record, and empties the
\* queue of answers before it begins.
TakeFile ==
  /\ Receives(NULL) /\ rec \notin Menu
  /\ taken' = TRUE /\ svc' = "file" /\ op' = rec /\ mfsQ' = None
  /\ UNCHANGED <<scene, ringVars, rec, notice, result, recheck, awaits, state, hand,
                 pc, doing>>

FileDone ==
  /\ svc = "file" /\ svc' = "receive" /\ taken' = FALSE /\ busy' = FALSE
  /\ mfsQ' = op
  /\ state' = [state EXCEPT ![op] = IF op \in Save THEN "idle" ELSE "done"]
  /\ UNCHANGED <<scene, ringVars, rec, op, notice, result, recheck, awaits, queue, hand,
                 pc, doing>>

\* Mutant: the mark is not taken back, and each try only looks.
TakeMenuMarked ==
  /\ Receives(NULL) /\ rec \in Menu
  /\ taken' = TRUE /\ svc' = "try" /\ op' = rec /\ result' = 1
  /\ recheck' = (recheck \/ result # 0)
  /\ UNCHANGED <<scene, ringVars, rec, notice, mfsQ, awaits, state, hand, pc, doing>>

\* After "eject" the next try only looks whether the disk has been taken out.
TakeMenu ==
  /\ Receives(NULL) /\ rec \in Menu
  /\ taken' = TRUE /\ svc' = "try" /\ op' = rec /\ result' = 1
  /\ recheck' = (recheck \/ result = 4)
  /\ UNCHANGED <<scene, ringVars, rec, notice, mfsQ, awaits, state, hand, pc, doing>>

TrySucceeds ==
  /\ svc = "try" /\ ~recheck
  /\ svc' = "receive" /\ notice' = FALSE /\ result' = 0
  /\ busy' = FALSE /\ taken' = FALSE
  /\ state' = [state EXCEPT ![op] = "done"]
  /\ UNCHANGED <<scene, ringVars, rec, op, recheck, mfsQ, awaits, queue, hand, pc, doing>>

\* The thread goes back to its queue with both flags up.
TryFails ==
  /\ scene = "quiet" /\ svc = "try" /\ svc' = "receive"
  /\ \/ result' = 2 /\ notice' \in BOOLEAN /\ recheck' \in BOOLEAN
     \/ result' = 4 /\ notice' = TRUE /\ recheck' = FALSE
  /\ UNCHANGED <<scene, ringVars, rec, op, taken, mfsQ, awaits, state, queue, busy,
                 hand, pc, doing>>

\* The disk has been found again: the next try is a whole one.
DiskIsBack == TryFails /\ result' = 2 /\ ~recheck'
-----------------------------------------------------------------------------
Service == (\E s \in Slots : TakeSlot(s)) \/ Answer \/ TakeFile \/ TakeMenu
Disk == TransferDone \/ FileDone \/ TrySucceeds \/ TryFails
Steps(p) == Look(p) \/ Post(p) \/ Collect(p)
Thread(p) == Wake(p) \/ Steps(p)
Game == (\E o \in Op : Operate(o)) \/ MfsReturn \/ MenuGoesOn \/ DrawFrame

Next == Service \/ Disk \/ (\E p \in Owner : Thread(p)) \/ Game

Spec == Init /\ [][Next]_vars

(***************************************************************************)
(* Threads that can run do run; transfers and file operations end; a try   *)
(* that is repeated for ever finds the disk and succeeds in the end (the   *)
(* player puts the right one in).  The less urgent threads get the         *)
(* processor between the frames of the sound.                              *)
(***************************************************************************)
FairSpec ==
  /\ Spec /\ WF_vars(Service)
  /\ WF_vars(TransferDone) /\ WF_vars(FileDone)
  /\ WF_vars(TrySucceeds \/ TryFails) /\ SF_vars(TrySucceeds)
  /\ SF_vars(DiskIsBack)
  /\ SF_vars(Steps("audio"))
  /\ SF_vars(Steps("game") \/ MfsReturn \/ MenuGoesOn \/ DrawFrame)
-----------------------------------------------------------------------------
(***************************************************************************)
(* While the thread is about a transfer its slot keeps the words of it,    *)
(* although the slot has been given back, and the transfer is one that     *)
(* somebody still waits for: the one slot that is always left empty        *)
(* protects the one in hand (func_80767900 before the switch).             *)
(***************************************************************************)
HandIsWhole ==
  /\ svc \in {"transfer", "answer"} => ring[hand] = doing
  /\ svc = "transfer" => doing \in asked

(***************************************************************************)
(* What the game takes for the end of its operation is the end of it: when *)
(* it goes on, from gMFSMesgQ or because the flag is down, the load has    *)
(* been made or the menu's operation has succeeded.                        *)
(***************************************************************************)
GoesOnWhenDone == [][MfsReturn \/ MenuGoesOn => state[awaits] = "done"]_vars

(***************************************************************************)
(* An operation that has been posted is not lost: until it has been made   *)
(* it is being made, or the record still describes it and a NULL for it    *)
(* waits or the next frame will post one.                                  *)
(***************************************************************************)
PostedIsKept ==
  \A o \in Op : state[o] = "posted" =>
    \/ svc \in {"file", "try"} /\ op = o
    \/ rec = o /\ (result \in {2, 4} \/ \E i \in 1..Len(queue) : queue[i] = NULL)

OperationsEnd == \A o \in Op : awaits = o ~> awaits = None

=============================================================================
