----------------------------- MODULE AudioCmds -----------------------------
(***************************************************************************)
(* The ring of commands for the sound (src/audio/rom/lib/thread.c).  The   *)
(* game thread and, while something fades out, the audio thread queue      *)
(* commands (AudioThread_QueueCmd); both announce what has been queued     *)
(* (AudioThread_ScheduleProcessCmds) in a message queue of four places,    *)
(* and the audio thread carries out what has been announced                *)
(* (AudioThread_ProcessCmds).  One command resets the audio heap: the game *)
(* then waits until that is over (Audio_SetSpec).                          *)
(*                                                                         *)
(* The audio thread is the more urgent of the two: a retrace wakes it at   *)
(* any step of the game thread, which only goes on when the audio thread   *)
(* waits for the next retrace, or for a load that a command asks for.      *)
(* AUDIOCMD_GLOBAL_STOP_AUDIOCMDS, which nobody uses, is left out, and so  *)
(* is the reset button.                                                    *)
(***************************************************************************)
EXTENDS Naturals, Sequences

CONSTANTS
  RingSize,      \* entries of gThreadCmdBuffer, and how far a u8 counts: 256
  ProcLen,       \* length of gThreadCmdProcMsg: 4
  MaxCmds,       \* bound: how many commands are queued
  PreemptInside  \* may a retrace come while the game is in one of these calls?

ASSUME RingAssumption ==
  /\ RingSize \in Nat /\ RingSize >= 2
  /\ ProcLen \in Nat \ {0}
  /\ MaxCmds \in Nat
  /\ PreemptInside \in BOOLEAN

Positions == 0..RingSize - 1
Commands  == 1..MaxCmds          \* in the order in which they are queued
NoCommand == 0

VARIABLES
  buffer,             \* gThreadCmdBuffer
  writePos, readPos,  \* gThreadCmdWritePos and gThreadCmdReadPos
  procQ,              \* gThreadCmdProcQueue: ranges of the ring
  gamePc, gameOp,     \* the game thread: where it is, and in which operation
  slot, next, range,  \* its registers
  audioPc,            \* the audio thread
  curPos, endPos,     \* gCurCmdReadPos, and the end of the range it is in
  resetStatus,        \* gResetStatus
  fadeLeft,           \* gResetFadeoutFramesLeft
  resetQ,             \* gAudioResetQueue, one message
  queued,             \* history: the number of commands
  resets,             \* history: those that reset the audio heap
  carried             \* history: the commands carried out

ringVars  == <<buffer, writePos, queued, resets>>
gameVars  == <<gamePc, gameOp, slot, next, range>>
audioVars == <<audioPc, curPos, endPos, carried>>
heapVars  == <<resetStatus, fadeLeft>>

vars == <<ringVars, readPos, procQ, gameVars, audioVars, heapVars, resetQ>>

Succ(p) == (p + 1) % RingSize
Pred(p) == (p + RingSize - 1) % RingSize

Distance(from, to) == (to + RingSize - from) % RingSize

-----------------------------------------------------------------------------
(* What the ring holds.                                                    *)

\* Where the commands that have not been announced begin; a range that has just
\* been sent counts as announced.
Announced == IF gamePc = "mark" THEN range.to ELSE readPos

\* Where the next command to carry out is.
First == CASE audioPc = "run" -> curPos
           [] audioPc # "run" /\ procQ # <<>> -> Head(procQ).from
           [] OTHER -> Announced

\* The end of what is queued: the position that AudioThread_QueueCmd has just
\* counted up does not count until it has found that the ring is not full.
Last == IF gamePc = "check" THEN Pred(next) ELSE writePos

\* The commands queued but not carried out, oldest first.
Pending ==
  [i \in 1..Distance(First, Last) |-> buffer[(First + i - 1) % RingSize]]

Full == Len(Pending) = RingSize - 1

\* Assumed of the callers: nobody queues so much that the ring overtakes the
\* commands that have been announced.
NoOverrun == ~Full \/ First = Announced

-----------------------------------------------------------------------------
Init ==
  /\ buffer = [p \in Positions |-> NoCommand]
  /\ writePos = 0 /\ readPos = 0 /\ procQ = <<>>
  /\ gamePc = "idle" /\ gameOp = "play"
  /\ slot = 0 /\ next = 0 /\ range = [from |-> 0, to |-> 0]
  /\ audioPc = "wait" /\ curPos = 0 /\ endPos = 0
  /\ resetStatus = 0 /\ fadeLeft = 0 /\ resetQ = FALSE
  /\ queued = 0 /\ resets = {} /\ carried = <<>>

-----------------------------------------------------------------------------
(* The game thread.                                                        *)

GameStep(from, to) ==
  /\ audioPc \in {"wait", "take", "run"}
  /\ gamePc = from /\ gamePc' = to
  /\ UNCHANGED <<audioVars, heapVars>>

\* AudioThread_QueueCmd, of a command that the game thread plays.
GameQueue ==
  /\ GameStep("idle", "store")
  /\ queued < MaxCmds /\ NoOverrun
  /\ gameOp' = "play" /\ slot' = writePos
  /\ UNCHANGED <<ringVars, readPos, procQ, next, range, resetQ>>

\* Audio_SetSpec: AudioThread_ResetAudioHeap empties the queue that is to
\* tell of the end, queues the command and announces it.  No reset goes on,
\* because the game has waited for the end of the last one; and the ring is
\* not full, or else the game would wait for ever.
GameSetSpec ==
  /\ GameStep("idle", "store")
  /\ queued < MaxCmds /\ ~Full
  /\ gameOp' = "spec" /\ slot' = writePos
  /\ resetQ' = FALSE
  /\ UNCHANGED <<ringVars, readPos, procQ, next, range>>

GameStore ==
  /\ GameStep("store", "load")
  /\ queued' = queued + 1
  /\ buffer' = [buffer EXCEPT ![slot] = queued']
  /\ resets' = IF gameOp = "spec" THEN resets \cup {queued'} ELSE resets
  /\ UNCHANGED <<writePos, readPos, procQ, gameOp, slot, next, range, resetQ>>

\* gThreadCmdWritePos++ is a load and a store.
GameLoad ==
  /\ GameStep("load", "bump")
  /\ next' = Succ(writePos)
  /\ UNCHANGED <<ringVars, readPos, procQ, gameOp, slot, range, resetQ>>

GameBump ==
  /\ GameStep("bump", "check")
  /\ writePos' = next
  /\ UNCHANGED <<buffer, queued, resets, readPos, procQ, gameOp, slot, next,
                 range, resetQ>>

\* The command is dropped if the ring is full.
GameCheck ==
  /\ GameStep("check", IF gameOp = "spec" THEN "announce" ELSE "idle")
  /\ writePos' = IF next = readPos THEN Pred(next) ELSE writePos
  /\ UNCHANGED <<buffer, queued, resets, readPos, procQ, gameOp, slot, next,
                 range, resetQ>>

\* AudioThread_ScheduleProcessCmds, once per frame (Audio_Update) and more.
GameAnnounce ==
  /\ \/ GameStep("announce", "send") /\ UNCHANGED gameOp
     \/ GameStep("idle", "send") /\ gameOp' = "play"
  /\ range' = [from |-> readPos, to |-> writePos]
  /\ UNCHANGED <<ringVars, readPos, procQ, slot, next, resetQ>>

AfterAnnounce == IF gameOp = "spec" THEN "spin" ELSE "idle"

\* osSendMesg does not wait, and fails when the queue is full.
GameSend ==
  /\ \/ /\ Len(procQ) < ProcLen
        /\ GameStep("send", "mark")
        /\ procQ' = Append(procQ, range)
     \/ /\ Len(procQ) = ProcLen
        /\ GameStep("send", AfterAnnounce)
        /\ UNCHANGED procQ
  /\ UNCHANGED <<ringVars, readPos, gameOp, slot, next, range, resetQ>>

GameMark ==
  /\ GameStep("mark", AfterAnnounce)
  /\ readPos' = writePos
  /\ UNCHANGED <<ringVars, procQ, gameOp, slot, next, range, resetQ>>

\* AudioThread_ResetComplete, in the loop of Audio_SetSpec.
GameSpin ==
  /\ GameStep("spin", "idle")
  /\ resetQ
  /\ resetQ' = FALSE
  /\ UNCHANGED <<ringVars, readPos, procQ, gameOp, slot, next, range>>

GameInside == GameStore \/ GameLoad \/ GameBump \/ GameCheck \/ GameSend
              \/ GameMark \/ GameSpin

Game == GameQueue \/ GameSetSpec \/ GameAnnounce \/ GameInside

-----------------------------------------------------------------------------
(* The audio thread: Audio_SetupCreateTask, once per retrace.  A call of   *)
(* its own is one step, since the game thread never interrupts it.         *)

AudioStep(from, to) ==
  /\ audioPc = from /\ audioPc' = to
  /\ UNCHANGED gameVars

AudioWake ==
  /\ PreemptInside \/ gamePc \in {"idle", "spin"}
  /\ AudioStep("wait", "fade")
  /\ UNCHANGED <<ringVars, readPos, procQ, curPos, endPos, carried, heapVars,
                 resetQ>>

\* AudioThread_QueueCmd, by Audio_BgmFadeout and the like.
AudioQueue ==
  /\ AudioStep("fade", "fade")
  /\ queued < MaxCmds /\ NoOverrun
  /\ queued' = queued + 1
  /\ buffer' = [buffer EXCEPT ![writePos] = queued']
  /\ writePos' = IF Succ(writePos) = readPos THEN writePos ELSE Succ(writePos)
  /\ UNCHANGED <<resets, readPos, procQ, curPos, endPos, carried, heapVars,
                 resetQ>>

\* Mutant: the audio thread leaves it to the game thread.
AudioAnnounceNothing ==
  /\ AudioStep("fade", "task")
  /\ UNCHANGED <<ringVars, readPos, procQ, curPos, endPos, carried, heapVars,
                 resetQ>>

\* Mutant: what could not be announced counts as announced.
AudioAnnounceUnchecked ==
  /\ AudioStep("fade", "task")
  /\ procQ' = IF Len(procQ) < ProcLen
              THEN Append(procQ, [from |-> readPos, to |-> writePos]) ELSE procQ
  /\ readPos' = writePos
  /\ UNCHANGED <<ringVars, curPos, endPos, carried, heapVars, resetQ>>

AudioAnnounce ==
  /\ AudioStep("fade", "task")
  /\ IF Len(procQ) < ProcLen
     THEN /\ procQ' = Append(procQ, [from |-> readPos, to |-> writePos])
          /\ readPos' = writePos
     ELSE UNCHANGED <<procQ, readPos>>
  /\ UNCHANGED <<ringVars, curPos, endPos, carried, heapVars, resetQ>>

\* How many frames AudioHeap_ResetStep waits after each state but the last.
FadeFrames == [s \in 1..5 |-> CASE s = 5 -> 4 [] s = 4 -> 16 [] s = 3 -> 4
                              [] OTHER -> 0]

\* Mutant: nobody is told of the end of the reset.
ResetStepSilent ==
  /\ IF resetStatus \in {2, 3, 4} /\ fadeLeft # 0
     THEN fadeLeft' = fadeLeft - 1 /\ UNCHANGED resetStatus
     ELSE fadeLeft' = FadeFrames[resetStatus] /\ resetStatus' = resetStatus - 1
  /\ UNCHANGED resetQ

\* AudioHeap_ResetStep, and the message that it is over.
ResetStep ==
  /\ IF resetStatus \in {2, 3, 4} /\ fadeLeft # 0
     THEN fadeLeft' = fadeLeft - 1 /\ UNCHANGED resetStatus
     ELSE fadeLeft' = FadeFrames[resetStatus] /\ resetStatus' = resetStatus - 1
  /\ resetQ' = (resetQ \/ resetStatus' = 0)

\* AudioThread_CreateTask: while the heap is being reset no command is
\* carried out.
AudioTask ==
  /\ \/ resetStatus # 0 /\ AudioStep("task", "wait") /\ ResetStep
     \/ /\ resetStatus = 0 /\ AudioStep("task", "take")
        /\ UNCHANGED <<heapVars, resetQ>>
  /\ UNCHANGED <<ringVars, readPos, procQ, curPos, endPos, carried>>

AudioTake ==
  /\ \/ /\ procQ # <<>> /\ AudioStep("take", "run")
        /\ curPos' = Head(procQ).from /\ endPos' = Head(procQ).to
        /\ procQ' = Tail(procQ)
     \/ /\ procQ = <<>> /\ AudioStep("take", "wait")
        /\ UNCHANGED <<curPos, endPos, procQ>>
  /\ UNCHANGED <<ringVars, readPos, carried, heapVars, resetQ>>

\* AudioThread_ProcessCmds, one command at a time; its place in the ring then
\* holds no command (op 0), and to come by such a place does nothing.
AudioCarryOut ==
  /\ \/ /\ curPos # endPos /\ AudioStep("run", "run")
        /\ carried' = IF buffer[curPos] = NoCommand THEN carried
                      ELSE Append(carried, buffer[curPos])
        /\ resetStatus' = IF buffer[curPos] \in resets THEN 5 ELSE resetStatus
        /\ buffer' = [buffer EXCEPT ![curPos] = NoCommand]
        /\ curPos' = Succ(curPos)
     \/ /\ curPos = endPos /\ AudioStep("run", "take")
        /\ UNCHANGED <<carried, resetStatus, buffer, curPos>>
  /\ UNCHANGED <<writePos, queued, resets, readPos, procQ, endPos, fadeLeft,
                 resetQ>>

Audio == AudioWake \/ AudioQueue \/ AudioAnnounce \/ AudioTask \/ AudioTake
         \/ AudioCarryOut

Next == Game \/ Audio

Spec == Init /\ [][Next]_vars

\* Retraces come, also when the game thread is between two calls, and the audio
\* thread, done with one, leaves the game thread some time before the next: each
\* has strong fairness, since the other keeps taking its turn away.
FairSpec ==
  Spec /\ SF_vars(GameInside) /\ WF_vars(GameAnnounce /\ gamePc = "announce")
       /\ SF_vars(Audio)

-----------------------------------------------------------------------------
(* Properties.                                                             *)

Ranges == [from : Positions, to : Positions]

TypeOK ==
  /\ buffer \in [Positions -> Commands \cup {NoCommand}]
  /\ writePos \in Positions /\ readPos \in Positions
  /\ procQ \in Seq(Ranges) /\ Len(procQ) <= ProcLen
  /\ gamePc \in {"idle", "store", "load", "bump", "check", "announce", "send",
                 "mark", "spin"}
  /\ gameOp \in {"play", "spec"}
  /\ slot \in Positions /\ next \in Positions /\ range \in Ranges
  /\ audioPc \in {"wait", "fade", "task", "take", "run"}
  /\ curPos \in Positions /\ endPos \in Positions
  /\ resetStatus \in 0..5 /\ fadeLeft \in 0..16 /\ resetQ \in BOOLEAN
  /\ queued \in 0..MaxCmds /\ resets \subseteq Commands
  /\ carried \in Seq(Commands)
  \* Audio_SetSpec never comes while a reset goes on
  /\ gamePc = "store" /\ gameOp = "spec" => resetStatus = 0

Ring == INSTANCE MesgQueue WITH Messages <- Commands,
                                Capacity <- RingSize - 1, queue <- Pending

\* The ring is a first-in first-out queue: commands are carried out in their
\* order, each one once and as it was queued, round the ring, over messages
\* that find no place and over resets; one is lost only when the ring is full.
CommandsKeepOrder ==
  /\ Ring!Init
  /\ [][\/ Ring!Send(queued') /\ UNCHANGED carried
        \/ Ring!Receive /\ carried' = Append(carried, Head(Pending))
       ]_<<Pending, carried>>

In(c, s) == \E i \in DOMAIN s : s[i] = c

\* Every command that was not dropped is carried out in the end, also those
\* that were queued while the heap was being reset.
EveryCommandCarriedOut ==
  \A c \in Commands : In(c, Pending) ~> In(c, carried)

\* Audio_SetSpec comes to its end.
ResetEnds == gamePc = "spin" ~> gamePc = "idle"

\* "Audio thread commands to safely transfer information/requests/data from
\* the external graph thread to the internal audio thread"
\* (include/audiothread_cmd.h:5): none is carried out twice, or out of order.
CarriedOutInOrder ==
  \A i \in 1..Len(carried) - 1 : carried[i] < carried[i + 1]
=============================================================================
