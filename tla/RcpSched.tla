------------------------------ MODULE RcpSched ------------------------------
(***************************************************************************)
(* The scheduler of the Reality Co-Processor: the loop of Main_ThreadEntry *)
(* (sys_main.c) that shares the RSP between audio and graphics tasks, with *)
(* the two threads that give it work, Audio_ThreadEntry (sys_audio.c) and  *)
(* Game_ThreadEntry (sys_gfx.c), the reset thread, and the interrupts that *)
(* drive it: the end or yield of an RSP task (SP), the full sync of the    *)
(* RDP (DP) and the vertical retrace (VI).                                 *)
(*                                                                         *)
(* The threads have fixed priorities (reset 100, main 99, audio 20, game   *)
(* 10) and one processor.  Between two messages only interrupts can get in *)
(* the way of the main thread, and all they do is append to its queue and  *)
(* change the RSP, so that its handling of a message is one step.  The     *)
(* audio and game threads can lose the processor to the main thread, and   *)
(* the game thread to the audio thread, before each of their steps.        *)
(***************************************************************************)
EXTENDS Naturals, Sequences, FiniteSets

CONSTANTS
  MainQLen,      \* length of sMainThreadMsgBuf
  MaxPendingVi,  \* bound: retraces the main thread may leave unhandled
  Periods,       \* retraces per game frame that the game modes ask for
  MaxSyncs,      \* bound: full syncs the RDP may be behind the RSP
  MaxTroubles,   \* bound: retraces that find an audio task not over, and
                 \* the press of the reset button
  LateYield      \* may the graphics microcode yield after its full sync?

ASSUME QueueAssumption ==
  /\ MaxPendingVi \in Nat \ {0}
  /\ MaxSyncs \in Nat \ {0}
  /\ MaxTroubles \in Nat
  /\ MainQLen \in Nat
  /\ MaxPendingVi + 3 <= MainQLen

ASSUME EnvAssumption ==
  /\ Periods \subseteq Nat \ {0}
  /\ 1 \in Periods
  /\ LateYield \in BOOLEAN

Events     == {"SP", "DP", "VI", "AUDIO_SET", "GFX_SET"}
GfxTasks   == {"gfx0", "gfx1"}      \* D_802A6AC0[2], used in turn
AudioTasks == {"aud0", "aud1"}      \* gRspTask[2], used in turn
NoTask     == "none"

OtherGfx(t)   == IF t = "gfx0" THEN "gfx1" ELSE "gfx0"
OtherAudio(a) == IF a = "aud0" THEN "aud1" ELSE "aud0"

VARIABLES
  mainQ,           \* gMainThreadMesgQueue
  spTaskState,     \* sSpTaskState
  spTaskActive,    \* sSpTaskActive
  gfxTaskYielded,  \* sGfxTaskYielded
  gfxTaskQueued,   \* sGfxTaskQueued
  retraces,        \* D_800CCFB0 - D_800CCFB4
  period,          \* D_800CCFB8
  nextPeriod,      \* D_800CCFBC, written by the game modes
  curGfx,          \* gCurGfxTask
  curAudio,        \* gCurAudioOSTask
  yieldFlag,       \* OS_TASK_YIELDED in the flags of each graphics task
  yieldBuf,        \* gOSYieldData: the task saved in it, and how far it was
  rspTask,         \* the task whose work the RSP does, NoTask when halted
  rspSynced,       \* has it passed its full sync on to the RDP?
  spYield,         \* SP_STATUS_YIELD, set by the processor
  spYielded,       \* SP_STATUS_YIELDED, set by the microcode
  rdpSyncs,        \* full syncs the RDP has not reached
  audioTickQ,      \* gAudioTaskMesgQueue, one message
  frameTickQ,      \* D_800DCAB0, one message
  dpQ,             \* D_800DCAC8, one message
  audioPc, audioBuf, audioTask, \* audio thread; gRspTaskIndex; sCurAudioTask
  gamePc, gfxBuf,               \* game thread; D_800DCCFC
  resetPc,         \* reset thread, and gResetStarted
  troubles,        \* what has happened of these
  begins,          \* history: how often a task began since it was last set
  slow,            \* history: did the audio thread's last retrace find an audio
                   \* task that was not over?
  hasty            \* history: was gCurAudioOSTask written while a yield was
                   \* awaited for the task before?

schedVars == <<spTaskState, spTaskActive, gfxTaskYielded, gfxTaskQueued>>
tickVars  == <<retraces, period>>
rspVars   == <<rspTask, rspSynced, spYield, spYielded>>
taskVars  == <<yieldFlag, begins>>
audioVars == <<audioPc, audioBuf, audioTask, curAudio, slow, hasty>>
gameVars  == <<gamePc, gfxBuf, curGfx, nextPeriod>>

vars == <<mainQ, schedVars, tickVars, rspVars, taskVars, audioVars, gameVars,
          yieldBuf, rdpSyncs, audioTickQ, frameTickQ, dpQ, resetPc, troubles>>

ResetStarted == resetPc # "wait"    \* gResetStarted

\* The number of messages e that wait in the queue q.
Pending(q, e) == Cardinality({i \in DOMAIN q : q[i] = e})

Min2(a, b) == IF a <= b THEN a ELSE b

Trouble == troubles < MaxTroubles /\ troubles' = troubles + 1

-----------------------------------------------------------------------------
Init ==
  /\ \E n \in 0..MaxPendingVi : mainQ = [i \in 1..n |-> "VI"]
  /\ spTaskState = "INACTIVE" /\ spTaskActive = FALSE
  /\ gfxTaskYielded = FALSE /\ gfxTaskQueued = FALSE
  /\ retraces = 1 /\ period = 1 /\ nextPeriod = 1
  /\ curGfx = NoTask /\ curAudio = NoTask
  /\ yieldFlag = [t \in GfxTasks |-> FALSE]
  /\ yieldBuf = [task |-> NoTask, synced |-> FALSE]
  /\ rspTask = NoTask /\ rspSynced = FALSE
  /\ spYield = FALSE /\ spYielded = FALSE /\ rdpSyncs = 0
  /\ audioTickQ = FALSE /\ frameTickQ = FALSE /\ dpQ = FALSE
  /\ audioPc = "drain" /\ audioBuf = "aud0" /\ audioTask = NoTask
  /\ slow = FALSE /\ hasty = FALSE /\ troubles = 0
  /\ gamePc = "boot" /\ gfxBuf = "gfx0"
  /\ resetPc = "wait"
  /\ begins = [t \in GfxTasks \cup AudioTasks |-> 0]

-----------------------------------------------------------------------------
(* The RSP's tasks, as the main thread starts and yields them.             *)

\* osSpTaskStart, for tasks whose flags are "flags": with OS_TASK_YIELDED set
\* it resumes what the yield buffer holds, otherwise the task begins.
SpTaskStart(t, flags) ==
  /\ IF t \in GfxTasks /\ flags[t]
     THEN /\ rspTask' = yieldBuf.task
          /\ rspSynced' = yieldBuf.synced
          /\ yieldFlag' = [flags EXCEPT ![t] = FALSE]
          /\ UNCHANGED begins
     ELSE /\ rspTask' = t
          /\ rspSynced' = FALSE
          /\ yieldFlag' = flags
          /\ begins' = [begins EXCEPT ![t] = Min2(@ + 1, 2)]
  /\ spYield' = FALSE
  /\ spYielded' = FALSE

Sched_SpTaskYield ==
  /\ spYield' = TRUE
  /\ spTaskState' = "YIELDING"
  /\ spTaskActive' = TRUE
  /\ UNCHANGED <<rspTask, rspSynced, spYielded, taskVars>>

\* Mutant: sSpTaskState is left to say that a yield is awaited.
StartAudioStillYielding(flags) ==
  /\ SpTaskStart(curAudio, flags)
  /\ spTaskState' = "YIELDING"
  /\ spTaskActive' = TRUE

Sched_SpTaskStartAudio(flags) ==
  /\ SpTaskStart(curAudio, flags)
  /\ spTaskState' = "AUDIO"
  /\ spTaskActive' = TRUE

\* Sched_SpTaskClearStartGfx and Sched_SpTaskResumeGfx, which differ in the
\* performance counters that the first one clears.
Sched_SpTaskStartGfx ==
  /\ SpTaskStart(curGfx, yieldFlag)
  /\ spTaskState' = "GFX"
  /\ spTaskActive' = TRUE

\* What osSpTaskYielded(gCurGfxTask) leaves in the tasks' flags.
SpTaskYielded ==
  IF spYielded /\ spYield /\ curGfx \in GfxTasks
  THEN [yieldFlag EXCEPT ![curGfx] = TRUE] ELSE yieldFlag

-----------------------------------------------------------------------------
(* The main thread: one action per message at the head of its queue and    *)
(* per case of the switch on sSpTaskState.                                 *)

Receive(e) ==
  /\ resetPc # "spin"
  /\ mainQ # <<>>
  /\ Head(mainQ) = e
  /\ mainQ' = Tail(mainQ)
  /\ UNCHANGED <<audioVars, gameVars, yieldBuf, rdpSyncs, resetPc, troubles>>

SpWhileYielding ==
  /\ Receive("SP")
  /\ spTaskState = "YIELDING"
  /\ gfxTaskYielded' = (gfxTaskYielded \/ spYielded)
  /\ Sched_SpTaskStartAudio(SpTaskYielded)
  /\ UNCHANGED <<gfxTaskQueued, tickVars, audioTickQ, frameTickQ, dpQ>>

SpAudioResumeGfx ==
  /\ Receive("SP")
  /\ spTaskState = "AUDIO"
  /\ gfxTaskYielded
  /\ gfxTaskYielded' = FALSE
  /\ Sched_SpTaskStartGfx
  /\ UNCHANGED <<gfxTaskQueued, tickVars, audioTickQ, frameTickQ, dpQ>>

\* Mutant: sGfxTaskQueued is not reset.
StartGfxKeepsQueued ==
  /\ Receive("SP")
  /\ spTaskState = "AUDIO"
  /\ ~gfxTaskYielded
  /\ gfxTaskQueued
  /\ Sched_SpTaskStartGfx
  /\ UNCHANGED <<gfxTaskYielded, gfxTaskQueued, tickVars, audioTickQ,
                 frameTickQ, dpQ>>

SpAudioStartGfx ==
  /\ Receive("SP")
  /\ spTaskState = "AUDIO"
  /\ ~gfxTaskYielded
  /\ gfxTaskQueued
  /\ gfxTaskQueued' = FALSE
  /\ Sched_SpTaskStartGfx
  /\ UNCHANGED <<gfxTaskYielded, tickVars, audioTickQ, frameTickQ, dpQ>>

\* The end of a graphics task, or of an audio task with none to go on with.
\* The switch has no case for INACTIVE: setting INACTIVE again is the same.
SpIdle ==
  /\ Receive("SP")
  /\ \/ spTaskState \in {"GFX", "INACTIVE"}
     \/ spTaskState = "AUDIO" /\ ~gfxTaskYielded /\ ~gfxTaskQueued
  /\ spTaskState' = "INACTIVE"
  /\ spTaskActive' = FALSE
  /\ UNCHANGED <<gfxTaskYielded, gfxTaskQueued, rspVars, taskVars, tickVars,
                 audioTickQ, frameTickQ, dpQ>>

\* A retrace wakes the audio thread, and the game thread every "period"
\* retraces; both queues hold one message and further ones are dropped.
Retrace ==
  /\ Receive("VI")
  /\ audioTickQ' = TRUE
  /\ IF retraces + 1 >= period
     THEN /\ retraces' = 0
          /\ period' = nextPeriod
          /\ frameTickQ' = TRUE
     ELSE /\ retraces' = retraces + 1
          /\ UNCHANGED <<period, frameTickQ>>
  /\ UNCHANGED <<schedVars, rspVars, taskVars, dpQ>>

\* Mutant: a yield is asked for even when the RSP is idle.
AudioTaskSetAlwaysYields ==
  /\ Receive("AUDIO_SET")
  /\ Sched_SpTaskYield
  /\ UNCHANGED <<gfxTaskYielded, gfxTaskQueued, tickVars, audioTickQ,
                 frameTickQ, dpQ>>

AudioTaskSet ==
  /\ Receive("AUDIO_SET")
  /\ IF ~spTaskActive THEN Sched_SpTaskStartAudio(yieldFlag)
     ELSE IF spTaskState # "YIELDING" THEN Sched_SpTaskYield
     ELSE UNCHANGED <<spTaskState, spTaskActive, rspVars, taskVars>>
  /\ UNCHANGED <<gfxTaskYielded, gfxTaskQueued, tickVars, audioTickQ,
                 frameTickQ, dpQ>>

\* Mutant: a task for a busy RSP is not queued.
GfxTaskSetForgotten ==
  /\ Receive("GFX_SET")
  /\ IF ResetStarted \/ spTaskActive
     THEN UNCHANGED <<spTaskState, spTaskActive, rspVars, taskVars>>
     ELSE Sched_SpTaskStartGfx
  /\ UNCHANGED <<gfxTaskQueued, gfxTaskYielded, tickVars, audioTickQ,
                 frameTickQ, dpQ>>

\* Mutant: a task that is started is queued as well.
GfxTaskSetTwice ==
  /\ Receive("GFX_SET")
  /\ gfxTaskQueued' = TRUE
  /\ IF ResetStarted \/ spTaskActive
     THEN UNCHANGED <<spTaskState, spTaskActive, rspVars, taskVars>>
     ELSE Sched_SpTaskStartGfx
  /\ UNCHANGED <<gfxTaskYielded, tickVars, audioTickQ, frameTickQ, dpQ>>

\* Once gResetStarted is set a graphics task is dropped.
GfxTaskSet ==
  /\ Receive("GFX_SET")
  /\ IF ResetStarted
     THEN UNCHANGED <<spTaskState, spTaskActive, gfxTaskQueued, rspVars,
                      taskVars>>
     ELSE IF spTaskActive
     THEN /\ gfxTaskQueued' = TRUE
          /\ UNCHANGED <<spTaskState, spTaskActive, rspVars, taskVars>>
     ELSE Sched_SpTaskStartGfx /\ UNCHANGED gfxTaskQueued
  /\ UNCHANGED <<gfxTaskYielded, tickVars, audioTickQ, frameTickQ, dpQ>>

DpDone ==
  /\ Receive("DP")
  /\ dpQ' = TRUE
  /\ UNCHANGED <<schedVars, rspVars, taskVars, tickVars, audioTickQ,
                 frameTickQ>>

Main == \/ SpWhileYielding \/ SpAudioResumeGfx \/ SpAudioStartGfx \/ SpIdle
        \/ Retrace \/ AudioTaskSet \/ GfxTaskSet \/ DpDone

-----------------------------------------------------------------------------
(* The audio thread.  It runs when the main thread waits for a message.    *)

AudioMayRun == resetPc # "spin" /\ mainQ = <<>>

hwVars == <<rspVars, yieldBuf, rdpSyncs, troubles>>

\* The first osRecvMesg throws a retrace away that came while the thread was
\* building a task.
AudioDrain ==
  /\ AudioMayRun
  /\ audioPc = "drain"
  /\ audioTickQ' = FALSE
  /\ audioPc' = "wait"
  /\ UNCHANGED <<mainQ, schedVars, tickVars, hwVars, taskVars, audioBuf,
                 audioTask, curAudio, slow, hasty, gameVars, frameTickQ, dpQ,
                 resetPc>>

\* The next retrace: hand over the task built during the last one, if any,
\* by writing gCurAudioOSTask, and only then tell the main thread.
AudioTick ==
  /\ AudioMayRun
  /\ audioPc = "wait"
  /\ audioTickQ
  /\ audioTickQ' = FALSE
  /\ slow' = (spTaskState \in {"YIELDING", "AUDIO"})
  /\ IF audioTask # NoTask
     THEN /\ curAudio' = audioTask
          /\ hasty' = (spTaskState = "YIELDING")
          /\ begins' = [begins EXCEPT ![audioTask] = 0]
          /\ audioPc' = "send"
          /\ UNCHANGED audioBuf
     ELSE /\ audioPc' = "create"
          /\ audioBuf' = OtherAudio(audioBuf)
          /\ UNCHANGED <<curAudio, begins, hasty>>
  /\ UNCHANGED <<mainQ, schedVars, tickVars, hwVars, yieldFlag, audioTask,
                 gameVars, frameTickQ, dpQ, resetPc>>

AudioSend ==
  /\ AudioMayRun
  /\ audioPc = "send"
  /\ Len(mainQ) < MainQLen
  /\ mainQ' = Append(mainQ, "AUDIO_SET")
  /\ audioPc' = "create"
  /\ audioBuf' = OtherAudio(audioBuf)
  /\ UNCHANGED <<schedVars, tickVars, hwVars, taskVars, audioTask, curAudio,
                 slow, hasty, gameVars, audioTickQ, frameTickQ, dpQ, resetPc>>

\* AudioThread_CreateTask returns a task, or NULL while the audio heap is
\* being reset and once the reset button has silenced the sound.
AudioCreate(t) ==
  /\ AudioMayRun
  /\ audioPc = "create"
  /\ audioTask' = t
  /\ audioPc' = "drain"
  /\ UNCHANGED <<mainQ, schedVars, tickVars, hwVars, taskVars, audioBuf,
                 curAudio, slow, hasty, gameVars, audioTickQ, frameTickQ, dpQ,
                 resetPc>>

AudioCreateTask == AudioCreate(audioBuf)
AudioCreateNull == AudioCreate(NoTask)

Audio == AudioDrain \/ AudioTick \/ AudioSend \/ AudioCreateTask
         \/ AudioCreateNull

-----------------------------------------------------------------------------
(* The game thread.  It runs when the audio thread waits too: for a        *)
(* retrace, or for a cartridge DMA while it builds a task.                 *)

GameMayRun ==
  /\ AudioMayRun
  /\ \/ audioPc = "wait" /\ ~audioTickQ
     \/ audioPc = "create"

GameStep(from, to) ==
  /\ GameMayRun
  /\ gamePc = from
  /\ gamePc' = to
  /\ UNCHANGED <<schedVars, tickVars, hwVars, audioVars, audioTickQ, resetPc>>

\* A frame starts when the retraces it waits for are over: Gfx_InitBuffer
\* takes the other task and the other display list pool.  The first frame is
\* set without waiting for an earlier one.
GameTick ==
  /\ \/ GameStep("tick", "build")
     \/ GameStep("boot", "set")
  /\ frameTickQ
  /\ frameTickQ' = FALSE
  /\ gfxBuf' = OtherGfx(gfxBuf)
  /\ UNCHANGED <<mainQ, taskVars, curGfx, nextPeriod, dpQ>>

\* func_800690FC runs the game mode, which may ask for another frame rate,
\* and the display list is written to the pool.
GameBuild ==
  /\ GameStep("build", "dp")
  /\ nextPeriod' \in Periods
  /\ UNCHANGED <<mainQ, taskVars, curGfx, gfxBuf, frameTickQ, dpQ>>

\* Some modes wait for a retrace on the way, at the start of a race and in a
\* machine's display list: they throw away one that has come, and take the
\* next.
GameDrain ==
  /\ GameStep("build", "sync")
  /\ frameTickQ' = FALSE
  /\ UNCHANGED <<mainQ, taskVars, curGfx, gfxBuf, nextPeriod, dpQ>>

GameSync ==
  /\ GameStep("sync", "dp")
  /\ frameTickQ
  /\ frameTickQ' = FALSE
  /\ nextPeriod' \in Periods
  /\ UNCHANGED <<mainQ, taskVars, curGfx, gfxBuf, dpQ>>

\* Mutant: the game thread does not wait for the RDP.
GameDpNoWait ==
  /\ GameStep("dp", "set")
  /\ dpQ' = FALSE
  /\ UNCHANGED <<mainQ, taskVars, curGfx, gfxBuf, nextPeriod, frameTickQ>>

\* Wait until the RDP has drawn the frame before.
GameDp ==
  /\ GameStep("dp", "set")
  /\ dpQ
  /\ dpQ' = FALSE
  /\ UNCHANGED <<mainQ, taskVars, curGfx, gfxBuf, nextPeriod, frameTickQ>>

\* Gfx_SetTask writes the task and gCurGfxTask before it tells the main
\* thread.
GameSetTask ==
  /\ GameStep("set", "send")
  /\ yieldFlag' = [yieldFlag EXCEPT ![gfxBuf] = FALSE]
  /\ begins' = [begins EXCEPT ![gfxBuf] = 0]
  /\ curGfx' = gfxBuf
  /\ UNCHANGED <<mainQ, gfxBuf, nextPeriod, frameTickQ, dpQ>>

GameSend ==
  /\ GameStep("send", "tick")
  /\ Len(mainQ) < MainQLen
  /\ mainQ' = Append(mainQ, "GFX_SET")
  /\ UNCHANGED <<taskVars, curGfx, gfxBuf, nextPeriod, frameTickQ, dpQ>>

Game == GameTick \/ GameBuild \/ GameDrain \/ GameSync \/ GameDp
        \/ GameSetTask \/ GameSend

-----------------------------------------------------------------------------
(* The reset thread, above all others: it runs as far as its first wait    *)
(* (for the disk drive or a controller), and in the end never waits again. *)

ResetBegin ==
  /\ resetPc = "wait"
  /\ resetPc' = "started"
  /\ Trouble
  /\ UNCHANGED <<mainQ, schedVars, tickVars, rspVars, yieldBuf, rdpSyncs, taskVars,
                 audioVars, gameVars, audioTickQ, frameTickQ, dpQ>>

ResetSpin ==
  /\ resetPc = "started"
  /\ resetPc' = "spin"
  /\ UNCHANGED <<mainQ, schedVars, tickVars, hwVars, taskVars, audioVars,
                 gameVars, audioTickQ, frameTickQ, dpQ>>

-----------------------------------------------------------------------------
(* The hardware.  An interrupt's message is lost when the queue is full.   *)

\* osSendMesg without blocking, to the main thread's queue.
Interrupt(e) == mainQ' = IF Len(mainQ) < MainQLen THEN Append(mainQ, e)
                                                  ELSE mainQ

softVars == <<schedVars, tickVars, taskVars, audioVars, gameVars,
              audioTickQ, frameTickQ, dpQ, resetPc>>

\* The graphics microcode passes the full sync at the end of the display
\* list on to the RDP.
RspSync ==
  /\ rspTask \in GfxTasks
  /\ ~rspSynced
  /\ rdpSyncs < MaxSyncs
  /\ rspSynced' = TRUE
  /\ rdpSyncs' = rdpSyncs + 1
  /\ UNCHANGED <<mainQ, rspTask, spYield, spYielded, yieldBuf, softVars, troubles>>

\* The task is over.  An audio task takes no notice of SP_STATUS_YIELD.
RspDone ==
  /\ rspTask \in AudioTasks \/ (rspTask \in GfxTasks /\ rspSynced)
  /\ rspTask' = NoTask
  /\ rspSynced' = FALSE
  /\ Interrupt("SP")
  /\ UNCHANGED <<spYield, spYielded, yieldBuf, rdpSyncs, softVars, troubles>>

\* The graphics microcode sees SP_STATUS_YIELD: it saves itself and stops.
RspYield ==
  /\ rspTask \in GfxTasks
  /\ spYield
  /\ ~rspSynced \/ LateYield
  /\ yieldBuf' = [task |-> rspTask, synced |-> rspSynced]
  /\ rspTask' = NoTask
  /\ rspSynced' = FALSE
  /\ spYielded' = TRUE
  /\ Interrupt("SP")
  /\ UNCHANGED <<spYield, rdpSyncs, softVars, troubles>>

RdpDone ==
  /\ rdpSyncs > 0
  /\ rdpSyncs' = rdpSyncs - 1
  /\ Interrupt("DP")
  /\ UNCHANGED <<rspVars, yieldBuf, softVars, troubles>>

\* The audio thread waits for the retrace, and the task it set is over.
AudioReady ==
  /\ audioPc = "wait" /\ ~audioTickQ
  /\ Pending(mainQ, "AUDIO_SET") = 0
  /\ spTaskState \notin {"YIELDING", "AUDIO"}

\* The VI manager, whose messages the main thread never lets pile up.  Nothing
\* in the code makes an audio task be over before the next retrace.
ViRetrace ==
  /\ Pending(mainQ, "VI") < MaxPendingVi
  /\ \/ AudioReady /\ troubles' = troubles
     \/ ~AudioReady /\ Trouble
  /\ Interrupt("VI")
  /\ UNCHANGED <<rspVars, yieldBuf, rdpSyncs, softVars>>

Hardware == RspSync \/ RspDone \/ RspYield \/ RdpDone

Next == Main \/ Audio \/ Game \/ ResetBegin \/ ResetSpin \/ Hardware
        \/ ViRetrace

Spec == Init /\ [][Next]_vars

\* Threads that may run do run; the RSP, the RDP and the VI never stop.  A
\* display list is finite and a yielded task goes on where it was, so that it
\* comes to its end however often it yields (SF).  The audio thread does not
\* create NULL for ever: resetting the audio heap takes a few frames (SF).
Fairness ==
  /\ WF_vars(Main)
  /\ WF_vars(Audio)
  /\ WF_vars(Game)
  /\ SF_vars(AudioCreateTask)
  /\ SF_vars(RspSync)
  /\ WF_vars(RspDone) /\ WF_vars(RdpDone)
  /\ WF_vars(ViRetrace)

FairSpec == Spec /\ Fairness

-----------------------------------------------------------------------------
(* Properties.                                                             *)

TypeOK ==
  /\ mainQ \in Seq(Events)
  /\ spTaskState \in {"INACTIVE", "YIELDING", "AUDIO", "GFX"}
  /\ spTaskActive \in BOOLEAN
  /\ gfxTaskYielded \in BOOLEAN /\ gfxTaskQueued \in BOOLEAN
  /\ retraces \in Nat /\ period \in Periods /\ nextPeriod \in Periods
  /\ curGfx \in GfxTasks \cup {NoTask}
  /\ curAudio \in AudioTasks \cup {NoTask}
  /\ yieldFlag \in [GfxTasks -> BOOLEAN]
  /\ yieldBuf \in [task : GfxTasks \cup {NoTask}, synced : BOOLEAN]
  /\ rspTask \in GfxTasks \cup AudioTasks \cup {NoTask}
  /\ rspSynced \in BOOLEAN
  /\ spYield \in BOOLEAN /\ spYielded \in BOOLEAN
  /\ rdpSyncs \in Nat
  /\ audioTickQ \in BOOLEAN /\ frameTickQ \in BOOLEAN /\ dpQ \in BOOLEAN
  /\ audioPc \in {"drain", "wait", "send", "create"}
  /\ audioBuf \in AudioTasks
  /\ audioTask \in AudioTasks \cup {NoTask}
  /\ slow \in BOOLEAN /\ hasty \in BOOLEAN /\ troubles \in 0..MaxTroubles
  /\ gamePc \in {"boot", "tick", "build", "sync", "dp", "set", "send"}
  /\ gfxBuf \in GfxTasks
  /\ resetPc \in {"wait", "started", "spin"}
  /\ begins \in [GfxTasks \cup AudioTasks -> 0..2]

\* The scheduler's idea of the RSP is right: sSpTaskActive holds exactly
\* while the RSP works or one SP message, never two, tells that it stopped.
SpAccounting ==
  /\ spTaskActive = (spTaskState # "INACTIVE")
  /\ Pending(mainQ, "SP") = IF spTaskActive /\ rspTask = NoTask THEN 1 ELSE 0
  /\ ~spTaskActive => rspTask = NoTask

\* osSpTaskLoad spins while the RSP works: the main thread never starts a
\* task on a busy RSP, whatever the order of the messages.
NeverStartOnBusyRsp ==
  [][rspTask # NoTask => rspTask' \in {rspTask, NoTask}]_vars

\* The 16 places of gMainThreadMesgQueue are enough: apart from retraces at
\* most three messages wait, so that no SP or DP interrupt is ever dropped.
NoEventLost == Len(mainQ) <= MaxPendingVi + 3

\* A graphics task that was set begins once.  It takes several wrong steps to
\* break this, because gCurGfxTask is written behind the main thread's back,
\* before the main thread is told: the task it yielded, the task it resumes
\* and the task it was told of need not be the same.
GfxBeginsOnce == \A t \in GfxTasks : begins[t] <= 1

B(b) == IF b THEN 1 ELSE 0

\* Where a frame can be between Gfx_SetTask and the game thread's wait for
\* it: in the main thread's queue, queued, on the RSP, yielded, on the RDP,
\* and reported to the main thread and to the game thread.
FramesInFlight ==
  Pending(mainQ, "GFX_SET") + B(gfxTaskQueued)
  + B(rspTask \in GfxTasks /\ ~rspSynced) + B(spYielded) + B(gfxTaskYielded)
  + rdpSyncs + Pending(mainQ, "DP") + B(dpQ)

\* No frame is ever in two of these places, and none gets lost: exactly one
\* is on its way while the game thread works on the next one.  A reset drops
\* the frame.
OneFrameInFlight ==
  LET n == B(gamePc \in {"tick", "build", "sync", "dp"})
  IN  IF ResetStarted THEN FramesInFlight <= n ELSE FramesInFlight = n

\* The game thread writes a display list pool only when the RSP is through
\* with the frame that used it: that frame is neither waiting, nor yielded,
\* nor on the RSP before its full sync.
PoolExclusive ==
  gamePc \in {"build", "sync", "dp", "set"} =>
    /\ rspTask = gfxBuf => rspSynced
    /\ gfxTaskYielded => yieldBuf.task # gfxBuf \/ yieldBuf.synced
    /\ gfxTaskQueued => curGfx # gfxBuf

\* However long audio tasks take: one that was set begins once, although
\* gCurAudioOSTask is written before the main thread is told and names the task
\* to start when the RSP yields, too.  The one exception is a task that is set
\* while a yield is awaited for the task before.  And the audio thread fills a
\* command buffer only when the RSP does not read it, if its last retrace found
\* no audio task that was not over.
AudioTaskOnce ==
  /\ curAudio # NoTask /\ ~hasty => begins[curAudio] <= 1
  /\ audioPc = "create" /\ ~slow => rspTask # audioBuf

-----------------------------------------------------------------------------
(* The inductive invariant behind the safety properties, for a microcode   *)
(* that does not yield after its full sync.                                *)

\* What sSpTaskState says about the RSP.
RspMatchesState ==
  /\ spYield = (spTaskState = "YIELDING")
  /\ spYielded => spTaskState = "YIELDING" /\ rspTask = NoTask
  /\ gfxTaskYielded => /\ spTaskState \in {"AUDIO", "YIELDING"}
                       /\ rspTask \notin GfxTasks
  /\ rspTask \in GfxTasks   => spTaskState \in {"GFX", "YIELDING"}
  /\ rspTask \in AudioTasks => spTaskState \in {"AUDIO", "YIELDING"}
  /\ rspSynced => rspTask \in GfxTasks

\* Of the two threads that set tasks, only one can have a message waiting;
\* retraces are bounded.
QueueShares ==
  /\ Pending(mainQ, "AUDIO_SET") + Pending(mainQ, "GFX_SET") <= 1
  /\ Pending(mainQ, "VI") <= MaxPendingVi

\* gCurAudioOSTask points to a task when the main thread may start it.
AudioTaskKnown ==
  \/ audioPc = "send" \/ Pending(mainQ, "AUDIO_SET") > 0
  \/ spTaskState \in {"AUDIO", "YIELDING"}
  => curAudio \in AudioTasks

\* The frame in flight is the one gCurGfxTask points to.
FrameIsCurGfx ==
  /\ gamePc = "boot" => curGfx = NoTask
  /\ gamePc \notin {"boot", "set"} => curGfx \in GfxTasks
  /\ gamePc \in {"send", "tick"} => curGfx = gfxBuf
  /\ gamePc \in {"build", "sync", "dp", "set"} => curGfx # gfxBuf
  /\ rspTask \in GfxTasks /\ ~rspSynced => rspTask = curGfx
  /\ spYielded \/ gfxTaskYielded => yieldBuf = [task |-> curGfx, synced |-> FALSE]
  /\ \A t \in GfxTasks : yieldFlag[t] = (gfxTaskYielded /\ t = curGfx)

\* A frame that still has to begin has not begun before.
NotBegunYet ==
  \/ gamePc = "send" \/ Pending(mainQ, "GFX_SET") > 0 \/ gfxTaskQueued
  => \A t \in GfxTasks : t = curGfx => begins[t] = 0

IInv ==
  /\ TypeOK
  /\ SpAccounting
  /\ RspMatchesState
  /\ QueueShares
  /\ AudioTaskKnown
  /\ OneFrameInFlight
  /\ FrameIsCurGfx
  /\ NotBegunYet
  /\ GfxBeginsOnce

-----------------------------------------------------------------------------
(* The scheduler does for the game thread what FrameService says.          *)

frame == IF gamePc \in {"boot", "set", "send"} THEN "none"
         ELSE IF dpQ THEN "drawn" ELSE "set"

Service == INSTANCE FrameService

DrawsEachFrameOnce == Service!Spec

\* A frame that was set is drawn, whatever audio tasks come in between,
\* unless the player resets the console; if some of those take too long, later.
DrawsEveryFrame == frame = "set" ~> frame # "set" \/ ResetStarted

\* The audio thread is never stuck: a task it has set is begun, unless a hasty
\* one takes its place, or the reset thread has stopped everything.
AudioTaskBegins ==
  \A a \in AudioTasks :
    audioPc = "send" /\ curAudio = a ~>
      begins[a] >= 1 \/ (curAudio # a /\ hasty) \/ resetPc = "spin"

=============================================================================
