------------------------------ MODULE FrameLoop ------------------------------
(***************************************************************************)
(* The frame buffers.  Game_ThreadEntry (sys_gfx.c) renders in turn to two *)
(* of the three frame buffers (func_80067D64) or, once a game mode asks    *)
(* for it, to all three (func_80067E98), while the VI shows one of them    *)
(* and takes the next one at a retrace.  What the scheduler does with a    *)
(* frame is taken from FrameService, which RcpSched implements.            *)
(***************************************************************************)
EXTENDS Naturals

CONSTANTS
  MaxFrames,   \* bound: the frames that the game thread renders
  SpinOut      \* may 100000 looks at the VI see no retrace?

ASSUME FrameAssumption == MaxFrames \in Nat \ {0} /\ SpinOut \in BOOLEAN

Buffers  == 0..2     \* gFrameBuffers
NoBuffer == 3        \* what the VI shows, and the first frame draws, at boot

VARIABLES
  pc,                   \* where the game thread is in a frame
  mode, nextMode,       \* D_800CCFE4 and D_800CCFE8: 2 or 3 buffers
  cfc, d00,             \* D_800DCCFC and D_800DCD00
  d04, d08, d0c,        \* D_800DCD04, D_800DCD08 and D_800DCD0C
  viCurr, viNext,       \* framep of __osViCurr and of __osViNext
  rcp,                  \* the scheduler: the "frame" of FrameService
  built,                \* the buffer and the number of the frame built last
  drawing,              \* and of the one that was given to the scheduler
  content               \* number of the frame in each buffer

indexVars == <<cfc, d00, d04, d08, d0c>>

vars == <<pc, mode, nextMode, indexVars, viCurr, viNext, rcp, built, drawing,
          content>>

RCP == INSTANCE FrameService WITH frame <- rcp

Init ==
  /\ pc = "boot"
  /\ mode = 2 /\ nextMode = 2
  /\ cfc = 0 /\ d00 = 1
  /\ d08 = 2 /\ d04 = 0 /\ d0c = 1
  /\ viCurr = NoBuffer /\ viNext = NoBuffer
  /\ RCP!Init
  /\ built = [buffer |-> NoBuffer, number |-> 0] /\ drawing = built
  /\ content = [b \in Buffers |-> 0]

\* The indices of the three buffers: where the last frame was rendered, where
\* the next one goes, and the third.
Indices == [d04 |-> d04, d08 |-> d08, d0c |-> d0c]

SetIndices(i) == d04' = i.d04 /\ d08' = i.d08 /\ d0c' = i.d0c

\* func_80067AE0
Rotated(i) == [d08 |-> i.d04, d04 |-> i.d0c, d0c |-> i.d08]

\* What Game_ThreadEntry sets them to when the number of buffers changes.
Reseated == [d04 |-> cfc, d08 |-> (cfc + 2) % 3, d0c |-> (cfc + 1) % 3]

\* The first frame, whose display list draws nothing.
Boot ==
  /\ pc = "boot"
  /\ viNext' = 0
  /\ cfc' = 1 - cfc /\ d00' = 1 - d00
  /\ SetIndices(Rotated(Indices))
  /\ RCP!Set
  /\ pc' = "tick"
  /\ UNCHANGED <<mode, nextMode, viCurr, built, drawing, content>>

\* The head of the loop, the wait for the retraces of the last frame,
\* Gfx_InitBuffer, the game mode and the writing of the display list, which
\* names the buffer to render to.  Game modes ask for three buffers when
\* they start, and never for two again.
FrameBegin ==
  /\ pc = "tick"
  /\ built.number < MaxFrames
  /\ mode' = nextMode
  /\ cfc' = 1 - cfc /\ d00' = 1 - d00
  /\ nextMode' \in {nextMode, 3}
  /\ LET seated == IF mode # nextMode THEN Reseated ELSE Indices
     IN  SetIndices(IF mode' = 3 THEN Rotated(seated) ELSE seated)
  /\ built' = [buffer |-> IF mode' = 3 THEN d04' ELSE cfc',
               number |-> built.number + 1]
  /\ pc' = "dp"
  /\ UNCHANGED <<viCurr, viNext, rcp, drawing, content>>

\* The wait until the frame before is drawn.
FrameDrawn ==
  /\ pc = "dp"
  /\ RCP!Collect
  /\ pc' = "swap"
  /\ UNCHANGED <<mode, nextMode, indexVars, viCurr, viNext, built, drawing,
                 content>>

\* Mutant: with three buffers the frame before the last one is shown.
ShownTooOld == IF mode = 3 THEN d0c ELSE d00

\* The buffer of the frame before: the VI is to show it, and a transition
\* copies it (Transition_SetBackgroundBuffer).
Shown == IF mode = 3 THEN d08 ELSE d00

Swap ==
  /\ pc = "swap"
  /\ viNext' = Shown
  /\ pc' = "spin"
  /\ UNCHANGED <<mode, nextMode, indexVars, viCurr, rcp, built, drawing,
                 content>>

\* Mutant: with three buffers only the next one of the VI is looked at.
TargetNotNext == IF mode = 3 THEN d04 # viNext ELSE viCurr = d00

\* Mutant: with three buffers the wrong one is waited for.
WrongTargetFree == IF mode = 3 THEN d08 \notin {viCurr, viNext}
                               ELSE viCurr = d00

\* With two buffers the game waits until the VI shows the other one, with
\* three until it neither shows the one to render to nor is about to.
TargetFree == IF mode = 3 THEN d04 \notin {viCurr, viNext}
                          ELSE viCurr = d00

\* Gfx_SetTask, once the wait is over.  With three buffers it has a limit.
Submit ==
  /\ pc = "spin"
  /\ TargetFree \/ (SpinOut /\ mode = 3)
  /\ RCP!Set
  /\ drawing' = built
  /\ pc' = "tick"
  /\ UNCHANGED <<mode, nextMode, indexVars, viCurr, viNext, built, content>>

Game == Boot \/ FrameBegin \/ FrameDrawn \/ Swap \/ Submit

\* The scheduler has the frame drawn.
Drawn ==
  /\ RCP!Draw
  /\ content' = [b \in Buffers |-> IF b = drawing.buffer THEN drawing.number
                                  ELSE content[b]]
  /\ UNCHANGED <<pc, mode, nextMode, indexVars, viCurr, viNext, built, drawing>>

\* __osViSwapContext, called by the VI manager at every retrace.
ViRetrace ==
  /\ viCurr' = viNext
  /\ UNCHANGED <<pc, mode, nextMode, indexVars, viNext, rcp, built, drawing,
                 content>>

Next == Game \/ Drawn \/ ViRetrace

Spec == Init /\ [][Next]_vars

\* The game thread goes on when it may, the VI never stops, and FrameService
\* draws each frame.
FairSpec == Spec /\ WF_vars(Game) /\ WF_vars(Drawn) /\ WF_vars(ViRetrace)

-----------------------------------------------------------------------------
TypeOK ==
  /\ pc \in {"boot", "tick", "dp", "swap", "spin"}
  /\ mode \in {2, 3} /\ nextMode \in {2, 3}
  /\ cfc \in {0, 1} /\ d00 \in {0, 1}
  /\ d04 \in Buffers /\ d08 \in Buffers /\ d0c \in Buffers
  /\ viCurr \in Buffers \cup {NoBuffer} /\ viNext \in Buffers \cup {NoBuffer}
  /\ rcp \in {"none", "set", "drawn"}
  /\ built \in [buffer : Buffers \cup {NoBuffer}, number : Nat]
  /\ drawing \in [buffer : Buffers \cup {NoBuffer}, number : Nat]
  /\ content \in [Buffers -> Nat]

\* The RDP never draws into the buffer on the screen or into the one that
\* comes next, not even when the number of buffers changes.
RenderExclusive ==
  rcp = "set" /\ drawing.buffer # NoBuffer
    => drawing.buffer \notin {viCurr, viNext}

OnScreen == IF viCurr \in Buffers THEN content[viCurr] ELSE 0

\* The buffer that the VI is told to show, and that a transition copies, is
\* complete and holds the frame before the one that was just built.
ShowsLatest ==
  [][pc = "swap" /\ pc' = "spin" =>
       /\ content[viNext'] = built.number - 1
       /\ rcp = "none"]_vars

\* Every frame but the last gets on the screen, unless a later one does: the
\* waits of the game thread for the RDP and for the VI come to an end.
EveryFrameShown == \A n \in 1..MaxFrames : n < MaxFrames => <>(OnScreen >= n)

-----------------------------------------------------------------------------
(* The inductive invariant behind RenderExclusive, for a wait that ends.   *)

\* The task built last renders to the buffer that its mode gives it.
BuiltTarget ==
  pc \in {"dp", "swap", "spin"} =>
    built.buffer = IF mode = 3 THEN d04 ELSE cfc

\* While the game thread talks to the VI the RDP rests, and the VI keeps what
\* it was told.
VideoSettled ==
  /\ pc \in {"boot", "swap", "spin"} => rcp = "none"
  /\ pc = "spin" => viNext = Shown

IInv ==
  /\ TypeOK
  /\ cfc + d00 = 1
  /\ BuiltTarget
  /\ VideoSettled
  /\ pc = "boot" => built.buffer = NoBuffer /\ drawing.buffer = NoBuffer
  /\ RenderExclusive
=============================================================================
