------------------------------ MODULE GameModes ------------------------------
(***************************************************************************)
(* The game mode machine: func_800690FC (game.c), once a frame, leaves one *)
(* mode and starts the next one behind a transition, while the RCP still   *)
(* draws the frame before and the audio code starts and ends the demo      *)
(* races of the title.  What the game thread may expect of the scheduler   *)
(* is FrameService.  The modes are those of the base game; the machines of *)
(* the menus are abstracted to what they may ask for, and when.            *)
(***************************************************************************)
EXTENDS Naturals

CONSTANT Steps    \* bound: the updates that a transition takes

ASSUME StepsAssumption == Steps \in Nat \ {0}

VARIABLES
  pc,        \* the game thread in a frame: "begin", "dp" or "copy"
  rcp,       \* the "frame" of FrameService
  game,      \* the variables of game.c and transition.c
  building,  \* the mode that the frame built last shows
  drawing    \* and the one that the frame given to the RCP last shows

vars == <<pc, rcp, game, building, drawing>>

RCP == INSTANCE FrameService WITH frame <- rcp

NoMode == "none"    \* gGameMode before the first mode, a frame without one

\* The modes that the update of a mode returns when it is left that way.
Returns ==
  [none |-> {},
   title |-> {"main_menu"},
   main_menu |-> {"title", "machine_select"},
   options |-> {},
   records_courses |-> {"records"},
   records |-> {"records_courses", "main_menu"},
   course_select |-> {"machine_select"},
   machine_select |-> {"settings", "course_select", "main_menu"},
   settings |-> {"race", "machine_select"},
   next_settings |-> {"race", "next_course"},
   race |-> {},
   next_course |-> {"next_settings"},
   ending |-> {"main_menu", "credits"},
   credits |-> {}]

\* The changes of MENU_CHANGE that the update of a mode sets gMenuChangeMode
\* to.  RETRY is also set by the records when the racer they show falls.
Menus ==
  [main_menu |-> {"TO_OPTIONS", "TO_RECORDS", "TO_COURSE_SELECT"},
   options |-> {"EXIT"},
   records_courses |-> {"EXIT"},
   records |-> {"RECORD_COURSE"},
   course_select |-> {"EXIT_COURSE_SELECT"},
   race |-> {"RETRY", "QUIT", "CHANGE_COURSE", "CHANGE_MACHINE",
             "NEXT_COURSE", "CRASH_RESTART", "CUP_RETIRED", "SETTINGS"}]

\* gGameModeChangeState: a step, and the variant that is added to it (10, 20
\* or 30).
Change(variant, step) == [variant |-> variant, step |-> step]
Update == Change("plain", "UPDATE")

\* What func_80068BC0 makes of gMenuChangeMode: the state of the change and
\* the mode that comes next.  Nobody sets MENU_CHANGE_16.
Targets(menu, mode) ==
  CASE menu = "RETRY" -> {<<Change("plain", "START_RELOAD"), mode>>}
    [] menu = "QUIT" -> {<<Change("plain", "START"), "main_menu">>}
    [] menu = "CHANGE_COURSE" ->
         {<<Change("plain", "START"), "course_select">>}
    [] menu = "CHANGE_MACHINE" ->
         {<<Change("plain", "START"), "machine_select">>}
    [] menu = "NEXT_COURSE" -> {<<Change("plain", "START"), m>> :
                                  m \in {"next_course", "ending"}}
    [] menu = "CRASH_RESTART" -> {<<Change("plain", "START"), "next_course">>}
    [] menu = "CUP_RETIRED" -> {<<Change("unk10", "START"), "next_course">>}
    [] menu = "SETTINGS" -> {<<Change("unk10", "START"), m>> :
                               m \in {"settings", "next_settings"}}
    [] menu = "RECORD_COURSE" -> {<<Change("fast", "START"), "records">>}
    [] menu = "TO_RECORDS" -> {<<Change("fast", "START"), "records_courses">>}
    [] menu = "TO_OPTIONS" -> {<<Change("fast", "START"), "options">>}
    [] menu = "EXIT" -> {<<Change("fast", "START"), "main_menu">>}
    [] menu = "TO_COURSE_SELECT" ->
         {<<Change("instant", "START"), "course_select">>}
    [] menu = "EXIT_COURSE_SELECT" ->
         {<<Change("instant", "START"), "main_menu">>}

-----------------------------------------------------------------------------
(* Transitions: without a picture of the screen, with one, or none at all. *)

NoTransition ==
  [queued |-> "none", active |-> "none", hides |-> FALSE, left |-> 0,
   draws |-> FALSE, finished |-> FALSE, copies |-> FALSE]

\* A transition that finds no room for its picture is a fade.
Picture == {"image", "plain"}

\* Transition_HideSet
HideTypes(g) ==
  IF g.change.variant = "instant" THEN {"instant"}
  ELSE CASE g.mode = "title" -> Picture
         [] g.mode \in {"ending", "course_select", "race", "settings",
                        "next_settings"} -> {"plain"}
         [] g.mode = "machine_select" -> {"plain", "instant"}
         [] g.mode = "main_menu" ->
              {IF g.change.variant = "fast" THEN "instant" ELSE "plain"}
         [] g.mode \in {"records_courses", "options", "records"} ->
              IF g.change.variant = "fast" THEN {"instant"}
                                           ELSE {"instant"} \cup Picture
         [] OTHER -> {"instant"} \cup Picture

\* Transition_AppearSet
AppearTypes(g) ==
  IF g.change.variant = "instant" THEN {"instant"}
  ELSE CASE g.queued \in {"title", "ending", "race", "machine_select",
                          "credits"} -> {"plain"}
         [] OTHER -> Picture

Queue(g, hides, type) ==
  [g EXCEPT !.trans.queued = type, !.trans.hides = hides,
            !.fading = IF hides THEN "hiding" ELSE "appearing"]

\* Transition_PopQueue
Popped(t) ==
  IF t.queued = "none" THEN t
  ELSE [queued |-> "none", active |-> t.queued, hides |-> t.hides,
        left |-> Steps, draws |-> t.queued # "instant",
        finished |-> t.queued = "instant", copies |-> t.queued = "image"]

\* The update of the active one: it ends in the call after its last step.
Moved(t) ==
  IF t.active \notin Picture THEN t
  ELSE IF t.left = 0 THEN [t EXCEPT !.finished = TRUE]
                     ELSE [t EXCEPT !.left = @ - 1]

\* Transition_Update, which returns trans.finished.
TransitionUpdate(g) ==
  LET t == Moved(Popped(g.trans))
  IN  [g EXCEPT !.trans = t,
                !.fading = IF t.finished THEN "inactive" ELSE @]

\* Transition_Draw
TransitionDraw(g) ==
  IF g.trans.draws /\ g.trans.finished
  THEN [g EXCEPT !.trans.active = "none", !.trans.draws = FALSE]
  ELSE g

-----------------------------------------------------------------------------
(* The update of a mode and the demo races of the title.                   *)

\* May the update of the mode ask for another one?  Each does so once; some
\* wait until the transition is over, the title until no change is on and
\* some frames are over, and the menus of the race are set up in its first.
MayAsk(g) ==
  /\ ~g.asked
  /\ CASE g.mode = "title" -> g.change = Update /\ g.trans.queued = "none"
       [] g.mode = "race" -> g.demo = "inactive" /\ g.trans.queued = "none"
       [] g.mode \in {"main_menu", "options", "records_courses",
                      "course_select", "settings", "next_settings"} ->
            g.fading = "inactive"
       [] OTHER -> TRUE

Stays(g) == [returns |-> g.mode, menu |-> g.menu, asked |-> g.asked]

\* What the update of the mode may answer.
Answers(g) ==
  LET stays == Stays(g)
      leaves == {[stays EXCEPT !.returns = m, !.asked = TRUE] :
                   m \in Returns[g.mode]}
      chooses == IF g.mode \in DOMAIN Menus
                 THEN {[stays EXCEPT !.menu = c, !.asked = TRUE] :
                         c \in Menus[g.mode]}
                 ELSE {}
      falls == IF g.mode = "records" /\ ~g.asked
               THEN {[stays EXCEPT !.menu = "RETRY"]} ELSE {}
  IN  {stays} \cup falls
        \cup (IF MayAsk(g) THEN leaves ELSE {})
        \cup (IF MayAsk(g) /\ (g.mode = "records" => g.fading = "inactive")
              THEN chooses ELSE {})

\* Mutant: the result is used while the mode is being left.
IgnoredNot(g, a) == [g EXCEPT !.menu = a.menu, !.asked = a.asked,
                              !.queued = a.returns]

\* An update whose result is not used.
Ignored(g, a) == [g EXCEPT !.menu = a.menu, !.asked = a.asked]

Answered(g, a) ==
  [g EXCEPT !.menu = a.menu, !.asked = a.asked, !.queued = a.returns,
            !.player = IF a.returns = "race" /\ g.mode # "race" THEN TRUE
                       ELSE @]

\* Mutant: the state of the demo outlives the choice of the player.
DemoOutlives(g, pressed, connected) ==
  IF g.mode # g.queued THEN g
  ELSE IF connected /\ g.mode = "title" /\ g.demo # "inactive"
  THEN [g EXCEPT !.queued = "race", !.player = FALSE, !.demo = "active"]
  ELSE IF g.mode = "race" /\ (\/ g.demo = "active" /\ pressed
                              \/ g.demo = "start_exit")
  THEN [g EXCEPT !.queued = "title", !.demo = "exit"]
  ELSE g

\* func_80068F04: the title starts a demo race if any controller is connected,
\* and a button ends it.
DemoStep(g, pressed, connected) ==
  IF g.mode # g.queued THEN [g EXCEPT !.demo = "inactive"]
  ELSE IF connected /\ g.mode = "title" /\ g.demo # "inactive"
  THEN [g EXCEPT !.queued = "race", !.player = FALSE, !.demo = "active"]
  ELSE IF g.mode = "race" /\ (\/ g.demo = "active" /\ pressed
                              \/ g.demo = "start_exit")
  THEN [g EXCEPT !.queued = "title", !.demo = "exit"]
  ELSE g

\* func_800B84B8, called by Audio_Update: the music of the title comes to
\* the place where a demo starts, or ends.
MusicMarks(g) ==
  {g.demo}
  \cup (IF g.mode = "title" /\ g.demo = "inactive" THEN {"active"} ELSE {})
  \cup (IF g.mode \in {"title", "race"} /\ g.demo = "active"
        THEN {"start_exit"} ELSE {})

-----------------------------------------------------------------------------
(* func_800690FC                                                           *)

\* Mutant: no change starts while the mode still appears.
HeadWhenShown(g) ==
  LET quiet == [g EXCEPT !.menu = "none"]
  IN  IF g.change # Update \/ g.fading # "inactive" THEN {quiet}
      ELSE IF g.mode # g.queued
      THEN {[quiet EXCEPT !.change = Change("plain",
               IF g.mode = NoMode THEN "INIT" ELSE "START")]}
      ELSE IF g.menu = "none" THEN {quiet}
      ELSE {[quiet EXCEPT !.change = t[1], !.queued = t[2]] :
              t \in Targets(g.menu, g.mode)}

\* Its head: a mode that returned another one, or a choice in a menu, starts
\* a change, unless one is going on.  The choice is forgotten.
Head(g) ==
  LET quiet == [g EXCEPT !.menu = "none"]
  IN  IF g.change # Update THEN {quiet}
      ELSE IF g.mode # g.queued
      THEN {[quiet EXCEPT !.change = Change("plain",
               IF g.mode = NoMode THEN "INIT" ELSE "START")]}
      ELSE IF g.menu = "none" THEN {quiet}
      ELSE {[quiet EXCEPT !.change = t[1], !.queued = t[2]] :
              t \in Targets(g.menu, g.mode)}

Start(g) ==
  UNION {{[TransitionUpdate(Ignored(h, a)) EXCEPT !.change.step = "WAIT"] :
            a \in Answers(h)} :
           h \in {Queue(g, TRUE, type) : type \in HideTypes(g)}}

Wait(g) ==
  {LET h == TransitionUpdate(Ignored(g, a))
   IN  IF h.trans.finished THEN [h EXCEPT !.change.step = "INIT"] ELSE h :
     a \in Answers(g)}

\* The next mode: its overlays, its memory and its assets replace those of
\* the mode that ended.
Initialised(g) ==
  LET h == [g EXCEPT !.mode = g.queued, !.asked = FALSE,
                     !.demo = IF @ = "exit" THEN "inactive" ELSE @]
  IN  {[Queue(h, FALSE, type) EXCEPT !.change = Update] :
         type \in AppearTypes(h)}

StartReload(g) ==
  {[TransitionUpdate(Queue(g, TRUE, type))
      EXCEPT !.change.step = "WAIT_RELOAD"] : type \in HideTypes(g)}

\* The race starts anew.  What the records asked for stays asked.
WaitReload(g) ==
  LET h == TransitionUpdate(g)
  IN  IF ~h.trans.finished THEN {h}
      ELSE {[Queue(h, FALSE, type)
               EXCEPT !.change = Update,
                      !.asked = IF g.mode = "race" THEN FALSE ELSE @] :
              type \in AppearTypes(h)}

\* The common end: the update of the mode, the demo and the transition.
Rest(g) ==
  {LET h == DemoStep(Answered(g, a), pressed, connected)
   IN  IF h.change = Update THEN TransitionUpdate(h) ELSE h :
     a \in Answers(g), pressed \in BOOLEAN, connected \in BOOLEAN}

ModeFrame(g) ==
  UNION {CASE h.change.step = "START" -> Start(h)
           [] h.change.step = "WAIT" -> Wait(h)
           [] h.change.step = "INIT" -> UNION {Rest(i) : i \in Initialised(h)}
           [] h.change.step = "START_RELOAD" ->
                UNION {Rest(i) : i \in StartReload(h)}
           [] h.change.step = "WAIT_RELOAD" ->
                UNION {Rest(i) : i \in WaitReload(h)}
           [] h.change.step = "UPDATE" -> Rest(h) : h \in Head(g)}

-----------------------------------------------------------------------------
Init ==
  /\ pc = "begin"
  /\ rcp = "set"
  /\ game = [mode |-> NoMode, queued |-> "title", change |-> Update,
             menu |-> "none", demo |-> "inactive", fading |-> "inactive",
             trans |-> NoTransition, asked |-> FALSE, player |-> FALSE]
  /\ building = NoMode
  /\ drawing = NoMode

\* Mutant: a mode is drawn in its last frame, too.
ShownToTheEnd(g) == g.mode

\* func_80069698 draws no mode once the next one is to be initialised.
ShownMode(g) == IF g.change = Change("plain", "INIT") THEN NoMode ELSE g.mode

\* The frame is made while the one before is drawn.
Frame ==
  /\ pc = "begin"
  /\ \E g \in ModeFrame(game) :
       /\ building' = ShownMode(g)
       /\ \E demo \in MusicMarks(g) :
            game' = [TransitionDraw(g) EXCEPT !.demo = demo]
  /\ pc' = "dp"
  /\ UNCHANGED <<rcp, drawing>>

FrameDrawn ==
  /\ pc = "dp"
  /\ RCP!Collect
  /\ pc' = "copy"
  /\ UNCHANGED <<game, building, drawing>>

\* Transition_SetBackgroundBuffer copies the frame that was drawn, and the
\* frame just made goes to the RCP.
Submit ==
  /\ pc = "copy"
  /\ game' = [game EXCEPT !.trans.copies = FALSE]
  /\ RCP!Set
  /\ drawing' = building
  /\ pc' = "begin"
  /\ UNCHANGED building

Drawn == RCP!Draw /\ UNCHANGED <<pc, game, building, drawing>>

Game == Frame \/ FrameDrawn \/ Submit

Next == Game \/ Drawn

Spec == Init /\ [][Next]_vars

\* The game thread never stops, and FrameService draws each frame.
FairSpec == Spec /\ WF_vars(Game) /\ WF_vars(Drawn)

-----------------------------------------------------------------------------
\* A race that the player chose is never run as a demo, whatever the music of
\* the title said on the way to it: a demo state left over would let a button
\* end it and the computer drive it.
DemoIsOver == game.mode = "race" /\ game.player => game.demo = "inactive"

\* The memory of a mode is not replaced while the RCP draws a frame of it,
\* and the picture that a hiding transition copies is one of the mode that
\* ends.  (Changes that are not "plain" show the mode to the end.)
PicturesHold ==
  /\ pc = "begin" /\ rcp = "set" /\ game.change = Change("plain", "INIT")
       => drawing = NoMode
  /\ pc = "copy" /\ game.trans.copies /\ game.trans.hides
       => drawing = game.mode

\* The mode that was asked for is the one that comes, although the modes go on
\* running and answering while they are hidden.  (Not so in the records, while
\* they start their race anew.)
RequestKept ==
  [][game.queued # game.mode =>
       \/ game'.queued = game.queued
       \/ game'.mode = game.queued
       \/ game.mode = "records" /\ game.change.step = "WAIT_RELOAD"]_vars

\* A mode that asked for another one, or for its race anew, does not ask
\* again, so that what it asked for must come.  (Not so in the records, for
\* the same reason.)
RequestsEnd ==
  \A m \in DOMAIN Returns \ {"records"} :
    game.asked /\ game.mode = m ~> ~(game.asked /\ game.mode = m)
=============================================================================
