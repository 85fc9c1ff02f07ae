--------------------------- MODULE GameModes_proofs ---------------------------
(***************************************************************************)
(* Proofs about GameModes, for transitions of any length.                  *)
(***************************************************************************)
EXTENDS GameModes, TLAPS

-----------------------------------------------------------------------------
(* The invariant.                                                          *)

Fields == {"mode", "queued", "change", "menu", "demo", "fading", "trans",
           "asked", "player"}
TransFields == {"queued", "active", "hides", "left", "draws", "finished",
                "copies"}

Shape(g) ==
  /\ DOMAIN g = Fields
  /\ DOMAIN g.trans = TransFields
  /\ DOMAIN g.change = {"variant", "step"}

MenuNames ==
  {"none", "RETRY", "QUIT", "CHANGE_COURSE", "CHANGE_MACHINE", "NEXT_COURSE",
   "CRASH_RESTART", "CUP_RETIRED", "SETTINGS", "RECORD_COURSE", "TO_RECORDS",
   "TO_OPTIONS", "EXIT", "TO_COURSE_SELECT", "EXIT_COURSE_SELECT"}

\* Who may have asked for a race anew: the player, or the records.
MayRetry(g) == g.mode = "records" \/ (g.mode = "race" /\ g.demo = "inactive")

\* A player's race is none of the title's, from the choice on.
PlayersRace(g) ==
  g.player /\ (g.mode = "race" \/ g.queued = "race") =>
    g.demo = "inactive" /\ g.mode # "title"

\* Where a frame may end: START and START_RELOAD are left in the frame that
\* they begin in, and so is what is queued for the transition.
Ended(g) ==
  /\ g.change = Update \/ g.change.step \in {"WAIT", "INIT", "WAIT_RELOAD"}
  /\ g.trans.queued = "none"
  /\ g.change.step = "WAIT_RELOAD" =>
       MayRetry(g) /\ (g.mode = "race" => g.queued = "race")
  /\ g.menu \in MenuNames /\ (g.menu = "RETRY" => MayRetry(g))

Good(g) == Shape(g) /\ PlayersRace(g) /\ Ended(g)

\* What the transitions leave alone.
Like(g, h) ==
  /\ Shape(h)
  /\ h.mode = g.mode /\ h.queued = g.queued /\ h.demo = g.demo
  /\ h.player = g.player /\ h.change = g.change /\ h.menu = g.menu

-----------------------------------------------------------------------------
(* The transitions.                                                        *)

LEMMA QueueLike ==
  ASSUME NEW g, Shape(g), NEW hides, NEW type,
         NEW h, h = Queue(g, hides, type)
  PROVE  /\ Like(g, h)
         /\ h.trans.queued = type
         /\ h.trans.hides = hides
         /\ h.trans.copies = g.trans.copies
BY DEF Queue, Like, Shape, Fields, TransFields

\* Nothing stays queued, and a picture is only copied for what was queued.
LEMMA UpdateLike ==
  ASSUME NEW g, Shape(g)
  PROVE  /\ Like(g, TransitionUpdate(g))
         /\ TransitionUpdate(g).trans.queued = "none"
         /\ g.trans.queued # "none" =>
              TransitionUpdate(g).trans.hides = g.trans.hides
         /\ g.trans.queued = "none" =>
              /\ TransitionUpdate(g).trans.hides = g.trans.hides
              /\ TransitionUpdate(g).trans.copies = g.trans.copies
<1> DEFINE p == Popped(g.trans)
           t == Moved(p)
<1>1. /\ DOMAIN p = TransFields /\ p.queued = "none"
      /\ p.hides = g.trans.hides
      /\ g.trans.queued = "none" => p.copies = g.trans.copies
  BY DEF Popped, Shape, TransFields
<1>2. /\ DOMAIN t = TransFields /\ t.queued = "none"
      /\ t.hides = p.hides /\ t.copies = p.copies
  BY <1>1 DEF Moved, TransFields
<1>3. TransitionUpdate(g) = [g EXCEPT !.trans = t,
                                !.fading = IF t.finished THEN "inactive" ELSE @]
  BY DEF TransitionUpdate
<1> HIDE DEF p, t
<1> QED
  BY <1>1, <1>2, <1>3 DEF Like, Shape, Fields

LEMMA DrawLike ==
  ASSUME NEW g, Shape(g)
  PROVE  /\ Like(g, TransitionDraw(g))
         /\ TransitionDraw(g).trans.queued = g.trans.queued
         /\ TransitionDraw(g).trans.hides = g.trans.hides
         /\ TransitionDraw(g).trans.copies = g.trans.copies
BY DEF TransitionDraw, Like, Shape, Fields, TransFields

\* No more in a change than in what the update of the mode may answer.
LEMMA AnswersOf ==
  ASSUME NEW g, Shape(g), g.menu = "none", NEW a \in Answers(g)
  PROVE  /\ a.returns = g.mode \/ a.returns \in Returns[g.mode]
         /\ a.menu \in MenuNames
         /\ a.menu = "RETRY" => MayRetry(g)
<1> DEFINE stays == Stays(g)
<1>1. /\ DOMAIN stays = {"returns", "menu", "asked"}
      /\ stays.returns = g.mode /\ stays.menu = "none"
  BY DEF Stays
<1>2. PICK m, c :
        \/ a = stays
        \/ g.mode = "records" /\ a = [stays EXCEPT !.menu = "RETRY"]
        \/ m \in Returns[g.mode] /\ a = [stays EXCEPT !.returns = m, !.asked = TRUE]
        \/ /\ MayAsk(g) /\ g.mode \in DOMAIN Menus /\ c \in Menus[g.mode]
           /\ a = [stays EXCEPT !.menu = c, !.asked = TRUE]
  BY DEF Answers
<1>3. ASSUME MayAsk(g), g.mode \in DOMAIN Menus, c \in Menus[g.mode]
      PROVE  c \in MenuNames /\ (c = "RETRY" => MayRetry(g))
  <2>1. g.mode \in {"main_menu", "options", "records_courses", "records",
                    "course_select", "race"}
    BY <1>3 DEF Menus
  <2>2. CASE g.mode = "race"
    <3>1. g.demo = "inactive"
      BY <1>3, <2>2 DEF MayAsk
    <3> QED
      BY <1>3, <2>2, <3>1 DEF Menus, MenuNames, MayRetry
  <2>3. CASE g.mode # "race"
    BY <1>3, <2>1, <2>3 DEF Menus, MenuNames
  <2> QED
    BY <2>2, <2>3
<1> HIDE DEF stays
<1>4. "none" \in MenuNames /\ "RETRY" \in MenuNames
  BY DEF MenuNames
<1> QED
  BY <1>1, <1>2, <1>3, <1>4 DEF MayRetry

-----------------------------------------------------------------------------
(* The parts of a frame.                                                   *)

\* An answer that is used, and what the demo makes of it: a race that the
\* player has chosen loses the state of the demo in the same frame.
LEMMA DemoOf ==
  ASSUME NEW i, Shape(i), i.menu = "none", PlayersRace(i),
         NEW a \in Answers(i), NEW pressed, NEW connected,
         NEW k, k = DemoStep(Answered(i, a), pressed, connected)
  PROVE  /\ Shape(k) /\ PlayersRace(k)
         /\ k.mode = i.mode /\ k.change = i.change /\ k.trans = i.trans
         /\ k.menu \in MenuNames /\ (k.menu = "RETRY" => MayRetry(k))
         /\ MayRetry(i) => MayRetry(k) /\ (k.mode = "race" => k.queued = "race")
<1> DEFINE d == Answered(i, a)
<1>1. /\ a.returns = i.mode \/ a.returns \in Returns[i.mode]
      /\ a.menu \in MenuNames
      /\ a.menu = "RETRY" => MayRetry(i)
  BY AnswersOf
<1>2. /\ Shape(d) /\ d.mode = i.mode /\ d.change = i.change /\ d.trans = i.trans
      /\ d.menu = a.menu /\ d.queued = a.returns /\ d.demo = i.demo
      /\ d.player = IF a.returns = "race" /\ i.mode # "race" THEN TRUE ELSE i.player
  BY DEF Answered, Shape, Fields
<1>3. /\ Returns["title"] = {"main_menu"} /\ Returns["race"] = {}
  BY DEF Returns
<1>4. k = DemoStep(d, pressed, connected)
  OBVIOUS
<1> HIDE DEF d
<1>5. /\ Shape(k) /\ k.mode = i.mode /\ k.change = i.change /\ k.trans = i.trans
      /\ k.menu = a.menu
  BY <1>2, <1>4 DEF DemoStep, Shape, Fields
<1>6. PlayersRace(k)
  <2>1. CASE d.mode # d.queued
    <3>1. k = [d EXCEPT !.demo = "inactive"]
      BY <1>4, <2>1 DEF DemoStep
    <3>2. k.demo = "inactive" /\ k.queued = d.queued
      BY <1>2, <3>1 DEF Shape, Fields
    <3>3. i.mode = "title" => k.queued # "race"
      BY <1>1, <1>2, <1>3, <2>1, <3>2
    <3> QED
      BY <1>5, <3>2, <3>3 DEF PlayersRace
  <2>2. CASE d.mode = d.queued
    <3>1. d.player = i.player /\ d.queued = i.mode
      BY <1>2, <2>2
    <3>2. CASE connected /\ d.mode = "title" /\ d.demo # "inactive"
      <4>1. k = [d EXCEPT !.queued = "race", !.player = FALSE, !.demo = "active"]
        BY <1>4, <2>2, <3>2 DEF DemoStep
      <4>2. k.player = FALSE
        BY <1>2, <4>1 DEF Shape, Fields
      <4> QED
        BY <4>2 DEF PlayersRace
    <3>3. CASE /\ ~(connected /\ d.mode = "title" /\ d.demo # "inactive")
               /\ d.mode = "race" /\ i.player
      <4>1. d.demo = "inactive"
        BY <1>2, <3>3 DEF PlayersRace
      <4>2. k = d
        BY <1>4, <2>2, <3>3, <4>1 DEF DemoStep
      <4> QED
        BY <1>2, <3>3, <4>1, <4>2 DEF PlayersRace
    <3>4. CASE /\ ~(connected /\ d.mode = "title" /\ d.demo # "inactive")
               /\ d.mode = "race" /\ ~i.player
      <4>1. ~k.player
        BY <1>2, <1>4, <2>2, <3>1, <3>4 DEF DemoStep, Shape, Fields
      <4> QED
        BY <4>1 DEF PlayersRace
    <3>5. CASE ~(connected /\ d.mode = "title" /\ d.demo # "inactive") /\ d.mode # "race"
      <4>1. k = d
        BY <1>4, <2>2, <3>5 DEF DemoStep
      <4> QED
        BY <1>2, <3>1, <3>5, <4>1 DEF PlayersRace
    <3> QED
      BY <3>2, <3>3, <3>4, <3>5
  <2> QED
    BY <2>1, <2>2
<1>7. ASSUME MayRetry(i)
      PROVE  MayRetry(k) /\ (k.mode = "race" => k.queued = "race")
  <2>1. CASE i.mode = "race"
    <3>1. i.demo = "inactive"
      BY <1>7, <2>1 DEF MayRetry
    <3>2. d.queued = "race" /\ d.mode = "race" /\ d.demo = "inactive"
      BY <1>1, <1>2, <1>3, <2>1, <3>1
    <3>3. k = d
      BY <1>4, <3>2 DEF DemoStep
    <3> QED
      BY <3>2, <3>3 DEF MayRetry
  <2>2. CASE i.mode # "race"
    BY <1>5, <1>7, <2>2 DEF MayRetry
  <2> QED
    BY <2>1, <2>2
<1> QED
  BY <1>1, <1>5, <1>6, <1>7

\* The common end of a frame.
LEMMA RestOf ==
  ASSUME NEW i, Shape(i), i.menu = "none", PlayersRace(i),
         i.change = Update \/ (/\ i.change.step = "WAIT_RELOAD" /\ MayRetry(i)
                               /\ i.trans.queued = "none"),
         NEW h \in Rest(i)
  PROVE  /\ Good(h) /\ h.mode = i.mode
         /\ i.trans.queued = "none" => /\ h.trans.hides = i.trans.hides
                                       /\ h.trans.copies = i.trans.copies
         /\ i.trans.queued # "none" => h.trans.hides = i.trans.hides
<1>1. PICK a \in Answers(i), pressed \in BOOLEAN, connected \in BOOLEAN :
        h = LET k == DemoStep(Answered(i, a), pressed, connected)
            IN  IF k.change = Update THEN TransitionUpdate(k) ELSE k
  BY DEF Rest
<1>2. PICK k : k = DemoStep(Answered(i, a), pressed, connected)
  OBVIOUS
<1>3. /\ Shape(k) /\ PlayersRace(k)
      /\ k.mode = i.mode /\ k.change = i.change /\ k.trans = i.trans
      /\ k.menu \in MenuNames /\ (k.menu = "RETRY" => MayRetry(k))
      /\ MayRetry(i) => MayRetry(k) /\ (k.mode = "race" => k.queued = "race")
  BY <1>2, DemoOf
<1>4. h = IF k.change = Update THEN TransitionUpdate(k) ELSE k
  BY <1>1, <1>2
<1>5. Update.step = "UPDATE"
  BY DEF Update, Change
<1>6. CASE k.change = Update
  <2>1. h = TransitionUpdate(k)
    BY <1>4, <1>6
  <2>2. /\ Like(k, h) /\ h.trans.queued = "none"
        /\ k.trans.queued # "none" => h.trans.hides = k.trans.hides
        /\ k.trans.queued = "none" => /\ h.trans.hides = k.trans.hides
                                      /\ h.trans.copies = k.trans.copies
    BY <1>3, <2>1, UpdateLike
  <2>3. Good(h)
    BY <1>3, <1>5, <1>6, <2>2 DEF Good, Like, PlayersRace, Ended, MayRetry
  <2> QED
    BY <1>3, <2>2, <2>3 DEF Like
<1>7. CASE k.change # Update
  <2>1. h = k
    BY <1>4, <1>7
  <2>2. /\ i.change.step = "WAIT_RELOAD" /\ MayRetry(i) /\ i.trans.queued = "none"
    BY <1>3, <1>7
  <2> QED
    BY <1>3, <2>1, <2>2 DEF Good, Ended
<1> QED
  BY <1>6, <1>7

\* The head: whatever is chosen in a menu names no race but the one that is on.
LEMMA HeadOf ==
  ASSUME NEW g, Good(g), NEW h \in Head(g)
  PROVE  /\ Shape(h) /\ h.menu = "none"
         /\ h.mode = g.mode /\ h.demo = g.demo /\ h.player = g.player
         /\ h.trans = g.trans
         /\ \/ g.change # Update /\ h.change = g.change /\ h.queued = g.queued
            \/ /\ g.change = Update
               /\ h.change.step \in {"START", "INIT"} /\ h.queued = g.queued
            \/ /\ g.change = Update /\ g.mode = g.queued
               /\ h.change = Update /\ h.queued = g.queued
            \/ /\ g.change = Update /\ g.mode = g.queued
               /\ h.change.step = "START_RELOAD" /\ h.queued = g.mode
               /\ MayRetry(g)
            \/ /\ g.change = Update /\ g.mode = g.queued
               /\ h.change.step = "START" /\ h.queued # "race"
<1> DEFINE quiet == [g EXCEPT !.menu = "none"]
<1>1. /\ Shape(quiet) /\ quiet.menu = "none" /\ quiet.mode = g.mode
      /\ quiet.demo = g.demo /\ quiet.player = g.player /\ quiet.trans = g.trans
      /\ quiet.change = g.change /\ quiet.queued = g.queued
  BY DEF Good, Shape, Fields
<1>2. CASE g.change # Update
  <2>1. h = quiet
    BY <1>2 DEF Head
  <2> QED
    BY <1>1, <1>2, <2>1
<1>3. CASE g.change = Update /\ g.mode # g.queued
  <2>1. PICK c \in {"INIT", "START"} : h = [quiet EXCEPT !.change = Change("plain", c)]
    BY <1>3 DEF Head
  <2> HIDE DEF quiet
  <2>2. /\ Shape(h) /\ h.change.step = c /\ h.menu = "none" /\ h.mode = g.mode
        /\ h.demo = g.demo /\ h.player = g.player /\ h.trans = g.trans
        /\ h.queued = g.queued
    BY <1>1, <2>1 DEF Shape, Fields, Change
  <2> QED
    BY <1>3, <2>2
<1>4. CASE g.change = Update /\ g.mode = g.queued /\ g.menu = "none"
  <2>1. h = quiet
    BY <1>4 DEF Head
  <2> QED
    BY <1>1, <1>4, <2>1
<1>5. CASE g.change = Update /\ g.mode = g.queued /\ g.menu # "none"
  <2>1. PICK t \in Targets(g.menu, g.mode) :
          h = [quiet EXCEPT !.change = t[1], !.queued = t[2]]
    BY <1>5 DEF Head
  <2> HIDE DEF quiet
  <2>2. g.menu \in MenuNames \ {"none"} /\ (g.menu = "RETRY" => MayRetry(g))
    BY <1>5 DEF Good, Ended
  <2>3. \/ /\ g.menu = "RETRY" /\ t = <<Change("plain", "START_RELOAD"), g.mode>>
        \/ \E v \in {"plain", "unk10", "fast", "instant"},
              m \in {"main_menu", "course_select", "machine_select", "next_course",
                     "ending", "settings", "next_settings", "records",
                     "records_courses", "options"} :
             t = <<Change(v, "START"), m>>
    BY <2>1, <2>2 DEF Targets, MenuNames
  <2>4. PICK c, m : /\ DOMAIN c = {"variant", "step"} /\ t = <<c, m>>
                    /\ \/ c.step = "START_RELOAD" /\ m = g.mode /\ MayRetry(g)
                       \/ c.step = "START" /\ m # "race"
    BY <2>2, <2>3 DEF Change
  <2>5. h = [quiet EXCEPT !.change = c, !.queued = m]
    BY <2>1, <2>4
  <2>6. /\ Shape(h) /\ h.change = c /\ h.menu = "none" /\ h.mode = g.mode
        /\ h.demo = g.demo /\ h.player = g.player /\ h.trans = g.trans
        /\ h.queued = m
    BY <1>1, <2>4, <2>5 DEF Shape, Fields
  <2> QED
    BY <1>5, <2>4, <2>6
<1> QED
  BY <1>2, <1>3, <1>4, <1>5

-----------------------------------------------------------------------------
(* The steps of a change.                                                  *)

\* What a frame must keep of a request, and which picture it may copy.
Follows(g, h) ==
  /\ Good(h)
  /\ g.queued # g.mode =>
       \/ h.queued = g.queued
       \/ h.mode = g.queued
       \/ g.mode = "records" /\ g.change.step = "WAIT_RELOAD"
  /\ ~g.trans.copies /\ h.trans.copies /\ h.trans.hides =>
       h.mode = g.mode /\ g.change = Update

\* An answer that is not used.
LEMMA IgnoredOf ==
  ASSUME NEW i, Shape(i), i.menu = "none", NEW a \in Answers(i),
         NEW d, d = Ignored(i, a)
  PROVE  /\ Shape(d) /\ d.mode = i.mode /\ d.queued = i.queued /\ d.demo = i.demo
         /\ d.player = i.player /\ d.change = i.change /\ d.trans = i.trans
         /\ d.menu \in MenuNames /\ (d.menu = "RETRY" => MayRetry(d))
<1>1. a.menu \in MenuNames /\ (a.menu = "RETRY" => MayRetry(i))
  BY AnswersOf
<1> QED
  BY <1>1 DEF Ignored, Shape, Fields, MayRetry

LEMMA StartOf ==
  ASSUME NEW g, Good(g), NEW h \in Head(g), h.change.step = "START",
         NEW n \in Start(h)
  PROVE  Follows(g, n)
<1>1. /\ Shape(h) /\ h.menu = "none" /\ h.mode = g.mode /\ h.demo = g.demo
      /\ h.player = g.player /\ h.trans = g.trans
  BY HeadOf
<1>2. /\ g.change = Update
      /\ h.queued = g.queued \/ (g.mode = g.queued /\ h.queued # "race")
  <2>1. Update.step = "UPDATE"
    BY DEF Update, Change
  <2>2. g.change # Update => g.change.step # "START"
    BY DEF Good, Ended
  <2>3. g.change = Update
    BY <2>2, HeadOf
  <2>4. h.change # Update /\ h.change.step # "START_RELOAD"
    BY <2>1
  <2>5. h.queued = g.queued \/ (g.mode = g.queued /\ h.queued # "race")
    BY <2>3, <2>4, HeadOf
  <2> QED
    BY <2>3, <2>5
<1>3. PICK type, q, a :
        /\ q = Queue(h, TRUE, type) /\ a \in Answers(q)
        /\ n = [TransitionUpdate(Ignored(q, a)) EXCEPT !.change.step = "WAIT"]
  <2>1. PICK q \in {Queue(h, TRUE, type) : type \in HideTypes(h)} :
          n \in {[TransitionUpdate(Ignored(q, a)) EXCEPT !.change.step = "WAIT"] :
                   a \in Answers(q)}
    BY DEF Start
  <2>2. PICK a \in Answers(q) :
          n = [TransitionUpdate(Ignored(q, a)) EXCEPT !.change.step = "WAIT"]
    BY <2>1
  <2>3. PICK type : q = Queue(h, TRUE, type)
    BY <2>1
  <2> QED
    BY <2>2, <2>3
<1>4. Like(h, q) /\ Shape(q) /\ q.menu = "none"
  <2>1. Like(h, q)
    BY <1>1, <1>3, QueueLike
  <2> QED
    BY <1>1, <2>1 DEF Like
<1>5. PICK d : d = Ignored(q, a)
  OBVIOUS
<1>6. /\ Shape(d) /\ d.mode = h.mode /\ d.queued = h.queued /\ d.demo = h.demo
      /\ d.player = h.player /\ d.change = h.change
      /\ d.menu \in MenuNames /\ (d.menu = "RETRY" => MayRetry(d))
  <2>1. /\ Shape(d) /\ d.mode = q.mode /\ d.queued = q.queued /\ d.demo = q.demo
        /\ d.player = q.player /\ d.change = q.change
        /\ d.menu \in MenuNames /\ (d.menu = "RETRY" => MayRetry(d))
    BY <1>3, <1>4, <1>5, IgnoredOf
  <2> QED
    BY <1>4, <2>1 DEF Like
<1>7. PICK u : u = TransitionUpdate(d)
  OBVIOUS
<1>8. Like(d, u) /\ u.trans.queued = "none"
  BY <1>6, <1>7, UpdateLike
<1>9. n = [u EXCEPT !.change.step = "WAIT"]
  BY <1>3, <1>5, <1>7
<1>10. /\ Shape(n) /\ n.mode = g.mode /\ n.queued = h.queued /\ n.demo = g.demo
       /\ n.player = g.player /\ n.change.step = "WAIT" /\ n.menu = d.menu
       /\ n.trans = u.trans
  BY <1>1, <1>6, <1>8, <1>9 DEF Like, Shape, Fields
<1>11. PlayersRace(n)
  BY <1>2, <1>10 DEF Good, PlayersRace
<1>12. Ended(n)
  BY <1>1, <1>6, <1>8, <1>10 DEF Ended, MayRetry
<1> QED
  BY <1>2, <1>10, <1>11, <1>12 DEF Follows, Good

LEMMA WaitOf ==
  ASSUME NEW g, Good(g), NEW h \in Head(g), h.change.step = "WAIT",
         NEW n \in Wait(h)
  PROVE  Follows(g, n)
<1>1. /\ Shape(h) /\ h.menu = "none" /\ h.mode = g.mode /\ h.demo = g.demo
      /\ h.player = g.player /\ h.trans = g.trans /\ h.queued = g.queued
  <2>1. Update.step = "UPDATE"
    BY DEF Update, Change
  <2> QED
    BY <2>1, HeadOf
<1>2. PICK a \in Answers(h) :
        n = LET u == TransitionUpdate(Ignored(h, a))
            IN  IF u.trans.finished THEN [u EXCEPT !.change.step = "INIT"] ELSE u
  BY DEF Wait
<1>3. PICK d : d = Ignored(h, a)
  OBVIOUS
<1>4. /\ Shape(d) /\ d.mode = h.mode /\ d.queued = h.queued /\ d.demo = h.demo
      /\ d.player = h.player /\ d.change = h.change /\ d.trans = h.trans
      /\ d.menu \in MenuNames /\ (d.menu = "RETRY" => MayRetry(d))
  BY <1>1, <1>3, IgnoredOf
<1>5. PICK u : u = TransitionUpdate(d)
  OBVIOUS
<1>6. /\ Like(d, u) /\ u.trans.queued = "none"
      /\ d.trans.queued = "none" => u.trans.copies = d.trans.copies
  BY <1>4, <1>5, UpdateLike
<1>7. n = IF u.trans.finished THEN [u EXCEPT !.change.step = "INIT"] ELSE u
  BY <1>2, <1>3, <1>5
<1>8. /\ Shape(n) /\ n.mode = g.mode /\ n.queued = g.queued /\ n.demo = g.demo
      /\ n.player = g.player /\ n.change.step \in {"WAIT", "INIT"} /\ n.menu = d.menu
      /\ n.trans = u.trans
  BY <1>1, <1>4, <1>6, <1>7 DEF Like, Shape, Fields
<1>9. n.trans.copies = g.trans.copies
  BY <1>1, <1>4, <1>6, <1>8 DEF Good, Ended
<1>10. PlayersRace(n)
  BY <1>8 DEF Good, PlayersRace
<1>11. Ended(n)
  BY <1>1, <1>4, <1>6, <1>8 DEF Ended, MayRetry
<1> QED
  BY <1>8, <1>9, <1>10, <1>11 DEF Follows, Good

\* The mode that comes is the one that was asked for.
LEMMA InitOf ==
  ASSUME NEW g, Good(g), NEW h \in Head(g), h.change.step = "INIT",
         NEW i \in Initialised(h), NEW n \in Rest(i)
  PROVE  Follows(g, n)
<1>1. /\ Shape(h) /\ h.menu = "none" /\ h.mode = g.mode /\ h.demo = g.demo
      /\ h.player = g.player /\ h.trans = g.trans /\ h.queued = g.queued
  <2>1. Update.step = "UPDATE"
    BY DEF Update, Change
  <2> QED
    BY <2>1, HeadOf
<1>2. PICK o : o = [h EXCEPT !.mode = h.queued, !.asked = FALSE,
                             !.demo = IF @ = "exit" THEN "inactive" ELSE @]
  OBVIOUS
<1>3. /\ Shape(o) /\ o.mode = g.queued /\ o.queued = g.queued /\ o.menu = "none"
      /\ o.player = g.player /\ o.trans = g.trans
      /\ g.demo = "inactive" => o.demo = "inactive"
  BY <1>1, <1>2 DEF Shape, Fields
<1>4. PICK type \in AppearTypes(o) :
        i = [Queue(o, FALSE, type) EXCEPT !.change = Update]
  BY <1>2 DEF Initialised
<1>5. PICK q : q = Queue(o, FALSE, type)
  OBVIOUS
<1>6. Like(o, q) /\ q.trans.queued = type /\ q.trans.hides = FALSE
  <2>1. PICK no : no = FALSE
    OBVIOUS
  <2>2. q = Queue(o, no, type)
    BY <1>5, <2>1
  <2>3. Like(o, q) /\ q.trans.queued = type /\ q.trans.hides = no
    BY <1>3, <2>2, QueueLike
  <2> QED
    BY <2>1, <2>3
<1>7. type # "none"
  BY <1>4 DEF AppearTypes, Picture
<1>8. /\ Shape(i) /\ i.mode = g.queued /\ i.queued = g.queued /\ i.menu = "none"
      /\ i.player = g.player /\ i.change = Update /\ i.demo = o.demo
      /\ i.trans = q.trans
  BY <1>3, <1>4, <1>5, <1>6 DEF Like, Shape, Fields, Update, Change
<1>9. PlayersRace(i)
  BY <1>3, <1>8 DEF Good, PlayersRace
<1>10. Good(n) /\ n.mode = g.queued /\ n.trans.hides = FALSE
  BY <1>6, <1>7, <1>8, <1>9, RestOf
<1> QED
  BY <1>10 DEF Follows

\* The race starts anew: nothing else is asked for, but in the records.
LEMMA StartReloadOf ==
  ASSUME NEW g, Good(g), NEW h \in Head(g), h.change.step = "START_RELOAD",
         NEW i \in StartReload(h), NEW n \in Rest(i)
  PROVE  Follows(g, n)
<1>1. /\ Shape(h) /\ h.menu = "none" /\ h.mode = g.mode /\ h.demo = g.demo
      /\ h.player = g.player /\ h.trans = g.trans
  BY HeadOf
<1>2. g.change = Update /\ g.mode = g.queued /\ h.queued = g.mode /\ MayRetry(g)
  <2>1. Update.step = "UPDATE"
    BY DEF Update, Change
  <2>2. g.change # Update => g.change.step # "START_RELOAD"
    BY DEF Good, Ended
  <2>3. g.change = Update /\ h.change # Update
    BY <2>1, <2>2, HeadOf
  <2> QED
    BY <2>3, HeadOf
<1>3. PICK type : i = [TransitionUpdate(Queue(h, TRUE, type))
                         EXCEPT !.change.step = "WAIT_RELOAD"]
  BY DEF StartReload
<1>4. PICK q : q = Queue(h, TRUE, type)
  OBVIOUS
<1>5. Like(h, q)
  BY <1>1, <1>4, QueueLike
<1>6. PICK u : u = TransitionUpdate(q)
  OBVIOUS
<1>7. Like(q, u) /\ u.trans.queued = "none"
  BY <1>5, <1>6, UpdateLike DEF Like
<1>8. i = [u EXCEPT !.change.step = "WAIT_RELOAD"]
  BY <1>3, <1>4, <1>6
<1>9. /\ Shape(i) /\ i.mode = g.mode /\ i.queued = g.mode /\ i.menu = "none"
      /\ i.demo = g.demo /\ i.player = g.player
      /\ i.change.step = "WAIT_RELOAD" /\ i.trans.queued = "none"
  BY <1>1, <1>2, <1>5, <1>7, <1>8 DEF Like, Shape, Fields
<1>10. PlayersRace(i) /\ MayRetry(i)
  BY <1>2, <1>9 DEF Good, PlayersRace, MayRetry
<1>11. Good(n) /\ n.mode = g.mode
  BY <1>9, <1>10, RestOf
<1> QED
  BY <1>2, <1>11 DEF Follows

LEMMA WaitReloadOf ==
  ASSUME NEW g, Good(g), NEW h \in Head(g), h.change.step = "WAIT_RELOAD",
         NEW i \in WaitReload(h), NEW n \in Rest(i)
  PROVE  Follows(g, n)
<1>1. /\ Shape(h) /\ h.menu = "none" /\ h.mode = g.mode /\ h.demo = g.demo
      /\ h.player = g.player /\ h.trans = g.trans /\ h.queued = g.queued
      /\ h.change = g.change
  <2>1. Update.step = "UPDATE"
    BY DEF Update, Change
  <2> QED
    BY <2>1, HeadOf
<1>2. MayRetry(g) /\ (g.mode = "race" => g.queued = "race") /\ g.trans.queued = "none"
  BY <1>1 DEF Good, Ended
<1>3. PICK u : u = TransitionUpdate(h)
  OBVIOUS
<1>4. /\ Like(h, u) /\ u.trans.queued = "none"
      /\ u.trans.copies = g.trans.copies
  BY <1>1, <1>2, <1>3, UpdateLike
<1>5. PlayersRace(u) /\ MayRetry(u)
  BY <1>1, <1>2, <1>4 DEF Good, Like, PlayersRace, MayRetry
<1>6. /\ Good(n) /\ n.mode = g.mode
      /\ ~g.trans.copies /\ n.trans.copies => ~n.trans.hides
  <2>1. CASE ~u.trans.finished
    <3>1. i = u
      BY <1>3, <2>1 DEF WaitReload
    <3>2. /\ Shape(i) /\ i.menu = "none" /\ i.change.step = "WAIT_RELOAD"
          /\ i.trans.queued = "none" /\ i.mode = g.mode
          /\ i.trans.copies = g.trans.copies
      BY <1>1, <1>4, <3>1 DEF Like
    <3>3. Good(n) /\ n.mode = i.mode /\ n.trans.copies = i.trans.copies
      BY <1>5, <3>1, <3>2, RestOf
    <3> QED
      BY <3>2, <3>3
  <2>2. CASE u.trans.finished
    <3>1. PICK type, asked :
            /\ type \in AppearTypes(u)
            /\ i = [Queue(u, FALSE, type) EXCEPT !.change = Update, !.asked = asked]
      BY <1>3, <2>2 DEF WaitReload
    <3>2. PICK q : q = Queue(u, FALSE, type)
      OBVIOUS
    <3>3. Like(u, q) /\ q.trans.queued = type /\ q.trans.hides = FALSE
      <4>1. PICK no : no = FALSE
        OBVIOUS
      <4>2. q = Queue(u, no, type)
        BY <3>2, <4>1
      <4>3. Like(u, q) /\ q.trans.queued = type /\ q.trans.hides = no
        BY <1>4, <4>2, QueueLike DEF Like
      <4> QED
        BY <4>1, <4>3
    <3>4. type # "none"
      BY <3>1 DEF AppearTypes, Picture
    <3>5. i = [q EXCEPT !.change = Update, !.asked = asked]
      BY <3>1, <3>2
    <3>6. /\ Shape(i) /\ i.mode = u.mode /\ i.queued = u.queued /\ i.menu = "none"
          /\ i.player = u.player /\ i.demo = u.demo /\ i.change = Update
          /\ i.trans = q.trans
      BY <1>1, <1>4, <3>3, <3>5 DEF Like, Shape, Fields, Update, Change
    <3>7. PlayersRace(i)
      BY <1>5, <3>6 DEF PlayersRace
    <3>8. Good(n) /\ n.mode = i.mode /\ n.trans.hides = i.trans.hides
      BY <3>3, <3>4, <3>6, <3>7, RestOf
    <3> QED
      BY <1>1, <1>4, <3>3, <3>6, <3>8 DEF Like
  <2> QED
    BY <2>1, <2>2
<1>7. \/ g.mode = "records" /\ g.change.step = "WAIT_RELOAD"
      \/ g.mode = g.queued
  BY <1>1, <1>2 DEF MayRetry
<1> QED
  BY <1>6, <1>7 DEF Follows

\* No change: a mode may be left, and asks only then.
LEMMA UpdateOf ==
  ASSUME NEW g, Good(g), NEW h \in Head(g), h.change.step = "UPDATE",
         NEW n \in Rest(h)
  PROVE  Follows(g, n)
<1>1. /\ Shape(h) /\ h.menu = "none" /\ h.mode = g.mode /\ h.demo = g.demo
      /\ h.player = g.player /\ h.trans = g.trans
  BY HeadOf
<1>2. g.change = Update /\ g.mode = g.queued /\ h.change = Update /\ h.queued = g.queued
  <2>1. g.change # Update => g.change.step # "UPDATE"
    BY DEF Good, Ended
  <2> QED
    BY <2>1, HeadOf
<1>3. PlayersRace(h) /\ h.trans.queued = "none"
  BY <1>1, <1>2 DEF Good, PlayersRace, Ended
<1>4. Good(n) /\ n.mode = g.mode
  BY <1>1, <1>2, <1>3, RestOf
<1> QED
  BY <1>2, <1>4 DEF Follows

\* A whole frame.
LEMMA FrameOf ==
  ASSUME NEW g, Good(g), NEW n \in ModeFrame(g)
  PROVE  Follows(g, n)
<1>1. PICK h \in Head(g) :
        n \in CASE h.change.step = "START" -> Start(h)
                [] h.change.step = "WAIT" -> Wait(h)
                [] h.change.step = "INIT" -> UNION {Rest(i) : i \in Initialised(h)}
                [] h.change.step = "START_RELOAD" ->
                     UNION {Rest(i) : i \in StartReload(h)}
                [] h.change.step = "WAIT_RELOAD" ->
                     UNION {Rest(i) : i \in WaitReload(h)}
                [] h.change.step = "UPDATE" -> Rest(h)
  BY DEF ModeFrame
<1>2. h.change.step \in {"START", "WAIT", "INIT", "START_RELOAD", "WAIT_RELOAD",
                         "UPDATE"}
  <2>1. Update.step = "UPDATE"
    BY DEF Update, Change
  <2>2. g.change # Update => g.change.step \in {"WAIT", "INIT", "WAIT_RELOAD"}
    BY DEF Good, Ended
  <2> QED
    BY <2>1, <2>2, HeadOf
<1>3. CASE h.change.step = "START"
  BY <1>1, <1>3, StartOf
<1>4. CASE h.change.step = "WAIT"
  BY <1>1, <1>4, WaitOf
<1>5. CASE h.change.step = "INIT"
  <2>1. n \in UNION {Rest(i) : i \in Initialised(h)}
    BY <1>1, <1>5
  <2>2. PICK i \in Initialised(h) : n \in Rest(i)
    BY <2>1
  <2> QED
    BY <1>5, <2>2, InitOf
<1>6. CASE h.change.step = "START_RELOAD"
  <2>1. n \in UNION {Rest(i) : i \in StartReload(h)}
    BY <1>1, <1>6
  <2>2. PICK i \in StartReload(h) : n \in Rest(i)
    BY <2>1
  <2> QED
    BY <1>6, <2>2, StartReloadOf
<1>7. CASE h.change.step = "WAIT_RELOAD"
  <2>1. n \in UNION {Rest(i) : i \in WaitReload(h)}
    BY <1>1, <1>7
  <2>2. PICK i \in WaitReload(h) : n \in Rest(i)
    BY <2>1
  <2> QED
    BY <1>7, <2>2, WaitReloadOf
<1>8. CASE h.change.step = "UPDATE"
  BY <1>1, <1>8, UpdateOf
<1> QED
  BY <1>2, <1>3, <1>4, <1>5, <1>6, <1>7, <1>8

-----------------------------------------------------------------------------
(* The game.                                                               *)

\* Each frame handed over shows the mode, and copies the screen once.
Inv ==
  /\ Good(game)
  /\ building = ShownMode(game) \/ pc = "begin"
  /\ pc = "begin" => drawing = ShownMode(game) /\ ~game.trans.copies
  /\ pc \in {"begin", "dp", "copy"}
  /\ game.trans.copies /\ game.trans.hides => drawing = game.mode

\* What the music and the drawing of the transition add to a frame.
LEMMA MarksOf ==
  ASSUME NEW g, Good(g), NEW demo \in MusicMarks(g),
         NEW h, h = [TransitionDraw(g) EXCEPT !.demo = demo]
  PROVE  /\ Good(h)
         /\ h.mode = g.mode /\ h.queued = g.queued /\ h.change = g.change
         /\ h.trans.hides = g.trans.hides /\ h.trans.copies = g.trans.copies
<1>1. PICK d : d = TransitionDraw(g)
  OBVIOUS
<1>2. /\ Like(g, d) /\ d.trans.queued = g.trans.queued
      /\ d.trans.hides = g.trans.hides /\ d.trans.copies = g.trans.copies
  BY <1>1, DrawLike DEF Good
<1>3. h = [d EXCEPT !.demo = demo]
  BY <1>1
<1>4. /\ Shape(h) /\ h.mode = g.mode /\ h.queued = g.queued /\ h.change = g.change
      /\ h.trans = d.trans /\ h.menu = g.menu /\ h.player = g.player /\ h.demo = demo
  BY <1>2, <1>3 DEF Like, Shape, Fields
<1>5. demo = g.demo \/ g.mode = "title"
        \/ (g.mode = "race" /\ g.demo = "active")
  BY DEF MusicMarks
<1>6. PlayersRace(h)
  BY <1>4, <1>5 DEF Good, PlayersRace
<1>7. MayRetry(g) => MayRetry(h)
  BY <1>4, <1>5 DEF MayRetry
<1>8. Ended(h)
  BY <1>2, <1>4, <1>7 DEF Good, Ended
<1> QED
  BY <1>2, <1>4, <1>6, <1>8 DEF Good

\* A step from a good state keeps the request, too.
Kept ==
  game.queued # game.mode =>
    \/ game'.queued = game.queued
    \/ game'.mode = game.queued
    \/ game.mode = "records" /\ game.change.step = "WAIT_RELOAD"

LEMMA FrameInv ==
  ASSUME Inv, Frame
  PROVE  Inv' /\ Kept
<1>1. /\ Good(game) /\ pc = "begin" /\ pc' = "dp" /\ drawing' = drawing
      /\ drawing = ShownMode(game) /\ ~game.trans.copies
  BY DEF Inv, Frame
<1>2. PICK g \in ModeFrame(game) :
        /\ building' = ShownMode(g)
        /\ \E demo \in MusicMarks(g) :
             game' = [TransitionDraw(g) EXCEPT !.demo = demo]
  BY DEF Frame
<1>3. PICK demo \in MusicMarks(g) :
        game' = [TransitionDraw(g) EXCEPT !.demo = demo]
  BY <1>2
<1>4. Follows(game, g)
  BY <1>1, FrameOf
<1>5. PICK n : n = game'
  OBVIOUS
<1>6. /\ Good(n) /\ n.mode = g.mode /\ n.queued = g.queued /\ n.change = g.change
      /\ n.trans.hides = g.trans.hides /\ n.trans.copies = g.trans.copies
  <2>1. Good(g)
    BY <1>4 DEF Follows
  <2> QED
    BY <1>3, <1>5, <2>1, MarksOf
<1>7. building' = ShownMode(n)
  BY <1>2, <1>6 DEF ShownMode
<1>8. n.trans.copies /\ n.trans.hides => drawing' = n.mode
  <2>1. SUFFICES ASSUME n.trans.copies, n.trans.hides
                 PROVE  drawing' = n.mode
    OBVIOUS
  <2>2. g.mode = game.mode /\ game.change = Update
    BY <1>1, <1>4, <1>6, <2>1 DEF Follows
  <2>3. Update # Change("plain", "INIT")
    <3>1. Update.step # Change("plain", "INIT").step
      BY DEF Update, Change
    <3> QED
      BY <3>1
  <2>4. ShownMode(game) = game.mode
    BY <2>2, <2>3 DEF ShownMode
  <2> QED
    BY <1>1, <1>6, <2>2, <2>4
<1>9. game.queued # game.mode =>
        \/ n.queued = game.queued
        \/ n.mode = game.queued
        \/ game.mode = "records" /\ game.change.step = "WAIT_RELOAD"
  BY <1>4, <1>6 DEF Follows
<1> QED
  BY <1>1, <1>5, <1>6, <1>7, <1>8, <1>9 DEF Inv, Kept

\* The screen is copied, and the frame goes to the RCP.
LEMMA SubmitInv ==
  ASSUME Inv, Submit
  PROVE  Inv' /\ game'.queued = game.queued
<1>1. /\ Good(game) /\ pc = "copy" /\ pc' = "begin" /\ building = ShownMode(game)
      /\ drawing' = building /\ building' = building
  BY DEF Inv, Submit
<1>2. PICK n : n = game'
  OBVIOUS
<1>3. PICK no : no = FALSE
  OBVIOUS
<1>4. n = [game EXCEPT !.trans = [game.trans EXCEPT !.copies = no]]
  BY <1>2, <1>3 DEF Submit
<1>5. /\ Shape(n) /\ n.mode = game.mode /\ n.queued = game.queued
      /\ n.demo = game.demo /\ n.player = game.player /\ n.change = game.change
      /\ n.menu = game.menu /\ n.trans.queued = game.trans.queued
      /\ n.trans.copies = no
  BY <1>1, <1>4 DEF Good, Shape, Fields, TransFields
<1>6. ~n.trans.copies
  BY <1>3, <1>5
<1>7. Good(n)
  BY <1>1, <1>5 DEF Good, PlayersRace, Ended, MayRetry
<1>8. drawing' = ShownMode(n)
  BY <1>1, <1>5 DEF ShownMode
<1> QED
  BY <1>1, <1>2, <1>5, <1>6, <1>7, <1>8 DEF Inv

LEMMA InitGame ==
  ASSUME Init
  PROVE  Inv
<1>1. /\ game.mode = NoMode /\ game.queued = "title" /\ game.change = Update
      /\ game.menu = "none" /\ game.player = FALSE /\ game.trans = NoTransition
      /\ DOMAIN game = Fields
      /\ pc = "begin" /\ drawing = NoMode
  BY DEF Init, Fields
<1>2. /\ NoTransition.queued = "none" /\ NoTransition.copies = FALSE
      /\ DOMAIN NoTransition = TransFields
  BY DEF NoTransition, TransFields
<1>3. DOMAIN Update = {"variant", "step"} /\ Update.step = "UPDATE"
  BY DEF Update, Change
<1>4. ShownMode(game) = NoMode
  BY <1>1 DEF ShownMode
<1>5. Good(game)
  BY <1>1, <1>2, <1>3 DEF Good, Shape, PlayersRace, Ended, NoMode, MenuNames
<1>6. ~game.trans.copies
  BY <1>1, <1>2
<1> QED
  BY <1>1, <1>4, <1>5, <1>6 DEF Inv

LEMMA NextGame ==
  ASSUME Inv, [Next]_vars
  PROVE  Inv' /\ [Kept]_vars
<1>1. CASE Frame
  BY <1>1, FrameInv
<1>2. CASE Submit
  BY <1>2, SubmitInv DEF Kept
<1>3. CASE FrameDrawn
  <2>1. /\ UNCHANGED <<game, building, drawing>> /\ pc = "dp" /\ pc' = "copy"
    BY <1>3 DEF FrameDrawn
  <2> QED
    BY <2>1 DEF Inv, Kept
<1>4. CASE Drawn
  <2>1. UNCHANGED <<pc, game, building, drawing>>
    BY <1>4 DEF Drawn
  <2> QED
    BY <2>1 DEF Inv, Kept
<1>5. CASE UNCHANGED vars
  <2>1. UNCHANGED <<pc, game, building, drawing>>
    BY <1>5 DEF vars
  <2> QED
    BY <1>5, <2>1 DEF Inv
<1> QED
  BY <1>1, <1>2, <1>3, <1>4, <1>5 DEF Next, Game

LEMMA Invariance ==
  Spec => []Inv
BY InitGame, NextGame, PTL DEF Spec

\* A race that the player chose is never run as a demo.
THEOREM NoDemoInPlay == Spec => []DemoIsOver
<1>1. Inv => DemoIsOver
  BY DEF Inv, Good, PlayersRace, DemoIsOver
<1> QED
  BY <1>1, Invariance, PTL

\* The memory of a mode is replaced only when nothing of it is drawn, and a
\* transition copies a picture of the mode that ends.
THEOREM PicturesAreRight == Spec => []PicturesHold
<1>1. Inv => PicturesHold
  BY DEF Inv, PicturesHold, ShownMode
<1> QED
  BY <1>1, Invariance, PTL

\* The mode that was asked for is the one that comes.
THEOREM RequestsAreKept == Spec => RequestKept
<1>1. Inv /\ [Next]_vars => [Kept]_vars
  BY NextGame
<1> QED
  BY <1>1, Invariance, PTL DEF Spec, RequestKept, Kept
=============================================================================
