------------------------------ MODULE SramSave ------------------------------
(***************************************************************************)
(* The save file in the cartridge's SRAM (src/overlays/ovl_i2/save.c, read *)
(* at power-on by ovl_i10/1459A0.c), when the power can go at any moment.  *)
(*                                                                         *)
(* Settings, death race and course records are sections of two profiles,   *)
(* each section with a checksum; a player's ghost is kept once, in two     *)
(* parts.  One thread saves and loads and waits for each transfer, so that *)
(* an operation is a sequence of writes.  A write that the power cuts has  *)
(* written a prefix of its bytes, which its checksum does not match.       *)
(***************************************************************************)
EXTENDS Naturals, Sequences

CONSTANTS
  NumCourses,
  Bad,          \* contents that do not match their checksum
  Nameless,     \* settings whose file name is wrong (and checksum too)
  MaxVersion,   \* bound: how many saves
  MaxCuts       \* bound: how often the power goes

ASSUME SaveAssumption ==
  /\ NumCourses \in Nat
  /\ Bad # Nameless /\ Bad \notin Nat /\ Nameless \notin Nat

\* The fields of SaveContext in their order; each section is in two profiles.
Settings   == 1
DeathRace  == 2
Course(j)  == DeathRace + j
Sections   == 1..DeathRace + NumCourses
Copy(c, s) == c * (DeathRace + NumCourses) + s
Record     == Copy(2, 1)
Data       == Record + 1
Fields     == 1..Data

VARIABLES
  sram,      \* the contents of each field: a version, or Bad or Nameless
  pc,        \* "off", "load" (Save_Load) or "run"
  loaded,    \* the number of sections Save_Load has been through
  todo,      \* what the operation in progress has still to write
  game,      \* the game's own copy of each section
  version,   \* history: the number of saves, which names their contents
  saved,     \* history: the version of each section saved last, by a save that returned
  formatted, \* history: there is a save file
  spoiled,   \* history: func_i2_801039BC has spoiled a file name
  half,      \* history: the power went between a ghost's record and its data
  cuts       \* how often the power has gone

vars == <<sram, pc, loaded, todo, game, version, saved, formatted, spoiled,
          half, cuts>>

Valid(f) == sram[f] \in Nat
Named(c) == sram[Copy(c, Settings)] # Nameless

-----------------------------------------------------------------------------
(* Writes: of one field, or of the whole file, which then has no ghost.    *)

Put(f, v) == [from |-> f, to |-> f, value |-> v]
PutAll(v) == [from |-> 1, to |-> Data, value |-> v]

\* Mutant: the first profile is not written.
PutSecond(s, v) == <<Put(Copy(1, s), v)>>
PutPair(s, v)   == <<Put(Copy(0, s), v), Put(Copy(1, s), v)>>

\* Mutant: the data goes first.
PutGhostSwapped(v) == <<Put(Data, v), Put(Record, v)>>
PutGhost(v)        == <<Put(Record, v), Put(Data, v)>>

Written(w, f) == IF w.from # w.to /\ f \in {Record, Data} THEN 0 ELSE w.value

\* What the field f may hold when the power goes while w writes it.
Partly(w, f) ==
  {sram[f], Written(w, f)} \cup
    (IF Written(w, f) \in {sram[f], Nameless} THEN {} ELSE {Bad})

\* w has been written as far as the field f, which holds the cell.
UpTo(w, f, cell) ==
  sram' = [x \in Fields |->
             IF x = f THEN cell
             ELSE IF x \in w.from..f THEN Written(w, x) ELSE sram[x]]

\* The operation that ends with the write w has saved the section s.
Saves(w, s) ==
  /\ Tail(todo) = <<>> /\ w.value \in Nat
  /\ pc = "run" \/ w.from # w.to
  /\ \E c \in {0, 1} : Copy(c, s) \in w.from..w.to

\* Sram_ReadWrite(OS_WRITE, ...) returns.
WriteDone ==
  /\ todo # <<>>
  /\ LET w == Head(todo)
     IN  /\ UpTo(w, w.to, Written(w, w.to))
         /\ formatted' = (formatted \/ w.from # w.to)
         /\ spoiled' = (w.value = Nameless
                          \/ (spoiled /\ \E c \in {0, 1} : (~Named(c))'))
         /\ half' = (half /\ Data \notin w.from..w.to)
         /\ saved' = [s \in Sections |->
                        IF Saves(w, s) THEN w.value ELSE saved[s]]
  /\ todo' = Tail(todo)
  /\ UNCHANGED <<pc, loaded, game, version, cuts>>

\* The power goes, at rest or during a write.
PowerCut ==
  /\ pc # "off" /\ cuts < MaxCuts
  /\ IF todo = <<>> THEN UNCHANGED <<sram, half>>
     ELSE LET w == Head(todo)
          IN  /\ \E f \in w.from..w.to : \E cell \in Partly(w, f) : UpTo(w, f, cell)
              /\ half' = (half \/ /\ w.value # 0
                                  /\ \/ w.from = Record /\ sram'[Record] = w.value
                                     \/ w.from = Data /\ sram'[Data] # w.value)
  /\ pc' = "off" /\ todo' = <<>> /\ cuts' = cuts + 1
  /\ UNCHANGED <<loaded, game, version, saved, formatted, spoiled>>

-----------------------------------------------------------------------------
(* Loading.                                                                *)

\* Save_Load goes through the courses, then the death race and the settings.
LoadOrder(k) == IF k <= NumCourses THEN Course(k)
                ELSE IF k = NumCourses + 1 THEN DeathRace ELSE Settings

\* Mutant: a second copy that is invalid is left alone.
RepairsFirst(s) ==
  CASE Valid(Copy(0, s)) -> <<>>
    [] ~Valid(Copy(0, s)) /\ Valid(Copy(1, s)) ->
         <<Put(Copy(0, s), sram[Copy(1, s)])>>
    [] OTHER -> PutPair(s, 0)

\* What Save_Load* writes: a copy that is invalid is replaced by the other,
\* two invalid ones by the initial contents.
Repairs(s) ==
  CASE Valid(Copy(0, s)) /\ Valid(Copy(1, s)) -> <<>>
    [] Valid(Copy(0, s)) /\ ~Valid(Copy(1, s)) ->
         <<Put(Copy(1, s), sram[Copy(0, s)])>>
    [] ~Valid(Copy(0, s)) /\ Valid(Copy(1, s)) ->
         <<Put(Copy(0, s), sram[Copy(1, s)])>>
    [] OTHER -> PutPair(s, 0)

\* What it takes: the first copy, as repaired.
Chosen(s) == CASE Valid(Copy(0, s)) -> sram[Copy(0, s)]
               [] ~Valid(Copy(0, s)) /\ Valid(Copy(1, s)) -> sram[Copy(1, s)]
               [] OTHER -> 0

\* Mutant: the file is made anew unless both names are right.
PowerOnStrict ==
  /\ pc = "off"
  /\ pc' = "load" /\ loaded' = 0
  /\ IF Named(0) /\ Named(1) THEN UNCHANGED <<todo, saved>>
     ELSE todo' = <<PutAll(0)>> /\ saved' = [s \in Sections |-> 0]
  /\ UNCHANGED <<sram, game, version, formatted, spoiled, half, cuts>>

\* func_i10_80115E30: a file of which no profile has the right name is made
\* anew; if only the second has it, the first is given the name.
PowerOn ==
  /\ pc = "off"
  /\ pc' = "load" /\ loaded' = 0
  /\ \/ Named(0) /\ UNCHANGED <<todo, saved>>
     \/ /\ ~Named(0) /\ Named(1)
        /\ todo' = <<Put(Copy(0, Settings), Bad)>>
        /\ UNCHANGED saved
     \/ /\ ~Named(0) /\ ~Named(1)
        /\ todo' = <<PutAll(0)>>
        /\ saved' = [s \in Sections |-> 0]
  /\ UNCHANGED <<sram, game, version, formatted, spoiled, half, cuts>>

LoadSection ==
  /\ pc = "load" /\ todo = <<>> /\ loaded < NumCourses + 2
  /\ loaded' = loaded + 1
  /\ LET s == LoadOrder(loaded + 1)
     IN  todo' = Repairs(s) /\ game' = [game EXCEPT ![s] = Chosen(s)]
  /\ UNCHANGED <<sram, pc, version, saved, formatted, spoiled, half, cuts>>

\* The last part of Save_Load: a ghost whose data are invalid is removed.
LoadGhostData ==
  /\ pc = "load" /\ todo = <<>> /\ loaded = NumCourses + 2
  /\ pc' = "run"
  /\ todo' = IF Valid(Data) THEN <<>> ELSE PutGhost(0)
  /\ UNCHANGED <<sram, loaded, game, version, saved, formatted, spoiled, half,
                 cuts>>

-----------------------------------------------------------------------------
(* The operations of the game.                                             *)

AtRest == pc = "run" /\ todo = <<>>

Begin(writes) ==
  /\ AtRest
  /\ todo' = writes
  /\ UNCHANGED <<sram, formatted, spoiled, half, cuts>>

NewVersion == version < MaxVersion /\ version' = version + 1

\* Save_SaveSettingsProfiles, Save_SaveDeathRaceProfiles and
\* Save_SaveCourseRecordProfiles; func_i2_801017B8 is one too, of contents
\* as at first.
SavePair(s) ==
  /\ Begin(PutPair(s, version + 1))
  /\ game' = [game EXCEPT ![s] = version + 1]
  /\ NewVersion /\ UNCHANGED <<pc, loaded, saved>>

SaveGhost ==
  /\ Begin(PutGhost(version + 1))
  /\ NewVersion /\ UNCHANGED <<pc, loaded, game, saved>>

\* Save_InitGhost removes the ghost.
InitGhost ==
  /\ Begin(PutGhost(0))
  /\ UNCHANGED <<pc, loaded, game, version, saved>>

\* Save_LoadGhostInfo, before a ghost is shown, raced or saved.
LoadGhostInfo ==
  /\ ~Valid(Record)
  /\ Begin(PutGhost(0))
  /\ UNCHANGED <<pc, loaded, game, version, saved>>

\* Save_Init(, 1), from the options menu, reads the settings, makes the file
\* anew and loads it.
EraseAll ==
  /\ Begin(Append(Repairs(Settings), PutAll(version + 1)))
  /\ NewVersion
  /\ pc' = "load" /\ loaded' = 0
  /\ UNCHANGED <<game, saved>>

\* func_i2_801039BC gives both profiles another name, and a checksum that
\* loses the settings.
SpoilNames ==
  /\ Begin(PutPair(Settings, Nameless))
  /\ saved' = [saved EXCEPT ![Settings] = 0]
  /\ UNCHANGED <<pc, loaded, game, version>>

Init ==
  /\ sram = [f \in Fields |-> IF f \in {Copy(0, Settings), Copy(1, Settings)}
                              THEN Nameless ELSE Bad]
  /\ pc = "off" /\ loaded = 0 /\ todo = <<>>
  /\ game = [s \in Sections |-> 0]
  /\ version = 0 /\ saved = [s \in Sections |-> 0] /\ cuts = 0
  /\ formatted = FALSE /\ spoiled = FALSE /\ half = FALSE

Next ==
  \/ PowerOn \/ LoadSection \/ LoadGhostData \/ WriteDone \/ PowerCut
  \/ \E s \in Sections : SavePair(s)
  \/ SaveGhost \/ InitGhost \/ LoadGhostInfo \/ EraseAll \/ SpoilNames

Spec == Init /\ [][Next]_vars

-----------------------------------------------------------------------------
(* Properties.                                                             *)

Contents == 0..MaxVersion \cup {Bad, Nameless}

TypeOK ==
  /\ sram \in [Fields -> Contents]
  /\ pc \in {"off", "load", "run"}
  /\ loaded \in 0..NumCourses + 2
  /\ \A i \in DOMAIN todo : /\ todo[i].from \in Fields /\ todo[i].to \in Fields
                           /\ todo[i].value \in Contents
  /\ Len(todo) <= 3
  /\ game \in [Sections -> 0..MaxVersion]
  /\ saved \in [Sections -> 0..MaxVersion]
  /\ version \in 0..MaxVersion /\ cuts \in 0..MaxCuts
  /\ {formatted, spoiled, half} \subseteq BOOLEAN

\* However often the power goes, in a save, in the repair of what that left
\* or in the erasure of the file, the game comes up with a section as it was
\* last saved completely, or newer, and never with neither.  This is what the
\* two profiles are for.
Durable == pc = "run" => \A s \in Sections : game[s] >= saved[s]

\* What the game shows, when nothing is being saved or mended, is what it will
\* show after the next power-on, whatever was cut before.
Kept == AtRest /\ ~spoiled => \A s \in Sections : Chosen(s) = game[s]

\* No cut costs the whole file: a save file is made anew only after both of
\* its names have been spoiled.
FileStays ==
  [][pc = "off" /\ todo' = <<PutAll(0)>> => ~formatted \/ spoiled]_vars

\* A ghost that is offered for a race is whole: it has valid data, and they
\* are those of its record.  The one exception is a ghost whose saving was cut
\* between the two: it has the record of the new and the data of the old.
GhostWhole ==
  AtRest => /\ Valid(Data)
            /\ Valid(Record) /\ sram[Record] # 0 /\ ~half =>
                 sram[Record] = sram[Data]
=============================================================================
