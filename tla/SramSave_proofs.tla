--------------------------- MODULE SramSave_proofs ---------------------------
(***************************************************************************)
(* What the two profiles of the save file promise, for any number of       *)
(* courses, saves and power cuts.                                          *)
(***************************************************************************)
EXTENDS SramSave, Integers, SequenceTheorems, TLAPS

-----------------------------------------------------------------------------
(* The inductive invariant.                                                *)

Types ==
  /\ sram \in [Fields -> 0..version \cup {Bad, Nameless}]
  /\ pc \in {"off", "load", "run"}
  /\ loaded \in 0..NumCourses + 2
  /\ game \in [Sections -> 0..version]
  /\ saved \in [Sections -> 0..version]
  /\ version \in Nat
  /\ {formatted, spoiled, half} \subseteq BOOLEAN

\* Both copies of a section are good, so that a write to either may be cut.
Whole(s) == saved[s] = 0 \/ (Valid(Copy(0, s)) /\ Valid(Copy(1, s)))

Loaded(s) ==
  pc = "run" \/ (pc = "load" /\ \E k \in 1..loaded : LoadOrder(k) = s)

\* What is still to be written, by the operation that is in progress.

Naming ==
  /\ pc = "load" /\ loaded = 0
  /\ ~Valid(Copy(0, Settings))
  /\ todo = <<Put(Copy(0, Settings), Bad)>>

MendsFirst(s) ==
  /\ pc = "load" /\ ~Valid(Copy(0, s)) /\ Valid(Copy(1, s))
  /\ todo = <<Put(Copy(0, s), sram[Copy(1, s)])>>
MendsSecond(s) ==
  /\ pc = "load" /\ Valid(Copy(0, s))
  /\ todo = <<Put(Copy(1, s), sram[Copy(0, s)])>>
Renews(s) ==
  /\ pc = "load" /\ saved[s] = 0 /\ todo = PutPair(s, 0)
  /\ ~Valid(Copy(0, s)) /\ ~Valid(Copy(1, s))

BeginsSave(s) ==
  pc = "run" /\ game[s] = version /\ Whole(s) /\ todo = PutPair(s, version)
EndsSave(s) ==
  /\ pc = "run" /\ game[s] = version /\ Whole(s)
  /\ sram[Copy(0, s)] = version
  /\ todo = <<Put(Copy(1, s), version)>>

BeginsSpoiling ==
  pc = "run" /\ saved[Settings] = 0 /\ todo = PutPair(Settings, Nameless)
EndsSpoiling ==
  /\ pc = "run" /\ saved[Settings] = 0 /\ spoiled /\ ~Named(0)
  /\ todo = <<Put(Copy(1, Settings), Nameless)>>

BeginsGhost(v) == pc = "run" /\ todo = PutGhost(v)
EndsGhost(v)   == pc = "run" /\ sram[Record] = v /\ todo = <<Put(Data, v)>>

\* The file is made anew, by Save_Init after it has mended the settings.
Erasable(v) ==
  pc = "load" /\ loaded = 0 /\ \A s \in Sections : Whole(s) /\ saved[s] <= v
Erases(v) == Erasable(v) /\ todo = <<PutAll(v)>>
MendsToErase(v) ==
  /\ Erasable(v) /\ saved[Settings] = 0
  /\ \/ \E c \in {0, 1} : \E u \in 0..version :
          todo = <<Put(Copy(c, Settings), u), PutAll(v)>>
     \/ todo = <<Put(Copy(0, Settings), 0), Put(Copy(1, Settings), 0), PutAll(v)>>

InProgress(s) ==
  MendsFirst(s) \/ MendsSecond(s) \/ Renews(s) \/ BeginsSave(s) \/ EndsSave(s)

Pending ==
  \/ todo = <<>>
  \/ Naming
  \/ \E s \in Sections : InProgress(s)
  \/ BeginsSpoiling \/ EndsSpoiling
  \/ \E v \in 0..version :
       BeginsGhost(v) \/ EndsGhost(v) \/ Erases(v) \/ MendsToErase(v)

\* A copy is never older than what was saved, and there is one.
Safe ==
  \A s \in Sections :
    /\ \A c \in {0, 1} : Valid(Copy(c, s)) => sram[Copy(c, s)] >= saved[s]
    /\ saved[s] = 0 \/ Valid(Copy(0, s)) \/ Valid(Copy(1, s))

\* What has been loaded is good in both copies, or is being mended.
Ready ==
  \A s \in Sections : Loaded(s) =>
    /\ game[s] >= saved[s]
    /\ Whole(s) \/ MendsFirst(s) \/ MendsSecond(s)

\* The game has what the next power-on will show.
Shown ==
  \A s \in Sections : Loaded(s) =>
    \/ Chosen(s) = game[s]
    \/ BeginsSave(s)
    \/ s = Settings /\ pc = "run" /\ spoiled /\ (~Named(0) \/ ~Named(1))

\* The second name is spoiled after the first only.
FileNamed == formatted /\ ~spoiled => Named(1)

\* A record is that of the data behind it, which are valid.
GhostJoined ==
  /\ pc = "run" => \/ Valid(Data)
                   \/ \E v \in 0..version : BeginsGhost(v) \/ EndsGhost(v)
  /\ Valid(Record) /\ sram[Record] # 0 /\ ~half =>
       sram[Record] = sram[Data] \/ EndsGhost(sram[Record])

IInv == Types /\ Pending /\ Safe /\ Ready /\ Shown /\ FileNamed /\ GhostJoined

-----------------------------------------------------------------------------
(* Places and writes.                                                      *)

\* The copies of the sections and the two parts of the ghost are fields apart.
LEMMA Places ==
  /\ \A s \in Sections : \A c \in {0, 1} :
       /\ Copy(c, s) \in Fields /\ Copy(c, s) \in 1..Data
       /\ Copy(c, s) # Record /\ Copy(c, s) # Data
  /\ \A s, t \in Sections : \A c, d \in {0, 1} :
       Copy(c, s) = Copy(d, t) => c = d /\ s = t
  /\ Record \in Fields /\ Data \in Fields /\ Record # Data
  /\ Record # 1 /\ Data # 1 /\ 1 \in Fields
  /\ Settings \in Sections
  /\ Fields = 1..Data
<1> USE SaveAssumption
<1> DEFINE width == DeathRace + NumCourses
<1>1. width \in Nat /\ width >= 2 /\ Sections = 1..width
  BY DEF DeathRace, Sections
<1>2. \A s : Copy(0, s) = 0 * width + s /\ Copy(1, s) = 1 * width + s
      /\ Copy(2, s) = 2 * width + s
  BY DEF Copy
<1> HIDE DEF width
<1>3. \A s \in Sections : Copy(0, s) = s /\ Copy(1, s) = width + s
  BY <1>1, <1>2
<1>4. Record = 2 * width + 1 /\ Data = 2 * width + 2 /\ Fields = 1..2 * width + 2
  BY <1>1, <1>2 DEF Record, Data, Fields
<1>5. \A s \in Sections : \A c \in {0, 1} :
        /\ Copy(c, s) \in Fields /\ Copy(c, s) \in 1..Data
        /\ Copy(c, s) # Record /\ Copy(c, s) # Data
  <2> SUFFICES ASSUME NEW s \in Sections, NEW c \in {0, 1}
               PROVE  Copy(c, s) \in 1..2 * width
    BY <1>1, <1>4
  <2> QED
    BY <1>1, <1>3
<1>6. \A s, t \in Sections : \A c, d \in {0, 1} :
        Copy(c, s) = Copy(d, t) => c = d /\ s = t
  BY <1>1, <1>3
<1> QED
  BY <1>1, <1>4, <1>5, <1>6 DEF Settings

\* The contents that are not a version.
LEMMA Tokens == Bad \notin Nat /\ Nameless \notin Nat /\ Bad # Nameless
BY SaveAssumption

LEMMA HeadsOne ==
  \A w : <<w>> # <<>> /\ Head(<<w>>) = w /\ Tail(<<w>>) = <<>>
OBVIOUS

LEMMA HeadsTwo ==
  \A w, x : <<w, x>> # <<>> /\ Head(<<w, x>>) = w /\ Tail(<<w, x>>) = <<x>>
            /\ Tail(<<w, x>>) # <<>>
OBVIOUS

LEMMA HeadsThree ==
  \A w, x, y : /\ <<w, x, y>> # <<>> /\ Head(<<w, x, y>>) = w
               /\ Tail(<<w, x, y>>) = <<x, y>> /\ Tail(<<w, x, y>>) # <<>>
OBVIOUS

LEMMA Appends ==
  /\ \A w, x : Append(<<w>>, x) = <<w, x>>
  /\ \A w, x, y : Append(<<w, x>>, y) = <<w, x, y>>
<1>1. ASSUME NEW w, NEW x
      PROVE  Append(<<w>>, x) = <<w, x>>
  <2> DEFINE S == {w, x}
  <2>1. <<w>> \in Seq(S) /\ Len(<<w>>) = 1 /\ <<w>>[1] = w
    OBVIOUS
  <2>2. /\ Append(<<w>>, x) \in Seq(S) /\ Len(Append(<<w>>, x)) = 2
        /\ Append(<<w>>, x)[1] = w /\ Append(<<w>>, x)[2] = x
    BY <2>1, AppendProperties
  <2>3. /\ <<w, x>> \in Seq(S) /\ Len(<<w, x>>) = 2
        /\ <<w, x>>[1] = w /\ <<w, x>>[2] = x
    OBVIOUS
  <2>4. \A i \in 1..2 : Append(<<w>>, x)[i] = <<w, x>>[i]
    BY <2>2, <2>3
  <2> QED
    BY <2>2, <2>3, <2>4, SeqEqual
<1>2. ASSUME NEW w, NEW x, NEW y
      PROVE  Append(<<w, x>>, y) = <<w, x, y>>
  <2> DEFINE S == {w, x, y}
  <2>1. /\ <<w, x>> \in Seq(S) /\ Len(<<w, x>>) = 2
        /\ <<w, x>>[1] = w /\ <<w, x>>[2] = x
    OBVIOUS
  <2>2. /\ Append(<<w, x>>, y) \in Seq(S) /\ Len(Append(<<w, x>>, y)) = 3
        /\ Append(<<w, x>>, y)[1] = w /\ Append(<<w, x>>, y)[2] = x
        /\ Append(<<w, x>>, y)[3] = y
    BY <2>1, AppendProperties
  <2>3. /\ <<w, x, y>> \in Seq(S) /\ Len(<<w, x, y>>) = 3
        /\ <<w, x, y>>[1] = w /\ <<w, x, y>>[2] = x /\ <<w, x, y>>[3] = y
    OBVIOUS
  <2>4. \A i \in 1..3 : Append(<<w, x>>, y)[i] = <<w, x, y>>[i]
    BY <2>2, <2>3
  <2> QED
    BY <2>2, <2>3, <2>4, SeqEqual
<1> QED
  BY <1>1, <1>2

\* A write of one field is over.
LEMMA OneWritten ==
  ASSUME NEW f \in Fields, NEW v, Types, todo # <<>>, Head(todo) = Put(f, v),
         WriteDone
  PROVE  /\ sram' = [sram EXCEPT ![f] = v]
         /\ todo' = Tail(todo)
         /\ formatted' = formatted
         /\ spoiled' = (v = Nameless
                          \/ (spoiled /\ ((~Named(0))' \/ (~Named(1))')))
         /\ half' = (half /\ f # Data)
         /\ saved' = [s \in Sections |->
                        IF Tail(todo) = <<>> /\ v \in Nat /\ pc = "run"
                             /\ (\E c \in {0, 1} : Copy(c, s) = f)
                        THEN v ELSE saved[s]]
         /\ UNCHANGED <<pc, loaded, game, version>>
<1> DEFINE w == Put(f, v)
<1>1. w.from = f /\ w.to = f /\ w.value = v /\ f \in Int
      /\ \A x \in Int : x \in f..f <=> x = f
  BY Places DEF Put, Fields
<1>2. \A x : Written(w, x) = v
  BY <1>1 DEF Written
<1> HIDE DEF w
<1>3. UpTo(w, w.to, Written(w, w.to)) /\ Head(todo) = w
  BY DEF WriteDone, w
<1>4. sram' = [x \in Fields |-> IF x = f THEN v ELSE sram[x]]
  BY <1>1, <1>2, <1>3 DEF UpTo, Fields
<1>5. sram' = [sram EXCEPT ![f] = v]
  BY <1>4 DEF Types
<1>6. /\ formatted' = formatted /\ todo' = Tail(todo)
      /\ UNCHANGED <<pc, loaded, game, version>>
  BY <1>1, <1>3 DEF WriteDone, Types
<1>7. spoiled' = (v = Nameless \/ (spoiled /\ ((~Named(0))' \/ (~Named(1))')))
  <2>1. spoiled' = (w.value = Nameless
                     \/ (spoiled /\ \E c \in {0, 1} : (~Named(c))'))
    BY <1>3 DEF WriteDone
  <2> QED
    BY <2>1, <1>1
<1>8. half' = (half /\ f # Data)
  <2>1. half' = (half /\ Data \notin w.from..w.to)
    BY <1>3 DEF WriteDone
  <2>2. Data \in Int
    BY Places DEF Fields
  <2> QED
    BY <2>1, <2>2, <1>1
<1>9. saved' = [s \in Sections |->
                  IF Tail(todo) = <<>> /\ v \in Nat /\ pc = "run"
                       /\ (\E c \in {0, 1} : Copy(c, s) = f)
                  THEN v ELSE saved[s]]
  <2>1. saved' = [s \in Sections |-> IF Saves(w, s) THEN w.value ELSE saved[s]]
    BY <1>3 DEF WriteDone
  <2>2. ASSUME NEW s \in Sections
        PROVE  Saves(w, s) <=> /\ Tail(todo) = <<>> /\ v \in Nat /\ pc = "run"
                               /\ \E c \in {0, 1} : Copy(c, s) = f
    <3>1. \A c \in {0, 1} : Copy(c, s) \in Int
      BY Places DEF Fields
    <3> QED
      BY <3>1, <1>1 DEF Saves
  <2> QED
    BY <2>1, <2>2, <1>1
<1> QED
  BY <1>5, <1>6, <1>7, <1>8, <1>9

\* The write of the whole file is over.
LEMMA AllWritten ==
  ASSUME NEW v \in Nat, Types, todo = <<PutAll(v)>>, WriteDone
  PROVE  /\ sram' = [x \in Fields |-> IF x \in {Record, Data} THEN 0 ELSE v]
         /\ todo' = <<>>
         /\ formatted' /\ ~spoiled' /\ ~half'
         /\ {formatted', spoiled', half'} \subseteq BOOLEAN
         /\ saved' = [s \in Sections |-> v]
         /\ UNCHANGED <<pc, loaded, game, version>>
<1> DEFINE w == PutAll(v)
<1>1. w.from = 1 /\ w.to = Data /\ w.value = v /\ Head(todo) = w
      /\ Tail(todo) = <<>>
  BY HeadsOne DEF PutAll
<1>2. \A x : Written(w, x) = IF x \in {Record, Data} THEN 0 ELSE v
  BY <1>1, Places DEF Written
<1> HIDE DEF w
<1>3. UpTo(w, w.to, Written(w, w.to))
  BY <1>1 DEF WriteDone
<1>4. sram' = [x \in Fields |-> IF x \in {Record, Data} THEN 0 ELSE v]
  BY <1>1, <1>2, <1>3, Places DEF UpTo
<1>5. todo' = <<>> /\ UNCHANGED <<pc, loaded, game, version>>
  BY <1>1 DEF WriteDone
<1>6. formatted' /\ ~half' /\ {formatted', half'} \subseteq BOOLEAN
  <2>1. /\ formatted' = (formatted \/ w.from # w.to)
        /\ half' = (half /\ Data \notin w.from..w.to)
    BY <1>1 DEF WriteDone
  <2>2. Data \in 1..Data
    BY Places
  <2> QED
    BY <2>1, <2>2, <1>1, Places DEF Types
<1>7. ~spoiled' /\ spoiled' \in BOOLEAN
  <2>1. spoiled' = (w.value = Nameless
                     \/ (spoiled /\ \E c \in {0, 1} : (~Named(c))'))
    BY <1>1 DEF WriteDone
  <2>2. \A c \in {0, 1} : sram'[Copy(c, Settings)] = v
    BY <1>4, Places
  <2> QED
    BY <2>1, <2>2, <1>1, Tokens DEF Named
<1>8. saved' = [s \in Sections |-> v]
  <2>1. saved' = [s \in Sections |-> IF Saves(w, s) THEN w.value ELSE saved[s]]
    BY <1>1 DEF WriteDone
  <2>2. ASSUME NEW s \in Sections
        PROVE  Saves(w, s)
    BY <1>1, Places DEF Saves
  <2> QED
    BY <2>1, <2>2, <1>1
<1> QED
  BY <1>4, <1>5, <1>6, <1>7, <1>8

\* The power goes while one field is written.
LEMMA OneCut ==
  ASSUME NEW f \in Fields, NEW v, Types, todo # <<>>, Head(todo) = Put(f, v),
         PowerCut
  PROVE  /\ \E cell \in {sram[f], v, Bad} : sram' = [sram EXCEPT ![f] = cell]
         /\ half' = (half \/ (v # 0 /\ \/ f = Record /\ sram'[Record] = v
                                       \/ f = Data /\ sram'[Data] # v))
<1> DEFINE w == Put(f, v)
<1>1. w.from = f /\ w.to = f /\ w.value = v /\ f \in Int
      /\ f..f = {f}
  BY Places DEF Put, Fields
<1>2. \A x : Written(w, x) = v
  BY <1>1 DEF Written
<1> HIDE DEF w
<1>3. /\ \E g \in w.from..w.to : \E cell \in Partly(w, g) : UpTo(w, g, cell)
      /\ half' = (half \/ /\ w.value # 0
                          /\ \/ w.from = Record /\ sram'[Record] = w.value
                             \/ w.from = Data /\ sram'[Data] # w.value)
  <2>1. Head(todo) = w
    BY DEF w
  <2> QED
    BY <2>1 DEF PowerCut
<1>4. PICK cell \in Partly(w, f) : UpTo(w, f, cell)
  BY <1>1, <1>3
<1>5. cell \in {sram[f], v, Bad}
  BY <1>2, <1>4 DEF Partly
<1>6. sram' = [x \in Fields |-> IF x = f THEN cell ELSE sram[x]]
  BY <1>1, <1>2, <1>4 DEF UpTo
<1>7. sram' = [sram EXCEPT ![f] = cell]
  BY <1>6 DEF Types
<1> QED
  BY <1>1, <1>3, <1>5, <1>7

\* The power goes while the whole file is written.
LEMMA AllCut ==
  ASSUME NEW v \in Nat, Types, todo = <<PutAll(v)>>, PowerCut
  PROVE  /\ \E f \in Fields : \E cell \in {sram[f], Written(PutAll(v), f), Bad} :
              sram' = [x \in Fields |->
                         IF x = f THEN cell
                         ELSE IF x < f THEN Written(PutAll(v), x) ELSE sram[x]]
         /\ \A x : Written(PutAll(v), x) = IF x \in {Record, Data} THEN 0 ELSE v
         /\ half' = half
<1> DEFINE w == PutAll(v)
<1>1. w.from = 1 /\ w.to = Data /\ w.value = v /\ Head(todo) = w /\ todo # <<>>
  BY HeadsOne DEF PutAll
<1>2. \A x : Written(w, x) = IF x \in {Record, Data} THEN 0 ELSE v
  BY <1>1, Places DEF Written
<1> HIDE DEF w
<1>3. /\ \E g \in w.from..w.to : \E cell \in Partly(w, g) : UpTo(w, g, cell)
      /\ half' = (half \/ /\ w.value # 0
                          /\ \/ w.from = Record /\ sram'[Record] = w.value
                             \/ w.from = Data /\ sram'[Data] # w.value)
  BY <1>1 DEF PowerCut
<1>4. PICK f \in Fields : \E cell \in Partly(w, f) : UpTo(w, f, cell)
  BY <1>1, <1>3, Places
<1>5. PICK cell \in Partly(w, f) : UpTo(w, f, cell)
  BY <1>4
<1>6. cell \in {sram[f], Written(w, f), Bad}
  BY <1>5 DEF Partly
<1>7. \A x \in Fields : x # f => (x \in w.from..f <=> x < f)
  BY <1>1, Places
<1>8. sram' = [x \in Fields |-> IF x = f THEN cell
                                ELSE IF x < f THEN Written(w, x) ELSE sram[x]]
  BY <1>5, <1>7 DEF UpTo
<1>9. half' = half
  BY <1>1, <1>3, Places DEF Types
<1> QED
  BY <1>2, <1>6, <1>8, <1>9 DEF w

-----------------------------------------------------------------------------
(* A power cut.                                                            *)

\* What a cut has to keep: the rest is about an operation in progress.
Kernel ==
  /\ Types /\ Safe /\ FileNamed
  /\ Valid(Record) /\ sram[Record] # 0 /\ ~half => sram[Record] = sram[Data]

LEMMA EndsGhostOnly ==
  ASSUME NEW v, EndsGhost(v)
  PROVE  Head(todo) = Put(Data, v) /\ Head(todo).from = Data
BY HeadsOne DEF EndsGhost, Put

\* A section may be cut whose other copy is good.
LEMMA SectionCut ==
  ASSUME Types, Safe, FileNamed, GhostJoined,
         NEW s \in Sections, NEW c \in {0, 1}, NEW d \in {0, 1}, c # d,
         NEW v \in 0..version \cup {Bad, Nameless},
         todo # <<>>, Head(todo) = Put(Copy(c, s), v),
         v \in Nat => saved[s] <= v,
         saved[s] = 0 \/ Valid(Copy(d, s)),
         v = Nameless => c = 0 \/ spoiled,
         PowerCut
  PROVE  Kernel'
<1> DEFINE f == Copy(c, s)
<1>1. f \in Fields /\ f # Record /\ f # Data
  BY Places
<1>2. /\ pc' = "off" /\ UNCHANGED <<loaded, game, version, saved, formatted, spoiled>>
  BY DEF PowerCut
<1>3. PICK cell \in {sram[f], v, Bad} : sram' = [sram EXCEPT ![f] = cell]
  BY <1>1, OneCut
<1>4. half' = half
  BY <1>1, OneCut DEF Types
<1>5. Types'
  BY <1>1, <1>2, <1>3, <1>4 DEF Types
<1>6. Safe'
  <2> SUFFICES ASSUME NEW t \in Sections
               PROVE  /\ \A b \in {0, 1} :
                           Valid(Copy(b, t))' => sram'[Copy(b, t)] >= saved[t]
                      /\ saved[t] = 0 \/ Valid(Copy(0, t))' \/ Valid(Copy(1, t))'
    BY <1>2 DEF Safe
  <2>1. CASE t # s
    <3>1. \A b \in {0, 1} : sram'[Copy(b, t)] = sram[Copy(b, t)]
      BY <1>1, <1>3, <2>1, Places DEF Types
    <3> QED
      BY <3>1 DEF Safe, Valid
  <2>2. CASE t = s
    <3>1. sram'[Copy(d, s)] = sram[Copy(d, s)] /\ sram'[f] = cell
      BY <1>1, <1>3, Places DEF Types
    <3>2. cell \in Nat => cell >= saved[s]
      BY <1>1, <1>3, Tokens DEF Safe, Valid
    <3> QED
      BY <3>1, <3>2, <2>2 DEF Safe, Valid
  <2> QED
    BY <2>1, <2>2
<1>7. FileNamed'
  <2>1. ASSUME formatted, ~spoiled
        PROVE  Named(1)'
    <3>1. Named(1) /\ Copy(1, Settings) \in Fields
      BY <2>1, Places DEF FileNamed
    <3>2. CASE Copy(1, Settings) # f
      BY <1>3, <3>1, <3>2 DEF Types, Named
    <3>3. CASE Copy(1, Settings) = f
      <4>1. c = 1
        BY <3>3, Places
      <4>2. cell # Nameless
        BY <4>1, <3>1, <3>3, <1>3, <2>1, Tokens DEF Named
      <4> QED
        BY <4>2, <3>1, <3>3, <1>3 DEF Types, Named
    <3> QED
      BY <3>2, <3>3
  <2> QED
    BY <2>1, <1>2 DEF FileNamed
<1>8. /\ sram'[Record] = sram[Record] /\ sram'[Data] = sram[Data]
      /\ ~EndsGhost(sram[Record])
  <2>1. Head(todo).from = f
    BY DEF Put
  <2> QED
    BY <2>1, <1>1, <1>3, EndsGhostOnly, Places DEF Types
<1> QED
  BY <1>4, <1>5, <1>6, <1>7, <1>8 DEF Kernel, GhostJoined, Valid

\* The parts of a ghost.
LEMMA GhostCut ==
  ASSUME Types, Safe, FileNamed, GhostJoined,
         NEW v \in 0..version, BeginsGhost(v) \/ EndsGhost(v),
         PowerCut
  PROVE  Kernel'
<1>1. /\ pc' = "off" /\ UNCHANGED <<loaded, game, version, saved, formatted, spoiled>>
  BY DEF PowerCut
<1>2. PICK f \in {Record, Data} :
        /\ todo # <<>> /\ Head(todo) = Put(f, v)
        /\ f = Data => EndsGhost(v)
        /\ f = Record => ~EndsGhost(sram[Record])
  <2>1. CASE EndsGhost(v)
    BY <2>1, HeadsOne, Places DEF EndsGhost
  <2>2. CASE BeginsGhost(v)
    <3>1. todo # <<>> /\ Head(todo) = Put(Record, v)
      BY <2>2, HeadsTwo DEF BeginsGhost, PutGhost
    <3>2. Head(todo).from = Record
      BY <3>1 DEF Put
    <3> QED
      BY <3>1, <3>2, EndsGhostOnly, Places
  <2> QED
    BY <2>1, <2>2
<1>3. f \in Fields
  BY Places
<1>4. PICK cell \in {sram[f], v, Bad} : sram' = [sram EXCEPT ![f] = cell]
  BY <1>2, <1>3, OneCut
<1>5. half' = (half \/ (v # 0 /\ \/ f = Record /\ sram'[Record] = v
                                 \/ f = Data /\ sram'[Data] # v))
  BY <1>2, <1>3, OneCut, Zenon
<1>6. \A s \in Sections : \A c \in {0, 1} : sram'[Copy(c, s)] = sram[Copy(c, s)]
  BY <1>4, Places DEF Types
<1>7. Types'
  BY <1>1, <1>3, <1>4, <1>5 DEF Types
<1>8. Safe' /\ FileNamed'
  BY <1>1, <1>6, Places DEF Safe, FileNamed, Valid, Named
<1>9. ASSUME Valid(Record)', sram'[Record] # 0, ~half'
      PROVE  sram'[Record] = sram'[Data]
  <2>1. CASE f = Record
    <3>1. sram'[Record] = cell /\ sram'[Data] = sram[Data]
      BY <1>4, <2>1, Places DEF Types
    <3>2. v # 0 => sram'[Record] # v
      BY <2>1, <1>5, <1>9, Zenon
    <3>3. cell = sram[Record]
      BY <3>1, <3>2, <1>4, <1>9, Tokens DEF Valid
    <3> QED
      BY <3>1, <3>3, <1>2, <1>5, <1>9, <2>1 DEF GhostJoined, Valid
  <2>2. CASE f = Data
    <3>1. sram'[Record] = sram[Record] /\ sram[Record] = v
      BY <1>2, <1>4, <2>2, Places DEF Types, EndsGhost
    <3> QED
      BY <3>1, <2>2, <1>5, <1>9
  <2> QED
    BY <2>1, <2>2
<1> QED
  BY <1>7, <1>8, <1>9 DEF Kernel

\* The whole file, whose sections are good in both copies.
LEMMA FileCut ==
  ASSUME Types, Safe, FileNamed, GhostJoined,
         NEW v \in 0..version, Erases(v), PowerCut
  PROVE  Kernel'
<1>1. /\ pc' = "off" /\ UNCHANGED <<loaded, game, version, saved, formatted, spoiled>>
  BY DEF PowerCut
<1>2. v \in Nat /\ todo = <<PutAll(v)>>
  BY DEF Erases, Types
<1>3. \A x : Written(PutAll(v), x) = IF x \in {Record, Data} THEN 0 ELSE v
  BY <1>2, AllCut
<1> DEFINE Cut(f, cell) ==
             sram' = [x \in Fields |->
                        IF x = f THEN cell
                        ELSE IF x < f THEN Written(PutAll(v), x) ELSE sram[x]]
<1>a. PICK f \in Fields : \E cell \in {sram[f], Written(PutAll(v), f), Bad} : Cut(f, cell)
  BY <1>2, AllCut
<1>4. PICK cell \in {sram[f], Written(PutAll(v), f), Bad} : Cut(f, cell)
  BY <1>a
<1>5. half' = half
  BY <1>2, AllCut
<1>6. Types'
  BY <1>1, <1>3, <1>4, <1>5 DEF Types
<1>7. \A s \in Sections : \A c \in {0, 1} :
        /\ sram'[Copy(c, s)] \in {sram[Copy(c, s)], v, Bad}
        /\ Copy(c, s) # f => sram'[Copy(c, s)] \in {sram[Copy(c, s)], v}
  BY <1>3, <1>4, Places
<1>8. Safe'
  <2> SUFFICES ASSUME NEW s \in Sections
               PROVE  /\ \A c \in {0, 1} :
                           Valid(Copy(c, s))' => sram'[Copy(c, s)] >= saved[s]
                      /\ saved[s] = 0 \/ Valid(Copy(0, s))' \/ Valid(Copy(1, s))'
    BY <1>1 DEF Safe
  <2>1. Whole(s) /\ saved[s] <= v
    BY DEF Erases, Erasable
  <2>2. Copy(0, s) # f \/ Copy(1, s) # f
    BY Places
  <2> QED
    BY <1>2, <1>7, <2>1, <2>2, Tokens DEF Safe, Valid, Whole
<1>9. FileNamed'
  BY <1>1, <1>2, <1>7, Places, Tokens DEF FileNamed, Named
<1>10. ASSUME Valid(Record)', sram'[Record] # 0, ~half'
       PROVE  sram'[Record] = sram'[Data]
  <2>1. ~EndsGhost(sram[Record])
    <3>1. Head(todo).from = 1
      BY <1>2, HeadsOne DEF PutAll
    <3> QED
      BY <3>1, EndsGhostOnly, Places
  <2>2. sram'[Record] = sram[Record] /\ Record >= f
    BY <1>3, <1>4, <1>10, Places, Tokens DEF Valid
  <2>3. Data > Record /\ Data \in Nat /\ Record \in Nat /\ f \in Nat
    BY Places DEF Data, Fields
  <2>4. sram'[Data] = sram[Data]
    BY <1>4, <2>2, <2>3, Places
  <2> QED
    BY <1>5, <1>10, <2>1, <2>2, <2>4 DEF GhostJoined, Valid
<1> QED
  BY <1>6, <1>8, <1>9, <1>10 DEF Kernel
LEMMA CutStep ==
  ASSUME IInv, PowerCut
  PROVE  IInv'
<1> USE DEF IInv
<1>1. pc' = "off" /\ todo' = <<>>
      /\ UNCHANGED <<loaded, game, version, saved, formatted, spoiled>>
  BY DEF PowerCut
<1>2. SUFFICES Kernel'
  BY <1>1 DEF Kernel, Pending, Ready, Shown, Loaded, GhostJoined
<1>3. version \in Nat /\ 0 \in 0..version /\ Settings \in Sections
  BY Places DEF Types
<1>4. CASE todo = <<>>
  <2>1. UNCHANGED <<sram, half>>
    BY <1>4 DEF PowerCut
  <2>2. \A v : ~EndsGhost(v)
    BY <1>4, HeadsOne DEF EndsGhost
  <2> QED
    BY <1>1, <2>1, <2>2
    DEF Kernel, Types, Safe, FileNamed, GhostJoined, Valid, Named
<1>5. CASE Naming
  <2>1. /\ todo # <<>> /\ Head(todo) = Put(Copy(0, Settings), Bad)
        /\ saved[Settings] = 0 \/ Valid(Copy(1, Settings))
    BY <1>5, <1>3, HeadsOne DEF Naming, Safe
  <2> QED
    <3>1. /\ 0 \in {0, 1} /\ 1 \in {0, 1} /\ 0 # 1
          /\ Bad \in 0..version \cup {Bad, Nameless}
          /\ Nameless \in 0..version \cup {Bad, Nameless}
      OBVIOUS
    <3> QED
      BY <2>1, <3>1, <1>3, Tokens, SectionCut, Zenon
<1>6. ASSUME NEW s \in Sections, InProgress(s)
      PROVE  Kernel'
  <2>1. CASE MendsFirst(s)
    <3>1. /\ todo # <<>> /\ Head(todo) = Put(Copy(0, s), sram[Copy(1, s)])
          /\ sram[Copy(1, s)] \in 0..version /\ Valid(Copy(1, s))
      BY <2>1, HeadsOne, Places, Tokens DEF MendsFirst, Types, Valid
    <3>2. saved[s] <= sram[Copy(1, s)]
      BY <3>1 DEF Safe, Types
    <3> QED
      BY <3>1, <3>2, Tokens, SectionCut
  <2>2. CASE MendsSecond(s)
    <3>1. /\ todo # <<>> /\ Head(todo) = Put(Copy(1, s), sram[Copy(0, s)])
          /\ sram[Copy(0, s)] \in 0..version /\ Valid(Copy(0, s))
      BY <2>2, HeadsOne, Places, Tokens DEF MendsSecond, Types, Valid
    <3>2. saved[s] <= sram[Copy(0, s)]
      BY <3>1 DEF Safe, Types
    <3>3. sram[Copy(0, s)] # Nameless
      BY <3>1, Tokens
    <3> QED
      BY <3>1, <3>2, <3>3, SectionCut
  <2>3. CASE Renews(s)
    <3>1. todo # <<>> /\ Head(todo) = Put(Copy(0, s), 0) /\ saved[s] = 0
      BY <2>3, HeadsTwo DEF Renews, PutPair
    <3> QED
      BY <3>1, <1>3, Tokens, SectionCut
  <2>4. CASE BeginsSave(s)
    <3>1. /\ todo # <<>> /\ Head(todo) = Put(Copy(0, s), version)
          /\ saved[s] = 0 \/ Valid(Copy(1, s))
          /\ saved[s] <= version /\ version \in 0..version
      BY <2>4, HeadsTwo DEF BeginsSave, PutPair, Whole, Types
    <3> QED
      BY <3>1, Tokens, SectionCut
  <2>5. CASE EndsSave(s)
    <3>1. /\ todo # <<>> /\ Head(todo) = Put(Copy(1, s), version)
          /\ saved[s] = 0 \/ Valid(Copy(0, s))
          /\ saved[s] <= version /\ version \in 0..version /\ version # Nameless
      BY <2>5, HeadsOne, Tokens DEF EndsSave, Whole, Types
    <3> QED
      BY <3>1, SectionCut
  <2> QED
    BY <1>6, <2>1, <2>2, <2>3, <2>4, <2>5 DEF InProgress
<1>7. CASE BeginsSpoiling
  <2>1. /\ todo # <<>> /\ Head(todo) = Put(Copy(0, Settings), Nameless)
        /\ saved[Settings] = 0
    BY <1>7, HeadsTwo DEF BeginsSpoiling, PutPair
  <2> QED
    <3>1. /\ 0 \in {0, 1} /\ 1 \in {0, 1} /\ 0 # 1
          /\ Bad \in 0..version \cup {Bad, Nameless}
          /\ Nameless \in 0..version \cup {Bad, Nameless}
      OBVIOUS
    <3> QED
      BY <2>1, <3>1, <1>3, Tokens, SectionCut, Zenon
<1>8. CASE EndsSpoiling
  <2>1. /\ todo # <<>> /\ Head(todo) = Put(Copy(1, Settings), Nameless)
        /\ saved[Settings] = 0 /\ spoiled
    BY <1>8, HeadsOne DEF EndsSpoiling
  <2> QED
    <3>1. /\ 0 \in {0, 1} /\ 1 \in {0, 1} /\ 0 # 1
          /\ Bad \in 0..version \cup {Bad, Nameless}
          /\ Nameless \in 0..version \cup {Bad, Nameless}
      OBVIOUS
    <3> QED
      BY <2>1, <3>1, <1>3, Tokens, SectionCut, Zenon
<1>9. ASSUME NEW v \in 0..version, MendsToErase(v)
      PROVE  Kernel'
  <2>1. PICK c \in {0, 1}, u \in 0..version :
          todo # <<>> /\ Head(todo) = Put(Copy(c, Settings), u)
    <3>1. CASE todo = <<Put(Copy(0, Settings), 0), Put(Copy(1, Settings), 0), PutAll(v)>>
      BY <3>1, <1>3, HeadsThree, Zenon
    <3>2. CASE \E c \in {0, 1} : \E u \in 0..version :
                 todo = <<Put(Copy(c, Settings), u), PutAll(v)>>
      BY <3>2, HeadsTwo
    <3> QED
      BY <3>1, <3>2, <1>9 DEF MendsToErase
  <2>2. saved[Settings] = 0 /\ u # Nameless
    BY <1>9, Tokens DEF MendsToErase
  <2>3. PICK d \in {0, 1} : c # d
    OBVIOUS
  <2> QED
    BY <2>1, <2>2, <2>3, <1>3, SectionCut
<1> QED
  BY <1>4, <1>5, <1>6, <1>7, <1>8, <1>9, GhostCut, FileCut DEF Pending

-----------------------------------------------------------------------------
(* A write is over.                                                        *)

\* A section that no operation is working on.
Settled(s) ==
  Loaded(s) =>
    /\ game[s] >= saved[s]
    /\ Whole(s)
    /\ \/ Chosen(s) = game[s]
       \/ s = Settings /\ pc = "run" /\ spoiled /\ (~Named(0) \/ ~Named(1))

LEMMA Settles ==
  ASSUME Ready, Shown
  PROVE  \A s \in Sections : InProgress(s) \/ Settled(s)
<1> SUFFICES ASSUME NEW s \in Sections, ~InProgress(s), Loaded(s)
             PROVE  Settled(s)
  BY DEF Settled
<1>1. ~MendsFirst(s) /\ ~MendsSecond(s) /\ ~BeginsSave(s)
  BY DEF InProgress
<1> QED
  BY <1>1 DEF Ready, Shown, Settled

LEMMA ProgressOnly ==
  ASSUME NEW s, InProgress(s)
  PROVE  todo # <<>> /\ \E c \in {0, 1} : Head(todo).from = Copy(c, s)
<1>1. \A f, v : Put(f, v).from = f
  BY DEF Put
<1>2. todo # <<>> /\ \E c \in {0, 1} : \E v : Head(todo) = Put(Copy(c, s), v)
  BY HeadsOne, HeadsTwo
  DEF InProgress, MendsFirst, MendsSecond, Renews, BeginsSave, EndsSave, PutPair
<1> QED
  BY <1>1, <1>2

LEMMA GhostOnly ==
  ASSUME NEW v, BeginsGhost(v) \/ EndsGhost(v)
  PROVE  todo # <<>> /\ Head(todo).from \in {Record, Data}
<1>1. \A f, u : Put(f, u).from = f
  BY DEF Put
<1> QED
  BY <1>1, HeadsOne, HeadsTwo DEF BeginsGhost, EndsGhost, PutGhost

\* A copy of s is written: the last write of a save makes both copies equal.
LEMMA SectionWritten ==
  ASSUME IInv,
         NEW s \in Sections, NEW c \in {0, 1}, NEW d \in {0, 1}, c # d,
         NEW v \in 0..version \cup {Bad, Nameless},
         todo # <<>>, Head(todo) = Put(Copy(c, s), v),
         v \in Nat => saved[s] <= v,
         saved[s] = 0 \/ Valid(Copy(d, s)),
         v \in Nat /\ pc = "run" /\ Tail(todo) = <<>> => sram[Copy(d, s)] = v,
         v = Nameless => s = Settings,
         WriteDone
  PROVE  /\ Types' /\ Safe' /\ FileNamed' /\ GhostJoined'
         /\ \A t \in Sections : t # s => Settled(t)'
         /\ sram'[Copy(c, s)] = v /\ sram'[Copy(d, s)] = sram[Copy(d, s)]
         /\ todo' = Tail(todo) /\ UNCHANGED <<pc, loaded, game, version>>
         /\ spoiled' = (v = Nameless
                          \/ (spoiled /\ ((~Named(0))' \/ (~Named(1))')))
         /\ saved'[s] \in {saved[s], v}
         /\ ~(v \in Nat /\ pc = "run" /\ Tail(todo) = <<>>) => saved'[s] = saved[s]
         /\ \A t \in Sections : t # s =>
              /\ saved'[t] = saved[t]
              /\ \A b \in {0, 1} : sram'[Copy(b, t)] = sram[Copy(b, t)]
<1> USE DEF IInv
<1> DEFINE f == Copy(c, s)
<1>1. f \in Fields /\ f # Record /\ f # Data
  BY Places
<1>2. /\ sram' = [sram EXCEPT ![f] = v]
      /\ todo' = Tail(todo)
      /\ formatted' = formatted
      /\ UNCHANGED <<pc, loaded, game, version>>
  BY <1>1, OneWritten
<1>3. spoiled' = (v = Nameless \/ (spoiled /\ ((~Named(0))' \/ (~Named(1))')))
  BY <1>1, OneWritten
<1>4. half' = half
  BY <1>1, OneWritten DEF Types
<1>5. saved' = [t \in Sections |->
                  IF Tail(todo) = <<>> /\ v \in Nat /\ pc = "run"
                       /\ (\E b \in {0, 1} : Copy(b, t) = f)
                  THEN v ELSE saved[t]]
  BY <1>1, OneWritten
<1>6. /\ sram'[f] = v /\ sram'[Copy(d, s)] = sram[Copy(d, s)]
      /\ \A g \in Fields : g # f => sram'[g] = sram[g]
  BY <1>1, <1>2, Places DEF Types
<1>7. /\ \A t \in Sections : t # s => saved'[t] = saved[t]
      /\ saved'[s] \in {saved[s], v}
      /\ ~(v \in Nat /\ pc = "run" /\ Tail(todo) = <<>>) => saved'[s] = saved[s]
  BY <1>5, Places
<1>8. Types'
  <2>1. saved' \in [Sections -> 0..version]
    BY <1>5, Tokens DEF Types
  <2>2. spoiled' \in BOOLEAN
    BY <1>3
  <2> QED
    BY <1>1, <1>2, <1>4, <2>1, <2>2 DEF Types
<1>9. Safe'
  <2> SUFFICES ASSUME NEW t \in Sections
               PROVE  /\ \A b \in {0, 1} :
                           Valid(Copy(b, t))' => sram'[Copy(b, t)] >= saved'[t]
                      /\ saved'[t] = 0 \/ Valid(Copy(0, t))' \/ Valid(Copy(1, t))'
    BY DEF Safe
  <2>1. CASE t # s
    <3>1. \A b \in {0, 1} : sram'[Copy(b, t)] = sram[Copy(b, t)]
      BY <1>6, <2>1, Places
    <3> QED
      BY <3>1, <1>7, <2>1 DEF Safe, Valid
  <2>2. CASE t = s
    <3>1. CASE saved'[s] = saved[s]
      BY <3>1, <2>2, <1>6 DEF Safe, Valid
    <3>2. CASE saved'[s] # saved[s]
      <4>1. v \in Nat /\ saved'[s] = v /\ sram[Copy(d, s)] = v
        BY <3>2, <1>7
      <4> QED
        BY <4>1, <2>2, <1>6 DEF Valid
    <3> QED
      BY <3>1, <3>2
  <2> QED
    BY <2>1, <2>2
<1>10. FileNamed'
  <2>1. ASSUME formatted, ~spoiled'
        PROVE  Named(1)'
    <3>1. Copy(1, Settings) \in Fields /\ v # Nameless
      BY <2>1, <1>3, Places
    <3>2. CASE ~spoiled
      BY <3>1, <3>2, <2>1, <1>6 DEF FileNamed, Named
    <3>3. CASE spoiled
      BY <3>3, <2>1, <1>3
    <3> QED
      BY <3>2, <3>3
  <2> QED
    BY <2>1, <1>2 DEF FileNamed
<1>11. Head(todo).from = f
  BY DEF Put
<1>12. GhostJoined'
  <2>1. \A u : ~BeginsGhost(u) /\ ~EndsGhost(u)
    BY <1>1, <1>11, GhostOnly
  <2>2. sram'[Record] = sram[Record] /\ sram'[Data] = sram[Data]
    BY <1>1, <1>6, Places
  <2> QED
    BY <2>1, <2>2, <1>2, <1>4 DEF GhostJoined, Valid
<1>13. ASSUME NEW t \in Sections, t # s
       PROVE  Settled(t)'
  <2>1. Settled(t)
    BY <1>11, <1>13, Places, Settles, ProgressOnly
  <2>2. \A b \in {0, 1} : sram'[Copy(b, t)] = sram[Copy(b, t)]
    BY <1>6, <1>13, Places
  <2>3. Loaded(t)' = Loaded(t) /\ Whole(t)' = Whole(t) /\ Chosen(t)' = Chosen(t)
    BY <2>2, <1>2, <1>7, <1>13 DEF Loaded, Whole, Chosen, Valid
  <2>4. t = Settings /\ spoiled /\ (~Named(0) \/ ~Named(1)) =>
          spoiled' /\ ((~Named(0))' \/ (~Named(1))')
    BY <2>2, <1>3 DEF Named
  <2> QED
    BY <2>1, <2>3, <2>4, <1>2, <1>7, <1>13 DEF Settled
<1>14. \A t \in Sections : t # s =>
          \A b \in {0, 1} : sram'[Copy(b, t)] = sram[Copy(b, t)]
  BY <1>6, Places
<1> QED
  BY <1>2, <1>3, <1>6, <1>7, <1>8, <1>9, <1>10, <1>12, <1>13, <1>14
\* A part of the ghost is written.
LEMMA GhostWritten ==
  ASSUME IInv, NEW v \in 0..version, BeginsGhost(v) \/ EndsGhost(v), WriteDone
  PROVE  IInv'
<1> USE DEF IInv
<1>1. v \in Nat /\ v # Nameless /\ Record \in Fields /\ Data \in Fields
      /\ Record # Data /\ pc = "run"
  BY Tokens, Places DEF Types, BeginsGhost, EndsGhost
<1>2. PICK f \in {Record, Data} :
        /\ todo # <<>> /\ Head(todo) = Put(f, v)
        /\ f = Data => Tail(todo) = <<>> /\ sram[Record] = v
        /\ f = Record => Tail(todo) = <<Put(Data, v)>>
  <2>1. CASE BeginsGhost(v)
    <3>1. Head(todo) = Put(Record, v) /\ Tail(todo) = <<Put(Data, v)>> /\ todo # <<>>
      BY <2>1, HeadsTwo DEF BeginsGhost, PutGhost
    <3> QED
      BY <3>1, <1>1
  <2>2. CASE EndsGhost(v)
    <3>1. /\ Head(todo) = Put(Data, v) /\ Tail(todo) = <<>> /\ todo # <<>>
          /\ sram[Record] = v
      BY <2>2, HeadsOne DEF EndsGhost
    <3> QED
      BY <3>1, <1>1
  <2> QED
    BY <2>1, <2>2
<1>3. f \in Fields /\ \A s \in Sections : \A c \in {0, 1} : Copy(c, s) # f
  BY Places
<1>4. /\ sram' = [sram EXCEPT ![f] = v]
      /\ todo' = Tail(todo)
      /\ formatted' = formatted
      /\ half' = (half /\ f # Data)
      /\ UNCHANGED <<pc, loaded, game, version>>
  BY <1>2, <1>3, OneWritten
<1>5. spoiled' = (v = Nameless \/ (spoiled /\ ((~Named(0))' \/ (~Named(1))')))
  BY <1>2, <1>3, OneWritten
<1>6. saved' = saved
  <2>1. saved' = [s \in Sections |->
                    IF Tail(todo) = <<>> /\ v \in Nat /\ pc = "run"
                         /\ (\E c \in {0, 1} : Copy(c, s) = f)
                    THEN v ELSE saved[s]]
    BY <1>2, <1>3, OneWritten
  <2> QED
    BY <2>1, <1>3 DEF Types
<1>7. sram'[f] = v /\ \A g \in Fields : g # f => sram'[g] = sram[g]
  BY <1>3, <1>4 DEF Types
<1>8. \A s \in Sections : \A c \in {0, 1} : sram'[Copy(c, s)] = sram[Copy(c, s)]
  BY <1>3, <1>7, Places
<1>9. spoiled' = spoiled \/ (~spoiled' /\ Named(0)' /\ Named(1)')
  BY <1>1, <1>5 DEF Types
<1>10. Types'
  <2>1. spoiled' \in BOOLEAN
    BY <1>5
  <2> QED
    BY <1>3, <1>4, <1>6, <2>1 DEF Types
<1>11. Safe'
  BY <1>6, <1>8 DEF Safe, Valid
<1>12. FileNamed'
  BY <1>4, <1>8, <1>9, Places DEF FileNamed, Named
<1>13. Pending' /\ GhostJoined'
  <2>1. CASE f = Record
    <3>1. EndsGhost(v)'
      BY <2>1, <1>1, <1>2, <1>4, <1>7 DEF EndsGhost
    <3>2. \E u \in 0..version' : EndsGhost(u)'
      BY <3>1, <1>4
    <3> QED
      BY <2>1, <3>1, <3>2, <1>7 DEF Pending, GhostJoined
  <2>2. CASE f = Data
    BY <2>2, <1>1, <1>2, <1>4, <1>7 DEF Pending, GhostJoined, Valid
  <2> QED
    BY <2>1, <2>2
<1>14. ASSUME NEW s \in Sections
       PROVE  Settled(s)'
  <2>1. Settled(s)
    <3>1. Head(todo).from = f
      BY <1>2 DEF Put
    <3> QED
      BY <3>1, <1>3, Settles, ProgressOnly
  <2>2. Loaded(s)' = Loaded(s) /\ Whole(s)' = Whole(s) /\ Chosen(s)' = Chosen(s)
    BY <1>4, <1>6, <1>8 DEF Loaded, Whole, Chosen, Valid
  <2>3. s = Settings /\ spoiled /\ (~Named(0) \/ ~Named(1)) =>
          spoiled' /\ ((~Named(0))' \/ (~Named(1))')
    BY <1>5, <1>8 DEF Named
  <2> QED
    BY <2>1, <2>2, <2>3, <1>4, <1>6 DEF Settled
<1>15. Ready' /\ Shown'
  BY <1>14 DEF Settled, Ready, Shown
<1> QED
  BY <1>10, <1>11, <1>12, <1>13, <1>15

\* The file has been made anew, and nothing of it has been loaded yet.
LEMMA FileWritten ==
  ASSUME IInv, NEW v \in 0..version, Erases(v), WriteDone
  PROVE  IInv'
<1> USE DEF IInv
<1>1. v \in Nat /\ todo = <<PutAll(v)>> /\ pc = "load" /\ loaded = 0
  BY DEF Erases, Erasable, Types
<1>2. /\ sram' = [x \in Fields |-> IF x \in {Record, Data} THEN 0 ELSE v]
      /\ todo' = <<>>
      /\ formatted' /\ ~spoiled' /\ ~half'
      /\ {formatted', spoiled', half'} \subseteq BOOLEAN
      /\ saved' = [s \in Sections |-> v]
      /\ UNCHANGED <<pc, loaded, game, version>>
  BY <1>1, AllWritten
<1>3. Types' /\ Pending'
  BY <1>2 DEF Types, Pending
<1>4. \A s \in Sections : \A c \in {0, 1} : sram'[Copy(c, s)] = v /\ saved'[s] = v
  BY <1>2, Places
<1>5. Safe' /\ FileNamed'
  BY <1>1, <1>4, Places, Tokens DEF Safe, FileNamed, Valid, Named
<1>6. Ready' /\ Shown'
  BY <1>1, <1>2 DEF Ready, Shown, Loaded
<1>7. GhostJoined'
  BY <1>1, <1>2, Places DEF GhostJoined
<1> QED
  BY <1>3, <1>5, <1>6, <1>7

LEMMA WriteStep ==
  ASSUME IInv, WriteDone
  PROVE  IInv'
<1> USE DEF IInv
<1>1. version \in Nat /\ 0 \in 0..version /\ Settings \in Sections
      /\ 0 \in {0, 1} /\ 1 \in {0, 1} /\ 0 # 1
  BY Places DEF Types
<1>2. todo # <<>>
  BY DEF WriteDone
<1>3. CASE Naming
  <2>1. /\ Head(todo) = Put(Copy(0, Settings), Bad) /\ Tail(todo) = <<>>
        /\ saved[Settings] = 0 \/ Valid(Copy(1, Settings))
        /\ pc = "load" /\ loaded = 0
        /\ Bad \in 0..version \cup {Bad, Nameless}
    BY <1>3, <1>1, HeadsOne DEF Naming, Safe
  <2>2. /\ Types' /\ Safe' /\ FileNamed' /\ GhostJoined'
        /\ todo' = Tail(todo) /\ UNCHANGED <<pc, loaded, game, version>>
    BY <2>1, <1>1, <1>2, Tokens, SectionWritten, Zenon
  <2> QED
    BY <2>1, <2>2 DEF Pending, Ready, Shown, Loaded
<1>4. ASSUME NEW s \in Sections, MendsFirst(s)
      PROVE  IInv'
  <2> DEFINE v == sram[Copy(1, s)]
  <2>1. /\ Head(todo) = Put(Copy(0, s), v) /\ Tail(todo) = <<>>
        /\ Valid(Copy(1, s)) /\ pc = "load" /\ ~Valid(Copy(0, s))
    BY <1>4, HeadsOne DEF MendsFirst
  <2>2. /\ v \in 0..version \cup {Bad, Nameless} /\ v \in Nat /\ v # Nameless
        /\ saved[s] <= v
    BY <2>1, Places, Tokens DEF Types, Valid, Safe
  <2>3. /\ Types' /\ Safe' /\ FileNamed' /\ GhostJoined'
        /\ \A t \in Sections : t # s => Settled(t)'
        /\ sram'[Copy(0, s)] = v /\ sram'[Copy(1, s)] = v
        /\ todo' = <<>> /\ UNCHANGED <<pc, loaded, game, version>>
        /\ saved'[s] = saved[s]
    BY <2>1, <2>2, <1>1, <1>2, SectionWritten
  <2>4. Settled(s)'
    <3>1. Loaded(s)' => Loaded(s)
      BY <2>3 DEF Loaded
    <3>2. Loaded(s) => game[s] >= saved[s] /\ Chosen(s) = game[s]
      BY <2>1 DEF Ready, Shown, BeginsSave
    <3>3. Chosen(s) = v /\ Chosen(s)' = v
      BY <2>1, <2>2, <2>3 DEF Chosen, Valid
    <3> QED
      BY <2>2, <2>3, <3>1, <3>2, <3>3 DEF Settled, Whole, Valid
  <2> QED
    BY <2>3, <2>4 DEF Pending, Ready, Shown, Settled
<1>5. ASSUME NEW s \in Sections, MendsSecond(s)
      PROVE  IInv'
  <2> DEFINE v == sram[Copy(0, s)]
  <2>1. /\ Head(todo) = Put(Copy(1, s), v) /\ Tail(todo) = <<>>
        /\ Valid(Copy(0, s)) /\ pc = "load"
    BY <1>5, HeadsOne DEF MendsSecond
  <2>2. /\ v \in 0..version \cup {Bad, Nameless} /\ v \in Nat /\ v # Nameless
        /\ saved[s] <= v
    BY <2>1, Places, Tokens DEF Types, Valid, Safe
  <2>3. /\ Types' /\ Safe' /\ FileNamed' /\ GhostJoined'
        /\ \A t \in Sections : t # s => Settled(t)'
        /\ sram'[Copy(0, s)] = v /\ sram'[Copy(1, s)] = v
        /\ todo' = <<>> /\ UNCHANGED <<pc, loaded, game, version>>
        /\ saved'[s] = saved[s]
    BY <2>1, <2>2, <1>1, <1>2, SectionWritten
  <2>4. Settled(s)'
    <3>1. Loaded(s)' => Loaded(s)
      BY <2>3 DEF Loaded
    <3>2. Loaded(s) => game[s] >= saved[s] /\ Chosen(s) = game[s]
      BY <2>1 DEF Ready, Shown, BeginsSave
    <3>3. Chosen(s) = v /\ Chosen(s)' = v
      BY <2>1, <2>2, <2>3 DEF Chosen, Valid
    <3> QED
      BY <2>2, <2>3, <3>1, <3>2, <3>3 DEF Settled, Whole, Valid
  <2> QED
    BY <2>3, <2>4 DEF Pending, Ready, Shown, Settled
<1>6. ASSUME NEW s \in Sections, Renews(s)
      PROVE  IInv'
  <2>1. /\ Head(todo) = Put(Copy(0, s), 0) /\ Tail(todo) = <<Put(Copy(1, s), 0)>>
        /\ saved[s] = 0 /\ pc = "load" /\ ~Valid(Copy(0, s)) /\ ~Valid(Copy(1, s))
        /\ 0 \in 0..version \cup {Bad, Nameless} /\ 0 # Nameless /\ saved[s] <= 0
    BY <1>1, <1>6, HeadsTwo, Tokens DEF Renews, PutPair
  <2>2. /\ Types' /\ Safe' /\ FileNamed' /\ GhostJoined'
        /\ \A t \in Sections : t # s => Settled(t)'
        /\ sram'[Copy(0, s)] = 0
        /\ todo' = <<Put(Copy(1, s), 0)>> /\ UNCHANGED <<pc, loaded, game, version>>
        /\ saved'[s] = 0
    BY <2>1, <1>1, <1>2, SectionWritten
  <2>3. MendsSecond(s)'
    BY <2>1, <2>2 DEF MendsSecond, Valid
  <2>4. Loaded(s)' => game'[s] >= 0 /\ Chosen(s)' = game'[s]
    <3>1. Loaded(s)' => Loaded(s)
      BY <2>2 DEF Loaded
    <3>2. Loaded(s) => game[s] >= 0 /\ Chosen(s) = game[s]
      BY <2>1 DEF Ready, Shown, BeginsSave
    <3>3. Chosen(s) = 0 /\ Chosen(s)' = 0
      BY <2>1, <2>2 DEF Chosen, Valid
    <3> QED
      BY <2>2, <3>1, <3>2, <3>3
  <2> QED
    BY <2>2, <2>3, <2>4 DEF Pending, InProgress, Ready, Shown, Settled
<1>7. ASSUME NEW s \in Sections, BeginsSave(s)
      PROVE  IInv'
  <2>1. /\ Head(todo) = Put(Copy(0, s), version)
        /\ Tail(todo) = <<Put(Copy(1, s), version)>> /\ Tail(todo) # <<>>
        /\ pc = "run" /\ game[s] = version /\ Whole(s)
        /\ version \in 0..version \cup {Bad, Nameless} /\ version # Nameless
        /\ saved[s] <= version
    BY <1>1, <1>7, HeadsTwo, Tokens DEF BeginsSave, PutPair, Types
  <2>2. saved[s] = 0 \/ Valid(Copy(1, s))
    BY <2>1 DEF Whole
  <2>3. /\ Types' /\ Safe' /\ FileNamed' /\ GhostJoined'
        /\ \A t \in Sections : t # s => Settled(t)'
        /\ sram'[Copy(0, s)] = version /\ sram'[Copy(1, s)] = sram[Copy(1, s)]
        /\ todo' = Tail(todo) /\ UNCHANGED <<pc, loaded, game, version>>
        /\ saved'[s] = saved[s]
    BY <2>1, <2>2, <1>1, <1>2, SectionWritten
  <2>4. EndsSave(s)'
    BY <1>1, <2>1, <2>3 DEF EndsSave, Whole, Valid
  <2>5. Chosen(s)' = game'[s] /\ game'[s] >= saved'[s]
    BY <1>1, <2>1, <2>3 DEF Chosen, Valid, Types
  <2> QED
    BY <2>3, <2>4, <2>5 DEF Pending, InProgress, Ready, Shown, Settled, EndsSave
<1>8. ASSUME NEW s \in Sections, EndsSave(s)
      PROVE  IInv'
  <2>1. /\ Head(todo) = Put(Copy(1, s), version) /\ Tail(todo) = <<>>
        /\ pc = "run" /\ game[s] = version /\ sram[Copy(0, s)] = version
        /\ version \in 0..version \cup {Bad, Nameless} /\ version # Nameless
        /\ saved[s] <= version
    BY <1>1, <1>8, HeadsOne, Tokens DEF EndsSave, Types
  <2>2. Valid(Copy(0, s))
    BY <1>1, <2>1 DEF Valid
  <2>3. /\ Types' /\ Safe' /\ FileNamed' /\ GhostJoined'
        /\ \A t \in Sections : t # s => Settled(t)'
        /\ sram'[Copy(1, s)] = version /\ sram'[Copy(0, s)] = version
        /\ todo' = <<>> /\ UNCHANGED <<pc, loaded, game, version>>
        /\ saved'[s] \in {saved[s], version}
    BY <2>1, <2>2, <1>1, <1>2, SectionWritten
  <2>4. Settled(s)'
    BY <1>1, <2>1, <2>3 DEF Settled, Whole, Chosen, Valid
  <2> QED
    BY <2>3, <2>4 DEF Pending, Ready, Shown, Settled
<1>9. CASE BeginsSpoiling
  <2>1. /\ Head(todo) = Put(Copy(0, Settings), Nameless)
        /\ Tail(todo) = <<Put(Copy(1, Settings), Nameless)>>
        /\ saved[Settings] = 0 /\ pc = "run"
        /\ Nameless \in 0..version \cup {Bad, Nameless}
    BY <1>9, HeadsTwo DEF BeginsSpoiling, PutPair
  <2>2. /\ Types' /\ Safe' /\ FileNamed' /\ GhostJoined'
        /\ \A t \in Sections : t # Settings => Settled(t)'
        /\ sram'[Copy(0, Settings)] = Nameless
        /\ todo' = Tail(todo) /\ UNCHANGED <<pc, loaded, game, version>>
        /\ saved'[Settings] = saved[Settings]
        /\ spoiled'
    BY <2>1, <1>1, <1>2, Tokens, SectionWritten, Zenon
  <2>3. EndsSpoiling'
    BY <2>1, <2>2 DEF EndsSpoiling, Named
  <2>4. Settled(Settings)'
    <3>1. game[Settings] >= 0
      BY <1>1 DEF Types
    <3> QED
      BY <2>1, <2>2, <3>1 DEF Settled, Whole, Named
  <2> QED
    BY <2>2, <2>3, <2>4 DEF Pending, Ready, Shown, Settled
<1>10. CASE EndsSpoiling
  <2>1. /\ Head(todo) = Put(Copy(1, Settings), Nameless)
        /\ Tail(todo) = <<>>
        /\ saved[Settings] = 0 /\ pc = "run"
        /\ Nameless \in 0..version \cup {Bad, Nameless}
    BY <1>10, HeadsOne DEF EndsSpoiling
  <2>2. /\ Types' /\ Safe' /\ FileNamed' /\ GhostJoined'
        /\ \A t \in Sections : t # Settings => Settled(t)'
        /\ sram'[Copy(1, Settings)] = Nameless
        /\ todo' = Tail(todo) /\ UNCHANGED <<pc, loaded, game, version>>
        /\ saved'[Settings] = saved[Settings]
        /\ spoiled'
    BY <2>1, <1>1, <1>2, Tokens, SectionWritten, Zenon
  <2>3. Settled(Settings)'
    <3>1. game[Settings] >= 0
      BY <1>1 DEF Types
    <3> QED
      BY <2>1, <2>2, <3>1 DEF Settled, Whole, Named
  <2> QED
    BY <2>1, <2>2, <2>3 DEF Pending, Ready, Shown, Settled
<1>11. ASSUME NEW v \in 0..version, MendsToErase(v)
       PROVE  IInv'
  <2> DEFINE last == Put(Copy(1, Settings), 0)
  <2>1. PICK c \in {0, 1} : \E u \in 0..version :
          /\ Head(todo) = Put(Copy(c, Settings), u)
          /\ Tail(todo) \in {<<PutAll(v)>>, <<last, PutAll(v)>>}
    <3>1. CASE todo = <<Put(Copy(0, Settings), 0), last, PutAll(v)>>
      BY <3>1, <1>1, HeadsThree
    <3>2. CASE \E c \in {0, 1} : \E u \in 0..version :
                 todo = <<Put(Copy(c, Settings), u), PutAll(v)>>
      BY <3>2, HeadsTwo
    <3> QED
      BY <3>1, <3>2, <1>11 DEF MendsToErase
  <2>2. PICK u \in 0..version :
          /\ Head(todo) = Put(Copy(c, Settings), u)
          /\ Tail(todo) \in {<<PutAll(v)>>, <<last, PutAll(v)>>}
    BY <2>1
  <2>3. /\ saved[Settings] = 0 /\ u # Nameless /\ pc = "load" /\ loaded = 0
        /\ \A s \in Sections : Whole(s) /\ saved[s] <= v
        /\ u \in 0..version \cup {Bad, Nameless} /\ saved[Settings] <= u
    BY <1>11, Tokens DEF MendsToErase, Erasable
  <2>4. PICK d \in {0, 1} : c # d
    OBVIOUS
  <2>5. /\ Types' /\ Safe' /\ FileNamed' /\ GhostJoined'
        /\ todo' = Tail(todo) /\ UNCHANGED <<pc, loaded, game, version>>
        /\ saved'[Settings] = saved[Settings]
        /\ \A t \in Sections : t # Settings =>
             /\ saved'[t] = saved[t]
             /\ \A b \in {0, 1} : sram'[Copy(b, t)] = sram[Copy(b, t)]
    BY <2>2, <2>3, <2>4, <1>1, <1>2, SectionWritten
  <2>6. Erasable(v)' /\ saved'[Settings] = 0
    BY <2>3, <2>5, <1>1 DEF Erasable, Whole, Valid
  <2>7. Erases(v)' \/ MendsToErase(v)'
    <3>1. CASE todo' = <<PutAll(v)>>
      BY <3>1, <2>6 DEF Erases
    <3>2. CASE todo' = <<last, PutAll(v)>>
      <4>1. \E b \in {0, 1} : \E w \in 0..version' :
              todo' = <<Put(Copy(b, Settings), w), PutAll(v)>>
        BY <3>2, <1>1, <2>5
      <4> QED
        BY <4>1, <2>6 DEF MendsToErase
    <3> QED
      BY <3>1, <3>2, <2>2, <2>5
  <2> QED
    BY <2>3, <2>5, <2>7 DEF Pending, Ready, Shown, Loaded
<1> QED
  BY <1>2, <1>3, <1>4, <1>5, <1>6, <1>7, <1>8, <1>9, <1>10, <1>11, GhostWritten,
     FileWritten
  DEF Pending, InProgress
-----------------------------------------------------------------------------
(* Power-on and loading.                                                   *)

\* Save_Load goes through all sections.
LEMMA LoadsAll ==
  /\ \A k \in 1..NumCourses + 2 : LoadOrder(k) \in Sections
  /\ \A s \in Sections : \E k \in 1..NumCourses + 2 : LoadOrder(k) = s
<1> USE SaveAssumption DEF Sections, Settings, DeathRace, Course, LoadOrder
<1>1. \A k \in 1..NumCourses + 2 : LoadOrder(k) \in Sections
  OBVIOUS
<1>2. ASSUME NEW s \in Sections
      PROVE  \E k \in 1..NumCourses + 2 : LoadOrder(k) = s
  <2>1. CASE s = 1
    <3>1. NumCourses + 2 \in 1..NumCourses + 2 /\ LoadOrder(NumCourses + 2) = 1
      OBVIOUS
    <3> QED
      BY <2>1, <3>1
  <2>2. CASE s = 2
    <3>1. NumCourses + 1 \in 1..NumCourses + 2 /\ LoadOrder(NumCourses + 1) = 2
      OBVIOUS
    <3> QED
      BY <2>2, <3>1
  <2>3. CASE s > 2
    <3>1. s - 2 \in 1..NumCourses + 2 /\ LoadOrder(s - 2) = s
      BY <2>3
    <3> QED
      BY <3>1
  <2> QED
    BY <2>1, <2>2, <2>3
<1> QED
  BY <1>1, <1>2

\* Between two operations there is nothing to be written.
LEMMA Idle ==
  ASSUME todo = <<>>
  PROVE  /\ \A s : ~InProgress(s)
         /\ \A v : ~BeginsGhost(v) /\ ~EndsGhost(v)
BY ProgressOnly, GhostOnly

LEMMA PowerOnStep ==
  ASSUME IInv, PowerOn
  PROVE  IInv'
<1> USE DEF IInv
<1>1. /\ pc = "off" /\ pc' = "load" /\ loaded' = 0
      /\ UNCHANGED <<sram, game, version, formatted, spoiled, half>>
  BY DEF PowerOn
<1>2. todo = <<>>
  BY <1>1 DEF Pending, Naming, InProgress, MendsFirst, MendsSecond, Renews,
     BeginsSave, EndsSave, BeginsSpoiling, EndsSpoiling, BeginsGhost, EndsGhost,
     Erases, MendsToErase, Erasable
<1>3. Ready' /\ Shown'
  BY <1>1 DEF Ready, Shown, Loaded
<1>4. GhostJoined' /\ FileNamed'
  BY <1>1, <1>2, Idle DEF GhostJoined, FileNamed, Named, Valid
<1>5. Types' /\ Safe' /\ Pending'
  <2>1. version \in Nat /\ NumCourses + 2 \in Nat
    BY SaveAssumption DEF Types
  <2>2. CASE saved' = saved /\ todo' = todo
    BY <1>1, <1>2, <2>1, <2>2 DEF Types, Safe, Pending, Valid
  <2>3. CASE /\ saved' = saved
             /\ ~Named(0) /\ todo' = <<Put(Copy(0, Settings), Bad)>>
    <3>1. ~Valid(Copy(0, Settings))'
      BY <1>1, <2>3, Tokens DEF Named, Valid
    <3>2. Naming'
      BY <1>1, <2>3, <3>1 DEF Naming
    <3> QED
      BY <1>1, <2>1, <2>3, <3>2 DEF Types, Safe, Pending, Valid
  <2>4. CASE todo' = <<PutAll(0)>> /\ saved' = [s \in Sections |-> 0]
    <3>1. Types'
      BY <1>1, <2>1, <2>4 DEF Types
    <3>2. Safe'
      BY <1>1, <2>1, <2>4, Places DEF Safe, Valid, Types
    <3>3. Erases(0)'
      BY <1>1, <2>4 DEF Erases, Erasable, Whole
    <3>4. 0 \in 0..version'
      BY <1>1, <2>1
    <3> QED
      BY <3>1, <3>2, <3>3, <3>4 DEF Pending
  <2> QED
    BY <2>2, <2>3, <2>4 DEF PowerOn
<1> QED
  BY <1>3, <1>4, <1>5

LEMMA LoadSectionStep ==
  ASSUME IInv, LoadSection
  PROVE  IInv'
<1> USE DEF IInv
<1>1. PICK s \in Sections : s = LoadOrder(loaded + 1)
  BY LoadsAll, SaveAssumption DEF LoadSection, Types
<1>2. /\ pc = "load" /\ todo = <<>> /\ loaded < NumCourses + 2
      /\ loaded' = loaded + 1
      /\ todo' = Repairs(s) /\ game' = [game EXCEPT ![s] = Chosen(s)]
      /\ UNCHANGED <<sram, pc, version, saved, formatted, spoiled, half>>
  BY <1>1 DEF LoadSection
<1>3. loaded + 1 \in 1..NumCourses + 2 /\ version \in Nat
  BY <1>2, SaveAssumption DEF Types
<1>4. Chosen(s) \in 0..version /\ Chosen(s) >= saved[s]
  BY <1>3, Places, Tokens DEF Chosen, Types, Safe, Valid
<1>5. Types'
  BY <1>2, <1>3, <1>4 DEF Types
<1>6. Safe' /\ FileNamed' /\ GhostJoined'
  BY <1>2, Idle DEF Safe, FileNamed, GhostJoined, Valid, Named
<1>7. \/ todo' = <<>> /\ Whole(s)'
      \/ MendsFirst(s)' \/ MendsSecond(s)' \/ Renews(s)'
  <2>1. CASE Valid(Copy(0, s)) /\ Valid(Copy(1, s))
    BY <1>2, <2>1 DEF Repairs, Whole, Valid
  <2>2. CASE Valid(Copy(0, s)) /\ ~Valid(Copy(1, s))
    BY <1>2, <2>2 DEF Repairs, MendsSecond, Valid
  <2>3. CASE ~Valid(Copy(0, s)) /\ Valid(Copy(1, s))
    BY <1>2, <2>3 DEF Repairs, MendsFirst, Valid
  <2>4. CASE ~Valid(Copy(0, s)) /\ ~Valid(Copy(1, s))
    <3>1. saved[s] = 0
      BY <1>3, <2>4 DEF Safe
    <3> QED
      BY <1>2, <2>4, <3>1 DEF Repairs, Renews, Valid
  <2> QED
    BY <2>1, <2>2, <2>3, <2>4
<1>8. Pending'
  BY <1>3, <1>7 DEF Pending, InProgress
<1>9. \A t \in Sections : Loaded(t)' => t = s \/ Loaded(t)
  BY <1>1, <1>2, <1>3 DEF Loaded, Types
<1>10. \A t \in Sections : Chosen(t)' = Chosen(t) /\ (Whole(t)' <=> Whole(t))
  BY <1>2 DEF Chosen, Whole, Valid
<1>11. ASSUME NEW t \in Sections, Loaded(t)', t # s
       PROVE  /\ game'[t] >= saved'[t] /\ Whole(t)'
              /\ Chosen(t)' = game'[t]
  <2>1. game'[t] = game[t] /\ saved'[t] = saved[t] /\ Loaded(t) /\ Settled(t)
    BY <1>2, <1>3, <1>9, <1>11, Settles, Idle DEF Types
  <2> QED
    BY <2>1, <1>2, <1>10 DEF Settled
<1>12. /\ game'[s] >= saved'[s] /\ Chosen(s)' = game'[s]
       /\ Whole(s)' \/ MendsFirst(s)' \/ MendsSecond(s)'
  <2>1. game'[s] = Chosen(s) /\ saved' = saved
    BY <1>2, <1>3 DEF Types
  <2>2. Renews(s)' => Whole(s)'
    BY DEF Renews, Whole
  <2> QED
    BY <2>1, <2>2, <1>3, <1>4, <1>7, <1>10
<1> QED
  BY <1>5, <1>6, <1>8, <1>11, <1>12 DEF Ready, Shown

LEMMA LoadGhostDataStep ==
  ASSUME IInv, LoadGhostData
  PROVE  IInv'
<1> USE DEF IInv
<1>1. /\ pc = "load" /\ todo = <<>> /\ loaded = NumCourses + 2 /\ pc' = "run"
      /\ todo' = IF Valid(Data) THEN <<>> ELSE PutGhost(0)
      /\ UNCHANGED <<sram, loaded, game, version, saved, formatted, spoiled, half>>
  BY DEF LoadGhostData
<1>2. Types' /\ Safe' /\ FileNamed'
  BY <1>1 DEF Types, Safe, FileNamed, Valid, Named
<1>3. 0 \in 0..version' /\ (Valid(Data) \/ BeginsGhost(0)')
  BY <1>1 DEF BeginsGhost, Types
<1>4. Pending' /\ GhostJoined'
  <2>1. sram[Record] # 0 /\ Valid(Record) /\ ~half => sram[Record] = sram[Data]
    BY <1>1, Idle DEF GhostJoined
  <2> QED
    BY <2>1, <1>1, <1>3 DEF Pending, GhostJoined, Valid
<1>5. ASSUME NEW s \in Sections
      PROVE  Settled(s)'
  <2>1. Loaded(s) /\ Settled(s)
    BY <1>1, LoadsAll, Settles, Idle DEF Loaded
  <2>2. (Whole(s)' <=> Whole(s)) /\ Chosen(s)' = Chosen(s)
    BY <1>1 DEF Whole, Chosen, Valid
  <2> QED
    BY <2>1, <2>2, <1>1 DEF Settled
<1> QED
  BY <1>2, <1>4, <1>5 DEF Settled, Ready, Shown

-----------------------------------------------------------------------------
(* The operations of the game, which begin at rest.                        *)

\* At rest every section is settled, and no ghost is half written.
LEMMA Rest ==
  ASSUME IInv, AtRest
  PROVE  /\ pc = "run" /\ todo = <<>> /\ version \in Nat
         /\ \A s \in Sections :
              /\ game[s] >= saved[s] /\ Whole(s)
              /\ \/ Chosen(s) = game[s]
                 \/ s = Settings /\ spoiled /\ (~Named(0) \/ ~Named(1))
         /\ Valid(Data)
         /\ Valid(Record) /\ sram[Record] # 0 /\ ~half => sram[Record] = sram[Data]
<1> USE DEF IInv
<1>1. pc = "run" /\ todo = <<>> /\ version \in Nat
  BY DEF AtRest, Types
<1>2. \A s \in Sections : Settled(s) /\ Loaded(s)
  BY <1>1, Settles, Idle DEF Loaded
<1> QED
  BY <1>1, <1>2, Idle DEF Settled, GhostJoined

LEMMA SavePairStep ==
  ASSUME IInv, NEW s \in Sections, SavePair(s)
  PROVE  IInv'
<1> USE DEF IInv
<1>1. /\ AtRest /\ todo' = PutPair(s, version + 1)
      /\ game' = [game EXCEPT ![s] = version + 1] /\ version' = version + 1
      /\ UNCHANGED <<sram, pc, loaded, saved, formatted, spoiled, half>>
  BY DEF SavePair, Begin, NewVersion
<1>2. version \in Nat /\ version + 1 \in Nat /\ 0..version \subseteq 0..version + 1
      /\ version + 1 \in 0..version + 1
  BY DEF Types
<1>3. Types'
  <2>1. game' \in [Sections -> 0..version + 1]
    BY <1>1, <1>2 DEF Types
  <2> QED
    BY <1>1, <1>2, <2>1 DEF Types
<1>4. Safe' /\ FileNamed'
  BY <1>1 DEF Safe, FileNamed, Valid, Named
<1>5. GhostJoined'
  BY <1>1, Rest DEF GhostJoined, Valid
<1>6. BeginsSave(s)'
  BY <1>1, Rest DEF BeginsSave, Whole, Valid, Types
<1>7. ASSUME NEW t \in Sections
      PROVE  /\ game'[t] >= saved'[t] /\ Whole(t)'
             /\ \/ BeginsSave(t)'
                \/ Chosen(t)' = game'[t]
                \/ t = Settings /\ spoiled' /\ ((~Named(0))' \/ (~Named(1))')
  <2>1. Whole(t)'
    BY <1>1, Rest DEF Whole, Valid
  <2>2. CASE t = s
    BY <2>1, <2>2, <1>1, <1>2, <1>6 DEF Types
  <2>3. CASE t # s
    <3>1. game'[t] = game[t] /\ Chosen(t)' = Chosen(t) /\ saved' = saved
      BY <1>1, <2>3 DEF Types, Chosen, Valid
    <3> QED
      BY <2>1, <3>1, <1>1, Rest DEF Named
  <2> QED
    BY <2>2, <2>3
<1>8. pc' = "run"
  BY <1>1, Rest
<1> QED
  BY <1>3, <1>4, <1>5, <1>6, <1>7, <1>8 DEF Pending, InProgress, Ready, Shown

\* An operation that leaves the sections alone.
LEMMA GhostOperation ==
  ASSUME IInv, NEW v \in Nat, v <= version', version' \in {version, version + 1},
         Begin(PutGhost(v)), UNCHANGED <<pc, loaded, game, saved>>
  PROVE  IInv'
<1> USE DEF IInv
<1>1. /\ AtRest /\ todo' = PutGhost(v)
      /\ UNCHANGED <<sram, pc, loaded, game, saved, formatted, spoiled, half>>
  BY DEF Begin
<1>2. version' \in Nat /\ 0..version \subseteq 0..version' /\ v \in 0..version'
  BY DEF Types
<1>3. Types'
  BY <1>1, <1>2 DEF Types
<1>4. Safe' /\ FileNamed'
  BY <1>1 DEF Safe, FileNamed, Valid, Named
<1>5. GhostJoined'
  BY <1>1, Rest DEF GhostJoined, Valid
<1>6. BeginsGhost(v)'
  BY <1>1, Rest DEF BeginsGhost
<1>7. Ready' /\ Shown'
  <2>1. \A t \in Sections : (Whole(t)' <=> Whole(t)) /\ Chosen(t)' = Chosen(t)
    BY <1>1 DEF Whole, Chosen, Valid
  <2> QED
    BY <2>1, <1>1, Rest DEF Ready, Shown, Named
<1> QED
  BY <1>2, <1>3, <1>4, <1>5, <1>6, <1>7 DEF Pending

LEMMA EraseAllStep ==
  ASSUME IInv, EraseAll
  PROVE  IInv'
<1> USE DEF IInv
<1>1. PICK v \in Nat : v = version + 1
  BY DEF Types
<1>2. /\ AtRest /\ todo' = Append(Repairs(Settings), PutAll(v))
      /\ version' = v /\ pc' = "load" /\ loaded' = 0
      /\ UNCHANGED <<sram, game, saved, formatted, spoiled, half>>
  BY <1>1 DEF EraseAll, Begin, NewVersion
<1>3. version \in Nat /\ v \in Nat /\ 0..version \subseteq 0..v
      /\ v \in 0..v /\ 0 \in 0..v /\ NumCourses + 2 \in Nat
  BY <1>1, SaveAssumption DEF Types
<1>4. Types'
  BY <1>1, <1>2, <1>3 DEF Types
<1>5. Safe' /\ FileNamed'
  BY <1>2 DEF Safe, FileNamed, Valid, Named
<1>6. GhostJoined' /\ Ready' /\ Shown'
  BY <1>2, Rest DEF GhostJoined, Valid, Ready, Shown, Loaded
<1>7. Erasable(v)'
  <2>1. \A s \in Sections : Whole(s)' /\ saved'[s] <= v
    BY <1>1, <1>2, <1>3, Rest DEF Whole, Valid, Types
  <2> QED
    BY <1>2, <2>1 DEF Erasable
<1>8. Erases(v)' \/ MendsToErase(v)'
  <2>1. CASE Valid(Copy(0, Settings)) /\ Valid(Copy(1, Settings))
    <3>1. Repairs(Settings) = <<>>
      BY <2>1 DEF Repairs
    <3>2. todo' = <<PutAll(v)>>
      BY <1>2, <3>1
    <3> QED
      BY <3>2, <1>7 DEF Erases
  <2>2. CASE ~Valid(Copy(0, Settings)) \/ ~Valid(Copy(1, Settings))
    <3>1. saved'[Settings] = 0
      BY <1>2, <2>2, Places, Rest DEF Whole
    <3>2. CASE \E c \in {0, 1} : \E u \in 0..version :
                 Repairs(Settings) = <<Put(Copy(c, Settings), u)>>
      <4>1. \E c \in {0, 1} : \E u \in 0..version' :
              todo' = <<Put(Copy(c, Settings), u), PutAll(v)>>
        <5>1. PICK c \in {0, 1} : \E u \in 0..version :
                Repairs(Settings) = <<Put(Copy(c, Settings), u)>>
          BY <3>2
        <5>2. PICK u \in 0..version : Repairs(Settings) = <<Put(Copy(c, Settings), u)>>
          BY <5>1
        <5>3. todo' = <<Put(Copy(c, Settings), u), PutAll(v)>>
          BY <1>2, <5>2, Appends
        <5>4. u \in 0..version'
          BY <1>1, <1>2, <1>3
        <5> QED
          BY <5>3, <5>4
      <4> QED
        BY <4>1, <3>1, <1>7 DEF MendsToErase
    <3>3. CASE Repairs(Settings) = PutPair(Settings, 0)
      <4>1. todo' = <<Put(Copy(0, Settings), 0), Put(Copy(1, Settings), 0), PutAll(v)>>
        BY <1>2, <3>3, Appends DEF PutPair
      <4> QED
        BY <4>1, <3>1, <1>7 DEF MendsToErase
    <3>4. \A c \in {0, 1} : Valid(Copy(c, Settings)) =>
             sram[Copy(c, Settings)] \in 0..version
      <4> SUFFICES ASSUME NEW c \in {0, 1}, Valid(Copy(c, Settings))
                   PROVE  sram[Copy(c, Settings)] \in 0..version
        OBVIOUS
      <4>1. Copy(c, Settings) \in Fields
        BY Places
      <4> QED
        BY <4>1, Tokens DEF Types, Valid
    <3>5. CASE Valid(Copy(0, Settings))
      <4>1. Repairs(Settings) = <<Put(Copy(1, Settings), sram[Copy(0, Settings)])>>
        BY <2>2, <3>5 DEF Repairs
      <4> QED
        BY <4>1, <3>2, <3>4, <3>5
    <3>6. CASE ~Valid(Copy(0, Settings)) /\ Valid(Copy(1, Settings))
      <4>1. Repairs(Settings) = <<Put(Copy(0, Settings), sram[Copy(1, Settings)])>>
        BY <3>6 DEF Repairs
      <4> QED
        BY <4>1, <3>2, <3>4, <3>6
    <3>7. CASE ~Valid(Copy(0, Settings)) /\ ~Valid(Copy(1, Settings))
      BY <3>3, <3>7 DEF Repairs
    <3> QED
      BY <3>5, <3>6, <3>7
  <2> QED
    BY <2>1, <2>2
<1>9. v \in 0..version'
  BY <1>2, <1>3
<1> QED
  BY <1>4, <1>5, <1>6, <1>8, <1>9 DEF Pending

LEMMA SpoilNamesStep ==
  ASSUME IInv, SpoilNames
  PROVE  IInv'
<1> USE DEF IInv
<1>1. /\ AtRest /\ todo' = PutPair(Settings, Nameless)
      /\ saved' = [saved EXCEPT ![Settings] = 0]
      /\ UNCHANGED <<sram, pc, loaded, game, version, formatted, spoiled, half>>
  BY DEF SpoilNames, Begin
<1>2. version \in Nat /\ Settings \in Sections
  BY Places DEF Types
<1>3. Types'
  BY <1>1, <1>2 DEF Types
<1>4. /\ saved'[Settings] = 0
      /\ \A s \in Sections : s # Settings => saved'[s] = saved[s]
      /\ \A s \in Sections : saved'[s] <= saved[s] /\ game[s] \in Nat
  BY <1>1, <1>2 DEF Types
<1>5. Safe' /\ FileNamed'
  <2>1. \A s \in Sections : \A c \in {0, 1} :
          Valid(Copy(c, s)) => sram[Copy(c, s)] \in Nat /\ sram[Copy(c, s)] >= saved'[s]
    BY <1>2, <1>4 DEF Safe, Valid, Types
  <2>2. \A s \in Sections : saved'[s] = 0 \/ Valid(Copy(0, s)) \/ Valid(Copy(1, s))
    BY <1>4 DEF Safe
  <2> QED
    BY <1>1, <2>1, <2>2 DEF Safe, FileNamed, Valid, Named
<1>6. GhostJoined'
  BY <1>1, Rest DEF GhostJoined, Valid
<1>7. BeginsSpoiling'
  BY <1>1, <1>4, Rest DEF BeginsSpoiling
<1>8. Ready' /\ Shown'
  <2>1. \A s \in Sections : Whole(s)' /\ Chosen(s)' = Chosen(s)
    BY <1>1, <1>4, Rest DEF Whole, Chosen, Valid
  <2>2. \A s \in Sections : game'[s] >= saved'[s]
    BY <1>1, <1>2, <1>4, Rest DEF Types
  <2> QED
    BY <2>1, <2>2, <1>1, Rest DEF Ready, Shown, Named
<1> QED
  BY <1>3, <1>5, <1>6, <1>7, <1>8 DEF Pending

-----------------------------------------------------------------------------
(* The theorems.                                                           *)

LEMMA InitInv == Init => IInv
<1> SUFFICES ASSUME Init PROVE IInv
  OBVIOUS
<1>1. /\ sram = [f \in Fields |-> IF f \in {Copy(0, Settings), Copy(1, Settings)}
                                  THEN Nameless ELSE Bad]
      /\ pc = "off" /\ loaded = 0 /\ todo = <<>>
      /\ game = [s \in Sections |-> 0] /\ saved = [s \in Sections |-> 0]
      /\ version = 0 /\ ~formatted /\ ~spoiled /\ ~half
      /\ {formatted, spoiled, half} \subseteq BOOLEAN
  BY DEF Init
<1>2. Types
  BY <1>1, SaveAssumption DEF Types
<1>3. \A f \in Fields : ~Valid(f)
  BY <1>1, Tokens DEF Valid
<1>4. Safe /\ Ready /\ Shown /\ FileNamed
  BY <1>1, <1>3, Places DEF Safe, Ready, Shown, FileNamed, Loaded
<1>5. GhostJoined
  BY <1>1, <1>3, Places DEF GhostJoined
<1> QED
  BY <1>1, <1>2, <1>4, <1>5 DEF IInv, Pending

LEMMA NextInv == IInv /\ [Next]_vars => IInv'
<1> SUFFICES ASSUME IInv, [Next]_vars PROVE IInv'
  OBVIOUS
<1>1. CASE PowerOn
  BY <1>1, PowerOnStep
<1>2. CASE LoadSection
  BY <1>2, LoadSectionStep
<1>3. CASE LoadGhostData
  BY <1>3, LoadGhostDataStep
<1>4. CASE WriteDone
  BY <1>4, WriteStep
<1>5. CASE PowerCut
  BY <1>5, CutStep
<1>6. ASSUME NEW s \in Sections, SavePair(s) PROVE IInv'
  BY <1>6, SavePairStep
<1>7. version \in Nat
  BY DEF IInv, Types
<1>8. CASE SaveGhost
  BY <1>7, <1>8, GhostOperation DEF SaveGhost, NewVersion
<1>9. CASE InitGhost \/ LoadGhostInfo
  BY <1>7, <1>9, GhostOperation DEF InitGhost, LoadGhostInfo
<1>10. CASE EraseAll
  BY <1>10, EraseAllStep
<1>11. CASE SpoilNames
  BY <1>11, SpoilNamesStep
<1>12. CASE UNCHANGED vars
  BY <1>12
  DEF vars, IInv, Types, Pending, Safe, Ready, Shown, FileNamed, GhostJoined,
      Naming, InProgress, MendsFirst, MendsSecond, Renews, BeginsSave, EndsSave,
      BeginsSpoiling, EndsSpoiling, BeginsGhost, EndsGhost, Erases, MendsToErase,
      Erasable, Loaded, Whole, Chosen, Valid, Named
<1> QED
  BY <1>1, <1>2, <1>3, <1>4, <1>5, <1>6, <1>8, <1>9, <1>10, <1>11, <1>12 DEF Next

\* The invariant holds for every number of courses, saves and cuts.
THEOREM Invariance == Spec => []IInv
<1> QED
  BY InitInv, NextInv, PTL DEF Spec

\* The game comes up with each section as it was last saved completely, or
\* newer, whatever the power cut (Save_Load and the Save_Save...Profiles).
THEOREM NothingSavedIsLost == Spec => []Durable
<1>1. IInv => Durable
  BY DEF IInv, Ready, Loaded, Durable
<1> QED
  BY <1>1, Invariance, PTL

\* At rest the next power-on would show what the game shows now.
THEOREM NothingChangesSilently == Spec => []Kept
<1>1. IInv => Kept
  <2> SUFFICES ASSUME IInv, AtRest, ~spoiled PROVE \A s \in Sections : Chosen(s) = game[s]
    BY DEF Kept
  <2> QED
    BY Rest
<1> QED
  BY <1>1, Invariance, PTL

\* A ghost at rest has valid data, which are those of its record unless its
\* saving was cut between the two (Save_SaveGhost, Save_LoadGhostData).
THEOREM GhostsAreWhole == Spec => []GhostWhole
<1>1. IInv => GhostWhole
  BY Rest DEF GhostWhole
<1> QED
  BY <1>1, Invariance, PTL

\* func_i10_80115E30 makes the file anew only if there is none, or if both of
\* its names have been spoiled.
THEOREM FileIsKept == Spec => FileStays
<1>1. IInv /\ [Next]_vars =>
        [pc = "off" /\ todo' = <<PutAll(0)>> => ~formatted \/ spoiled]_vars
  <2> SUFFICES ASSUME IInv, Next, pc = "off", todo' = <<PutAll(0)>>
               PROVE  ~formatted \/ spoiled
    OBVIOUS
  <2>1. todo = <<>>
    BY DEF IInv, Pending, Naming, InProgress, MendsFirst, MendsSecond, Renews,
       BeginsSave, EndsSave, BeginsSpoiling, EndsSpoiling, BeginsGhost, EndsGhost,
       Erases, MendsToErase, Erasable
  <2>2. PowerOn
    BY <2>1 DEF Next, LoadSection, LoadGhostData, WriteDone, PowerCut, SavePair,
       SaveGhost, InitGhost, LoadGhostInfo, EraseAll, SpoilNames, Begin, AtRest
  <2>3. todo' # <<>> /\ Head(todo').value = 0
    BY HeadsOne DEF PutAll
  <2>4. ~Named(1)
    <3>1. Put(Copy(0, Settings), Bad).value # 0
      BY Tokens DEF Put
    <3>2. todo' # <<Put(Copy(0, Settings), Bad)>>
      BY <2>3, <3>1, HeadsOne
    <3> QED
      BY <2>1, <2>2, <2>3, <3>2 DEF PowerOn
  <2> QED
    BY <2>4 DEF IInv, FileNamed
<1> QED
  BY <1>1, Invariance, PTL DEF Spec, FileStays
=============================================================================
