------------------------------ MODULE DiskFiles ------------------------------
(***************************************************************************)
(* The files on the 64DD's disks: the file system (src/leo/mfs, version B) *)
(* and the calls of the Expansion Kit's service thread that try until it   *)
(* has done what they want (src/sys/disk/sys_leo_dd.c).                    *)
(*                                                                         *)
(* A disk has a management area (directory and allocation table), a copy   *)
(* of it, and the blocks of the files.  The program works on the area in   *)
(* memory and writes it when an operation is over.  The player takes disks *)
(* out and puts others in, and the power goes, at any moment; a write that *)
(* is broken off leaves something of the old and something of the new.     *)
(*                                                                         *)
(* A slot is where one version of one file lies.  The allocation table is  *)
(* written with the directory, and has exactly the blocks of its files:    *)
(* a slot is free if no entry of the directory names it.                   *)
(***************************************************************************)
EXTENDS Naturals, FiniteSets, FiniteSetsExt

CONSTANTS
  Disks, NoDisk,
  Fitting,      \* the disks that func_80707B08 is content with
  Names, Tmp,   \* the names of the files, and "__TMP__"
  NumSlots,     \* how many files there is room for
  Stored,       \* the names that the disks hold at first
  MaxOps,       \* bound: how many operations
  MaxCuts,      \* bound: how often the power goes
  MaxMoves      \* bound: how often a disk is taken out

ASSUME DisksAssumption ==
  /\ NoDisk \notin Disks /\ Fitting \subseteq Disks /\ Fitting # {}
  /\ Tmp \notin Names /\ NumSlots \in Nat
  /\ Stored \subseteq Names /\ IsFiniteSet(Stored)
  /\ Cardinality(Stored) <= NumSlots

VARIABLES
  drive,      \* the disk that is in
  attention,  \* the drive's unit attention: no id has been read since it came in
  area,       \* the management area of each disk
  copy,       \* its copy, three blocks further
  data,       \* what lies in each slot of each disk
  mem,        \* gMfsRamArea, and whether its diskId is right
  heldError,  \* D_i1_80428644: "good", "changed" or "spoiled" (0x10A)
  newDisk,    \* D_8076CBB0
  pc,
  op,         \* the operation in progress
  ops, cuts, moves,
  done,       \* history: the version of each file saved last, by a save that returned; 0 if there is none
  erased,     \* history: the names erased in memory, while the disk may still hold them
  trust       \* history: are both copies of the area in step, or only the first good, or none?

deviceVars == <<drive, attention, moves>>
diskVars   == <<area, copy, data>>
memVars    == <<mem, heldError, newDisk>>
history    == <<done, erased, trust>>
filesVars == <<deviceVars, diskVars, memVars, pc, op, ops, cuts, history>>

Slots   == 1..NumSlots
NoSlot  == 0
Entries == Names \cup {Tmp}
NoFiles == [n \in Entries |-> NoSlot]
Used(dir) == {dir[n] : n \in Entries} \ {NoSlot}

\* An area or a copy; one that is not whole has blocks of two areas.
Whole(dir)  == [whole |-> TRUE, dir |-> dir]
Broken      == [name |-> Tmp, version |-> 0]
Nothing     == [valid |-> FALSE, dir |-> NoFiles]
NoOp        == [kind |-> "none", name |-> Tmp, version |-> 0, slot |-> NoSlot,
                write |-> FALSE, recover |-> FALSE, again |-> FALSE]

\* A command other than READ_DISK_ID and TEST_UNIT_READY is carried out.
Ready == drive # NoDisk /\ ~attention

FilesInit ==
  /\ drive = NoDisk /\ attention = FALSE /\ moves = 0
  /\ LET home == CHOOSE f \in [Stored -> 1..Cardinality(Stored)] :
                   \A m, n \in Stored : f[m] = f[n] => m = n
     IN  /\ area = [d \in Disks |-> Whole([n \in Entries |->
                      IF n \in Stored THEN home[n] ELSE NoSlot])]
         /\ data = [d \in Disks |-> [s \in Slots |->
                      IF \E n \in Stored : home[n] = s
                        THEN [name |-> CHOOSE n \in Stored : home[n] = s, version |-> 1]
                        ELSE Broken]]
  /\ copy = area
  /\ mem = Nothing /\ heldError = "changed" /\ newDisk = TRUE
  /\ pc = "rest" /\ op = NoOp /\ ops = 0 /\ cuts = 0
  /\ done = [d \in Disks |-> [n \in Names |-> IF n \in Stored THEN 1 ELSE 0]]
  /\ erased = [d \in Disks |-> {}]
  /\ trust = [d \in Disks |-> "both"]

-----------------------------------------------------------------------------
(* The operations, which come one at a time.                               *)

Begin(kind, n, w) ==
  /\ pc = "rest" /\ ops < MaxOps
  /\ ops' = ops + 1
  /\ op' = [NoOp EXCEPT !.kind = kind, !.name = n, !.version = ops + 2, !.write = w]
  /\ pc' = "check"
  /\ UNCHANGED <<deviceVars, diskVars, memVars, cuts, history>>

Save(n)     == Begin("save", n, TRUE)
Erase(n, w) == Begin("erase", n, w)
Load(n)     == Begin("load", n, FALSE)

\* func_80707B08: it reads the id of a disk that has come in, and asks for
\* another until the disk fits.
CheckDisk ==
  /\ pc = "check" /\ drive \in Fitting
  /\ attention' = FALSE
  /\ newDisk' = (newDisk \/ attention)
  /\ pc' = IF newDisk' THEN "new" ELSE IF op.recover THEN "recover" ELSE "go"
  /\ UNCHANGED <<drive, moves, diskVars, mem, heldError, op, ops, cuts, history>>

\* Mutant: the area in memory is not forgotten.
NewDiskKeepsArea ==
  /\ pc = "new" /\ drive \in Fitting
  /\ attention' = FALSE
  /\ newDisk' = FALSE
  /\ heldError' = "good"
  /\ pc' = IF op.recover THEN "recover" ELSE "go"
  /\ UNCHANGED <<drive, moves, diskVars, mem, op, ops, cuts, history>>

\* SLMFSNewDisk and SLMFSNewDisk2: what is in memory is another disk's.
NewDisk ==
  /\ pc = "new" /\ drive \in Fitting
  /\ attention' = FALSE
  /\ newDisk' = FALSE
  /\ mem' = [mem EXCEPT !.valid = FALSE]
  /\ heldError' = "good"
  /\ pc' = IF op.recover THEN "recover" ELSE "go"
  /\ UNCHANGED <<drive, moves, diskVars, op, ops, cuts, history>>

-----------------------------------------------------------------------------
(* func_i1_80404830, with which each function of the file system begins.   *)

AreaInMemory == heldError = "good" /\ Ready /\ mem.valid
AreaReadable == heldError = "good" /\ Ready /\ ~mem.valid /\ area[drive].whole
AreaDamaged  == heldError = "good" /\ Ready /\ ~mem.valid /\ ~area[drive].whole

\* It ends well: the area is in memory, or has been read.
AreaGood == AreaInMemory \/ AreaReadable
TheArea  == IF mem.valid THEN mem.dir ELSE area[drive].dir

\* It ends with an error of the drive, or one that it found before.
AreaFails ==
  /\ heldError # "good" \/ ~Ready
  /\ IF heldError = "good" /\ drive # NoDisk
       THEN heldError' = "changed" /\ mem' = [mem EXCEPT !.valid = FALSE]
       ELSE UNCHANGED <<heldError, mem>>

\* The operation's own errors: all of them wait for a disk and try again.
Retry == pc' = "check" /\ UNCHANGED op

\* The first call finds the area damaged: it cannot be read (UNRECOVERED) or
\* its checksum is wrong (0x10A).  SLMFSLoad does not try again after the
\* first.
FindDamage ==
  /\ pc = "go" /\ AreaDamaged
  /\ \E unread \in BOOLEAN :
       /\ heldError' = IF unread THEN "good" ELSE "spoiled"
       /\ op' = [op EXCEPT !.recover = TRUE,
                           !.again = ~(unread /\ op.kind = "load")]
  /\ pc' = "check"
  /\ UNCHANGED <<deviceVars, diskVars, mem, newDisk, ops, cuts, history>>

GoFails ==
  /\ pc = "go" /\ AreaFails /\ Retry
  /\ UNCHANGED <<deviceVars, diskVars, newDisk, ops, cuts, history>>

\* The operation has come to its end.
Return == pc' = "rest" /\ op' = NoOp

\* Mfs_SaveFile as far as the data: any free slot, or the program stops.  A second
\* look at the area, in Mfs_RamGetFreeSize, is left out: its -1 is compared as an
\* unsigned number, so that the save goes on, and a disk that is gone or changed
\* by then is found by the write of the data.
GoSave ==
  /\ pc = "go" /\ AreaGood /\ op.kind = "save"
  /\ mem' = [valid |-> TRUE, dir |-> TheArea]
  /\ LET free == Slots \ Used(TheArea)
     IN  IF free = {} THEN pc' = "full" /\ UNCHANGED op
         ELSE pc' = "data" /\ op' = [op EXCEPT !.slot = Min(free)]
  /\ UNCHANGED <<deviceVars, diskVars, heldError, newDisk, ops, cuts, history>>

\* SLMFSDeleteFile, of one that is there and of one that is not.
GoErase ==
  /\ pc = "go" /\ AreaGood /\ op.kind = "erase"
  /\ mem' = [valid |-> TRUE, dir |-> [TheArea EXCEPT ![op.name] = NoSlot]]
  /\ IF TheArea[op.name] = NoSlot THEN Return /\ UNCHANGED <<done, erased>>
     ELSE /\ IF op.write THEN pc' = "area" /\ UNCHANGED op ELSE Return
          /\ done' = [done EXCEPT ![drive][op.name] = 0]
          /\ erased' = [erased EXCEPT ![drive] = @ \cup {op.name}]
  /\ UNCHANGED <<deviceVars, diskVars, heldError, newDisk, ops, cuts, trust>>

GoLoad ==
  /\ pc = "go" /\ AreaGood /\ op.kind = "load"
  /\ mem' = [valid |-> TRUE, dir |-> TheArea]
  /\ IF TheArea[op.name] = NoSlot THEN Return
     ELSE pc' = "read" /\ op' = [op EXCEPT !.slot = TheArea[op.name]]
  /\ UNCHANGED <<deviceVars, diskVars, heldError, newDisk, ops, cuts, history>>

\* Mfs_LoadFile.  A file that cannot be read is erased (D_80794CDC is 1).
ReadData ==
  /\ pc = "read" /\ Ready
  /\ IF data[drive][op.slot] # Broken THEN Return
     ELSE pc' = "check" /\ op' = [op EXCEPT !.kind = "erase", !.write = TRUE]
  /\ UNCHANGED <<deviceVars, diskVars, memVars, ops, cuts, history>>

-----------------------------------------------------------------------------
(* Saving: the data goes to free blocks; only then does the area in memory *)
(* name them, and only then does it go to the disk.                        *)

WriteData ==
  /\ pc = "data" /\ Ready
  /\ data' = [data EXCEPT ![drive][op.slot] = [name |-> op.name, version |-> op.version]]
  /\ LET there == mem.dir[op.name] # NoSlot
     IN  /\ mem' = [mem EXCEPT !.dir[IF there THEN Tmp ELSE op.name] = op.slot]
         /\ pc' = IF there THEN "delete" ELSE "area"
  /\ UNCHANGED <<deviceVars, area, copy, heldError, newDisk, op, ops, cuts, history>>

\* Mfs_DeleteFileInDir and Mfs_RenameFileInDir, whose errors nobody sees.
DeleteOld ==
  /\ pc = "delete"
  /\ \/ AreaGood /\ mem' = [mem EXCEPT !.dir[op.name] = NoSlot] /\ UNCHANGED heldError
     \/ AreaFails
  /\ pc' = "rename"
  /\ UNCHANGED <<deviceVars, diskVars, newDisk, op, ops, cuts, history>>

RenameNew ==
  /\ pc = "rename"
  /\ \/ /\ AreaGood
        /\ mem' = IF mem.dir[op.name] # NoSlot THEN mem
                  ELSE [mem EXCEPT !.dir[op.name] = mem.dir[Tmp], !.dir[Tmp] = NoSlot]
        /\ UNCHANGED heldError
     \/ AreaFails
  /\ pc' = "area"
  /\ UNCHANGED <<deviceVars, diskVars, newDisk, op, ops, cuts, history>>

\* Mfs_BackupRamArea: the area, then its copy.
WriteArea ==
  /\ pc = "area" /\ mem.valid /\ Ready
  /\ area' = [area EXCEPT ![drive] = Whole(mem.dir)]
  /\ trust' = [trust EXCEPT ![drive] = IF @ = "both" THEN "first" ELSE @]
  /\ pc' = "copy"
  /\ UNCHANGED <<deviceVars, copy, data, memVars, op, ops, cuts, done, erased>>

WriteCopy ==
  /\ pc = "copy" /\ Ready
  /\ copy' = [copy EXCEPT ![drive] = Whole(mem.dir)]
  /\ trust' = [trust EXCEPT ![drive] = IF @ = "first" THEN "both" ELSE @]
  /\ erased' = [erased EXCEPT ![drive] =
                  {n \in @ : mem.dir[n] # NoSlot /\ ~(op.kind = "save" /\ n = op.name)}]
  /\ done' = IF op.kind = "save" THEN [done EXCEPT ![drive][op.name] = op.version]
             ELSE done
  /\ Return
  /\ UNCHANGED <<deviceVars, area, data, memVars, ops, cuts>>

\* A command finds no disk, or another.
CommandFails ==
  /\ pc \in {"data", "read", "copy"} \/ (pc = "area" /\ mem.valid)
  /\ ~Ready /\ Retry
  /\ UNCHANGED <<deviceVars, diskVars, memVars, ops, cuts, history>>

-----------------------------------------------------------------------------
(* SLMFSRecoverManageArea, and func_80706518, which lays the disk out anew.*)

\* The copy has the say, which nobody may trust if it is out of step.
CopyAsked == trust' = [trust EXCEPT ![drive] = IF @ = "first" THEN "none" ELSE @]

\* SLMFSRecoverManageArea returns: the operation is tried again, or given up.
Recovered ==
  LET o == [op EXCEPT !.recover = FALSE]
  IN  IF op.again THEN pc' = "check" /\ op' = o ELSE Return

\* Mfs_CopyRamAreaFromBackup looks at no checksum.
Recover ==
  /\ pc = "recover" /\ Ready
  /\ mem' = [valid |-> TRUE, dir |-> copy[drive].dir]
  /\ pc' = "rewrite"
  /\ UNCHANGED <<deviceVars, diskVars, heldError, newDisk, op, ops, cuts, history>>

\* Mutant: D_i1_80428644 still has the error.
RewriteAreaKeepsError ==
  /\ pc = "rewrite" /\ Ready
  /\ area' = [area EXCEPT ![drive] = Whole(mem.dir)]
  /\ CopyAsked
  /\ Recovered
  /\ UNCHANGED <<deviceVars, copy, data, mem, heldError, newDisk, ops, cuts, done, erased>>

RewriteArea ==
  /\ pc = "rewrite" /\ Ready
  /\ area' = [area EXCEPT ![drive] = Whole(mem.dir)]
  /\ CopyAsked
  /\ heldError' = IF heldError = "spoiled" THEN "good" ELSE heldError
  /\ Recovered
  /\ UNCHANGED <<deviceVars, copy, data, mem, newDisk, ops, cuts, done, erased>>

RecoverFails ==
  /\ pc \in {"recover", "rewrite"} /\ ~Ready /\ Retry
  /\ UNCHANGED <<deviceVars, diskVars, memVars, ops, cuts, history>>

\* func_80706518 goes on until the disk's first contents are back.
LayOut ==
  /\ drive \in Fitting
  /\ area' = [area EXCEPT ![drive] = Whole(NoFiles)]
  /\ copy' = [copy EXCEPT ![drive] = Whole(NoFiles)]
  /\ attention' = FALSE /\ newDisk' = FALSE
  /\ mem' = [mem EXCEPT !.valid = FALSE] /\ heldError' = "good"
  /\ UNCHANGED <<drive, moves, data, ops, cuts, done, erased>>

\* The copy cannot be read either.
GiveUpCopy ==
  /\ pc = "recover" /\ Ready /\ ~copy[drive].whole
  /\ LayOut /\ Recovered
  /\ CopyAsked

\* Mfs_BackupRamArea finds the area in memory invalid (MEDIA_NOT_INIT).
GiveUpArea ==
  /\ pc = "area" /\ ~mem.valid /\ LayOut
  /\ IF op.kind = "erase" THEN Return ELSE Retry
  /\ trust' = [trust EXCEPT ![drive] = "none"]

-----------------------------------------------------------------------------
(* The player, the power, and writes that they break off.                  *)

\* A mixture of the entries of two directories.
Mixed(old, new) ==
  {[whole |-> FALSE, dir |-> [n \in Entries |-> IF n \in S THEN new[n] ELSE old[n]]] :
     S \in SUBSET {n \in Entries : old[n] # new[n]}}

\* What the command in progress has left, if it was one that writes.
BrokenOff ==
  CASE pc = "data" /\ Ready ->
         data' = [data EXCEPT ![drive][op.slot] = Broken] /\ UNCHANGED <<area, copy, trust>>
    [] pc \in {"area", "rewrite"} /\ mem.valid /\ Ready ->
         /\ \E m \in Mixed(area[drive].dir, mem.dir) : area' = [area EXCEPT ![drive] = m]
         /\ CopyAsked
         /\ UNCHANGED <<copy, data>>
    [] pc = "copy" /\ Ready ->
         /\ \E m \in Mixed(copy[drive].dir, mem.dir) : copy' = [copy EXCEPT ![drive] = m]
         /\ UNCHANGED <<area, data, trust>>
    [] OTHER -> UNCHANGED <<diskVars, trust>>

\* Which of a command's two ends is left, or neither, is open.
Interrupt == BrokenOff \/ UNCHANGED <<diskVars, trust>>

TakeOut ==
  /\ drive # NoDisk /\ moves < MaxMoves
  /\ drive' = NoDisk /\ attention' = FALSE /\ moves' = moves + 1
  /\ Interrupt
  /\ UNCHANGED <<memVars, pc, op, ops, cuts, done, erased>>

PutIn(d) ==
  /\ drive = NoDisk
  /\ drive' = d /\ attention' = TRUE
  /\ UNCHANGED <<moves, diskVars, memVars, pc, op, ops, cuts, history>>

PowerCut ==
  /\ pc # "off" /\ cuts < MaxCuts
  /\ cuts' = cuts + 1 /\ pc' = "off" /\ op' = NoOp
  /\ Interrupt
  /\ UNCHANGED <<deviceVars, memVars, ops, done, erased>>

\* Mfs_CreateLeoManager, and the new disk that the first operation takes.
PowerOn ==
  /\ pc = "off" /\ pc' = "rest"
  /\ mem' = Nothing /\ heldError' = "changed" /\ newDisk' = TRUE
  /\ attention' = (drive # NoDisk)
  /\ UNCHANGED <<drive, moves, diskVars, op, ops, cuts, history>>

\* The steps of the service thread.
Operations ==
  \/ CheckDisk \/ NewDisk \/ FindDamage \/ GoFails \/ GoSave \/ GoErase \/ GoLoad
  \/ ReadData \/ WriteData \/ DeleteOld \/ RenameNew \/ WriteArea \/ WriteCopy
  \/ CommandFails \/ Recover \/ RewriteArea \/ RecoverFails \/ GiveUpCopy
  \/ GiveUpArea

FilesNext ==
  \/ \E n \in Names : Save(n) \/ Load(n) \/ \E w \in BOOLEAN : Erase(n, w)
  \/ Operations
  \/ TakeOut \/ (\E d \in Disks : PutIn(d)) \/ PowerCut \/ PowerOn

FilesSpec == FilesInit /\ [][FilesNext]_filesVars

\* The thread goes on, and the player puts a disk in that fits.
FilesFairSpec == FilesSpec /\ WF_filesVars(Operations) /\ WF_filesVars(\E d \in Fitting : PutIn(d))

-----------------------------------------------------------------------------
(* Properties.                                                             *)

\* Whatever the player does with the disks and the power: the directory that
\* will be read names every file that was saved, with what that save has
\* written or a later one, and names no file whose data is broken, of another
\* version or of another disk.  It takes a write in the wrong order, or a
\* memory that is taken for another disk's, and then a cut.  Left out are
\* files erased in memory, whose blocks may be given away before the disk
\* knows, and disks whose fate hung on a copy out of step or that were laid
\* out anew because a disk came back during Mfs_SaveFile.
SavedStays ==
  \A d \in Disks : trust[d] # "none" =>
    LET a == IF area[d].whole THEN area[d] ELSE copy[d]
    IN  \A n \in Names \ erased[d] :
          IF a.dir[n] = NoSlot THEN done[d][n] = 0
          ELSE LET c == data[d][a.dir[n]]
               IN  c.name = n /\ c.version >= done[d][n]

\* The service thread tries until it has succeeded: an error that it keeps
\* in mind, or a flag that is not reset, would make it try for ever.  Only a
\* full disk stops it (SLMFSSave does not return).
OperationEnds ==
  pc \notin {"rest", "off", "full"} ~> pc \in {"rest", "off", "full"}
=============================================================================
