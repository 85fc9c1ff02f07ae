# F-Zero X in TLA+

A verification project for the decompiled program F-Zero X (Nintendo 64, C):
TLA+ specifications translated from its source, the TLC configurations that
check them on small instances, and proofs for every value of the parameters
that TLAPS checks. Paths below are relative to the repository, so that
`src/sys/sys_main.c` is the file that `PROJECT.json` names
`src/src/sys/sys_main.c`.

The repository builds two programs from one tree: the cartridge game (US, JP)
and the Expansion Kit for the 64DD (`EXPANSION_KIT`). The models are of the
cartridge game unless they say otherwise; `DiskJobs` and `DiskFiles` are of the
Expansion Kit, `PiManager` and `SerialBus` have both. There are no tests and no
design documents in the repository; what the code is supposed to do is read
from its structure, its few comments and the debug strings it kept.

Contents: [Inventory](#1-inventory), [Plan](#2-plan), [Modules and
code](#3-modules-and-the-code-they-model), [Runs](#4-runs), [Proofs](#5-proofs),
[Limits](#6-what-is-not-shown).

## 1. Inventory

The program is a handful of threads with fixed priorities on one processor,
next to hardware that works by itself: the RSP, which runs one task (audio or
graphics) at a time, the RDP, which draws what the RSP sends it, the VI, which
shows a frame buffer and causes an interrupt per retrace, the PI (cartridge,
SRAM and disk drive) and the SI (controllers), which make DMAs.

| thread | priority | entry | waits for |
|---|---|---|---|
| VI manager | 254 | `viMgrMain` (`libultra/io/vimgr.c`) | retraces, the count register |
| PI manager | 150 | `__osDevMgrMain` (`libultra/io/devmgr.c`) | cartridge and disk transfers |
| disk interrupts, commands | 150, 149 | `leointerrupt`, `leomain` (`leo/lib`) | disk commands (Expansion Kit) |
| reset | 100 | `Reset_ThreadEntry` (`sys/sys_main.c`) | the reset button |
| main (scheduler) | 99 | `Main_ThreadEntry` (`sys/sys_main.c`) | SP, DP, VI, and tasks to run |
| disk service | 30 | `func_80767958` (`sys/disk/75000.c`) | transfers and file operations (Expansion Kit) |
| audio | 20 | `Audio_ThreadEntry` (`sys/sys_audio.c`) | a retrace, sample DMA |
| game | 10 | `Game_ThreadEntry` (`sys/sys_gfx.c`) | frame ticks, the RDP, controllers, SRAM, disk |
| idle | 0 | `Idle_ThreadEntry` (`sys/sys_main.c`) | - |

### 1.1 RCP scheduler (`sys_main.c`, `sys_audio.c`, `sys_gfx.c`, `libultra/io/sptask*.c`)

*State*: `gMainThreadMesgQueue` (16 messages), `sSpTaskState`, `sSpTaskActive`,
`sGfxTaskYielded`, `sGfxTaskQueued`, the retrace counter and its period,
`gCurGfxTask`, `gCurAudioOSTask`, two graphics tasks with two display list pools,
two audio tasks with two command buffers. *Operations*: one case per message of
the main loop, and one step per call of the audio and the game loop.
*Interaction*: the game and the audio thread write a pointer to a task and then
send a message; the main thread starts tasks, and asks a graphics task to yield
when an audio task comes; interrupts send messages without waiting.
*Hard*: `gCurGfxTask` and `gCurAudioOSTask` change behind the main thread's back,
the RSP may end a task just as it is asked to yield, a message that finds the
queue full is lost, and a queued frame is started only by the end of an audio
task. *Correct if* the scheduler always knows whether the RSP works, a task
begins exactly once, no frame is lost or drawn twice, and no buffer is written
while the RSP reads it.

### 1.2 Frame loop and frame buffers (`sys_gfx.c`, `libultra/io/vi*.c`)

*State*: five buffer indices, the number of buffers (2, or 3 once a game mode
asks for it), and what the VI shows and shows next. *Operations*: the steps of
`func_80067D64` and `func_80067E98`, the change of the number of buffers, the
retrace. *Hard*: the VI takes the next buffer between any two steps; the indices
are set anew while it holds two buffers. *Correct if* the RDP never draws into
a buffer that is shown or about to be, what is shown and copied is the last
complete frame, and the waits end.

### 1.3 Threads and message queues (`libultra/os`)

*State*: each thread's state, priority and list; the run queue and, per message
queue, a ring buffer and two lists of waiting threads. *Operations*:
`osRecvMesg`, `osSendMesg`, `osJamMesg`, `osStartThread`, `osStopThread`,
`osSetThreadPri`, `osYieldThread`, and the events of the interrupt handler.
*Hard*: a woken thread must look again; a thread is stopped while it waits; a
priority changes in a sorted list; the index of the ring runs backwards.
*Correct if* messages keep their order, no wakeup is lost and the most urgent
ready thread runs.

### 1.4 Save file (`overlays/ovl_i2/save.c`, `ovl_i10/1459A0.c`, `sys/dma.c`)

*State*: the SRAM with two profiles of settings, death race and course records,
a ghost (record and data), and sections that are kept once (characters, cups);
each has a 16-bit checksum. *Operations*: save, load with repair, make anew,
spoil. *Hard*: the power goes at any moment, also during a repair. *Correct if*
what a save that returned has written comes up again.

### 1.5 Audio commands (`audio/rom/lib/thread.c`, `audio/rom/external.c`, `lib/heap.c`)

*State*: a ring of 256 commands with a write and a read position, a queue of
four announced ranges, the steps of the reset of the audio heap. *Operations*:
`AudioThread_QueueCmd`, `AudioThread_ScheduleProcessCmds`,
`AudioThread_ProcessCmds`, `Audio_SetSpec`, `AudioHeap_ResetStep`. *Hard*: both
the game thread and the audio thread queue and announce, without a lock; the
ring forgets a command when it is announced, not when it is carried out.
*Correct if* commands are carried out once, in order, and a reset ends.

### 1.6 PI manager and cartridge DMA (`libultra/io/pimgr.c`, `devmgr.c`, `piacs.c`, `epi*.c`, `leo/lib/leointerrupt.c`, `sys/dma.c`)

*State*: a queue of commands, an access token (a message in a queue of one), an
event queue of one, a return queue per client, and for the disk a record of the
block under way. *Operations*: the manager's loop, direct accesses that take
the same token, the PI's interrupt, and `__osLeoInterrupt`, which runs in the
interrupt handler, starts a DMA per sector and masks the PI's interrupt
meanwhile. *Hard*: an interrupt of the drive meets a DMA that has not ended, an
interrupt left pending is taken for the end of the next transfer, the end of a
block is told at the next one's first sector. *Correct if* who has the token
finds the bus at rest, each client gets its own end, and a block called good is
whole.

### 1.7 Timers and clock (`libultra/os/timerintr.c`, `settimer.c`, `gettime.c`, `io/vimgr.c`)

*State*: a list of timers as differences, `__osTimerCounter`, the compare
register, and the clock's base. *Hard*: the count is 32 bits wide and wraps
round; the interrupt is a message that comes late; the count may pass the
compare value before it is written. *Correct if* a timer is never early, late
by a bounded time only, and the clock is right.

### 1.8 Controllers and rumble (`sys/controller.c`, `libultra/io/motor.c`, `cont*.c`, `siacs.c`, `sys/disk/disk_drive_dd.c`)

*State*: one event queue of one place, a token, what the PIF holds and what
the library remembers of it; per port errors, paks and motors; which player has
which port. *Operations*: a poll started in one frame and collected in the
next, the start, stop and initialisation of motors with retries, the reset
thread's way through all of them, the service thread's polls while it shows a
message. *Hard*: all ends come through one queue of one place. *Correct if* each
gets its own answer, nobody waits for ever, no motor is forgotten, and players
have controllers.

### 1.9 Game modes (`game/game.c`, `ovl_i2/transition.c`, `audio/rom/external.c`)

*State*: `gGameMode`, `gQueuedGameMode`, `gGameModeChangeState` (a step and a
variant), `gMenuChangeMode`, the transition and the state of the demo race.
*Operations*: `func_800690FC` once a frame, the updates of the modes, the
transition's, the music that starts and ends the demo. *Hard*: all of them write
the same few variables within a frame, while the RCP still draws the frame
before. *Correct if* what was asked for comes, a picture's memory lives as long
as it is drawn, and a demo never takes over a player's race.

### 1.10 Disk service thread (`sys/disk/75000.c`, `overlays/expansion_kit/`)

*State*: a ring of eight transfers and a queue of as many announcements, the one
record of the operation on files and three flags. *Operations*: post and collect
a transfer, post an operation and wait for it, or for its flag, try again each
frame. *Hard*: the slot is given back before the transfer is made, the record is
overwritten, one flag says that two sorts of work are over. *Correct if* the
thread works on what was posted, and the posters go on when it is done.

### 1.11 Files on the disk (`leo/mfs`, `sys/disk/sys_leo_dd.c`)

*State*: per disk a management area (directory, allocation table), its copy and
the blocks; in memory one area, the error kept in `D_i1_80428644`, and whether
a new disk has come in. *Operations*: `SLMFSSave`, `SLMFSLoad`,
`SLMFSDeleteFile`, each tried until it succeeds; `SLMFSRecoverManageArea`.
*Hard*: the player changes the disk and the power goes at any step, also within
a write; the area in memory may be another disk's. *Correct if* what was saved
stays readable and every operation ends.

### 1.12 The other components

**Race simulation**, **ghosts** (the choice of a slot, the format of a replay),
**drawing**, **menus**, **audio sequencer and synthesis**, **asynchronous audio loads**,
**course and machine editor**, **overlays**, **Controller Pak library**, **fault
screen**, **C library and math**: sequential code; and the **64DD manager's command
thread** (`leo/lib`). Section 6 says why each is not modelled.

`PROJECT.json` lists every component with its files and its status, and under
`hazards` everything in this code that is hard to test, at its line, with the
properties that would catch it.

## 2. Plan

Done, in this order; each module stands alone unless stated.

1. `FrameService`, `RcpSched` (implements `FrameService`), `RcpSched_proofs`.
2. `FrameLoop` (composed with `FrameService`).
3. `MesgQueue`, `OsThreads` (implements `MesgQueue` for every queue),
   `OsThreads_proofs`.
4. `SramSave`, `SramSave_proofs`.
5. `AudioCmds` (implements `MesgQueue` for the ring), `AudioCmds_proofs`.
6. `DmaService`, `PiManager` (implements `DmaService` for those who copy).
7. `SerialBus`.
8. `OsTimer`; `Retraces_proofs`, of 2, 7 and 8.
9. `GameModes` (composed with `FrameService`), `GameModes_proofs`.
10. `DiskJobs`, `DiskFiles`: the service thread from the side of those who post,
    and from the side of the disk. `DiskJobs_proofs`; `Drive_proofs`, of
    `DiskFiles` and `PiManager`.

Every safety property of the runs that pass has its theorem (section 5); what has
none is liveness (section 6).

Modules that are to be proved about declare their parameters with named
assumptions, have one action per operation and no `RECURSIVE` operator. Two proof
modules hold several components; so that these may be extended together, the
names that each module of this project otherwise uses (`Init`, `Next`, `Spec`,
`TypeOK`, `vars`) carry a prefix in `OsTimer` (`TimerInit`), `DiskFiles` (`FilesInit`) and
`SerialBus` (`SerialInit`).

## 3. Modules and the code they model

The `map` of `PROJECT.json` gives each definition its lines. Names are those of
the source where the source has names. An operator that a comment calls a
"Mutant" is a definition as a plausible bug would leave it; the `mutants` of
`PROJECT.json` say which property then fails.

### RcpSched

The main thread handles a message without being interrupted by another thread
that matters (only the reset thread is above it), and interrupts only append to
its queue or change the RSP: one action per message and case of the switch. The
audio and the game thread are cut into one step per call that another thread can
see: in particular `gCurGfxTask` / `gCurAudioOSTask` are written (`GameSetTask`,
`AudioTick`) before the message is sent (`GameSend`, `AudioSend`).
`AudioMayRun` and `GameMayRun` are the priorities: a thread takes a step only when
those above it wait. The audio thread also waits, for sample DMA, in the middle
of `AudioThread_CreateTask` ("create"), where the game thread may run.

The hardware is a set of actions of its own: the microcode sends the full sync
(`RspSync`), ends (`RspDone`) or saves itself and stops (`RspYield`); the RDP
reaches a full sync (`RdpDone`); a retrace comes (`ViRetrace`).
`SpTaskStart` and `SpTaskYielded` are `osSpTaskStart` (with the load it makes) and
`osSpTaskYielded`, with `OS_TASK_YIELDED` in each task's flags and the one yield
buffer.

Constants of the environment:

* `LateYield`: may the graphics microcode yield between its full sync and its
  end? The microcode is not C code of this repository; the code does not rule
  it out by itself. With it, the next frame may already be set when the yield
  is handled, and the main thread marks and resumes the wrong task: a task
  can be begun twice, and `GfxBeginsOnce`, `PoolExclusive` and `NoEventLost` are
  lost. The run and all the theorems of `RcpSched_proofs` assume that it is FALSE.
* `MaxTroubles`: a bound on what does not happen every frame, retraces that find
  an audio task not over and the reset button. An audio task may take as long as
  it likes: the RSP's step that ends it has no deadline.

`begins`, `slow` and `hasty` are history variables; `Min2(_, 2)` keeps the first
finite. `slow` and `hasty` mark what the code cannot bear. A task is *hasty* if it
was set while a yield was still awaited for the one before: the end of the yield
then begins the new one, and its AUDIO_SET begins it again, while the one before
is forgotten. The audio thread is *slow* if its last retrace found an audio task
that was not over: the buffer it fills next may be the one that the RSP reads.
`AudioTaskOnce` and `AudioTaskBegins` say all of every other task and buffer, those
after a hasty task and a slow retrace included; they do not assume that audio
keeps to its time. The graphics properties do not speak of either.

### FrameService, FrameLoop

`FrameService` is what the game thread relies on: a frame that is set is drawn
once and reported once, in the end. `RcpSched` implements it
(`DrawsEachFrameOnce`, `DrawsEveryFrame`), and `FrameLoop` and `GameModes` use it in
place of the scheduler. `FrameLoop` keeps the indices `D_800DCCFC`, `D_800DCD00`,
`D_800DCD04`, `D_800DCD08`, `D_800DCD0C` with their code; frames are numbered, and
`content` says which frame each buffer holds. Two facts are taken from the game
modes: the first game mode draws through `func_8007ABA4`, which honours
`D_800CCFE4`, and a mode that names `D_800DCD04` itself runs only after the change
to three buffers; and no mode asks for two buffers again. `SpinOut` lets the
100000 looks of `func_80067E98` pass without a retrace. They take about a tenth
of a second, several retraces, so that the limit is reached only if the VI has
stopped; the run leaves it out.

### MesgQueue, OsThreads

Every call of `libultra/os` on threads and queues but `osDestroyThread`, for
arbitrary clients. A call runs with interrupts disabled up to its end or to
where the caller has to wait, and is one step. `__osEnqueueThread`,
`__osPopThread`, `__osDispatchThread`, `__osEnqueueAndYield` and the interrupt
handler are assembly (`exceptasm.s`) that the repository does not contain; they
are modelled from how the C code uses them. A thread that was popped keeps the
state "WAITING" until it runs, as in the code. Clients obey one rule: a thread
that waits for a message is not started from outside, only stopped first.
`MostUrgentRuns` is what `RcpSched` assumes of the system: that a thread runs only
when those above it wait. `MesgQueue` is also what the ring of `AudioCmds` is shown
to implement.

### SramSave

A field of the SRAM is a section of a profile, the ghost's record or its data;
its content is the number of the save that wrote it, 0 for the initial
contents, `Bad` if it does not match its checksum, `Nameless` for settings with
a wrong file name. An operation is the sequence of writes (`todo`) that the one
thread makes and waits for; `PowerCut` stops it anywhere, also inside a write,
which then has written a prefix. Loading repairs a copy from the other, and
repairs can be cut too.

Taken as given: a torn section does not match its checksum, and fresh SRAM is
garbage that matches none. (The checksum is a 16-bit sum: contents that agree
by chance, and memory of zeroes, escape it; see the hazards.) The eight writes
per profile of `func_i2_801039BC` are one, because the first letter already makes
the name wrong, and the checksum it stores, 0x1234, is more than the settings
can sum up to.

### AudioCmds

The game thread's calls are cut into loads and stores in the order of the
source; the audio thread is never interrupted by it, and its calls are one step
each. `PreemptInside` says whether a retrace, and with it the audio thread, may
come inside a call of the game thread: with FALSE the module states what the
design achieves, with TRUE what the code allows. The ring has 256 places because
its positions are `u8`; `RingSize` scales both. Callers are assumed not to overrun
the ring while announced commands wait (`NoOverrun`), which nothing in the code
prevents, and `Audio_SetSpec` not to meet a full ring, where it would wait for
ever.

### DmaService, PiManager

`DmaService` is what a thread may rely on that copies from the cartridge and
waits: the data is there when the wait returns, and it returns. `PiManager`
implements it for the `Copier` clients; the others are in the way: `Streamer`
(the sound's samples, which never looks at its return queue), `Prober` (direct
accesses under the same token) and `Leo` (the disk's command thread, whose
transfers are jammed in front of the queue).

The manager's three waits are `mgrPc`. The interrupt handler's part of a disk
transfer, `__osLeoInterrupt`, is one action per branch (`WriteSector`, `WriteEnd`
and the `Read...` actions): an interrupt handler is not interrupted. `beat` counts
the drive's interrupts of a block, `got` and `gotC2` what has arrived in memory.
`DriveMeetsDma` is the branch that finds the DMA of the last sector still under
way. `Faults` are a drive that counts its sectors wrong ("count"), does so at the
first sector of a second block ("first") and one that gives up ("buffer"); the run
leaves "first" out (section 6). `ExpansionKit` adds the disk and, with it, the rule
that one thread makes all transfers (`BusFree`, which is `DiskJobs`); with FALSE
the clients use the bus as they like.

### DiskJobs

The service thread, the game and the sound as three threads on their
priorities. A behaviour is in one of three scenes (`scene`): operations on files
that may fail while the sound is silent, the sound and the game sharing the
ring, or the sound alone filling it. `Look` and `Post` are two steps because the
look at the indices comes before interrupts are masked (`75000.c:23`). History
variables `doing`, `asked` and `state` say what was really done.

### DiskFiles

The same operations from the disk's side. A *slot* stands for the blocks of one
version of one file, an area for the directory and the allocation table, which
are written together; an area that a write left half done (`Mixed`) does not
match its checksum. `pc` is where the operation is: looking for the disk
("check", "new"), reading the area ("go"), the writes of `Mfs_SaveFile` ("data",
"delete", "rename", "area", "copy"), the read of a load, and the recovery. Each
step that touches the disk either is carried out or finds no disk, or another
(`Ready`); a disk that comes in keeps the drive's unit attention until its id is
read. `TakeOut` and `PowerCut` break off the write in progress, which leaves the
old, the new or a mixture.

`done`, `erased` and `trust` are history: the last version of each file that a save
which *returned* has written; the names erased in memory only (`SLMFSDeleteFile`
is called without writing, `dd_save.c:295`); and whether the two copies of an area
are in step. `SavedStays` needs the last two because the code promises less than
one would like (section 6).

### SerialBus

Threads call operations (`tx`, `stage`) that take the token, write a command to the
PIF, read the answer and give the token back; a poll gives it back while its
DMA is under way. `siQ` is the queue of one place. `at` is where each thread is in
`controller.c`, `idx` at which port, `back` where calls return to. A behaviour is
about the reset thread, about the service thread that shows a message, or about
pads and paks that are pulled and put in (`comes`). The two threads may come at
any step of the game, inside its calls on the bus too. `untimely` is history: the
button came while `gControllerReadDataStarted` did not say what it should
(`flag # PollDue`: the flag is set after the poll has begun, and cleared long after
its end was received), or the message while the game had the token or had not yet
noted what a motor did (`InTheMiddle`). These moments the code does not bear
(section 6); the properties speak of all others.

`RewritesOnRetry` distinguishes the libraries of the two builds. Before VERSION_J a
pak's operation that is tried again does not write its command again, and what it
then reads is the answer to the status it has asked for meanwhile (`AnswerTo`), so
that such a retry never succeeds.

### OsTimer

The count is `now % W`; `now` itself is history, and `due` says when each timer
really is to fire. `Tick` lets time pass; the VI manager may be late by
`MaxLate`. `Insert` goes through the list as `__osInsertTimer` does: `Left` is what
remains of the new timer's value behind each timer, `Place` is where the walk ends.
`Fires` and `PutBack` are the loop of the interrupt, over the timers that fire and are
put back if they have an interval. `SetTimerIntr` and `SetCompare` are the two halves of writing the compare
register, between which time passes in the scene "slow". `Retrace` is the VI
manager's keeping of the clock.

### GameModes

`game` is the record of the variables of `game.c` and `transition.c`, and `Frame` is
one call of `func_800690FC` and of what is called around it, written as functions
from record to record in the order of the code, because every one of them may
write the same variables in one frame. `Returns` and `Menus` are what the updates of
the modes may ask for. A change is a step and a variant (plain, 10, 20 or 30 is
added to `gGameModeChangeState`). `RCP` is `FrameService`: `building` and `drawing` are the
modes that the frame just made and the frame at the RCP show.

## 4. Runs

| run | instance | shows |
|---|---|---|
| `rcp` | queue of 8, one retrace unhandled, period 1, a reset or a slow audio task at any time | tasks begin once; no pool and no command buffer is written while it is read; no message lost; every frame drawn and reported once; every audio task begins |
| `frame_loop` | 8 frames, 2 then 3 buffers at any frame | no drawing into a shown buffer, the latest complete frame is shown, every frame shown |
| `os_threads` | 3 threads, one queue of 2, two priorities, stops and starts, interrupts | messages in order, the most urgent runs, no lost wakeup |
| `sram_cuts` | one course, 3 saves, 3 cuts | durability, no silent change, the file stays, ghosts are whole |
| `audio_cmds` | ring of 3, 2 announcements, 5 commands, no retrace inside a call | the ring is a queue, every command is carried out, resets end |
| `audio_cmds_race` | ring of 4, 3 commands, retraces anywhere | **violated**: a command is lost and order broken |
| `pi_serial` | one client of each kind, 2 sectors per block, a faulty drive | the bus is at rest, blocks are whole, copies return, disk commands end |
| `disk_jobs` | ring of 4, queue of 5, a load, two saves, an operation of the menus | the slot in hand is whole, posted work is kept, the game goes on when it is done, operations end |
| `disk_files` | 2 disks, 2 names, 2 slots, 3 operations, 2 cuts, 1 disk taken out | what was saved stays, operations end |
| `si_bus` | 2 ports, one with paks, one retry, one fault, reset or service thread at any step | own answers, no endless wait, motors known, players have controllers |
| `os_timer` | count modulo 8, 24 ticks, up to 3 timers, periodic or not | timers on time, the clock right |
| `game_modes` | all modes of the base game, transitions of 2 steps | demo over, pictures hold, requests kept and ended |

*Why the bounds are enough.* In `RcpSched` at most three messages besides the
retraces can wait (`NoEventLost`, proved), so that a queue of 8 never fills and
16 add nothing. `MaxSyncs` is 1: the RDP cannot be two frames behind, because the
game thread waits for it. The run has one retrace per frame; slower frame rates
only drop wakeups of the game thread, and the theorems are for every set of
periods and with slow audio. In `FrameLoop` the indices of three buffers and
their combinations with the two of the double buffer recur after six frames. In
`OsThreads` two threads of equal and one of greater priority are the least that
can disagree about who comes next, and a ring of two wraps round in both
directions. In `SramSave` a course record, death race and settings follow the
same code and differ only in when they are loaded; three cuts allow one in a
save, one in the repair and one in the repair of that. In `AudioCmds` a ring of
three holds two commands, so that five go round it and meet it full. In
`PiManager` the last sector of a block, the one before, and the first of a second
block are the branches of the handler: two sectors have all of them. `MaxBeat`
only bounds how long a drive may count wrong. `CmdLen` is 2, with fewer clients
than places, as in the code. In `DiskJobs` a ring of four has three usable slots,
which the sound fills and overfills by two. In `DiskFiles` a save over an
existing file needs one free slot, a save of a new one the other; two cuts are
one in the write and one in the recovery; the disk that is taken out may be put
back or exchanged. (Four operations, and two disks taken out without the
liveness property, were explored as well: 7.6 and 14 million states.) In
`SerialBus` a second port shows that indices do not mix, and one retry is the
first and the last. In `OsTimer` the values are on both sides of half the count's
range, and 24 ticks are three rounds.

*Deadlock* is checked except in `rcp` (the reset thread stops everything in the
end), `os_threads` (all the threads may wait or be stopped), `si_bus` (a reset),
`os_timer` (time ends) and `disk_files` (the power may stay off, a full disk stops
the program).

*Fairness.* Threads that may run do run (WF): there is one processor, and the
model's guards are the priorities. In `RcpSched` the RSP's progress to the full
sync has SF: a display list is finite and a task that yields goes on where it
was, so that yields cannot keep it from its end; and `AudioThread_CreateTask`
returns a task again and again (SF), because a reset of the audio heap returns
NULL for a few frames only. RDP, VI and the end of a task have WF. In
`AudioCmds` each of the two threads has SF, because the other takes its turn away
again and again: retraces come between any two calls, and after the work for
one there is time before the next. `PiManager` and `DiskJobs` give the less urgent
threads SF for the same reason, and `MgrAccess` because direct accesses take the
token in between. In `DiskJobs` the disk is found and a try succeeds in the end
(SF), and in `DiskFiles` a disk that fits is put in (WF): the service thread shows
a message that asks for it until the player does. Nothing is assumed of a
player who takes disks out; their number is bounded. `GameModes` and `FrameLoop`
have WF for the game thread and for `FrameService`'s drawing.

*What liveness depends on.* A frame that is queued while the RSP works is
started by the end of an **audio** task (`sys_main.c:336-342`): the case for the end
of a graphics task (348-351) does not look at `sGfxTaskQueued`. It is enough,
because an audio task comes with every retrace, and so `DrawsEveryFrame` needs
the fairness of `AudioCreateTask`.

*The finding.* `audio_cmds_race` shows what the missing lock costs. While
music fades out the audio thread queues and announces commands of its own
(`external.c:1826-1829`). If a retrace comes after the game thread has computed the
place of its command (`thread.c:247`), the audio thread puts its command in the
same place and announces it; the game thread then writes over it. That command
is lost, and the later one is carried out first. Another window lies between
`gThreadCmdWritePos++` (252) and the comparison (253), and it needs no fade, since
the audio thread announces at every retrace whatever has been queued: the read
position then catches up with the write position, the comparison takes the
ring for full and takes back a position that has been announced already, and
the next command is dropped for the same reason.

## 5. Proofs

Hypotheses of the theorems that need them are `~LateYield`, `~SpinOut`,
`~PreemptInside` and `"first" \notin Faults`. Each is a constant of the environment
that section 3 explains, and each is needed: without it the property fails, and the
runs or the hazards say where. The other assumptions are the ASSUMEs of the modules (room in the
queue for three messages besides the retraces, a period of at least one, queues
of at least one place, finitely many threads, disjoint sets of operations).

Every safety property of every run that is expected to pass is proved. The
inductive invariants were checked by TLC on the instances of the runs before they
were proved.

### RcpSched_proofs

`Invariance` proves that `IInv` is inductive, for every queue length, every bound
and every set of periods, with slow audio and resets. None of the properties is
inductive alone. `IInv` joins to the type invariant:

* `SpAccounting`: an SP message waits exactly if the scheduler thinks the RSP works
  and it does not;
* `RspMatchesState`: which task the RSP has for each value of `sSpTaskState`, and
  when the yield bits are set. It is what makes a case of the switch right;
* `QueueShares`: at most one of AUDIO_SET and GFX_SET waits (each thread waits for
  the main thread before it goes on), and retraces are bounded;
* `AudioTaskKnown`: `gCurAudioOSTask` is not NULL when it may be started;
* `OneFrameInFlight`: the sum over all the places a frame can be in. It excludes
  combinations such as a frame that is yielded and one that is queued;
* `FrameIsCurGfx`: whatever of a frame is in flight is the task `gCurGfxTask` points
  to. Here the late yield would break the proof, as it breaks the properties;
* `NotBegunYet`: a frame that will be started has not begun since it was set.

From it follow `TypeCorrect`, `SpAccounted`, `BeginsOnce`, `OneFrame`, `NothingLost`
(three messages at most: each of the summands of `OneFrameInFlight`, `SpAccounting`
and `QueueShares` is a share of the queue), `PoolsExclusive`, `NeverStartsOnBusyRsp`
and `DrawsOnce`, the refinement of `FrameService`. `SpAccounted`, `OneFrame` and
`NeverStartsOnBusyRsp` state properties that no run lists, because they are what
the others rest on. The lemmas `PendingAppend` and `PendingTail` say how the number
of messages of a kind changes.

`AudioBeginsOnce` is `AudioTaskOnce`, for audio tasks that take as long as they
like. It needs a second invariant, `AudioTurns`, of two parts. `TaskTurns` follows a
task that is not hasty from `gCurAudioOSTask` through AUDIO_SET, or the yield that
AUDIO_SET asks for, to the RSP, and says that it has not begun before it gets there.
`BufferTurns` is what the audio thread finds if it was not slow: an audio task that
waits or runs is the one in the other buffer. The two are tied by AUDIO_SET, which
waits only while the audio thread makes the next task. `Elsewhere` is what every
other thread leaves alone.

### Retraces_proofs: FrameLoop

`RendersExclusively` and, if the wait for the VI ends by itself, `ShowsTheLatest`,
for any number of frames and across the change from two buffers to three. `IInv`
adds where the task built last renders to (`BuiltTarget`), and that the RDP rests
and the VI keeps its next buffer while the game thread talks to it
(`VideoSettled`). For `ShowsTheLatest` comes `Handed`: the frame given to the
scheduler is the one before the one built last, it is drawn where the VI will
look for it, and is there once the RDP has ended; three buffers never become two.

### OsThreads_proofs

`QueuesAreFifo`: for any number of threads, queues and places, each ring buffer
implements `MesgQueue`. The lemmas `StoredList`, `JammedList` and `TakenList` say what
each of the three index computations modulo the length does to the list of
messages; `Rings`, that the indices stay in range, is the invariant they need.

`TheMostUrgentRuns` (`MostUrgentRuns`) needs to know where every thread is. Half-way
through a call a thread may be in no list, and the one that ran may still be named
as running; so the invariants take the kernel, and the threads that are on their
way, as arguments:

* `Placed`: every thread that is not on its way is in the one list that it names,
  once, and every list is in the order of urgency (`Ordered`). `EnqueueOf`, `PopOf` and
  `DequeueOf` are what the three operations on lists do to it, from the index
  computations of `Inserted`, `Removed` and `PlaceOf`;
* `Core`, `Sane`: who waits in a queue is WAITING or STOPPED, and the idle thread is in
  the run queue or runs, so that there is always one to dispatch;
* `Urgent`, from the end of `__osDispatchThread` on. `osSetThreadPri` is where it could
  fail: the list is out of order between the new priority and the thread's new
  place (`SetPriOf`).

`NoWakeupIsLost` (`NoLostWakeup`) is about counts: if a thread waits for a message
(or a place), every message (place) that there is is spoken for by a thread that has
been woken and has not yet looked. `WakeInv` adds that a thread waits in the list
of its call (`CallsFit`). A send that finds a waiting thread wakes one and adds one;
a receive takes one and the woken thread that took it is no longer counted; one
that comes in between and takes it before the woken thread runs finds it
enqueued again by the loop in `osRecvMesg`. `Covered` compares the number with the
cardinality of a set of threads, and the lemmas on `WokenIn` say how each step
changes that set. `TypeCorrect` follows from the same invariants.

### SramSave_proofs

`NothingSavedIsLost` (`Durable`), `NothingChangesSilently` (`Kept`), `GhostsAreWhole`
(`GhostWhole`) and `FileIsKept` (`FileStays`) for any number of courses, saves and
cuts, from `SaveAssumption`. What a cut may leave depends on how far every
operation has come, so `IInv` says what each has still to write (`Pending`, one
named case per stage: mending the first or the second copy, renewing both,
saving, spoiling the names, a ghost, the file anew), and joins to it:

* `Safe`: a valid copy is never older than what was saved completely, and there is
  one. It makes either copy good enough to load;
* `Ready`: a section that has been loaded is good in both copies, or is the one
  that is being mended. It is why a save may write the first copy before the
  second: only then is one always left over;
* `Shown`: the copy that the next power-on would choose is what the game shows,
  but for the save in progress and for names that have been spoiled;
* `FileNamed`: the second name is spoiled after the first only, so that a cut in
  any other write leaves a name and the file is not erased;
* `GhostJoined`: a record is that of the data behind it, unless the data are next
  to be written or a cut has fallen between the two.

`Places` shows that the sections' copies and the ghost's two parts are distinct
fields, which the arithmetic of `Copy` does not make obvious.

### AudioCmds_proofs

`CommandsInOrder` (`CommandsKeepOrder`) for any `RingSize` of at least two, any
`ProcLen` and any number of commands, under `~PreemptInside` and the assumption on
the callers that is part of the model (`NoOverrun`). What a position of the ring
means depends on where the first command is, which moves round; so all is said of
offsets, how far a position is from the first one, and the first lemmas (`Further`,
`Nearer`, `SameDistance`) are all the arithmetic modulo the ring's size there is.
`IInv` joins:

* `RangesInOrder`: from the command that is carried out to what has been announced
  the ranges in hand and in the queue follow each other without a gap
  (`Chained`), and none goes beyond what has been queued. Without it, the end of
  a range would say nothing of the next command;
* `Filled`: every place between the first and the last position holds a command.
  It is why the audio thread never comes by an empty place, which it would pass
  over without a word;
* `Registers`: where the game thread is in a call, the slot it has stored into is
  still the place behind the last command. This is what a retrace inside the
  call breaks, and the finding above is its failure;
* `Room`, in a call: the command that has been stored either finds a place or is
  dropped, since the test for a full ring looks only at what is announced.

Every step of either thread then is a `Send`, a `Receive` or a stutter of
`MesgQueue` (`InOrder`): `Counted` is the one place where a command comes in,
`AudioCarries` where one leaves.

### Drive_proofs: PiManager

`TheBusIsAtRest` (`BusAtRest`) and `CopiesAreDone` (`Spec => Service!Spec`, the safety
part of the refinement of `DmaService`), for any sets of copiers and streamers,
lengths of the queues and sizes of a block, from `PiAssumption`, and for drives
that count wrong anywhere but at the first sector of a second block
(`"first" \notin Faults`): with that fault the manager does stop (section 6), and
the invariant would be false. `IInv` joins to the ranges:

* `CopiesOnce`: a thread that copies has one command or one answer at most, and
  its data is in memory from the end of its DMA on, not only when it is told;
* `LeoAlone`: while the Expansion Kit's thread waits nobody else has a command,
  because of the way the callers take turns; the rest of what is known about the
  manager's stages depends on it;
* `LeoStage`: where Leo's command is (at rest, posted, being served, answered), and
  how many ends of blocks have been and will be told;
* `Bus`: at rest whenever the manager does not wait for an event; while it does,
  the copy's DMA, its interrupt or its event, exactly one of the three; or the
  drive's transfer, in which the event of a first block may wait in the queue
  while the second goes on (`Transferring`), an interrupt has met a DMA (`Met`), or
  the last DMA is on its way (`Ended`).

The steps of the interrupt handler (`leointerrupt.c`) are the bulk of the proof:
it moves `info` and the interrupt masks in one step, and whether the manager's one
event still has room is what `Transferring` keeps.

`ToldBlocksAreWhole` (`BlocksAreWhole`) is about the data: a block that Leo is told of
without an error has all its sectors in memory, and its C2 data. `DataInv` is
another invariant on top of `IInv`:

* `UpToDate`: while the drive asks for sectors and the cartridge's interrupt is on,
  memory has all that it has asked for, the DMA under way included. It ties the
  count that the handler keeps to what has arrived;
* `FirstIsOver`, `InPlace`: the second block begins when the first one's sectors are
  there; its C2 data may still be on its way, and a DMA of the first block is then
  under way while the drive is in the second. It is why the end of a block is told
  later than its last sector;
* `EndedWell`, `Awaited`, `Results`: what a transfer that ended without an error
  leaves is complete, and the end that is told last is that of the block waited
  for. A handler that told the end of a first block too early would break these.

### Drive_proofs: DiskFiles

`SavedFilesStay` (`SavedStays`) for any numbers of disks, names, slots, operations,
cuts and disks taken out. The step where it could fail is a write of the area
that is cut, and what makes it safe is the order of `Mfs_SaveFile`: data first, then
the area, then its copy. `FilesInv` joins to the property

* `Trusted`: while both copies of an area are trusted the copy is whole, and the
  area, if it is whole, says the same; when only the first is, the area is whole.
  The recovery, which takes the area if it is whole and the copy otherwise, then
  finds what was saved;
* `InStep`: if the area in memory is held for that of the disk in the drive, it is,
  but for the name that is being saved; the data of that save are in a slot which
  nothing on the disk names. What `Holds` excludes is a disk that was changed
  without the program having noticed;
* `Known`: past its look at the disk an operation works on that disk, or its
  commands fail. It is what the drive's unit attention is for;
* `Versions`: the version that is being saved is newer than all that are on the
  disks, and a name erased in memory only counts as not saved.

`RecoverKeeps` says what the recovery reads, `FreeSlot` that a
slot given to a new file belonged to none.

### Retraces_proofs: OsTimer

`ClockShowsTime` (`ClockIsRight`) for any width of the count, from `TimerAssumption`:
`ClockInv` adds that the count is never a whole round ahead of the last retrace, and
the lemmas `Difference` and `NextCount` are what the C code's unsigned subtraction
and increment do at the end of a round.

`TimersFireOnTime` (`OnTime`) for any width of the count, any timers and lists of any
length, that fire once or again and again. `TimerInv` has three parts:

* `Ordered`: the list has the timers that run, each once, in the order in which they
  end, and a value is the time between two ends. `InsertKeepsOrder` (`osSetTimer`),
  `DropKeepsOrder` and `PutBackKeepsOrder` (the interrupt's loop) and
  `HeadKeepsOrder` (an interrupt that comes too early for the first) keep it. That
  timers which fire together are due together is `EndTogether`;
* `FirstArmed`: the compare register is where the first timer ends (`OnThisRound`), or
  in the scene "slow" a round of the count later (`OnTheNext`);
* `InScene`: where the count may pass the compare register there is one
  timer, and the list has no others than those of the scene.

From them `NoneIsEarly` and `NoneIsLate` follow. What the recursive functions of the
list do (`LeftIs`, `BackIs`) comes from `Induct`, an induction over a set of numbers
instead of over a predicate. `Induct`, and that a finite set of numbers has its
maximum (`Greatest`), come from the well-foundedness of the natural numbers.

### Retraces_proofs: SerialBus

For any number of ports, sets of ports with paks, numbers of tries and of faults,
for both builds, with the reset thread, the service thread, both or none, without
hypotheses. The two threads come at any step.

`PlayersKeepControllers` is `PlayersHaveControllers`. `Matched` is that the map of players to ports is a bijection to the ports without an error;
a port that is lost gives its player up and no other. At the start the map is
the order of the ports that answer (`RanksAreThePlayers`).

`EachHasItsOwnAnswer` (`OwnAnswer`), `NoEndlessWaitOnTheBus` (`NoEndlessWait`) and
`MotorsAreAccountedFor` (`MotorKnown`) come from one invariant, `SerialInv`, which holds
until somebody has come at an untimely moment: what is inductive is
`untimely \/ SerialInv`, with the places and what exists beside it.

* `PlacesInv`: where a thread is, and that the calls on its stack return to where it
  can have called from (`WellPlaced`). Both resets and the reading of inputs are
  shared by three threads, and most of what follows depends on which one it is;
* `Served`, `OneToken`: what a thread has the bus do fits its place, and the token is
  with one thread at most;
* `Owed`: is there a poll whose end nobody has received yet, and whose is it? It is
  the game's flag, or the message that the service thread has taken (`saved`), or
  the reset thread's. `BusUse` then says all about the queue of one place: while an
  operation waits, its own DMA or its end is there; while none does, exactly the
  poll that is owed, or nothing;
* `Phases`: what the game may be at while another thread is about. `InReset` is
  about the reset thread: the game waits for a poll, is between two, waits for the
  token to begin one, or stops motors itself. `Taking` is where the reset thread
  relies on a poll that is still owed to the game, which is what a right flag has
  told it. `InMessage` is about the service thread: the game is stopped, without the token,
  and the message that was taken was its poll's. `Clearing` says where the game is
  while its flag is out of date;
* `PifHas`: what the PIF's memory has, and that it is what each thread is about to
  read (`PifFor`): the answer to its own command, or to the status after a retry. A poll that sends no command relies on
  `__osContLastCmd`, and a command to a motor must not be left there when a later
  read makes the PIF execute it again;
* `Motors`: a motor that turns is on, given up or operated on, one that the reset
  thread has passed is given up, and a stop that was read has stopped it.

### DiskJobs_proofs

`TypeCorrect`, `SlotsAreWhole` (`HandIsWhole`), `NothingPostedIsLost` (`PostedIsKept`) and
`GameGoesOnWhenDone` (`GoesOnWhenDone`) for rings and queues of any length that
`DiskAssumption` allows. All of the ring is said of distances from its first
waiting slot (`Dist`). `RingInv`, for the transfers:

* `Announced`: the messages in the queue name the slots that wait, each once, in the
  ring's order. The queue and the ring are two buffers that know nothing of each
  other; that a NULL may stand between is why it is not an equality;
* `Words`: a slot that waits, or is in hand, has what a poster who still waits has
  asked for, and a poster's are in the order in which he asked;
* `Gap`: the slot in hand has been given back before its transfer is made; it is
  the one before the first that waits, and the transfers under way are too few to
  come round to it. This is the argument that the code relies on and nowhere
  states.

`JobsInv`, for the operations on files: `NullAlone` (a NULL is alone in the queue,
and the record belongs to the operation it announces), `GameAwaits` (what the
game waits for), `Trying` and `Answers` (whose result the one flag and the one
result are). `GoesOnWhenDone` is false with two sorts of work at once; the
scenes are what keeps them apart, as in the program (section 6).

### GameModes_proofs

`NoDemoInPlay` (`DemoIsOver`), `PicturesAreRight` (`PicturesHold`) and `RequestsAreKept`
(`RequestKept`) for transitions of any length. A frame of the game is one step of
the model with many parts (the mode's update, the transition, the change), so the
proof goes through it part by part: each part has a lemma that says what it
leaves alone (`Like`), and what the whole frame does follows. `Inv` holds between
two frames:

* `PlayersRace`: from the choice of a race by the player on, no demo is active and
  the mode is not the title. The demo is ended on the way, not when the race begins;
* `Ended`: a frame never ends with START or START_RELOAD in the change's step, nor
  with anything queued for the transition; and a race starts anew only when the
  player asked (and no demo is on) or the records screen did.

## 6. What is not shown

*Only model-checked*: everything that must happen in the end (`DrawsEveryFrame`,
`AudioTaskBegins`, `EveryFrameShown`, `EveryCommandCarriedOut`, `ResetEnds`,
`CopiesReturn`, `LeoGoesOn`, `OperationsEnd`, `OperationEnds`, `RequestsEnd`), since
liveness under fairness and ENABLED are out of the prover's reach. No module has a
RECURSIVE operator.

### Simplified in what is modelled

* `RcpSched` allows one wait for a retrace in the middle of a frame
  (`GameDrain`, `GameSync`); the boot before the threads start is left out.
* `FrameLoop` leaves out VI modes and blanking.
* `OsThreads` leaves out `osDestroyThread`.
* `SramSave`: the sections kept once (characters and cups: there is no copy that
  a property could be about), the Edit Cup pair (its writer,
  `Save_SaveEditCupProfiles`, is never called, and `Save_Load` does not repair it)
  and the Expansion Kit's saves. `Save_Load` clears `D_i2_80111848`, so that the
  settings' `customUnlocks` are 0 in the cartridge game's next save: a matter
  of contents, not of sections.
* `AudioCmds`: the reset button, `AUDIOCMD_GLOBAL_STOP_AUDIOCMDS` (never used), and
  what a command does other than resetting the heap.
* `PiManager`: the old `osPiStartDma` commands and the loopback, which nobody
  sends; the timing registers of the domains; the correction of a block by its C2
  data, and the disk command's loop of retries, each of which is another
  transfer of `Leo`. `leo/lib/leointerrupt.c` is the
  handler that is linked; `libultra/io/leointerrupt.c` is another version of it
  that is not.
* `DiskJobs`: two operations of menus at a time, a second NULL for the same try,
  two posters at the ring's limit.
* `DiskFiles`: a file that takes several extents, and its size; directories,
  attributes, encoded files and copies; `SLMFSLoadSpecial`, `SLMFSLoadHalfway`,
  `SLMFSFlushManageArea` and the lists of files; the course entries that
  `SLMFSNewDisk` loads. A look at the disk and the reading of its id are one step
  (an exchange within the microseconds between them is left out), and so is
  laying a disk out anew, whose first contents count as no files. Errors of the
  drive other than a missing, changed or unreadable disk stop the program in a
  loop and are left out; so does a full disk, which is modelled. A save looks at the
  area a second time to see what room there is (`mfs_save.c:178` and 195). If that
  look finds the disk gone or changed its -1 is compared as an unsigned number and
  the save goes on to write the data, which finds the same; only this second
  failure is modelled (`GoSave`).
* `SerialBus`: sticks and buttons as values; `osContInit` but for its wait
  (`OsTimer`). Only `RumblePorts` have paks.
* `OsTimer`: the messages that end a timer (the caller's queue) and `osStopTimer`,
  which is not linked. A write of the compare register that takes so long that
  the count passes it costs a round of the count, 91 seconds on the console.
* `GameModes`: the Expansion Kit's modes and its EAD demo; what the initialisation
  of a mode does; the request MENU_CHANGE_16, which `game.c` handles and nobody
  makes. `PicturesHold` is about plain
  changes, `RequestKept` and `RequestsEnd` leave the records screen out (below).

### Known and not promised

Each is a limit of the code that a property states as an exception, and that
the model shows when the exception is taken away. The hazards give the lines.

* *Audio tasks*: a task that is set while a yield is still awaited for the one
  before (`hasty`) begins twice, and the one before never; and after a retrace that
  finds an audio task not over (`slow`) the next buffer may be filled while the RSP
  reads it.
* *Saves on the cartridge*: a save that is cut between its copies is shown after
  the next power-on, with the second copy still old; a later save cut in its
  first copy falls back to that second copy. A ghost whose saving is cut between
  its two writes has the record of the new and the data of the old (`half` in
  `GhostWhole`).
* *Files on the disk*: (a) a disk that is taken out after the data of a save were
  written and is back before the rename makes `Mfs_BackupRamArea` find no area, and
  `SLMFSSave` lays the disk out anew; (b) a cut between the writes of the area and
  of its copy, and a second one in a later write of the area, lose what was saved
  in between: the recovery trusts the copy, and `Mfs_CopyRamAreaFromBackup` looks
  at no checksum; (c) a recovery begun on one disk is carried out on the disk that
  was put in meanwhile; (d) after an erasure in memory only, the blocks of the
  file are given away while the disk still names them; (e) `SLMFSLoad` returns
  "not found" after a recovery from an area that could not be read, without
  looking again.
* *The drive's interrupt*: if the drive counts wrong at the first sector of a
  second block the handler sends two messages in one interrupt; the PI's event
  queue has one place, and the manager waits for the second for ever.
* *Disk service*: a save posted by a second caller while a NULL waits overwrites
  the record; with tries that fail and the sound at work at once, a menu takes
  its operation for done when a transfer of the sound is; two posters at the
  ring's limit can take the same slot.
* *Controllers* (`untimely`): if the button is pressed between the start of a poll
  and the setting of `gControllerReadDataStarted`, a motor's DMA finds the bus at
  work and its wait takes the poll's end; if it is pressed between the receipt of a
  poll's end and the clearing of the flag, the reset thread waits for an end that
  was received, or takes that of the game's next operation. If the service thread
  has a message to show while the game has the token, it waits for ever for a
  thread it has stopped; while the game has a motor operation behind it that it has
  not noted, the count of that motor is wrong.
* *Timers*: a timer that is set while another runs is taken relative to the last
  setting and fires at the wrong time in this version of the library; the game
  has one timer.
* *Records*: `Records_MenuUpdate` looks at no transition; Quit or Change course that
  is chosen while the race on show starts anew is overwritten.

### Not modelled

* *Race simulation, camera, course geometry, drawing*: floating-point computation
  in one thread, out of TLC's reach; these are by far the largest files.
* *Menus and screens, course and machine editor, ending*: what they ask of the
  other components is modelled where it matters (nondeterministic requests in
  `GameModes`, `SramSave`, `DiskJobs`); cursors and layout are not.
* *Audio sequencer and synthesis*: computation on notes and samples.
* *Audio loads and heap caches, ghosts' slots and replays*: sequential code on
  data, whose interleavings are in `AudioCmds` and `PiManager`.
* *64DD command thread*: it works on registers of the drive whose behaviour the
  repository does not define; what its work does to the bus is in `PiManager` and
  to the disk in `DiskFiles`.
* *Overlays, fault screen, Controller Pak library, C library*: loading code at
  fixed addresses, a screen after a crash, linked code that the game never
  calls, and standard functions.
