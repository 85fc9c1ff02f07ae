------------------------------ MODULE SerialBus ------------------------------
(***************************************************************************)
(* The controllers and their rumble paks (src/sys/controller.c) on the     *)
(* serial interface (src/libultra/io): one DMA at a time, one access       *)
(* token, and one queue with ONE place for the ends of the DMAs.           *)
(*                                                                         *)
(* A poll is started at the end of a frame and its end received in the     *)
(* next one, the token having been given back: the DMA is still under way. *)
(* A pak operation (motor, write, read) holds the token while it writes a  *)
(* command to the PIF and reads the answer.  The reset thread, and in the  *)
(* Expansion Kit the service thread that shows a message, use the same     *)
(* queue; both are more urgent than the game.                              *)
(***************************************************************************)
EXTENDS Integers, Sequences, FiniteSets

CONSTANTS
  NPorts,         \* MAXCONTROLLERS: 4
  RumblePorts,    \* bound: the ports that paks are put in and rumble
  Others,         \* which of the threads "reset", "disk" exist
  RewritesOnRetry,\* BUILD_VERSION >= VERSION_J: a retry sends the command anew
  Retries,        \* tries after the first: 3 in the code
  MaxFaults       \* bound: devices pulled or put in, answers garbled

ASSUME SerialAssumption ==
  /\ NPorts \in Nat \ {0} /\ RumblePorts \subseteq 1..NPorts
  /\ Others \subseteq {"reset", "disk"}
  /\ RewritesOnRetry \in BOOLEAN
  /\ Retries \in Nat /\ MaxFaults \in Nat

Ports == 1..NPorts
Thread == {"game"} \cup Others
Above(t) == IF t = "game" THEN Others ELSE IF t = "disk" THEN Others \ {t} ELSE {}
Disconnected == 0                      \* PORT_DISCONNECTED, a fifth controller

NoTx == [cmd |-> "none", c |-> 0]
Poll == [cmd |-> "poll", c |-> 0]
Tx(cmd, c) == [cmd |-> cmd, c |-> c]
\* osMotorInit: select bank 0xFE (again with 0x80 if the pak is new), read,
\* select bank 0x80, read.
Selects == {"select", "select2", "select3"}
Detects == {"detect", "detect2"}
Motor == {"stop", "start"}
Commands == {Poll, NoTx} \cup
  [cmd : Selects \cup Detects \cup Motor \cup {"status"}, c : Ports]

VARIABLES
  \* the serial interface and libultra
  dma,          \* the DMA under way: by whom, which way, for which command
  siQ,          \* gSerialEventQueue
  token,        \* messages in __osSiAccessQueue
  pif,          \* the command in the PIF's memory
  answered,     \* the command whose answer was read last
  lastCmd,      \* __osContLastCmd, with __osPfsLastChannel for a pak
  \* the threads
  at, idx, back,\* where, at which port, and where the calls return to
  tx, stage, tries, done,   \* the operation on the bus, and the last that ended
  flag,         \* gControllerReadDataStarted
  saved,        \* did the service thread take a message (sp24 # -1)?
  resetStarted, \* gResetStarted
  untimely,     \* history: did one of Others come at a moment when the code
                \* cannot bear it?
  \* gControllers and the paks
  err, want, pak, on, init, ready,  \* errno, unk_72/74/76/78, pfs.status
  connected, portOf,                \* gControllersConnected, gPlayerControlPorts
  unplugged,    \* the ports that did not answer the last poll
  dev, fresh,   \* what is plugged in, and has it been changed (CONT_CARD_PULL)?
  moving,       \* does the motor turn?
  comes,        \* the thread of Others that this behaviour is about
  faults

bus   == <<dma, siQ, token, pif, answered, lastCmd, unplugged>>
call  == <<tx, stage, tries, done>>
place == <<at, idx, back>>
game  == <<flag, saved, resetStarted, untimely>>
pads  == <<err, want, pak, on, init, ready, connected, portOf>>
world == <<dev, fresh, moving, comes, faults>>
serialVars == <<bus, call, place, game, pads, world>>

Places == {"away", "frame", "inputs", "cleared", "mode", "poll", "polled",
           "recv", "pad", "motor", "minit", "mstop", "reset", "clear", "rstop",
           "rwait", "loop", "lpoll", "pressed", "restart", "done"}
Stages == {"get", "write", "written", "read", "readWait", "status",
           "statusWait", "sread", "sreadWait"}
Results == {"ok", "newpack", "nopack", "fail", "invalid"}
Devices == {"gone", "bare", "rumble", "memory"}
DevicesAt(c) == IF c \in RumblePorts THEN Devices ELSE {"gone", "bare"}

SerialTypeOK ==
  /\ dma = NoTx \/ dma \in [by : Thread, dir : {"w", "r"}, what : Commands]
  /\ Len(siQ) <= 1 /\ token \in 0..1
  /\ {pif, answered, lastCmd} \subseteq Commands
  /\ at \in [Thread -> Places] /\ idx \in [Thread -> 0..NPorts + 1]
  /\ \A t \in Thread : back[t] \in Seq(Places) /\ Len(back[t]) <= 2
  /\ tx \in [Thread -> Commands] /\ stage \in [Thread -> Stages]
  /\ tries \in [Thread -> 0..Retries]
  /\ done \in [Thread -> [cmd : Commands, res : Results]]
  /\ {flag, saved, resetStarted, untimely} \subseteq BOOLEAN
  /\ {err, want, pak, on, init, ready, moving, fresh} \subseteq [Ports -> BOOLEAN]
  /\ connected \in 0..NPorts /\ portOf \in [Ports -> Ports \cup {Disconnected}]
  /\ unplugged \subseteq Ports /\ dev \in [Ports -> Devices]
  /\ faults \in 0..MaxFaults /\ comes \in Others \cup {"nobody"}

(***************************************************************************)
(* After Controller_Init: every rumble pak has been initialised and rests. *)
(***************************************************************************)
Plugged(d) == {c \in Ports : d[c] # "gone"}
SerialInit ==
  /\ dma = NoTx /\ siQ = <<>> /\ token = 1
  /\ pif = NoTx /\ answered = NoTx /\ lastCmd = NoTx /\ unplugged = {}
  /\ at = [t \in Thread |-> IF t = "game" THEN "frame" ELSE "away"]
  /\ idx = [t \in Thread |-> 0] /\ back = [t \in Thread |-> <<>>]
  /\ tx = [t \in Thread |-> NoTx] /\ stage = [t \in Thread |-> "get"]
  /\ tries = [t \in Thread |-> 0]
  /\ done = [t \in Thread |-> [cmd |-> NoTx, res |-> "ok"]]
  /\ flag = FALSE /\ saved = FALSE /\ resetStarted = FALSE /\ untimely = FALSE
  /\ dev \in [Ports -> Devices] /\ \A c \in Ports : dev[c] \in DevicesAt(c)
  /\ err = [c \in Ports |-> dev[c] = "gone"]
  /\ ready = [c \in Ports |-> dev[c] = "rumble"] /\ pak = ready
  /\ want = [c \in Ports |-> FALSE] /\ on = want /\ init = want
  /\ moving = want /\ fresh = want
  /\ connected = Cardinality(Plugged(dev))
  /\ portOf = [j \in Ports |-> IF j > connected THEN Disconnected
       ELSE CHOOSE c \in Plugged(dev) : Cardinality({b \in Plugged(dev) : b <= c}) = j]
  /\ comes \in Others \cup {"nobody"}
  /\ faults = IF comes = "nobody" \/ MaxFaults = 0 THEN 0 ELSE MaxFaults - 1
  /\ comes # "nobody" => \A c \in Ports \ RumblePorts : dev[c] = "gone"
-----------------------------------------------------------------------------
(* Who runs: a thread waits for the token, or for the end of a DMA.        *)

\* The service thread has stopped the game thread (osStopThread).
Waits(t) == \/ tx[t] # NoTx /\ stage[t] = "get" /\ token = 0
            \/ tx[t] # NoTx /\ siQ = <<>> /\
               stage[t] \in {"written", "readWait", "statusWait", "sreadWait"}
            \/ tx[t] = NoTx /\ at[t] = "recv" /\ siQ = <<>>
MayRun(t) == \A u \in Above(t) :
  at[u] = "away" \/ (Waits(u) /\ ~(u = "disk" /\ t = "game"))
Goes(t, p) == at' = [at EXCEPT ![t] = p]
Serves(t) == tx[t] # NoTx
Free(t) == MayRun(t) /\ ~Serves(t)

(***************************************************************************)
(* The interface.  A DMA that is started while another one is under way is *)
(* refused, which no caller looks at (__osSiRawStartDma); an end that      *)
(* finds the queue full is lost.                                           *)
(***************************************************************************)
StartDma(t, dir, what) ==
  dma' = IF dma # NoTx THEN dma ELSE [by |-> t, dir |-> dir, what |-> what]

\* What the paks do of the command in the PIF when it is read back.
Executes(cmd) ==
  moving' = IF cmd.cmd \in Motor /\ dev[cmd.c] = "rumble"
            THEN [moving EXCEPT ![cmd.c] = (cmd.cmd = "start")] ELSE moving

SiInterrupt ==
  /\ dma # NoTx /\ dma' = NoTx
  /\ siQ' = IF siQ = <<>> THEN <<dma>> ELSE siQ
  /\ IF dma.dir = "w"
     THEN pif' = dma.what /\ UNCHANGED <<answered, unplugged, moving>>
     ELSE /\ answered' = pif /\ pif' = pif /\ Executes(pif)
          /\ unplugged' = IF pif = Poll THEN {c \in Ports : dev[c] = "gone"} ELSE unplugged
  /\ UNCHANGED <<token, lastCmd, call, place, game, pads, dev, fresh, comes, faults>>
-----------------------------------------------------------------------------
(***************************************************************************)
(* An operation on the bus.  A poll sends its command only if the PIF does *)
(* not hold it already, and does not wait for the answer.                  *)
(***************************************************************************)
Call(t, cmd) ==
  /\ tx' = [tx EXCEPT ![t] = cmd] /\ stage' = [stage EXCEPT ![t] = "get"]
  /\ tries' = [tries EXCEPT ![t] = Retries] /\ UNCHANGED done
Stage(t, s) == stage' = [stage EXCEPT ![t] = s]
Ends(t, r) == /\ tx' = [tx EXCEPT ![t] = NoTx]
              /\ done' = [done EXCEPT ![t] = [cmd |-> tx[t], res |-> r]]
              /\ Stage(t, "get") /\ token' = 1 /\ UNCHANGED tries
NoCall == UNCHANGED call
\* The receiver of an end empties the queue's one place.
Receives(t) == siQ # <<>> /\ siQ' = <<>>

GetAccess(t) ==
  /\ MayRun(t) /\ Serves(t) /\ stage[t] = "get" /\ token = 1 /\ token' = 0
  /\ Stage(t, IF tx[t] = Poll /\ lastCmd = Poll THEN "read" ELSE "write")
  /\ UNCHANGED <<dma, siQ, pif, answered, lastCmd, unplugged, tx, tries, done,
                 place, game, pads, world>>

\* Mutant: a motor operation leaves the mark of the poll.
LastCmdOfOnlyPaks(cmd) == IF cmd.cmd \in Motor THEN lastCmd ELSE cmd

\* A motor operation, a status: CONT_CMD_END, so that everybody packs anew.
LastCmdOf(cmd) == IF cmd.cmd \in Motor THEN NoTx ELSE cmd

Write(t) ==
  /\ MayRun(t) /\ Serves(t) /\ stage[t] = "write"
  /\ StartDma(t, "w", tx[t]) /\ Stage(t, "written")
  /\ lastCmd' = IF tx[t] = Poll THEN lastCmd ELSE LastCmdOf(tx[t])
  /\ UNCHANGED <<siQ, token, pif, answered, unplugged, tx, tries, done, place,
                 game, pads, world>>

Written(t) ==
  /\ MayRun(t) /\ Serves(t) /\ stage[t] = "written" /\ Receives(t)
  /\ Stage(t, "read")
  /\ UNCHANGED <<dma, token, pif, answered, lastCmd, unplugged, tx, tries, done,
                 place, game, pads, world>>

Read(t) ==
  /\ MayRun(t) /\ Serves(t) /\ stage[t] = "read"
  /\ StartDma(t, "r", tx[t])
  /\ IF tx[t] = Poll
     THEN lastCmd' = Poll /\ Ends(t, "ok")
     ELSE Stage(t, "readWait") /\ UNCHANGED <<token, lastCmd, tx, tries, done>>
  /\ UNCHANGED <<siQ, pif, answered, unplugged, place, game, pads, world>>

\* What the block that was read tells: no controller, a block that does not
\* match its check (no pak, or the motor of another sort of pak), a pak that is
\* no motor.  A block may also be garbled on its way.
BadBlock(c, cmd) == dev[c] = "bare" \/ (dev[c] = "memory" /\ cmd \in Motor)
Garbled == faults < MaxFaults /\ faults' = faults + 1

\* What the memory of the PIF answers when it is read.  In the older library a
\* retry does not send the command anew, although the PIF holds the status's.
AnswerTo(t) == IF tries[t] < Retries /\ ~RewritesOnRetry
               THEN Tx("status", tx[t].c) ELSE tx[t]

ReadWait(t) ==
  LET c == tx[t].c
      cmd == tx[t].cmd
      strange == answered # tx[t]
      gone == dev[c] = "gone" /\ ~strange
      bad == BadBlock(c, cmd) \/ strange IN
  /\ MayRun(t) /\ Serves(t) /\ stage[t] = "readWait" /\ Receives(t)
  /\ \/ /\ ~gone /\ ~bad /\ faults' = faults
        /\ Ends(t, IF dev[c] = "memory" /\ cmd \in Detects THEN "fail" ELSE "ok")
     \/ /\ gone /\ faults' = faults
        /\ Ends(t, IF cmd \in Motor THEN "fail" ELSE "nopack")
     \/ /\ ~gone /\ (Garbled \/ (bad /\ faults' = faults))
        /\ IF cmd \in Motor THEN Ends(t, "fail")
           ELSE Stage(t, "status") /\ UNCHANGED <<token, tx, tries, done>>
  /\ UNCHANGED <<dma, pif, answered, lastCmd, unplugged, place, game, pads,
                 dev, fresh, moving, comes>>

\* The library then asks for the pak's state (__osPfsGetStatus).
StatusStep(t) ==
  LET status == Tx("status", tx[t].c) IN
  /\ MayRun(t) /\ Serves(t)
  /\ \/ /\ stage[t] = "status" /\ StartDma(t, "w", status) /\ lastCmd' = NoTx
        /\ Stage(t, "statusWait") /\ UNCHANGED siQ
     \/ /\ stage[t] = "statusWait" /\ Receives(t) /\ Stage(t, "sread")
        /\ UNCHANGED <<dma, lastCmd>>
     \/ /\ stage[t] = "sread" /\ StartDma(t, "r", status) /\ Stage(t, "sreadWait")
        /\ UNCHANGED <<siQ, lastCmd>>
  /\ UNCHANGED <<token, pif, answered, unplugged, tx, tries, done, place, game,
                 pads, world>>

\* Mutant: the operation returns from its loop without giving back the token.
StatusWaitReturns(t) ==
  LET c == tx[t].c IN
  /\ MayRun(t) /\ Serves(t) /\ stage[t] = "sreadWait" /\ Receives(t)
  /\ tx' = [tx EXCEPT ![t] = NoTx] /\ Stage(t, "get")
  /\ done' = [done EXCEPT ![t] = [cmd |-> tx[t], res |-> "fail"]]
  /\ UNCHANGED <<dma, pif, answered, lastCmd, unplugged, token, tries, place,
                 game, pads, world>>

\* A pak that has gone or is new ends the operation; one that is sound is tried
\* again, unless it tells that it got a wrong address (CONT_ADDR_CRC_ER).
StatusWait(t) ==
  LET c == tx[t].c
      gone == dev[c] \in {"gone", "bare"}
      sound == ~gone /\ ~fresh[c] IN
  /\ MayRun(t) /\ Serves(t) /\ stage[t] = "sreadWait" /\ Receives(t)
  /\ \/ ~sound /\ Ends(t, IF gone THEN "nopack" ELSE "newpack")
     \/ sound /\ Ends(t, "fail")
     \/ /\ sound /\ tries[t] > 0
        /\ tries' = [tries EXCEPT ![t] = @ - 1]
        /\ Stage(t, IF RewritesOnRetry THEN "write" ELSE "read")
        /\ UNCHANGED <<token, tx, done>>
  /\ fresh' = [fresh EXCEPT ![c] = @ /\ gone]
  /\ UNCHANGED <<dma, pif, answered, lastCmd, unplugged, place, game, pads,
                 dev, moving, comes, faults>>
-----------------------------------------------------------------------------
(***************************************************************************)
(* Controller_UpdateInputs: receive the poll's end, then look at each      *)
(* port from the last to the first.                                        *)
(***************************************************************************)
Enter(t, p, ret) == Goes(t, p) /\ back' = [back EXCEPT ![t] = <<ret>> \o @]
Return(t) == Goes(t, Head(back[t])) /\ back' = [back EXCEPT ![t] = Tail(@)]
NextPort(t) == idx' = [idx EXCEPT ![t] = @ - 1]
SetAt(f, c, v) == [f EXCEPT ![c] = v]
Bus == UNCHANGED <<dma, token, pif, answered, lastCmd, unplugged>>

ReceivePoll(t) ==
  /\ Free(t) /\ at[t] = "recv" /\ Receives(t)
  /\ idx' = [idx EXCEPT ![t] = NPorts] /\ Goes(t, "pad")
  /\ Bus /\ UNCHANGED <<call, back, game, pads, world>>

\* Mutant: a port whose controller was pulled is only forgotten.
PortForgotten(c) ==
  /\ err' = SetAt(err, c, TRUE) /\ connected' = connected - 1 /\ portOf' = portOf

PortLost(c) ==
  /\ err' = SetAt(err, c, TRUE) /\ connected' = connected - 1
  /\ portOf' = [j \in Ports |-> IF portOf[j] = c /\ \A k \in Ports : k > j => portOf[k] # c
                                THEN Disconnected ELSE portOf[j]]

\* A motor operation on a pak that is not initialised fails at once.
Rumble(t, cmd, c, p) ==
  IF ready[c] THEN Call(t, Tx(cmd, c)) /\ Goes(t, p) /\ UNCHANGED <<idx, pak>>
              ELSE pak' = SetAt(pak, c, FALSE) /\ NextPort(t) /\ UNCHANGED <<at, call>>

\* Nothing asks for the motor: it is stopped, and now and then stopped again.
StopDue(c) == pak[c] /\ (~want[c] \/ resetStarted)

LookAtPort(t) ==
  LET c == idx[t] IN
  /\ Free(t) /\ at[t] = "pad"
  /\ \/ c = 0 /\ Return(t) /\ UNCHANGED <<idx, call, pads>>
     \/ /\ c > 0 /\ err[c] /\ NextPort(t) /\ UNCHANGED <<at, back, call, pads>>
     \/ /\ c > 0 /\ ~err[c] /\ c \in unplugged /\ PortLost(c) /\ NextPort(t)
        /\ UNCHANGED <<at, back, call, want, pak, on, init, ready>>
     \/ /\ c > 0 /\ ~err[c] /\ c \notin unplugged /\ init[c]
        /\ ready' = SetAt(ready, c, FALSE)
        /\ Call(t, Tx("select", c)) /\ Goes(t, "minit")
        /\ UNCHANGED <<idx, back, err, want, pak, on, init, connected, portOf>>
     \/ /\ c > 0 /\ ~err[c] /\ c \notin unplugged /\ ~init[c]
        /\ \/ StopDue(c) /\ Rumble(t, "stop", c, "motor")
           \/ ~(StopDue(c) /\ on[c]) /\ NextPort(t) /\ UNCHANGED <<at, call, pak>>
           \/ /\ want[c] /\ ~resetStarted /\ pak[c]
              /\ Rumble(t, IF on[c] THEN "stop" ELSE "start", c, "motor")
        /\ UNCHANGED <<back, err, want, on, init, ready, connected, portOf>>
  /\ UNCHANGED <<bus, game, world>>

\* Mutant: a pak that did not answer is taken for sound.
MotorResultIgnored(t) ==
  LET c == idx[t] IN
  /\ Free(t) /\ at[t] = "motor" /\ Goes(t, "pad") /\ NextPort(t) /\ pak' = pak
  /\ on' = IF done[t].res = "ok" THEN SetAt(on, c, done[t].cmd.cmd = "start") ELSE on
  /\ UNCHANGED <<bus, call, back, game, err, want, init, ready, connected, portOf, world>>

MotorResult(t) ==
  LET c == idx[t] IN
  /\ Free(t) /\ at[t] = "motor" /\ Goes(t, "pad") /\ NextPort(t)
  /\ IF done[t].res = "ok"
     THEN pak' = pak /\ on' = SetAt(on, c, done[t].cmd.cmd = "start")
     ELSE pak' = SetAt(pak, c, FALSE) /\ on' = on
  /\ UNCHANGED <<bus, call, back, game, err, want, init, ready, connected, portOf, world>>

\* osMotorInit, a call at a time; a pak that answers to the end is stopped.
NextInit(d) ==
  CASE d.cmd.cmd = "select" /\ d.res = "newpack" -> "select2"
    [] d.cmd.cmd \in {"select", "select2"} /\ d.res = "ok" -> "detect"
    [] d.cmd.cmd = "detect" /\ d.res = "ok" -> "select3"
    [] d.cmd.cmd = "select3" /\ d.res = "ok" -> "detect2"
    [] d.cmd.cmd = "detect2" /\ d.res = "ok" -> "stop"
    [] OTHER -> "fails"

InitEnds(t, c, there) ==
  /\ pak' = SetAt(pak, c, there) /\ init' = SetAt(init, c, FALSE)
  /\ on' = SetAt(on, c, FALSE) /\ Goes(t, "pad") /\ NextPort(t)

MotorInit(t) ==
  LET c == idx[t]
      next == NextInit(done[t]) IN
  /\ Free(t) /\ at[t] = "minit"
  /\ IF next = "fails"
     THEN InitEnds(t, c, FALSE) /\ UNCHANGED <<call, ready>>
     ELSE /\ Call(t, Tx(next, c)) /\ Goes(t, IF next = "stop" THEN "mstop" ELSE "minit")
          /\ ready' = IF next = "stop" THEN SetAt(ready, c, TRUE) ELSE ready
          /\ UNCHANGED <<idx, pak, on, init>>
  /\ UNCHANGED <<bus, back, game, err, want, connected, portOf, world>>

InitStopped(t) ==
  /\ Free(t) /\ at[t] = "mstop" /\ InitEnds(t, idx[t], TRUE)
  /\ UNCHANGED <<bus, call, back, game, err, want, ready, connected, portOf, world>>
-----------------------------------------------------------------------------
(* Controller_Reset.                                                       *)

ResetBegins(t) ==
  /\ Free(t) /\ at[t] = "reset"
  /\ IF flag THEN Enter(t, "recv", "clear") /\ idx' = idx
             ELSE Goes(t, "rstop") /\ idx' = SetAt(idx, t, 1) /\ back' = back
  /\ UNCHANGED <<bus, call, game, pads, world>>

ResetClears(t) ==
  /\ Free(t) /\ at[t] = "clear" /\ flag' = FALSE
  /\ Goes(t, "rstop") /\ idx' = SetAt(idx, t, 1)
  /\ UNCHANGED <<bus, call, back, saved, resetStarted, untimely, pads, world>>

Rests(c, there) ==
  /\ pak' = SetAt(pak, c, there)
  /\ want' = SetAt(want, c, FALSE) /\ on' = SetAt(on, c, FALSE)

AfterLast(c) == c > NPorts

ResetStops(t) ==
  LET c == idx[t] IN
  /\ Free(t)
  /\ \/ at[t] = "rstop" /\ AfterLast(c) /\ Return(t) /\ UNCHANGED <<idx, call, want, pak, on>>
     \/ /\ at[t] = "rstop" /\ ~AfterLast(c) /\ ready[c]
        /\ Call(t, Tx("stop", c)) /\ Goes(t, "rwait")
        /\ UNCHANGED <<idx, back, want, pak, on>>
     \/ /\ at[t] = "rstop" /\ ~AfterLast(c) /\ ~ready[c] /\ Rests(c, FALSE)
        /\ idx' = SetAt(idx, t, c + 1) /\ UNCHANGED <<at, back, call>>
     \/ /\ at[t] = "rwait" /\ Rests(c, done[t].res = "ok")
        /\ idx' = SetAt(idx, t, c + 1) /\ Goes(t, "rstop") /\ UNCHANGED <<back, call>>
  /\ UNCHANGED <<bus, game, err, init, ready, connected, portOf, world>>
-----------------------------------------------------------------------------
(***************************************************************************)
(* A frame of the game (func_800690FC).  A change of mode begins with a    *)
(* Controller_Reset, and the mode's own update may make one (a pause).     *)
(***************************************************************************)
GoesOrResets(p) == \/ Goes("game", p) /\ back' = back
                   \/ Enter("game", "reset", p)

BeginFrame ==
  /\ Free("game") /\ at["game"] = "frame" /\ GoesOrResets("inputs")
  /\ UNCHANGED <<bus, call, idx, game, pads, world>>

Inputs ==
  /\ Free("game") /\ at["game"] = "inputs"
  /\ IF flag THEN Enter("game", "recv", "cleared")
             ELSE Goes("game", "mode") /\ back' = back
  /\ UNCHANGED <<bus, call, idx, game, pads, world>>

Cleared ==
  /\ Free("game") /\ at["game"] = "cleared" /\ flag' = FALSE /\ Goes("game", "mode")
  /\ UNCHANGED <<bus, call, idx, back, saved, resetStarted, untimely, pads, world>>

\* The mode asks for rumble, for a pak to be initialised, or for neither.
Mode ==
  /\ Free("game") /\ at["game"] = "mode"
  /\ GoesOrResets("poll")
  /\ \/ want' = want /\ init' = init
     \/ \E c \in RumblePorts, w, i \in BOOLEAN :
          want' = SetAt(want, c, w) /\ init' = SetAt(init, c, i \/ init[c])
  /\ UNCHANGED <<bus, call, idx, game, err, pak, on, ready, connected, portOf, world>>

StartPoll ==
  /\ Free("game") /\ at["game"] = "poll" /\ Call("game", Poll) /\ Goes("game", "polled")
  /\ UNCHANGED <<bus, idx, back, game, pads, world>>

Polled ==
  /\ Free("game") /\ at["game"] = "polled" /\ flag' = TRUE /\ Goes("game", "frame")
  /\ UNCHANGED <<bus, call, idx, back, saved, resetStarted, untimely, pads, world>>
-----------------------------------------------------------------------------
(* The other threads.                                                      *)

\* Has the game made a poll whose end it has not received yet?
PollDue == \/ at["game"] = "polled" /\ ~(Serves("game") /\ stage["game"] = "get")
           \/ flag /\ at["game"] \in {"frame", "inputs", "reset", "recv"}

\* Reset_ThreadEntry: the button, at any time; afterwards it runs for ever.  It
\* goes by gControllerReadDataStarted, which the game writes after a poll and
\* clears long after its end.
ResetButton ==
  /\ comes = "reset" /\ at["reset"] = "away"
  /\ resetStarted' = TRUE /\ Enter("reset", "reset", "done")
  /\ untimely' = (untimely \/ flag # PollDue)
  /\ UNCHANGED <<bus, call, idx, flag, saved, pads, world>>

\* The game has the token, or has a motor operation behind it of which it has not
\* noted the outcome.
InTheMiddle ==
  \/ Serves("game") /\ stage["game"] # "get"
  \/ ~Serves("game") /\ at["game"] \in {"motor", "mstop", "rwait"}

\* func_807038B0: the message has been drawn, long after a poll's end, wherever
\* the game was stopped.
ShowMessage ==
  /\ comes = "disk" /\ at["disk"] = "away" /\ MayRun("disk") /\ dma = NoTx
  /\ untimely' = (untimely \/ InTheMiddle)
  /\ saved' = (siQ # <<>>) /\ siQ' = <<>> /\ Goes("disk", "loop")
  /\ Bus /\ UNCHANGED <<call, idx, back, flag, resetStarted, pads, world>>

MessageLoop ==
  /\ "disk" \in Others /\ Free("disk")
  /\ \/ at["disk"] = "loop" /\ Call("disk", Poll) /\ Goes("disk", "lpoll") /\ back' = back
     \/ at["disk"] = "lpoll" /\ Enter("disk", "recv", "pressed") /\ NoCall
     \/ at["disk"] = "pressed" /\ Goes("disk", "loop") /\ NoCall /\ back' = back
  /\ UNCHANGED <<bus, idx, game, pads, world>>

ButtonPressed ==
  /\ "disk" \in Others /\ Free("disk") /\ at["disk"] = "pressed" /\ back' = back
  /\ IF saved THEN Call("disk", Poll) /\ Goes("disk", "restart")
              ELSE NoCall /\ Goes("disk", "away")
  /\ UNCHANGED <<bus, idx, game, pads, world>>

MessageEnds ==
  /\ "disk" \in Others /\ Free("disk") /\ at["disk"] = "restart" /\ Goes("disk", "away")
  /\ UNCHANGED <<bus, call, idx, back, game, pads, world>>

\* Somebody pulls or puts in a pak or a controller: a motor loses its power.
Replug(c, d) ==
  /\ faults < MaxFaults /\ faults' = faults + 1 /\ d \in DevicesAt(c) \ {dev[c]}
  /\ dev' = SetAt(dev, c, d) /\ moving' = SetAt(moving, c, FALSE)
  /\ fresh' = SetAt(fresh, c, TRUE)
  /\ UNCHANGED <<bus, call, place, game, pads, comes>>
-----------------------------------------------------------------------------
BusStep(t) == \/ GetAccess(t) \/ Write(t) \/ Written(t) \/ Read(t) \/ ReadWait(t)
              \/ StatusStep(t) \/ StatusWait(t)
ControllerStep(t) == \/ ReceivePoll(t) \/ LookAtPort(t) \/ MotorResult(t)
                     \/ MotorInit(t) \/ InitStopped(t)
                     \/ ResetBegins(t) \/ ResetClears(t) \/ ResetStops(t)
GameStep == BeginFrame \/ Inputs \/ Cleared \/ Mode \/ StartPoll \/ Polled
Disk == ShowMessage \/ MessageLoop \/ ButtonPressed \/ MessageEnds
Steps(t) == BusStep(t) \/ ControllerStep(t)

SerialNext == \/ SiInterrupt \/ (\E t \in Thread : Steps(t)) \/ GameStep \/ ResetButton \/ Disk
        \/ \E c \in Ports, d \in Devices : Replug(c, d)

SerialSpec == SerialInit /\ [][SerialNext]_serialVars
-----------------------------------------------------------------------------
(***************************************************************************)
(* Who receives an end receives that of the DMA it waits for, in an        *)
(* operation the thread's own and in Controller_UpdateInputs a poll's; and *)
(* what was read is the answer to what was asked, except in the retries of *)
(* the older library.  All of it unless the reset thread came while        *)
(* gControllerReadDataStarted was wrong, or the service thread while the   *)
(* game had the token.                                                     *)
(***************************************************************************)
OwnAnswer ==
  [][\A t \in Thread : siQ # <<>> /\ siQ' = <<>> /\ ~untimely =>
       /\ Written(t) \/ ReadWait(t) \/ StatusStep(t) \/ StatusWait(t) =>
            Head(siQ) = [by |-> t,
                         dir |-> IF stage[t] \in {"written", "statusWait"}
                                 THEN "w" ELSE "r",
                         what |-> IF stage[t] \in {"statusWait", "sreadWait"}
                                  THEN Tx("status", tx[t].c) ELSE tx[t]]
       /\ ReadWait(t) => answered = AnswerTo(t)
       /\ StatusWait(t) => answered = Tx("status", tx[t].c)
       /\ ReceivePoll(t) => Head(siQ).what = Poll /\ answered = Poll]_serialVars

(***************************************************************************)
(* A motor that turns although the game thinks it rests is that of a pak   *)
(* the game has given up, or an operation on it is under way; and the      *)
(* reset thread leaves no motor on that the game knows of.                 *)
(***************************************************************************)
MotorKnown ==
  ~untimely => \A c \in Ports : moving[c] =>
    /\ ~on[c] => \/ ~pak[c]
                 \/ \E t \in Thread :
                      /\ idx[t] = c
                      /\ at[t] \in {"motor", "minit", "mstop", "rwait"}
    /\ "reset" \in Others /\ at["reset"] = "done" => ~pak[c]

(***************************************************************************)
(* Each player has a connected controller of his own, and the number of    *)
(* controllers, which the menus offer modes by, is that of the players.    *)
(***************************************************************************)
PlayersHaveControllers ==
  LET players == {j \in Ports : portOf[j] # Disconnected} IN
  /\ \A j, k \in players : portOf[j] = portOf[k] => j = k
  /\ {portOf[j] : j \in players} = {c \in Ports : ~err[c]}
  /\ connected = Cardinality(players)

(***************************************************************************)
(* Nobody waits for ever: who waits for an end waits for that of a DMA     *)
(* under way, who waits for the token waits for a thread that has it and   *)
(* is not stopped.  So the token comes back on every path out of an        *)
(* operation that failed.  The game may wait for the service thread that   *)
(* stopped it, and the reset thread may take a poll's end from it; unless  *)
(* these two came when the code cannot bear it (untimely).                 *)
(***************************************************************************)
GameStopped == comes = "disk" /\ at["disk"] # "away"
Robbed(t) == t = "game" /\ (GameStopped \/ (resetStarted /\ ~Serves(t)))
NoEndlessWait ==
  ~untimely => \A t \in Thread : Waits(t) /\ ~Robbed(t) =>
    IF Serves(t) /\ stage[t] = "get"
    THEN \E u \in Thread \ {t} : /\ Serves(u) /\ stage[u] # "get"
                                 /\ u = "game" => ~GameStopped
    ELSE dma # NoTx
=============================================================================
