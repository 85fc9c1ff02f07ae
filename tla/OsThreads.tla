----------------------------- MODULE OsThreads -----------------------------
(***************************************************************************)
(* The threads and message queues of libultra (src/libultra/os).  One      *)
(* processor runs the most urgent thread that is ready.  A call of the     *)
(* library runs with interrupts disabled up to its end or to the point     *)
(* where the caller has to wait, so that each is one step; a thread that   *)
(* waited looks again when it next runs, still with interrupts disabled.   *)
(*                                                                         *)
(* The clients are arbitrary: any thread may make any call at any time,    *)
(* except that the idle thread only starts others.  A call with            *)
(* OS_MESG_NOBLOCK that fails changes nothing, and one that succeeds does  *)
(* what a blocking one does.                                               *)
(***************************************************************************)
EXTENDS Naturals, Sequences, FiniteSets, SequencesExt

CONSTANTS
  Threads,     \* the threads that make calls
  Idle,        \* the thread that never does
  Queues,      \* OSMesgQueues
  MsgCount,    \* the length of each queue's buffer
  Messages,
  InitPri,     \* priority of each thread at first
  Priorities,  \* the priorities osSetThreadPri may set
  MayStop      \* do threads stop and start each other?

AllThreads == Threads \cup {Idle}

ASSUME ThreadAssumption ==
  /\ IsFiniteSet(Threads) /\ Idle \notin Threads
  /\ InitPri \in [AllThreads -> Nat]
  /\ Priorities \subseteq Nat
  /\ \A p \in Priorities \cup {InitPri[t] : t \in Threads} : InitPri[Idle] < p
  /\ MsgCount \in [Queues -> Nat \ {0}]
  /\ MayStop \in BOOLEAN

\* The lists of threads: __osRunQueue, and two in each message queue.
RunQueue     == <<"os", "run">>
MtQueue(q)   == <<q, "mt">>
FullQueue(q) == <<q, "full">>
Waits        == {MtQueue(q) : q \in Queues} \cup {FullQueue(q) : q \in Queues}
Lists        == {RunQueue} \cup Waits
NoList       == <<"os", "null">>

VARIABLES
  kernel,   \* state, priority and list of each thread; the lists; who runs
  mesgQ,    \* the message queues: first, validCount and msg
  call      \* the call in which each thread waits, or waited till it was woken

vars == <<kernel, mesgQ, call>>

NoCall == [op |-> "none"]

\* The calls that may have to wait, and what each waits in.
Calls == [op : {"recv"}, mq : Queues]
           \cup [op : {"send", "jam"}, mq : Queues, msg : Messages]

Running  == kernel.running
Ready(k) == k.list[RunQueue]

-----------------------------------------------------------------------------
(* The lists of threads.                                                   *)

\* __osEnqueueThread: behind all the threads that are as urgent.
EnqueueThread(k, l, t) ==
  LET s == k.list[l]
      n == Cardinality({i \in DOMAIN s :
                          \A j \in 1..i : k.priority[s[j]] >= k.priority[t]})
  IN  [k EXCEPT !.list[l] = InsertAt(s, n + 1, t), !.queue[t] = l]

\* __osPopThread, which returns the head.
PopThread(k, l) == [k EXCEPT !.list[l] = Tail(@)]

DequeueThread(k, t) ==
  LET s == k.list[k.queue[t]]
      i == CHOOSE i \in DOMAIN s : s[i] = t
  IN  [k EXCEPT !.list[k.queue[t]] = RemoveAt(s, i)]

\* __osDispatchThread; the idle thread is always there to run.
DispatchThread(k) ==
  LET t == Head(Ready(k))
  IN  [PopThread(k, RunQueue) EXCEPT !.state[t] = "RUNNING", !.running = t]

EnqueueAndYield(k, l) == DispatchThread(EnqueueThread(k, l, k.running))

\* The running thread waits in the list l.
Wait(k, l) == EnqueueAndYield([k EXCEPT !.state[k.running] = "WAITING"], l)

\* The running thread gives way to one that is more urgent.
Preempt(k) ==
  IF Ready(k) # <<>> /\ k.priority[k.running] < k.priority[Head(Ready(k))]
  THEN EnqueueAndYield([k EXCEPT !.state[k.running] = "RUNNABLE"], RunQueue)
  ELSE k

MakeReady(k, t) ==
  EnqueueThread([k EXCEPT !.state[t] = "RUNNABLE"], RunQueue, t)

\* osStartThread.  A thread that was stopped while it waited in a message
\* queue goes back there, and the first one of those that wait is woken.
StartThread(k, t) ==
  LET restarted == EnqueueThread([k EXCEPT !.state[t] = "WAITING"],
                                 k.queue[t], t)
  IN  Preempt(
        CASE k.state[t] = "WAITING" -> MakeReady(k, t)
          [] k.state[t] = "STOPPED" /\ k.queue[t] \in {NoList, RunQueue} ->
               MakeReady(k, t)
          [] k.state[t] = "STOPPED" /\ k.queue[t] \in Waits ->
               EnqueueThread(PopThread(restarted, k.queue[t]), RunQueue,
                             Head(restarted.list[k.queue[t]]))
          [] OTHER -> k)

\* Wake the first thread that waits in l, if any.
WakeOne(k, l) ==
  IF k.list[l] # <<>> THEN StartThread(PopThread(k, l), Head(k.list[l])) ELSE k

-----------------------------------------------------------------------------
(* The buffers of the message queues.                                      *)

IsFull(q)  == mesgQ[q].validCount >= MsgCount[q]
IsEmpty(q) == mesgQ[q].validCount = 0

\* Mutant: the index of the last message does not wrap round.
StoredTooFar(q, m) ==
  LET mq   == mesgQ[q]
      last == Min({mq.first + mq.validCount, MsgCount[q] - 1})
  IN  [mesgQ EXCEPT ![q] = [first      |-> mq.first,
                            validCount |-> mq.validCount + 1,
                            msg        |-> [mq.msg EXCEPT ![last] = m]]]

\* osSendMesg
Stored(q, m) ==
  LET mq   == mesgQ[q]
      last == (mq.first + mq.validCount) % MsgCount[q]
  IN  [mesgQ EXCEPT ![q] = [first      |-> mq.first,
                            validCount |-> mq.validCount + 1,
                            msg        |-> [mq.msg EXCEPT ![last] = m]]]

\* osJamMesg
Jammed(q, m) ==
  LET mq    == mesgQ[q]
      first == (mq.first + MsgCount[q] - 1) % MsgCount[q]
  IN  [mesgQ EXCEPT ![q] = [first      |-> first,
                            validCount |-> mq.validCount + 1,
                            msg        |-> [mq.msg EXCEPT ![first] = m]]]

\* osRecvMesg
Taken(q) ==
  LET mq == mesgQ[q]
  IN  [mesgQ EXCEPT ![q] = [first      |-> (mq.first + 1) % MsgCount[q],
                            validCount |-> mq.validCount - 1,
                            msg        |-> mq.msg]]

-----------------------------------------------------------------------------
Init ==
  /\ kernel = [state    |-> [t \in AllThreads |->
                               IF t = Idle THEN "RUNNING" ELSE "STOPPED"],
               priority |-> InitPri,
               queue    |-> [t \in AllThreads |->
                               IF t = Idle THEN RunQueue ELSE NoList],
               list     |-> [l \in Lists |-> <<>>],
               running  |-> Idle]
  /\ \E m \in Messages :
       mesgQ = [q \in Queues |-> [first |-> 0, validCount |-> 0,
                                  msg |-> [i \in 0..MsgCount[q] - 1 |-> m]]]
  /\ call = [t \in AllThreads |-> NoCall]

\* The running thread makes the call c, or goes on with it where it waited.
Calling(c) ==
  /\ Running \in Threads
  /\ call[Running] \in {NoCall, c}

\* The thread waits in the list l, and has to look again when it is woken.
WaitIn(l, c) ==
  /\ call' = [call EXCEPT ![Running] = c]
  /\ kernel' = Wait(kernel, l)
  /\ UNCHANGED mesgQ

Return == call' = [call EXCEPT ![Running] = NoCall]

RecvMesg(q) ==
  LET c == [op |-> "recv", mq |-> q]
  IN  /\ Calling(c)
      /\ IF IsEmpty(q) THEN WaitIn(MtQueue(q), c)
         ELSE /\ mesgQ' = Taken(q)
              /\ kernel' = WakeOne(kernel, FullQueue(q))
              /\ Return

SendMesg(q, m) ==
  LET c == [op |-> "send", mq |-> q, msg |-> m]
  IN  /\ Calling(c)
      /\ IF IsFull(q) THEN WaitIn(FullQueue(q), c)
         ELSE /\ mesgQ' = Stored(q, m)
              /\ kernel' = WakeOne(kernel, MtQueue(q))
              /\ Return

\* Mutant: nobody is told of a jammed message.
JamMesgSilently(q, m) ==
  LET c == [op |-> "jam", mq |-> q, msg |-> m]
  IN  /\ Calling(c)
      /\ IF IsFull(q) THEN WaitIn(FullQueue(q), c)
         ELSE /\ mesgQ' = Jammed(q, m)
              /\ UNCHANGED kernel
              /\ Return

JamMesg(q, m) ==
  LET c == [op |-> "jam", mq |-> q, msg |-> m]
  IN  /\ Calling(c)
      /\ IF IsFull(q) THEN WaitIn(FullQueue(q), c)
         ELSE /\ mesgQ' = Jammed(q, m)
              /\ kernel' = WakeOne(kernel, MtQueue(q))
              /\ Return

\* The running thread has interrupts enabled when it is not in a call.
Interruptible == call[Running] = NoCall

ThreadCall == Running \in Threads /\ Interruptible /\ UNCHANGED <<mesgQ, call>>

YieldThread ==
  /\ ThreadCall
  /\ kernel' = EnqueueAndYield([kernel EXCEPT !.state[Running] = "RUNNABLE"],
                               RunQueue)

\* osStopThread, of itself (NULL) or of another thread.
StopThread(t) ==
  /\ MayStop
  /\ ThreadCall
  /\ LET stopped == [kernel EXCEPT !.state[t] = "STOPPED"]
     IN  \/ t = Running /\ kernel' = DispatchThread(stopped)
         \/ /\ kernel.state[t] \in {"RUNNABLE", "WAITING"}
            /\ kernel' = DequeueThread(stopped, t)

\* Of a new thread, or of one that was stopped: one that waits for a message
\* is never started from outside.
Start(t) ==
  /\ Interruptible
  /\ kernel.state[t] = "STOPPED"
  /\ kernel' = StartThread(kernel, t)
  /\ UNCHANGED <<mesgQ, call>>

\* Mutant: a thread in a list is not moved to its new place there.
SetThreadPriInPlace(t, p) ==
  /\ ThreadCall
  /\ kernel.priority[t] # p
  /\ kernel' = Preempt([kernel EXCEPT !.priority[t] = p])

SetThreadPri(t, p) ==
  /\ ThreadCall
  /\ kernel.priority[t] # p
  /\ LET k     == [kernel EXCEPT !.priority[t] = p]
         moved == IF t # Running /\ k.state[t] # "STOPPED"
                  THEN EnqueueThread(DequeueThread(k, t), k.queue[t], t)
                  ELSE k
     IN  kernel' = Preempt(moved)

\* An interrupt: the handler sends the event's message, without waiting, to
\* the queue set by osSetEventMesg, and the interrupted thread gives way to a
\* more urgent one.
Event(q, m) ==
  /\ Interruptible
  /\ ~IsFull(q)
  /\ mesgQ' = Stored(q, m)
  /\ LET mt == kernel.list[MtQueue(q)]
     IN  kernel' = IF mt = <<>> THEN kernel
                   ELSE Preempt(EnqueueThread(PopThread(kernel, MtQueue(q)),
                                              RunQueue, Head(mt)))
  /\ UNCHANGED call

Next ==
  \/ YieldThread
  \/ \E t \in Threads : Start(t) \/ StopThread(t)
  \/ \E t \in Threads, p \in Priorities : SetThreadPri(t, p)
  \/ \E q \in Queues : RecvMesg(q)
  \/ \E q \in Queues, m \in Messages :
       SendMesg(q, m) \/ JamMesg(q, m) \/ Event(q, m)

Spec == Init /\ [][Next]_vars

-----------------------------------------------------------------------------
(* Properties.                                                             *)

TypeOK ==
  /\ kernel \in [state    : [AllThreads ->
                               {"STOPPED", "RUNNABLE", "RUNNING", "WAITING"}],
                 priority : [AllThreads -> Nat],
                 queue    : [AllThreads -> Lists \cup {NoList}],
                 list     : [Lists -> Seq(AllThreads)],
                 running  : AllThreads]
  /\ \A q \in Queues :
       /\ mesgQ[q].first \in 0..MsgCount[q] - 1
       /\ mesgQ[q].validCount \in 0..MsgCount[q]
       /\ mesgQ[q].msg \in [0..MsgCount[q] - 1 -> Messages]
  /\ call \in [AllThreads -> Calls \cup {NoCall}]

\* The processor never runs a thread while a more urgent one is ready.
MostUrgentRuns ==
  \A i \in DOMAIN Ready(kernel) :
    kernel.priority[Ready(kernel)[i]] <= kernel.priority[Running]

\* The threads woken from the list l that have not looked again.
Woken(l) ==
  {t \in Threads : /\ kernel.queue[t] = RunQueue
                   /\ call[t] # NoCall
                   /\ l = IF call[t].op = "recv" THEN MtQueue(call[t].mq)
                                                ELSE FullQueue(call[t].mq)}

Free(q) == MsgCount[q] - mesgQ[q].validCount

\* No wakeup is lost: a thread waits for a message, or for a place, only if
\* each one there is left to a thread that was woken for it.
NoLostWakeup ==
  \A q \in Queues :
    /\ kernel.list[MtQueue(q)] # <<>> =>
         mesgQ[q].validCount <= Cardinality(Woken(MtQueue(q)))
    /\ kernel.list[FullQueue(q)] # <<>> =>
         Free(q) <= Cardinality(Woken(FullQueue(q)))

\* The messages in the queue q, oldest first.
Contents(q) ==
  [i \in 1..mesgQ[q].validCount |->
     mesgQ[q].msg[(mesgQ[q].first + i - 1) % MsgCount[q]]]

Fifo(q) == INSTANCE MesgQueue WITH Capacity <- MsgCount[q],
                                   queue <- Contents(q)

\* Each ring buffer keeps the order of its messages, loses none and delivers
\* none twice, where it wraps round and when a message is jammed too.
QueuesKeepOrder ==
  /\ \A q \in Queues : Fifo(q)!Init
  /\ [][\A q \in Queues : Fifo(q)!Next \/ UNCHANGED Contents(q)]_vars
=============================================================================
