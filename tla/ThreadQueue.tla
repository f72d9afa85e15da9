---------------------------- MODULE ThreadQueue ----------------------------
(***************************************************************************)
(* ADM_threadQueue: a thread (the producer) pulls frames from a source and *)
(* queues them for the thread that owns the object (the user), which alone *)
(* starts the thread, takes frames and destroys the object.  This module   *)
(* holds the state of the base class and the operations it implements:     *)
(* startThread, stopThread, run around the virtual runAction, and the base *)
(* destructor.  The two subclasses, VideoFilterQueue and AudioAccessThread,*)
(* add the rest of runAction and of the getter, and their destructor.      *)
(*                                                                         *)
(* Grain.  A section held under `mutex' is one step when it has one        *)
(* conflict with code that does not take the mutex, and is cut before each *)
(* further one; `owner' says who is inside a section that was cut.  What   *)
(* is touched without the mutex in the code: threadState (a std::atomic),  *)
(* the two vectors in the subclasses' destructors, and freeList at the end *)
(* of the audio producer.                                                  *)
(***************************************************************************)
EXTENDS Naturals, Sequences

CONSTANTS
    NBuf,        \* ADM_THREAD_QUEUE_SIZE or MAX_CHUNK_IN_QUEUE
    DefaultSize, \* what a BVector has room for when it is made
    MaxFrames,   \* bound: frames the source can make
    StopPolls    \* clockDown's first value in stopThread

ASSUME NBufAssumption == NBuf \in Nat \ {0}
ASSUME DefaultSizeAssumption == DefaultSize \in Nat /\ DefaultSize >= 2
ASSUME MaxFramesAssumption == MaxFrames \in Nat
ASSUME StopPollsAssumption == StopPolls \in Nat

Buffers == 1..NBuf
NoBuffer == 0
Partial == 0     \* what a buffer holds while the source writes into it

RunState == {"Idle", "Running", "StopOrder", "Stopped"}

VARIABLES
    threadState,   \* RunState
    started,       \* startThread has returned once
    owner,         \* who holds mutex across steps: "none", "user", "producer"
    list,          \* buffers ready for the user, in order
    freeList,      \* empty buffers
    prodWaiting,   \* producerCond->waiting
    consWaiting,   \* consumerCond->waiting
    clockDown,     \* polls left in stopThread
    ppc,           \* where the producer thread is
    upc,           \* where the user thread is
    held,          \* the buffer the producer has taken out of freeList
    stale,         \* the vector as the producer read it, inside append
    capacity,      \* elements list's storage has room for
    view,          \* the storage of list a destructor has in hand: "none", or
                   \* one that is "kept" by the vector, or "freed" by it
    count,         \* elements of list the destructor has counted
    walked,        \* and how many of them it is through with
    contents,      \* what each buffer holds: a frame number or Partial
    alive,         \* buffers that have not been deleted
    produced,      \* frames made by the source so far
    delivered,     \* contents handed to the user, in order
    eof            \* a getter has answered "no more data"

lists   == <<list, freeList>>
conds   == <<prodWaiting, consWaiting>>
history == <<produced, delivered, eof>>
memory  == <<contents, alive>>
storage == <<capacity, view, count, walked>>

tqVars == <<threadState, started, owner, list, freeList, prodWaiting,
            consWaiting, clockDown, ppc, upc, held, stale, contents, alive,
            produced, delivered, eof, capacity, view, count, walked>>

TQInit ==
    /\ threadState = "Idle"
    /\ started = FALSE
    /\ owner = "none"
    /\ list = <<>>
    /\ freeList = [i \in 1..NBuf |-> i]
    /\ prodWaiting = FALSE
    /\ consWaiting = FALSE
    /\ clockDown = StopPolls
    /\ ppc = "none"
    /\ upc = "idle"
    /\ held = NoBuffer
    /\ stale = <<>>
    /\ contents = [b \in Buffers |-> Partial]
    /\ alive = Buffers
    /\ produced = 0
    /\ delivered = <<>>
    /\ eof = FALSE
    /\ capacity = DefaultSize
    /\ view = "none"
    /\ count = 0
    /\ walked = 0

-----------------------------------------------------------------------------
(* admCond.  A thread blocked in pthread_cond_wait leaves it for a signal  *)
(* or for no reason at all; `waiting' stays set until it owns the mutex    *)
(* again, so iswaiting() is also true of a thread that is on its way out.  *)

\* "if(producerCond->iswaiting()) producerCond->wakeup();"
WakeProducer ==
    ppc' = IF prodWaiting /\ ppc = "pwait" THEN "pwoken" ELSE ppc

WakeConsumer ==
    upc' = IF consWaiting /\ upc = "cwait" THEN "cwoken" ELSE upc

\* pthread_cond_wait may return without a signal.
SpuriousWakeProducer ==
    /\ ppc = "pwait"
    /\ ppc' = "pwoken"
    /\ UNCHANGED <<threadState, started, owner, lists, conds, clockDown, upc,
                   held, stale, memory, history, storage>>

SpuriousWakeConsumer ==
    /\ upc = "cwait"
    /\ upc' = "cwoken"
    /\ UNCHANGED <<threadState, started, owner, lists, conds, clockDown, ppc,
                   held, stale, memory, history, storage>>

\* The end of admCond::wait: the mutex is owned again, waiting is cleared
\* and the mutex released.
ProducerLeavesWait ==
    /\ ppc = "pwoken"
    /\ owner = "none"
    /\ prodWaiting' = FALSE
    /\ ppc' = "loop"
    /\ UNCHANGED <<threadState, started, owner, lists, consWaiting, clockDown,
                   upc, held, stale, memory, history, storage>>

ConsumerLeavesWait ==
    /\ upc = "cwoken"
    /\ owner = "none"
    /\ consWaiting' = FALSE
    /\ upc' = "get"
    /\ UNCHANGED <<threadState, started, owner, lists, prodWaiting, clockDown,
                   ppc, held, stale, memory, history, storage>>

-----------------------------------------------------------------------------
(* The user thread: startThread, stopThread, the base destructor.          *)

\* A getter is called; the first call creates the thread.
CallGet ==
    /\ upc = "idle"
    /\ IF started
         THEN upc' = "get" /\ ppc' = ppc
         ELSE upc' = "starting" /\ ppc' = "spawned"
    /\ UNCHANGED <<threadState, started, owner, lists, conds, clockDown, held,
                   stale, memory, history, storage>>

\* startThread polls until the new thread has left RunStateIdle.
ThreadStarted ==
    /\ upc = "starting"
    /\ threadState # "Idle"
    /\ started' = TRUE
    /\ upc' = "get"
    /\ UNCHANGED <<threadState, owner, lists, conds, clockDown, ppc, held,
                   stale, memory, history, storage>>

\* The owner deletes the object, at a moment when it is in no getter.
CallDestructor ==
    /\ upc = "idle"
    /\ upc' = "stop"
    /\ UNCHANGED <<threadState, started, owner, lists, conds, clockDown, ppc,
                   held, stale, memory, history, storage>>

\* The test of threadState under the mutex, in stopThread ("stop") and in
\* the base destructor ("base"), which skips it when the thread never ran.
TestRunning ==
    /\ \/ upc = "stop"
       \/ upc = "base" /\ started
    /\ owner = "none"
    /\ IF threadState = "Running"
         THEN /\ owner' = "user"
              /\ upc' = IF upc = "stop" THEN "stopAsk" ELSE "baseAsk"
         ELSE /\ owner' = owner
              /\ upc' = IF upc = "stop" THEN "free" ELSE "join"
    /\ UNCHANGED <<threadState, started, lists, conds, clockDown, ppc, held,
                   stale, memory, history, storage>>

\* Mutant: the stop order does not wake a producer that waits for a buffer.
GiveStopOrder_NoWake ==
    /\ upc \in {"stopAsk", "baseAsk"}
    /\ threadState' = "StopOrder"
    /\ owner' = "none"
    /\ clockDown' = IF upc = "stopAsk" THEN StopPolls ELSE clockDown
    /\ upc' = IF upc = "stopAsk" THEN "stopPoll" ELSE "basePoll"
    /\ UNCHANGED <<started, lists, conds, ppc, held, stale, memory, history,
                   storage>>

\* The order is written after the test: run() may have stored Stopped in
\* between, without the mutex, and that is then overwritten.
GiveStopOrder ==
    /\ upc \in {"stopAsk", "baseAsk"}
    /\ threadState' = "StopOrder"
    /\ WakeProducer
    /\ owner' = "none"
    /\ clockDown' = IF upc = "stopAsk" THEN StopPolls ELSE clockDown
    /\ upc' = IF upc = "stopAsk" THEN "stopPoll" ELSE "basePoll"
    /\ UNCHANGED <<started, lists, conds, held, stale, memory, history,
                   storage>>

\* stopThread sleeps while the thread is not stopped, but not for ever: with
\* the polls used up it goes on all the same.
PollStopped ==
    /\ upc = "stopPoll"
    /\ IF threadState # "Stopped" /\ clockDown > 0
         THEN clockDown' = clockDown - 1 /\ upc' = upc
         ELSE clockDown' = clockDown /\ upc' = "free"
    /\ UNCHANGED <<threadState, started, owner, lists, conds, ppc, held, stale,
                   memory, history, storage>>

\* The base destructor joins the thread.  Its own polling loop never counts
\* down: when it is entered ("basePoll") it ends only on Stopped.
Join ==
    /\ \/ upc = "base" /\ ~started
       \/ upc = "join" /\ ppc = "exited"
       \/ upc = "basePoll" /\ threadState = "Stopped" /\ ppc = "exited"
    /\ upc' = "gone"
    /\ UNCHANGED <<threadState, started, owner, lists, conds, clockDown, ppc,
                   held, stale, memory, history, storage>>

-----------------------------------------------------------------------------
(* The producer thread: run() before and after runAction.                  *)

RunStart ==
    /\ ppc = "spawned"
    /\ threadState' = "Running"
    /\ ppc' = "loop"
    /\ UNCHANGED <<started, owner, lists, conds, clockDown, upc, held, stale,
                   memory, history, storage>>

\* runAction has returned: after a stop order nothing is drained.
RunActionDone ==
    /\ ppc = "end"
    /\ ppc' = IF threadState = "StopOrder" THEN "stopping" ELSE "drain"
    /\ UNCHANGED <<threadState, started, owner, lists, conds, clockDown, upc,
                   held, stale, memory, history, storage>>

\* One turn of "wait til consumer done": threadState is not looked at.
DrainPoll ==
    /\ ppc = "drain"
    /\ owner = "none"
    /\ WakeConsumer
    /\ ppc' = IF list = <<>> THEN "stopping" ELSE "drain"
    /\ UNCHANGED <<threadState, started, owner, lists, conds, clockDown, held,
                   stale, memory, history, storage>>

SetStopped ==
    /\ ppc = "stopping"
    /\ threadState' = "Stopped"
    /\ ppc' = "lastWake"
    /\ UNCHANGED <<started, owner, lists, conds, clockDown, upc, held, stale,
                   memory, history, storage>>

\* Mutant: the thread exits without looking for a consumer that waits.
LastWakePoll_NoWake ==
    /\ ppc = "lastWake"
    /\ owner = "none"
    /\ ppc' = "exited"
    /\ UNCHANGED <<threadState, started, owner, lists, conds, clockDown, upc,
                   held, stale, memory, history, storage>>

\* One turn of "wait til consumer exit".
LastWakePoll ==
    /\ ppc = "lastWake"
    /\ owner = "none"
    /\ WakeConsumer
    /\ ppc' = IF consWaiting THEN "lastWake" ELSE "exited"
    /\ UNCHANGED <<threadState, started, owner, lists, conds, clockDown, held,
                   stale, memory, history, storage>>

-----------------------------------------------------------------------------
(* The parts of the getter and of runAction that both subclasses write     *)
(* alike (getNextFrameAs and getPacket, the two runAction).                *)

\* The mutex is taken; after a stop order the answer is false at once.
GetLock ==
    /\ upc = "get"
    /\ owner = "none"
    /\ IF threadState = "StopOrder"
         THEN owner' = owner /\ upc' = "idle"
         ELSE owner' = "user" /\ upc' = "look"
    /\ UNCHANGED <<threadState, started, lists, conds, clockDown, ppc, held,
                   stale, memory, history, storage>>

\* No frame and the thread has stopped: no more data.
GetNoMore ==
    /\ upc = "look"
    /\ list = <<>>
    /\ threadState = "Stopped"
    /\ eof' = TRUE
    /\ owner' = "none"
    /\ upc' = "idle"
    /\ UNCHANGED <<threadState, started, lists, conds, clockDown, ppc, held,
                   stale, memory, produced, delivered, storage>>

\* No frame and the thread is alive: consumerCond->wait() releases the mutex.
GetWait ==
    /\ upc = "look"
    /\ list = <<>>
    /\ threadState # "Stopped"
    /\ consWaiting' = TRUE
    /\ owner' = "none"
    /\ upc' = "cwait"
    /\ UNCHANGED <<threadState, started, lists, prodWaiting, clockDown, ppc,
                   held, stale, memory, history, storage>>

\* Under the mutex: obey a stop order, wait for a free buffer, or take one.
TakeFree ==
    /\ ppc = "loop"
    /\ owner = "none"
    /\ IF threadState = "StopOrder" THEN
            /\ ppc' = "end"
            /\ UNCHANGED <<freeList, prodWaiting, held, contents>>
       ELSE IF freeList = <<>> THEN
            /\ prodWaiting' = TRUE
            /\ ppc' = "pwait"
            /\ UNCHANGED <<freeList, held, contents>>
       ELSE /\ held' = Head(freeList)
            /\ freeList' = Tail(freeList)
            /\ contents' = [contents EXCEPT ![Head(freeList)] = Partial]
            /\ ppc' = "source"
            /\ UNCHANGED prodWaiting
    /\ UNCHANGED <<threadState, started, owner, list, consWaiting, clockDown,
                   upc, stale, alive, history, storage>>

\* The source has filled the buffer with its next frame.
SourceFrame ==
    /\ ppc = "source"
    /\ produced < MaxFrames
    /\ produced' = produced + 1
    /\ contents' = [contents EXCEPT ![held] = produced + 1]
    /\ ppc' = "push"
    /\ UNCHANGED <<threadState, started, owner, lists, conds, clockDown, upc,
                   held, stale, alive, delivered, eof, storage>>

\* The source has nothing more, or fails: the thread treats both alike.
SourceEnd ==
    /\ ppc = "source"
    /\ ppc' = "giveBack"
    /\ UNCHANGED <<threadState, started, owner, lists, conds, clockDown, upc,
                   held, stale, memory, history, storage>>

-----------------------------------------------------------------------------
(* list.append(pkt), under the mutex, in a BVector: setCapacity(size() + 1)*)
(* and then the element.  The producer is cut wherever a destructor that   *)
(* takes no mutex can tell: it may be walking the storage (see view), and  *)
(* it clears the vector.  freeList is appended to alike, but its storage   *)
(* was grown by the constructor, which put all buffers into it.            *)

\* What setCapacity makes of the room it finds.
Grown(needed) ==
    IF (3 * capacity) \div 2 > needed THEN (3 * capacity) \div 2 ELSE needed

\* Mutant: the room is as small as it may be.
SetCapacity_Least ==
    /\ ppc = "push"
    /\ owner = "none"
    /\ owner' = "producer"
    /\ \/ /\ Len(list) + 1 < capacity
          /\ ppc' = "pushLoad"
          /\ UNCHANGED <<capacity, view>>
       \/ /\ Len(list) + 1 >= capacity
          /\ capacity' = Len(list) + 1
          /\ view' = IF view = "kept" THEN "freed" ELSE view
          /\ ppc' = "growing"
    /\ UNCHANGED <<threadState, started, lists, conds, clockDown, upc, held,
                   stale, memory, history, count, walked>>

\* There is room, or the elements are copied to a larger storage and the old
\* one is deleted, while `buffer' still points to it.
SetCapacity ==
    /\ ppc = "push"
    /\ owner = "none"
    /\ owner' = "producer"
    /\ \/ /\ Len(list) + 1 < capacity
          /\ ppc' = "pushLoad"
          /\ UNCHANGED <<capacity, view>>
       \/ /\ Len(list) + 1 >= capacity
          /\ capacity' = Grown(Len(list) + 1)
          /\ view' = IF view = "kept" THEN "freed" ELSE view
          /\ ppc' = "growing"
    /\ UNCHANGED <<threadState, started, lists, conds, clockDown, upc, held,
                   stale, memory, history, count, walked>>

\* "this->buffer = nbuffer;"
NewBuffer ==
    /\ ppc = "growing"
    /\ ppc' = "pushLoad"
    /\ UNCHANGED <<threadState, started, owner, lists, conds, clockDown, upc,
                   held, stale, memory, history, storage>>

\* What `buffer' points to when a destructor loads it.
Buffer == IF ppc = "growing" THEN "freed" ELSE "kept"

\* append reads currentIndex ...
PushLoad ==
    /\ ppc = "pushLoad"
    /\ stale' = list
    /\ ppc' = "pushing"
    /\ UNCHANGED <<threadState, started, owner, lists, conds, clockDown, upc,
                   held, memory, history, storage>>

\* Mutant: the consumer is not woken.
PushStore_NoWake ==
    /\ ppc = "pushing"
    /\ list' = Append(stale, held)
    /\ held' = NoBuffer
    /\ stale' = <<>>
    /\ owner' = "none"
    /\ ppc' = "loop"
    /\ UNCHANGED <<threadState, started, freeList, conds, clockDown, upc,
                   memory, history, storage>>

\* Mutant: the packet goes to the front of the list.
PushStore_Front ==
    /\ ppc = "pushing"
    /\ list' = <<held>> \o stale
    /\ WakeConsumer
    /\ held' = NoBuffer
    /\ stale' = <<>>
    /\ owner' = "none"
    /\ ppc' = "loop"
    /\ UNCHANGED <<threadState, started, freeList, conds, clockDown, memory,
                   history, storage>>

\* ... and stores the packet at that index and the index plus one, whatever
\* a destructor's clear() did meanwhile; then the consumer is woken and the
\* mutex released.
PushStore ==
    /\ ppc = "pushing"
    /\ list' = Append(stale, held)
    /\ WakeConsumer
    /\ held' = NoBuffer
    /\ stale' = <<>>
    /\ owner' = "none"
    /\ ppc' = "loop"
    /\ UNCHANGED <<threadState, started, freeList, conds, clockDown, memory,
                   history, storage>>

=============================================================================
