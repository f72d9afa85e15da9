------------------------- MODULE AudioAccessThread -------------------------
(***************************************************************************)
(* ADM_audioAccess_thread: the thread pulls encoded packets from the `son' *)
(* access, the muxer takes them with getPacket.  Unlike the video queue it *)
(* copies a packet out without the mutex, gives its last buffer back       *)
(* without the mutex, and deletes the son in its own destructor.           *)
(***************************************************************************)
EXTENDS ThreadQueue

VARIABLES
    taken,       \* the buffer getPacket has popped and not yet recycled
    userStale,   \* freeList as getPacket read it, inside append
    sonAlive     \* son has not been deleted

userVars == <<taken, userStale>>
vars == <<tqVars, taken, userStale, sonAlive>>

-----------------------------------------------------------------------------
(* getPacket: the branch that ThreadQueue does not have                    *)

\* Mutant: the packet is recycled before it is copied.
GetPop_RecycleFirst ==
    /\ upc = "look"
    /\ list # <<>>
    /\ taken' = Head(list)
    /\ list' = Tail(list)
    /\ freeList' = Append(freeList, Head(list))
    /\ WakeProducer
    /\ owner' = "none"
    /\ upc' = "copy"
    /\ UNCHANGED <<threadState, started, conds, clockDown, held, stale, memory,
                   history, userStale, sonAlive, storage>>

\* Mutant: the packet is read but not removed from the list.
GetPop_Keep ==
    /\ upc = "look"
    /\ list # <<>>
    /\ taken' = Head(list)
    /\ owner' = "none"
    /\ upc' = "copy"
    /\ UNCHANGED <<threadState, started, lists, conds, clockDown, ppc, held,
                   stale, memory, history, userStale, sonAlive, storage>>

\* A packet is there: it is popped and the mutex released.
GetPop ==
    /\ upc = "look"
    /\ list # <<>>
    /\ taken' = Head(list)
    /\ list' = Tail(list)
    /\ owner' = "none"
    /\ upc' = "copy"
    /\ UNCHANGED <<threadState, started, freeList, conds, clockDown, ppc, held,
                   stale, memory, history, userStale, sonAlive, storage>>

\* memcpy into the caller's buffer, without the mutex.
CopyOut ==
    /\ upc = "copy"
    /\ delivered' = Append(delivered, contents[taken])
    /\ upc' = "recycle"
    /\ UNCHANGED <<threadState, started, owner, lists, conds, clockDown, ppc,
                   held, stale, memory, produced, eof, userVars, sonAlive,
                   storage>>

\* freeList.append(pkt) under the mutex, in the two halves of PushLoad and
\* PushStore.
RecycleLoad ==
    /\ upc = "recycle"
    /\ owner = "none"
    /\ owner' = "user"
    /\ userStale' = freeList
    /\ upc' = "recycling"
    /\ UNCHANGED <<threadState, started, lists, conds, clockDown, ppc, held,
                   stale, memory, history, taken, sonAlive, storage>>

RecycleStore ==
    /\ upc = "recycling"
    /\ freeList' = Append(userStale, taken)
    /\ WakeProducer
    /\ taken' = NoBuffer
    /\ userStale' = <<>>
    /\ owner' = "none"
    /\ upc' = "idle"
    /\ UNCHANGED <<threadState, started, list, conds, clockDown, held, stale,
                   memory, history, sonAlive, storage>>

-----------------------------------------------------------------------------
(* runAction: the end of the son's data.  The append takes no mutex.       *)

GiveBackLoad ==
    /\ ppc = "giveBack"
    /\ stale' = freeList
    /\ ppc' = "givingBack"
    /\ UNCHANGED <<threadState, started, owner, lists, conds, clockDown, upc,
                   held, memory, history, userVars, sonAlive, storage>>

GiveBackStore ==
    /\ ppc = "givingBack"
    /\ freeList' = Append(stale, held)
    /\ held' = NoBuffer
    /\ stale' = <<>>
    /\ ppc' = "end"
    /\ UNCHANGED <<threadState, started, owner, list, conds, clockDown, upc,
                   memory, history, userVars, sonAlive, storage>>

-----------------------------------------------------------------------------
(* The destructor, after stopThread and without the mutex                  *)

\* emptyListOfPacket(list): int nb=list.size();
CountQueued ==
    /\ upc = "free"
    /\ count' = Len(list)
    /\ walked' = 0
    /\ upc' = "nextQueued"
    /\ UNCHANGED <<threadState, started, owner, lists, conds, clockDown, ppc,
                   held, stale, memory, history, userVars, sonAlive, capacity,
                   view>>

\* list[i]: the storage is looked up for the first packet; for the others the
\* compiler may do so again or not.
NextQueued ==
    /\ upc = "nextQueued"
    /\ IF walked < count
         THEN /\ view' \in {Buffer} \cup (IF walked = 0 THEN {} ELSE {view})
              /\ upc' = "emptyQueued"
         ELSE /\ view' = "none"
              /\ upc' = "clearList"
    /\ UNCHANGED <<threadState, started, owner, lists, conds, clockDown, ppc,
                   held, stale, memory, history, userVars, sonAlive, capacity,
                   count, walked>>

\* "pkt->data=NULL;": no one reads the pointer any more.
EmptyQueued ==
    /\ upc = "emptyQueued"
    /\ walked' = walked + 1
    /\ upc' = "nextQueued"
    /\ UNCHANGED <<threadState, started, owner, lists, conds, clockDown, ppc,
                   held, stale, memory, history, userVars, sonAlive, capacity,
                   view, count>>

\* In a storage that was deleted, it may be something else that is cleared.
\* What becomes of the process then is not modelled.
EmptyGarbage ==
    /\ upc = "emptyQueued"
    /\ view = "freed"
    /\ upc' = "undefined"
    /\ UNCHANGED <<threadState, started, owner, lists, conds, clockDown, ppc,
                   held, stale, memory, history, userVars, sonAlive, storage>>

\* list.clear()
ClearList ==
    /\ upc = "clearList"
    /\ list' = <<>>
    /\ upc' = "emptyFree"
    /\ UNCHANGED <<threadState, started, owner, freeList, conds, clockDown, ppc,
                   held, stale, memory, history, userVars, sonAlive, storage>>

\* emptyListOfPacket(freeList): its storage stays where it is.
EmptyFreeList ==
    /\ upc = "emptyFree"
    /\ freeList' = <<>>
    /\ upc' = "deleteBuffers"
    /\ UNCHANGED <<threadState, started, owner, list, conds, clockDown, ppc,
                   held, stale, memory, history, userVars, sonAlive, storage>>

\* Every ADM_byteBuffer is deleted, wherever its packet is.
DeleteBuffers ==
    /\ upc = "deleteBuffers"
    /\ alive' = {}
    /\ upc' = "deleteSon"
    /\ UNCHANGED <<threadState, started, owner, lists, conds, clockDown, ppc,
                   held, stale, contents, history, userVars, sonAlive,
                   storage>>

DeleteSon ==
    /\ upc = "deleteSon"
    /\ sonAlive' = FALSE
    /\ upc' = "base"
    /\ UNCHANGED <<threadState, started, owner, lists, conds, clockDown, ppc,
                   held, stale, memory, history, userVars, storage>>

-----------------------------------------------------------------------------

Base == UNCHANGED <<userVars, sonAlive>>

GetPacket ==
    \/ (GetLock \/ GetNoMore \/ GetWait) /\ Base
    \/ GetPop \/ CopyOut \/ RecycleLoad \/ RecycleStore
EmptyList ==
    CountQueued \/ NextQueued \/ EmptyQueued \/ EmptyGarbage \/ ClearList
DeleteAll == EmptyList \/ EmptyFreeList \/ DeleteBuffers \/ DeleteSon
BaseUserStep ==
    ThreadStarted \/ TestRunning \/ GiveStopOrder \/ PollStopped \/ Join
      \/ ConsumerLeavesWait
BaseProducerStep ==
    RunStart \/ RunActionDone \/ DrainPoll \/ SetStopped \/ LastWakePoll
      \/ ProducerLeavesWait
RunAction ==
    \/ (TakeFree \/ SetCapacity \/ NewBuffer \/ PushLoad \/ PushStore) /\ Base
    \/ GiveBackLoad \/ GiveBackStore
UserStep == (BaseUserStep /\ Base) \/ GetPacket \/ DeleteAll
ProducerStep == (BaseProducerStep /\ Base) \/ RunAction
Source == (SourceFrame \/ SourceEnd) /\ Base
Spurious == (SpuriousWakeProducer \/ SpuriousWakeConsumer) /\ Base

\* The object is destroyed and its thread joined, or the process is beyond
\* what is modelled.
Done == upc \in {"gone", "undefined"} /\ UNCHANGED vars

Next ==
    \/ (CallGet \/ CallDestructor) /\ Base
    \/ UserStep \/ ProducerStep \/ Source \/ Spurious
    \/ Done

Init ==
    /\ TQInit
    /\ taken = NoBuffer
    /\ userStale = <<>>
    /\ sonAlive = TRUE

Spec == Init /\ [][Next]_vars

\* As for the video queue: both threads run, the mutex starves no one, and
\* the son answers every request.
Fairness ==
    /\ SF_vars(UserStep)
    /\ SF_vars(ProducerStep)
    /\ WF_vars(Source)
FairSpec == Spec /\ Fairness

-----------------------------------------------------------------------------
(* Properties                                                              *)

GetPcs == {"get", "look", "cwait", "cwoken", "copy", "recycle", "recycling"}
\* emptyListOfPacket(list), and what comes after it.
WalkPcs == {"free", "nextQueued", "emptyQueued", "clearList"}
FreeingPcs == WalkPcs \cup
    {"emptyFree", "deleteBuffers", "deleteSon", "base", "baseAsk", "basePoll",
     "join", "gone", "undefined"}
DtorPcs == {"stop", "stopAsk", "stopPoll"} \cup FreeingPcs

\* Every variable keeps to its range.
TypeOK ==
    /\ threadState \in RunState
    /\ started \in BOOLEAN
    /\ owner \in {"none", "user", "producer"}
    /\ list \in Seq(Buffers)
    /\ freeList \in Seq(Buffers)
    /\ prodWaiting \in BOOLEAN
    /\ consWaiting \in BOOLEAN
    /\ clockDown \in 0..StopPolls
    /\ upc \in {"idle", "starting"} \cup GetPcs \cup DtorPcs
    /\ held \in Buffers \cup {NoBuffer}
    /\ taken \in Buffers \cup {NoBuffer}
    /\ stale \in Seq(Buffers)
    /\ userStale \in Seq(Buffers)
    /\ contents \in [Buffers -> 0..MaxFrames]
    /\ alive \subseteq Buffers
    /\ sonAlive \in BOOLEAN
    /\ produced \in 0..MaxFrames
    /\ delivered \in Seq(0..MaxFrames)
    /\ eof \in BOOLEAN
    /\ capacity \in Nat
    /\ view \in {"none", "kept", "freed"}
    /\ count \in Nat
    /\ walked \in Nat

Hands == {b \in {held, taken} : b # NoBuffer}
InLists == list \o freeList

\* No buffer is ever in two places, not even when the thread's last append,
\* made without the mutex, meets the one of getPacket; that meeting can lose
\* a buffer, but only once the thread has taken its last one.
NoBufferTwice ==
    /\ \A i, j \in DOMAIN InLists : i # j => InLists[i] # InLists[j]
    /\ \A i \in DOMAIN InLists : InLists[i] \notin Hands
    /\ held # NoBuffer => held # taken
    /\ upc \notin FreeingPcs /\ ppc \in {"loop", "pwait", "pwoken", "source",
                                         "push", "growing", "pushLoad"} =>
           Len(InLists) + (IF held = NoBuffer THEN 0 ELSE 1)
             + (IF taken = NoBuffer THEN 0 ELSE 1) = NBuf

\* The storage of list may be deleted by append under the destructor's walk:
\* only when all polls of stopThread were in vain, and never with fewer than
\* DefaultSize - 1 packets queued.
WrittenAfterDeleteOnlyAtGrowth ==
    upc = "emptyQueued" /\ view = "freed" =>
        clockDown = 0 /\ count >= DefaultSize - 1

\* Every call of getPacket returns.
GetReturns == (upc \in GetPcs \cup {"starting"}) ~> (upc = "idle")

-----------------------------------------------------------------------------
(* The queue is a FrameFifo whose queue is list, preceded by the packet    *)
(* that getPacket has popped and is about to copy.                         *)

EndedPcs == {"giveBack", "givingBack", "end", "drain", "stopping", "lastWake",
             "exited"}
QueuedPackets ==
    LET l == IF upc = "copy" THEN <<taken>> \o list ELSE list
    IN  [i \in 1..Len(l) |-> contents[l[i]]]
Phase == CASE upc \in DtorPcs -> "destroyed"
           [] upc \notin DtorPcs /\ ppc \in EndedPcs -> "ended"
           [] OTHER -> "open"

Fifo == INSTANCE FrameFifo WITH
            Capacity <- NBuf,
            queue <- IF upc \in DtorPcs THEN <<>> ELSE QueuedPackets,
            handed <- delivered,
            phase <- Phase,
            eof <- eof

\* The queue implements the bounded first-in first-out queue of FrameFifo:
\* getPacket hands out every packet of the son once, in order and complete,
\* though it copies it after releasing the mutex, and "no more data" is
\* answered only when all were handed out.
ImplementsFrameFifo == Fifo!FifoSpec
=============================================================================
