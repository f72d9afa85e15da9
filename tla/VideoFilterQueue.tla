-------------------------- MODULE VideoFilterQueue --------------------------
(***************************************************************************)
(* ADM_videoFilterQueue, the last element of a filter chain: the thread    *)
(* pulls images from the previous filter, the encoder (or the saver) takes *)
(* them with getNextFrameAs and destroys the chain when it is done.        *)
(***************************************************************************)
EXTENDS ThreadQueue

\* 5 elements become 7, for 6 images: list grows once at most.
ASSUME GrowthAssumption == (3 * DefaultSize) \div 2 > NBuf

\* The images a vector points to.
ImagesOf(l) == {l[i] : i \in DOMAIN l}

-----------------------------------------------------------------------------
(* getNextFrameAs: the branch that ThreadQueue does not have               *)

\* Mutant: the newest image is handed out.
GetFrame_Newest ==
    /\ upc = "look"
    /\ list # <<>>
    /\ delivered' = Append(delivered, contents[list[Len(list)]])
    /\ list' = SubSeq(list, 1, Len(list) - 1)
    /\ freeList' = Append(freeList, list[Len(list)])
    /\ WakeProducer
    /\ owner' = "none"
    /\ upc' = "idle"
    /\ UNCHANGED <<threadState, started, conds, clockDown, held, stale, memory,
                   produced, eof, storage>>

\* Mutant: the whole list is cleared for the one image handed out.
GetFrame_Clear ==
    /\ upc = "look"
    /\ list # <<>>
    /\ delivered' = Append(delivered, contents[Head(list)])
    /\ list' = <<>>
    /\ freeList' = Append(freeList, Head(list))
    /\ WakeProducer
    /\ owner' = "none"
    /\ upc' = "idle"
    /\ UNCHANGED <<threadState, started, conds, clockDown, held, stale, memory,
                   produced, eof, storage>>

\* An image is there: it is copied out and recycled under the mutex.
GetFrame ==
    /\ upc = "look"
    /\ list # <<>>
    /\ delivered' = Append(delivered, contents[Head(list)])
    /\ list' = Tail(list)
    /\ freeList' = Append(freeList, Head(list))
    /\ WakeProducer
    /\ owner' = "none"
    /\ upc' = "idle"
    /\ UNCHANGED <<threadState, started, conds, clockDown, held, stale, memory,
                   produced, eof, storage>>

-----------------------------------------------------------------------------
(* runAction: what is not in ThreadQueue                                   *)

\* freeList.append(pkt), under the mutex, when the source is exhausted.
GiveBackLoad ==
    /\ ppc = "giveBack"
    /\ owner = "none"
    /\ owner' = "producer"
    /\ stale' = freeList
    /\ ppc' = "givingBack"
    /\ UNCHANGED <<threadState, started, lists, conds, clockDown, upc, held,
                   memory, history, storage>>

GiveBackStore ==
    /\ ppc = "givingBack"
    /\ freeList' = Append(stale, held)
    /\ held' = NoBuffer
    /\ stale' = <<>>
    /\ owner' = "none"
    /\ ppc' = "end"
    /\ UNCHANGED <<threadState, started, list, conds, clockDown, upc, memory,
                   history, storage>>

-----------------------------------------------------------------------------
(* The destructor, after stopThread and without the mutex                  *)

DeleteFreeImages ==
    /\ upc = "free"
    /\ alive' = alive \ ImagesOf(freeList)
    /\ upc' = "clearFree"
    /\ UNCHANGED <<threadState, started, owner, lists, conds, clockDown, ppc,
                   held, stale, contents, history, storage>>

ClearFreeList ==
    /\ upc = "clearFree"
    /\ freeList' = <<>>
    /\ upc' = "countQueued"
    /\ UNCHANGED <<threadState, started, owner, list, conds, clockDown, ppc,
                   held, stale, memory, history, storage>>

\* int count = list.size();
CountQueued ==
    /\ upc = "countQueued"
    /\ count' = Len(list)
    /\ walked' = 0
    /\ upc' = "nextQueued"
    /\ UNCHANGED <<threadState, started, owner, lists, conds, clockDown, ppc,
                   held, stale, memory, history, capacity, view>>

\* list[j], first half: the storage is looked up anew for each image, as the
\* compiler cannot know what a delete did to it.
NextQueued ==
    /\ upc = "nextQueued"
    /\ IF walked < count
         THEN view' = Buffer /\ upc' = "deleteQueued"
         ELSE view' = view /\ upc' = "clearList"
    /\ UNCHANGED <<threadState, started, owner, lists, conds, clockDown, ppc,
                   held, stale, memory, history, capacity, count, walked>>

DeleteQueued ==
    /\ upc = "deleteQueued"
    /\ alive' = alive \ {list[walked + 1]}
    /\ walked' = walked + 1
    /\ view' = "none"
    /\ upc' = "nextQueued"
    /\ UNCHANGED <<threadState, started, owner, lists, conds, clockDown, ppc,
                   held, stale, contents, history, capacity, count>>

\* Of a storage that was deleted, something else may be read, and deleted as
\* if it were an image.  What becomes of the process then is not modelled.
DeleteGarbage ==
    /\ upc = "deleteQueued"
    /\ view = "freed"
    /\ upc' = "undefined"
    /\ UNCHANGED <<threadState, started, owner, lists, conds, clockDown, ppc,
                   held, stale, memory, history, storage>>

ClearList ==
    /\ upc = "clearList"
    /\ list' = <<>>
    /\ upc' = "base"
    /\ UNCHANGED <<threadState, started, owner, freeList, conds, clockDown,
                   ppc, held, stale, memory, history, storage>>

-----------------------------------------------------------------------------

Getter == GetLock \/ GetFrame \/ GetNoMore \/ GetWait
DeleteImages ==
    \/ DeleteFreeImages \/ ClearFreeList
    \/ CountQueued \/ NextQueued \/ DeleteQueued \/ DeleteGarbage
    \/ ClearList
UserStep ==
    \/ ThreadStarted \/ TestRunning \/ GiveStopOrder \/ PollStopped \/ Join
    \/ ConsumerLeavesWait
    \/ Getter
    \/ DeleteImages
ProducerStep ==
    \/ RunStart \/ RunActionDone \/ DrainPoll \/ SetStopped \/ LastWakePoll
    \/ ProducerLeavesWait
    \/ TakeFree \/ SetCapacity \/ NewBuffer \/ PushLoad \/ PushStore
    \/ GiveBackLoad \/ GiveBackStore
Source == SourceFrame \/ SourceEnd
Spurious == SpuriousWakeProducer \/ SpuriousWakeConsumer

\* The object is destroyed and its thread joined, or the process is beyond
\* what is modelled.
Done == upc \in {"gone", "undefined"} /\ UNCHANGED tqVars

Next ==
    \/ CallGet \/ CallDestructor
    \/ UserStep \/ ProducerStep \/ Source \/ Spurious
    \/ Done

Init == TQInit
Spec == Init /\ [][Next]_tqVars

\* Both threads run, a thread that keeps asking for the mutex gets it in the
\* end (strong fairness: the other one may take it again and again, after
\* spurious wakeups for instance), and the previous filter answers every
\* request.  The user need not call anything.
Fairness ==
    /\ SF_tqVars(UserStep)
    /\ SF_tqVars(ProducerStep)
    /\ WF_tqVars(Source)
FairSpec == Spec /\ Fairness

-----------------------------------------------------------------------------
(* Properties                                                              *)

GetPcs == {"get", "look", "cwait", "cwoken"}
\* The subclass destructor after stopThread, and what comes after it.
WalkPcs == {"free", "clearFree", "countQueued", "nextQueued", "deleteQueued",
            "clearList"}
BasePcs == {"base", "baseAsk", "basePoll", "join", "gone", "undefined"}
FreeingPcs == WalkPcs \cup BasePcs
DtorPcs == {"stop", "stopAsk", "stopPoll"} \cup FreeingPcs
UserPcs == {"idle", "starting"} \cup GetPcs \cup DtorPcs
ProducerPcs ==
    {"none", "spawned", "loop", "pwait", "pwoken", "source", "push", "growing",
     "pushLoad", "pushing", "giveBack", "givingBack", "end", "drain",
     "stopping", "lastWake", "exited"}

\* Every variable keeps to its range.
TypeOK ==
    /\ threadState \in RunState
    /\ started \in BOOLEAN
    /\ owner \in {"none", "user", "producer"}
    /\ list \in Seq(Buffers)
    /\ freeList \in Seq(Buffers)
    /\ prodWaiting \in BOOLEAN
    /\ consWaiting \in BOOLEAN
    /\ clockDown \in 0..StopPolls
    /\ ppc \in ProducerPcs
    /\ upc \in UserPcs
    /\ held \in Buffers \cup {NoBuffer}
    /\ stale \in Seq(Buffers)
    /\ contents \in [Buffers -> 0..MaxFrames]
    /\ alive \subseteq Buffers
    /\ produced \in 0..MaxFrames
    /\ delivered \in Seq(0..MaxFrames)
    /\ eof \in BOOLEAN
    /\ capacity \in Nat
    /\ view \in {"none", "kept", "freed"}
    /\ count \in Nat
    /\ walked \in Nat

\* getNextFrameAs hands out every frame of the source once, in order, and
\* complete: never an image the thread is still rendering into.
InOrderAndIntact ==
    \A i \in 1..Len(delivered) : delivered[i] = i

\* Until the destructor frees them, each image is in exactly one place:
\* freeList, list, or the producer's hands.
ImagesConserved ==
    upc \notin FreeingPcs =>
        /\ Len(list) + Len(freeList) + (IF held = NoBuffer THEN 0 ELSE 1) = NBuf
        /\ ImagesOf(list) \cup ImagesOf(freeList)
             \cup (IF held = NoBuffer THEN {} ELSE {held}) = Buffers

\* "No more data" is answered only when every frame the source has made was
\* handed out, whatever order the thread's end, its drain and the call take.
NothingLostAtEnd ==
    eof => Len(delivered) = produced

\* The destructor goes on when stopThread has timed out, with the thread
\* still inside the previous filter or the drain.  No image is used after it
\* was deleted, and none is deleted twice.  The storage of list is another
\* matter: append may delete it under the destructor's walk.  That happens
\* only when all polls were in vain and exactly DefaultSize - 1 images were
\* queued: the one append that makes list grow.
UsedAfterDeleteOnlyAtGrowth ==
    /\ ppc \in {"source", "push"} => held \in alive
    /\ upc = "free" => ImagesOf(freeList) \subseteq alive
    /\ upc = "deleteQueued" => walked < Len(list) /\ list[walked + 1] \in alive
    /\ upc \in GetPcs => ImagesOf(list) \subseteq alive
    /\ upc = "deleteQueued" /\ view = "freed" =>
           clockDown = 0 /\ count = DefaultSize - 1

\* A thread blocked on a condition has something to wait for: the producer
\* only while no image is free, the user only while no frame is ready, and
\* they never wait for each other.
NoLostWakeup ==
    /\ ppc = "pwait" /\ upc \notin FreeingPcs => freeList = <<>>
    /\ upc = "cwait" => list = <<>>
    /\ ~(ppc = "pwait" /\ upc = "cwait")

\* Every call of getNextFrameAs returns.
GetReturns == (upc \in GetPcs \cup {"starting"}) ~> (upc = "idle")

\* A destructor ends, whatever the thread was doing when it was called:
\* rendering, waiting for an image, or draining a list no one reads; unless
\* it has read a storage that was deleted.
DestructorEnds == (upc = "stop") ~> (upc \in {"gone", "undefined"})

-----------------------------------------------------------------------------
(* The queue is a FrameFifo: the frames of list are its queue, and it is   *)
(* destroyed from the moment the destructor is called.                     *)

EndedPcs == {"giveBack", "givingBack", "end", "drain", "stopping", "lastWake",
             "exited"}
QueuedFrames == [i \in 1..Len(list) |-> contents[list[i]]]
Phase == CASE upc \in DtorPcs -> "destroyed"
           [] upc \notin DtorPcs /\ ppc \in EndedPcs -> "ended"
           [] OTHER -> "open"

Fifo == INSTANCE FrameFifo WITH
            Capacity <- NBuf,
            queue <- IF upc \in DtorPcs THEN <<>> ELSE QueuedFrames,
            handed <- delivered,
            phase <- Phase,
            eof <- eof

\* The queue implements the bounded first-in first-out queue of FrameFifo.
ImplementsFrameFifo == Fifo!FifoSpec
=============================================================================
