----------------------- MODULE VideoFilterQueueProofs -----------------------
(***************************************************************************)
(* The safety properties of VideoFilterQueue, proved for every number of   *)
(* images, of frames and of polls.  The inductive invariant is built in    *)
(* layers; the proof of each layer uses the ones before it.                *)
(***************************************************************************)
EXTENDS VideoFilterQueue, SequenceTheorems, TLAPS

-----------------------------------------------------------------------------
(* The layers of the inductive invariant                                   *)

\* The destructor has not touched the vectors yet.
Untouched == upc \notin (WalkPcs \ {"free"}) \cup BasePcs
\* The destructor has not cleared list yet.
ListKept == upc \notin BasePcs
\* The destructor is deleting the queued images.
Deleting == upc \in {"nextQueued", "deleteQueued"}
\* The stop order has been given, or there was nobody to give it to.
Told == upc \in {"stopPoll"} \cup FreeingPcs

\* The producer has rendered an image and is appending it to list.
PushPcs == {"push", "growing", "pushLoad", "pushing"}
HoldingPcs == PushPcs \cup {"source", "giveBack", "givingBack"}
EndPcs == {"none", "lastWake", "exited"}

\* Where the threads are tells who owns the mutex, who is marked as waiting,
\* whether the producer holds an image, and what threadState can be.
Control ==
    /\ owner = "user" <=> upc \in {"look", "stopAsk", "baseAsk"}
    /\ owner = "producer" <=> ppc \in {"growing", "pushLoad", "pushing", "givingBack"}
    /\ prodWaiting <=> ppc \in {"pwait", "pwoken"}
    /\ consWaiting <=> upc \in {"cwait", "cwoken"}
    /\ held # NoBuffer <=> ppc \in HoldingPcs
    /\ threadState = "Idle" <=> ppc \in {"none", "spawned"}
    /\ ppc = "spawned" => upc = "starting"
    /\ threadState = "Stopped" => ppc \in {"lastWake", "exited"}
    /\ Told => threadState = "StopOrder" \/ ppc \in EndPcs
    /\ threadState = "StopOrder" => Told
    /\ started => ppc \notin {"none", "spawned"}
    /\ ~started /\ upc # "starting" => ppc = "none"
    /\ upc \in {"stopAsk", "baseAsk"} => ppc \notin {"none", "spawned"}

Distinct(l) == \A i, j \in 1..Len(l) : l[i] = l[j] => i = j
Disjoint(l, m) == \A i \in 1..Len(l), j \in 1..Len(m) : l[i] # m[j]
NotIn(b, l) == \A i \in 1..Len(l) : l[i] # b

\* An image is in one place only, and what a vector was when the producer
\* read it is what it still is.
Ownership ==
    /\ ppc = "pushing" /\ ListKept => stale = list
    /\ ppc = "givingBack" /\ Untouched => stale = freeList
    /\ ListKept => Distinct(list)
    /\ ListKept /\ held # NoBuffer => NotIn(held, list)
    /\ Untouched => /\ Distinct(freeList)
                    /\ Disjoint(list, freeList)
                    /\ held # NoBuffer => NotIn(held, freeList)
                    /\ Len(list) + Len(freeList)
                         + (IF held = NoBuffer THEN 0 ELSE 1) = NBuf
                    /\ ImagesOf(list) \cup ImagesOf(freeList)
                         \cup (IF held = NoBuffer THEN {} ELSE {held}) = Buffers

\* The frames in list are the next ones, the rendered image holds the newest.
Frames ==
    /\ \A i \in 1..Len(delivered) : delivered[i] = i
    /\ ListKept => \A i \in 1..Len(list) :
                       contents[list[i]] = Len(delivered) + i
    /\ ListKept => produced = Len(delivered) + Len(list)
                         + (IF ppc \in PushPcs THEN 1 ELSE 0)
    /\ ppc \in PushPcs => contents[held] = produced
    /\ eof => ppc \in {"lastWake", "exited"} /\ produced = Len(delivered)

\* The storage of list grows once, at the append of image number DefaultSize.
\* From the moment the destructor counts the queued images at most one more
\* is appended, and only by a thread that all polls have waited for in vain.
Storage ==
    /\ ListKept =>
         /\ capacity \in {DefaultSize, (3 * DefaultSize) \div 2}
         /\ Len(list) < capacity
         /\ Len(list) + (IF held = NoBuffer THEN 0 ELSE 1) <= NBuf
         /\ ppc \in {"growing", "pushLoad", "pushing"} => Len(list) + 1 < capacity
         /\ ppc = "growing" => Len(list) = DefaultSize - 1
    /\ upc \in WalkPcs => clockDown = 0 \/ ppc \in EndPcs
    /\ Deleting => /\ walked <= count /\ count <= Len(list)
                   /\ ppc \in PushPcs \cup {"source"} => Len(list) = count
    /\ upc = "deleteQueued" => walked < count
    /\ upc = "deleteQueued" /\ view = "freed" =>
         clockDown = 0 /\ count = DefaultSize - 1

\* What has been deleted is out of the producer's reach.
Lifetime ==
    /\ held # NoBuffer => held \in alive
    /\ ListKept /\ upc # "clearList" =>
         \A i \in 1..Len(list) : (Deleting => i > walked) => list[i] \in alive
    /\ Untouched => \A i \in 1..Len(freeList) : freeList[i] \in alive

\* A thread waits only while there is nothing for it.
Waiting ==
    /\ ppc = "pwait" /\ Untouched => freeList = <<>>
    /\ upc = "cwait" => list = <<>>

IInv ==
    TypeOK /\ Control /\ Ownership /\ Frames /\ Storage /\ Lifetime /\ Waiting

\* Names of sets of places are read as the sets they are.
USE DEF WalkPcs, BasePcs, PushPcs, EndPcs

-----------------------------------------------------------------------------
(* Types                                                                   *)

\* Every variable starts in its range.
LEMMA TypeInit == Init => TypeOK
<1> SUFFICES ASSUME Init PROVE TypeOK
  OBVIOUS
<1> USE NBufAssumption, DefaultSizeAssumption, MaxFramesAssumption,
        StopPollsAssumption
    DEF Init, TQInit, Buffers, NoBuffer, Partial
<1>1. list \in Seq(Buffers) /\ stale \in Seq(Buffers)
  OBVIOUS
<1>2. freeList \in Seq(Buffers)
  OBVIOUS
<1>3. delivered \in Seq(0..MaxFrames)
  OBVIOUS
<1>4. contents \in [Buffers -> 0..MaxFrames]
  OBVIOUS
<1>5. /\ alive \subseteq Buffers
      /\ produced \in 0..MaxFrames
      /\ clockDown \in 0..StopPolls
  OBVIOUS
<1>6. QED
  BY <1>1, <1>2, <1>3, <1>4, <1>5
     DEF TypeOK, RunState, UserPcs, GetPcs, DtorPcs, FreeingPcs, ProducerPcs

LEMMA HeadAndTail ==
  ASSUME NEW S, NEW s \in Seq(S), s # <<>>
  PROVE  Head(s) \in S /\ Tail(s) \in Seq(S)
  OBVIOUS

\* Every step keeps every variable in its range.
LEMMA TypeStep == TypeOK /\ Control /\ [Next]_tqVars => TypeOK'
<1> SUFFICES ASSUME TypeOK, Control, [Next]_tqVars PROVE TypeOK'
  OBVIOUS
<1>a. /\ list # <<>> => Head(list) \in Buffers /\ Tail(list) \in Seq(Buffers)
      /\ freeList # <<>> => Head(freeList) \in Buffers /\ Tail(freeList) \in Seq(Buffers)
  BY HeadAndTail DEF TypeOK
<1> USE NBufAssumption, MaxFramesAssumption, StopPollsAssumption
    DEF TypeOK, RunState, Buffers, NoBuffer, Partial, UserPcs, GetPcs, DtorPcs,
        FreeingPcs, ProducerPcs, lists, conds, history, memory, storage
<1>1. CASE CallGet
  BY <1>1, SMTT(30) DEF CallGet
<1>2. CASE CallDestructor
  BY <1>2 DEF CallDestructor
<1>3. CASE ThreadStarted
  BY <1>3 DEF ThreadStarted
<1>4. CASE TestRunning
  BY <1>4 DEF TestRunning
<1>5. CASE GiveStopOrder
  BY <1>5 DEF GiveStopOrder, WakeProducer
<1>6. CASE PollStopped
  BY <1>6 DEF PollStopped
<1>7. CASE Join
  BY <1>7 DEF Join
<1>8. CASE ConsumerLeavesWait
  BY <1>8, ZenonT(60) DEF ConsumerLeavesWait
<1>9. CASE GetLock
  BY <1>9 DEF GetLock
<1>10. CASE GetFrame
  <2> USE <1>10 DEF GetFrame
  <2>1. Head(list) \in Buffers /\ list' \in Seq(Buffers)
    BY <1>a
  <2>2. freeList' \in Seq(Buffers)
    BY <2>1
  <2>3. delivered' \in Seq(0..MaxFrames)
    BY <2>1
  <2>4. QED
    BY <2>1, <2>2, <2>3 DEF WakeProducer
<1>11. CASE GetNoMore
  BY <1>11 DEF GetNoMore
<1>12. CASE GetWait
  BY <1>12 DEF GetWait
<1>13. CASE DeleteFreeImages
  <2>1. alive' \subseteq Buffers
    BY <1>13 DEF DeleteFreeImages
  <2>2. QED
    BY <1>13, <2>1 DEF DeleteFreeImages
<1>14. CASE ClearFreeList
  BY <1>14 DEF ClearFreeList
<1>14a. CASE CountQueued
  BY <1>14a DEF CountQueued
<1>14b. CASE NextQueued
  BY <1>14b DEF NextQueued, Buffer
<1>15. CASE DeleteQueued
  <2>1. alive' \subseteq Buffers
    BY <1>15 DEF DeleteQueued
  <2>2. QED
    BY <1>15, <2>1 DEF DeleteQueued
<1>15a. CASE DeleteGarbage
  BY <1>15a DEF DeleteGarbage
<1>16. CASE ClearList
  BY <1>16 DEF ClearList
<1>17. CASE RunStart
  BY <1>17 DEF RunStart
<1>18. CASE RunActionDone
  BY <1>18 DEF RunActionDone
<1>19. CASE DrainPoll
  BY <1>19 DEF DrainPoll, WakeConsumer
<1>20. CASE SetStopped
  BY <1>20 DEF SetStopped
<1>21. CASE LastWakePoll
  BY <1>21 DEF LastWakePoll, WakeConsumer
<1>22. CASE ProducerLeavesWait
  BY <1>22, ZenonT(60) DEF ProducerLeavesWait
<1>23. CASE TakeFree
  <2> USE <1>23 DEF TakeFree
  <2>1. freeList # <<>> => Head(freeList) \in Buffers /\ Tail(freeList) \in Seq(Buffers)
    BY <1>a
  <2>2. freeList' \in Seq(Buffers) /\ held' \in Buffers \cup {NoBuffer}
    BY <2>1
  <2>3. contents' \in [Buffers -> 0..MaxFrames]
    <3>1. CASE contents' = contents
      BY <3>1
    <3>2. CASE /\ freeList # <<>>
               /\ contents' = [contents EXCEPT ![Head(freeList)] = Partial]
      <4>1. 0 \in 0..MaxFrames
        OBVIOUS
      <4>2. QED
        BY <3>2, <4>1, <2>1
    <3>3. QED
      BY <3>1, <3>2
  <2>4. QED
    BY <2>2, <2>3, ZenonT(60)
<1>23a. CASE SetCapacity
  <2>1. capacity' \in Nat /\ view' \in {"none", "kept", "freed"}
    BY <1>23a DEF SetCapacity, Grown
  <2>2. QED
    BY <1>23a, <2>1 DEF SetCapacity
<1>23b. CASE NewBuffer
  BY <1>23b DEF NewBuffer
<1>24. CASE PushLoad
  BY <1>24 DEF PushLoad
<1>25. CASE PushStore
  <2> USE <1>25 DEF PushStore
  <2>1. held \in Buffers
    BY DEF Control, HoldingPcs
  <2>2. list' \in Seq(Buffers)
    BY <2>1
  <2>3. stale' \in Seq(Buffers)
    OBVIOUS
  <2>4. QED
    BY <2>2, <2>3 DEF WakeConsumer
<1>26. CASE GiveBackLoad
  BY <1>26 DEF GiveBackLoad
<1>27. CASE GiveBackStore
  <2> USE <1>27 DEF GiveBackStore
  <2>1. held \in Buffers
    BY DEF Control, HoldingPcs
  <2>2. freeList' \in Seq(Buffers)
    BY <2>1
  <2>3. stale' \in Seq(Buffers)
    OBVIOUS
  <2>4. QED
    BY <2>2, <2>3
<1>28. CASE SourceFrame
  <2> USE <1>28 DEF SourceFrame
  <2>1. produced' \in 0..MaxFrames
    OBVIOUS
  <2>2. contents' \in [Buffers -> 0..MaxFrames]
    BY <2>1 DEF Control, HoldingPcs
  <2>3. QED
    BY <2>1, <2>2
<1>29. CASE SourceEnd
  BY <1>29 DEF SourceEnd
<1>30. CASE SpuriousWakeProducer
  BY <1>30 DEF SpuriousWakeProducer
<1>31. CASE SpuriousWakeConsumer
  BY <1>31 DEF SpuriousWakeConsumer
<1>32. CASE UNCHANGED tqVars
  BY <1>32 DEF tqVars
<1>33. QED
  BY <1>1, <1>2, <1>3, <1>4, <1>5, <1>6, <1>7, <1>8, <1>9, <1>10, <1>11, <1>12, <1>13, <1>14, <1>14a, <1>14b, <1>15, <1>15a, <1>16, <1>17, <1>18, <1>19, <1>20, <1>21, <1>22, <1>23, <1>23a, <1>23b, <1>24, <1>25, <1>26, <1>27, <1>28, <1>29, <1>30, <1>31, <1>32 DEF Next, UserStep, ProducerStep, Source, Spurious,
     Getter, DeleteImages, Done

-----------------------------------------------------------------------------
(* Control                                                                 *)

\* The threads start with nobody inside the mutex and nobody waiting.
LEMMA ControlInit == Init => Control
  BY DEF Init, TQInit, Control, Told, FreeingPcs, HoldingPcs, NoBuffer

\* Every step keeps the mutex, the waiting flags and threadState in line with
\* where the threads are.
LEMMA ControlStep == TypeOK /\ Control /\ [Next]_tqVars => Control'
<1> SUFFICES ASSUME TypeOK, Control, [Next]_tqVars PROVE Control'
  OBVIOUS
<1> USE NBufAssumption
    DEF TypeOK, RunState, Buffers, NoBuffer, Partial, UserPcs, GetPcs, DtorPcs,
        FreeingPcs, HoldingPcs, ProducerPcs, Told, Control, lists, conds,
        history, memory, storage
<1>1. CASE CallGet
  BY <1>1 DEF CallGet
<1>2. CASE CallDestructor
  BY <1>2 DEF CallDestructor
<1>3. CASE ThreadStarted
  BY <1>3 DEF ThreadStarted
<1>4. CASE TestRunning
  BY <1>4 DEF TestRunning
<1>5. CASE GiveStopOrder
  BY <1>5 DEF GiveStopOrder, WakeProducer
<1>6. CASE PollStopped
  BY <1>6 DEF PollStopped
<1>7. CASE Join
  BY <1>7 DEF Join
<1>8. CASE ConsumerLeavesWait
  BY <1>8 DEF ConsumerLeavesWait
<1>9. CASE GetLock
  BY <1>9 DEF GetLock
<1>10. CASE GetFrame
  BY <1>10 DEF GetFrame, WakeProducer
<1>11. CASE GetNoMore
  BY <1>11 DEF GetNoMore
<1>12. CASE GetWait
  BY <1>12 DEF GetWait
<1>13. CASE DeleteFreeImages
  BY <1>13 DEF DeleteFreeImages
<1>14. CASE ClearFreeList
  BY <1>14 DEF ClearFreeList
<1>14a. CASE CountQueued
  BY <1>14a DEF CountQueued
<1>14b. CASE NextQueued
  BY <1>14b DEF NextQueued
<1>15. CASE DeleteQueued
  BY <1>15 DEF DeleteQueued
<1>15a. CASE DeleteGarbage
  BY <1>15a DEF DeleteGarbage
<1>16. CASE ClearList
  BY <1>16 DEF ClearList
<1>17. CASE RunStart
  BY <1>17 DEF RunStart
<1>18. CASE RunActionDone
  BY <1>18 DEF RunActionDone
<1>19. CASE DrainPoll
  BY <1>19 DEF DrainPoll, WakeConsumer
<1>20. CASE SetStopped
  BY <1>20 DEF SetStopped
<1>21. CASE LastWakePoll
  BY <1>21 DEF LastWakePoll, WakeConsumer
<1>22. CASE ProducerLeavesWait
  BY <1>22 DEF ProducerLeavesWait
<1>23. CASE TakeFree
  <2>1. CASE threadState = "StopOrder" \/ freeList = <<>>
    BY <1>23, <2>1 DEF TakeFree
  <2>2. CASE threadState # "StopOrder" /\ freeList # <<>>
    <3>1. held' \in Buffers
      BY <1>23, <2>2 DEF TakeFree
    <3>2. held' # NoBuffer /\ ppc' = "source" /\ ppc = "loop"
      BY <1>23, <2>2, <3>1 DEF TakeFree
    <3>3. UNCHANGED <<threadState, started, owner, prodWaiting, consWaiting, upc>>
      BY <1>23, <2>2 DEF TakeFree
    <3> HIDE DEF TypeOK
    <3>4. QED
      BY <3>2, <3>3
  <2>3. QED
    BY <2>1, <2>2
<1>23a. CASE SetCapacity
  BY <1>23a DEF SetCapacity
<1>23b. CASE NewBuffer
  BY <1>23b DEF NewBuffer
<1>24. CASE PushLoad
  BY <1>24 DEF PushLoad
<1>25. CASE PushStore
  BY <1>25 DEF PushStore, WakeConsumer
<1>26. CASE GiveBackLoad
  BY <1>26 DEF GiveBackLoad
<1>27. CASE GiveBackStore
  BY <1>27 DEF GiveBackStore
<1>28. CASE SourceFrame
  BY <1>28 DEF SourceFrame
<1>29. CASE SourceEnd
  BY <1>29 DEF SourceEnd
<1>30. CASE SpuriousWakeProducer
  BY <1>30 DEF SpuriousWakeProducer
<1>31. CASE SpuriousWakeConsumer
  BY <1>31 DEF SpuriousWakeConsumer
<1>32. CASE UNCHANGED tqVars
  BY <1>32 DEF tqVars
<1>33. QED
  BY <1>1, <1>2, <1>3, <1>4, <1>5, <1>6, <1>7, <1>8, <1>9, <1>10, <1>11, <1>12, <1>13, <1>14, <1>14a, <1>14b, <1>15, <1>15a, <1>16, <1>17, <1>18, <1>19, <1>20, <1>21, <1>22, <1>23, <1>23a, <1>23b, <1>24, <1>25, <1>26, <1>27, <1>28, <1>29, <1>30, <1>31, <1>32 DEF Next, UserStep, ProducerStep, Source, Spurious,
     Getter, DeleteImages, Done

-----------------------------------------------------------------------------
(* Vectors: what append and popFront do to membership                      *)

\* Appending an image adds it to those a vector points to.
LEMMA ImagesOfAppend ==
  ASSUME NEW S, NEW l \in Seq(S), NEW b \in S
  PROVE  ImagesOf(Append(l, b)) = ImagesOf(l) \cup {b}
<1>1. DOMAIN Append(l, b) = 1..(Len(l) + 1) /\ DOMAIN l = 1..Len(l) /\ Len(l) \in Nat
  OBVIOUS
<1>2. \A i \in 1..Len(l) : Append(l, b)[i] = l[i]
  OBVIOUS
<1>3. Append(l, b)[Len(l) + 1] = b
  OBVIOUS
<1>4. ImagesOf(Append(l, b)) \subseteq ImagesOf(l) \cup {b}
  BY <1>1, <1>2, <1>3 DEF ImagesOf
<1>5. ImagesOf(l) \subseteq ImagesOf(Append(l, b))
  <2>1. \A i \in 1..Len(l) : i \in 1..(Len(l) + 1)
    BY <1>1
  <2>2. QED
    BY <2>1, <1>1, <1>2 DEF ImagesOf
<1>6. b \in ImagesOf(Append(l, b))
  <2>1. Len(l) + 1 \in 1..(Len(l) + 1)
    BY <1>1
  <2>2. QED
    BY <2>1, <1>1, <1>3 DEF ImagesOf
<1>7. QED
  BY <1>4, <1>5, <1>6

\* popFront removes the first one.
LEMMA ImagesOfTail ==
  ASSUME NEW S, NEW l \in Seq(S), l # <<>>
  PROVE  ImagesOf(l) = {Head(l)} \cup ImagesOf(Tail(l))
<1>1. ImagesOf(l) \subseteq {Head(l)} \cup ImagesOf(Tail(l))
  <2> SUFFICES ASSUME NEW i \in 1..Len(l), l[i] # Head(l)
               PROVE  l[i] \in ImagesOf(Tail(l))
    BY DEF ImagesOf
  <2>1. i - 1 \in 1..Len(Tail(l)) /\ Tail(l)[i - 1] = l[i]
    OBVIOUS
  <2>2. DOMAIN Tail(l) = 1..Len(Tail(l))
    OBVIOUS
  <2>3. QED
    BY <2>1, <2>2 DEF ImagesOf
<1>2. {Head(l)} \cup ImagesOf(Tail(l)) \subseteq ImagesOf(l)
  <2>1. Head(l) = l[1] /\ 1 \in DOMAIN l
    OBVIOUS
  <2>2. \A i \in 1..Len(Tail(l)) : Tail(l)[i] = l[i + 1] /\ i + 1 \in DOMAIN l
    OBVIOUS
  <2>3. QED
    BY <2>1, <2>2 DEF ImagesOf
<1>3. QED
  BY <1>1, <1>2

\* append adds its argument at the end and nothing else.
LEMMA AppendAt ==
  ASSUME NEW S, NEW l \in Seq(S), NEW b \in S
  PROVE  /\ Len(Append(l, b)) = Len(l) + 1
         /\ \A i \in 1..Len(l) : Append(l, b)[i] = l[i]
         /\ Append(l, b)[Len(l) + 1] = b
  OBVIOUS

\* A vector of distinct images stays one when a foreign image is appended.
LEMMA AppendKeeps ==
  ASSUME NEW S, NEW l \in Seq(S), NEW m \in Seq(S), NEW b \in S, NEW c,
         NotIn(b, l)
  PROVE  /\ Distinct(l) => Distinct(Append(l, b))
         /\ NotIn(b, m) /\ Disjoint(l, m) => Disjoint(Append(l, b), m)
         /\ NotIn(b, m) /\ Disjoint(m, l) => Disjoint(m, Append(l, b))
         /\ c # b /\ NotIn(c, l) => NotIn(c, Append(l, b))
<1>1. Len(Append(l, b)) = Len(l) + 1 /\ Len(l) \in Nat
  OBVIOUS
<1>2. \A i \in 1..Len(l) : Append(l, b)[i] = l[i]
  OBVIOUS
<1>3. Append(l, b)[Len(l) + 1] = b
  OBVIOUS
<1>4. QED
  BY <1>1, <1>2, <1>3 DEF Distinct, Disjoint, NotIn

\* popFront keeps a vector of distinct images one, without its first image.
LEMMA TailKeeps ==
  ASSUME NEW S, NEW l \in Seq(S), NEW m \in Seq(S), NEW c, l # <<>>
  PROVE  /\ Distinct(l) => Distinct(Tail(l)) /\ NotIn(Head(l), Tail(l))
         /\ Disjoint(l, m) => Disjoint(Tail(l), m) /\ NotIn(Head(l), m)
         /\ Disjoint(m, l) => Disjoint(m, Tail(l)) /\ NotIn(Head(l), m)
         /\ NotIn(c, l) => NotIn(c, Tail(l)) /\ c # Head(l)
<1>1. Len(Tail(l)) = Len(l) - 1 /\ Len(l) \in Nat \ {0}
  OBVIOUS
<1>2. \A i \in 1..Len(Tail(l)) : Tail(l)[i] = l[i + 1]
  OBVIOUS
<1>3. Head(l) = l[1]
  OBVIOUS
<1>4. QED
  BY <1>1, <1>2, <1>3 DEF Distinct, Disjoint, NotIn

-----------------------------------------------------------------------------
(* Ownership                                                               *)

\* At first every image is in freeList.
LEMMA OwnershipInit == Init => Ownership
<1> SUFFICES ASSUME Init PROVE Ownership
  OBVIOUS
<1> USE NBufAssumption DEF Init, TQInit, NoBuffer
<1>1. Len(freeList) = NBuf /\ \A i \in 1..NBuf : freeList[i] = i
  OBVIOUS
<1>2. Distinct(list) /\ Distinct(freeList) /\ Disjoint(list, freeList)
  BY <1>1 DEF Distinct, Disjoint
<1>3. ImagesOf(list) = {} /\ ImagesOf(freeList) = Buffers
  BY DEF ImagesOf, Buffers
<1>4. /\ Len(list) = 0 /\ NBuf \in Nat /\ held = NoBuffer
      /\ ppc = "none" /\ upc = "idle"
  OBVIOUS
<1> HIDE DEF Init, TQInit
<1>5. QED
  BY <1>1, <1>2, <1>3, <1>4 DEF Ownership, Untouched

\* Every step keeps each image in one place.
LEMMA OwnershipStep == TypeOK /\ Control /\ Ownership /\ [Next]_tqVars => Ownership'
<1> SUFFICES ASSUME TypeOK, Control, Ownership, [Next]_tqVars PROVE Ownership'
  OBVIOUS
<1> USE NBufAssumption
    DEF Ownership, Untouched, ListKept, lists, conds, history, memory, storage
<1>a. list \in Seq(Buffers) /\ freeList \in Seq(Buffers) /\ stale \in Seq(Buffers)
  BY DEF TypeOK
<1>b. held # NoBuffer => held \in Buffers
  BY DEF TypeOK
<1>1. CASE CallGet
  BY <1>1 DEF CallGet
<1>2. CASE CallDestructor
  BY <1>2 DEF CallDestructor
<1>3. CASE ThreadStarted
  BY <1>3 DEF ThreadStarted
<1>4. CASE TestRunning
  BY <1>4 DEF TestRunning
<1>5. CASE GiveStopOrder
  BY <1>5 DEF GiveStopOrder, WakeProducer
<1>6. CASE PollStopped
  BY <1>6 DEF PollStopped
<1>7. CASE Join
  BY <1>7 DEF Join
<1>8. CASE ConsumerLeavesWait
  BY <1>8 DEF ConsumerLeavesWait
<1>9. CASE GetLock
  BY <1>9 DEF GetLock
<1>10. CASE GetFrame
  <2> DEFINE b == Head(list)
  <2> USE <1>10 DEF GetFrame
  <2>1. ppc' \notin {"pushing", "givingBack"}
    BY DEF Control, WakeProducer
  <2>2. upc = "look" /\ upc' = "idle" /\ held' = held
    OBVIOUS
  <2>3. b \in Buffers /\ list' = Tail(list) /\ freeList' = Append(freeList, b)
    BY <1>a
  <2>4. Distinct(list') /\ NotIn(b, list') /\ Disjoint(list', freeList) /\ NotIn(b, freeList)
    BY <1>a, <2>2, <2>3, TailKeeps
  <2>5. Distinct(freeList') /\ Disjoint(list', freeList')
    <3>1. list' \in Seq(Buffers)
      BY <1>a, <2>3
    <3>2. Distinct(freeList)
      BY <2>2
    <3> HIDE <1>10 DEF GetFrame, b
    <3>3. QED
      BY <1>a, <2>3, <2>4, <3>1, <3>2, AppendKeeps
  <2>6. held # NoBuffer => NotIn(held, list') /\ NotIn(held, freeList')
    <3>1. held # NoBuffer => NotIn(held, list') /\ held # b
      BY <1>a, <2>2, <2>3, TailKeeps
    <3>2. QED
      BY <1>a, <2>2, <2>3, <2>4, <3>1, AppendKeeps
  <2>7. Len(list') = Len(list) - 1 /\ Len(freeList') = Len(freeList) + 1
    BY <1>a
  <2>8. ImagesOf(list') \cup ImagesOf(freeList') = ImagesOf(list) \cup ImagesOf(freeList)
    BY <1>a, <2>3, ImagesOfTail, ImagesOfAppend
  <2>9. Len(list) \in Nat /\ Len(freeList) \in Nat
    BY <1>a
  <2> HIDE <1>10 DEF GetFrame, b
  <2>10. QED
    BY <2>1, <2>2, <2>4, <2>5, <2>6, <2>7, <2>8, <2>9
<1>11. CASE GetNoMore
  BY <1>11 DEF GetNoMore
<1>12. CASE GetWait
  BY <1>12 DEF GetWait
<1>13. CASE DeleteFreeImages
  BY <1>13 DEF DeleteFreeImages
<1>14. CASE ClearFreeList
  BY <1>14 DEF ClearFreeList
<1>14a. CASE CountQueued
  BY <1>14a DEF CountQueued
<1>14b. CASE NextQueued
  BY <1>14b DEF NextQueued
<1>15. CASE DeleteQueued
  BY <1>15 DEF DeleteQueued
<1>15a. CASE DeleteGarbage
  BY <1>15a DEF DeleteGarbage
<1>16. CASE ClearList
  BY <1>16 DEF ClearList, Control, HoldingPcs
<1>17. CASE RunStart
  BY <1>17 DEF RunStart
<1>18. CASE RunActionDone
  BY <1>18 DEF RunActionDone
<1>19. CASE DrainPoll
  BY <1>19 DEF DrainPoll, WakeConsumer
<1>20. CASE SetStopped
  BY <1>20 DEF SetStopped
<1>21. CASE LastWakePoll
  BY <1>21 DEF LastWakePoll, WakeConsumer
<1>22. CASE ProducerLeavesWait
  BY <1>22 DEF ProducerLeavesWait
<1>23. CASE TakeFree
  <2> USE <1>23 DEF TakeFree
  <2>1. CASE UNCHANGED <<freeList, held>>
    BY <2>1, ppc' \in {"end", "pwait"} \/ ppc' = "source"
  <2>2. CASE freeList # <<>> /\ held' = Head(freeList)
             /\ freeList' = Tail(freeList) /\ threadState # "StopOrder"
    <3>1. held = NoBuffer /\ ppc' = "source" /\ list' = list /\ upc' = upc
      BY <2>2 DEF Control, HoldingPcs
    <3>2. held' \in Buffers /\ held' # NoBuffer
      BY <1>a, <2>2 DEF Buffers, NoBuffer
    <3>3. Untouched
      BY <2>2 DEF Control, Told, FreeingPcs
    <3>4. Distinct(freeList') /\ NotIn(held', freeList')
          /\ Disjoint(list, freeList') /\ NotIn(held', list)
      BY <1>a, <2>2, <3>3, TailKeeps
    <3>5. ImagesOf(freeList) = {held'} \cup ImagesOf(freeList')
      BY <1>a, <2>2, ImagesOfTail
    <3>6. Len(freeList') = Len(freeList) - 1 /\ Len(list) \in Nat /\ Len(freeList) \in Nat
      BY <1>a, <2>2
    <3> HIDE <1>23 DEF TakeFree
    <3>7. QED
      BY <3>1, <3>2, <3>3, <3>4, <3>5, <3>6
  <2>3. QED
    BY <2>1, <2>2
<1>23a. CASE SetCapacity
  BY <1>23a DEF SetCapacity
<1>23b. CASE NewBuffer
  BY <1>23b DEF NewBuffer
<1>24. CASE PushLoad
  BY <1>24 DEF PushLoad
<1>25. CASE PushStore
  <2> USE <1>25 DEF PushStore
  <2>1. held \in Buffers /\ held # NoBuffer
    BY <1>b DEF Control, HoldingPcs
  <2>2. /\ held' = NoBuffer /\ ppc' = "loop" /\ freeList' = freeList
        /\ ListKept' = ListKept /\ Untouched' = Untouched
        /\ list' = Append(stale, held)
    BY DEF WakeConsumer
  <2>3. ListKept => list' = Append(list, held)
    BY <2>2
  <2>4. ListKept => Distinct(list')
    BY <1>a, <2>1, <2>3, AppendKeeps
  <2>5. Untouched => Disjoint(list', freeList)
    BY <1>a, <2>1, <2>3, AppendKeeps
  <2>6. Untouched => Len(list') = Len(list) + 1 /\ Len(list) \in Nat /\ Len(freeList) \in Nat
    BY <1>a, <2>1, <2>3
  <2>7. Untouched => ImagesOf(list') = ImagesOf(list) \cup {held}
    BY <1>a, <2>1, <2>3, ImagesOfAppend
  <2> HIDE <1>25 DEF PushStore
  <2>8. QED
    BY <2>1, <2>2, <2>4, <2>5, <2>6, <2>7
<1>26. CASE GiveBackLoad
  BY <1>26 DEF GiveBackLoad
<1>27. CASE GiveBackStore
  <2> USE <1>27 DEF GiveBackStore
  <2>1. held \in Buffers /\ held # NoBuffer
    BY <1>b DEF Control, HoldingPcs
  <2>2. /\ held' = NoBuffer /\ ppc' = "end" /\ list' = list /\ upc' = upc
        /\ freeList' = Append(stale, held)
    OBVIOUS
  <2>3. Untouched => freeList' = Append(freeList, held)
    BY <2>2
  <2>4. Untouched => Distinct(freeList') /\ Disjoint(list, freeList')
    BY <1>a, <2>1, <2>3, AppendKeeps
  <2>5. Untouched => Len(freeList') = Len(freeList) + 1 /\ Len(list) \in Nat /\ Len(freeList) \in Nat
    BY <1>a, <2>1, <2>3
  <2>6. Untouched => ImagesOf(freeList') = ImagesOf(freeList) \cup {held}
    BY <1>a, <2>1, <2>3, ImagesOfAppend
  <2> HIDE <1>27 DEF GiveBackStore
  <2>7. QED
    BY <2>1, <2>2, <2>4, <2>5, <2>6
<1>28. CASE SourceFrame
  BY <1>28 DEF SourceFrame
<1>29. CASE SourceEnd
  BY <1>29 DEF SourceEnd
<1>30. CASE SpuriousWakeProducer
  BY <1>30 DEF SpuriousWakeProducer
<1>31. CASE SpuriousWakeConsumer
  BY <1>31 DEF SpuriousWakeConsumer
<1>32. CASE UNCHANGED tqVars
  BY <1>32 DEF tqVars
<1>33. QED
  BY <1>1, <1>2, <1>3, <1>4, <1>5, <1>6, <1>7, <1>8, <1>9, <1>10,
     <1>11, <1>12, <1>13, <1>14, <1>14a, <1>14b, <1>15, <1>15a, <1>16, <1>17, <1>18, <1>19,
     <1>20, <1>21, <1>22, <1>23, <1>23a, <1>23b, <1>24, <1>25, <1>26, <1>27, <1>28,
     <1>29, <1>30, <1>31, <1>32
     DEF Next, UserStep, ProducerStep, Source, Spurious, Getter,
         DeleteImages, Done

-----------------------------------------------------------------------------
(* Frames                                                                  *)

\* At first nothing has been rendered.
LEMMA FramesInit == Init => Frames
  BY DEF Init, TQInit, Frames

\* Every step keeps the queued frames the next ones, complete and in order.
LEMMA FramesStep ==
  TypeOK /\ Control /\ Ownership /\ Frames /\ [Next]_tqVars => Frames'
<1> SUFFICES ASSUME TypeOK, Control, Ownership, Frames, [Next]_tqVars
             PROVE  Frames'
  OBVIOUS
<1> USE DEF Frames, ListKept, lists, conds, history, memory, storage
<1>a. /\ list \in Seq(Buffers) /\ freeList \in Seq(Buffers)
      /\ delivered \in Seq(0..MaxFrames) /\ contents \in [Buffers -> 0..MaxFrames]
      /\ produced \in Nat /\ Len(list) \in Nat /\ Len(delivered) \in Nat
  BY MaxFramesAssumption DEF TypeOK
<1>b. held # NoBuffer => held \in Buffers
  BY DEF TypeOK
<1>1. CASE CallGet
  BY <1>1 DEF CallGet, Control
<1>2. CASE CallDestructor
  BY <1>2 DEF CallDestructor
<1>3. CASE ThreadStarted
  BY <1>3 DEF ThreadStarted
<1>4. CASE TestRunning
  BY <1>4 DEF TestRunning
<1>5. CASE GiveStopOrder
  BY <1>5 DEF GiveStopOrder, WakeProducer
<1>6. CASE PollStopped
  BY <1>6 DEF PollStopped
<1>7. CASE Join
  BY <1>7 DEF Join
<1>8. CASE ConsumerLeavesWait
  BY <1>8 DEF ConsumerLeavesWait
<1>9. CASE GetLock
  BY <1>9 DEF GetLock
<1>10. CASE GetFrame
  <2> USE <1>10 DEF GetFrame
  <2>1. /\ ListKept /\ contents' = contents /\ produced' = produced /\ eof' = eof
        /\ held' = held /\ upc' = "idle"
    OBVIOUS
  <2>2. /\ Len(list') = Len(list) - 1
        /\ \A i \in 1..Len(list') : list'[i] = list[i + 1]
        /\ Head(list) = list[1] /\ Len(list) > 0
    BY <1>a
  <2>3. contents[Head(list)] = Len(delivered) + 1
    BY <1>a, <2>1, <2>2
  <2>4. /\ Len(delivered') = Len(delivered) + 1
        /\ \A i \in 1..Len(delivered) : delivered'[i] = delivered[i]
        /\ delivered'[Len(delivered) + 1] = Len(delivered) + 1
    BY <1>a, <2>3
  <2>5. ppc' \in PushPcs <=> ppc \in PushPcs
    BY DEF WakeProducer
  <2>6. ~eof
    BY <1>a, <2>1, <2>2
  <2> HIDE <1>10 DEF GetFrame
  <2>7. \A i \in 1..Len(delivered') : delivered'[i] = i
    BY <1>a, <2>4
  <2>8. \A i \in 1..Len(list') : contents[list'[i]] = Len(delivered') + i
    <3> TAKE i \in 1..Len(list')
    <3>1. i + 1 \in 1..Len(list) /\ list'[i] = list[i + 1]
      <4>1. list'[i] = list[i + 1]
        BY <2>2
      <4>2. Len(list) \in Nat
        BY <1>a
      <4>3. QED
        BY <2>2, <4>1, <4>2
    <3>2. contents[list[i + 1]] = Len(delivered) + (i + 1)
      <4>1. \A k \in 1..Len(list) : contents[list[k]] = Len(delivered) + k
        BY <2>1
      <4> QED BY <3>1, <4>1
    <3>3. QED
      BY <1>a, <2>4, <3>1, <3>2
  <2>9. produced = Len(delivered') + Len(list') + (IF ppc' \in PushPcs THEN 1 ELSE 0)
    BY <1>a, <2>1, <2>2, <2>4, <2>5
  <2>10. QED
    BY <2>1, <2>5, <2>6, <2>7, <2>8, <2>9
<1>11. CASE GetNoMore
  <2>1. ListKept /\ ppc \in {"lastWake", "exited"} /\ Len(list) = 0
    BY <1>11 DEF GetNoMore, Control
  <2>2. produced = Len(delivered)
    BY <1>a, <2>1
  <2>3. QED
    BY <1>11, <2>1, <2>2 DEF GetNoMore
<1>12. CASE GetWait
  BY <1>12 DEF GetWait
<1>13. CASE DeleteFreeImages
  BY <1>13 DEF DeleteFreeImages
<1>14. CASE ClearFreeList
  BY <1>14 DEF ClearFreeList
<1>14a. CASE CountQueued
  BY <1>14a DEF CountQueued
<1>14b. CASE NextQueued
  BY <1>14b DEF NextQueued
<1>15. CASE DeleteQueued
  BY <1>15 DEF DeleteQueued
<1>15a. CASE DeleteGarbage
  BY <1>15a DEF DeleteGarbage
<1>16. CASE ClearList
  BY <1>16 DEF ClearList
<1>17. CASE RunStart
  BY <1>17 DEF RunStart
<1>18. CASE RunActionDone
  BY <1>18 DEF RunActionDone
<1>19. CASE DrainPoll
  BY <1>19 DEF DrainPoll, WakeConsumer
<1>20. CASE SetStopped
  BY <1>20 DEF SetStopped
<1>21. CASE LastWakePoll
  BY <1>21 DEF LastWakePoll, WakeConsumer
<1>22. CASE ProducerLeavesWait
  BY <1>22 DEF ProducerLeavesWait
<1>23. CASE TakeFree
  <2> USE <1>23 DEF TakeFree
  <2>1. CASE UNCHANGED contents
    BY <2>1
  <2>2. CASE freeList # <<>> /\ threadState # "StopOrder" /\ ppc' = "source"
             /\ contents' = [contents EXCEPT ![Head(freeList)] = Partial]
    <3>1. Untouched
      BY <2>2 DEF Untouched, Control, Told, FreeingPcs
    <3>2. NotIn(Head(freeList), list)
      BY <1>a, <2>2, <3>1, TailKeeps DEF Ownership
    <3>3. \A i \in 1..Len(list) : contents'[list[i]] = contents[list[i]]
      BY <1>a, <2>2, <3>2 DEF NotIn
    <3>4. /\ list' = list /\ delivered' = delivered /\ produced' = produced
          /\ eof' = eof /\ upc' = upc /\ ppc = "loop"
      OBVIOUS
    <3> HIDE <1>23 DEF TakeFree
    <3>5. QED
      BY <2>2, <3>3, <3>4
  <2>3. QED
    BY <2>1, <2>2
<1>23a. CASE SetCapacity
  BY <1>23a DEF SetCapacity
<1>23b. CASE NewBuffer
  BY <1>23b DEF NewBuffer
<1>24. CASE PushLoad
  BY <1>24 DEF PushLoad
<1>25. CASE PushStore
  <2> USE <1>25 DEF PushStore
  <2>1. held \in Buffers /\ held # NoBuffer
    BY <1>b DEF Control, HoldingPcs
  <2>2. /\ ppc = "pushing" /\ ppc' = "loop" /\ contents' = contents
        /\ produced' = produced /\ delivered' = delivered /\ eof' = eof
        /\ ListKept' = ListKept /\ contents[held] = produced
    BY DEF WakeConsumer
  <2>3. ListKept => list' = Append(list, held)
    BY DEF Ownership
  <2>4. ListKept => /\ Len(list') = Len(list) + 1
                    /\ \A i \in 1..Len(list) : list'[i] = list[i]
                    /\ list'[Len(list) + 1] = held
    <3>1. list \in Seq(Buffers)
      BY <1>a
    <3> HIDE <1>25 DEF PushStore, ListKept, Frames
    <3>2. /\ Len(Append(list, held)) = Len(list) + 1
          /\ \A i \in 1..Len(list) : Append(list, held)[i] = list[i]
          /\ Append(list, held)[Len(list) + 1] = held
      BY <2>1, <3>1, AppendAt
    <3>3. QED
      BY <2>3, <3>2
  <2> HIDE <1>25 DEF PushStore
  <2>5. ListKept => produced = Len(delivered) + Len(list) + 1
    BY <2>2
  <2>6. ListKept => \A i \in 1..Len(list') : contents[list'[i]] = Len(delivered) + i
    <3> SUFFICES ASSUME ListKept, NEW i \in 1..Len(list')
                 PROVE  contents[list'[i]] = Len(delivered) + i
      OBVIOUS
    <3>1. CASE i \in 1..Len(list)
      BY <2>4, <3>1
    <3>2. CASE i = Len(list) + 1
      BY <1>a, <2>2, <2>4, <2>5, <3>2
    <3>3. QED
      BY <1>a, <2>4, <3>1, <3>2
  <2>7. ListKept => produced = Len(delivered) + Len(list')
    BY <1>a, <2>4, <2>5
  <2>8. QED
    BY <2>2, <2>6, <2>7
<1>26. CASE GiveBackLoad
  BY <1>26 DEF GiveBackLoad
<1>27. CASE GiveBackStore
  BY <1>27 DEF GiveBackStore
<1>28. CASE SourceFrame
  <2> USE <1>28 DEF SourceFrame
  <2>1. held \in Buffers /\ held # NoBuffer
    BY <1>b DEF Control, HoldingPcs
  <2>2. ListKept => NotIn(held, list)
    BY <2>1 DEF Ownership
  <2>3. ListKept => \A i \in 1..Len(list) : contents'[list[i]] = contents[list[i]]
    BY <1>a, <2>2 DEF NotIn
  <2>4. contents'[held] = produced'
    BY <1>a, <2>1
  <2>5. /\ list' = list /\ delivered' = delivered /\ produced' = produced + 1
        /\ eof' = eof /\ upc' = upc /\ ppc = "source" /\ ppc' = "push"
        /\ held' = held
    OBVIOUS
  <2> HIDE <1>28 DEF SourceFrame
  <2>6. ListKept => produced' = Len(delivered) + Len(list) + 1
    BY <1>a, <2>5
  <2>7. ~eof
    BY <2>5
  <2>8. QED
    BY <2>3, <2>4, <2>5, <2>6, <2>7
<1>29. CASE SourceEnd
  BY <1>29 DEF SourceEnd
<1>30. CASE SpuriousWakeProducer
  BY <1>30 DEF SpuriousWakeProducer
<1>31. CASE SpuriousWakeConsumer
  BY <1>31 DEF SpuriousWakeConsumer
<1>32. CASE UNCHANGED tqVars
  BY <1>32 DEF tqVars
<1>33. QED
  BY <1>1, <1>2, <1>3, <1>4, <1>5, <1>6, <1>7, <1>8, <1>9, <1>10,
     <1>11, <1>12, <1>13, <1>14, <1>14a, <1>14b, <1>15, <1>15a, <1>16, <1>17, <1>18, <1>19,
     <1>20, <1>21, <1>22, <1>23, <1>23a, <1>23b, <1>24, <1>25, <1>26, <1>27, <1>28,
     <1>29, <1>30, <1>31, <1>32
     DEF Next, UserStep, ProducerStep, Source, Spurious, Getter,
         DeleteImages, Done

-----------------------------------------------------------------------------
(* Storage                                                                 *)

\* The new list has room for more than one element.
LEMMA StorageInit == Init => Storage
<1> SUFFICES ASSUME Init PROVE Storage
  OBVIOUS
<1>1. /\ Len(list) = 0 /\ capacity = DefaultSize /\ held = NoBuffer
      /\ ppc = "none" /\ upc = "idle"
  BY DEF Init, TQInit
<1>2. QED
  BY <1>1, NBufAssumption, DefaultSizeAssumption DEF Storage, Deleting

\* Every step keeps list within its storage, and lets it grow at one append
\* only.
LEMMA StorageStep ==
  TypeOK /\ Control /\ Ownership /\ Storage /\ [Next]_tqVars => Storage'
<1> SUFFICES ASSUME TypeOK, Control, Ownership, Storage, [Next]_tqVars
             PROVE  Storage'
  OBVIOUS
<1> USE NBufAssumption, DefaultSizeAssumption
    DEF Storage, ListKept, Deleting, lists, conds, history, memory, storage
<1>a. /\ list \in Seq(Buffers) /\ freeList \in Seq(Buffers) /\ stale \in Seq(Buffers)
      /\ Len(list) \in Nat /\ Len(freeList) \in Nat /\ capacity \in Nat
      /\ count \in Nat /\ walked \in Nat
  BY DEF TypeOK
<1>b. held # NoBuffer => held \in Buffers
  BY DEF TypeOK
<1>1. CASE CallGet
  BY <1>1, <1>a DEF CallGet
<1>2. CASE CallDestructor
  BY <1>2, <1>a DEF CallDestructor
<1>3. CASE ThreadStarted
  BY <1>3, <1>a DEF ThreadStarted
<1>4. CASE TestRunning
  <2>1. upc = "stop" /\ upc' = "free" => ppc \in EndPcs
    BY <1>4 DEF TestRunning, TypeOK, RunState, Control, Told, FreeingPcs
  <2>2. QED
    BY <1>4, <2>1 DEF TestRunning
<1>5. CASE GiveStopOrder
  BY <1>5, <1>a DEF GiveStopOrder, WakeProducer
<1>6. CASE PollStopped
  <2>1. upc' = "free" => clockDown' = 0 \/ ppc \in EndPcs
    BY <1>6, StopPollsAssumption DEF PollStopped, TypeOK, Control
  <2>2. QED
    BY <1>6, <2>1 DEF PollStopped
<1>7. CASE Join
  BY <1>7, <1>a DEF Join
<1>8. CASE ConsumerLeavesWait
  BY <1>8, <1>a DEF ConsumerLeavesWait
<1>9. CASE GetLock
  BY <1>9, <1>a DEF GetLock
<1>10. CASE GetFrame
  <2>1. /\ Len(list') = Len(list) - 1 /\ Len(list) > 0 /\ capacity' = capacity
        /\ held' = held /\ upc = "look" /\ upc' = "idle"
        /\ ppc' = ppc \/ ppc' = "pwoken"
    BY <1>10, <1>a DEF GetFrame, WakeProducer
  <2>2. ppc \notin {"growing", "pushLoad", "pushing"}
    BY <2>1 DEF Control
  <2>3. QED
    BY <1>a, <2>1, <2>2
<1>11. CASE GetNoMore
  BY <1>11, <1>a DEF GetNoMore
<1>12. CASE GetWait
  BY <1>12, <1>a DEF GetWait
<1>13. CASE DeleteFreeImages
  BY <1>13, <1>a DEF DeleteFreeImages
<1>14. CASE ClearFreeList
  BY <1>14, <1>a DEF ClearFreeList
<1>15. CASE CountQueued
  BY <1>15, <1>a DEF CountQueued
<1>16. CASE NextQueued
  <2>1. UNCHANGED <<list, held, ppc, clockDown, capacity, count, walked>> /\ Deleting
    BY <1>16 DEF NextQueued
  <2>2. CASE walked < count
    <3>1. view' = Buffer /\ upc' = "deleteQueued"
      BY <1>16, <2>2 DEF NextQueued
    <3>2. Buffer = "freed" => clockDown = 0 /\ count = DefaultSize - 1
      BY <2>1 DEF Buffer
    <3>3. QED
      BY <2>1, <2>2, <3>1, <3>2
  <2>3. CASE ~(walked < count)
    BY <1>16, <2>1, <2>3 DEF NextQueued
  <2>4. QED
    BY <2>2, <2>3
<1>17. CASE DeleteQueued
  BY <1>17, <1>a DEF DeleteQueued
<1>18. CASE DeleteGarbage
  BY <1>18, <1>a DEF DeleteGarbage
<1>19. CASE ClearList
  BY <1>19, <1>a DEF ClearList
<1>20. CASE RunStart
  BY <1>20, <1>a DEF RunStart
<1>21. CASE RunActionDone
  BY <1>21, <1>a DEF RunActionDone
<1>22. CASE DrainPoll
  BY <1>22, <1>a DEF DrainPoll, WakeConsumer
<1>23. CASE SetStopped
  BY <1>23, <1>a DEF SetStopped
<1>24. CASE LastWakePoll
  BY <1>24, <1>a DEF LastWakePoll, WakeConsumer
<1>25. CASE ProducerLeavesWait
  BY <1>25, <1>a DEF ProducerLeavesWait
<1>26. CASE TakeFree
  <2>1. CASE threadState = "StopOrder" \/ freeList = <<>>
    <3>1. held' = held /\ ppc' \in {"end", "pwait"}
      BY <1>26, <2>1 DEF TakeFree
    <3>2. QED
      BY <1>26, <3>1 DEF TakeFree
  <2>2. CASE threadState # "StopOrder" /\ freeList # <<>>
    <3>1. /\ list' = list /\ upc' = upc /\ capacity' = capacity /\ walked' = walked
          /\ ppc = "loop" /\ ppc' = "source" /\ held = NoBuffer
      BY <1>26, <2>2 DEF TakeFree, Control, HoldingPcs
    <3>2. ~Told /\ Untouched
      BY <2>2, <3>1 DEF Control, Told, FreeingPcs, Untouched
    <3>3. Len(list) + Len(freeList) = NBuf /\ Len(freeList) >= 1
      BY <1>a, <2>2, <3>1, <3>2 DEF Ownership
    <3>4. QED
      BY <1>a, <3>1, <3>2, <3>3, <1>26 DEF Told, FreeingPcs, TakeFree
  <2>3. QED
    BY <1>26, <2>1, <2>2 DEF TakeFree
<1>27. CASE SetCapacity
  <2>1. /\ ppc = "push" /\ list' = list /\ upc' = upc /\ held' = held
        /\ clockDown' = clockDown /\ count' = count /\ walked' = walked
        /\ ppc' \in {"pushLoad", "growing"} /\ held # NoBuffer
    BY <1>27 DEF SetCapacity, Control, HoldingPcs
  <2>2. CASE Len(list) + 1 < capacity
    <3>1. capacity' = capacity /\ view' = view /\ ppc' = "pushLoad"
      BY <1>27, <1>a, <2>2 DEF SetCapacity
    <3>2. QED
      BY <2>1, <2>2, <3>1
  <2>3. CASE Len(list) + 1 >= capacity
    <3>1. capacity' = Grown(Len(list) + 1) /\ view' \in {view, "freed"} /\ ppc' = "growing"
      BY <1>27, <1>a, <2>3 DEF SetCapacity
    <3>2. ListKept => Len(list) = DefaultSize - 1 /\ capacity = DefaultSize
      BY <1>a, <2>1, <2>3, GrowthAssumption
    <3>3. ListKept => capacity' = (3 * DefaultSize) \div 2 /\ Len(list) + 1 < capacity'
      <4>1. (3 * DefaultSize) \div 2 > DefaultSize /\ (3 * DefaultSize) \div 2 \in Nat
        BY DefaultSizeAssumption
      <4>2. QED
        BY <1>a, <3>1, <3>2, <4>1 DEF Grown
    <3>4. Deleting => count = DefaultSize - 1 /\ clockDown = 0
      BY <2>1, <3>2
    <3>5. QED
      BY <1>a, <2>1, <3>1, <3>2, <3>3, <3>4
  <2>4. QED
    BY <1>a, <2>2, <2>3
<1>28. CASE NewBuffer
  BY <1>28, <1>a DEF NewBuffer
<1>29. CASE PushLoad
  BY <1>29, <1>a DEF PushLoad
<1>30. CASE PushStore
  <2>1. /\ ppc = "pushing" /\ ppc' = "loop" /\ held' = NoBuffer
        /\ list' = Append(stale, held) /\ held \in Buffers /\ held # NoBuffer
        /\ upc' = upc \/ (upc = "cwait" /\ upc' = "cwoken")
        /\ UNCHANGED <<capacity, view, count, walked, clockDown>>
    BY <1>30, <1>b DEF PushStore, WakeConsumer, Control, HoldingPcs
  <2>2. ListKept => Len(list') = Len(list) + 1
    BY <1>a, <2>1, AppendAt DEF Ownership
  <2>3. QED
    BY <1>a, <2>1, <2>2
<1>31. CASE GiveBackLoad
  BY <1>31, <1>a DEF GiveBackLoad
<1>32. CASE GiveBackStore
  <2>1. /\ ppc = "givingBack" /\ ppc' = "end" /\ held' = NoBuffer /\ held # NoBuffer
        /\ UNCHANGED <<list, upc, storage, clockDown>>
    BY <1>32 DEF GiveBackStore, Control, HoldingPcs
  <2>2. QED
    BY <1>a, <2>1
<1>33. CASE SourceFrame
  BY <1>33, <1>a DEF SourceFrame
<1>34. CASE SourceEnd
  BY <1>34, <1>a DEF SourceEnd
<1>35. CASE SpuriousWakeProducer
  BY <1>35, <1>a DEF SpuriousWakeProducer
<1>36. CASE SpuriousWakeConsumer
  BY <1>36, <1>a DEF SpuriousWakeConsumer
<1>37. CASE UNCHANGED tqVars
  BY <1>37 DEF tqVars
<1>38. QED
  BY <1>1, <1>2, <1>3, <1>4, <1>5, <1>6, <1>7, <1>8, <1>9, <1>10, <1>11,
     <1>12, <1>13, <1>14, <1>15, <1>16, <1>17, <1>18, <1>19, <1>20,
     <1>21, <1>22, <1>23, <1>24, <1>25, <1>26, <1>27, <1>28, <1>29,
     <1>30, <1>31, <1>32, <1>33, <1>34, <1>35, <1>36, <1>37
     DEF Next, UserStep, ProducerStep, Source, Spurious, Getter,
         DeleteImages, Done

-----------------------------------------------------------------------------
(* Lifetime                                                                *)

\* At first no image has been deleted.
LEMMA LifetimeInit == Init => Lifetime
<1> SUFFICES ASSUME Init PROVE Lifetime
  OBVIOUS
<1>1. \A i \in 1..Len(freeList) : freeList[i] \in alive
  BY NBufAssumption DEF Init, TQInit, Buffers
<1>2. Len(list) = 0 /\ held = NoBuffer
  BY DEF Init, TQInit
<1>3. QED
  BY <1>1, <1>2 DEF Lifetime

\* Every step keeps the images the producer can reach undeleted.
LEMMA LifetimeStep ==
  TypeOK /\ Control /\ Ownership /\ Storage /\ Lifetime /\ [Next]_tqVars
    => Lifetime'
<1> SUFFICES ASSUME TypeOK, Control, Ownership, Storage, Lifetime, [Next]_tqVars
             PROVE  Lifetime'
  OBVIOUS
<1> USE DEF Lifetime, Untouched, ListKept, Deleting, lists, conds, history, memory, storage
<1>a. /\ list \in Seq(Buffers) /\ freeList \in Seq(Buffers)
      /\ Len(list) \in Nat /\ Len(freeList) \in Nat
  BY DEF TypeOK
<1>b. held # NoBuffer => held \in Buffers
  BY DEF TypeOK
<1>1. CASE CallGet
  BY <1>1 DEF CallGet
<1>2. CASE CallDestructor
  BY <1>2 DEF CallDestructor
<1>3. CASE ThreadStarted
  BY <1>3 DEF ThreadStarted
<1>4. CASE TestRunning
  BY <1>4 DEF TestRunning
<1>5. CASE GiveStopOrder
  BY <1>5 DEF GiveStopOrder, WakeProducer
<1>6. CASE PollStopped
  BY <1>6 DEF PollStopped
<1>7. CASE Join
  BY <1>7 DEF Join
<1>8. CASE ConsumerLeavesWait
  BY <1>8 DEF ConsumerLeavesWait
<1>9. CASE GetLock
  BY <1>9 DEF GetLock
<1>10. CASE GetFrame
  <2> USE <1>10 DEF GetFrame
  <2>1. /\ Len(list') = Len(list) - 1
        /\ \A i \in 1..Len(list') : list'[i] = list[i + 1]
        /\ Head(list) = list[1] /\ Len(list) > 0
    BY <1>a
  <2>2. /\ Len(freeList') = Len(freeList) + 1
        /\ \A i \in 1..Len(freeList) : freeList'[i] = freeList[i]
        /\ freeList'[Len(freeList) + 1] = Head(list)
    BY <1>a
  <2>3. /\ alive' = alive /\ held' = held /\ upc = "look" /\ upc' = "idle"
    OBVIOUS
  <2> HIDE <1>10 DEF GetFrame
  <2>4. \A i \in 1..Len(list) : list[i] \in alive
    BY <2>3
  <2>5. \A i \in 1..Len(list') : list'[i] \in alive
    BY <1>a, <2>1, <2>4
  <2>6. \A i \in 1..Len(freeList') : freeList'[i] \in alive
    BY <1>a, <2>1, <2>2, <2>3, <2>4
  <2>7. QED
    BY <2>3, <2>5, <2>6
<1>11. CASE GetNoMore
  BY <1>11 DEF GetNoMore
<1>12. CASE GetWait
  BY <1>12 DEF GetWait
<1>13. CASE DeleteFreeImages
  <2> USE <1>13 DEF DeleteFreeImages
  <2>1. Untouched /\ ListKept
    BY DEF ListKept
  <2>2. held # NoBuffer => held \notin ImagesOf(freeList)
    BY <1>a, <2>1 DEF Ownership, NotIn, ImagesOf
  <2>3. \A i \in 1..Len(list) : list[i] \notin ImagesOf(freeList)
    BY <1>a, <2>1 DEF Ownership, Disjoint, ImagesOf
  <2>4. QED
    BY <2>1, <2>2, <2>3
<1>14. CASE ClearFreeList
  BY <1>14 DEF ClearFreeList
<1>14a. CASE CountQueued
  <2>1. walked' = 0 /\ list' = list /\ upc = "countQueued"
    BY <1>14a DEF CountQueued
  <2>2. \A i \in 1..Len(list) : list[i] \in alive
    BY <2>1
  <2>3. QED
    BY <1>14a, <2>1, <2>2 DEF CountQueued
<1>14b. CASE NextQueued
  BY <1>14b DEF NextQueued
<1>15. CASE DeleteQueued
  <2> USE <1>15 DEF DeleteQueued
  <2>1. /\ ListKept /\ walked + 1 \in 1..Len(list) /\ walked' = walked + 1
        /\ list' = list /\ held' = held /\ upc' = "nextQueued"
        /\ alive' = alive \ {list[walked + 1]}
    BY <1>a DEF Storage, TypeOK
  <2>2. held # NoBuffer => held # list[walked + 1]
    BY <2>1 DEF Ownership, NotIn
  <2>3. \A i \in 1..Len(list) : i > walked + 1 =>
            list[i] \in alive /\ list[i] # list[walked + 1]
    <3>1. Distinct(list)
      BY <2>1 DEF Ownership
    <3>2. \A i \in 1..Len(list) : i > walked => list[i] \in alive
      BY <2>1
    <3>3. walked \in Nat
      BY DEF TypeOK
    <3>4. QED
      BY <2>1, <3>1, <3>2, <3>3 DEF Distinct
  <2>4. ~Untouched' /\ upc' # "clearList"
    BY <2>1
  <2> HIDE <1>15 DEF DeleteQueued
  <2>5. QED
    BY <2>1, <2>2, <2>3, <2>4
<1>15a. CASE DeleteGarbage
  BY <1>15a DEF DeleteGarbage
<1>16. CASE ClearList
  BY <1>16 DEF ClearList
<1>17. CASE RunStart
  BY <1>17 DEF RunStart
<1>18. CASE RunActionDone
  BY <1>18 DEF RunActionDone
<1>19. CASE DrainPoll
  BY <1>19 DEF DrainPoll, WakeConsumer
<1>20. CASE SetStopped
  BY <1>20 DEF SetStopped
<1>21. CASE LastWakePoll
  BY <1>21 DEF LastWakePoll, WakeConsumer
<1>22. CASE ProducerLeavesWait
  BY <1>22 DEF ProducerLeavesWait
<1>23. CASE TakeFree
  <2> USE <1>23 DEF TakeFree
  <2>1. CASE UNCHANGED <<freeList, held>>
    BY <2>1
  <2>2. CASE freeList # <<>> /\ threadState # "StopOrder"
             /\ held' = Head(freeList) /\ freeList' = Tail(freeList)
    <3>1. Untouched
      BY <2>2 DEF Control, Told, FreeingPcs
    <3>2. /\ Len(freeList') = Len(freeList) - 1
          /\ \A i \in 1..Len(freeList') : freeList'[i] = freeList[i + 1]
          /\ held' = freeList[1] /\ Len(freeList) > 0
      BY <1>a, <2>2
    <3>3. list' = list /\ alive' = alive /\ upc' = upc /\ walked' = walked
      OBVIOUS
    <3> HIDE <1>23 DEF TakeFree
    <3>4. held' \in alive /\ \A i \in 1..Len(freeList') : freeList'[i] \in alive
      BY <1>a, <3>1, <3>2
    <3>5. QED
      BY <3>3, <3>4
  <2>3. QED
    BY <2>1, <2>2
<1>23a. CASE SetCapacity
  BY <1>23a DEF SetCapacity
<1>23b. CASE NewBuffer
  BY <1>23b DEF NewBuffer
<1>24. CASE PushLoad
  BY <1>24 DEF PushLoad
<1>25. CASE PushStore
  <2> USE <1>25 DEF PushStore
  <2>1. held \in Buffers /\ held # NoBuffer
    BY <1>b DEF Control, HoldingPcs
  <2>2. ListKept => list' = Append(list, held)
    BY DEF Ownership
  <2>3. ListKept => /\ Len(list') = Len(list) + 1
                    /\ \A i \in 1..Len(list) : list'[i] = list[i]
                    /\ list'[Len(list) + 1] = held
    BY <1>a, <2>1, <2>2, AppendAt
  <2>4. /\ held' = NoBuffer /\ freeList' = freeList /\ alive' = alive
        /\ upc' = upc \/ (upc = "cwait" /\ upc' = "cwoken")
    BY DEF WakeConsumer
  <2> HIDE <1>25 DEF PushStore
  <2>5. walked' = walked
    BY <1>25 DEF PushStore
  <2>6. QED
    BY <1>a, <2>1, <2>3, <2>4, <2>5
<1>26. CASE GiveBackLoad
  BY <1>26 DEF GiveBackLoad
<1>27. CASE GiveBackStore
  <2> USE <1>27 DEF GiveBackStore
  <2>1. held \in Buffers /\ held # NoBuffer
    BY <1>b DEF Control, HoldingPcs
  <2>2. Untouched => freeList' = Append(freeList, held)
    BY DEF Ownership
  <2>3. Untouched => /\ Len(freeList') = Len(freeList) + 1
                     /\ \A i \in 1..Len(freeList) : freeList'[i] = freeList[i]
                     /\ freeList'[Len(freeList) + 1] = held
    BY <1>a, <2>1, <2>2
  <2>4. /\ held' = NoBuffer /\ list' = list /\ alive' = alive /\ upc' = upc
        /\ walked' = walked
    OBVIOUS
  <2> HIDE <1>27 DEF GiveBackStore
  <2>5. QED
    BY <1>a, <2>1, <2>3, <2>4
<1>28. CASE SourceFrame
  BY <1>28 DEF SourceFrame
<1>29. CASE SourceEnd
  BY <1>29 DEF SourceEnd
<1>30. CASE SpuriousWakeProducer
  BY <1>30 DEF SpuriousWakeProducer
<1>31. CASE SpuriousWakeConsumer
  BY <1>31 DEF SpuriousWakeConsumer
<1>32. CASE UNCHANGED tqVars
  BY <1>32 DEF tqVars
<1>33. QED
  BY <1>1, <1>2, <1>3, <1>4, <1>5, <1>6, <1>7, <1>8, <1>9, <1>10,
     <1>11, <1>12, <1>13, <1>14, <1>14a, <1>14b, <1>15, <1>15a, <1>16, <1>17, <1>18, <1>19,
     <1>20, <1>21, <1>22, <1>23, <1>23a, <1>23b, <1>24, <1>25, <1>26, <1>27, <1>28,
     <1>29, <1>30, <1>31, <1>32
     DEF Next, UserStep, ProducerStep, Source, Spurious, Getter,
         DeleteImages, Done

-----------------------------------------------------------------------------
(* Waiting                                                                 *)

\* At first nobody waits.
LEMMA WaitingInit == Init => Waiting
  BY DEF Init, TQInit, Waiting

\* No step leaves a thread blocked when there is something for it.
LEMMA WaitingStep == TypeOK /\ Control /\ Waiting /\ [Next]_tqVars => Waiting'
<1> SUFFICES ASSUME TypeOK, Control, Waiting, [Next]_tqVars PROVE Waiting'
  OBVIOUS
<1> USE DEF Waiting, Untouched, Control, lists, conds, history, memory, storage
<1>1. CASE CallGet
  BY <1>1 DEF CallGet
<1>2. CASE CallDestructor
  BY <1>2 DEF CallDestructor
<1>3. CASE ThreadStarted
  BY <1>3 DEF ThreadStarted
<1>4. CASE TestRunning
  BY <1>4 DEF TestRunning
<1>5. CASE GiveStopOrder
  BY <1>5 DEF GiveStopOrder, WakeProducer
<1>6. CASE PollStopped
  BY <1>6 DEF PollStopped
<1>7. CASE Join
  BY <1>7 DEF Join
<1>8. CASE ConsumerLeavesWait
  BY <1>8 DEF ConsumerLeavesWait
<1>9. CASE GetLock
  BY <1>9 DEF GetLock
<1>10. CASE GetFrame
  BY <1>10 DEF GetFrame, WakeProducer
<1>11. CASE GetNoMore
  BY <1>11 DEF GetNoMore
<1>12. CASE GetWait
  BY <1>12 DEF GetWait
<1>13. CASE DeleteFreeImages
  BY <1>13 DEF DeleteFreeImages
<1>14. CASE ClearFreeList
  BY <1>14 DEF ClearFreeList
<1>14a. CASE CountQueued
  BY <1>14a DEF CountQueued
<1>14b. CASE NextQueued
  BY <1>14b DEF NextQueued
<1>15. CASE DeleteQueued
  BY <1>15 DEF DeleteQueued
<1>15a. CASE DeleteGarbage
  BY <1>15a DEF DeleteGarbage
<1>16. CASE ClearList
  BY <1>16 DEF ClearList
<1>17. CASE RunStart
  BY <1>17 DEF RunStart
<1>18. CASE RunActionDone
  BY <1>18 DEF RunActionDone
<1>19. CASE DrainPoll
  BY <1>19 DEF DrainPoll, WakeConsumer
<1>20. CASE SetStopped
  BY <1>20 DEF SetStopped
<1>21. CASE LastWakePoll
  BY <1>21 DEF LastWakePoll, WakeConsumer
<1>22. CASE ProducerLeavesWait
  BY <1>22 DEF ProducerLeavesWait
<1>23. CASE TakeFree
  BY <1>23 DEF TakeFree
<1>23a. CASE SetCapacity
  BY <1>23a DEF SetCapacity
<1>23b. CASE NewBuffer
  BY <1>23b DEF NewBuffer
<1>24. CASE PushLoad
  BY <1>24 DEF PushLoad
<1>25. CASE PushStore
  BY <1>25 DEF PushStore, WakeConsumer
<1>26. CASE GiveBackLoad
  BY <1>26 DEF GiveBackLoad
<1>27. CASE GiveBackStore
  BY <1>27 DEF GiveBackStore
<1>28. CASE SourceFrame
  BY <1>28 DEF SourceFrame
<1>29. CASE SourceEnd
  BY <1>29 DEF SourceEnd
<1>30. CASE SpuriousWakeProducer
  BY <1>30 DEF SpuriousWakeProducer
<1>31. CASE SpuriousWakeConsumer
  BY <1>31 DEF SpuriousWakeConsumer
<1>32. CASE UNCHANGED tqVars
  BY <1>32 DEF tqVars
<1>33. QED
  BY <1>1, <1>2, <1>3, <1>4, <1>5, <1>6, <1>7, <1>8, <1>9, <1>10,
     <1>11, <1>12, <1>13, <1>14, <1>14a, <1>14b, <1>15, <1>15a, <1>16, <1>17, <1>18, <1>19,
     <1>20, <1>21, <1>22, <1>23, <1>23a, <1>23b, <1>24, <1>25, <1>26, <1>27, <1>28,
     <1>29, <1>30, <1>31, <1>32
     DEF Next, UserStep, ProducerStep, Source, Spurious, Getter,
         DeleteImages, Done

-----------------------------------------------------------------------------
(* The theorems                                                            *)

\* The layers together hold in every reachable state.
THEOREM Invariance == Spec => []IInv
<1>1. Init => IInv
  BY TypeInit, ControlInit, OwnershipInit, FramesInit, StorageInit,
     LifetimeInit, WaitingInit
     DEF IInv
<1>2. IInv /\ [Next]_tqVars => IInv'
  BY TypeStep, ControlStep, OwnershipStep, FramesStep, StorageStep,
     LifetimeStep, WaitingStep
     DEF IInv
<1>3. QED
  BY <1>1, <1>2, PTL DEF Spec

\* Every variable of the video queue keeps to its range.
THEOREM TypeCorrect == Spec => []TypeOK
<1>1. IInv => TypeOK
  BY DEF IInv
<1>2. QED
  BY <1>1, Invariance, PTL

\* getNextFrameAs hands out every frame once, in order and complete.
THEOREM OrderAndIntegrity == Spec => []InOrderAndIntact
<1>1. IInv => InOrderAndIntact
  BY DEF IInv, Frames, InOrderAndIntact
<1>2. QED
  BY <1>1, Invariance, PTL

\* Until the destructor frees them, no image is lost or in two places.
THEOREM Conservation == Spec => []ImagesConserved
<1>1. IInv => ImagesConserved
  BY DEF IInv, Ownership, ImagesConserved, Untouched, FreeingPcs
<1>2. QED
  BY <1>1, Invariance, PTL

\* "No more data" comes only after every frame the source has made.
THEOREM Completeness == Spec => []NothingLostAtEnd
<1>1. IInv => NothingLostAtEnd
  BY DEF IInv, Frames, NothingLostAtEnd
<1>2. QED
  BY <1>1, Invariance, PTL

\* Although stopThread may give up on a busy thread, the thread never renders
\* into a deleted image and no image is deleted twice; and the destructor
\* reads a storage of list that was deleted only if all polls were in vain and
\* exactly DefaultSize - 1 images were queued when it counted them.
THEOREM MemorySafety == Spec => []UsedAfterDeleteOnlyAtGrowth
<1>1. IInv => UsedAfterDeleteOnlyAtGrowth
  <2> SUFFICES ASSUME IInv PROVE UsedAfterDeleteOnlyAtGrowth
    OBVIOUS
  <2>1. ppc \in {"source", "push"} => held \in alive
    BY DEF IInv, Control, HoldingPcs, Lifetime
  <2>2. /\ DOMAIN list = 1..Len(list) /\ DOMAIN freeList = 1..Len(freeList)
        /\ Len(list) \in Nat /\ walked \in Nat /\ count \in Nat
    BY DEF IInv, TypeOK
  <2>3. upc = "free" => ImagesOf(freeList) \subseteq alive
    BY <2>2 DEF IInv, Lifetime, Untouched, ImagesOf
  <2>4. upc \in GetPcs => ImagesOf(list) \subseteq alive
    BY <2>2 DEF IInv, Lifetime, ListKept, Deleting, ImagesOf, GetPcs
  <2>5. upc = "deleteQueued" => walked < Len(list) /\ list[walked + 1] \in alive
    <3> SUFFICES ASSUME upc = "deleteQueued"
                 PROVE  walked < Len(list) /\ list[walked + 1] \in alive
      OBVIOUS
    <3>1. walked < Len(list)
      <4>1. Storage
        BY DEF IInv
      <4>2. walked < count /\ count <= Len(list)
        BY <4>1 DEF Storage, Deleting
      <4>3. QED
        BY <2>2, <4>2
    <3>2. walked + 1 \in 1..Len(list) /\ walked + 1 > walked
      BY <2>2, <3>1
    <3>3. QED
      BY <3>1, <3>2 DEF IInv, Lifetime, ListKept
  <2>6. upc = "deleteQueued" /\ view = "freed" =>
            clockDown = 0 /\ count = DefaultSize - 1
    BY DEF IInv, Storage
  <2>7. QED
    BY <2>1, <2>3, <2>4, <2>5, <2>6 DEF UsedAfterDeleteOnlyAtGrowth
<1>2. QED
  BY <1>1, Invariance, PTL

\* No wakeup is lost: a blocked thread has nothing to do, and the two threads
\* never wait for each other.
THEOREM WakeupSafety == Spec => []NoLostWakeup
<1>1. IInv => NoLostWakeup
  <2> SUFFICES ASSUME IInv PROVE NoLostWakeup
    OBVIOUS
  <2>1. ppc = "pwait" /\ upc \notin FreeingPcs => freeList = <<>>
    BY DEF IInv, Waiting, Untouched, FreeingPcs
  <2>2. ~(ppc = "pwait" /\ upc = "cwait")
    <3> SUFFICES ASSUME ppc = "pwait", upc = "cwait" PROVE FALSE
      OBVIOUS
    <3>1. list = <<>> /\ freeList = <<>> /\ held = NoBuffer /\ Untouched
      BY DEF IInv, Waiting, Untouched, Control, HoldingPcs
    <3>2. 0 + 0 + 0 = NBuf
      BY <3>1 DEF IInv, Ownership
    <3>3. QED
      BY <3>2, NBufAssumption
  <2>3. QED
    BY <2>1, <2>2 DEF IInv, Waiting, NoLostWakeup
<1>2. QED
  BY <1>1, Invariance, PTL

-----------------------------------------------------------------------------
(* The queue is a FrameFifo: frames are numbered, so that what is queued   *)
(* follows from how many were handed out and how long list is              *)

\* The frames from number d + 1 on, n of them.
FramesFrom(d, n) == [i \in 1..n |-> d + i]

\* Making, handing out and counting consecutive frames.
LEMMA Consecutive ==
  ASSUME NEW d \in Nat, NEW n \in Nat
  PROVE  /\ FramesFrom(d, n) \in Seq(Nat) /\ Len(FramesFrom(d, n)) = n
         /\ Append(FramesFrom(d, n), d + n + 1) = FramesFrom(d, n + 1)
         /\ n = 0 => FramesFrom(d, n) = <<>>
         /\ n # 0 => /\ FramesFrom(d, n) # <<>>
                     /\ Head(FramesFrom(d, n)) = d + 1
                     /\ Tail(FramesFrom(d, n)) = FramesFrom(d + 1, n - 1)
<1>1. FramesFrom(d, n) \in Seq(Nat) /\ Len(FramesFrom(d, n)) = n
  BY DEF FramesFrom
<1>2. Append(FramesFrom(d, n), d + n + 1) = FramesFrom(d, n + 1)
  BY DEF FramesFrom
<1>3. n = 0 => FramesFrom(d, n) = <<>>
  BY <1>1
<1>4. n # 0 => /\ FramesFrom(d, n) # <<>>
               /\ Head(FramesFrom(d, n)) = d + 1
               /\ Tail(FramesFrom(d, n)) = FramesFrom(d + 1, n - 1)
  <2> SUFFICES ASSUME n # 0
               PROVE  /\ FramesFrom(d, n) # <<>>
                      /\ Head(FramesFrom(d, n)) = d + 1
                      /\ Tail(FramesFrom(d, n)) = FramesFrom(d + 1, n - 1)
    OBVIOUS
  <2>1. FramesFrom(d, n) # <<>> /\ Head(FramesFrom(d, n)) = FramesFrom(d, n)[1]
    BY <1>1
  <2>2. FramesFrom(d, n)[1] = d + 1
    BY DEF FramesFrom
  <2>3. Tail(FramesFrom(d, n)) = FramesFrom(d + 1, n - 1)
    <3>1. /\ Tail(FramesFrom(d, n)) \in Seq(Nat)
          /\ Len(Tail(FramesFrom(d, n))) = n - 1
          /\ \A i \in 1..n - 1 : Tail(FramesFrom(d, n))[i] = FramesFrom(d, n)[i + 1]
      BY <1>1, <2>1
    <3>2. \A i \in 1..n - 1 : FramesFrom(d, n)[i + 1] = d + 1 + i
      BY DEF FramesFrom
    <3>3. \A i \in 1..n - 1 : FramesFrom(d + 1, n - 1)[i] = d + 1 + i
      BY DEF FramesFrom
    <3>4. FramesFrom(d + 1, n - 1) \in Seq(Nat) /\ Len(FramesFrom(d + 1, n - 1)) = n - 1
      BY DEF FramesFrom
    <3>5. /\ Len(Tail(FramesFrom(d, n))) = Len(FramesFrom(d + 1, n - 1))
          /\ \A i \in 1..Len(Tail(FramesFrom(d, n))) :
                Tail(FramesFrom(d, n))[i] = FramesFrom(d + 1, n - 1)[i]
      BY <3>1, <3>2, <3>3, <3>4
    <3>6. QED
      BY <3>1, <3>4, <3>5, SeqEqual, Zenon
  <2>4. QED
    BY <2>1, <2>2, <2>3
<1>5. QED
  BY <1>1, <1>2, <1>3, <1>4

\* The queue of the FrameFifo.
Queued == IF upc \in DtorPcs THEN <<>> ELSE QueuedFrames

LEMMA QueuedNumbers ==
  IInv => /\ Len(list) \in Nat /\ Len(delivered) \in Nat
          /\ Queued = IF upc \in DtorPcs THEN <<>>
                      ELSE FramesFrom(Len(delivered), Len(list))
<1> SUFFICES ASSUME IInv
             PROVE  /\ Len(list) \in Nat /\ Len(delivered) \in Nat
                    /\ Queued = IF upc \in DtorPcs THEN <<>>
                                ELSE FramesFrom(Len(delivered), Len(list))
  OBVIOUS
<1>1. Len(list) \in Nat /\ Len(delivered) \in Nat
  BY DEF IInv, TypeOK
<1>2. CASE upc \notin DtorPcs
  <2>1. \A i \in 1..Len(list) : contents[list[i]] = Len(delivered) + i
    BY <1>2 DEF IInv, Frames, ListKept, DtorPcs, FreeingPcs
  <2>2. QED
    BY <1>1, <1>2, <2>1 DEF Queued, QueuedFrames, FramesFrom
<1>3. QED
  BY <1>1, <1>2 DEF Queued

LEMMA QueuedNumbersNext ==
  IInv' => /\ Len(list') \in Nat /\ Len(delivered') \in Nat
           /\ Queued' = IF upc' \in DtorPcs THEN <<>>
                        ELSE FramesFrom(Len(delivered'), Len(list'))
<1>1. (IInv => /\ Len(list) \in Nat /\ Len(delivered) \in Nat
               /\ Queued = IF upc \in DtorPcs THEN <<>>
                           ELSE FramesFrom(Len(delivered), Len(list)))'
  BY QueuedNumbers, PTL
<1>2. QED
  BY <1>1 DEF FramesFrom, DtorPcs, FreeingPcs

\* A step that hands out nothing, adds nothing and ends nothing.
LEMMA Stutters ==
  ASSUME IInv, IInv', upc' \in DtorPcs <=> upc \in DtorPcs,
         upc \notin DtorPcs => Len(list') = Len(list),
         delivered' = delivered, eof' = eof, Phase' = Phase
  PROVE  UNCHANGED Fifo!fifoVars
<1>1. Queued' = Queued
  <2>1. /\ Queued' = IF upc' \in DtorPcs THEN <<>>
                     ELSE FramesFrom(Len(delivered'), Len(list'))
        /\ Queued = IF upc \in DtorPcs THEN <<>>
                    ELSE FramesFrom(Len(delivered), Len(list))
    BY QueuedNumbers, QueuedNumbersNext
  <2>2. QED
    BY <2>1
<1>2. QED
  BY <1>1 DEF Fifo!fifoVars, Queued

\* Every step is one of the abstract queue, or none.
LEMMA StepImplements ==
  IInv /\ IInv' /\ [Next]_tqVars => [Fifo!FifoNext]_(Fifo!fifoVars)
<1> SUFFICES ASSUME IInv, IInv', [Next]_tqVars PROVE [Fifo!FifoNext]_(Fifo!fifoVars)
  OBVIOUS
<1>a. Control /\ TypeOK
  BY DEF IInv
<1> USE DEF DtorPcs, FreeingPcs, EndedPcs, Phase, lists, conds, history, memory, storage
<1>1. CASE GetFrame
  <2>1. /\ upc = "look" /\ upc' = "idle" /\ list # <<>> /\ list \in Seq(Buffers)
        /\ delivered' = Append(delivered, contents[Head(list)])
        /\ list' = Tail(list) /\ eof' = eof
        /\ ppc' = ppc \/ (ppc = "pwait" /\ ppc' = "pwoken")
    BY <1>a, <1>1 DEF GetFrame, WakeProducer, TypeOK
  <2>2. Len(list) \in Nat /\ Len(list) # 0 /\ Len(delivered) \in Nat
    BY <2>1, QueuedNumbers
  <2>3. contents[Head(list)] = Len(delivered) + 1
    <3>1. 1 \in 1..Len(list) /\ Head(list) = list[1]
      BY <2>1, <2>2
    <3>2. QED
      BY <2>1, <3>1 DEF IInv, Frames, ListKept
  <2>4. Len(list') = Len(list) - 1 /\ Len(delivered') = Len(delivered) + 1
    BY <1>a, <2>1, <2>2, <2>3 DEF TypeOK
  <2>5. /\ Queued = FramesFrom(Len(delivered), Len(list))
        /\ Queued' = FramesFrom(Len(delivered) + 1, Len(list) - 1)
    BY <2>1, <2>4, QueuedNumbers, QueuedNumbersNext
  <2>6. /\ Queued # <<>> /\ Head(Queued) = contents[Head(list)]
        /\ Queued' = Tail(Queued)
    BY <2>2, <2>3, <2>5, Consecutive
  <2>7. Phase' = Phase /\ Phase # "destroyed"
    BY <2>1
  <2>8. Fifo!Get
    BY <2>1, <2>6, <2>7 DEF Fifo!Get, Queued
  <2>9. QED
    BY <2>8 DEF Fifo!FifoNext
<1>2. CASE PushStore
  <2>1. /\ ppc = "pushing" /\ ppc' = "loop" /\ list' = Append(stale, held)
        /\ upc' = upc \/ (upc = "cwait" /\ upc' = "cwoken")
        /\ delivered' = delivered /\ eof' = eof
    BY <1>2 DEF PushStore, WakeConsumer
  <2>2. CASE upc \in DtorPcs
    <3>1. UNCHANGED Fifo!fifoVars
      BY <2>1, <2>2, Stutters
    <3>2. QED
      BY <3>1
  <2>3. CASE upc \notin DtorPcs
    <3>1. /\ stale = list /\ Len(list) + Len(freeList) + 1 = NBuf
          /\ Len(freeList) \in Nat /\ list \in Seq(Buffers)
      BY <1>a, <2>1, <2>3 DEF IInv, Ownership, ListKept, Untouched, Control, HoldingPcs, TypeOK
    <3>2. Len(list') = Len(list) + 1 /\ Len(list) \in Nat /\ Len(delivered) \in Nat
      BY <1>a, <2>1, <3>1, QueuedNumbers DEF TypeOK
    <3>3. Len(list) < NBuf
      BY <3>1, <3>2, NBufAssumption
    <3>4. upc' \notin DtorPcs
      BY <2>1, <2>3
    <3>5. /\ Queued = FramesFrom(Len(delivered), Len(list))
          /\ Queued' = FramesFrom(Len(delivered), Len(list) + 1)
      BY <2>1, <2>3, <3>2, <3>4, QueuedNumbers, QueuedNumbersNext
    <3>6. Queued' = Append(Queued, Len(delivered) + Len(Queued) + 1) /\ Len(Queued) < NBuf
      <4>1. Len(Queued) = Len(list)
        BY <3>2, <3>5, Consecutive
      <4>2. Append(Queued, Len(delivered) + Len(list) + 1) = Queued'
        BY <3>2, <3>5, Consecutive
      <4>3. QED
        BY <3>3, <4>1, <4>2
    <3>7. Phase = "open" /\ Phase' = "open"
      BY <2>1, <2>3, <3>4
    <3>8. Fifo!Put
      BY <2>1, <3>6, <3>7 DEF Fifo!Put, Queued
    <3>9. QED
      BY <3>8 DEF Fifo!FifoNext
  <2>4. QED
    BY <2>2, <2>3
<1>3. CASE SourceEnd
  <2>1. /\ ppc = "source" /\ ppc' = "giveBack" /\ upc' = upc
        /\ list' = list /\ delivered' = delivered /\ eof' = eof
    BY <1>3 DEF SourceEnd
  <2>2. CASE upc \in DtorPcs
    <3>1. UNCHANGED Fifo!fifoVars
      BY <2>1, <2>2, Stutters
    <3>2. QED
      BY <3>1
  <2>3. CASE upc \notin DtorPcs
    <3>1. Queued' = Queued
      BY <2>1, QueuedNumbers, QueuedNumbersNext
    <3>2. Phase = "open" /\ Phase' = "ended"
      BY <2>1, <2>3
    <3>3. Fifo!End
      BY <2>1, <3>1, <3>2 DEF Fifo!End, Queued
    <3>4. QED
      BY <3>3 DEF Fifo!FifoNext
  <2>4. QED
    BY <2>2, <2>3
<1>4. CASE GetNoMore
  <2>1. /\ upc = "look" /\ upc' = "idle" /\ list = <<>> /\ list' = list
        /\ threadState = "Stopped" /\ ppc' = ppc /\ delivered' = delivered /\ eof' = TRUE
    BY <1>4 DEF GetNoMore
  <2>2. Phase = "ended" /\ Phase' = "ended"
    BY <1>a, <2>1 DEF Control
  <2>3. Queued = <<>> /\ Queued' = <<>>
    BY <2>1, QueuedNumbers, QueuedNumbersNext, Consecutive
  <2>4. Fifo!NoMoreData
    BY <2>1, <2>2, <2>3 DEF Fifo!NoMoreData, Queued
  <2>5. QED
    BY <2>4 DEF Fifo!FifoNext
<1>5. CASE CallDestructor
  <2>1. /\ upc = "idle" /\ upc' = "stop" /\ delivered' = delivered /\ eof' = eof
    BY <1>5 DEF CallDestructor
  <2>2. Phase # "destroyed" /\ Phase' = "destroyed" /\ Queued' = <<>>
    BY <2>1 DEF Queued
  <2>3. Fifo!Destroy
    BY <2>1, <2>2 DEF Fifo!Destroy, Queued
  <2>4. QED
    BY <2>3 DEF Fifo!FifoNext
<1>6. CASE TakeFree
  <2>1. /\ ppc = "loop" /\ upc' = upc /\ list' = list /\ delivered' = delivered /\ eof' = eof
        /\ IF threadState = "StopOrder" THEN ppc' = "end" ELSE ppc' \in {"pwait", "source"}
    BY <1>6 DEF TakeFree
  <2>2. threadState = "StopOrder" => upc \in DtorPcs
    BY <1>a DEF Control, Told, FreeingPcs
  <2>3. Phase' = Phase
    BY <2>1, <2>2
  <2>4. UNCHANGED Fifo!fifoVars
    BY <2>1, <2>3, Stutters
  <2>5. QED
    BY <2>4
<1>7. CASE CallGet \/ ThreadStarted \/ ConsumerLeavesWait \/ GetLock \/ GetWait
           \/ SpuriousWakeConsumer
  <2>1. /\ upc \notin DtorPcs /\ upc' \notin DtorPcs /\ list' = list
        /\ delivered' = delivered /\ eof' = eof
        /\ ppc' = ppc \/ (ppc' = "spawned" /\ ~started /\ upc = "idle")
    BY <1>7 DEF CallGet, ThreadStarted, ConsumerLeavesWait, GetLock, GetWait, SpuriousWakeConsumer
  <2>2. Phase' = Phase
    BY <1>a, <2>1 DEF Control
  <2>3. UNCHANGED Fifo!fifoVars
    BY <2>1, <2>2, Stutters
  <2>4. QED
    BY <2>3
<1>8. CASE TestRunning \/ GiveStopOrder \/ PollStopped \/ Join \/ DeleteImages \/ Done
  <2>1. /\ upc \in DtorPcs /\ upc' \in DtorPcs /\ delivered' = delivered /\ eof' = eof
    BY <1>8 DEF TestRunning, GiveStopOrder, PollStopped, Join, DeleteImages, DeleteFreeImages,
                ClearFreeList, CountQueued, NextQueued, DeleteQueued,
                DeleteGarbage, ClearList, Done, tqVars
  <2>2. UNCHANGED Fifo!fifoVars
    BY <2>1, Stutters
  <2>3. QED
    BY <2>2
<1>9. CASE \/ RunStart \/ RunActionDone \/ DrainPoll \/ SetStopped \/ LastWakePoll
           \/ ProducerLeavesWait \/ SetCapacity \/ NewBuffer \/ PushLoad
           \/ GiveBackLoad \/ GiveBackStore
           \/ SourceFrame \/ SpuriousWakeProducer
  <2>1. /\ upc' = upc \/ (upc = "cwait" /\ upc' = "cwoken")
        /\ list' = list /\ delivered' = delivered /\ eof' = eof
        /\ ppc' \in EndedPcs <=> ppc \in EndedPcs
    BY <1>9 DEF RunStart, RunActionDone, DrainPoll, SetStopped, LastWakePoll,
                ProducerLeavesWait, SetCapacity, NewBuffer, PushLoad,
                GiveBackLoad, GiveBackStore,
                SourceFrame, SpuriousWakeProducer, WakeConsumer
  <2>2. Phase' = Phase /\ (upc' \in DtorPcs <=> upc \in DtorPcs)
    BY <2>1
  <2>3. UNCHANGED Fifo!fifoVars
    BY <2>1, <2>2, Stutters
  <2>4. QED
    BY <2>3
<1>10. CASE UNCHANGED tqVars
  <2>1. UNCHANGED Fifo!fifoVars
    BY <1>10, Stutters DEF tqVars
  <2>2. QED
    BY <2>1
<1>11. QED
  BY <1>1, <1>2, <1>3, <1>4, <1>5, <1>6, <1>7, <1>8, <1>9, <1>10
     DEF Next, UserStep, ProducerStep, Source, Spurious, Getter

\* The video queue implements the bounded queue of frames: what is handed
\* out is what the source made, in order, at most NBuf frames are read ahead,
\* and the destructor drops what is left.
THEOREM QueueRefinement == Spec => ImplementsFrameFifo
<1>1. Init /\ IInv => Fifo!FifoInit
  <2> SUFFICES ASSUME Init, IInv PROVE Fifo!FifoInit
    OBVIOUS
  <2>1. list = <<>> /\ delivered = <<>> /\ upc = "idle" /\ ppc = "none" /\ eof = FALSE
    BY DEF Init, TQInit
  <2>2. Queued = <<>>
    BY <2>1, QueuedNumbers, Consecutive
  <2>3. Phase = "open"
    BY <2>1 DEF Phase, DtorPcs, FreeingPcs, EndedPcs
  <2>4. QED
    BY <2>1, <2>2, <2>3 DEF Fifo!FifoInit, Queued
<1>2. IInv /\ IInv' /\ [Next]_tqVars => [Fifo!FifoNext]_(Fifo!fifoVars)
  BY StepImplements
<1>3. QED
  BY <1>1, <1>2, Invariance, PTL DEF Spec, ImplementsFrameFifo, Fifo!FifoSpec

=============================================================================
