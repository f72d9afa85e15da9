------------------------- MODULE AudioAccessProofs -------------------------
(***************************************************************************)
(* The buffers of AudioAccessThread, for every number of buffers, packets  *)
(* and polls: none is ever in two places, although the last append of the  *)
(* thread takes no mutex and the destructor may find the thread still at   *)
(* work.  What that append can meet, getPacket between the two halves of   *)
(* its own, makes one of the two disappear and never appear twice.  Every  *)
(* packet read is handed out once and in order all the same: the threads   *)
(* implement the queue of FrameFifo.                                       *)
(***************************************************************************)
EXTENDS AudioAccessThread, SequenceTheorems, TLAPS

-----------------------------------------------------------------------------
(* The inductive invariant                                                 *)

\* The thread has read a packet and is appending it to list; it owns the
\* mutex from the moment append begins.
AppendPcs == {"growing", "pushLoad", "pushing"}
PushPcs == {"push"} \cup AppendPcs
HoldingPcs == PushPcs \cup {"source", "giveBack", "givingBack"}
TakingPcs == {"copy", "recycle", "recycling"}

\* Where the threads are tells who owns the mutex and who has a buffer.
Control ==
    /\ owner = "user" <=> upc \in {"look", "recycling", "stopAsk", "baseAsk"}
    /\ owner = "producer" <=> ppc \in AppendPcs
    /\ ~started /\ upc # "starting" => ppc = "none"
    /\ held # NoBuffer <=> ppc \in HoldingPcs
    /\ taken # NoBuffer <=> upc \in TakingPcs

Distinct(l) == \A i, j \in 1..Len(l) : l[i] = l[j] => i = j
Disjoint(l, m) == \A i \in 1..Len(l), j \in 1..Len(m) : l[i] # m[j]
NotIn(b, l) == \A i \in 1..Len(l) : l[i] # b

\* l is a place buffers can be put in or read from: nobody has one of its
\* buffers in hand.
Clean(l) == Distinct(l) /\ NotIn(held, l) /\ NotIn(taken, l)

\* The two vectors, as they are.
Vectors ==
    /\ Clean(list) /\ Clean(freeList) /\ Disjoint(list, freeList)
    /\ held # NoBuffer => held # taken

\* A vector as it was read by an append that is not over can be written back
\* without giving a buffer a second place, whatever it is by now.
Appends ==
    /\ ppc = "pushing" => Clean(stale) /\ Disjoint(stale, freeList)
    /\ ppc = "givingBack" => Clean(stale) /\ Disjoint(list, stale)
    /\ upc = "recycling" => Clean(userStale) /\ Disjoint(list, userStale)

\* Until the son has ended or the destructor is past its stop, the vectors
\* are what the appends read, and no buffer is lost.
Busy == upc \notin FreeingPcs /\ ppc \notin EndedPcs
Complete ==
    Busy =>
      /\ ppc = "pushing" => stale = list
      /\ upc = "recycling" => userStale = freeList
      /\ Len(list) + Len(freeList) + (IF held = NoBuffer THEN 0 ELSE 1)
           + (IF taken = NoBuffer THEN 0 ELSE 1) = NBuf

IInv == TypeOK /\ Control /\ Vectors /\ Appends /\ Complete

\* Names of sets of places are read as the sets they are.
USE DEF WalkPcs, FreeingPcs, AppendPcs, PushPcs

-----------------------------------------------------------------------------
(* Sequences of buffers                                                    *)

LEMMA Swapped ==
    ASSUME NEW l, NEW m, Disjoint(l, m)
    PROVE  Disjoint(m, l)
  BY DEF Disjoint

LEMMA Appended ==
    ASSUME NEW l \in Seq(Buffers), NEW b \in Buffers, Distinct(l), NotIn(b, l)
    PROVE  /\ Append(l, b) \in Seq(Buffers)
           /\ Len(Append(l, b)) = Len(l) + 1
           /\ Distinct(Append(l, b))
           /\ \A c : c # b /\ NotIn(c, l) => NotIn(c, Append(l, b))
           /\ \A m : Disjoint(l, m) /\ NotIn(b, m) => Disjoint(Append(l, b), m)
<1>1. /\ Append(l, b) \in Seq(Buffers)
      /\ Len(Append(l, b)) = Len(l) + 1
      /\ \A i \in 1..Len(l) : Append(l, b)[i] = l[i]
      /\ Append(l, b)[Len(l) + 1] = b
      /\ Len(l) \in Nat
  BY AppendProperties, LenProperties
<1>2. \A i \in 1..Len(l) + 1 : i \in 1..Len(l) \/ i = Len(l) + 1
  BY <1>1
<1>3. Distinct(Append(l, b))
  <2> SUFFICES ASSUME NEW i \in 1..Len(l) + 1, NEW j \in 1..Len(l) + 1,
                      Append(l, b)[i] = Append(l, b)[j]
               PROVE  i = j
    BY <1>1 DEF Distinct
  <2>1. CASE i \in 1..Len(l) /\ j \in 1..Len(l)
    BY <1>1, <2>1 DEF Distinct
  <2>2. CASE i \in 1..Len(l) /\ j = Len(l) + 1
    BY <1>1, <2>2 DEF NotIn
  <2>3. CASE i = Len(l) + 1 /\ j \in 1..Len(l)
    BY <1>1, <2>3 DEF NotIn
  <2> QED BY <1>2, <2>1, <2>2, <2>3
<1>4. ASSUME NEW c, c # b, NotIn(c, l) PROVE NotIn(c, Append(l, b))
  BY <1>1, <1>2, <1>4 DEF NotIn
<1>5. ASSUME NEW m, Disjoint(l, m), NotIn(b, m) PROVE Disjoint(Append(l, b), m)
  <2> SUFFICES ASSUME NEW i \in 1..Len(l) + 1, NEW j \in 1..Len(m)
               PROVE  Append(l, b)[i] # m[j]
    BY <1>1 DEF Disjoint
  <2>1. CASE i \in 1..Len(l)
    BY <1>1, <1>5, <2>1 DEF Disjoint
  <2>2. CASE i = Len(l) + 1
    BY <1>1, <1>5, <2>2 DEF NotIn
  <2> QED BY <1>2, <2>1, <2>2
<1> QED BY <1>1, <1>3, <1>4, <1>5

LEMMA Popped ==
    ASSUME NEW l \in Seq(Buffers), l # <<>>, Distinct(l)
    PROVE  /\ Head(l) \in Buffers /\ Tail(l) \in Seq(Buffers)
           /\ Len(Tail(l)) + 1 = Len(l)
           /\ Distinct(Tail(l)) /\ NotIn(Head(l), Tail(l))
           /\ \A c : NotIn(c, l) => c # Head(l) /\ NotIn(c, Tail(l))
           /\ \A m : Disjoint(l, m) => NotIn(Head(l), m) /\ Disjoint(Tail(l), m)
<1>1. /\ Head(l) \in Buffers /\ Tail(l) \in Seq(Buffers)
      /\ Len(l) \in Nat /\ Len(l) >= 1 /\ Len(Tail(l)) = Len(l) - 1
      /\ Head(l) = l[1]
      /\ \A i \in 1..Len(l)-1 : Tail(l)[i] = l[i+1]
  BY HeadTailProperties, EmptySeq, LenProperties
<1>2. \A i \in 1..Len(Tail(l)) : i + 1 \in 1..Len(l) /\ Tail(l)[i] = l[i+1] /\ i + 1 # 1
  BY <1>1
<1>3. 1 \in 1..Len(l)
  BY <1>1
<1>4. Distinct(Tail(l))
  <2> SUFFICES ASSUME NEW i \in 1..Len(Tail(l)), NEW j \in 1..Len(Tail(l)),
                      Tail(l)[i] = Tail(l)[j]
               PROVE  i = j
    BY DEF Distinct
  <2>1. i + 1 = j + 1
    BY <1>2 DEF Distinct
  <2> QED BY <2>1
<1>5. NotIn(Head(l), Tail(l))
  BY <1>1, <1>2, <1>3 DEF Distinct, NotIn
<1>6. ASSUME NEW c, NotIn(c, l) PROVE c # Head(l) /\ NotIn(c, Tail(l))
  BY <1>1, <1>2, <1>3, <1>6 DEF NotIn
<1>7. ASSUME NEW m, Disjoint(l, m) PROVE NotIn(Head(l), m) /\ Disjoint(Tail(l), m)
  BY <1>1, <1>2, <1>3, <1>7 DEF NotIn, Disjoint
<1>8. Len(Tail(l)) + 1 = Len(l)
  BY <1>1
<1> QED BY <1>1, <1>4, <1>5, <1>6, <1>7, <1>8

\* No buffer has the number that stands for none.
LEMMA NoneNowhere ==
    ASSUME NEW l \in Seq(Buffers)
    PROVE  NotIn(NoBuffer, l)
<1>1. NoBuffer \notin Buffers
  BY NBufAssumption DEF Buffers, NoBuffer
<1>2. \A i \in 1..Len(l) : l[i] \in Buffers
  OBVIOUS
<1> QED BY <1>1, <1>2 DEF NotIn

LEMMA Nothing ==
    /\ <<>> \in Seq(Buffers) /\ Len(<<>>) = 0 /\ Distinct(<<>>)
    /\ \A c : NotIn(c, <<>>)
    /\ \A m : Disjoint(<<>>, m) /\ Disjoint(m, <<>>)
<1>1. Len(<<>>) = 0 /\ 1..0 = {}
  OBVIOUS
<1> QED BY <1>1 DEF Distinct, NotIn, Disjoint

-----------------------------------------------------------------------------
(* Steps that touch neither the vectors nor what a thread has in hand      *)

Quiet ==
    \/ CallGet \/ CallDestructor \/ BaseUserStep \/ GetLock \/ GetNoMore \/ GetWait
    \/ CopyOut \/ DeleteBuffers \/ DeleteSon
    \/ CountQueued \/ NextQueued \/ EmptyQueued \/ EmptyGarbage
    \/ BaseProducerStep \/ SourceFrame \/ SourceEnd \/ SetCapacity \/ NewBuffer
    \/ SpuriousWakeProducer \/ SpuriousWakeConsumer
    \/ UNCHANGED vars

Active ==
    \/ GetPop \/ RecycleLoad \/ RecycleStore
    \/ (TakeFree \/ PushLoad \/ PushStore) /\ Base
    \/ GiveBackLoad \/ GiveBackStore
    \/ ClearList \/ EmptyFreeList

LEMMA QuietOrActive ==
    ASSUME [Next]_vars
    PROVE  \/ Active
           \/ Quiet /\ UNCHANGED userVars /\ sonAlive' \in {sonAlive, FALSE}
<1>1. CASE (CallGet \/ CallDestructor) /\ Base
  BY <1>1 DEF Quiet, Base
<1>2. CASE UserStep
  <2>1. CASE BaseUserStep /\ Base
    BY <2>1 DEF Quiet, Base
  <2>2. CASE GetPacket
    BY <2>2 DEF GetPacket, Quiet, Active, Base, CopyOut
  <2>3. CASE DeleteAll
    BY <2>3 DEF DeleteAll, EmptyList, Quiet, Active, DeleteBuffers, DeleteSon,
                CountQueued, NextQueued, EmptyQueued, EmptyGarbage
  <2> QED BY <1>2, <2>1, <2>2, <2>3 DEF UserStep
<1>3. CASE ProducerStep
  <2>1. CASE BaseProducerStep /\ Base
    BY <2>1 DEF Quiet, Base
  <2>2. CASE RunAction
    BY <2>2 DEF RunAction, Active, Quiet, Base
  <2> QED BY <1>3, <2>1, <2>2 DEF ProducerStep
<1>4. CASE Source \/ Spurious
  BY <1>4 DEF Source, Spurious, Quiet, Base
<1>5. CASE UNCHANGED vars
  BY <1>5 DEF Quiet, vars, userVars
<1> QED BY <1>1, <1>2, <1>3, <1>4, <1>5 DEF Next, Done

\* Where a quiet step goes.
LEMMA QuietMoves ==
    ASSUME Quiet, Control
    PROVE  /\ UNCHANGED <<list, freeList, held, stale>>
           /\ ppc' \in HoldingPcs <=> ppc \in HoldingPcs
           /\ upc' \in TakingPcs <=> upc \in TakingPcs
           /\ ppc' = "pushing" <=> ppc = "pushing"
           /\ ppc' = "givingBack" <=> ppc = "givingBack"
           /\ upc' = "recycling" <=> upc = "recycling"
           /\ upc' \notin FreeingPcs => upc \notin FreeingPcs
           /\ ppc' \notin EndedPcs => ppc \notin EndedPcs
           /\ owner' = "user" <=> upc' \in {"look", "recycling", "stopAsk", "baseAsk"}
           /\ owner' = "producer" <=> ppc' \in AppendPcs
           /\ ~started' /\ upc' # "starting" => ppc' = "none"
<1> USE DEF Control, HoldingPcs, TakingPcs, FreeingPcs, DtorPcs, EndedPcs, lists, conds,
            memory, history
<1>1. CASE CallGet \/ CallDestructor
  BY <1>1 DEF CallGet, CallDestructor
<1>2. CASE BaseUserStep
  <2>1. CASE ThreadStarted
    BY <2>1 DEF ThreadStarted
  <2>2. CASE TestRunning
    BY <2>2 DEF TestRunning
  <2>3. CASE GiveStopOrder
    BY <2>3 DEF GiveStopOrder, WakeProducer
  <2>4. CASE PollStopped
    BY <2>4 DEF PollStopped
  <2>5. CASE Join
    BY <2>5 DEF Join
  <2>6. CASE ConsumerLeavesWait
    BY <2>6 DEF ConsumerLeavesWait
  <2> QED BY <1>2, <2>1, <2>2, <2>3, <2>4, <2>5, <2>6 DEF BaseUserStep
<1>3. CASE GetLock \/ GetNoMore \/ GetWait
  BY <1>3 DEF GetLock, GetNoMore, GetWait
<1>4. CASE CopyOut \/ DeleteBuffers \/ DeleteSon
  BY <1>4 DEF CopyOut, DeleteBuffers, DeleteSon
<1>9. CASE CountQueued \/ NextQueued
  BY <1>9 DEF CountQueued, NextQueued
<1>10. CASE EmptyQueued \/ EmptyGarbage
  BY <1>10 DEF EmptyQueued, EmptyGarbage
<1>11. CASE SetCapacity \/ NewBuffer
  BY <1>11 DEF SetCapacity, NewBuffer
<1>5. CASE BaseProducerStep
  <2>1. CASE RunStart
    BY <2>1 DEF RunStart
  <2>2. CASE RunActionDone
    BY <2>2 DEF RunActionDone
  <2>3. CASE DrainPoll
    BY <2>3 DEF DrainPoll, WakeConsumer
  <2>4. CASE SetStopped
    BY <2>4 DEF SetStopped
  <2>5. CASE LastWakePoll
    BY <2>5 DEF LastWakePoll, WakeConsumer
  <2>6. CASE ProducerLeavesWait
    BY <2>6 DEF ProducerLeavesWait
  <2> QED BY <1>5, <2>1, <2>2, <2>3, <2>4, <2>5, <2>6 DEF BaseProducerStep
<1>6. CASE SourceFrame \/ SourceEnd
  BY <1>6 DEF SourceFrame, SourceEnd
<1>7. CASE SpuriousWakeProducer \/ SpuriousWakeConsumer
  BY <1>7 DEF SpuriousWakeProducer, SpuriousWakeConsumer
<1>8. CASE UNCHANGED vars
  BY <1>8 DEF vars, tqVars
<1> QED BY <1>1, <1>2, <1>3, <1>4, <1>5, <1>6, <1>7, <1>8, <1>9, <1>10, <1>11
        DEF Quiet

LEMMA QuietKept ==
    ASSUME IInv, Quiet, UNCHANGED userVars
    PROVE  Control' /\ Vectors' /\ Appends' /\ Complete'
<1>1. UNCHANGED <<list, freeList, held, stale, taken, userStale>>
  BY QuietMoves DEF IInv, userVars
<1>2. Control'
  BY <1>1, QuietMoves DEF IInv, Control
<1>3. Vectors'
  BY <1>1 DEF IInv, Vectors, Clean, Distinct, Disjoint, NotIn
<1>5. Appends'
  <2>1. ppc' = "pushing" => Clean(stale)' /\ Disjoint(stale, freeList)'
    BY <1>1, QuietMoves DEF IInv, Appends, Clean, Distinct, NotIn, Disjoint
  <2>2. ppc' = "givingBack" => Clean(stale)' /\ Disjoint(list, stale)'
    BY <1>1, QuietMoves DEF IInv, Appends, Clean, Distinct, NotIn, Disjoint
  <2>3. upc' = "recycling" => Clean(userStale)' /\ Disjoint(list, userStale)'
    BY <1>1, QuietMoves DEF IInv, Appends, Clean, Distinct, NotIn, Disjoint
  <2> QED BY <2>1, <2>2, <2>3 DEF Appends
<1>6. Complete'
  <2>1. Busy' => Busy
    BY QuietMoves DEF Busy, IInv
  <2> QED BY <1>1, <2>1, QuietMoves DEF IInv, Complete
<1> QED BY <1>2, <1>3, <1>5, <1>6

-----------------------------------------------------------------------------
(* getPacket                                                               *)

\* What the steps below start from.
LEMMA Facts ==
    ASSUME IInv
    PROVE  /\ list \in Seq(Buffers) /\ freeList \in Seq(Buffers)
           /\ stale \in Seq(Buffers) /\ userStale \in Seq(Buffers)
           /\ held \in Buffers \cup {NoBuffer} /\ taken \in Buffers \cup {NoBuffer}
           /\ NoBuffer \notin Buffers
           /\ Len(list) \in Nat /\ Len(freeList) \in Nat
           /\ \A l \in Seq(Buffers) : NotIn(NoBuffer, l)
<1>1. NoBuffer \notin Buffers
  BY NBufAssumption DEF Buffers, NoBuffer
<1>2. list \in Seq(Buffers) /\ freeList \in Seq(Buffers)
  BY DEF IInv, TypeOK
<1> QED BY <1>1, <1>2, NoneNowhere, LenProperties DEF IInv, TypeOK

LEMMA GetPopKept ==
    ASSUME IInv, GetPop
    PROVE  Control' /\ Vectors' /\ Appends' /\ Complete'
<1>1. /\ upc = "look" /\ upc' = "copy" /\ ppc' = ppc /\ owner' = "none"
      /\ list # <<>> /\ taken' = Head(list) /\ list' = Tail(list)
      /\ UNCHANGED <<freeList, held, stale, userStale, started>>
  BY DEF GetPop
<1>2. owner = "user" /\ ppc # "pushing" /\ taken = NoBuffer
  BY <1>1 DEF IInv, Control, TakingPcs
<1>3. Distinct(list)
  BY DEF IInv, Vectors, Clean
<1>4. /\ taken' \in Buffers /\ list' \in Seq(Buffers) /\ Len(list') + 1 = Len(list)
      /\ Distinct(list') /\ NotIn(taken', list')
      /\ \A c : NotIn(c, list) => c # taken' /\ NotIn(c, list')
      /\ \A m : Disjoint(list, m) => NotIn(taken', m) /\ Disjoint(list', m)
  BY <1>1, <1>3, Facts, Popped
<1>5. NotIn(held, list) /\ Disjoint(list, freeList) /\ Clean(freeList)
  BY DEF IInv, Vectors, Clean
<1>6. Control'
  BY <1>1, <1>2, <1>4, Facts DEF IInv, Control, TakingPcs
<1>7. Vectors'
  BY <1>1, <1>4, <1>5 DEF Vectors, Clean, Distinct, NotIn, Disjoint
<1>8. Appends'
  <2>1. ASSUME ppc = "givingBack" PROVE Clean(stale)' /\ Disjoint(list, stale)'
    <3>1. Clean(stale) /\ Disjoint(list, stale)
      BY <2>1 DEF IInv, Appends
    <3>2. NotIn(taken', stale) /\ Disjoint(list', stale)
      BY <1>4, <3>1
    <3> QED BY <1>1, <3>1, <3>2 DEF Clean, Distinct, NotIn, Disjoint
  <2> QED BY <1>1, <1>2, <2>1 DEF Appends
<1>9. Complete'
  <2>1. Busy' => Busy
    BY <1>1 DEF Busy, FreeingPcs, DtorPcs
  <2>2. Busy => Len(list) + Len(freeList) + (IF held = NoBuffer THEN 0 ELSE 1) = NBuf
    <3>1. Busy => Len(list) + Len(freeList) + (IF held = NoBuffer THEN 0 ELSE 1) + 0 = NBuf
      BY <1>2 DEF IInv, Complete
    <3> QED BY <3>1, Facts
  <2>3. Len(list') \in Nat /\ taken' # NoBuffer
    BY <1>4, Facts, LenProperties
  <2> QED BY <1>1, <1>2, <1>4, <2>1, <2>2, <2>3, Facts DEF Complete
<1> QED BY <1>6, <1>7, <1>8, <1>9

LEMMA RecycleLoadKept ==
    ASSUME IInv, RecycleLoad
    PROVE  Control' /\ Vectors' /\ Appends' /\ Complete'
<1>1. /\ upc = "recycle" /\ upc' = "recycling" /\ ppc' = ppc
      /\ owner = "none" /\ owner' = "user" /\ userStale' = freeList
      /\ UNCHANGED <<list, freeList, held, taken, stale, started>>
  BY DEF RecycleLoad, lists
<1>2. ppc # "pushing"
  BY <1>1 DEF IInv, Control
<1>3. Control'
  BY <1>1, <1>2 DEF IInv, Control, TakingPcs
<1>4. Vectors'
  BY <1>1 DEF IInv, Vectors, Clean, Distinct, NotIn, Disjoint
<1>5. Appends'
  <2>1. ppc = "givingBack" => Clean(stale)' /\ Disjoint(list, stale)'
    BY <1>1 DEF IInv, Appends, Clean, Distinct, NotIn, Disjoint
  <2>2. Clean(userStale)' /\ Disjoint(list, userStale)'
    BY <1>1 DEF IInv, Vectors, Clean, Distinct, NotIn, Disjoint
  <2> QED BY <1>1, <1>2, <2>1, <2>2 DEF Appends
<1>6. Complete'
  <2>1. Busy' => Busy
    BY <1>1 DEF Busy, FreeingPcs, DtorPcs
  <2> QED BY <1>1, <1>2, <2>1 DEF IInv, Complete
<1> QED BY <1>3, <1>4, <1>5, <1>6

LEMMA RecycleStoreKept ==
    ASSUME IInv, RecycleStore
    PROVE  Control' /\ Vectors' /\ Appends' /\ Complete'
<1>1. /\ upc = "recycling" /\ upc' = "idle" /\ owner' = "none"
      /\ freeList' = Append(userStale, taken) /\ taken' = NoBuffer
      /\ UNCHANGED <<list, held, stale, started>>
      /\ ppc' = ppc \/ (ppc = "pwait" /\ ppc' = "pwoken")
  BY DEF RecycleStore, WakeProducer
<1>2. owner = "user" /\ ppc # "pushing" /\ taken # NoBuffer /\ taken \in Buffers
  <2>1. taken # NoBuffer
    BY <1>1 DEF IInv, Control, TakingPcs
  <2> QED BY <1>1, <2>1, Facts DEF IInv, Control
<1>3. Clean(userStale) /\ Disjoint(list, userStale)
  BY <1>1 DEF IInv, Appends
<1>4. /\ freeList' \in Seq(Buffers) /\ Len(freeList') = Len(userStale) + 1
      /\ Distinct(freeList')
      /\ \A c : c # taken /\ NotIn(c, userStale) => NotIn(c, freeList')
      /\ \A m : Disjoint(userStale, m) /\ NotIn(taken, m) => Disjoint(freeList', m)
  <2>1. Distinct(userStale) /\ NotIn(taken, userStale)
    BY <1>3 DEF Clean
  <2> QED BY <1>1, <1>2, <2>1, Facts, Appended
<1>5. Clean(list) /\ held # taken
  BY <1>2 DEF IInv, Vectors
<1>6. Disjoint(list, freeList')
  <2>1. Disjoint(userStale, list) /\ NotIn(taken, list)
    BY <1>3, <1>5, Swapped DEF Clean
  <2> QED BY <1>4, <2>1, Swapped
<1>7. Control'
  BY <1>1, <1>2 DEF IInv, Control, TakingPcs, HoldingPcs
<1>8. Vectors'
  <2>1. NotIn(held, freeList') /\ NotIn(NoBuffer, freeList') /\ NotIn(NoBuffer, list)
    BY <1>3, <1>4, <1>5, Facts DEF Clean
  <2>2. Clean(list)' /\ Clean(freeList)'
    BY <1>1, <1>4, <1>5, <2>1 DEF Clean, Distinct, NotIn
  <2>3. Disjoint(list, freeList)'
    BY <1>1, <1>6 DEF Disjoint
  <2> QED BY <1>1, <2>2, <2>3 DEF Vectors
<1>9. Appends'
  <2>1. ASSUME ppc' = "givingBack" PROVE Clean(stale)' /\ Disjoint(list, stale)'
    <3>1. Clean(stale) /\ Disjoint(list, stale)
      BY <1>1, <2>1 DEF IInv, Appends
    <3>2. NotIn(NoBuffer, stale)
      BY Facts
    <3> QED BY <1>1, <3>1, <3>2 DEF Clean, Distinct, NotIn, Disjoint
  <2> QED BY <1>1, <1>2, <2>1 DEF Appends
<1>10. Complete'
  <2>1. Busy' => Busy
    BY <1>1 DEF Busy, FreeingPcs, DtorPcs, EndedPcs
  <2>2. Busy => /\ userStale = freeList
                /\ Len(list) + Len(freeList) + (IF held = NoBuffer THEN 0 ELSE 1) + 1 = NBuf
    BY <1>1, <1>2 DEF IInv, Complete
  <2> QED BY <1>1, <1>2, <1>4, <2>1, <2>2, Facts DEF Complete
<1> QED BY <1>7, <1>8, <1>9, <1>10

-----------------------------------------------------------------------------
(* runAction                                                               *)

LEMMA TakeFreeKept ==
    ASSUME IInv, TakeFree, Base
    PROVE  Control' /\ Vectors' /\ Appends' /\ Complete'
<1>1. /\ ppc = "loop" /\ owner = "none" /\ owner' = owner
      /\ UNCHANGED <<list, stale, upc, taken, userStale, started>>
      /\ \/ /\ ppc' \in {"end", "pwait"} /\ UNCHANGED <<freeList, held>>
         \/ /\ freeList # <<>> /\ ppc' = "source"
            /\ held' = Head(freeList) /\ freeList' = Tail(freeList)
  BY DEF TakeFree, Base, userVars
<1>2. held = NoBuffer /\ upc # "recycling"
  BY <1>1 DEF IInv, Control, HoldingPcs
<1>3. Appends'
  BY <1>1, <1>2 DEF Appends
<1>4. Busy' => Busy
  BY <1>1 DEF Busy, EndedPcs
<1>5. CASE ppc' \in {"end", "pwait"} /\ UNCHANGED <<freeList, held>>
  <2>1. Control'
    BY <1>1, <1>2, <1>5 DEF IInv, Control, HoldingPcs
  <2>2. Vectors'
    BY <1>1, <1>5 DEF IInv, Vectors, Clean, Distinct, NotIn, Disjoint
  <2>3. Complete'
    BY <1>1, <1>2, <1>4, <1>5 DEF IInv, Complete
  <2> QED BY <1>3, <2>1, <2>2, <2>3
<1>6. CASE /\ freeList # <<>> /\ ppc' = "source"
           /\ held' = Head(freeList) /\ freeList' = Tail(freeList)
  <2>1. Distinct(freeList)
    BY DEF IInv, Vectors, Clean
  <2>2. /\ held' \in Buffers /\ freeList' \in Seq(Buffers)
        /\ Len(freeList') + 1 = Len(freeList)
        /\ Distinct(freeList') /\ NotIn(held', freeList')
        /\ \A c : NotIn(c, freeList) => c # held' /\ NotIn(c, freeList')
        /\ \A m : Disjoint(freeList, m) => NotIn(held', m) /\ Disjoint(freeList', m)
    BY <1>6, <2>1, Facts, Popped
  <2>3. Clean(list) /\ NotIn(taken, freeList) /\ Disjoint(freeList, list)
    BY Swapped DEF IInv, Vectors, Clean
  <2>4. Control'
    BY <1>1, <1>2, <1>6, <2>2, Facts DEF IInv, Control, HoldingPcs
  <2>5. Vectors'
    <3>1. Clean(list)' /\ Clean(freeList)'
      BY <1>1, <2>2, <2>3 DEF Clean, Distinct, NotIn
    <3>2. Disjoint(list', freeList')
      BY <1>1, <2>2, <2>3, Swapped
    <3>3. held' # taken'
      BY <1>1, <2>2, <2>3
    <3> QED BY <3>1, <3>2, <3>3 DEF Vectors, Disjoint
  <2>6. Complete'
    <3>1. Busy => Len(list) + Len(freeList) + 0 + (IF taken = NoBuffer THEN 0 ELSE 1) = NBuf
      BY <1>2 DEF IInv, Complete
    <3>2. held' # NoBuffer /\ Len(freeList') \in Nat
      BY <2>2, Facts, LenProperties
    <3> QED BY <1>1, <1>2, <1>4, <1>6, <2>2, <3>1, <3>2, Facts DEF Complete
  <2> QED BY <1>3, <2>4, <2>5, <2>6
<1> QED BY <1>1, <1>5, <1>6

LEMMA PushLoadKept ==
    ASSUME IInv, PushLoad, Base
    PROVE  Control' /\ Vectors' /\ Appends' /\ Complete'
<1>1. /\ ppc = "pushLoad" /\ ppc' = "pushing" /\ owner' = owner /\ stale' = list
      /\ UNCHANGED <<list, freeList, held, upc, taken, userStale, started>>
  BY DEF PushLoad, Base, userVars, lists
<1>2. upc \notin {"look", "recycling", "stopAsk", "baseAsk"}
  BY <1>1 DEF IInv, Control
<1>3. Control'
  BY <1>1, <1>2 DEF IInv, Control, HoldingPcs
<1>4. Vectors'
  BY <1>1 DEF IInv, Vectors, Clean, Distinct, NotIn, Disjoint
<1>5. Appends'
  <2>1. Clean(stale)' /\ Disjoint(stale, freeList)'
    BY <1>1 DEF IInv, Vectors, Clean, Distinct, NotIn, Disjoint
  <2> QED BY <1>1, <1>2, <2>1 DEF Appends
<1>6. Complete'
  <2>1. Busy' => Busy
    BY <1>1 DEF Busy, EndedPcs
  <2> QED BY <1>1, <1>2, <2>1 DEF IInv, Complete
<1> QED BY <1>3, <1>4, <1>5, <1>6

LEMMA PushStoreKept ==
    ASSUME IInv, PushStore, Base
    PROVE  Control' /\ Vectors' /\ Appends' /\ Complete'
<1>1. /\ ppc = "pushing" /\ ppc' = "loop" /\ owner' = "none"
      /\ list' = Append(stale, held) /\ held' = NoBuffer
      /\ UNCHANGED <<freeList, taken, userStale, started>>
      /\ upc' = upc \/ (upc = "cwait" /\ upc' = "cwoken")
  BY DEF PushStore, Base, userVars, WakeConsumer
<1>2. /\ upc \notin {"look", "recycling", "stopAsk", "baseAsk"}
      /\ held # NoBuffer /\ held \in Buffers
  <2>1. held # NoBuffer
    BY <1>1 DEF IInv, Control, HoldingPcs
  <2>2. owner = "producer"
    BY <1>1 DEF IInv, Control
  <2> QED BY <2>1, <2>2, Facts DEF IInv, Control
<1>3. Clean(stale) /\ Disjoint(stale, freeList)
  BY <1>1 DEF IInv, Appends
<1>4. /\ list' \in Seq(Buffers) /\ Len(list') = Len(stale) + 1
      /\ Distinct(list')
      /\ \A c : c # held /\ NotIn(c, stale) => NotIn(c, list')
      /\ \A m : Disjoint(stale, m) /\ NotIn(held, m) => Disjoint(list', m)
  <2>1. Distinct(stale) /\ NotIn(held, stale)
    BY <1>3 DEF Clean
  <2> QED BY <1>1, <1>2, <2>1, Facts, Appended
<1>5. Clean(freeList) /\ held # taken
  BY <1>2 DEF IInv, Vectors
<1>6. Control'
  BY <1>1, <1>2 DEF IInv, Control, HoldingPcs, TakingPcs
<1>7. Vectors'
  <2>1. NotIn(taken, list') /\ NotIn(NoBuffer, list') /\ NotIn(NoBuffer, freeList)
    BY <1>3, <1>4, <1>5, Facts DEF Clean
  <2>2. Clean(list)' /\ Clean(freeList)'
    BY <1>1, <1>4, <1>5, <2>1 DEF Clean, Distinct, NotIn
  <2>3. Disjoint(list', freeList')
    BY <1>1, <1>3, <1>4, <1>5 DEF Clean
  <2> QED BY <1>1, <2>2, <2>3 DEF Vectors, Disjoint
<1>8. Appends'
  BY <1>1, <1>2 DEF Appends
<1>9. Complete'
  <2>1. Busy' => Busy
    BY <1>1 DEF Busy, FreeingPcs, DtorPcs, EndedPcs
  <2>2. Busy => /\ stale = list
                /\ Len(list) + Len(freeList) + 1 + (IF taken = NoBuffer THEN 0 ELSE 1) = NBuf
    BY <1>1, <1>2 DEF IInv, Complete
  <2> QED BY <1>1, <1>2, <1>4, <2>1, <2>2, Facts DEF Complete
<1> QED BY <1>6, <1>7, <1>8, <1>9

LEMMA GiveBackLoadKept ==
    ASSUME IInv, GiveBackLoad
    PROVE  Control' /\ Vectors' /\ Appends' /\ Complete'
<1>1. /\ ppc = "giveBack" /\ ppc' = "givingBack" /\ stale' = freeList
      /\ UNCHANGED <<list, freeList, held, upc, owner, taken, userStale, started>>
  BY DEF GiveBackLoad, userVars, lists
<1>2. Control'
  BY <1>1 DEF IInv, Control, HoldingPcs
<1>3. Vectors'
  BY <1>1 DEF IInv, Vectors, Clean, Distinct, NotIn, Disjoint
<1>4. Appends'
  <2>1. Clean(stale)' /\ Disjoint(list, stale)'
    BY <1>1 DEF IInv, Vectors, Clean, Distinct, NotIn, Disjoint
  <2>2. upc' = "recycling" => Clean(userStale)' /\ Disjoint(list, userStale)'
    BY <1>1 DEF IInv, Appends, Clean, Distinct, NotIn, Disjoint
  <2> QED BY <1>1, <2>1, <2>2 DEF Appends
<1>5. Complete'
  BY <1>1 DEF Complete, Busy, EndedPcs
<1> QED BY <1>2, <1>3, <1>4, <1>5

\* The append without the mutex: what it writes back may be an old freeList,
\* but none of its buffers is anywhere else.
LEMMA GiveBackStoreKept ==
    ASSUME IInv, GiveBackStore
    PROVE  Control' /\ Vectors' /\ Appends' /\ Complete'
<1>1. /\ ppc = "givingBack" /\ ppc' = "end"
      /\ freeList' = Append(stale, held) /\ held' = NoBuffer
      /\ UNCHANGED <<list, upc, owner, taken, userStale, started>>
  BY DEF GiveBackStore, userVars
<1>2. held # NoBuffer /\ held \in Buffers
  <2>1. held # NoBuffer
    BY <1>1 DEF IInv, Control, HoldingPcs
  <2> QED BY <2>1, Facts
<1>3. Clean(stale) /\ Disjoint(list, stale)
  BY <1>1 DEF IInv, Appends
<1>4. /\ Distinct(freeList')
      /\ \A c : c # held /\ NotIn(c, stale) => NotIn(c, freeList')
      /\ \A m : Disjoint(stale, m) /\ NotIn(held, m) => Disjoint(freeList', m)
      /\ freeList' \in Seq(Buffers)
  <2>1. Distinct(stale) /\ NotIn(held, stale)
    BY <1>3 DEF Clean
  <2> QED BY <1>1, <1>2, <2>1, Facts, Appended
<1>5. Clean(list) /\ held # taken
  BY <1>2 DEF IInv, Vectors
<1>6. Control'
  BY <1>1, <1>2 DEF IInv, Control, HoldingPcs
<1>7. Vectors'
  <2>1. NotIn(taken, freeList') /\ NotIn(NoBuffer, freeList') /\ NotIn(NoBuffer, list)
    BY <1>3, <1>4, <1>5, Facts DEF Clean
  <2>2. Clean(list)' /\ Clean(freeList)'
    BY <1>1, <1>4, <1>5, <2>1 DEF Clean, Distinct, NotIn
  <2>3. Disjoint(list', freeList')
    <3>1. Disjoint(stale, list) /\ NotIn(held, list)
      BY <1>3, <1>5, Swapped DEF Clean
    <3>2. Disjoint(freeList', list)
      BY <1>4, <3>1
    <3> QED BY <1>1, <3>2, Swapped
  <2> QED BY <1>1, <2>2, <2>3 DEF Vectors, Disjoint
<1>8. Appends'
  <2>1. ASSUME upc = "recycling" PROVE Clean(userStale)' /\ Disjoint(list, userStale)'
    <3>1. Clean(userStale) /\ Disjoint(list, userStale)
      BY <2>1 DEF IInv, Appends
    <3>2. NotIn(NoBuffer, userStale)
      BY Facts
    <3> QED BY <1>1, <3>1, <3>2 DEF Clean, Distinct, NotIn, Disjoint
  <2> QED BY <1>1, <2>1 DEF Appends
<1>9. Complete'
  BY <1>1 DEF Complete, Busy, EndedPcs
<1> QED BY <1>6, <1>7, <1>8, <1>9

-----------------------------------------------------------------------------
(* The destructor                                                          *)

LEMMA EmptyKept ==
    ASSUME IInv, ClearList \/ EmptyFreeList
    PROVE  Control' /\ Vectors' /\ Appends' /\ Complete'
<1>1. /\ upc \in {"clearList", "emptyFree"} /\ upc' \in {"emptyFree", "deleteBuffers"}
      /\ list' \in {list, <<>>} /\ freeList' \in {freeList, <<>>}
      /\ UNCHANGED <<owner, ppc, held, taken, stale, userStale, started>>
  BY DEF ClearList, EmptyFreeList, userVars
<1>2. Control'
  BY <1>1 DEF IInv, Control, TakingPcs
<1>3. \A m : Disjoint(list, m) => Disjoint(list', m)
  BY <1>1, Nothing
<1>4. Disjoint(list', freeList')
  BY <1>1, Nothing DEF IInv, Vectors
<1>5. Vectors'
  <2>1. Clean(list)'
    BY <1>1, Nothing DEF IInv, Vectors, Clean, Distinct, NotIn
  <2>2. Clean(freeList)'
    BY <1>1, Nothing DEF IInv, Vectors, Clean, Distinct, NotIn
  <2>3. held' # NoBuffer => held' # taken'
    BY <1>1 DEF IInv, Vectors
  <2> QED BY <1>4, <2>1, <2>2, <2>3 DEF Vectors, Disjoint
<1>6. Appends'
  <2>1. ASSUME ppc = "pushing" PROVE Clean(stale)' /\ Disjoint(stale, freeList)'
    <3>1. Clean(stale) /\ Disjoint(stale, freeList)
      BY <2>1 DEF IInv, Appends
    <3>2. Disjoint(stale, freeList')
      BY <1>1, <3>1, Nothing
    <3> QED BY <1>1, <3>1, <3>2 DEF Clean, Distinct, NotIn, Disjoint
  <2>2. ASSUME ppc = "givingBack" PROVE Clean(stale)' /\ Disjoint(list, stale)'
    <3>1. Clean(stale) /\ Disjoint(list, stale)
      BY <2>2 DEF IInv, Appends
    <3>2. Disjoint(list', stale)
      BY <1>3, <3>1
    <3> QED BY <1>1, <3>1, <3>2 DEF Clean, Distinct, NotIn, Disjoint
  <2> QED BY <1>1, <2>1, <2>2 DEF Appends
<1>7. Complete'
  BY <1>1 DEF Complete, Busy, FreeingPcs, DtorPcs
<1> QED BY <1>2, <1>5, <1>6, <1>7

-----------------------------------------------------------------------------
(* Types                                                                   *)

\* list's storage, and what the destructor knows of it.
StorageOK ==
    /\ capacity \in Nat /\ count \in Nat /\ walked \in Nat
    /\ view \in {"none", "kept", "freed"}

\* The steps that change any of it.
StorageSteps == SetCapacity \/ CountQueued \/ NextQueued \/ EmptyQueued

LEMMA StorageMovesOrNot ==
    ASSUME [Next]_vars
    PROVE  StorageSteps \/ UNCHANGED storage
<1>1. CASE (CallGet \/ CallDestructor) /\ Base
  BY <1>1 DEF CallGet, CallDestructor
<1>2. CASE BaseUserStep /\ Base
  BY <1>2 DEF BaseUserStep, ThreadStarted, TestRunning, GiveStopOrder, PollStopped, Join,
              ConsumerLeavesWait
<1>3. CASE GetPacket
  BY <1>3 DEF GetPacket, GetLock, GetNoMore, GetWait, GetPop, CopyOut, RecycleLoad,
              RecycleStore
<1>4. CASE DeleteAll
  BY <1>4 DEF DeleteAll, EmptyList, StorageSteps, EmptyGarbage, ClearList, EmptyFreeList,
              DeleteBuffers, DeleteSon
<1>5. CASE BaseProducerStep /\ Base
  BY <1>5 DEF BaseProducerStep, RunStart, RunActionDone, DrainPoll, SetStopped,
              LastWakePoll, ProducerLeavesWait
<1>6. CASE RunAction
  BY <1>6 DEF RunAction, StorageSteps, TakeFree, NewBuffer, PushLoad, PushStore,
              GiveBackLoad, GiveBackStore
<1>7. CASE Source \/ Spurious
  BY <1>7 DEF Source, Spurious, SourceFrame, SourceEnd, SpuriousWakeProducer,
              SpuriousWakeConsumer
<1>8. CASE UNCHANGED vars
  BY <1>8 DEF vars, tqVars, storage
<1> QED BY <1>1, <1>2, <1>3, <1>4, <1>5, <1>6, <1>7, <1>8
        DEF Next, UserStep, ProducerStep, Done

LEMMA StorageTypes ==
    ASSUME IInv, [Next]_vars
    PROVE  StorageOK'
<1>1. StorageOK /\ Len(list) \in Nat
  BY Facts DEF IInv, TypeOK, StorageOK
<1>2. CASE SetCapacity
  <2>1. (3 * capacity) \div 2 \in Nat
    BY <1>1 DEF StorageOK
  <2> QED BY <1>1, <1>2, <2>1 DEF SetCapacity, Grown, StorageOK
<1>3. CASE CountQueued
  BY <1>1, <1>3 DEF CountQueued, StorageOK
<1>4. CASE NextQueued
  BY <1>1, <1>4 DEF NextQueued, Buffer, StorageOK
<1>5. CASE EmptyQueued
  BY <1>1, <1>5 DEF EmptyQueued, StorageOK
<1>6. CASE UNCHANGED storage
  BY <1>1, <1>6 DEF storage, StorageOK
<1> QED BY <1>2, <1>3, <1>4, <1>5, <1>6, StorageMovesOrNot DEF StorageSteps

LEMMA QuietTypes ==
    ASSUME IInv, Quiet, UNCHANGED userVars, sonAlive' \in {sonAlive, FALSE}, StorageOK'
    PROVE  TypeOK'
<1> DEFINE Flags == /\ threadState \in RunState /\ started \in BOOLEAN
                    /\ owner \in {"none", "user", "producer"}
                    /\ prodWaiting \in BOOLEAN /\ consWaiting \in BOOLEAN
                    /\ upc \in {"idle", "starting"} \cup GetPcs \cup DtorPcs
                    /\ eof \in BOOLEAN
           Data == /\ clockDown \in 0..StopPolls /\ alive \subseteq Buffers
                   /\ contents \in [Buffers -> 0..MaxFrames]
                   /\ produced \in 0..MaxFrames /\ delivered \in Seq(0..MaxFrames)
<1>1. UNCHANGED <<list, freeList, held, stale, taken, userStale>>
  BY QuietMoves DEF IInv, userVars
<1>2. Flags /\ Data /\ Control
  BY DEF IInv, TypeOK
<1>3. Flags'
  <2> USE <1>2 DEF RunState, GetPcs, DtorPcs, FreeingPcs, conds, history
  <2>1. CASE CallGet \/ CallDestructor
    BY <2>1 DEF CallGet, CallDestructor
  <2>2. CASE ThreadStarted \/ TestRunning
    BY <2>2 DEF ThreadStarted, TestRunning
  <2>3. CASE GiveStopOrder \/ PollStopped
    BY <2>3 DEF GiveStopOrder, PollStopped
  <2>4. CASE Join \/ ConsumerLeavesWait
    BY <2>4 DEF Join, ConsumerLeavesWait
  <2>5. CASE GetLock \/ GetNoMore
    BY <2>5 DEF GetLock, GetNoMore
  <2>6. CASE GetWait \/ CopyOut
    BY <2>6 DEF GetWait, CopyOut
  <2>7. CASE DeleteBuffers \/ DeleteSon
    BY <2>7 DEF DeleteBuffers, DeleteSon
  <2>8. CASE RunStart \/ RunActionDone \/ SetStopped
    BY <2>8 DEF RunStart, RunActionDone, SetStopped
  <2>9. CASE DrainPoll \/ LastWakePoll
    BY <2>9 DEF DrainPoll, LastWakePoll, WakeConsumer
  <2>10. CASE ProducerLeavesWait
    BY <2>10 DEF ProducerLeavesWait
  <2>11. CASE SourceFrame \/ SourceEnd
    BY <2>11 DEF SourceFrame, SourceEnd
  <2>12. CASE SpuriousWakeProducer \/ SpuriousWakeConsumer
    BY <2>12 DEF SpuriousWakeProducer, SpuriousWakeConsumer
  <2>13. CASE UNCHANGED vars
    BY <2>13 DEF vars, tqVars
  <2>14. CASE CountQueued \/ NextQueued
    BY <2>14 DEF CountQueued, NextQueued
  <2>15. CASE EmptyQueued \/ EmptyGarbage
    BY <2>15 DEF EmptyQueued, EmptyGarbage
  <2>16. CASE SetCapacity \/ NewBuffer
    BY <2>16 DEF SetCapacity, NewBuffer
  <2> QED BY <2>1, <2>2, <2>3, <2>4, <2>5, <2>6, <2>7, <2>8, <2>9, <2>10, <2>11, <2>12,
             <2>13, <2>14, <2>15, <2>16 DEF Quiet, BaseUserStep, BaseProducerStep
<1>4. Data'
  <2> HIDE DEF Flags
  <2>1. CASE UNCHANGED <<clockDown, alive, contents, produced, delivered>>
    BY <1>2, <2>1
  <2>2. CASE GiveStopOrder \/ PollStopped
    <3>1. clockDown' \in 0..StopPolls
      BY <1>2, <2>2, StopPollsAssumption DEF GiveStopOrder, PollStopped
    <3> QED BY <1>2, <2>2, <3>1 DEF GiveStopOrder, PollStopped, memory, history
  <2>3. CASE CopyOut
    <3>1. contents[taken] \in 0..MaxFrames
      BY <1>2, <2>3, Facts DEF CopyOut, Control, TakingPcs
    <3>2. delivered' \in Seq(0..MaxFrames)
      BY <1>2, <2>3, <3>1, AppendProperties DEF CopyOut
    <3> QED BY <1>2, <2>3, <3>2 DEF CopyOut, memory
  <2>4. CASE DeleteBuffers
    BY <1>2, <2>4 DEF DeleteBuffers, history
  <2>5. CASE SourceFrame
    <3>1. produced' \in 0..MaxFrames
      BY <1>2, <2>5, MaxFramesAssumption DEF SourceFrame
    <3>2. contents' \in [Buffers -> 0..MaxFrames]
      BY <1>2, <2>5, <3>1 DEF SourceFrame
    <3> QED BY <1>2, <2>5, <3>1, <3>2 DEF SourceFrame
  <2>6. \/ UNCHANGED <<clockDown, alive, contents, produced, delivered>>
        \/ GiveStopOrder \/ PollStopped \/ CopyOut \/ DeleteBuffers \/ SourceFrame
    BY DEF Quiet, CallGet, CallDestructor, BaseUserStep, ThreadStarted, TestRunning, Join,
           ConsumerLeavesWait, GetLock, GetNoMore, GetWait, DeleteSon, BaseProducerStep,
           RunStart, RunActionDone, DrainPoll, SetStopped, LastWakePoll, ProducerLeavesWait,
           SourceEnd, SpuriousWakeProducer, SpuriousWakeConsumer, vars, tqVars, memory, history,
           CountQueued, NextQueued, EmptyQueued, EmptyGarbage, SetCapacity, NewBuffer
  <2> QED BY <2>1, <2>2, <2>3, <2>4, <2>5, <2>6
<1>5. sonAlive' \in BOOLEAN
  BY DEF IInv, TypeOK
<1> QED BY <1>1, <1>3, <1>4, <1>5 DEF IInv, TypeOK, StorageOK

LEMMA ActiveTypes ==
    ASSUME IInv, Active, StorageOK'
    PROVE  TypeOK'
<1>0. /\ TypeOK
      /\ list # <<>> => Head(list) \in Buffers /\ Tail(list) \in Seq(Buffers)
      /\ freeList # <<>> => Head(freeList) \in Buffers /\ Tail(freeList) \in Seq(Buffers)
      /\ <<>> \in Seq(Buffers)
  BY HeadTailProperties, Facts, Nothing DEF IInv
<1>1. Control
  BY DEF IInv
<1> USE DEF GetPcs, DtorPcs, FreeingPcs, userVars, lists, conds, history, memory,
            StorageOK
<1>2. CASE GetPop
  BY <1>0, <1>2 DEF GetPop, TypeOK
<1>3. CASE RecycleLoad
  BY <1>0, <1>3 DEF RecycleLoad, TypeOK
<1>4. CASE RecycleStore
  <2>1. taken \in Buffers
    BY <1>1, <1>4, Facts DEF RecycleStore, Control, TakingPcs
  <2>2. freeList' \in Seq(Buffers)
    BY <1>4, <2>1, Facts, AppendProperties DEF RecycleStore
  <2> QED BY <1>0, <1>4, <2>2 DEF RecycleStore, TypeOK
<1>5. CASE TakeFree /\ Base
  <2>1. freeList' \in Seq(Buffers) /\ held' \in Buffers \cup {NoBuffer}
    BY <1>0, <1>5, Facts DEF TakeFree
  <2>2. contents' \in [Buffers -> 0..MaxFrames]
    <3>1. CASE contents' = contents
      BY <1>0, <3>1 DEF TypeOK
    <3>2. CASE contents' = [contents EXCEPT ![Head(freeList)] = Partial]
      <4>1. Partial \in 0..MaxFrames
        BY MaxFramesAssumption DEF Partial
      <4> QED BY <1>0, <3>2, <4>1 DEF TypeOK
    <3> QED BY <1>5, <3>1, <3>2 DEF TakeFree
  <2>3. prodWaiting' \in BOOLEAN
    BY <1>0, <1>5 DEF TakeFree, TypeOK
  <2>4. UNCHANGED <<threadState, started, owner, list, consWaiting, clockDown, upc,
                    stale, alive, produced, delivered, eof, taken, userStale, sonAlive>>
    BY <1>5 DEF TakeFree, Base
  <2> QED BY <1>0, <2>1, <2>2, <2>3, <2>4 DEF TypeOK
<1>6. CASE PushLoad /\ Base
  BY <1>0, <1>6 DEF PushLoad, Base, TypeOK
<1>7. CASE PushStore /\ Base
  <2>1. held \in Buffers
    BY <1>1, <1>7, Facts DEF PushStore, Control, HoldingPcs
  <2>2. list' \in Seq(Buffers)
    BY <1>7, <2>1, Facts, AppendProperties DEF PushStore
  <2> QED BY <1>0, <1>7, <2>2 DEF PushStore, WakeConsumer, Base, TypeOK
<1>8. CASE GiveBackLoad
  BY <1>0, <1>8 DEF GiveBackLoad, TypeOK
<1>9. CASE GiveBackStore
  <2>1. held \in Buffers
    BY <1>1, <1>9, Facts DEF GiveBackStore, Control, HoldingPcs
  <2>2. freeList' \in Seq(Buffers)
    BY <1>9, <2>1, Facts, AppendProperties DEF GiveBackStore
  <2> QED BY <1>0, <1>9, <2>2 DEF GiveBackStore, TypeOK
<1>10. CASE ClearList \/ EmptyFreeList
  BY <1>0, <1>10 DEF ClearList, EmptyFreeList, TypeOK
<1> QED BY <1>2, <1>3, <1>4, <1>5, <1>6, <1>7, <1>8, <1>9, <1>10 DEF Active

-----------------------------------------------------------------------------
(* The theorems                                                            *)

LEMMA InitIInv == Init => IInv
<1> SUFFICES ASSUME Init PROVE IInv
  OBVIOUS
<1> USE NBufAssumption, MaxFramesAssumption, StopPollsAssumption, DefaultSizeAssumption
    DEF Init, TQInit, Buffers, NoBuffer, Partial
<1>1. freeList \in Seq(Buffers) /\ Len(freeList) = NBuf /\ \A i \in 1..NBuf : freeList[i] = i
  OBVIOUS
<1>2. list \in Seq(Buffers) /\ Len(list) = 0
  OBVIOUS
<1>3. TypeOK
  <2>1. contents \in [Buffers -> 0..MaxFrames] /\ produced \in 0..MaxFrames
    OBVIOUS
  <2>2. delivered \in Seq(0..MaxFrames) /\ clockDown \in 0..StopPolls
    OBVIOUS
  <2> QED BY <1>1, <1>2, <2>1, <2>2 DEF TypeOK, RunState
<1>4. Control
  BY DEF Control, HoldingPcs, TakingPcs
<1>5. Vectors
  BY <1>1, <1>2 DEF Vectors, Clean, Distinct, Disjoint, NotIn
<1>6. Appends
  BY DEF Appends
<1>7. Complete
  BY <1>1, <1>2 DEF Complete
<1> QED BY <1>3, <1>4, <1>5, <1>6, <1>7 DEF IInv

THEOREM Invariance == Spec => []IInv
<1>1. IInv /\ [Next]_vars => IInv'
  <2> SUFFICES ASSUME IInv, [Next]_vars PROVE IInv'
    OBVIOUS
  <2>1. CASE Quiet /\ UNCHANGED userVars /\ sonAlive' \in {sonAlive, FALSE}
    BY <2>1, QuietKept, QuietTypes, StorageTypes DEF IInv
  <2>2. CASE Active
    <3>1. Control' /\ Vectors' /\ Appends' /\ Complete'
      BY <2>2, GetPopKept, RecycleLoadKept, RecycleStoreKept, TakeFreeKept,
         PushLoadKept, PushStoreKept, GiveBackLoadKept, GiveBackStoreKept, EmptyKept
         DEF Active
    <3> QED BY <2>2, <3>1, ActiveTypes, StorageTypes DEF IInv
  <2> QED BY <2>1, <2>2, QuietOrActive
<1> QED BY InitIInv, <1>1, PTL DEF Spec

\* Every variable keeps to its range, for every number of buffers, packets
\* and polls.
THEOREM TypeCorrect == Spec => []TypeOK
<1>1. IInv => TypeOK
  BY DEF IInv
<1> QED BY Invariance, <1>1, PTL

\* No buffer is in two places, and until the son has ended or the destructor
\* is past its stop none is lost.
THEOREM BuffersKept == Spec => []NoBufferTwice
<1>1. IInv => NoBufferTwice
  <2> SUFFICES ASSUME IInv PROVE NoBufferTwice
    OBVIOUS
  <2>1. /\ InLists \in Seq(Buffers) /\ Len(InLists) = Len(list) + Len(freeList)
        /\ \A i \in 1..Len(InLists) :
             InLists[i] = IF i <= Len(list) THEN list[i] ELSE freeList[i - Len(list)]
        /\ DOMAIN InLists = 1..Len(InLists)
    BY Facts, ConcatProperties, LenProperties DEF InLists
  <2>2. \A i \in 1..Len(InLists) :
          \/ i \in 1..Len(list) /\ InLists[i] = list[i]
          \/ /\ i \notin 1..Len(list) /\ i - Len(list) \in 1..Len(freeList)
             /\ InLists[i] = freeList[i - Len(list)]
    BY <2>1, Facts
  <2>3. \A i, j \in DOMAIN InLists : i # j => InLists[i] # InLists[j]
    <3> SUFFICES ASSUME NEW i \in 1..Len(InLists), NEW j \in 1..Len(InLists),
                        InLists[i] = InLists[j]
                 PROVE  i = j
      BY <2>1
    <3>1. CASE i \in 1..Len(list) /\ j \in 1..Len(list)
      BY <2>2, <3>1 DEF IInv, Vectors, Clean, Distinct
    <3>2. CASE i \notin 1..Len(list) /\ j \notin 1..Len(list)
      <4>1. i - Len(list) = j - Len(list)
        BY <2>2, <3>2 DEF IInv, Vectors, Clean, Distinct
      <4> QED BY <4>1, Facts
    <3>3. CASE i \in 1..Len(list) /\ j \notin 1..Len(list)
      BY <2>2, <3>3 DEF IInv, Vectors, Disjoint
    <3>4. CASE i \notin 1..Len(list) /\ j \in 1..Len(list)
      BY <2>2, <3>4 DEF IInv, Vectors, Disjoint
    <3> QED BY <3>1, <3>2, <3>3, <3>4
  <2>4. \A i \in DOMAIN InLists : InLists[i] \notin Hands
    BY <2>1, <2>2 DEF IInv, Vectors, Clean, NotIn, Hands
  <2>5. held # NoBuffer => held # taken
    BY DEF IInv, Vectors
  <2>6. ASSUME upc \notin FreeingPcs, ppc \in {"loop", "pwait", "pwoken", "source", "push", "growing", "pushLoad"}
        PROVE  Len(InLists) + (IF held = NoBuffer THEN 0 ELSE 1)
                 + (IF taken = NoBuffer THEN 0 ELSE 1) = NBuf
    <3>1. Busy
      BY <2>6 DEF Busy, EndedPcs
    <3> QED BY <2>1, <3>1 DEF IInv, Complete
  <2> QED BY <2>3, <2>4, <2>5, <2>6 DEF NoBufferTwice
<1> QED BY Invariance, <1>1, PTL

-----------------------------------------------------------------------------
(* The storage of list                                                     *)

\* The stop order has been given, or there was nobody to give it to.
Told == upc \in {"stopPoll"} \cup FreeingPcs
EndPcs == {"none", "lastWake", "exited"}
\* The destructor has not cleared list yet.
ListKept == upc \notin FreeingPcs \ WalkPcs

\* What threadState says of the thread.
Stopping ==
    /\ threadState = "Idle" <=> ppc \in {"none", "spawned"}
    /\ ppc = "spawned" => upc = "starting"
    /\ threadState = "Stopped" => ppc \in {"lastWake", "exited"}
    /\ threadState = "StopOrder" => Told
    /\ Told => threadState = "StopOrder" \/ ppc \in EndPcs
    /\ upc \in {"stopAsk", "baseAsk"} => ppc \notin {"none", "spawned"}

\* The storage of list is replaced only by the append of a packet that fills
\* it.  While the destructor walks through it, the thread that all polls have
\* waited for in vain appends at most the packet it has at that moment.
Storage ==
    /\ capacity >= DefaultSize
    /\ ppc = "growing" /\ ListKept => Len(list) >= DefaultSize - 1
    /\ upc \in WalkPcs => clockDown = 0 \/ ppc \in EndPcs
    /\ upc \in {"nextQueued", "emptyQueued"} /\ ppc \in PushPcs \cup {"source"} =>
         Len(list) = count
    /\ upc \notin {"nextQueued", "emptyQueued", "undefined"} => view = "none"
    /\ upc \in {"nextQueued", "emptyQueued"} /\ view = "freed" =>
         clockDown = 0 /\ count >= DefaultSize - 1

Walking == Stopping /\ Storage

\* The steps of the user's thread, and those of the other.
LEMMA UserWalks ==
    ASSUME IInv, Walking, ((CallGet \/ CallDestructor) /\ Base) \/ UserStep
    PROVE  Walking'
<1>a. /\ list \in Seq(Buffers) /\ Len(list) \in Nat /\ clockDown \in Nat
      /\ capacity \in Nat /\ count \in Nat /\ walked \in Nat
      /\ threadState \in RunState /\ Control
  BY Facts, StopPollsAssumption DEF IInv, TypeOK
<1> USE <1>a, DefaultSizeAssumption
    DEF Walking, Stopping, Storage, Told, EndPcs, ListKept, Control, lists, conds,
        history, memory, storage
<1>1. CASE CallGet \/ CallDestructor
  BY <1>1 DEF CallGet, CallDestructor
<1>2. CASE ThreadStarted
  BY <1>2 DEF ThreadStarted
<1>3. CASE TestRunning
  BY <1>3 DEF TestRunning, RunState
<1>4. CASE GiveStopOrder
  BY <1>4 DEF GiveStopOrder, WakeProducer
<1>5. CASE PollStopped
  BY <1>5 DEF PollStopped
<1>6. CASE Join \/ ConsumerLeavesWait
  BY <1>6 DEF Join, ConsumerLeavesWait
<1>7. CASE GetLock \/ GetNoMore \/ GetWait
  BY <1>7 DEF GetLock, GetNoMore, GetWait
<1>8. CASE GetPop
  BY <1>8 DEF GetPop
<1>9. CASE CopyOut \/ RecycleLoad
  BY <1>9 DEF CopyOut, RecycleLoad
<1>10. CASE RecycleStore
  BY <1>10 DEF RecycleStore, WakeProducer
<1>11. CASE CountQueued
  BY <1>11 DEF CountQueued
<1>12. CASE NextQueued
  BY <1>12 DEF NextQueued, Buffer
<1>13. CASE EmptyQueued \/ EmptyGarbage
  BY <1>13 DEF EmptyQueued, EmptyGarbage
<1>14. CASE ClearList \/ EmptyFreeList
  BY <1>14 DEF ClearList, EmptyFreeList
<1>15. CASE DeleteBuffers \/ DeleteSon
  BY <1>15 DEF DeleteBuffers, DeleteSon
<1> QED BY <1>1, <1>2, <1>3, <1>4, <1>5, <1>6, <1>7, <1>8, <1>9, <1>10, <1>11, <1>12,
           <1>13, <1>14, <1>15
        DEF UserStep, BaseUserStep, GetPacket, DeleteAll, EmptyList

LEMMA ProducerWalks ==
    ASSUME IInv, Walking, ProducerStep \/ Source \/ Spurious \/ UNCHANGED vars
    PROVE  Walking'
<1>a. /\ list \in Seq(Buffers) /\ Len(list) \in Nat /\ clockDown \in Nat
      /\ capacity \in Nat /\ count \in Nat /\ walked \in Nat
      /\ threadState \in RunState /\ Control
  BY Facts, StopPollsAssumption DEF IInv, TypeOK
<1> USE <1>a, DefaultSizeAssumption
    DEF Walking, Stopping, Storage, Told, EndPcs, ListKept, Control, lists, conds,
        history, memory, storage
<1>1. CASE RunStart \/ RunActionDone
  BY <1>1 DEF RunStart, RunActionDone
<1>2. CASE DrainPoll
  BY <1>2 DEF DrainPoll, WakeConsumer
<1>3. CASE SetStopped
  BY <1>3 DEF SetStopped
<1>4. CASE LastWakePoll
  BY <1>4 DEF LastWakePoll, WakeConsumer
<1>5. CASE ProducerLeavesWait
  BY <1>5 DEF ProducerLeavesWait
<1>6. CASE TakeFree
  <2>1. /\ ppc = "loop" /\ ppc' \in {"end", "pwait", "source"}
        /\ ppc' = "source" => threadState # "StopOrder"
        /\ UNCHANGED <<threadState, list, clockDown, upc, capacity, view, count, walked>>
    BY <1>6 DEF TakeFree
  <2> QED BY <2>1
<1>7. CASE SetCapacity
  <2>1. /\ ppc = "push" /\ UNCHANGED <<threadState, list, clockDown, upc, count, walked>>
        /\ \/ ppc' = "pushLoad" /\ UNCHANGED <<capacity, view>>
           \/ /\ ppc' = "growing" /\ Len(list) + 1 >= capacity
              /\ capacity' = Grown(Len(list) + 1)
              /\ view' = IF view = "kept" THEN "freed" ELSE view
    BY <1>7 DEF SetCapacity
  <2>2. CASE ppc' = "pushLoad" /\ UNCHANGED <<capacity, view>>
    BY <2>1, <2>2
  <2>3. CASE /\ ppc' = "growing" /\ Len(list) + 1 >= capacity
             /\ capacity' = Grown(Len(list) + 1)
             /\ view' = IF view = "kept" THEN "freed" ELSE view
    <3>1. capacity' >= DefaultSize
      <4>1. (3 * capacity) \div 2 \in Nat /\ Len(list) + 1 >= DefaultSize
        BY <2>3
      <4> QED BY <2>3, <4>1 DEF Grown
    <3>2. Len(list) >= DefaultSize - 1
      BY <2>3
    <3> QED BY <2>1, <2>3, <3>1, <3>2
  <2> QED BY <2>1, <2>2, <2>3
<1>8. CASE NewBuffer \/ PushLoad
  BY <1>8 DEF NewBuffer, PushLoad
<1>9. CASE PushStore
  BY <1>9 DEF PushStore, WakeConsumer
<1>10. CASE GiveBackLoad \/ GiveBackStore
  BY <1>10 DEF GiveBackLoad, GiveBackStore
<1>11. CASE SourceFrame \/ SourceEnd
  BY <1>11 DEF SourceFrame, SourceEnd
<1>12. CASE Spurious
  BY <1>12 DEF Spurious, SpuriousWakeProducer, SpuriousWakeConsumer
<1>13. CASE UNCHANGED vars
  BY <1>13 DEF vars, tqVars
<1> QED BY <1>1, <1>2, <1>3, <1>4, <1>5, <1>6, <1>7, <1>8, <1>9, <1>10, <1>11, <1>12,
           <1>13
        DEF ProducerStep, BaseProducerStep, RunAction, Source

\* The destructor clears the data of its packets in a storage that append has
\* deleted only if all polls of stopThread were in vain, and never with fewer
\* than DefaultSize - 1 packets queued.
THEOREM StorageSafety == Spec => []WrittenAfterDeleteOnlyAtGrowth
<1>1. Init => Walking
  BY DefaultSizeAssumption
     DEF Init, TQInit, Walking, Stopping, Storage, Told, EndPcs, ListKept
<1>2. IInv /\ Walking /\ [Next]_vars => Walking'
  BY UserWalks, ProducerWalks DEF Next, Done
<1>3. Walking => WrittenAfterDeleteOnlyAtGrowth
  BY DEF Walking, Storage, WrittenAfterDeleteOnlyAtGrowth
<1> QED BY <1>1, <1>2, <1>3, Invariance, PTL DEF Spec

-----------------------------------------------------------------------------
(* The packets                                                             *)

\* The packet getPacket has popped and not copied yet; the one the thread has
\* and has not queued yet.
InHand == IF upc = "copy" THEN 1 ELSE 0
Made == IF ppc \in PushPcs THEN 1 ELSE 0

\* Until the destructor is called, what was read from the son and not handed
\* out is in hand, in the list and with the thread, in that order; and the
\* thread calls itself stopped only when it has nothing more to do.
Packets ==
    /\ threadState = "Stopped" => ppc \in {"lastWake", "exited"}
    /\ upc \notin DtorPcs =>
         /\ produced = Len(delivered) + InHand + Len(list) + Made
         /\ upc = "copy" => contents[taken] = Len(delivered) + 1
         /\ \A i \in 1..Len(list) : contents[list[i]] = Len(delivered) + InHand + i
         /\ Made = 1 => contents[held] = produced

\* Steps that leave the packets where they are.
Still ==
    /\ UNCHANGED <<list, contents, delivered, produced, InHand, Made>>
    /\ InHand = 1 => taken' = taken
    /\ Made = 1 => held' = held

LEMMA StillKept ==
    ASSUME Packets, Still, upc' \notin DtorPcs => upc \notin DtorPcs,
           threadState' = "Stopped" => ppc' \in {"lastWake", "exited"}
    PROVE  Packets'
<1> SUFFICES ASSUME upc' \notin DtorPcs
    PROVE  /\ produced' = Len(delivered') + InHand' + Len(list') + Made'
           /\ upc' = "copy" => contents'[taken'] = Len(delivered') + 1
           /\ \A i \in 1..Len(list') : contents'[list'[i]] = Len(delivered') + InHand' + i
           /\ Made' = 1 => contents'[held'] = produced'
  BY DEF Packets
<1>1. /\ upc' = "copy" <=> InHand' = 1
      /\ upc = "copy" <=> InHand = 1
  BY DEF InHand
<1>2. upc' = "copy" => contents'[taken'] = Len(delivered') + 1
  BY <1>1 DEF Packets, Still
<1>3. Made' = 1 => contents'[held'] = produced'
  BY DEF Packets, Still
<1> QED BY <1>2, <1>3 DEF Packets, Still

\* The steps that move one: all others are still.
Moving ==
    \/ GetPop \/ CopyOut
    \/ (SourceFrame \/ TakeFree \/ PushStore) /\ Base

\* Of these, some end the queue; all others change nothing a user can see.
Ending == GetNoMore \/ CallDestructor \/ SourceEnd
Silent ==
    /\ eof' = eof
    /\ upc' \in DtorPcs <=> upc \in DtorPcs
    /\ ppc' \in EndedPcs <=> ppc \in EndedPcs

LEMMA MovingOrStill ==
    ASSUME IInv, Packets, [Next]_vars
    PROVE  \/ Moving
           \/ ClearList
           \/ /\ Still /\ (upc' \notin DtorPcs => upc \notin DtorPcs)
              /\ threadState' = "Stopped" => ppc' \in {"lastWake", "exited"}
              /\ Ending \/ Silent
<1>a. Control /\ (threadState = "Stopped" => ppc \in {"lastWake", "exited"})
  BY DEF IInv, Packets
<1>b. UserStep => (BaseUserStep /\ Base) \/ GetPacket \/ DeleteAll
  BY DEF UserStep
<1>c. GetPacket => \/ (GetLock \/ GetNoMore \/ GetWait) /\ Base
                   \/ RecycleLoad \/ RecycleStore \/ Moving
  BY DEF GetPacket, Moving
<1>d. DeleteAll => \/ CountQueued \/ NextQueued \/ EmptyQueued \/ EmptyGarbage
                   \/ ClearList \/ EmptyFreeList \/ DeleteBuffers \/ DeleteSon
  BY DEF DeleteAll, EmptyList
<1>e. BaseUserStep => \/ ThreadStarted \/ TestRunning \/ GiveStopOrder
                      \/ PollStopped \/ Join \/ ConsumerLeavesWait
  BY DEF BaseUserStep
<1> USE <1>a DEF Still, Ending, Silent, InHand, Made, DtorPcs,
                 FreeingPcs, EndedPcs, Base, userVars, lists, conds, memory,
                 history
<1>1. CASE (CallGet \/ CallDestructor) /\ Base
  BY <1>1 DEF CallGet, CallDestructor, Control
<1>2. CASE UserStep
  <2>1. CASE (ThreadStarted \/ TestRunning) /\ Base
    BY <2>1 DEF ThreadStarted, TestRunning
  <2>2. CASE GiveStopOrder /\ Base
    BY <2>2 DEF GiveStopOrder, WakeProducer
  <2>3. CASE (PollStopped \/ Join \/ ConsumerLeavesWait) /\ Base
    BY <2>3 DEF PollStopped, Join, ConsumerLeavesWait
  <2>4. CASE (GetLock \/ GetNoMore \/ GetWait) /\ Base
    BY <2>4 DEF GetLock, GetNoMore, GetWait
  <2>5. CASE RecycleLoad
    BY <2>5 DEF RecycleLoad
  <2>6. CASE RecycleStore
    BY <2>6 DEF RecycleStore, WakeProducer
  <2>7. CASE EmptyFreeList \/ DeleteBuffers \/ DeleteSon
    BY <2>7 DEF EmptyFreeList, DeleteBuffers, DeleteSon
  <2>8. CASE CountQueued \/ NextQueued
    BY <2>8 DEF CountQueued, NextQueued
  <2>9. CASE EmptyQueued \/ EmptyGarbage
    BY <2>9 DEF EmptyQueued, EmptyGarbage
  <2> QED BY <1>2, <1>b, <1>c, <1>d, <1>e, <2>1, <2>2, <2>3, <2>4, <2>5, <2>6, <2>7, <2>8,
             <2>9
<1>3. CASE ProducerStep
  <2>1. CASE (RunStart \/ RunActionDone \/ SetStopped) /\ Base
    BY <2>1 DEF RunStart, RunActionDone, SetStopped
  <2>2. CASE (DrainPoll \/ LastWakePoll) /\ Base
    BY <2>2 DEF DrainPoll, LastWakePoll, WakeConsumer
  <2>3. CASE ProducerLeavesWait /\ Base
    BY <2>3 DEF ProducerLeavesWait
  <2>4. CASE PushLoad /\ Base
    BY <2>4 DEF PushLoad
  <2>5. CASE GiveBackLoad \/ GiveBackStore
    BY <2>5 DEF GiveBackLoad, GiveBackStore
  <2>6. CASE (SetCapacity \/ NewBuffer) /\ Base
    BY <2>6 DEF SetCapacity, NewBuffer
  <2> QED BY <1>3, <2>1, <2>2, <2>3, <2>4, <2>5, <2>6
          DEF ProducerStep, BaseProducerStep, RunAction, Moving
<1>4. CASE SourceEnd /\ Base
  BY <1>4 DEF SourceEnd
<1>5. CASE Spurious
  BY <1>5 DEF Spurious, SpuriousWakeProducer, SpuriousWakeConsumer
<1>6. CASE UNCHANGED vars
  BY <1>6 DEF vars, tqVars
<1>7. Source => (SourceEnd /\ Base) \/ (SourceFrame /\ Base)
  BY DEF Source
<1> QED BY <1>1, <1>2, <1>3, <1>4, <1>5, <1>6, <1>7 DEF Next, Done, Moving

LEMMA PacketsKept ==
    ASSUME IInv, IInv', Packets, [Next]_vars
    PROVE  Packets'
<1>a. /\ Control /\ Vectors /\ Complete
      /\ threadState = "Stopped" => ppc \in {"lastWake", "exited"}
      /\ contents \in [Buffers -> 0..MaxFrames]
      /\ Len(list) \in Nat /\ Len(delivered) \in Nat /\ produced \in Nat
  <2>1. delivered \in Seq(0..MaxFrames) /\ produced \in 0..MaxFrames
        /\ contents \in [Buffers -> 0..MaxFrames]
    BY DEF IInv, TypeOK
  <2>2. Len(list) \in Nat /\ Len(delivered) \in Nat /\ produced \in Nat
    BY <2>1, Facts, LenProperties, MaxFramesAssumption
  <2> QED BY <2>1, <2>2 DEF IInv, Packets
<1>b. \A i \in 1..Len(list) : list[i] \in Buffers
  BY Facts
<1> USE DEF Base, userVars
<1>1. CASE ClearList
  BY <1>1, <1>a DEF ClearList, Packets, DtorPcs, FreeingPcs
<1>2. CASE GetPop
  <2>1. /\ upc = "look" /\ upc' = "copy" /\ list # <<>> /\ ppc' = ppc
        /\ taken' = Head(list) /\ list' = Tail(list)
        /\ UNCHANGED <<threadState, contents, delivered, produced, held>>
    BY <1>2 DEF GetPop, memory, history
  <2>2. /\ Len(list') = Len(list) - 1 /\ Len(list) >= 1
        /\ taken' = list[1]
        /\ \A i \in 1..Len(list') : list'[i] = list[i + 1] /\ i + 1 \in 1..Len(list)
    BY <2>1, <1>a, Facts, HeadTailProperties, EmptySeq
  <2>3. InHand = 0 /\ InHand' = 1 /\ Made' = Made /\ upc \notin DtorPcs
    BY <2>1 DEF InHand, Made, DtorPcs
  <2>4. /\ produced = Len(delivered) + 0 + Len(list) + Made /\ Made \in {0, 1}
        /\ \A i \in 1..Len(list) : contents[list[i]] = Len(delivered) + i
        /\ Made = 1 => contents[held] = produced
    BY <2>3, <1>a DEF Packets, Made
  <2>5. contents'[taken'] = Len(delivered') + 1
    BY <2>1, <2>2, <2>4, <1>a
  <2>6. ASSUME NEW i \in 1..Len(list')
        PROVE  contents'[list'[i]] = Len(delivered') + 1 + i
    <3>1. contents[list[i + 1]] = Len(delivered) + (i + 1)
      BY <2>2, <2>4
    <3> QED BY <2>1, <2>2, <3>1, <1>a
  <2>7. produced' = Len(delivered') + 1 + Len(list') + Made'
    BY <2>1, <2>2, <2>3, <2>4, <1>a
  <2> QED BY <1>a, <2>1, <2>3, <2>4, <2>5, <2>6, <2>7 DEF Packets
<1>3. CASE CopyOut
  <2>1. /\ upc = "copy" /\ upc' = "recycle" /\ ppc' = ppc
        /\ delivered' = Append(delivered, contents[taken])
        /\ UNCHANGED <<threadState, contents, list, produced, held, taken>>
    BY <1>3 DEF CopyOut, memory, lists
  <2>2. InHand = 1 /\ InHand' = 0 /\ Made' = Made /\ upc \notin DtorPcs
    BY <2>1 DEF InHand, Made, DtorPcs
  <2>3. Len(delivered') = Len(delivered) + 1
    BY <1>a, <2>1, AppendProperties DEF IInv, TypeOK
  <2>4. /\ produced = Len(delivered) + 1 + Len(list) + Made /\ Made \in {0, 1}
        /\ \A i \in 1..Len(list) : contents[list[i]] = Len(delivered) + 1 + i
        /\ Made = 1 => contents[held] = produced
    BY <2>2, <1>a DEF Packets, Made
  <2>5. produced' = Len(delivered') + 0 + Len(list') + Made'
    BY <2>1, <2>2, <2>3, <2>4, <1>a
  <2>6. \A i \in 1..Len(list') : contents'[list'[i]] = Len(delivered') + 0 + i
    BY <2>1, <2>3, <2>4, <1>a
  <2> QED BY <1>a, <2>1, <2>2, <2>4, <2>5, <2>6 DEF Packets
<1>4. CASE SourceFrame /\ Base
  <2>1. /\ ppc = "source" /\ ppc' = "push" /\ produced' = produced + 1 /\ upc' = upc
        /\ contents' = [contents EXCEPT ![held] = produced + 1]
        /\ UNCHANGED <<threadState, list, delivered, held, taken>>
    BY <1>4 DEF SourceFrame, lists
  <2>2. held # NoBuffer /\ held \in Buffers /\ NotIn(held, list) /\ held # taken
    BY <1>a, <2>1, Facts DEF Control, HoldingPcs, Vectors, Clean
  <2>3. Made = 0 /\ Made' = 1 /\ InHand' = InHand /\ InHand \in {0, 1}
    BY <2>1 DEF Made, InHand
  <2>4. contents'[held] = produced' /\ \A b \in Buffers : b # held => contents'[b] = contents[b]
    BY <1>a, <2>1, <2>2
  <2>5. \A i \in 1..Len(list) : contents'[list[i]] = contents[list[i]]
    BY <1>b, <2>2, <2>4 DEF NotIn
  <2>6. upc = "copy" => contents'[taken] = contents[taken]
    <3>1. upc = "copy" => taken \in Buffers
      BY <1>a, Facts DEF Control, TakingPcs
    <3> QED BY <2>2, <2>4, <3>1
  <2>7. upc \notin DtorPcs => produced' = Len(delivered') + InHand' + Len(list') + Made'
    BY <1>a, <2>1, <2>3 DEF Packets
  <2> QED BY <1>a, <2>1, <2>3, <2>4, <2>5, <2>6, <2>7 DEF Packets
<1>5. CASE TakeFree /\ Base
  <2>1. /\ ppc = "loop" /\ upc' = upc
        /\ UNCHANGED <<threadState, list, delivered, produced, taken>>
        /\ ppc' \in {"end", "pwait", "source"}
        /\ \/ contents' = contents
           \/ freeList # <<>> /\ contents' = [contents EXCEPT ![Head(freeList)] = Partial]
    BY <1>5 DEF TakeFree, history
  <2>2. Made = 0 /\ Made' = 0 /\ InHand' = InHand
    BY <2>1 DEF Made, InHand
  <2>3. /\ \A i \in 1..Len(list) : contents'[list[i]] = contents[list[i]]
        /\ upc = "copy" => contents'[taken] = contents[taken]
    <3>1. CASE contents' = contents
      BY <3>1
    <3>2. CASE freeList # <<>> /\ contents' = [contents EXCEPT ![Head(freeList)] = Partial]
      <4>1. Head(freeList) = freeList[1] /\ 1 \in 1..Len(freeList)
        BY <3>2, Facts, HeadTailProperties, EmptySeq
      <4>2. NotIn(Head(freeList), list) /\ Head(freeList) # taken
        BY <4>1, <1>a DEF Vectors, Clean, NotIn, Disjoint
      <4>3. upc = "copy" => taken \in Buffers
        BY <1>a, Facts DEF Control, TakingPcs
      <4> QED BY <1>a, <1>b, <3>2, <4>2, <4>3 DEF NotIn
    <3> QED BY <2>1, <3>1, <3>2
  <2> QED BY <1>a, <2>1, <2>2, <2>3 DEF Packets
<1>6. CASE PushStore /\ Base
  <2>1. /\ ppc = "pushing" /\ ppc' = "loop" /\ list' = Append(stale, held)
        /\ upc' = upc \/ (upc = "cwait" /\ upc' = "cwoken")
        /\ UNCHANGED <<threadState, contents, delivered, produced, taken>>
    BY <1>6 DEF PushStore, WakeConsumer, memory, history
  <2> SUFFICES ASSUME upc' \notin DtorPcs
      PROVE  /\ produced' = Len(delivered') + InHand' + Len(list') + Made'
             /\ upc' = "copy" => contents'[taken'] = Len(delivered') + 1
             /\ \A i \in 1..Len(list') : contents'[list'[i]] = Len(delivered') + InHand' + i
             /\ Made' = 1 => contents'[held'] = produced'
    BY <1>a, <2>1 DEF Packets
  <2>2. /\ upc \notin DtorPcs /\ (upc' = "copy" <=> upc = "copy")
        /\ InHand' = InHand /\ InHand \in {0, 1} /\ Made = 1 /\ Made' = 0
    BY <2>1 DEF DtorPcs, InHand, Made
  <2>3. stale = list /\ held \in Buffers
    <3>1. stale = list
      BY <1>a, <2>1, <2>2 DEF Complete, Busy, DtorPcs, EndedPcs
    <3>2. held # NoBuffer
      BY <1>a, <2>1 DEF Control, HoldingPcs
    <3> QED BY <3>1, <3>2, Facts
  <2>4. /\ Len(list') = Len(list) + 1 /\ list'[Len(list) + 1] = held
        /\ \A i \in 1..Len(list) : list'[i] = list[i]
    BY <2>1, <2>3, Facts, AppendProperties
  <2>5. /\ produced = Len(delivered) + InHand + Len(list) + 1
        /\ upc = "copy" => contents[taken] = Len(delivered) + 1
        /\ \A i \in 1..Len(list) : contents[list[i]] = Len(delivered) + InHand + i
        /\ contents[held] = produced
    BY <2>2 DEF Packets
  <2>6. \A i \in 1..Len(list') : contents'[list'[i]] = Len(delivered') + InHand' + i
    <3>1. \A i \in 1..Len(list) + 1 : i \in 1..Len(list) \/ i = Len(list) + 1
      BY <1>a
    <3>2. contents[held] = Len(delivered) + InHand + (Len(list) + 1)
      BY <1>a, <2>2, <2>5
    <3> QED BY <2>1, <2>2, <2>4, <2>5, <3>1, <3>2
  <2>7. produced' = Len(delivered') + InHand' + Len(list') + Made'
    BY <1>a, <2>1, <2>2, <2>4, <2>5
  <2> QED BY <2>1, <2>2, <2>5, <2>6, <2>7
<1> QED BY <1>1, <1>2, <1>3, <1>4, <1>5, <1>6, MovingOrStill, StillKept DEF Moving

-----------------------------------------------------------------------------
(* The queue is a FrameFifo: packets are numbered, so that what is queued  *)
(* follows from how many were handed out and how many are left, the one    *)
(* that getPacket has in hand and those in the list                        *)

\* The packets from number d + 1 on, n of them.
PacketsFrom(d, n) == [i \in 1..n |-> d + i]

\* Making, handing out and counting consecutive packets.
LEMMA Consecutive ==
  ASSUME NEW d \in Nat, NEW n \in Nat
  PROVE  /\ PacketsFrom(d, n) \in Seq(Nat) /\ Len(PacketsFrom(d, n)) = n
         /\ Append(PacketsFrom(d, n), d + n + 1) = PacketsFrom(d, n + 1)
         /\ n = 0 => PacketsFrom(d, n) = <<>>
         /\ n # 0 => /\ PacketsFrom(d, n) # <<>>
                     /\ Head(PacketsFrom(d, n)) = d + 1
                     /\ Tail(PacketsFrom(d, n)) = PacketsFrom(d + 1, n - 1)
<1>1. PacketsFrom(d, n) \in Seq(Nat) /\ Len(PacketsFrom(d, n)) = n
  BY DEF PacketsFrom
<1>2. Append(PacketsFrom(d, n), d + n + 1) = PacketsFrom(d, n + 1)
  BY DEF PacketsFrom
<1>3. n = 0 => PacketsFrom(d, n) = <<>>
  BY <1>1
<1>4. n # 0 => /\ PacketsFrom(d, n) # <<>>
               /\ Head(PacketsFrom(d, n)) = d + 1
               /\ Tail(PacketsFrom(d, n)) = PacketsFrom(d + 1, n - 1)
  <2> SUFFICES ASSUME n # 0
               PROVE  /\ PacketsFrom(d, n) # <<>>
                      /\ Head(PacketsFrom(d, n)) = d + 1
                      /\ Tail(PacketsFrom(d, n)) = PacketsFrom(d + 1, n - 1)
    OBVIOUS
  <2>1. PacketsFrom(d, n) # <<>> /\ Head(PacketsFrom(d, n)) = PacketsFrom(d, n)[1]
    BY <1>1
  <2>2. PacketsFrom(d, n)[1] = d + 1
    BY DEF PacketsFrom
  <2>3. Tail(PacketsFrom(d, n)) = PacketsFrom(d + 1, n - 1)
    <3>1. /\ Tail(PacketsFrom(d, n)) \in Seq(Nat)
          /\ Len(Tail(PacketsFrom(d, n))) = n - 1
          /\ \A i \in 1..n - 1 : Tail(PacketsFrom(d, n))[i] = PacketsFrom(d, n)[i + 1]
      BY <1>1, <2>1
    <3>2. \A i \in 1..n - 1 : PacketsFrom(d, n)[i + 1] = d + 1 + i
      BY DEF PacketsFrom
    <3>3. \A i \in 1..n - 1 : PacketsFrom(d + 1, n - 1)[i] = d + 1 + i
      BY DEF PacketsFrom
    <3>4. PacketsFrom(d + 1, n - 1) \in Seq(Nat) /\ Len(PacketsFrom(d + 1, n - 1)) = n - 1
      BY DEF PacketsFrom
    <3>5. /\ Len(Tail(PacketsFrom(d, n))) = Len(PacketsFrom(d + 1, n - 1))
          /\ \A i \in 1..Len(Tail(PacketsFrom(d, n))) :
                Tail(PacketsFrom(d, n))[i] = PacketsFrom(d + 1, n - 1)[i]
      BY <3>1, <3>2, <3>3, <3>4
    <3>6. QED
      BY <3>1, <3>4, <3>5, SeqEqual, Zenon
  <2>4. QED
    BY <2>1, <2>2, <2>3
<1>5. QED
  BY <1>1, <1>2, <1>3, <1>4

\* The queue of the FrameFifo.
Queued == IF upc \in DtorPcs THEN <<>> ELSE QueuedPackets

LEMMA QueuedNumbers ==
    IInv /\ Packets =>
      /\ InHand + Len(list) \in Nat /\ Len(delivered) \in Nat
      /\ Queued = IF upc \in DtorPcs THEN <<>>
                  ELSE PacketsFrom(Len(delivered), InHand + Len(list))
<1> SUFFICES ASSUME IInv, Packets
             PROVE  /\ InHand + Len(list) \in Nat /\ Len(delivered) \in Nat
                    /\ upc \notin DtorPcs =>
                         QueuedPackets = PacketsFrom(Len(delivered), InHand + Len(list))
  BY DEF Queued
<1>1. Len(list) \in Nat /\ Len(delivered) \in Nat /\ InHand \in {0, 1}
  <2>1. delivered \in Seq(0..MaxFrames)
    BY DEF IInv, TypeOK
  <2> QED BY <2>1, Facts, LenProperties DEF InHand
<1>2. ASSUME upc = "copy"
      PROVE  QueuedPackets = PacketsFrom(Len(delivered), InHand + Len(list))
  <2> DEFINE l == <<taken>> \o list
  <2>1. upc \notin DtorPcs /\ InHand = 1 /\ taken \in Buffers
    BY <1>2, Facts DEF DtorPcs, InHand, IInv, Control, TakingPcs
  <2>2. /\ Len(l) = 1 + Len(list) /\ l[1] = taken
        /\ \A i \in 1..Len(list) : l[i + 1] = list[i]
    BY <2>1, <1>1, Facts
  <2>3. ASSUME NEW i \in 1..(1 + Len(list)) PROVE contents[l[i]] = Len(delivered) + i
    <3>1. CASE i = 1
      BY <1>2, <2>1, <2>2, <3>1 DEF Packets
    <3>2. CASE i # 1
      <4>1. i - 1 \in 1..Len(list) /\ (i - 1) + 1 = i
        BY <1>1, <3>2
      <4>2. l[i] = list[i - 1]
        BY <2>2, <4>1
      <4>3. contents[list[i - 1]] = Len(delivered) + 1 + (i - 1)
        BY <2>1, <4>1 DEF Packets
      <4> QED BY <1>1, <4>1, <4>2, <4>3
    <3> QED BY <3>1, <3>2
  <2>4. QueuedPackets = [i \in 1..Len(l) |-> contents[l[i]]]
    BY <1>2 DEF QueuedPackets
  <2> HIDE DEF l
  <2> QED BY <2>1, <2>2, <2>3, <2>4 DEF PacketsFrom
<1>3. ASSUME upc \notin DtorPcs, upc # "copy"
      PROVE  QueuedPackets = PacketsFrom(Len(delivered), InHand + Len(list))
  <2>1. InHand = 0
    BY <1>3 DEF InHand
  <2>2. \A i \in 1..Len(list) : contents[list[i]] = Len(delivered) + i
    BY <1>1, <1>3, <2>1 DEF Packets
  <2> QED BY <1>1, <1>3, <2>1, <2>2 DEF QueuedPackets, PacketsFrom
<1> QED BY <1>1, <1>2, <1>3

LEMMA QueuedNumbersNext ==
    IInv' /\ Packets' =>
      /\ InHand' + Len(list') \in Nat /\ Len(delivered') \in Nat
      /\ Queued' = IF upc' \in DtorPcs THEN <<>>
                   ELSE PacketsFrom(Len(delivered'), InHand' + Len(list'))
<1>1. (IInv /\ Packets =>
         /\ InHand + Len(list) \in Nat /\ Len(delivered) \in Nat
         /\ Queued = IF upc \in DtorPcs THEN <<>>
                     ELSE PacketsFrom(Len(delivered), InHand + Len(list)))'
  BY QueuedNumbers, PTL
<1> QED BY <1>1 DEF PacketsFrom, DtorPcs

\* A step that hands out nothing, adds nothing and ends nothing.
LEMMA Stutters ==
    ASSUME IInv, IInv', Packets, Packets', upc' \in DtorPcs <=> upc \in DtorPcs,
           upc \notin DtorPcs => InHand' + Len(list') = InHand + Len(list),
           delivered' = delivered, eof' = eof, Phase' = Phase
    PROVE  UNCHANGED Fifo!fifoVars
<1>1. Queued' = Queued
  BY QueuedNumbers, QueuedNumbersNext
<1> QED BY <1>1 DEF Fifo!fifoVars, Queued

\* Every step is one of the abstract queue, or none.
LEMMA StepImplements ==
    ASSUME IInv, IInv', Packets, Packets', [Next]_vars
    PROVE  [Fifo!FifoNext]_(Fifo!fifoVars)
<1>a. /\ Control /\ Complete
      /\ Len(list) \in Nat /\ Len(delivered) \in Nat
      /\ threadState = "Stopped" => ppc \in {"lastWake", "exited"}
  BY Facts, QueuedNumbers DEF IInv, Packets
<1> USE DEF DtorPcs, EndedPcs, Phase, lists, conds, history, memory
<1>1. CASE GetPop
  <2>1. /\ upc = "look" /\ upc' = "copy" /\ list # <<>> /\ list' = Tail(list)
        /\ ppc' = ppc /\ delivered' = delivered /\ eof' = eof
    BY <1>1 DEF GetPop
  <2>2. InHand' + Len(list') = InHand + Len(list)
    <3>1. Len(list') = Len(list) - 1
      BY <2>1, Facts, HeadTailProperties, EmptySeq
    <3> QED BY <1>a, <2>1, <3>1 DEF InHand
  <2>3. UNCHANGED Fifo!fifoVars
    BY <2>1, <2>2, Stutters
  <2> QED BY <2>3
<1>2. CASE CopyOut
  <2>1. /\ upc = "copy" /\ upc' = "recycle" /\ ppc' = ppc
        /\ delivered' = Append(delivered, contents[taken])
        /\ list' = list /\ eof' = eof
    BY <1>2 DEF CopyOut
  <2>2. contents[taken] = Len(delivered) + 1 /\ InHand = 1 /\ InHand' = 0
    BY <2>1 DEF Packets, InHand
  <2>3. Len(delivered') = Len(delivered) + 1
    BY <2>1, AppendProperties DEF IInv, TypeOK
  <2>4. /\ Queued = PacketsFrom(Len(delivered), 1 + Len(list))
        /\ Queued' = PacketsFrom(Len(delivered) + 1, Len(list))
    BY <1>a, <2>1, <2>2, <2>3, QueuedNumbers, QueuedNumbersNext
  <2>5. /\ Queued # <<>> /\ Head(Queued) = contents[taken] /\ Queued' = Tail(Queued)
    <3>1. 1 + Len(list) \in Nat /\ 1 + Len(list) # 0 /\ (1 + Len(list)) - 1 = Len(list)
      BY <1>a
    <3>2. /\ Queued # <<>> /\ Head(Queued) = Len(delivered) + 1
          /\ Tail(Queued) = PacketsFrom(Len(delivered) + 1, (1 + Len(list)) - 1)
      BY <1>a, <2>4, <3>1, Consecutive
    <3> QED BY <2>2, <2>4, <3>1, <3>2
  <2>6. Phase' = Phase /\ Phase # "destroyed"
    BY <2>1
  <2>7. Fifo!Get
    BY <2>1, <2>5, <2>6 DEF Fifo!Get, Queued
  <2> QED BY <2>7 DEF Fifo!FifoNext
<1>3. CASE SourceFrame /\ Base
  <2>1. /\ ppc = "source" /\ ppc' = "push" /\ upc' = upc
        /\ list' = list /\ delivered' = delivered /\ eof' = eof
    BY <1>3 DEF SourceFrame
  <2>2. InHand' = InHand
    BY <2>1 DEF InHand
  <2>3. UNCHANGED Fifo!fifoVars
    BY <2>1, <2>2, Stutters
  <2> QED BY <2>3
<1>4. CASE TakeFree /\ Base
  <2>1. /\ ppc = "loop" /\ ppc' \in {"end", "pwait", "source"} /\ upc' = upc
        /\ list' = list /\ delivered' = delivered /\ eof' = eof
    BY <1>4 DEF TakeFree
  <2>2. InHand' = InHand
    BY <2>1 DEF InHand
  <2>3. CASE upc \in DtorPcs \/ ppc' # "end"
    <3>1. UNCHANGED Fifo!fifoVars
      BY <2>1, <2>2, <2>3, Stutters
    <3> QED BY <3>1
  <2>4. CASE upc \notin DtorPcs /\ ppc' = "end"
    <3>1. Queued' = Queued
      BY <2>1, <2>2, QueuedNumbers, QueuedNumbersNext
    <3>2. Phase = "open" /\ Phase' = "ended"
      BY <2>1, <2>4
    <3>3. Fifo!End
      BY <2>1, <3>1, <3>2 DEF Fifo!End, Queued
    <3> QED BY <3>3 DEF Fifo!FifoNext
  <2> QED BY <2>3, <2>4
<1>5. CASE PushStore /\ Base
  <2>1. /\ ppc = "pushing" /\ ppc' = "loop" /\ list' = Append(stale, held)
        /\ upc' = upc \/ (upc = "cwait" /\ upc' = "cwoken")
        /\ delivered' = delivered /\ eof' = eof
    BY <1>5 DEF PushStore, WakeConsumer
  <2>2. CASE upc \in DtorPcs
    <3>1. UNCHANGED Fifo!fifoVars
      BY <2>1, <2>2, Stutters
    <3> QED BY <3>1
  <2>3. CASE upc \notin DtorPcs
    <3>1. stale = list /\ held \in Buffers
      <4>1. held # NoBuffer
        BY <1>a, <2>1 DEF Control, HoldingPcs
      <4> QED BY <1>a, <2>1, <2>3, <4>1, Facts DEF Complete, Busy, FreeingPcs
    <3>2. Len(list') = Len(list) + 1
      BY <2>1, <3>1, Facts, AppendProperties
    <3>3. InHand' = InHand /\ InHand \in {0, 1} /\ upc' \notin DtorPcs
      BY <2>1, <2>3 DEF InHand
    <3>4. InHand + Len(list) < NBuf
      <4>1. Len(list) + Len(freeList) + 1 + (IF taken = NoBuffer THEN 0 ELSE 1) = NBuf
        <5>1. Busy /\ held # NoBuffer
          BY <2>1, <2>3, <3>1, Facts DEF Busy, FreeingPcs
        <5> QED BY <1>a, <5>1 DEF Complete
      <4>2. InHand = 1 => taken # NoBuffer
        BY <1>a DEF InHand, Control, TakingPcs
      <4> QED BY <1>a, <3>3, <4>1, <4>2, Facts, NBufAssumption
    <3>5. /\ Queued = PacketsFrom(Len(delivered), InHand + Len(list))
          /\ Queued' = PacketsFrom(Len(delivered), InHand + Len(list) + 1)
      <4>1. InHand' + Len(list') = InHand + Len(list) + 1
        BY <1>a, <3>2, <3>3
      <4> QED BY <2>1, <2>3, <3>3, <4>1, QueuedNumbers, QueuedNumbersNext
    <3>6. Len(Queued) < NBuf /\ Queued' = Append(Queued, Len(delivered) + Len(Queued) + 1)
      <4>1. InHand + Len(list) \in Nat
        BY QueuedNumbers
      <4>2. Len(Queued) = InHand + Len(list)
        BY <1>a, <3>5, <4>1, Consecutive
      <4>3. Append(Queued, Len(delivered) + (InHand + Len(list)) + 1) = Queued'
        BY <1>a, <3>5, <4>1, Consecutive
      <4> QED BY <3>4, <4>2, <4>3
    <3>7. Phase = "open" /\ Phase' = "open"
      BY <2>1, <2>3, <3>3
    <3>8. Fifo!Put
      BY <2>1, <3>6, <3>7 DEF Fifo!Put, Queued
    <3> QED BY <3>8 DEF Fifo!FifoNext
  <2> QED BY <2>2, <2>3
<1>6. CASE ClearList
  <2>1. upc \in DtorPcs /\ upc' \in DtorPcs /\ delivered' = delivered /\ eof' = eof
    BY <1>6 DEF ClearList, FreeingPcs
  <2>2. UNCHANGED Fifo!fifoVars
    BY <2>1, Stutters
  <2> QED BY <2>2
<1>7. CASE Still /\ GetNoMore
  <2>1. /\ upc = "look" /\ upc' = "idle" /\ list = <<>> /\ list' = list
        /\ threadState = "Stopped" /\ ppc' = ppc /\ delivered' = delivered /\ eof' = TRUE
    BY <1>7 DEF GetNoMore
  <2>2. Phase = "ended" /\ Phase' = "ended"
    BY <1>a, <2>1
  <2>3. Queued = <<>> /\ Queued' = <<>>
    <3>1. InHand = 0 /\ InHand' = 0 /\ Len(list) = 0 /\ Len(list') = 0
      BY <2>1 DEF InHand
    <3>2. Queued = PacketsFrom(Len(delivered), 0) /\ Queued' = PacketsFrom(Len(delivered'), 0)
      BY <2>1, <3>1, QueuedNumbers, QueuedNumbersNext
    <3> QED BY <1>a, <2>1, <3>2, Consecutive
  <2>4. Fifo!NoMoreData
    BY <2>1, <2>2, <2>3 DEF Fifo!NoMoreData, Queued
  <2> QED BY <2>4 DEF Fifo!FifoNext
<1>8. CASE Still /\ CallDestructor
  <2>1. /\ upc = "idle" /\ upc' = "stop" /\ delivered' = delivered /\ eof' = eof
    BY <1>8 DEF CallDestructor
  <2>2. Phase # "destroyed" /\ Phase' = "destroyed" /\ Queued' = <<>>
    BY <2>1 DEF Queued
  <2>3. Fifo!Destroy
    BY <2>1, <2>2 DEF Fifo!Destroy, Queued
  <2> QED BY <2>3 DEF Fifo!FifoNext
<1>9. CASE Still /\ SourceEnd
  <2>1. /\ ppc = "source" /\ ppc' = "giveBack" /\ upc' = upc
        /\ list' = list /\ delivered' = delivered /\ eof' = eof
    BY <1>9 DEF SourceEnd
  <2>2. InHand' = InHand
    BY <2>1 DEF InHand
  <2>3. CASE upc \in DtorPcs
    <3>1. UNCHANGED Fifo!fifoVars
      BY <2>1, <2>3, Stutters
    <3> QED BY <3>1
  <2>4. CASE upc \notin DtorPcs
    <3>1. Queued' = Queued
      BY <2>1, <2>2, QueuedNumbers, QueuedNumbersNext
    <3>2. Phase = "open" /\ Phase' = "ended"
      BY <2>1, <2>4
    <3>3. Fifo!End
      BY <2>1, <3>1, <3>2 DEF Fifo!End, Queued
    <3> QED BY <3>3 DEF Fifo!FifoNext
  <2> QED BY <2>3, <2>4
<1>10. CASE Still /\ Silent
  <2>1. Phase' = Phase
    BY <1>10 DEF Silent
  <2>2. UNCHANGED Fifo!fifoVars
    BY <1>10, <2>1, Stutters DEF Still, Silent
  <2> QED BY <2>2
<1> QED BY <1>1, <1>2, <1>3, <1>4, <1>5, <1>6, <1>7, <1>8, <1>9, <1>10, MovingOrStill
        DEF Moving, Ending

\* The audio queue implements the bounded queue of frames: getPacket hands out
\* what the son gave, in order and whole although it copies without the mutex,
\* at most NBuf packets are read ahead, and "no more data" is answered only
\* when all were handed out.
THEOREM QueueRefinement == Spec => ImplementsFrameFifo
<1>1. Init => Packets
  BY DEF Init, TQInit, Packets, InHand, Made
<1>2. IInv /\ IInv' /\ Packets /\ [Next]_vars => Packets'
  BY PacketsKept
<1>3. Init /\ IInv /\ Packets => Fifo!FifoInit
  <2> SUFFICES ASSUME Init, IInv, Packets PROVE Fifo!FifoInit
    OBVIOUS
  <2>1. list = <<>> /\ delivered = <<>> /\ upc = "idle" /\ ppc = "none" /\ eof = FALSE
    BY DEF Init, TQInit
  <2>2. Queued = <<>>
    <3>1. InHand = 0 /\ Len(list) = 0 /\ upc \notin DtorPcs
      BY <2>1 DEF InHand, DtorPcs
    <3>2. Queued = PacketsFrom(Len(delivered), 0) /\ Len(delivered) \in Nat
      BY <3>1, QueuedNumbers
    <3> QED BY <3>2, Consecutive
  <2>3. Phase = "open"
    BY <2>1 DEF Phase, DtorPcs, EndedPcs
  <2> QED BY <2>1, <2>2, <2>3 DEF Fifo!FifoInit, Queued
<1>4. IInv /\ IInv' /\ Packets /\ Packets' /\ [Next]_vars =>
        [Fifo!FifoNext]_(Fifo!fifoVars)
  BY StepImplements
<1> QED BY <1>1, <1>2, <1>3, <1>4, Invariance, PTL
        DEF Spec, ImplementsFrameFifo, Fifo!FifoSpec
=============================================================================
