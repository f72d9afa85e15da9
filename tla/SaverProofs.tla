----------------------------- MODULE SaverProofs -----------------------------
(***************************************************************************)
(* The way of a picture through the encoder and what a save writes, for    *)
(* every length of a tick, every number of B-pictures, every film and      *)
(* every choice of libavcodec and the container: each packet that comes    *)
(* out is found again, decode times never go back, and a refusal needs     *)
(* pictures too close to each other; sound and picture are shifted by the  *)
(* same delay, no track falls behind the picture, and a save that says it  *)
(* went well has every picture.                                            *)
(*                                                                         *)
(* The argument for the encoder: what libavcodec has is in order of time,  *)
(* apart from the one picture that was decided to come before its          *)
(* B-pictures; every picture in there has its own entry in the mapper; and *)
(* the queue of decode times is never ahead of the pictures it will be     *)
(* given to.                                                               *)
(***************************************************************************)
EXTENDS Saver, SequenceTheorems, FiniteSetTheorems, WellFoundedInduction, TLAPS

-----------------------------------------------------------------------------
(* The encoder                                                             *)

Fed == [src : Nat, pts : Nat]

Flight == Range(coding) \cup Range(held)

EncoderTypes ==
  /\ call \in {"idle", "feed", "receive", "gave", "ended"}
  /\ pulled \in Seq(Nat)
  /\ encoderState \in {"feeding", "flushing", "flushed"}
  /\ mapper \in Seq([internal : Nat, real : Nat])
  /\ queueOfDts \in Seq(Nat)
  /\ encoderDelay \in Nat /\ lastDts \in Nat /\ lastLavPts \in Nat
  /\ firstOut \in BOOLEAN /\ bframes \in Nat
  /\ held \in Seq(Fed) /\ coding \in Seq(Fed)
  /\ out \in [src : Nat, dts : Nat, pts : Nat]

Rising(s) ==
  \A i, j \in 1..Len(s) : i < j => s[i].pts < s[j].pts /\ s[i].src < s[j].src

(* What is decided is shown before what is not. *)
Order ==
  /\ Rising(held) /\ Rising(coding)
  /\ \A i \in 1..Len(coding), j \in 1..Len(held) :
       coding[i].pts < held[j].pts /\ coding[i].src < held[j].src
  /\ bframes = 0 => coding = <<>>

(* Nothing in flight is later than the last picture fed. *)
Past ==
  IF pulled = <<>>
  THEN /\ held = <<>> /\ coding = <<>> /\ mapper = <<>> /\ queueOfDts = <<>>
       /\ lastLavPts = NoTime
  ELSE /\ lastLavPts < NoTime
       /\ \A f \in Flight : f.pts <= lastLavPts /\ f.src <= pulled[Len(pulled)]
       /\ \A i \in 1..Len(mapper) : mapper[i].internal <= lastLavPts
       /\ \A i \in 1..Len(queueOfDts) : queueOfDts[i] <= pulled[Len(pulled)]

Distinct ==
  \A i, j \in 1..Len(mapper) : mapper[i].internal = mapper[j].internal => i = j

EntryOf(f) ==
  \E i \in 1..Len(mapper) : mapper[i].internal = f.pts /\ mapper[i].real = f.src

Found == bframes > 0 => \A f \in Flight : EntryOf(f)

(* The times in the queue are those of the pictures that are not decided,  *)
(* after as many as there are decided ones.                                *)
Queue ==
  /\ Len(queueOfDts) = Len(coding) + Len(held)
  /\ Len(mapper) = Len(queueOfDts)
  /\ \A i \in 1..Len(held) : queueOfDts[Len(coding) + i] = held[i].src
  /\ \A i, j \in 1..Len(queueOfDts) : i < j => queueOfDts[i] < queueOfDts[j]

(* The last decode time given is before everything that is still to come.  *)
Behind ==
  IF firstOut THEN lastDts = NoTime
  ELSE
    /\ pulled # <<>> /\ lastDts <= pulled[Len(pulled)]
    /\ \A i \in 1..Len(queueOfDts) : lastDts <= queueOfDts[i]
    /\ \A f \in Flight : lastDts <= f.src + encoderDelay

EncoderInv ==
  /\ EncoderTypes
  /\ call # "ended" => Order /\ Past /\ Distinct /\ Found /\ Queue /\ Behind

-----------------------------------------------------------------------------
(* Sequences and times                                                     *)

\* RemoveAt leaves out one place.
LEMMA RemoveAtProperties ==
  ASSUME NEW S, NEW s \in Seq(S), NEW i \in 1..Len(s)
  PROVE  /\ RemoveAt(s, i) \in Seq(S)
         /\ Len(RemoveAt(s, i)) = Len(s) - 1
         /\ \A j \in 1..Len(s) - 1 :
              RemoveAt(s, i)[j] = IF j < i THEN s[j] ELSE s[j + 1]
<1>1. Len(s) \in Nat /\ i \in Nat /\ i >= 1 /\ i <= Len(s)
  OBVIOUS
<1>2. \A j \in 1..Len(s) : s[j] \in S
  BY ElementOfSeq
<1> DEFINE a == SubSeq(s, 1, i - 1)
           b == SubSeq(s, i + 1, Len(s))
<1>3. /\ a \in Seq(S) /\ Len(a) = i - 1
      /\ \A j \in 1..i - 1 : a[j] = s[j]
  <2>1. /\ a \in Seq(S) /\ Len(a) = IF 1 <= i - 1 THEN (i - 1) - 1 + 1 ELSE 0
        /\ \A j \in 1..(i - 1) - 1 + 1 : a[j] = s[1 + j - 1]
    <3>1. \A j \in 1..i - 1 : s[j] \in S
      BY <1>1, <1>2
    <3> QED BY <1>1, <3>1, SubSeqProperties
  <2> HIDE DEF a
  <2> QED BY <1>1, <2>1
<1>4. /\ b \in Seq(S) /\ Len(b) = Len(s) - i
      /\ \A j \in 1..Len(s) - i : b[j] = s[i + j]
  <2>1. /\ b \in Seq(S) /\ Len(b) = IF i + 1 <= Len(s) THEN Len(s) - (i + 1) + 1 ELSE 0
        /\ \A j \in 1..Len(s) - (i + 1) + 1 : b[j] = s[(i + 1) + j - 1]
    <3>1. \A j \in i + 1..Len(s) : s[j] \in S
      BY <1>1, <1>2
    <3> QED BY <1>1, <3>1, SubSeqProperties
  <2> HIDE DEF b
  <2> QED BY <1>1, <2>1
<1>5. RemoveAt(s, i) = a \o b
  BY DEF RemoveAt
<1> HIDE DEF a, b
<1> DEFINE c == a \o b
<1>6. /\ c \in Seq(S) /\ Len(c) = Len(a) + Len(b)
      /\ \A j \in 1..Len(a) + Len(b) : c[j] = IF j <= Len(a) THEN a[j] ELSE b[j - Len(a)]
  BY <1>3, <1>4, ConcatProperties
<1> HIDE DEF c
<1>7. Len(c) = Len(s) - 1
  BY <1>1, <1>3, <1>4, <1>6
<1>8. ASSUME NEW j \in 1..Len(s) - 1
      PROVE  c[j] = IF j < i THEN s[j] ELSE s[j + 1]
  <2>1. j \in 1..Len(a) + Len(b) /\ Len(a) = i - 1 /\ j \in Nat
    BY <1>1, <1>3, <1>4
  <2>2. c[j] = IF j <= Len(a) THEN a[j] ELSE b[j - Len(a)]
    BY <1>6, <2>1
  <2>3. CASE j < i
    BY <1>1, <1>3, <2>1, <2>2, <2>3
  <2>4. CASE ~(j < i)
    <3>1. j - Len(a) \in 1..Len(s) - i /\ i + (j - Len(a)) = j + 1 /\ ~(j <= Len(a))
      BY <1>1, <2>1, <2>4
    <3>2. b[j - Len(a)] = s[i + (j - Len(a))]
      BY <1>4, <3>1
    <3> QED BY <2>2, <2>4, <3>1, <3>2
  <2> QED BY <2>3, <2>4
<1> QED BY <1>5, <1>6, <1>7, <1>8 DEF c

\* The elements of a sequence, by their index.
LEMMA RangeIndexed ==
  ASSUME NEW S, NEW s \in Seq(S)
  PROVE  /\ \A i \in 1..Len(s) : s[i] \in Range(s)
         /\ \A f \in Range(s) : \E i \in 1..Len(s) : f = s[i]
         /\ Range(s) \subseteq S
BY LenProperties, ElementOfSeq DEF Range

\* An entry of the mapper is a pair of times.
LEMMA EntryTypes ==
  ASSUME EncoderTypes, NEW i \in 1..Len(mapper)
  PROVE  mapper[i].internal \in Nat /\ mapper[i].real \in Nat
<1>1. mapper[i] \in [internal : Nat, real : Nat]
  BY ElementOfSeq DEF EncoderTypes
<1> QED BY <1>1

\* A time is less than a tick away from its tick.
LEMMA TicksBound ==
  ASSUME NEW us \in Nat, NEW tick \in Nat \ {0}
  PROVE  /\ Ticks(us, tick) \in Nat
         /\ Ticks(us, tick) <= us
         /\ 100 * tick * Ticks(us, tick) <= 100 * us + 49 * tick
         /\ 100 * us + 49 * tick < 100 * tick * (Ticks(us, tick) + 1)
<1> DEFINE n == 100 * us + 49 * tick
           d == 100 * tick
           q == n \div d
<1>1. n \in Nat /\ d \in Nat /\ d > 0 /\ Ticks(us, tick) = q
  BY DEF Ticks
<1> HIDE DEF n, d
<1>2. q \in Int /\ d * q <= n /\ n < d * (q + 1)
  BY <1>1
<1>3. q >= 0
  BY <1>1, <1>2
<1>4. q <= us
  BY <1>1, <1>2, <1>3 DEF n, d
<1> QED BY <1>1, <1>2, <1>3, <1>4 DEF n, d

-----------------------------------------------------------------------------
(* A packet comes out of libavcodec                                        *)

LavcGives(group) ==
  /\ LavcHasOutput /\ group \in NextOut
  /\ coding' = Tail(group)
  /\ IF coding = <<>> THEN held' = SubSeq(held, Len(group) + 1, Len(held))
     ELSE held' = held
  /\ bframes' = bframes

\* What is left when a picture comes out whose turn had been decided.
LEMMA DecidedLeaves ==
  ASSUME EncoderTypes, Order, Queue, NEW group, LavcGives(group), coding # <<>>
  PROVE  /\ Head(group) \in Flight /\ Head(group) \in Fed
         /\ coding' \in Seq(Fed) /\ held' \in Seq(Fed)
         /\ Len(coding') + Len(held') = Len(coding) + Len(held) - 1
         /\ Order'
         /\ \A f \in Flight' :
              f \in Flight /\ Head(group).pts # f.pts /\ Head(group).src < f.src
         /\ \A i \in 1..Len(held') : queueOfDts[Len(coding') + 1 + i] = held'[i].src
<1> DEFINE rest == Tail(coding)
<1>1. group = coding /\ coding' = rest /\ held' = held
  BY DEF LavcGives, NextOut
<1>2. /\ coding \in Seq(Fed) /\ held \in Seq(Fed)
      /\ Len(coding) \in Nat \ {0} /\ Len(held) \in Nat
  BY EmptySeq DEF EncoderTypes
<1>3. /\ Head(coding) = coding[1] /\ rest \in Seq(Fed)
      /\ Len(rest) = Len(coding) - 1
      /\ \A i \in 1..Len(rest) : rest[i] = coding[i + 1]
  BY <1>2, HeadTailProperties
<1> HIDE DEF rest
<1>4. Head(group) \in Flight /\ Head(group) \in Fed
  BY <1>1, <1>2, <1>3, RangeIndexed DEF Flight
<1>5. \A i \in 1..Len(coding) : coding[i] \in Fed
  BY <1>2, ElementOfSeq
<1>6. \A i \in 1..Len(held) : held[i] \in Fed
  BY <1>2, ElementOfSeq
<1>7. Order'
  <2>1. Rising(held)' /\ (bframes = 0 => coding = <<>>)'
    BY <1>1 DEF Order, Rising, LavcGives
  <2>2. Rising(coding)'
    <3> SUFFICES ASSUME NEW i \in 1..Len(rest), NEW j \in 1..Len(rest), i < j
                 PROVE  rest[i].pts < rest[j].pts /\ rest[i].src < rest[j].src
      BY <1>1 DEF Rising
    <3>1. i + 1 \in 1..Len(coding) /\ j + 1 \in 1..Len(coding) /\ i + 1 < j + 1
      BY <1>2, <1>3
    <3> QED BY <1>3, <3>1 DEF Order, Rising
  <2>3. (\A i \in 1..Len(coding), j \in 1..Len(held) :
           coding[i].pts < held[j].pts /\ coding[i].src < held[j].src)'
    <3> SUFFICES ASSUME NEW i \in 1..Len(rest), NEW j \in 1..Len(held)
                 PROVE  rest[i].pts < held[j].pts /\ rest[i].src < held[j].src
      BY <1>1
    <3>1. i + 1 \in 1..Len(coding)
      BY <1>2, <1>3
    <3> QED BY <1>3, <3>1 DEF Order
  <2> QED BY <2>1, <2>2, <2>3 DEF Order
<1>8. ASSUME NEW f \in Flight'
      PROVE  f \in Flight /\ Head(group).pts # f.pts /\ Head(group).src < f.src
  <2>1. f \in Range(rest) \/ f \in Range(held)
    BY <1>1 DEF Flight
  <2>2. CASE f \in Range(rest)
    <3>1. PICK i \in 1..Len(rest) : f = rest[i]
      BY <1>3, <2>2, RangeIndexed
    <3>2. i + 1 \in 1..Len(coding) /\ 1 \in 1..Len(coding) /\ 1 < i + 1 /\ f = coding[i + 1]
      BY <1>2, <1>3, <3>1
    <3>3. coding[1].pts < f.pts /\ coding[1].src < f.src
      BY <3>2 DEF Order, Rising
    <3>4. f \in Flight
      BY <1>2, <3>2, RangeIndexed DEF Flight
    <3>5. coding[1].pts # f.pts
      <4>1. coding[1] \in Fed /\ f \in Fed
        BY <1>2, <1>3, <1>5, <3>2, ElementOfSeq DEF Flight
      <4> QED BY <3>3, <4>1 DEF Fed
    <3> QED BY <1>1, <3>2, <3>3, <3>4, <3>5
  <2>3. CASE f \in Range(held)
    <3>1. PICK i \in 1..Len(held) : f = held[i]
      BY <1>2, <2>3, RangeIndexed
    <3>2. 1 \in 1..Len(coding)
      BY <1>2
    <3>3. coding[1].pts < f.pts /\ coding[1].src < f.src
      BY <3>1, <3>2 DEF Order
    <3> QED BY <1>1, <1>3, <1>5, <1>6, <2>3, <3>1, <3>2, <3>3 DEF Fed, Flight
  <2> QED BY <2>1, <2>2, <2>3
<1>9. \A i \in 1..Len(held) : queueOfDts[Len(coding') + 1 + i] = held[i].src
  BY <1>1, <1>2, <1>3 DEF Queue
<1> QED BY <1>1, <1>2, <1>3, <1>4, <1>7, <1>8, <1>9

\* What is left when the order of the next pictures is decided.
LEMMA DecisionLeaves ==
  ASSUME EncoderTypes, Order, Queue, NEW group, LavcGives(group), coding = <<>>
  PROVE  /\ Head(group) \in Flight /\ Head(group) \in Fed
         /\ coding' \in Seq(Fed) /\ held' \in Seq(Fed)
         /\ Len(coding') + Len(held') = Len(coding) + Len(held) - 1
         /\ Order'
         /\ \A f \in Flight' :
              f \in Flight /\ Head(group).pts # f.pts /\ queueOfDts[1] <= f.src
         /\ \A i \in 1..Len(held') : queueOfDts[Len(coding') + 1 + i] = held'[i].src
<1>1. held \in Seq(Fed) /\ Len(held) \in Nat /\ bframes \in Nat /\ Len(coding) = 0
  BY EmptySeq DEF EncoderTypes
<1>2. Len(held) >= 1
  BY <1>1 DEF LavcGives, LavcHasOutput
<1>3. \A i \in 1..Len(held) : held[i] \in Fed /\ held[i] \in Flight
  BY <1>1, ElementOfSeq, RangeIndexed DEF Flight
<1>4. PICK b \in Nat : /\ b <= Len(held) - 1 /\ (bframes = 0 => b = 0)
                       /\ group = <<held[b + 1]>> \o SubSeq(held, 1, b)
  <2>1. PICK b \in IF firstOut THEN {0} ELSE 0..Least(bframes, Len(held) - 1) :
          group = <<held[b + 1]>> \o SubSeq(held, 1, b)
    BY DEF LavcGives, NextOut
  <2>2. b \in Nat /\ b <= Len(held) - 1 /\ (bframes = 0 => b = 0)
    BY <1>1, <1>2, <2>1 DEF Least
  <2> QED BY <2>1, <2>2
<1> DEFINE front == SubSeq(held, 1, b)
           back == SubSeq(held, b + 2, Len(held))
<1>5. /\ front \in Seq(Fed) /\ Len(front) = b
      /\ \A i \in 1..b : front[i] = held[i]
  <2>1. /\ front \in Seq(Fed) /\ Len(front) = IF 1 <= b THEN b - 1 + 1 ELSE 0
        /\ \A i \in 1..b - 1 + 1 : front[i] = held[1 + i - 1]
    <3>1. \A i \in 1..b : held[i] \in Fed
      BY <1>1, <1>3, <1>4
    <3> QED BY <1>4, <3>1, SubSeqProperties
  <2> HIDE DEF front
  <2> QED BY <1>4, <2>1
<1>6. /\ back \in Seq(Fed) /\ Len(back) = Len(held) - b - 1
      /\ \A i \in 1..Len(held) - b - 1 : back[i] = held[b + 1 + i]
  <2>1. /\ back \in Seq(Fed)
        /\ Len(back) = IF b + 2 <= Len(held) THEN Len(held) - (b + 2) + 1 ELSE 0
        /\ \A i \in 1..Len(held) - (b + 2) + 1 : back[i] = held[(b + 2) + i - 1]
    <3>1. \A i \in b + 2..Len(held) : held[i] \in Fed
      BY <1>1, <1>3, <1>4
    <3> QED BY <1>1, <1>4, <3>1, SubSeqProperties
  <2> HIDE DEF back
  <2> QED BY <1>1, <1>4, <2>1
<1>7. /\ Head(group) = held[b + 1] /\ coding' = front /\ Len(group) = b + 1
  <2>1. b + 1 \in 1..Len(held) /\ held[b + 1] \in Fed
    BY <1>1, <1>3, <1>4
  <2> DEFINE one == <<held[b + 1]>>
  <2>2. one \in Seq(Fed) /\ Len(one) = 1 /\ one[1] = held[b + 1]
    BY <2>1
  <2> HIDE DEF one, front
  <2>3. /\ one \o front \in Seq(Fed) /\ Len(one \o front) = 1 + b
        /\ \A i \in 1..1 + b : (one \o front)[i] = IF i <= 1 THEN one[i] ELSE front[i - 1]
    BY <1>5, <2>2, ConcatProperties
  <2> DEFINE g == one \o front
  <2>4. group = g
    BY <1>4 DEF one, front
  <2>5. g \in Seq(Fed) /\ Len(g) = 1 + b /\ g[1] = held[b + 1]
        /\ \A i \in 1..b : g[i + 1] = front[i]
    <3>1. g[1] = held[b + 1]
      BY <1>4, <2>2, <2>3
    <3>2. \A i \in 1..b : g[i + 1] = front[i]
      BY <1>4, <2>3
    <3> QED BY <2>3, <3>1, <3>2
  <2> HIDE DEF g
  <2>6. g # <<>>
    BY <1>4, <2>5, EmptySeq
  <2>7. /\ Head(g) = g[1] /\ Tail(g) \in Seq(Fed) /\ Len(Tail(g)) = b
        /\ \A i \in 1..Len(Tail(g)) : Tail(g)[i] = g[i + 1]
    BY <1>4, <2>5, <2>6, HeadTailProperties
  <2>8. Tail(g) = front
    BY <1>4, <1>5, <2>5, <2>7, SeqEqual
  <2> QED BY <1>4, <2>4, <2>5, <2>7, <2>8 DEF LavcGives
<1>8. held' = back
  <2>1. Len(group) + 1 = b + 2
    BY <1>4, <1>7
  <2> QED BY <2>1 DEF LavcGives
<1> HIDE DEF front, back
<1>9. Head(group) \in Flight /\ Head(group) \in Fed
  BY <1>1, <1>3, <1>4, <1>7
<1>10. Order'
  <2>1. Rising(held)'
    <3> SUFFICES ASSUME NEW i \in 1..Len(back), NEW j \in 1..Len(back), i < j
                 PROVE  back[i].pts < back[j].pts /\ back[i].src < back[j].src
      BY <1>8 DEF Rising
    <3>1. /\ b \in Nat /\ b <= Len(held) - 1 /\ Len(held) \in Nat
          /\ i \in 1..Len(held) - b - 1 /\ j \in 1..Len(held) - b - 1
      BY <1>1, <1>4, <1>6
    <3>2. /\ b + 1 + i \in 1..Len(held) /\ b + 1 + j \in 1..Len(held)
          /\ b + 1 + i < b + 1 + j
      BY <3>1
    <3>3. back[i] = held[b + 1 + i] /\ back[j] = held[b + 1 + j]
      BY <1>6, <3>1
    <3> QED BY <3>2, <3>3 DEF Order, Rising
  <2>2. Rising(coding)'
    <3> SUFFICES ASSUME NEW i \in 1..Len(front), NEW j \in 1..Len(front), i < j
                 PROVE  front[i].pts < front[j].pts /\ front[i].src < front[j].src
      BY <1>7 DEF Rising
    <3>1. /\ i \in 1..Len(held) /\ j \in 1..Len(held)
          /\ front[i] = held[i] /\ front[j] = held[j]
      BY <1>1, <1>4, <1>5
    <3> QED BY <3>1 DEF Order, Rising
  <2>3. (\A i \in 1..Len(coding), j \in 1..Len(held) :
           coding[i].pts < held[j].pts /\ coding[i].src < held[j].src)'
    <3> SUFFICES ASSUME NEW i \in 1..Len(front), NEW j \in 1..Len(back)
                 PROVE  front[i].pts < back[j].pts /\ front[i].src < back[j].src
      BY <1>7, <1>8
    <3>1. /\ b \in Nat /\ b <= Len(held) - 1 /\ Len(held) \in Nat
          /\ i \in 1..b /\ j \in 1..Len(held) - b - 1
      BY <1>1, <1>4, <1>5, <1>6
    <3>2. i \in 1..Len(held) /\ b + 1 + j \in 1..Len(held) /\ i < b + 1 + j
      BY <3>1
    <3>3. front[i] = held[i]
      BY <3>1, <1>5
    <3>4. back[j] = held[b + 1 + j]
      BY <3>1, <1>6
    <3> QED BY <3>2, <3>3, <3>4 DEF Order, Rising
  <2>4. (bframes = 0 => coding = <<>>)'
    BY <1>4, <1>5, <1>7, EmptySeq DEF LavcGives
  <2> QED BY <2>1, <2>2, <2>3, <2>4 DEF Order
<1>11. queueOfDts[1] = held[1].src
  BY <1>1, <1>2 DEF Queue
<1>12. ASSUME NEW f \in Flight'
       PROVE  f \in Flight /\ Head(group).pts # f.pts /\ queueOfDts[1] <= f.src
  <2>1. f \in Range(front) \/ f \in Range(back)
    BY <1>7, <1>8 DEF Flight
  <2>2. \E i \in 1..Len(held) : f = held[i] /\ i # b + 1
    <3>1. CASE f \in Range(front)
      <4>1. PICK i \in 1..Len(front) : f = front[i]
        BY <1>5, <3>1, RangeIndexed
      <4>2. i \in 1..Len(held) /\ f = held[i] /\ i # b + 1
        BY <1>1, <1>4, <1>5, <4>1
      <4> QED BY <4>2
    <3>2. CASE f \in Range(back)
      <4>1. PICK i \in 1..Len(back) : f = back[i]
        BY <1>6, <3>2, RangeIndexed
      <4>0. /\ b \in Nat /\ b <= Len(held) - 1 /\ Len(held) \in Nat
            /\ i \in 1..Len(held) - b - 1
        BY <1>1, <1>4, <1>6, <4>1
      <4>3. f = held[b + 1 + i]
        BY <1>6, <4>0, <4>1
      <4>2. b + 1 + i \in 1..Len(held) /\ f = held[b + 1 + i] /\ b + 1 + i # b + 1
        BY <4>0, <4>3
      <4> QED BY <4>2
    <3> QED BY <2>1, <3>1, <3>2
  <2>3. PICK i \in 1..Len(held) : f = held[i] /\ i # b + 1
    BY <2>2
  <2>4. held[b + 1].pts # f.pts
    <3>1. b + 1 \in 1..Len(held) /\ (i < b + 1 \/ b + 1 < i)
      BY <1>1, <1>4, <2>3
    <3>2. held[i].pts < held[b + 1].pts \/ held[b + 1].pts < held[i].pts
      BY <3>1 DEF Order, Rising
    <3>3. held[i].pts \in Nat /\ held[b + 1].pts \in Nat
      BY <1>3, <3>1 DEF Fed
    <3> QED BY <2>3, <3>2, <3>3
  <2>5. held[1].src <= f.src
    <3>1. 1 \in 1..Len(held) /\ (i = 1 \/ 1 < i)
      BY <1>1, <1>2
    <3>2. i = 1 \/ held[1].src < held[i].src
      BY <3>1 DEF Order, Rising
    <3>3. held[i].src \in Nat /\ held[1].src \in Nat
      BY <1>3, <3>1 DEF Fed
    <3> QED BY <2>3, <3>2, <3>3
  <2> QED BY <1>3, <1>7, <1>11, <2>3, <2>4, <2>5
<1>13. ASSUME NEW i \in 1..Len(back)
       PROVE  queueOfDts[b + 1 + i] = back[i].src
  <2>1. b + 1 + i \in 1..Len(held) /\ back[i] = held[b + 1 + i]
    BY <1>1, <1>4, <1>6
  <2> QED BY <1>1, <2>1 DEF Queue
<1>14. Len(coding') + Len(held') = Len(coding) + Len(held) - 1
  <2>1. Len(coding') = b /\ Len(held') = Len(held) - b - 1
    BY <1>5, <1>6, <1>7, <1>8
  <2> QED BY <1>1, <1>4, <2>1
<1>15. \A i \in 1..Len(held') : queueOfDts[Len(coding') + 1 + i] = held'[i].src
  BY <1>5, <1>7, <1>8, <1>13
<1> QED BY <1>5, <1>6, <1>7, <1>8, <1>9, <1>10, <1>12, <1>14, <1>15

\* The two together, with the times the packet is given.
LEMMA LavcLeaves ==
  ASSUME EncoderTypes, Order, Queue, NEW group, LavcGives(group)
  PROVE  /\ Head(group) \in Flight /\ Head(group) \in Fed
         /\ coding' \in Seq(Fed) /\ held' \in Seq(Fed)
         /\ Len(coding') + Len(held') = Len(coding) + Len(held) - 1
         /\ Order'
         /\ \A f \in Flight' :
              /\ f \in Flight /\ f \in Fed /\ Head(group).pts # f.pts
              /\ \/ coding = <<>> /\ queueOfDts[1] <= f.src
                 \/ coding # <<>> /\ Head(group).src < f.src
         /\ \A i \in 1..Len(held') : queueOfDts[Len(coding') + 1 + i] = held'[i].src
<1>1. \A f \in Flight : f \in Fed
  BY RangeIndexed DEF EncoderTypes, Flight
<1>2. CASE coding = <<>>
  BY <1>1, <1>2, DecisionLeaves
<1>3. CASE coding # <<>>
  BY <1>1, <1>3, DecidedLeaves
<1> QED BY <1>2, <1>3

\* The delay is a time.
LEMMA DelayIsTime ==
  ASSUME EncoderTypes, Len(coding) + Len(held) > 0, NEW p \in Fed
  PROVE  /\ DelayAfter(p) \in Nat
         /\ ~firstOut => DelayAfter(p) = encoderDelay
<1>1. EncTick \in Nat \ {0} /\ p.pts \in Nat /\ encoderDelay \in Nat
  BY EncoderAssumption DEF EncoderAssumption, Fed, EncoderTypes
<1>2. FirstLavDts \in Int
  <2> DEFINE fed == coding \o held
  <2>1. fed \in Seq(Fed) /\ Len(fed) = Len(coding) + Len(held)
    BY ConcatProperties DEF EncoderTypes
  <2>2. FirstLavDts = IF bframes > 0 /\ Len(fed) > 1 THEN 2 * fed[1].pts - fed[2].pts
                      ELSE fed[1].pts
    BY DEF FirstLavDts
  <2> HIDE DEF fed
  <2>3. fed[1] \in Fed /\ (Len(fed) > 1 => fed[2] \in Fed)
    <3>1. Len(fed) \in Nat /\ Len(fed) >= 1
      BY <2>1, LenProperties DEF EncoderTypes
    <3>2. 1 \in 1..Len(fed) /\ (Len(fed) > 1 => 2 \in 1..Len(fed))
      BY <3>1
    <3> QED BY <2>1, <3>2, ElementOfSeq
  <2> QED BY <2>2, <2>3 DEF Fed
<1>3. ASSUME FirstLavDts < 0 PROVE LavToTiming(p.pts - FirstLavDts) \in Nat
  <2>1. p.pts - FirstLavDts \in Nat
    BY <1>1, <1>2, <1>3
  <2> QED BY <1>1, <2>1 DEF LavToTiming
<1> QED BY <1>1, <1>3 DEF DelayAfter

\* A decode time that is given is not after either of the times it is made
\* from, and not before the last one if these are not.
LEMMA DecodeTimeBetween ==
  ASSUME NEW dts \in Nat, NEW pts \in Nat, lastDts \in Nat
  PROVE  /\ DecodeTime(dts, pts) \in Nat
         /\ DecodeTime(dts, pts) <= dts /\ DecodeTime(dts, pts) <= pts
         /\ lastDts <= dts /\ lastDts <= pts => lastDts <= DecodeTime(dts, pts)
BY EncoderAssumption DEF EncoderAssumption, DecodeTime

\* An entry leaves the mapper: the others stay, in order.
LEMMA MapperLeaves ==
  ASSUME EncoderTypes, Past, Distinct, pulled # <<>>, NEW i \in 1..Len(mapper),
         mapper' \in Seq([internal : Nat, real : Nat]),
         Len(mapper') = Len(mapper) - 1,
         \A j \in 1..Len(mapper) - 1 :
           mapper'[j] = IF j < i THEN mapper[j] ELSE mapper[j + 1],
         lastLavPts' = lastLavPts
  PROVE  /\ Distinct'
         /\ \A j \in 1..Len(mapper') : mapper'[j].internal <= lastLavPts
         /\ \A f \in Fed : EntryOf(f) /\ f.pts # mapper[i].internal => EntryOf(f)'
<1>1. Len(mapper) \in Nat /\ i \in Nat /\ i >= 1 /\ i <= Len(mapper)
  BY DEF EncoderTypes
<1>2. Distinct'
  <2> SUFFICES ASSUME NEW j \in 1..Len(mapper) - 1, NEW k \in 1..Len(mapper) - 1,
                      mapper'[j].internal = mapper'[k].internal
               PROVE  j = k
    BY DEF Distinct
  <2> DEFINE u == IF j < i THEN j ELSE j + 1
             v == IF k < i THEN k ELSE k + 1
  <2>0. j \in Nat /\ k \in Nat /\ j \in 1..Len(mapper) - 1 /\ k \in 1..Len(mapper) - 1
    OBVIOUS
  <2>1. /\ u \in 1..Len(mapper) /\ v \in 1..Len(mapper)
        /\ u = v => j = k
    <3>1. u \in 1..Len(mapper)
      BY <1>1, <2>0
    <3>2. v \in 1..Len(mapper)
      BY <1>1, <2>0
    <3>3. u = v => j = k
      BY <1>1, <2>0
    <3> QED BY <3>1, <3>2, <3>3
  <2>2. mapper'[j] = mapper[u] /\ mapper'[k] = mapper[v]
    OBVIOUS
  <2> HIDE DEF u, v
  <2>3. u = v
    BY <2>1, <2>2 DEF Distinct
  <2> QED BY <2>1, <2>3
<1>3. ASSUME NEW j \in 1..Len(mapper')
      PROVE  mapper'[j].internal <= lastLavPts
  <2>1. j \in 1..Len(mapper) /\ j + 1 \in 1..Len(mapper) /\ j \in 1..Len(mapper) - 1
    BY <1>1
  <2> QED BY <2>1 DEF Past
<1>4. ASSUME NEW f \in Fed, EntryOf(f), f.pts # mapper[i].internal
      PROVE  EntryOf(f)'
  <2>1. PICK m \in 1..Len(mapper) : mapper[m].internal = f.pts /\ mapper[m].real = f.src
    BY <1>4 DEF EntryOf
  <2>2. m # i
    BY <1>4, <2>1
  <2>3. CASE m < i
    <3>1. m \in 1..Len(mapper) - 1 /\ mapper'[m] = mapper[m]
      BY <1>1, <2>1, <2>3
    <3> QED BY <2>1, <3>1 DEF EntryOf
  <2>4. CASE m > i
    <3>1. m - 1 \in 1..Len(mapper) - 1 /\ ~(m - 1 < i) /\ (m - 1) + 1 = m
      BY <1>1, <2>1, <2>4
    <3>2. mapper'[m - 1] = mapper[m]
      BY <3>1
    <3> QED BY <2>1, <3>1, <3>2 DEF EntryOf
  <2> QED BY <1>1, <2>2, <2>3, <2>4
<1> QED BY <1>2, <1>3, <1>4

-----------------------------------------------------------------------------
(* The steps                                                               *)

\* A packet is received: it is found, and decoded after the one before it.
LEMMA ReceiveInv ==
  ASSUME EncoderInv, Receive
  PROVE  EncoderInv' /\ (lastDts # NoTime => lastDts <= lastDts')
<1>1. /\ EncoderTypes /\ Order /\ Past /\ Distinct /\ Found /\ Queue /\ Behind
      /\ call = "receive"
  BY DEF EncoderInv, Receive
<1>2. PICK group \in NextOut :
        /\ coding' = Tail(group)
        /\ IF coding = <<>>
             THEN held' = SubSeq(held, Len(group) + 1, Len(held))
             ELSE UNCHANGED held
        /\ encoderDelay' = DelayAfter(Head(group))
        /\ GiveInOrder(Head(group)) \/ GiveMatched(Head(group))
  BY DEF Receive
<1>3. LavcGives(group)
  BY <1>2 DEF LavcGives, Receive
<1> DEFINE p == Head(group)
           q == Head(queueOfDts)
<1>4. /\ p \in Flight /\ p \in Fed
      /\ coding' \in Seq(Fed) /\ held' \in Seq(Fed)
      /\ Len(coding') + Len(held') = Len(coding) + Len(held) - 1
      /\ Order'
      /\ \A f \in Flight' :
           /\ f \in Flight /\ f \in Fed /\ p.pts # f.pts
           /\ \/ coding = <<>> /\ queueOfDts[1] <= f.src
              \/ coding # <<>> /\ p.src < f.src
      /\ \A i \in 1..Len(held') : queueOfDts[Len(coding') + 1 + i] = held'[i].src
  BY <1>1, <1>3, LavcLeaves
<1> HIDE DEF p
<1>5. /\ Len(coding) \in Nat /\ Len(held) \in Nat /\ Len(coding) + Len(held) > 0
      /\ Len(queueOfDts) \in Nat \ {0} /\ Len(mapper) = Len(queueOfDts)
  <2>1. Len(coding) \in Nat /\ Len(held) \in Nat /\ bframes \in Nat
    BY <1>1 DEF EncoderTypes
  <2> QED BY <1>1, <2>1 DEF Receive, LavcHasOutput, Queue
<1>6. pulled # <<>>
  <2>1. Len(<<>>) = 0
    OBVIOUS
  <2> QED BY <1>1, <1>5, <2>1 DEF Past
<1>7. encoderDelay' \in Nat /\ (~firstOut => encoderDelay' = encoderDelay)
  BY <1>1, <1>2, <1>4, <1>5, DelayIsTime DEF p
<1>8. /\ q \in Nat /\ q = queueOfDts[1]
      /\ queueOfDts' \in Seq(Nat) /\ Len(queueOfDts') = Len(queueOfDts) - 1
      /\ \A i \in 1..Len(queueOfDts') : queueOfDts'[i] = queueOfDts[i + 1]
  <2>1. queueOfDts \in Seq(Nat) /\ queueOfDts # <<>> /\ queueOfDts' = Tail(queueOfDts)
    BY <1>1, <1>5, EmptySeq DEF EncoderTypes, Receive
  <2> QED BY <2>1, HeadTailProperties
<1> HIDE DEF q
<1>9. /\ pulled' = pulled /\ encoderState' = encoderState /\ lastLavPts' = lastLavPts
      /\ bframes' = bframes /\ firstOut' = FALSE
  BY DEF Receive
\* The entry of the packet, and its times.
<1>10. \E i \in 1..Len(mapper) :
         /\ call' = "gave"
         /\ bframes > 0 => mapper[i].internal = p.pts
         /\ mapper' \in Seq([internal : Nat, real : Nat])
         /\ Len(mapper') = Len(mapper) - 1
         /\ \A j \in 1..Len(mapper) - 1 :
              mapper'[j] = IF j < i THEN mapper[j] ELSE mapper[j + 1]
         /\ out' \in [src : Nat, dts : Nat, pts : Nat]
         /\ lastDts' \in Nat /\ lastDts' <= q
         /\ bframes > 0 => lastDts' <= p.src + encoderDelay'
         /\ \/ bframes = 0 /\ lastDts' = q
            \/ /\ lastDts <= q /\ lastDts <= p.src + encoderDelay'
                 => lastDts <= lastDts'
  <2>1. CASE GiveInOrder(p)
    <3>1. /\ bframes = 0 /\ mapper' = Tail(mapper) /\ lastDts' = q /\ call' = "gave"
          /\ out' = [src |-> p.src, dts |-> q, pts |-> q]
      BY <2>1 DEF GiveInOrder, q
    <3>2. mapper \in Seq([internal : Nat, real : Nat]) /\ mapper # <<>>
      BY <1>1, <1>5, EmptySeq DEF EncoderTypes
    <3>3. /\ mapper' \in Seq([internal : Nat, real : Nat])
          /\ Len(mapper') = Len(mapper) - 1
          /\ \A j \in 1..Len(mapper') : mapper'[j] = mapper[j + 1]
      BY <3>1, <3>2, HeadTailProperties
    <3>4. out' \in [src : Nat, dts : Nat, pts : Nat]
      BY <1>4, <1>8, <3>1 DEF Fed
    <3>5. 1 \in 1..Len(mapper)
      BY <1>5
    <3>6. \A j \in 1..Len(mapper) - 1 :
            mapper'[j] = IF j < 1 THEN mapper[j] ELSE mapper[j + 1]
      BY <3>3
    <3>7. q <= q
      BY <1>8
    <3> QED BY <1>8, <3>1, <3>3, <3>4, <3>5, <3>6, <3>7
  <2>2. CASE GiveMatched(p)
    <3>1. bframes > 0
      BY <2>2 DEF GiveMatched
    <3>2. PICK i \in 1..Len(mapper) : mapper[i].internal = p.pts /\ mapper[i].real = p.src
      BY <1>1, <1>4, <3>1 DEF Found, EntryOf
    <3>3. DOMAIN mapper = 1..Len(mapper)
      BY <1>1, LenProperties DEF EncoderTypes
    <3>4. Matches(p) = {i}
      BY <1>1, <3>2, <3>3 DEF Matches, Distinct
    <3>5. First(Matches(p)) = i
      <4>1. i <= i
        BY <1>5, <3>2
      <4> QED BY <3>4, <4>1 DEF First
    <3> DEFINE pts == mapper[i].real + DelayAfter(p)
               dts == DecodeTime(Head(queueOfDts), pts)
    <3>6. /\ out' = [src |-> p.src, dts |-> dts, pts |-> pts]
          /\ mapper' = RemoveAt(mapper, i)
          /\ lastDts' = dts
          /\ call' = "gave"
      BY <2>2, <3>4, <3>5 DEF GiveMatched
    <3>7. pts \in Nat /\ pts = p.src + encoderDelay'
      <4>1. encoderDelay' = DelayAfter(p)
        BY <1>2 DEF p
      <4>2. p.src \in Nat
        BY <1>4 DEF Fed
      <4> QED BY <1>7, <3>2, <4>1, <4>2
    <3>8. /\ dts \in Nat /\ dts <= q /\ dts <= pts
          /\ lastDts <= q /\ lastDts <= pts => lastDts <= dts
      <4>1. lastDts \in Nat
        BY <1>1 DEF EncoderTypes
      <4> HIDE DEF pts
      <4> QED BY <1>8, <3>7, <4>1, DecodeTimeBetween DEF q
    <3> HIDE DEF pts, dts
    <3>9. /\ mapper' \in Seq([internal : Nat, real : Nat])
          /\ Len(mapper') = Len(mapper) - 1
          /\ \A j \in 1..Len(mapper) - 1 :
               mapper'[j] = IF j < i THEN mapper[j] ELSE mapper[j + 1]
      BY <1>1, <3>2, <3>6, RemoveAtProperties DEF EncoderTypes
    <3>10. out' \in [src : Nat, dts : Nat, pts : Nat]
      BY <1>4, <3>6, <3>7, <3>8 DEF Fed
    <3> QED BY <3>1, <3>2, <3>6, <3>7, <3>8, <3>9, <3>10
  <2> QED BY <1>2, <2>1, <2>2 DEF p
<1>11. PICK i \in 1..Len(mapper) :
         /\ call' = "gave"
         /\ bframes > 0 => mapper[i].internal = p.pts
         /\ mapper' \in Seq([internal : Nat, real : Nat])
         /\ Len(mapper') = Len(mapper) - 1
         /\ \A j \in 1..Len(mapper) - 1 :
              mapper'[j] = IF j < i THEN mapper[j] ELSE mapper[j + 1]
         /\ out' \in [src : Nat, dts : Nat, pts : Nat]
         /\ lastDts' \in Nat /\ lastDts' <= q
         /\ bframes > 0 => lastDts' <= p.src + encoderDelay'
         /\ \/ bframes = 0 /\ lastDts' = q
            \/ /\ lastDts <= q /\ lastDts <= p.src + encoderDelay'
                 => lastDts <= lastDts'
  BY <1>10
<1>12. /\ Distinct'
       /\ \A j \in 1..Len(mapper') : mapper'[j].internal <= lastLavPts
       /\ \A f \in Fed : EntryOf(f) /\ f.pts # mapper[i].internal => EntryOf(f)'
  BY <1>1, <1>6, <1>9, <1>11, MapperLeaves
<1>13. EncoderTypes'
  BY <1>1, <1>4, <1>7, <1>8, <1>9, <1>11 DEF EncoderTypes
<1>14. Past'
  <2>1. \A f \in Flight' : f.pts <= lastLavPts /\ f.src <= pulled[Len(pulled)]
    BY <1>1, <1>4, <1>6 DEF Past
  <2>2. \A j \in 1..Len(queueOfDts') : queueOfDts'[j] <= pulled[Len(pulled)]
    <3> SUFFICES ASSUME NEW j \in 1..Len(queueOfDts')
                 PROVE  queueOfDts'[j] <= pulled[Len(pulled)]
      OBVIOUS
    <3>1. j + 1 \in 1..Len(queueOfDts)
      BY <1>5, <1>8
    <3> QED BY <1>1, <1>6, <1>8, <3>1 DEF Past
  <2> QED BY <1>1, <1>6, <1>9, <1>12, <2>1, <2>2 DEF Past
<1>15. Found'
  <2> SUFFICES ASSUME bframes > 0, NEW f \in Flight' PROVE EntryOf(f)'
    BY <1>9 DEF Found
  <2>1. f \in Flight /\ f \in Fed /\ p.pts # f.pts
    BY <1>4
  <2> QED BY <1>1, <1>11, <1>12, <2>1 DEF Found
<1>16. Queue'
  <2>1. Len(queueOfDts') = Len(coding') + Len(held') /\ Len(mapper') = Len(queueOfDts')
    BY <1>1, <1>4, <1>5, <1>8, <1>11 DEF Queue
  <2>2. ASSUME NEW j \in 1..Len(held')
        PROVE  queueOfDts'[Len(coding') + j] = held'[j].src
    <3>1. Len(coding') \in Nat /\ Len(held') \in Nat
      BY <1>4, LenProperties
    <3>2. /\ Len(coding') + j \in 1..Len(queueOfDts')
          /\ (Len(coding') + j) + 1 = Len(coding') + 1 + j
      BY <2>1, <3>1
    <3> QED BY <1>4, <1>8, <3>2
  <2>3. ASSUME NEW j \in 1..Len(queueOfDts'), NEW k \in 1..Len(queueOfDts'), j < k
        PROVE  queueOfDts'[j] < queueOfDts'[k]
    <3>1. j + 1 \in 1..Len(queueOfDts) /\ k + 1 \in 1..Len(queueOfDts) /\ j + 1 < k + 1
      BY <1>5, <1>8, <2>3
    <3> QED BY <1>1, <1>8, <3>1 DEF Queue
  <2> QED BY <2>1, <2>2, <2>3 DEF Queue
<1>17. Behind'
  <2>1. ASSUME NEW j \in 1..Len(queueOfDts')
        PROVE  lastDts' <= queueOfDts'[j]
    <3>1. 1 \in 1..Len(queueOfDts) /\ j + 1 \in 1..Len(queueOfDts) /\ 1 < j + 1
      BY <1>5, <1>8
    <3>2. queueOfDts[1] < queueOfDts[j + 1] /\ queueOfDts'[j] = queueOfDts[j + 1]
      BY <1>1, <1>8, <3>1 DEF Queue
    <3>3. queueOfDts[j + 1] \in Nat
      BY <1>1, <3>1, ElementOfSeq DEF EncoderTypes
    <3>4. q \in Nat /\ q = queueOfDts[1] /\ lastDts' \in Nat /\ lastDts' <= q
      BY <1>8, <1>11
    <3> QED BY <3>2, <3>3, <3>4
  <2>2. ASSUME NEW f \in Flight'
        PROVE  lastDts' <= f.src + encoderDelay'
    <3>1. f.src \in Nat /\ p.src \in Nat
      BY <1>4 DEF Fed
    <3>2. CASE coding = <<>>
      <4>1. queueOfDts[1] <= f.src
        BY <1>4, <3>2
      <4>2. q \in Nat /\ q = queueOfDts[1] /\ lastDts' \in Nat /\ lastDts' <= q
        BY <1>8, <1>11
      <4>3. encoderDelay' \in Nat
        BY <1>7
      <4> QED BY <3>1, <4>1, <4>2, <4>3
    <3>3. CASE coding # <<>>
      <4>1. bframes > 0
        BY <1>1, <3>3 DEF Order, EncoderTypes
      <4>2. p.src < f.src
        BY <1>4, <3>3
      <4>3. lastDts' \in Nat /\ lastDts' <= p.src + encoderDelay'
        BY <1>11, <4>1
      <4>4. encoderDelay' \in Nat
        BY <1>7
      <4> QED BY <3>1, <4>2, <4>3, <4>4
    <3> QED BY <3>2, <3>3
  <2>3. lastDts' <= pulled[Len(pulled)]
    <3>1. 1 \in 1..Len(queueOfDts)
      BY <1>5
    <3>2. q <= pulled[Len(pulled)]
      BY <1>1, <1>6, <1>8, <3>1 DEF Past
    <3>3. pulled[Len(pulled)] \in Nat
      <4>1. pulled \in Seq(Nat) /\ pulled # <<>>
        BY <1>1, <1>6 DEF EncoderTypes
      <4>2. Len(pulled) \in 1..Len(pulled)
        BY <4>1, EmptySeq, LenProperties
      <4> QED BY <4>1, <4>2, ElementOfSeq
    <3>4. q \in Nat /\ lastDts' \in Nat /\ lastDts' <= q
      BY <1>8, <1>11
    <3> QED BY <3>2, <3>3, <3>4
  <2> QED BY <1>6, <1>9, <2>1, <2>2, <2>3 DEF Behind
<1>18. EncoderInv'
  BY <1>4, <1>12, <1>13, <1>14, <1>15, <1>16, <1>17 DEF EncoderInv
<1>19. ASSUME lastDts # NoTime PROVE lastDts <= lastDts'
  <2>1. ~firstOut
    BY <1>1, <1>19 DEF Behind
  <2>2. lastDts <= q /\ lastDts <= p.src + encoderDelay'
    <3>1. 1 \in 1..Len(queueOfDts)
      BY <1>5
    <3> QED BY <1>1, <1>4, <1>7, <1>8, <2>1, <3>1 DEF Behind
  <2> QED BY <1>11, <2>2
<1> QED BY <1>18, <1>19

\* A picture is fed: it is later than all that is in flight, also in ticks,
\* or libavcodec refuses it and that is the end.
LEMMA FeedInv ==
  ASSUME EncoderInv, NEW us \in NextTimes, FarFromNoTime(us), Feed(us)
  PROVE  EncoderInv'
<1>1. /\ EncoderTypes /\ Order /\ Past /\ Distinct /\ Found /\ Queue /\ Behind
      /\ call = "feed"
  BY DEF EncoderInv, Feed
<1> DEFINE t == InternalTime(us)
           entry == [internal |-> t, real |-> us]
           new == [src |-> us, pts |-> t]
<1>2. us \in Nat /\ (pulled # <<>> => pulled[Len(pulled)] < us)
  <2>1. CASE pulled = <<>>
    BY <2>1, EncoderAssumption DEF EncoderAssumption, NextTimes
  <2>2. CASE pulled # <<>>
    <3>1. pulled[Len(pulled)] \in Nat
      BY <1>1, <2>2, EmptySeq, ElementOfSeq DEF EncoderTypes
    <3>2. PICK g \in Gaps : us = pulled[Len(pulled)] + g
      BY <2>2 DEF NextTimes, Last
    <3>3. g \in Nat \ {0}
      BY <3>2, EncoderAssumption DEF EncoderAssumption
    <3> QED BY <3>1, <3>2, <3>3
  <2> QED BY <2>1, <2>2
<1>3. t \in Nat /\ t < NoTime
  <2>1. EncTick \in Nat \ {0}
    BY EncoderAssumption DEF EncoderAssumption
  <2>2. Ticks(us, EncTick) \in Nat /\ Ticks(us, EncTick) <= us
    BY <1>2, <2>1, TicksBound
  <2>3. us + 1 < NoTime
    BY <1>2, <2>1 DEF FarFromNoTime, NoTime
  <2>4. t = Ticks(us, EncTick) \/ t = Ticks(us, EncTick) + 1
    BY DEF InternalTime, TimingToLav
  <2> QED BY <1>2, <2>2, <2>3, <2>4 DEF NoTime
<1>4. /\ pulled' = Append(pulled, us)
      /\ queueOfDts' = Append(queueOfDts, us)
      /\ mapper' = Append(mapper, entry)
      /\ lastLavPts' = t
      /\ IF LavcRefuses(t) THEN call' = "ended" /\ held' = held
         ELSE call' = "receive" /\ held' = Append(held, new)
      /\ out' = out /\ encoderState' = encoderState /\ encoderDelay' = encoderDelay
      /\ lastDts' = lastDts /\ firstOut' = firstOut /\ bframes' = bframes
      /\ coding' = coding
  BY DEF Feed
<1>5. /\ entry \in [internal : Nat, real : Nat] /\ new \in Fed
      /\ entry.internal = t /\ entry.real = us /\ new.src = us /\ new.pts = t
  BY <1>2, <1>3 DEF Fed
<1> HIDE DEF t, entry, new
<1>6. /\ Len(pulled) \in Nat /\ Len(queueOfDts) \in Nat /\ Len(mapper) \in Nat
      /\ Len(held) \in Nat /\ Len(coding) \in Nat
  BY <1>1 DEF EncoderTypes
<1>7. /\ pulled' \in Seq(Nat) /\ Len(pulled') = Len(pulled) + 1 /\ pulled' # <<>>
      /\ pulled'[Len(pulled')] = us
  <2>1. pulled \in Seq(Nat) /\ us \in Nat /\ pulled' = Append(pulled, us)
    BY <1>1, <1>2, <1>4 DEF EncoderTypes
  <2> QED BY <2>1, AppendProperties
<1>8. /\ queueOfDts' \in Seq(Nat) /\ Len(queueOfDts') = Len(queueOfDts) + 1
      /\ \A i \in 1..Len(queueOfDts) : queueOfDts'[i] = queueOfDts[i]
      /\ queueOfDts'[Len(queueOfDts) + 1] = us
  BY <1>1, <1>2, <1>4, AppendProperties DEF EncoderTypes
<1>9. /\ mapper' \in Seq([internal : Nat, real : Nat]) /\ Len(mapper') = Len(mapper) + 1
      /\ \A i \in 1..Len(mapper) : mapper'[i] = mapper[i]
      /\ mapper'[Len(mapper) + 1] = entry
  BY <1>1, <1>4, <1>5, AppendProperties DEF EncoderTypes
<1>10. CASE LavcRefuses(t)
  <2>1. call' = "ended" /\ held' = held
    BY <1>4, <1>10
  <2>2. EncoderTypes'
    BY <1>1, <1>3, <1>4, <1>7, <1>8, <1>9, <2>1 DEF EncoderTypes
  <2> QED BY <2>1, <2>2 DEF EncoderInv
<1>11. CASE ~LavcRefuses(t)
  <2>1. call' = "receive" /\ held' = Append(held, new)
    BY <1>4, <1>11
  <2>2. /\ held' \in Seq(Fed) /\ Len(held') = Len(held) + 1
        /\ \A i \in 1..Len(held) : held'[i] = held[i]
        /\ held'[Len(held) + 1] = new
    BY <1>1, <1>5, <2>1, AppendProperties DEF EncoderTypes
  <2>3. \A f \in Flight : f \in Fed
    BY <1>1, RangeIndexed DEF EncoderTypes, Flight
  <2>4. \A f \in Flight : f.pts < t /\ f.src < us
    <3>1. CASE pulled = <<>>
      <4>1. Flight = {}
        BY <1>1, <3>1 DEF Past, Flight, Range
      <4> QED BY <4>1
    <3>2. CASE pulled # <<>>
      <4>1. lastLavPts # NoTime /\ lastLavPts \in Nat
        BY <1>1, <3>2 DEF Past, EncoderTypes, NoTime
      <4>2. lastLavPts < t
        BY <1>3, <1>11, <4>1 DEF LavcRefuses
      <4>3. pulled[Len(pulled)] \in Nat
        BY <1>1, <3>2, EmptySeq, ElementOfSeq DEF EncoderTypes
      <4> QED BY <1>1, <1>2, <1>3, <2>3, <3>2, <4>1, <4>2, <4>3 DEF Past, Fed
    <3> QED BY <3>1, <3>2
  <2>5. \A i \in 1..Len(mapper) : mapper[i].internal < t
    <3>1. CASE pulled = <<>>
      BY <1>1, <3>1 DEF Past
    <3>2. CASE pulled # <<>>
      <4>1. lastLavPts # NoTime /\ lastLavPts \in Nat
        BY <1>1, <3>2 DEF Past, EncoderTypes, NoTime
      <4>2. lastLavPts < t
        BY <1>3, <1>11, <4>1 DEF LavcRefuses
      <4>3. \A i \in 1..Len(mapper) : mapper[i].internal \in Nat
        BY <1>1, EntryTypes
      <4> QED BY <1>1, <1>3, <3>2, <4>1, <4>2, <4>3 DEF Past
    <3> QED BY <3>1, <3>2
  <2>6. \A i \in 1..Len(queueOfDts) : queueOfDts[i] < us
    <3>1. CASE pulled = <<>>
      BY <1>1, <3>1 DEF Past
    <3>2. CASE pulled # <<>>
      <4>1. pulled[Len(pulled)] \in Nat
        BY <1>1, <3>2, EmptySeq, ElementOfSeq DEF EncoderTypes
      <4>2. \A i \in 1..Len(queueOfDts) : queueOfDts[i] \in Nat
        BY <1>1, ElementOfSeq DEF EncoderTypes
      <4> QED BY <1>1, <1>2, <3>2, <4>1, <4>2 DEF Past
    <3> QED BY <3>1, <3>2
  <2>7. Flight' = Flight \cup {new}
    <3>1. Range(held)' = Range(held) \cup {new}
      <4>1. ASSUME NEW f \in Range(held') PROVE f \in Range(held) \cup {new}
        <5>1. PICK i \in 1..Len(held') : f = held'[i]
          BY <2>2, <4>1, RangeIndexed
        <5>2. i \in 1..Len(held) \/ i = Len(held) + 1
          BY <1>6, <2>2, <5>1
        <5> QED BY <1>1, <2>2, <5>1, <5>2, RangeIndexed DEF EncoderTypes
      <4>2. ASSUME NEW f \in Range(held) \cup {new} PROVE f \in Range(held')
        <5>1. \A i \in 1..Len(held') : held'[i] \in Range(held')
          BY <2>2, RangeIndexed
        <5>2. CASE f = new
          <6>1. Len(held) + 1 \in 1..Len(held')
            BY <1>6, <2>2
          <6> QED BY <2>2, <5>1, <5>2, <6>1
        <5>3. CASE f \in Range(held)
          <6>1. PICK i \in 1..Len(held) : f = held[i]
            BY <1>1, <5>3, RangeIndexed DEF EncoderTypes
          <6>2. i \in 1..Len(held')
            BY <1>6, <2>2
          <6> QED BY <2>2, <5>1, <6>1, <6>2
        <5> QED BY <4>2, <5>2, <5>3
      <4> QED BY <4>1, <4>2
    <3> QED BY <1>4, <3>1 DEF Flight
  <2>8. EncoderTypes'
    BY <1>1, <1>3, <1>4, <1>7, <1>8, <1>9, <2>1, <2>2 DEF EncoderTypes
  <2>9. Order'
    <3>1. Rising(held)'
      <4> SUFFICES ASSUME NEW i \in 1..Len(held'), NEW j \in 1..Len(held'), i < j
                   PROVE  held'[i].pts < held'[j].pts /\ held'[i].src < held'[j].src
        BY DEF Rising
      <4>1. i \in 1..Len(held) /\ (j \in 1..Len(held) \/ j = Len(held) + 1)
        BY <1>6, <2>2
      <4>2. CASE j \in 1..Len(held)
        BY <1>1, <2>2, <4>1, <4>2 DEF Order, Rising
      <4>3. CASE j = Len(held) + 1
        <5>1. held[i] \in Flight
          BY <1>1, <4>1, RangeIndexed DEF EncoderTypes, Flight
        <5> QED BY <1>5, <2>2, <2>4, <4>1, <4>3, <5>1
      <4> QED BY <4>1, <4>2, <4>3
    <3>2. ASSUME NEW i \in 1..Len(coding), NEW j \in 1..Len(held')
          PROVE  coding[i].pts < held'[j].pts /\ coding[i].src < held'[j].src
      <4>1. j \in 1..Len(held) \/ j = Len(held) + 1
        BY <1>6, <2>2
      <4>2. CASE j \in 1..Len(held)
        BY <1>1, <2>2, <4>2 DEF Order
      <4>3. CASE j = Len(held) + 1
        <5>1. coding[i] \in Flight
          BY <1>1, RangeIndexed DEF EncoderTypes, Flight
        <5> QED BY <1>5, <2>2, <2>4, <4>3, <5>1
      <4> QED BY <4>1, <4>2, <4>3
    <3> QED BY <1>1, <1>4, <3>1, <3>2 DEF Order, Rising
  <2>10. Past'
    <3>1. \A f \in Flight' : f.pts <= t /\ f.src <= us
      BY <1>2, <1>3, <1>5, <2>3, <2>4, <2>7 DEF Fed
    <3>2. \A i \in 1..Len(mapper') : mapper'[i].internal <= t
      <4> SUFFICES ASSUME NEW i \in 1..Len(mapper') PROVE mapper'[i].internal <= t
        OBVIOUS
      <4>1. i \in 1..Len(mapper) \/ i = Len(mapper) + 1
        BY <1>6, <1>9
      <4>2. \A k \in 1..Len(mapper) : mapper[k].internal \in Nat
        BY <1>1, EntryTypes
      <4>3. CASE i \in 1..Len(mapper)
        <5>1. mapper'[i] = mapper[i]
          BY <1>9, <4>3
        <5>2. mapper[i].internal < t
          BY <2>5, <4>3
        <5>3. mapper[i].internal \in Nat /\ t \in Nat
          BY <1>3, <4>2, <4>3
        <5> QED BY <5>1, <5>2, <5>3
      <4>4. CASE i = Len(mapper) + 1
        BY <1>3, <1>5, <1>9, <4>4
      <4> QED BY <4>1, <4>3, <4>4
    <3>3. \A i \in 1..Len(queueOfDts') : queueOfDts'[i] <= us
      <4> SUFFICES ASSUME NEW i \in 1..Len(queueOfDts') PROVE queueOfDts'[i] <= us
        OBVIOUS
      <4>1. i \in 1..Len(queueOfDts) \/ i = Len(queueOfDts) + 1
        BY <1>6, <1>8
      <4>2. \A k \in 1..Len(queueOfDts) : queueOfDts[k] \in Nat
        BY <1>1, ElementOfSeq DEF EncoderTypes
      <4> QED BY <1>2, <1>8, <2>6, <4>1, <4>2
    <3> QED BY <1>3, <1>4, <1>7, <3>1, <3>2, <3>3 DEF Past
  <2>11. Distinct'
    <3> SUFFICES ASSUME NEW i \in 1..Len(mapper'), NEW j \in 1..Len(mapper'),
                        mapper'[i].internal = mapper'[j].internal
                 PROVE  i = j
      BY DEF Distinct
    <3>1. i \in 1..Len(mapper) \/ i = Len(mapper) + 1
      BY <1>6, <1>9
    <3>2. j \in 1..Len(mapper) \/ j = Len(mapper) + 1
      BY <1>6, <1>9
    <3>3. \A k \in 1..Len(mapper) : mapper[k].internal # t
      <4>1. \A k \in 1..Len(mapper) : mapper[k].internal \in Nat
        BY <1>1, EntryTypes
      <4> QED BY <1>3, <2>5, <4>1
    <3> QED BY <1>1, <1>5, <1>9, <3>1, <3>2, <3>3 DEF Distinct
  <2>12. Found'
    <3> SUFFICES ASSUME bframes > 0, NEW f \in Flight' PROVE EntryOf(f)'
      BY <1>4 DEF Found
    <3>1. CASE f \in Flight
      <4>1. PICK i \in 1..Len(mapper) : mapper[i].internal = f.pts /\ mapper[i].real = f.src
        BY <1>1, <3>1 DEF Found, EntryOf
      <4>2. i \in 1..Len(mapper') /\ mapper'[i] = mapper[i]
        BY <1>6, <1>9
      <4> QED BY <4>1, <4>2 DEF EntryOf
    <3>2. CASE f = new
      <4>1. Len(mapper) + 1 \in 1..Len(mapper')
        BY <1>6, <1>9
      <4> QED BY <1>5, <1>9, <3>2, <4>1 DEF EntryOf
    <3> QED BY <2>7, <3>1, <3>2
  <2>13. Queue'
    <3>1. Len(queueOfDts') = Len(coding') + Len(held') /\ Len(mapper') = Len(queueOfDts')
      BY <1>1, <1>4, <1>6, <1>8, <1>9, <2>2 DEF Queue
    <3>2. ASSUME NEW i \in 1..Len(held')
          PROVE  queueOfDts'[Len(coding) + i] = held'[i].src
      <4>1. i \in 1..Len(held) \/ i = Len(held) + 1
        BY <1>6, <2>2
      <4>2. CASE i \in 1..Len(held)
        <5>1. Len(coding) + i \in 1..Len(queueOfDts)
          BY <1>1, <1>6, <4>2 DEF Queue
        <5> QED BY <1>1, <1>8, <2>2, <4>2, <5>1 DEF Queue
      <4>3. CASE i = Len(held) + 1
        <5>1. Len(coding) + i = Len(queueOfDts) + 1
          BY <1>1, <1>6, <4>3 DEF Queue
        <5> QED BY <1>5, <1>8, <2>2, <4>3, <5>1
      <4> QED BY <4>1, <4>2, <4>3
    <3>3. ASSUME NEW i \in 1..Len(queueOfDts'), NEW j \in 1..Len(queueOfDts'), i < j
          PROVE  queueOfDts'[i] < queueOfDts'[j]
      <4>0. Len(queueOfDts) \in Nat /\ Len(queueOfDts') = Len(queueOfDts) + 1
        BY <1>6, <1>8
      <4>1. i \in 1..Len(queueOfDts) /\ (j \in 1..Len(queueOfDts) \/ j = Len(queueOfDts) + 1)
        BY <3>3, <4>0
      <4> QED BY <1>1, <1>8, <2>6, <3>3, <4>1 DEF Queue
    <3> QED BY <1>4, <3>1, <3>2, <3>3 DEF Queue
  <2>14. Behind'
    <3>1. CASE firstOut
      BY <1>1, <1>4, <3>1 DEF Behind
    <3>2. CASE ~firstOut
      <4>1. lastDts <= us /\ lastDts \in Nat
        <5>1. pulled # <<>> /\ lastDts <= pulled[Len(pulled)]
          BY <1>1, <3>2 DEF Behind
        <5>2. pulled[Len(pulled)] \in Nat /\ lastDts \in Nat
          BY <1>1, <5>1, EmptySeq, ElementOfSeq DEF EncoderTypes
        <5> QED BY <1>2, <5>1, <5>2
      <4>2. \A i \in 1..Len(queueOfDts') : lastDts <= queueOfDts'[i]
        <5> SUFFICES ASSUME NEW i \in 1..Len(queueOfDts') PROVE lastDts <= queueOfDts'[i]
          OBVIOUS
        <5>1. i \in 1..Len(queueOfDts) \/ i = Len(queueOfDts) + 1
          BY <1>6, <1>8
        <5> QED BY <1>1, <1>8, <3>2, <4>1, <5>1 DEF Behind
      <4>3. \A f \in Flight' : lastDts <= f.src + encoderDelay
        <5> SUFFICES ASSUME NEW f \in Flight' PROVE lastDts <= f.src + encoderDelay
          OBVIOUS
        <5>1. CASE f \in Flight
          BY <1>1, <3>2, <5>1 DEF Behind
        <5>2. CASE f = new
          <6>1. encoderDelay \in Nat
            BY <1>1 DEF EncoderTypes
          <6> QED BY <1>2, <1>5, <4>1, <5>2, <6>1
        <5> QED BY <2>7, <5>1, <5>2
      <4> QED BY <1>4, <1>7, <3>2, <4>1, <4>2, <4>3 DEF Behind
    <3> QED BY <3>1, <3>2
  <2> QED BY <2>1, <2>8, <2>9, <2>10, <2>11, <2>12, <2>13, <2>14 DEF EncoderInv
<1> QED BY <1>10, <1>11

-----------------------------------------------------------------------------
(* The save                                                                *)

\* Before the first picture nothing is in flight.
LEMMA EncoderInitInv ==
  ASSUME Init
  PROVE  EncoderInv
<1>1. EncoderTypes
  BY EncoderAssumption
  DEF Init, EncoderInit, EncoderTypes, EncoderAssumption, NoPicture, NoTime
<1>2. Flight = {}
  BY DEF Init, EncoderInit, Flight, Range
<1> QED
  BY <1>1, <1>2
  DEF Init, EncoderInit, EncoderInv, Order, Rising, Past, Distinct, Found, Queue, Behind

\* Steps of encode() that only move on.
LEMMA MovesOnInv ==
  ASSUME EncoderInv,
         CallEncode \/ FeedEnd \/ NeedsMore \/ Flushed \/ TakeEncoded
  PROVE  EncoderInv'
<1>1. /\ UNCHANGED <<out, pulled, timeVars, bframes, lavcVars>>
      /\ call' \in {"idle", "feed", "receive", "ended"}
      /\ encoderState' \in {encoderState, "flushing", "flushed"}
      /\ call # "ended"
  BY DEF CallEncode, FeedEnd, NeedsMore, Flushed, TakeEncoded
<1>2. EncoderTypes'
  BY <1>1 DEF EncoderInv, EncoderTypes, timeVars, lavcVars
<1>3. (Order /\ Past /\ Distinct /\ Found /\ Queue /\ Behind)'
  BY <1>1
  DEF EncoderInv, Order, Rising, Past, Distinct, Found, EntryOf, Queue, Behind,
      Flight, timeVars, lavcVars
<1> QED BY <1>2, <1>3 DEF EncoderInv

\* What the muxer, the user and the editor do leaves the encoder as it is.
LEMMA EncoderUnchanged ==
  ASSUME EncoderInv, UNCHANGED encoderVars
  PROVE  EncoderInv'
<1>1. EncoderTypes'
  BY DEF EncoderInv, EncoderTypes, encoderVars, encodeVars, timeVars, lavcVars
<1>2. call # "ended" => (Order /\ Past /\ Distinct /\ Found /\ Queue /\ Behind)'
  BY DEF EncoderInv, Order, Rising, Past, Distinct, Found, EntryOf, Queue, Behind,
         Flight, encoderVars, encodeVars, timeVars, lavcVars
<1> QED BY <1>1, <1>2 DEF EncoderInv, encoderVars, encodeVars

\* Every step of a save keeps the encoder's invariant, and a decode time
\* that is given is not before the one given last.
LEMMA EncoderNext ==
  ASSUME EncoderInv, [Next]_vars
  PROVE  /\ EncoderInv'
         /\ call' = "gave" /\ lastDts # NoTime
              => UNCHANGED encoderVars \/ lastDts' >= lastDts
<1>1. CASE Encode
  <2>1. CASE CallEncode \/ FeedEnd \/ NeedsMore \/ Flushed
    BY <2>1, MovesOnInv DEF CallEncode, FeedEnd, NeedsMore, Flushed
  <2>2. CASE FeedSome
    <3>1. PICK us \in NextTimes : FarFromNoTime(us) /\ Feed(us)
      BY <2>2 DEF FeedSome
    <3>2. EncoderInv'
      BY <3>1, FeedInv
    <3>3. call' # "gave"
      BY <3>1 DEF Feed
    <3> QED BY <3>2, <3>3
  <2>3. CASE Receive
    <3>1. EncoderInv' /\ (lastDts # NoTime => lastDts <= lastDts')
      BY <2>3, ReceiveInv
    <3>2. lastDts \in Nat /\ lastDts' \in Nat
      BY <3>1 DEF EncoderInv, EncoderTypes
    <3> QED BY <3>1, <3>2
  <2> QED BY <1>1, <2>1, <2>2, <2>3 DEF Encode, EncoderStep
<1>2. CASE TakeEncoded
  BY <1>2, MovesOnInv DEF TakeEncoded
<1>3. CASE EncodeEnds \/ TakeCopied \/ CopyEnds \/ UserStops \/ Mux \/ Rest
           \/ UNCHANGED vars
  <2>1. UNCHANGED encoderVars
    BY <1>3 DEF EncodeEnds, TakeCopied, CopyEnds, UserStops, Mux, Rest, vars
  <2> QED BY <2>1, EncoderUnchanged
<1> QED BY <1>1, <1>2, <1>3 DEF Next

\* The times in the encoder are in order and can be found, always.
THEOREM EncoderInOrder == Spec => []EncoderInv
<1>1. Init => EncoderInv
  BY EncoderInitInv
<1>2. EncoderInv /\ [Next]_vars => EncoderInv'
  BY EncoderNext
<1> QED BY <1>1, <1>2, PTL DEF Spec

\* Each packet that comes out of libavcodec is found among the pictures in
\* flight (the assertion of getRealPtsFromInternal never fails).
THEOREM SaverFindsEveryPicture == Spec => []EveryPictureFound
<1>1. EncoderInv => EveryPictureFound
  BY DEF EncoderInv, EncoderTypes, EveryPictureFound
<1> QED BY <1>1, EncoderInOrder, PTL

\* The decode times the encoder gives, made up or not, never go back.
THEOREM SaverDecodesForward == Spec => DecodeTimesForward
<1>1. EncoderInv /\ [Next]_vars
        => [call' = "gave" /\ lastDts # NoTime => lastDts' >= lastDts]_encoderVars
  BY EncoderNext
<1> QED BY <1>1, EncoderInOrder, PTL DEF Spec, DecodeTimesForward

-----------------------------------------------------------------------------
(* Refusals                                                                *)

(* The last internal time is the tick of the last picture, or the next one *)
(* if the picture before is so near that it had to be moved.               *)
Moved ==
  pulled # <<>> =>
    LET n == Len(pulled) IN
      \/ lastLavPts = TimingToLav(pulled[n])
      \/ /\ lastLavPts = TimingToLav(pulled[n]) + 1
         /\ n > 1
         /\ TimingToLav(pulled[n]) <= TimingToLav(pulled[n - 1]) + 1

CutInv == CutShortWhenCrowded /\ (call # "ended" => Moved)

\* A later time is not in an earlier tick.
LEMMA TicksInOrder ==
  ASSUME NEW a \in Nat, NEW b \in Nat, a <= b, NEW tick \in Nat \ {0}
  PROVE  Ticks(a, tick) <= Ticks(b, tick)
<1> DEFINE A == Ticks(a, tick)
           B == Ticks(b, tick)
           d == 100 * tick
<1>1. A \in Nat /\ B \in Nat /\ d \in Nat /\ d > 0
  <2>1. A \in Nat /\ B \in Nat
    BY TicksBound
  <2> HIDE DEF A, B
  <2> QED BY <2>1
<1>2. d * A <= 100 * a + 49 * tick /\ 100 * b + 49 * tick < d * (B + 1)
  BY TicksBound
<1>3. d * A < d * (B + 1)
  <2>1. d * A \in Int /\ d * (B + 1) \in Int
    BY <1>1
  <2> QED BY <1>2, <2>1
<1> HIDE DEF A, B, d
<1>4. ASSUME A > B PROVE FALSE
  <2>1. d * (B + 1) <= d * A
    BY <1>1, <1>4
  <2> QED BY <1>1, <1>3, <2>1
<1> QED BY <1>1, <1>4 DEF A, B

\* Two times less than two ticks apart, if their ticks are.
LEMMA TicksNear ==
  ASSUME NEW a \in Nat, NEW b \in Nat, NEW tick \in Nat \ {0},
         Ticks(b, tick) <= Ticks(a, tick) + 1
  PROVE  b - a < 2 * tick
<1> DEFINE A == Ticks(a, tick)
           B == Ticks(b, tick)
           d == 100 * tick
<1>1. A \in Nat /\ B \in Nat /\ d \in Nat /\ d > 0
  <2>1. A \in Nat /\ B \in Nat
    BY TicksBound
  <2> HIDE DEF A, B
  <2> QED BY <2>1
<1>2. d * A <= 100 * a + 49 * tick /\ 100 * b + 49 * tick < d * (B + 1)
  BY TicksBound
<1>3. d * (B + 1) <= d * (A + 2) /\ d * (A + 2) = d * A + 2 * d
  <2>1. B + 1 <= A + 2
    BY <1>1
  <2> HIDE DEF A, B, d
  <2> QED BY <1>1, <2>1
<1>4. 100 * b < 100 * a + 2 * d
  <2>1. d * A \in Int /\ d * (B + 1) \in Int
    BY <1>1
  <2> QED BY <1>2, <1>3, <2>1
<1> QED BY <1>4

\* A picture that is fed keeps to the ticks, or the refusal has its reason.
LEMMA FeedCut ==
  ASSUME EncoderInv, CutInv, NEW us \in NextTimes, FarFromNoTime(us), Feed(us)
  PROVE  CutInv'
<1> DEFINE t == InternalTime(us)
           n == Len(pulled)
           T(x) == Ticks(x, EncTick)
<1>1. /\ EncoderTypes /\ Past /\ Moved /\ call = "feed"
      /\ EncTick \in Nat \ {0}
  BY EncoderAssumption DEF EncoderInv, CutInv, Feed, EncoderAssumption
<1>2. us \in Nat
  <2>1. CASE pulled = <<>>
    BY <2>1, EncoderAssumption DEF EncoderAssumption, NextTimes
  <2>2. CASE pulled # <<>>
    <3>1. pulled[n] \in Nat
      BY <1>1, <2>2, EmptySeq, ElementOfSeq DEF EncoderTypes
    <3> QED BY <2>2, <3>1, EncoderAssumption DEF NextTimes, Last, EncoderAssumption
  <2> QED BY <2>1, <2>2
<1>3. pulled # <<>> => n \in Nat /\ n > 0 /\ pulled[n] \in Nat /\ pulled[n] < us
  <2> SUFFICES ASSUME pulled # <<>> PROVE n \in Nat /\ n > 0 /\ pulled[n] \in Nat /\ pulled[n] < us
    OBVIOUS
  <2>1. n \in Nat /\ n > 0 /\ pulled[n] \in Nat
    BY <1>1, EmptySeq, ElementOfSeq DEF EncoderTypes
  <2>2. PICK g \in Gaps : us = pulled[n] + g
    BY DEF NextTimes, Last
  <2>3. g \in Nat \ {0}
    BY EncoderAssumption DEF EncoderAssumption
  <2> QED BY <2>1, <2>2, <2>3
<1>4. /\ pulled' = Append(pulled, us) /\ lastLavPts' = t
      /\ call' = IF LavcRefuses(t) THEN "ended" ELSE "receive"
      /\ encoderState' = encoderState /\ encoderState = "feeding"
  BY DEF Feed
<1>5. t = IF T(us) = lastLavPts THEN T(us) + 1 ELSE T(us)
  BY DEF InternalTime, TimingToLav
<1>6. T(us) \in Nat /\ lastLavPts \in Nat
  BY <1>1, <1>2, TicksBound DEF EncoderTypes
<1> HIDE DEF t
<1>7. /\ n \in Nat /\ Len(pulled') = n + 1 /\ pulled'[n + 1] = us
      /\ \A i \in 1..n : pulled'[i] = pulled[i]
      /\ pulled' # <<>>
  <2>1. pulled \in Seq(Nat) /\ us \in Nat /\ pulled' = Append(pulled, us)
    BY <1>1, <1>2, <1>4 DEF EncoderTypes
  <2> QED BY <2>1, AppendProperties
<1>8. ASSUME pulled # <<>>
      PROVE  /\ T(pulled[n]) \in Nat /\ T(pulled[n]) <= T(us)
             /\ \/ lastLavPts = T(pulled[n])
                \/ lastLavPts = T(pulled[n]) + 1
             /\ lastLavPts # NoTime
  <2>1. T(pulled[n]) \in Nat /\ T(pulled[n]) <= T(us)
    <3>1. pulled[n] \in Nat /\ pulled[n] <= us
      BY <1>2, <1>3, <1>8
    <3>2. T(pulled[n]) \in Nat
      BY <1>1, <3>1, TicksBound
    <3>3. T(pulled[n]) <= T(us)
      BY <1>1, <1>2, <3>1, TicksInOrder
    <3> QED BY <3>2, <3>3
  <2>2. lastLavPts # NoTime
    BY <1>1, <1>8 DEF Past, EncoderTypes, NoTime
  <2> QED BY <1>1, <1>8, <2>1, <2>2 DEF Moved, TimingToLav
<1>9. CASE LavcRefuses(t)
  <2>1. pulled # <<>>
    BY <1>1, <1>9 DEF LavcRefuses, Past
  <2>2. T(us) = T(pulled[n]) /\ lastLavPts = T(pulled[n]) + 1
    BY <1>5, <1>6, <1>8, <1>9, <2>1 DEF LavcRefuses
  <2>3. n > 1 /\ T(pulled[n]) <= T(pulled[n - 1]) + 1
    BY <1>1, <1>6, <2>1, <2>2 DEF Moved, TimingToLav
  <2>4. n - 1 \in 1..n /\ pulled[n - 1] \in Nat
    <3>1. n - 1 \in 1..n
      BY <1>7, <2>3
    <3>2. pulled \in Seq(Nat)
      BY <1>1 DEF EncoderTypes
    <3> QED BY <3>1, <3>2, ElementOfSeq
  <2>5. us - pulled[n - 1] < 2 * EncTick
    BY <1>1, <1>2, <2>2, <2>3, <2>4, TicksNear
  <2>6. /\ n - 1 \in 1..Len(pulled') - 2
        /\ pulled'[(n - 1) + 2] - pulled'[n - 1] < 2 * EncTick
    <3>1. n - 1 \in 1..Len(pulled') - 2 /\ (n - 1) + 2 = n + 1
      BY <1>7, <2>3
    <3> QED BY <1>7, <2>4, <2>5, <3>1
  <2>7. call' = "ended"
    BY <1>4, <1>9
  <2> QED BY <2>6, <2>7 DEF CutInv, CutShortWhenCrowded
<1>10. CASE ~LavcRefuses(t)
  <2>1. call' = "receive"
    BY <1>4, <1>10
  <2>2. Moved'
    <3>1. CASE t = T(us)
      BY <1>4, <1>7, <3>1 DEF Moved, TimingToLav
    <3>2. CASE t # T(us)
      <4>1. t = T(us) + 1 /\ T(us) = lastLavPts
        BY <1>5, <3>2
      <4>2. pulled # <<>>
        <5>1. T(us) <= us /\ us < NoTime
          BY <1>1, <1>2, TicksBound DEF FarFromNoTime, NoTime
        <5> QED BY <1>1, <1>2, <1>6, <4>1, <5>1 DEF Past, NoTime
      <4>3. T(us) <= T(pulled[n]) + 1
        BY <1>6, <1>8, <4>1, <4>2
      <4>4. n + 1 > 1 /\ (n + 1) - 1 = n /\ pulled'[n] = pulled[n]
        BY <1>3, <1>7, <4>2
      <4> QED BY <1>4, <1>7, <4>1, <4>3, <4>4 DEF Moved, TimingToLav
    <3> QED BY <3>1, <3>2
  <2> QED BY <2>1, <2>2 DEF CutInv, CutShortWhenCrowded, CutShort
<1> QED BY <1>9, <1>10

\* Every step of a save keeps to the ticks.
LEMMA CutNext ==
  ASSUME EncoderInv, CutInv, [Next]_vars
  PROVE  CutInv'
<1>1. CASE Encode /\ FeedSome
  <2>1. PICK us \in NextTimes : FarFromNoTime(us) /\ Feed(us)
    BY <1>1 DEF FeedSome
  <2> QED BY <2>1, FeedCut
<1>2. CASE \/ Encode /\ (CallEncode \/ FeedEnd \/ NeedsMore \/ Flushed)
           \/ TakeEncoded
  <2>1. UNCHANGED <<pulled, lastLavPts>> /\ call # "ended"
    BY <1>2 DEF CallEncode, FeedEnd, NeedsMore, Flushed, TakeEncoded, timeVars
  <2>2. ~CutShort'
    BY <1>2 DEF CallEncode, FeedEnd, NeedsMore, Flushed, TakeEncoded, CutShort
  <2> QED BY <2>1, <2>2 DEF CutInv, CutShortWhenCrowded, Moved
<1>3. CASE Encode /\ Receive
  <2>1. UNCHANGED <<pulled, lastLavPts>> /\ call # "ended" /\ call' \in {"gave", "dead"}
    BY <1>3 DEF Receive, GiveInOrder, GiveMatched
  <2> QED BY <2>1 DEF CutInv, CutShortWhenCrowded, CutShort, Moved
<1>4. CASE \/ EncodeEnds \/ TakeCopied \/ CopyEnds \/ UserStops \/ Mux \/ Rest
           \/ UNCHANGED vars
  <2>1. UNCHANGED encoderVars
    BY <1>4 DEF EncodeEnds, TakeCopied, CopyEnds, UserStops, Mux, Rest, vars
  <2> QED BY <2>1 DEF CutInv, CutShortWhenCrowded, CutShort, Moved,
                      encoderVars, encodeVars, timeVars
<1> QED BY <1>1, <1>2, <1>3, <1>4 DEF Next, Encode, EncoderStep

\* libavcodec refuses a picture, which ends the film without a word, only if
\* three pictures come within less than two ticks.
THEOREM SaverCutShortWhenCrowded == Spec => []CutShortWhenCrowded
<1>1. Init => CutInv
  BY DEF Init, EncoderInit, CutInv, CutShortWhenCrowded, CutShort, Moved
<1>2. EncoderInv /\ CutInv /\ [Next]_vars => CutInv'
  BY CutNext
<1>3. CutInv => CutShortWhenCrowded
  BY DEF CutInv
<1> QED BY <1>1, <1>2, <1>3, EncoderInOrder, PTL DEF Spec

-----------------------------------------------------------------------------
(* What the encoder gives                                                  *)

LastPulled == pulled[Len(pulled)]

(* A picture is given with its own time and the delay, which is known from *)
(* the first one on; no time comes near NoTime.                            *)
GivenInv ==
  /\ firstOut \/ bframes = 0 => encoderDelay = 0
  /\ ~firstOut => pulled # <<>>
  /\ pulled # <<>> =>
       /\ 3 * (LastPulled + EncTick) < NoTime - 1
       /\ encoderDelay <= 2 * LastPulled + 3 * EncTick
  /\ call = "gave" =>
       /\ ~firstOut
       /\ out.src <= LastPulled
       /\ out.pts = out.src + encoderDelay
       /\ out.dts = lastDts /\ out.dts <= out.pts

\* The delay is bounded by the last picture fed.
LEMMA DelayBound ==
  ASSUME EncoderInv, CutInv, Receive, NEW p \in Flight, p \in Fed,
         encoderDelay <= 2 * LastPulled + 3 * EncTick
  PROVE  DelayAfter(p) <= 2 * LastPulled + 3 * EncTick
<1>1. /\ EncoderTypes /\ Past /\ Queue /\ Moved /\ call = "receive"
      /\ EncTick \in Nat \ {0}
  BY EncoderAssumption DEF EncoderInv, CutInv, Receive, EncoderAssumption
<1> DEFINE fed == coding \o held
<1>2. fed \in Seq(Fed) /\ Len(fed) = Len(coding) + Len(held)
      /\ Len(coding) \in Nat /\ Len(held) \in Nat
      /\ \A i \in 1..Len(fed) : fed[i] \in Flight
  <2>1. /\ fed \in Seq(Fed) /\ Len(fed) = Len(coding) + Len(held)
        /\ Len(coding) \in Nat /\ Len(held) \in Nat
        /\ \A i \in 1..Len(coding) + Len(held) :
             fed[i] = IF i <= Len(coding) THEN coding[i] ELSE held[i - Len(coding)]
    BY <1>1, ConcatProperties, LenProperties DEF EncoderTypes
  <2> HIDE DEF fed
  <2>2. ASSUME NEW i \in 1..Len(fed) PROVE fed[i] \in Flight
    <3>1. CASE i <= Len(coding)
      <4>1. i \in 1..Len(coding) /\ fed[i] = coding[i]
        BY <2>1, <3>1
      <4>2. coding[i] \in Range(coding)
        BY <1>1, <4>1, RangeIndexed DEF EncoderTypes
      <4> QED BY <4>1, <4>2 DEF Flight
    <3>2. CASE ~(i <= Len(coding))
      <4>1. i - Len(coding) \in 1..Len(held) /\ fed[i] = held[i - Len(coding)]
        BY <2>1, <3>2
      <4>2. held[i - Len(coding)] \in Range(held)
        BY <1>1, <4>1, RangeIndexed DEF EncoderTypes
      <4> QED BY <4>1, <4>2 DEF Flight
    <3> QED BY <3>1, <3>2
  <2> QED BY <2>1, <2>2
<1>3. FirstLavDts = IF bframes > 0 /\ Len(fed) > 1 THEN 2 * fed[1].pts - fed[2].pts
                    ELSE fed[1].pts
  BY DEF FirstLavDts
<1> HIDE DEF fed
<1>4. Len(fed) >= 1 /\ Len(fed) \in Nat
  BY <1>1, <1>2 DEF Receive, LavcHasOutput, EncoderTypes
<1>5. pulled # <<>> /\ Len(pulled) \in Nat \ {0} /\ LastPulled \in Nat
  <2>1. 1 \in 1..Len(fed)
    BY <1>4
  <2>2. pulled # <<>>
    BY <1>1, <1>2, <2>1 DEF Past, Queue, Flight, Range
  <2>3. pulled \in Seq(Nat)
    BY <1>1 DEF EncoderTypes
  <2>4. Len(pulled) \in 1..Len(pulled) /\ Len(pulled) \in Nat \ {0}
    BY <2>2, <2>3, EmptySeq, LenProperties
  <2> QED BY <2>2, <2>3, <2>4, ElementOfSeq DEF LastPulled
<1>6. ASSUME NEW f \in Flight PROVE f \in Fed /\ f.pts \in Nat /\ f.pts <= lastLavPts
  <2>1. f \in Fed
    BY <1>1, RangeIndexed DEF EncoderTypes, Flight
  <2>2. f.pts <= lastLavPts
    BY <1>1, <1>5 DEF Past
  <2> QED BY <2>1, <2>2 DEF Fed
<1> DEFINE T == TimingToLav(LastPulled)
<1>7. T \in Nat /\ 100 * EncTick * T <= 100 * LastPulled + 49 * EncTick
      /\ lastLavPts \in Nat /\ lastLavPts <= T + 1
  <2>1. T \in Nat /\ 100 * EncTick * T <= 100 * LastPulled + 49 * EncTick
    <3>1. Ticks(LastPulled, EncTick) \in Nat
      BY <1>1, <1>5, TicksBound
    <3>2. 100 * EncTick * Ticks(LastPulled, EncTick) <= 100 * LastPulled + 49 * EncTick
      BY <1>1, <1>5, TicksBound
    <3> QED BY <3>1, <3>2 DEF TimingToLav
  <2>2. lastLavPts = T \/ lastLavPts = T + 1
    BY <1>1, <1>5 DEF Moved, LastPulled
  <2> HIDE DEF T
  <2> QED BY <2>1, <2>2
<1> HIDE DEF T
<1>8. ASSUME FirstLavDts < 0
      PROVE  LavToTiming(p.pts - FirstLavDts) <= 2 * LastPulled + 3 * EncTick
  <2>1. 1 \in 1..Len(fed)
    BY <1>4
  <2>2. Len(fed) > 1 /\ FirstLavDts = 2 * fed[1].pts - fed[2].pts
    BY <1>2, <1>3, <1>6, <1>8, <2>1
  <2>3. 2 \in 1..Len(fed)
    BY <1>4, <2>2
  <2>4. /\ fed[1].pts \in Nat /\ fed[2].pts \in Nat /\ p.pts \in Nat
        /\ fed[2].pts <= lastLavPts /\ p.pts <= lastLavPts
    BY <1>2, <1>6, <2>1, <2>3
  <2> DEFINE x == p.pts - FirstLavDts
  <2>5. x \in Nat /\ x <= 2 * (T + 1)
    <3>1. x = p.pts + fed[2].pts - 2 * fed[1].pts /\ FirstLavDts \in Int
      BY <2>2, <2>4
    <3>2. lastLavPts \in Nat /\ lastLavPts <= T + 1 /\ T \in Nat
      BY <1>7
    <3> QED BY <1>8, <2>4, <3>1, <3>2
  <2> HIDE DEF x
  <2>6. x * EncTick <= (2 * (T + 1)) * EncTick
    BY <1>1, <1>7, <2>5
  <2>7. (2 * (T + 1)) * EncTick = 2 * (EncTick * T) + 2 * EncTick
    BY <1>1, <1>7
  <2>8. 100 * (EncTick * T) <= 100 * LastPulled + 49 * EncTick
    BY <1>1, <1>7
  <2>9. x * EncTick \in Int /\ EncTick * T \in Int
    BY <1>1, <1>7, <2>5
  <2>10. x * EncTick <= 2 * LastPulled + 3 * EncTick
    BY <1>1, <1>5, <2>6, <2>7, <2>8, <2>9
  <2> QED BY <2>10 DEF LavToTiming, x
<1> QED BY <1>8 DEF DelayAfter

\* A packet that is received is given its own time, later by the delay.
LEMMA ReceiveGives ==
  ASSUME EncoderInv, CutInv, GivenInv, Receive
  PROVE  /\ GivenInv' /\ call' = "gave"
         /\ ~firstOut => encoderDelay' = encoderDelay
         /\ Len(held') + Len(coding') = Len(held) + Len(coding) - 1
<1>1. /\ EncoderTypes /\ Order /\ Past /\ Distinct /\ Found /\ Queue
      /\ call = "receive"
  BY DEF EncoderInv, Receive
<1>2. PICK group \in NextOut :
        /\ coding' = Tail(group)
        /\ IF coding = <<>>
             THEN held' = SubSeq(held, Len(group) + 1, Len(held))
             ELSE UNCHANGED held
        /\ encoderDelay' = DelayAfter(Head(group))
        /\ GiveInOrder(Head(group)) \/ GiveMatched(Head(group))
  BY DEF Receive
<1>3. LavcGives(group)
  BY <1>2 DEF LavcGives, Receive
<1> DEFINE p == Head(group)
<1>4. /\ p \in Flight /\ p \in Fed
      /\ Len(coding') + Len(held') = Len(coding) + Len(held) - 1
      /\ coding' \in Seq(Fed) /\ held' \in Seq(Fed)
  BY <1>1, <1>3, LavcLeaves
<1>5. Len(coding) \in Nat /\ Len(held) \in Nat /\ Len(coding) + Len(held) > 0
  <2>1. Len(coding) \in Nat /\ Len(held) \in Nat /\ bframes \in Nat
    BY <1>1 DEF EncoderTypes
  <2> QED BY <1>1, <2>1 DEF Receive, LavcHasOutput
<1>6. bframes = 0 => coding = <<>> /\ p = held[1] /\ Len(held) > 0
  <2> SUFFICES ASSUME bframes = 0 PROVE coding = <<>> /\ p = held[1] /\ Len(held) > 0
    OBVIOUS
  <2>1. coding = <<>> /\ Len(held) > 0
    BY <1>1, <1>5 DEF Order
  <2>2. group \in {<<held[b + 1]>> \o SubSeq(held, 1, b) :
                     b \in IF firstOut THEN {0} ELSE 0..Least(bframes, Len(held) - 1)}
    BY <1>2, <2>1 DEF NextOut
  <2>3. (IF firstOut THEN {0} ELSE 0..Least(bframes, Len(held) - 1)) = {0}
    BY <1>5, <2>1 DEF Least
  <2>4. group = <<held[0 + 1]>> \o SubSeq(held, 1, 0)
    BY <2>2, <2>3
  <2>5. 1 \in 1..Len(held) /\ held[1] \in Fed
    <3>1. 1 \in 1..Len(held)
      BY <1>5, <2>1
    <3> QED BY <1>1, <3>1, ElementOfSeq DEF EncoderTypes
  <2>6. group = <<held[1]>>
    <3>1. SubSeq(held, 1, 0) = <<>> /\ 0 + 1 = 1
      BY <1>1 DEF EncoderTypes
    <3>2. <<held[1]>> \in Seq(Fed)
      BY <2>5
    <3>3. <<held[1]>> \o <<>> = <<held[1]>>
      BY <3>2, ConcatEmptySeq
    <3> QED BY <2>4, <3>1, <3>3
  <2> QED BY <2>1, <2>6
<1> HIDE DEF p
<1>7. /\ pulled' = pulled /\ bframes' = bframes /\ firstOut' = FALSE
      /\ encoderDelay' = DelayAfter(p) /\ LastPulled' = LastPulled
  BY <1>2 DEF Receive, p, LastPulled
<1>8. pulled # <<>>
  <2>1. Flight # {}
    BY <1>4
  <2> QED BY <1>1, <2>1 DEF Past, Flight, Range
<1>9. encoderDelay' \in Nat /\ (~firstOut => encoderDelay' = encoderDelay)
  BY <1>1, <1>4, <1>5, <1>7, DelayIsTime
<1>10. encoderDelay' <= 2 * LastPulled + 3 * EncTick
  BY <1>4, <1>7, <1>8, DelayBound DEF GivenInv
<1>11. bframes = 0 => encoderDelay' = 0
  <2> SUFFICES ASSUME bframes = 0 PROVE encoderDelay' = 0
    OBVIOUS
  <2>1. \E f \in Fed : FirstLavDts = f.pts
    <3> DEFINE fed == coding \o held
    <3>1. fed \in Seq(Fed) /\ Len(fed) = Len(coding) + Len(held)
      BY <1>1, ConcatProperties DEF EncoderTypes
    <3>2. FirstLavDts = fed[1].pts
      BY DEF FirstLavDts
    <3> HIDE DEF fed
    <3>3. 1 \in 1..Len(fed)
      BY <1>5, <3>1
    <3> QED BY <3>1, <3>2, <3>3, ElementOfSeq
  <2>2. ~(FirstLavDts < 0)
    BY <2>1 DEF Fed
  <2> QED BY <1>7, <2>2 DEF DelayAfter, GivenInv
<1>12. /\ call' = "gave" /\ out'.src = p.src /\ out'.dts = lastDts'
       /\ out'.pts = p.src + encoderDelay' /\ out'.dts <= out'.pts
  <2>1. CASE GiveInOrder(p)
    <3>1. /\ bframes = 0 /\ call' = "gave" /\ lastDts' = Head(queueOfDts)
          /\ out' = [src |-> p.src, dts |-> Head(queueOfDts), pts |-> Head(queueOfDts)]
      BY <2>1 DEF GiveInOrder
    <3>2. Len(coding) = 0 /\ 1 \in 1..Len(held) /\ p = held[1]
      BY <1>5, <1>6, <3>1
    <3>3. queueOfDts[1] = p.src
      <4>1. queueOfDts[Len(coding) + 1] = held[1].src
        BY <1>1, <3>2 DEF Queue
      <4> QED BY <3>2, <4>1
    <3>4. Head(queueOfDts) = p.src /\ p.src \in Nat
      <4>1. queueOfDts \in Seq(Nat) /\ queueOfDts # <<>>
        BY <1>1, <1>5, EmptySeq DEF EncoderTypes, Queue
      <4> QED BY <1>4, <3>3, <4>1, HeadTailProperties DEF Fed
    <3> QED BY <1>11, <3>1, <3>4
  <2>2. CASE GiveMatched(p)
    <3>1. bframes > 0
      BY <2>2 DEF GiveMatched
    <3>2. PICK i \in 1..Len(mapper) : mapper[i].internal = p.pts /\ mapper[i].real = p.src
      BY <1>1, <1>4, <3>1 DEF Found, EntryOf
    <3>3. DOMAIN mapper = 1..Len(mapper)
      BY <1>1, LenProperties DEF EncoderTypes
    <3>4. Matches(p) = {i}
      BY <1>1, <3>2, <3>3 DEF Matches, Distinct
    <3>5. First(Matches(p)) = i
      <4>1. i <= i
        BY <3>2
      <4> QED BY <3>4, <4>1 DEF First
    <3> DEFINE pts == p.src + encoderDelay'
               dts == DecodeTime(Head(queueOfDts), pts)
    <3>6. /\ out' = [src |-> p.src, dts |-> dts, pts |-> pts]
          /\ lastDts' = dts
          /\ call' = "gave"
      BY <1>7, <2>2, <3>2, <3>4, <3>5 DEF GiveMatched
    <3>7. pts \in Nat
      BY <1>4, <1>9 DEF Fed
    <3>8. dts <= pts
      <4>1. lastDts \in Nat /\ Head(queueOfDts) \in Nat
        <5>1. queueOfDts \in Seq(Nat) /\ queueOfDts # <<>>
          BY <1>1, <1>5, EmptySeq DEF EncoderTypes, Queue
        <5> QED BY <1>1, <5>1, HeadTailProperties DEF EncoderTypes
      <4> HIDE DEF pts
      <4> QED BY <3>7, <4>1, DecodeTimeBetween
    <3> QED BY <3>6, <3>8
  <2> QED BY <1>2, <2>1, <2>2 DEF p
<1>13. p.src <= LastPulled
  BY <1>1, <1>4, <1>8 DEF Past, LastPulled
<1>14. GivenInv'
  BY <1>7, <1>8, <1>10, <1>11, <1>12, <1>13 DEF GivenInv
<1> QED BY <1>4, <1>5, <1>9, <1>12, <1>14

\* Every step of a save keeps it.
LEMMA GivenNext ==
  ASSUME EncoderInv, CutInv, GivenInv, [Next]_vars
  PROVE  GivenInv' /\ (~firstOut => encoderDelay' = encoderDelay)
<1>1. CASE Encode /\ FeedSome
  <2>1. PICK us \in NextTimes : FarFromNoTime(us) /\ Feed(us)
    BY <1>1 DEF FeedSome
  <2>2. /\ UNCHANGED <<firstOut, bframes, encoderDelay>> /\ call' # "gave"
        /\ pulled' = Append(pulled, us) /\ EncoderTypes
    BY <2>1 DEF Feed, EncoderInv
  <2>3. EncTick \in Nat \ {0} /\ encoderDelay \in Nat
    BY <2>2, EncoderAssumption DEF EncoderAssumption, EncoderTypes
  <2>4. us \in Nat /\ (pulled # <<>> => LastPulled <= us /\ LastPulled \in Nat)
    <3>1. CASE pulled = <<>>
      BY <3>1, EncoderAssumption DEF EncoderAssumption, NextTimes
    <3>2. CASE pulled # <<>>
      <4>1. LastPulled \in Nat
        BY <2>2, <3>2, EmptySeq, ElementOfSeq DEF EncoderTypes, LastPulled
      <4>2. PICK g \in Gaps : us = LastPulled + g
        BY <3>2 DEF NextTimes, Last, LastPulled
      <4>3. g \in Nat \ {0}
        BY EncoderAssumption DEF EncoderAssumption
      <4> QED BY <4>1, <4>2, <4>3
    <3> QED BY <3>1, <3>2
  <2>5. LastPulled' = us /\ pulled' # <<>>
    <3>1. pulled \in Seq(Nat) /\ us \in Nat
      BY <2>2, <2>4 DEF EncoderTypes
    <3>2. /\ Append(pulled, us) # <<>> /\ Len(Append(pulled, us)) = Len(pulled) + 1
          /\ Append(pulled, us)[Len(pulled) + 1] = us
      BY <3>1, AppendProperties
    <3> QED BY <2>2, <3>2 DEF LastPulled
  <2>6. 3 * (us + EncTick) < NoTime - 1
    BY <2>1 DEF FarFromNoTime
  <2>7. encoderDelay <= 2 * us + 3 * EncTick
    <3>1. CASE pulled = <<>>
      BY <2>3, <2>4, <3>1 DEF GivenInv
    <3>2. CASE pulled # <<>>
      BY <2>3, <2>4, <3>2 DEF GivenInv
    <3> QED BY <3>1, <3>2
  <2> QED BY <2>2, <2>5, <2>6, <2>7 DEF GivenInv
<1>2. CASE \/ Encode /\ (CallEncode \/ FeedEnd \/ NeedsMore \/ Flushed)
           \/ TakeEncoded
  <2>1. UNCHANGED <<pulled, encoderDelay, firstOut, bframes>> /\ call' # "gave"
    BY <1>2 DEF CallEncode, FeedEnd, NeedsMore, Flushed, TakeEncoded, timeVars
  <2> QED BY <2>1 DEF GivenInv, LastPulled
<1>3. CASE Encode /\ Receive
  BY <1>3, ReceiveGives
<1>4. CASE \/ EncodeEnds \/ TakeCopied \/ CopyEnds \/ UserStops \/ Mux \/ Rest
           \/ UNCHANGED vars
  <2>1. UNCHANGED encoderVars
    BY <1>4 DEF EncodeEnds, TakeCopied, CopyEnds, UserStops, Mux, Rest, vars
  <2> QED BY <2>1 DEF GivenInv, LastPulled, encoderVars, encodeVars, timeVars
<1> QED BY <1>1, <1>2, <1>3, <1>4 DEF Next, Encode, EncoderStep

-----------------------------------------------------------------------------
(* What the muxer has                                                      *)

Sound == [dts : Nat, samples : Nat]

Track == [rest : Seq(Sound), eof : BOOLEAN, present : BOOLEAN, packet : Sound, clock : Nat]

Taken == [src : Nat, dts : Nat, pts : Nat]

Frame == [stream : Nat, us : Nat, dts : Nat, pts : Nat, src : Int]

TracksTypes == \E n \in Nat : tracks \in [1..n -> Track]

MuxerTypes ==
  /\ pc \in {"get", "audio", "video", "finish", "done"}
  /\ picture \in Taken /\ more \in BOOLEAN
  /\ track \in Nat \ {0} /\ TracksTypes
  /\ lastVideoDts \in Nat /\ lastLavDts \in Nat /\ audioDelay \in Nat
  /\ written \in Nat /\ ret \in BOOLEAN /\ result \in BOOLEAN
  /\ roundup \in Nat /\ computesDts \in BOOLEAN
  /\ file \in Seq(Frame)
  /\ mode \in {"encode", "copy"} /\ times \in Seq(Nat)

\* A nonempty set of naturals with an upper bound has a smallest and a greatest
\* element.
LEMMA SmallestExists ==
  ASSUME NEW n \in Nat, NEW S \in SUBSET (0..n), S # {}
  PROVE  \E i \in S : \A j \in S : i <= j
<1>1. IsWellFoundedOn(OpToRel(<, Nat), Nat)
  BY NatLessThanWellFounded
<1>2. S \subseteq Nat
  OBVIOUS
<1>3. PICK i \in S : \A j \in S : ~(<<j, i>> \in OpToRel(<, Nat))
  BY <1>1, <1>2, WFMin
<1>4. ASSUME NEW j \in S PROVE i <= j
  <2>1. j \in Nat /\ i \in Nat
    BY <1>2
  <2>2. ~(j < i)
    BY <1>3, <2>1 DEF OpToRel
  <2> QED BY <2>1, <2>2
<1> QED BY <1>4

LEMMA GreatestExists ==
  ASSUME NEW n \in Nat, NEW S \in SUBSET (0..n), S # {}
  PROVE  \E i \in S : \A j \in S : j <= i
<1> DEFINE T == {n - i : i \in S}
<1>1. T \in SUBSET (0..n) /\ T # {}
  <2>1. \A i \in S : n - i \in 0..n
    <3>1. \A i \in S : i \in 0..n
      OBVIOUS
    <3> QED BY <3>1
  <2> QED BY <2>1
<1>2. PICK k \in T : \A m \in T : k <= m
  BY <1>1, SmallestExists
<1>3. PICK i \in S : k = n - i
  BY <1>2
<1>4. ASSUME NEW j \in S PROVE j <= i
  <2>1. n - j \in T /\ i \in 0..n /\ j \in 0..n
    OBVIOUS
  <2>2. k <= n - j
    BY <1>2, <2>1
  <2> QED BY <1>3, <2>1, <2>2
<1> QED BY <1>4

\* What is copied has times, whatever they are.
LEMMA CopiedTypes ==
  ASSUME MuxerTypes, NEW p \in CopiedPackets
  PROVE  p \in Taken /\ (p.dts = NoTime \/ p.dts < NoTime - 1)
<1>1. times \in Seq(Nat) /\ Len(times) \in Nat
  BY DEF MuxerTypes
<1>2. LastKnown \in Nat
  <2> DEFINE known == {i \in DOMAIN times : times[i] # NoTime}
  <2>1. CASE known = {}
    BY <2>1 DEF LastKnown
  <2>2. CASE known # {}
    <3>1. known \in SUBSET (0..Len(times)) /\ DOMAIN times = 1..Len(times)
      BY <1>1, LenProperties
    <3>2. \E i \in known : \A j \in known : j <= i
      BY <1>1, <2>2, <3>1, GreatestExists
    <3> DEFINE last == CHOOSE i \in known : \A j \in known : j <= i
    <3>3. last \in known
      BY <3>2
    <3>4. LastKnown = times[last]
      BY <2>2 DEF LastKnown
    <3> HIDE DEF last
    <3>5. last \in 1..Len(times)
      BY <3>1, <3>3
    <3> QED BY <1>1, <3>4, <3>5, ElementOfSeq
  <2> QED BY <2>1, <2>2
<1>3. ASSUME NEW s \in Steps \cup Leads PROVE RescaleTs(LastKnown + s) \in Nat
  <2>1. s \in Int
    BY CopyAssumption DEF CopyAssumption
  <2> QED BY <1>2, <2>1 DEF RescaleTs
<1> DEFINE Around(S) == {t \in {RescaleTs(LastKnown + s) : s \in S} : t < NoTime - 1}
<1>4. PICK d \in Around(Steps) \cup {NoTime}, q \in Around(Leads) \cup {NoTime} :
        p = [src |-> Len(times), dts |-> d, pts |-> q]
  BY DEF CopiedPackets
<1>5. d \in Nat /\ q \in Nat /\ (d = NoTime \/ d < NoTime - 1)
  BY <1>3 DEF NoTime
<1> QED BY <1>1, <1>4, <1>5 DEF Taken

\* At the start nothing has been read of the tracks.
LEMMA MuxerInitTypes ==
  ASSUME Init
  PROVE  MuxerTypes
<1>1. PICK delay \in Nat : MuxerInit(delay)
  BY CopyAssumption DEF Init, EncoderInit, CopyAssumption
<1>2. TracksTypes
  <2>1. PICK film \in Films :
          tracks = [t \in DOMAIN film |->
                      [rest |-> film[t], eof |-> FALSE, present |-> FALSE,
                       packet |-> NoAudio, clock |-> 0]]
    BY <1>1 DEF MuxerInit
  <2>2. film \in Seq(Seq(Sound))
    BY MuxerAssumption DEF MuxerAssumption, Sound
  <2>3. Len(film) \in Nat /\ DOMAIN film = 1..Len(film)
    BY <2>2, LenProperties
  <2>4. \A t \in 1..Len(film) : film[t] \in Seq(Sound)
    BY <2>2, ElementOfSeq
  <2>5. NoAudio \in Sound
    BY DEF NoAudio, Sound, NoTime
  <2>6. tracks \in [1..Len(film) -> Track]
    BY <2>1, <2>3, <2>4, <2>5 DEF Track
  <2> QED BY <2>3, <2>6 DEF TracksTypes
<1>3. [src |-> NoTime, dts |-> NoTime, pts |-> NoTime] \in Taken
  BY DEF Taken, NoTime
<1>4. \A r \in Roundups : r \in Nat
  BY MuxerAssumption DEF MuxerAssumption
<1> QED BY <1>1, <1>2, <1>3, <1>4 DEF MuxerTypes, MuxerInit, Init

\* A picture that is taken has times, before and after the repair.
LEMMA GetPictureTypes ==
  ASSUME MuxerTypes, NEW p \in Taken, GetPicture(p),
         times' = Append(times, p.dts), mode' = mode
  PROVE  MuxerTypes'
<1>1. p.dts \in Nat /\ VideoIncrement \in Nat /\ lastVideoDts \in Nat
  BY MuxerAssumption DEF Taken, MuxerAssumption, MuxerTypes
<1>2. picture' \in Taken /\ lastVideoDts' \in Nat
  BY <1>1 DEF GetPicture, Taken
<1>3. pc' \in {"audio", "video"} /\ track' = 1
  BY DEF GetPicture, AfterPicture
<1>4. times' \in Seq(Nat)
  BY <1>1, AppendProperties DEF MuxerTypes
<1>5. UNCHANGED <<more, tracks, lastLavDts, audioDelay, written, ret, result,
                  roundup, computesDts, file>>
  BY DEF GetPicture, outcomeVars, formatVars, fileVars
<1> QED BY <1>2, <1>3, <1>4, <1>5 DEF MuxerTypes, TracksTypes

\* A packet in hand is a packet of sound.
LEMMA InHandTypes ==
  ASSUME MuxerTypes, NEW t \in DOMAIN tracks, HasPacket(t)
  PROVE  /\ InHand(t) \in Sound
         /\ tracks[t].rest \in Seq(Sound)
         /\ ~tracks[t].present => Tail(tracks[t].rest) \in Seq(Sound)
         /\ TimeOf(InHand(t), t) \in Nat
<1>1. PICK n \in Nat : tracks \in [1..n -> Track]
  BY DEF MuxerTypes, TracksTypes
<1>2. tracks[t] \in Track
  BY <1>1
<1>3. /\ tracks[t].rest \in Seq(Sound) /\ tracks[t].packet \in Sound
      /\ tracks[t].clock \in Nat /\ tracks[t].present \in BOOLEAN
      /\ audioDelay \in Nat
  BY <1>2 DEF Track, MuxerTypes
<1>4. CASE tracks[t].present
  <2>1. InHand(t) = tracks[t].packet
    BY <1>4 DEF InHand
  <2>2. InHand(t).dts \in Nat
    BY <1>3, <2>1 DEF Sound
  <2> QED BY <1>3, <1>4, <2>1, <2>2 DEF TimeOf
<1>5. CASE ~tracks[t].present
  <2>1. tracks[t].rest # <<>>
    BY <1>5 DEF HasPacket
  <2>2. Head(tracks[t].rest) \in Sound /\ Tail(tracks[t].rest) \in Seq(Sound)
    BY <1>3, <2>1, HeadTailProperties
  <2>3. InHand(t) = Delayed(Head(tracks[t].rest))
    BY <1>5 DEF InHand
  <2> DEFINE h == Head(tracks[t].rest)
  <2>4. h \in Sound
    BY <2>2
  <2> HIDE DEF h
  <2>5. Delayed(h) \in Sound
    <3>1. audioDelay \in Nat /\ h.dts \in Nat
      BY <1>3, <2>4 DEF Sound
    <3>2. CASE h.dts = NoTime
      BY <2>4, <3>2 DEF Delayed
    <3>3. CASE h.dts # NoTime
      <4>1. Delayed(h) = [h EXCEPT !.dts = @ + audioDelay]
        BY <3>3 DEF Delayed
      <4>2. h.dts + audioDelay \in Nat
        BY <3>1
      <4> QED BY <2>4, <4>1, <4>2 DEF Sound
    <3> QED BY <3>2, <3>3
  <2>6. InHand(t) \in Sound
    BY <2>3, <2>5 DEF h
  <2>7. InHand(t).dts \in Nat
    BY <2>6 DEF Sound
  <2> QED BY <1>3, <2>2, <2>6, <2>7 DEF TimeOf
<1> QED BY <1>3, <1>4, <1>5

\* A track whose turn is over is at its end, or has a packet for later.
LEMMA NextTrackLeaves ==
  ASSUME MuxerTypes, NextTrack
  PROVE  /\ TracksTypes' /\ DOMAIN tracks' = DOMAIN tracks
         /\ \A t \in DOMAIN tracks : t # track => tracks'[t] = tracks[t]
         /\ \A t \in DOMAIN tracks : t = track /\ HasPacket(t)' =>
              /\ tracks'[t].present /\ tracks'[t].packet = InHand(t)
              /\ InFuture(t)
<1>1. PICK n \in Nat : tracks \in [1..n -> Track]
  BY DEF MuxerTypes, TracksTypes
<1>2. track \in 1..n /\ track \in DOMAIN tracks
  BY <1>1 DEF NextTrack
<1>3. tracks[track] \in Track
  BY <1>1, <1>2
<1>4. CASE ~HasPacket(track) /\ tracks' = [tracks EXCEPT ![track].eof = TRUE]
  <2>1. tracks' \in [1..n -> Track]
    BY <1>1, <1>2, <1>3, <1>4 DEF Track
  <2>2. \A t \in DOMAIN tracks : t # track => tracks'[t] = tracks[t]
    BY <1>1, <1>4
  <2>3. tracks'[track].present = tracks[track].present /\ tracks'[track].rest = tracks[track].rest
    BY <1>1, <1>2, <1>3, <1>4 DEF Track
  <2>4. \A t \in DOMAIN tracks : t = track => ~HasPacket(t)'
    BY <1>4, <2>3 DEF HasPacket
  <2> QED BY <1>1, <2>1, <2>2, <2>4 DEF TracksTypes
<1>5. CASE /\ HasPacket(track) /\ InFuture(track)
           /\ tracks' = [tracks EXCEPT ![track].present = TRUE,
                                       ![track].packet = InHand(track),
                                       ![track].rest =
                                          IF tracks[track].present THEN @ ELSE Tail(@)]
  <2> DEFINE hand == InHand(track)
             rest == IF tracks[track].present THEN tracks[track].rest ELSE Tail(tracks[track].rest)
  <2>1. hand \in Sound /\ rest \in Seq(Sound)
    BY <1>2, <1>5, InHandTypes
  <2>2. tracks' = [tracks EXCEPT ![track].present = TRUE, ![track].packet = hand,
                                 ![track].rest = rest]
    BY <1>1, <1>2, <1>3, <1>5 DEF Track
  <2> HIDE DEF hand, rest
  <2>3. tracks' \in [1..n -> Track]
    BY <1>1, <1>2, <1>3, <2>1, <2>2 DEF Track
  <2>4. \A t \in DOMAIN tracks : t # track => tracks'[t] = tracks[t]
    BY <1>1, <2>2
  <2>5. tracks'[track].present /\ tracks'[track].packet = hand
    BY <1>1, <1>2, <1>3, <2>2 DEF Track
  <2> QED BY <1>1, <1>5, <2>3, <2>4, <2>5 DEF TracksTypes, hand
<1> QED BY <1>4, <1>5 DEF NextTrack

\* What the container takes is added at the end.
LEMMA WriteFrameTypes ==
  ASSUME file \in Seq(Frame), NEW w \in Frame, NEW ok, WriteFrame(w, ok)
  PROVE  file' \in Seq(Frame) /\ (file' = file \/ file' = Append(file, w))
<1>1. file' = file \/ file' = Append(file, w)
  BY DEF WriteFrame
<1> QED BY <1>1, AppendProperties

\* A packet of sound is a frame of its track.
LEMMA AudioFrameTypes ==
  ASSUME MuxerTypes, NEW t \in DOMAIN tracks, HasPacket(t)
  PROVE  AudioFrame(InHand(t), t) \in Frame
<1>1. t \in Nat
  BY DEF MuxerTypes, TracksTypes
<1>2. InHand(t) \in Sound /\ TimeOf(InHand(t), t) \in Nat
  BY InHandTypes
<1>3. InHand(t).dts \in Nat /\ audioDelay \in Nat
  BY <1>2 DEF Sound, MuxerTypes
<1> DEFINE src == IF InHand(t).dts = NoTime THEN NoTime ELSE InHand(t).dts - audioDelay
<1>4. src \in Int
  BY <1>3 DEF NoTime
<1>5. AudioFrame(InHand(t), t)
        = [stream |-> t, us |-> TimeOf(InHand(t), t), dts |-> TimeOf(InHand(t), t),
           pts |-> TimeOf(InHand(t), t), src |-> src]
  BY DEF AudioFrame
<1> HIDE DEF src
<1> QED BY <1>1, <1>2, <1>4, <1>5 DEF Frame

\* A packet that is used up leaves the other tracks as they are.
LEMMA WriteAudioLeaves ==
  ASSUME MuxerTypes, NEW ok \in BOOLEAN, WriteAudio(ok)
  PROVE  /\ TracksTypes' /\ DOMAIN tracks' = DOMAIN tracks
         /\ \A t \in DOMAIN tracks : t # track => tracks'[t] = tracks[t]
         /\ file' \in Seq(Frame)
         /\ file' = file \/ file' = Append(file, AudioFrame(InHand(track), track))
<1>1. PICK n \in Nat : tracks \in [1..n -> Track]
  BY DEF MuxerTypes, TracksTypes
<1>2. track \in 1..n /\ track \in DOMAIN tracks /\ HasPacket(track)
  BY <1>1 DEF WriteAudio
<1>3. tracks[track] \in Track
  BY <1>1, <1>2
<1> DEFINE hand == InHand(track)
           time == TimeOf(hand, track)
           rest == IF tracks[track].present THEN tracks[track].rest ELSE Tail(tracks[track].rest)
<1>4. hand \in Sound /\ rest \in Seq(Sound) /\ time \in Nat
  BY <1>2, InHandTypes
<1>5. tracks' = Consumed(hand, track)
  BY DEF WriteAudio
<1>6. tracks' = [tracks EXCEPT ![track].present = FALSE, ![track].packet = NoAudio,
                               ![track].rest = rest, ![track].clock = time + hand.samples]
  BY <1>1, <1>2, <1>3, <1>5 DEF Consumed, Track
<1>7. WriteFrame(AudioFrame(hand, track), ok)
  BY DEF WriteAudio
<1>8. AudioFrame(hand, track) \in Frame
  BY <1>2, AudioFrameTypes
<1>9. file \in Seq(Frame)
  BY DEF MuxerTypes
<1>10. file' \in Seq(Frame) /\ (file' = file \/ file' = Append(file, AudioFrame(hand, track)))
  BY <1>7, <1>8, <1>9, WriteFrameTypes
<1>11. NoAudio \in Sound /\ time + hand.samples \in Nat
  <2>1. hand.samples \in Nat
    BY <1>4 DEF Sound
  <2> HIDE DEF hand, time
  <2> QED BY <1>4, <2>1 DEF NoAudio, Sound, NoTime
<1> HIDE DEF rest, time, hand
<1>12. tracks' \in [1..n -> Track]
  BY <1>1, <1>2, <1>3, <1>4, <1>6, <1>11 DEF Track
<1>13. \A t \in DOMAIN tracks : t # track => tracks'[t] = tracks[t]
  BY <1>1, <1>6
<1> QED BY <1>1, <1>10, <1>12, <1>13 DEF TracksTypes, hand

\* A picture is a frame of the film.
LEMMA VideoFrameTypes ==
  ASSUME MuxerTypes
  PROVE  /\ ShownAt \in Nat /\ LavDts \in Nat
         /\ [stream |-> Video, us |-> ShownAt, dts |-> LavDts, pts |-> LavPts,
             src |-> picture.src] \in Frame
<1>1. /\ picture.src \in Nat /\ picture.dts \in Nat /\ picture.pts \in Nat
      /\ lastVideoDts \in Nat /\ roundup \in Nat /\ NoTime \in Nat
  BY DEF MuxerTypes, Taken, NoTime
<1>2. ASSUME NEW us \in Nat PROVE RescaleVideoTime(us) \in Nat
  <2> DEFINE t == RescaleLavPts(us)
  <2>1. t \in Nat
    <3>1. MuxTick \in Nat \ {0}
      BY MuxerAssumption DEF MuxerAssumption
    <3>2. Ticks(us, MuxTick) \in Nat
      BY <3>1, TicksBound
    <3> QED BY <1>1, <3>2 DEF RescaleLavPts
  <2>2. RescaleVideoTime(us) = IF roundup = 0 \/ t = NoTime THEN t
                               ELSE ((t + roundup \div 2) \div roundup) * roundup
    BY DEF RescaleVideoTime
  <2> HIDE DEF t
  <2>3. CASE roundup = 0
    BY <2>1, <2>2, <2>3
  <2>4. CASE roundup # 0
    <3> DEFINE h == roundup \div 2
               m == (t + h) \div roundup
    <3>1. h \in Nat
      BY <1>1
    <3> HIDE DEF h
    <3>2. m \in Nat
      BY <1>1, <2>1, <2>4, <3>1
    <3> HIDE DEF m
    <3>3. m * roundup \in Nat
      BY <1>1, <3>2
    <3> QED BY <2>1, <2>2, <3>3 DEF m, h
  <2> QED BY <2>3, <2>4
<1>3. ShownAt \in Nat
  BY <1>1 DEF ShownAt
<1>4. LavDts \in Nat
  <2>1. RescaleVideoTimeDts(picture.dts) \in Nat
    BY <1>1, <1>2 DEF RescaleVideoTimeDts
  <2> QED BY <2>1 DEF LavDts
<1>5. LavPts \in Nat
  <2>1. RescaleVideoTime(ShownAt) \in Nat
    BY <1>2, <1>3
  <2> QED BY <1>4, <2>1 DEF LavPts
<1> QED BY <1>1, <1>3, <1>4, <1>5 DEF Frame, Video

\* The container's answer to a picture.
LEMMA WriteVideoLeaves ==
  ASSUME MuxerTypes, NEW delay \in Nat, NEW ok \in BOOLEAN, WriteVideo(delay, ok)
  PROVE  /\ pc' \in {"get", "finish"} /\ ret' = ok
         /\ lastLavDts' \in Nat /\ written' \in Nat /\ audioDelay' \in Nat
         /\ file' \in Seq(Frame)
         /\ ok => file' = Append(file, [stream |-> Video, us |-> ShownAt, dts |-> LavDts,
                                        pts |-> LavPts, src |-> picture.src])
         /\ ~ok => file' = file
<1> DEFINE w == [stream |-> Video, us |-> ShownAt, dts |-> LavDts, pts |-> LavPts,
                 src |-> picture.src]
<1>1. w \in Frame /\ LavDts \in Nat
  BY VideoFrameTypes
<1>2. WriteFrame(w, ok) /\ lastLavDts' = LavDts
  BY DEF WriteVideo
<1> HIDE DEF w
<1>3. file' \in Seq(Frame)
  BY <1>1, <1>2, WriteFrameTypes DEF MuxerTypes
<1>4. (ok => file' = Append(file, w)) /\ (~ok => file' = file)
  BY <1>2 DEF WriteFrame
<1>5. pc' \in {"get", "finish"} /\ ret' = ok /\ written' \in Nat /\ audioDelay' \in Nat
  BY DEF WriteVideo, MuxerTypes
<1> QED BY <1>1, <1>2, <1>3, <1>4, <1>5 DEF w

\* Every step of a save keeps the types.
LEMMA MuxerTypesNext ==
  ASSUME EncoderInv, MuxerTypes, [Next]_vars
  PROVE  MuxerTypes'
<1>1. CASE Encode \/ Rest \/ UNCHANGED vars
  <2>1. UNCHANGED <<muxerVars, saverVars>>
    BY <1>1 DEF Encode, Rest, vars
  <2> QED BY <2>1 DEF MuxerTypes, TracksTypes, muxerVars, saverVars, pictureVars,
                      soundVars, outcomeVars, fileVars, formatVars
<1>2. CASE TakeEncoded
  <2>1. out \in Taken
    BY DEF EncoderInv, EncoderTypes, Taken
  <2> QED BY <1>2, <2>1, GetPictureTypes DEF TakeEncoded
<1>3. CASE TakeCopied
  <2>1. PICK p \in CopiedPackets : GetPicture(p) /\ times' = Append(times, p.dts)
    BY <1>3 DEF TakeCopied
  <2>2. p \in Taken
    BY CopiedTypes
  <2> QED BY <1>3, <2>1, <2>2, GetPictureTypes DEF TakeCopied
<1>4. CASE EncodeEnds \/ CopyEnds
  <2>1. /\ pc' \in {"audio", "finish"} /\ more' = FALSE /\ track' = 1
        /\ UNCHANGED <<picture, lastVideoDts, tracks, lastLavDts, audioDelay, written,
                       ret, result, roundup, computesDts, file, mode, times>>
    BY <1>4 DEF EncodeEnds, CopyEnds, GetEnd, saverVars, outcomeVars, fileVars, formatVars
  <2>2. TracksTypes'
    BY <2>1 DEF MuxerTypes, TracksTypes
  <2>3. 1 \in Nat \ {0} /\ FALSE \in BOOLEAN
    OBVIOUS
  <2> QED BY <2>1, <2>2, <2>3 DEF MuxerTypes
<1>5. CASE UserStops
  BY <1>5 DEF UserStops, Abort, MuxerTypes, TracksTypes, saverVars, pictureVars,
              soundVars, fileVars, formatVars
<1>6. CASE Mux
  <2>1. UNCHANGED saverVars /\ MuxerStep(StreamDelay) /\ StreamDelay \in Nat
    BY <1>6 DEF Mux, StreamDelay, EncoderInv, EncoderTypes, MuxerTypes
  <2>2. CASE NextTrack
    <3>1. TracksTypes'
      BY <2>2, NextTrackLeaves
    <3> QED BY <2>1, <2>2, <3>1
            DEF NextTrack, MuxerTypes, saverVars, pictureVars, outcomeVars, fileVars,
                formatVars
  <2>3. CASE EndOfRound
    BY <2>1, <2>3 DEF EndOfRound, MuxerTypes, TracksTypes, saverVars, pictureVars,
                      soundVars, outcomeVars, fileVars, formatVars
  <2>4. CASE Finish
    BY <2>1, <2>4 DEF Finish, MuxerTypes, TracksTypes, saverVars, pictureVars,
                      soundVars, fileVars, formatVars
  <2>5. ASSUME NEW ok \in BOOLEAN, WriteAudio(ok) PROVE MuxerTypes'
    <3>1. TracksTypes' /\ file' \in Seq(Frame)
      BY <2>5, WriteAudioLeaves
    <3>2. /\ ret' \in BOOLEAN /\ track' \in Nat \ {0}
          /\ UNCHANGED <<pc, pictureVars, lastLavDts, audioDelay, written, result,
                         formatVars>>
      <4>1. track \in Nat \ {0} /\ track + 1 \in Nat \ {0} /\ ret \in BOOLEAN
        BY DEF MuxerTypes
      <4>2. \/ ret' = ret /\ track' = track
            \/ ret' = FALSE /\ track' = track + 1
        BY <2>5 DEF WriteAudio
      <4>3. UNCHANGED <<pc, pictureVars, lastLavDts, audioDelay, written, result,
                        formatVars>>
        BY <2>5 DEF WriteAudio
      <4> QED BY <4>1, <4>2, <4>3
    <3> QED BY <2>1, <3>1, <3>2 DEF MuxerTypes, saverVars, pictureVars, formatVars
  <2>6. ASSUME NEW ok \in BOOLEAN, WriteVideo(StreamDelay, ok) PROVE MuxerTypes'
    <3>1. /\ pc' \in {"get", "finish"} /\ ret' = ok
          /\ lastLavDts' \in Nat /\ written' \in Nat /\ audioDelay' \in Nat
          /\ file' \in Seq(Frame)
      BY <2>1, <2>6, WriteVideoLeaves
    <3>2. UNCHANGED <<pictureVars, soundVars, result, formatVars>>
      BY <2>6 DEF WriteVideo
    <3> QED BY <2>1, <3>1, <3>2
            DEF MuxerTypes, TracksTypes, saverVars, pictureVars, soundVars, formatVars
  <2> QED BY <2>1, <2>2, <2>3, <2>4, <2>5, <2>6 DEF MuxerStep
<1> QED BY <1>1, <1>2, <1>3, <1>4, <1>5, <1>6 DEF Next

-----------------------------------------------------------------------------
(* The sound keeps up                                                      *)

(* A track whose turn is over in this round. *)
Waits(t) ==
  HasPacket(t) =>
    /\ tracks[t].present /\ tracks[t].packet.dts # NoTime
    /\ tracks[t].packet.dts > MaxAudioDts

(* Once a picture has been written every round asks all tracks. *)
RoundInv ==
  /\ ~more => pc \in {"audio", "finish", "done"}
  /\ pc = "audio" => written > 0
  /\ written > 0 =>
       \A t \in DOMAIN tracks \ failed :
         \/ pc = "audio" /\ t < track
         \/ pc = "video"
         \/ pc \in {"finish", "done"} /\ ~more
         => Waits(t)

\* A step of the round leaves the tracks that had their turn waiting.
LEMMA RoundNext ==
  ASSUME EncoderInv, MuxerTypes, RoundInv, [Next]_vars
  PROVE  RoundInv'
<1>1. CASE Encode \/ Rest \/ UNCHANGED vars
  <2>1. UNCHANGED muxerVars
    BY <1>1 DEF Encode, Rest, vars
  <2> QED BY <2>1 DEF RoundInv, Waits, HasPacket, MaxAudioDts, muxerVars, pictureVars,
                      soundVars, outcomeVars
<1>2. ASSUME NEW p, GetPicture(p)
      PROVE  RoundInv'
  <2>1. more /\ more' = more /\ track' = 1 /\ written' = written /\ failed' = failed
        /\ DOMAIN tracks' = DOMAIN tracks
        /\ pc' = IF written > 0 THEN "audio" ELSE "video"
    BY <1>2 DEF GetPicture, AfterPicture, RoundInv, outcomeVars, MuxerTypes
  <2>2. \A t \in DOMAIN tracks : ~(t < 1)
    BY DEF MuxerTypes, TracksTypes
  <2> QED BY <2>1, <2>2 DEF RoundInv
<1>3. CASE EncodeEnds \/ CopyEnds
  <2>1. /\ more' = FALSE /\ track' = 1 /\ written' = written /\ failed' = failed
        /\ DOMAIN tracks' = DOMAIN tracks
        /\ pc' = IF written > 0 THEN "audio" ELSE "finish"
    BY <1>3 DEF EncodeEnds, CopyEnds, GetEnd, outcomeVars
  <2>2. \A t \in DOMAIN tracks : ~(t < 1)
    BY DEF MuxerTypes, TracksTypes
  <2> QED BY <2>1, <2>2 DEF RoundInv
<1>4. CASE UserStops
  BY <1>4 DEF UserStops, Abort, RoundInv, pictureVars, MuxerTypes
<1>5. CASE Mux
  <2>1. MuxerStep(StreamDelay) /\ StreamDelay \in Nat
    BY <1>5 DEF Mux, StreamDelay, EncoderInv, EncoderTypes, MuxerTypes
  <2>2. CASE NextTrack
    <3>1. /\ DOMAIN tracks' = DOMAIN tracks
          /\ \A t \in DOMAIN tracks : t # track => tracks'[t] = tracks[t]
          /\ \A t \in DOMAIN tracks : t = track /\ HasPacket(t)' =>
               /\ tracks'[t].present /\ tracks'[t].packet = InHand(t)
               /\ InFuture(t)
      BY <2>2, NextTrackLeaves
    <3>2. /\ pc = "audio" /\ pc' = pc /\ track' = track + 1
          /\ UNCHANGED <<more, written, failed, lastVideoDts, audioDelay>>
      BY <2>2 DEF NextTrack, pictureVars, outcomeVars
    <3>3. MaxAudioDts' = MaxAudioDts
      BY <3>2 DEF MaxAudioDts
    <3>4. ASSUME written > 0, NEW t \in DOMAIN tracks \ failed, t < track + 1
          PROVE  Waits(t)'
      <4>1. t \in Nat /\ track \in Nat
        BY DEF MuxerTypes, TracksTypes
      <4>2. CASE t = track
        BY <3>1, <3>3, <4>2 DEF Waits, InFuture
      <4>3. CASE t # track
        <5>1. t < track
          BY <3>4, <4>1, <4>3
        <5>2. Waits(t)
          BY <3>2, <3>4, <5>1 DEF RoundInv
        <5>3. tracks'[t] = tracks[t]
          BY <3>1, <4>3
        <5> QED BY <3>3, <5>2, <5>3 DEF Waits, HasPacket
      <4> QED BY <4>2, <4>3
    <3> QED BY <3>1, <3>2, <3>4 DEF RoundInv
  <2>3. CASE EndOfRound
    <3>1. /\ pc = "audio" /\ track \notin DOMAIN tracks
          /\ pc' = IF more THEN "video" ELSE "finish"
          /\ UNCHANGED <<more, lastVideoDts, track, tracks, audioDelay, written, failed>>
      BY <2>3 DEF EndOfRound, pictureVars, soundVars, outcomeVars
    <3>2. PICK n \in Nat : tracks \in [1..n -> Track]
      BY DEF MuxerTypes, TracksTypes
    <3>3. \A t \in DOMAIN tracks : t < track
      BY <3>1, <3>2 DEF MuxerTypes
    <3>4. \A t \in DOMAIN tracks : Waits(t)' = Waits(t)
      BY <3>1 DEF Waits, HasPacket, MaxAudioDts
    <3> QED BY <3>1, <3>3, <3>4 DEF RoundInv, MuxerTypes
  <2>4. CASE Finish
    <3>1. /\ pc = "finish" /\ pc' = "done"
          /\ UNCHANGED <<more, lastVideoDts, track, tracks, audioDelay, written, failed>>
      BY <2>4 DEF Finish, pictureVars, soundVars
    <3>2. \A t \in DOMAIN tracks : Waits(t)' = Waits(t)
      BY <3>1 DEF Waits, HasPacket, MaxAudioDts
    <3> QED BY <3>1, <3>2 DEF RoundInv
  <2>5. ASSUME NEW ok \in BOOLEAN, WriteAudio(ok) PROVE RoundInv'
    <3>1. /\ DOMAIN tracks' = DOMAIN tracks
          /\ \A t \in DOMAIN tracks : t # track => tracks'[t] = tracks[t]
      BY <2>5, WriteAudioLeaves
    <3>2. /\ pc = "audio" /\ pc' = pc
          /\ \/ failed' = failed /\ track' = track
             \/ failed' = failed \cup {track} /\ track' = track + 1
          /\ UNCHANGED <<more, written, lastVideoDts, audioDelay>>
      BY <2>5 DEF WriteAudio, pictureVars
    <3>3. MaxAudioDts' = MaxAudioDts
      BY <3>2 DEF MaxAudioDts
    <3>4. ASSUME written > 0, NEW t \in DOMAIN tracks \ failed', t < track'
          PROVE  Waits(t)'
      <4>1. t # track /\ Waits(t)
        <5>1. t \in Nat /\ track \in Nat
          BY DEF MuxerTypes, TracksTypes
        <5>2. t # track /\ t < track /\ t \notin failed
          BY <3>2, <3>4, <5>1
        <5> QED BY <3>2, <3>4, <5>2 DEF RoundInv
      <4>2. tracks'[t] = tracks[t]
        BY <3>1, <4>1
      <4> QED BY <3>3, <4>1, <4>2 DEF Waits, HasPacket
    <3> QED BY <3>1, <3>2, <3>4 DEF RoundInv
  <2>6. ASSUME NEW ok \in BOOLEAN, WriteVideo(StreamDelay, ok) PROVE RoundInv'
    <3>1. pc' \in {"get", "finish"}
      BY <2>6 DEF WriteVideo
    <3>2. more /\ more' = more
      BY <2>6 DEF WriteVideo, pictureVars, RoundInv, MuxerTypes
    <3> QED BY <3>1, <3>2 DEF RoundInv
  <2> QED BY <2>1, <2>2, <2>3, <2>4, <2>5, <2>6 DEF MuxerStep
<1> QED BY <1>1, <1>2, <1>3, <1>4, <1>5 DEF Next, TakeEncoded, TakeCopied

\* Where all tracks wait, none holds back sound that is due.
LEMMA RoundKeepsUp ==
  ASSUME MuxerTypes, RoundInv
  PROVE  SoundKeepsUp
<1> SUFFICES ASSUME written > 0, NEW t \in DOMAIN tracks \ failed, HasPacket(t)
             PROVE  /\ pc = "video" => SoundSource(t) > lastVideoDts
                    /\ pc = "done" /\ ~more => SoundSource(t) > VideoDuration - audioDelay
  BY DEF SoundKeepsUp
<1>1. tracks[t] \in Track
  BY DEF MuxerTypes, TracksTypes
<1>2. tracks[t].packet.dts \in Nat
  BY <1>1 DEF Track, Sound
<1>3. lastVideoDts \in Nat /\ audioDelay \in Nat /\ VideoDuration \in Nat
  BY MuxerAssumption DEF MuxerTypes, MuxerAssumption
<1>4. CASE pc = "video"
  <2>1. Waits(t) /\ more
    BY <1>4 DEF RoundInv, MuxerTypes
  <2>2. /\ tracks[t].present
        /\ tracks[t].packet.dts > lastVideoDts + audioDelay
    BY <2>1 DEF Waits, MaxAudioDts
  <2> QED BY <1>2, <1>3, <1>4, <2>2 DEF SoundSource
<1>5. CASE pc = "done" /\ ~more
  <2>1. Waits(t)
    BY <1>5 DEF RoundInv
  <2>2. tracks[t].present /\ tracks[t].packet.dts > VideoDuration
    BY <1>5, <2>1 DEF Waits, MaxAudioDts
  <2> QED BY <1>2, <1>3, <1>5, <2>2 DEF SoundSource
<1> QED BY <1>4, <1>5

-----------------------------------------------------------------------------
(* Nothing is missing                                                      *)

Videos == {i \in DOMAIN file : file[i].stream = Video}

(* The pictures written, and the one in hand, are those that were taken. *)
CountInv ==
  /\ IsFiniteSet(Videos) /\ Cardinality(Videos) = written
  /\ pc \in {"get", "audio", "video"} =>
       Len(times) = written + (IF pc # "get" /\ more THEN 1 ELSE 0)
  /\ ((pc = "finish" /\ ret) \/ pc = "done") /\ result => ~more /\ Len(times) = written

(* The pictures taken, and those in the encoder, are those of the filters. *)
FlightInv ==
  mode = "encode" =>
    /\ ~more => call = "ended"
    /\ ~CutShort =>
         Len(pulled) = Len(times) + Len(held) + Len(coding)
                         + (IF call = "gave" THEN 1 ELSE 0)
    /\ call = "ended" /\ ~CutShort => Len(held) + Len(coding) = 0

\* One more picture, or one more packet of sound.
LEMMA VideosGrow ==
  ASSUME file \in Seq(Frame), IsFiniteSet(Videos), NEW w, file' = Append(file, w)
  PROVE  /\ IsFiniteSet(Videos')
         /\ Cardinality(Videos')
              = IF w.stream = Video THEN Cardinality(Videos) + 1 ELSE Cardinality(Videos)
<1> DEFINE n == Len(file)
<1>1. /\ n \in Nat /\ DOMAIN file = 1..n
  BY LenProperties
<1>2. DOMAIN file' = 1..n + 1 /\ (\A i \in 1..n : file'[i] = file[i]) /\ file'[n + 1] = w
  BY <1>1
<1> HIDE DEF n
<1>3. Videos' = IF w.stream = Video THEN Videos \cup {n + 1} ELSE Videos
  <2>1. ASSUME NEW i
        PROVE  i \in Videos' <=> i \in Videos \/ (i = n + 1 /\ w.stream = Video)
    <3>1. i \in 1..n + 1 <=> i \in 1..n \/ i = n + 1
      BY <1>1
    <3>2. n + 1 \notin 1..n
      BY <1>1
    <3> QED BY <1>1, <1>2, <3>1, <3>2 DEF Videos
  <2> QED BY <2>1
<1>4. n + 1 \notin Videos
  BY <1>1 DEF Videos
<1> QED BY <1>3, <1>4, FS_AddElement

\* Every step of a save keeps the count of the pictures.
LEMMA CountNext ==
  ASSUME EncoderInv, MuxerTypes, RoundInv, CountInv, [Next]_vars
  PROVE  CountInv'
<1>1. CASE Encode \/ Rest \/ UNCHANGED vars
  <2>1. UNCHANGED <<muxerVars, saverVars>>
    BY <1>1 DEF Encode, Rest, vars
  <2> QED BY <2>1 DEF CountInv, Videos, muxerVars, saverVars, pictureVars, outcomeVars,
                      fileVars
<1>2. ASSUME NEW p, GetPicture(p), times' = Append(times, p.dts) PROVE CountInv'
  <2>1. /\ pc = "get" /\ pc' \in {"audio", "video"} /\ more
        /\ UNCHANGED <<more, written, ret, result, file>>
    BY <1>2 DEF GetPicture, AfterPicture, RoundInv, outcomeVars, fileVars
  <2>2. Len(times') = Len(times) + 1
    BY <1>2 DEF MuxerTypes
  <2> QED BY <2>1, <2>2 DEF CountInv, Videos, MuxerTypes
<1>3. CASE EncodeEnds \/ CopyEnds
  <2>1. /\ pc = "get" /\ more' = FALSE
        /\ pc' = IF written > 0 THEN "audio" ELSE "finish"
        /\ UNCHANGED <<written, ret, result, file, times>>
    BY <1>3 DEF EncodeEnds, CopyEnds, GetEnd, outcomeVars, fileVars, saverVars
  <2> QED BY <2>1 DEF CountInv, Videos, MuxerTypes
<1>4. CASE UserStops
  <2>1. /\ pc = "get" /\ pc' = "finish" /\ result' = FALSE
        /\ UNCHANGED <<written, file>>
    BY <1>4 DEF UserStops, Abort, fileVars
  <2> QED BY <2>1 DEF CountInv, Videos
<1>5. CASE Mux
  <2>1. MuxerStep(StreamDelay) /\ StreamDelay \in Nat /\ times' = times
    BY <1>5 DEF Mux, StreamDelay, EncoderInv, EncoderTypes, MuxerTypes, saverVars
  <2>2. CASE NextTrack
    BY <2>1, <2>2 DEF NextTrack, CountInv, Videos, pictureVars, outcomeVars, fileVars
  <2>3. CASE EndOfRound
    <3>1. /\ pc = "audio" /\ pc' = IF more THEN "video" ELSE "finish"
          /\ UNCHANGED <<more, written, ret, result, file>>
      BY <2>3 DEF EndOfRound, pictureVars, outcomeVars, fileVars
    <3> QED BY <2>1, <3>1 DEF CountInv, Videos, MuxerTypes
  <2>4. CASE Finish
    <3>1. /\ pc = "finish" /\ pc' = "done" /\ result' = (result /\ ret)
          /\ UNCHANGED <<more, written, file>>
      BY <2>4 DEF Finish, pictureVars, fileVars
    <3> QED BY <2>1, <3>1 DEF CountInv, Videos
  <2>5. ASSUME NEW ok \in BOOLEAN, WriteAudio(ok) PROVE CountInv'
    <3>1. /\ pc = "audio" /\ pc' = pc /\ track \in DOMAIN tracks
          /\ UNCHANGED <<more, written, result>>
      BY <2>5 DEF WriteAudio, pictureVars
    <3>2. file' = file \/ file' = Append(file, AudioFrame(InHand(track), track))
      BY <2>5, WriteAudioLeaves
    <3>3. AudioFrame(InHand(track), track).stream # Video
      BY <3>1 DEF AudioFrame, Video, MuxerTypes, TracksTypes
    <3>4. IsFiniteSet(Videos') /\ Cardinality(Videos') = Cardinality(Videos)
      <4>1. CASE file' = file
        BY <4>1 DEF CountInv, Videos
      <4>2. CASE file' = Append(file, AudioFrame(InHand(track), track))
        <5> DEFINE w == AudioFrame(InHand(track), track)
        <5>1. file' = Append(file, w) /\ w.stream # Video
          BY <3>3, <4>2
        <5> HIDE DEF w
        <5> QED BY <5>1, VideosGrow DEF CountInv, MuxerTypes
      <4> QED BY <3>2, <4>1, <4>2
    <3> QED BY <2>1, <3>1, <3>4 DEF CountInv
  <2>6. ASSUME NEW ok \in BOOLEAN, WriteVideo(StreamDelay, ok) PROVE CountInv'
    <3>1. /\ pc = "video" /\ more /\ more' = more /\ result' = result /\ ret' = ok
          /\ IF ok THEN pc' = "get" /\ written' = written + 1
             ELSE pc' = "finish" /\ written' = written
      BY <2>6 DEF WriteVideo, pictureVars, RoundInv, MuxerTypes
    <3>2. CASE ok
      <4> DEFINE w == [stream |-> Video, us |-> ShownAt, dts |-> LavDts, pts |-> LavPts,
                       src |-> picture.src]
      <4>1. file' = Append(file, w) /\ w.stream = Video
        BY <2>1, <2>6, <3>2, WriteVideoLeaves
      <4> HIDE DEF w
      <4>2. IsFiniteSet(Videos') /\ Cardinality(Videos') = Cardinality(Videos) + 1
        BY <4>1, VideosGrow DEF CountInv, MuxerTypes
      <4> QED BY <2>1, <3>1, <3>2, <4>2 DEF CountInv
    <3>3. CASE ~ok
      <4>1. file' = file
        BY <2>1, <2>6, <3>3, WriteVideoLeaves
      <4> QED BY <3>1, <3>3, <4>1 DEF CountInv, Videos
    <3> QED BY <3>2, <3>3
  <2> QED BY <2>1, <2>2, <2>3, <2>4, <2>5, <2>6 DEF MuxerStep
<1> QED BY <1>1, <1>2, <1>3, <1>4, <1>5 DEF Next, TakeEncoded, TakeCopied

\* Every step of a save keeps the count of the pictures in the encoder.
LEMMA FlightNext ==
  ASSUME EncoderInv, CutInv, GivenInv, MuxerTypes, RoundInv, FlightInv, [Next]_vars
  PROVE  FlightInv'
<1> USE DEF FlightInv
<1>1. CASE Encode
  <2>1. more /\ UNCHANGED <<more, mode, times>> /\ mode = "encode"
    BY <1>1 DEF Encode, Encoding, RoundInv, muxerVars, pictureVars, saverVars
  <2>2. /\ Len(held) \in Nat /\ Len(coding) \in Nat /\ Len(pulled) \in Nat
        /\ Len(times) \in Nat /\ bframes \in Nat
    BY DEF EncoderInv, EncoderTypes, MuxerTypes
  <2>3. CASE CallEncode \/ FeedEnd \/ NeedsMore
    <3>1. /\ call \in {"idle", "feed", "receive"} /\ call' \in {"feed", "receive"}
          /\ UNCHANGED <<pulled, held, coding>>
      BY <2>3 DEF CallEncode, FeedEnd, NeedsMore, lavcVars
    <3> QED BY <2>1, <3>1 DEF CutShort
  <2>4. CASE Flushed
    <3>1. /\ call = "receive" /\ call' = "ended" /\ ~LavcHasOutput
          /\ encoderState = "flushing" /\ UNCHANGED <<pulled, held, coding>>
      BY <2>4 DEF Flushed, lavcVars
    <3>2. Len(held) + Len(coding) = 0
      BY <2>2, <3>1 DEF LavcHasOutput
    <3> QED BY <2>1, <3>1, <3>2 DEF CutShort
  <2>5. CASE FeedSome
    <3>1. PICK us \in NextTimes : Feed(us)
      BY <2>5 DEF FeedSome
    <3>2. /\ call = "feed" /\ encoderState' = encoderState /\ encoderState = "feeding"
          /\ pulled' = Append(pulled, us) /\ coding' = coding
          /\ \/ call' = "ended"
             \/ /\ call' = "receive"
                /\ held' = Append(held, [src |-> us, pts |-> InternalTime(us)])
      BY <3>1 DEF Feed
    <3>3. pulled \in Seq(Nat) /\ held \in Seq(Fed)
      BY DEF EncoderInv, EncoderTypes
    <3>4. Len(pulled') = Len(pulled) + 1
      BY <3>2, <3>3
    <3>5. CASE call' = "ended"
      BY <2>1, <3>2, <3>5 DEF CutShort
    <3>6. CASE /\ call' = "receive"
               /\ held' = Append(held, [src |-> us, pts |-> InternalTime(us)])
      <4>1. Len(held') = Len(held) + 1
        BY <3>3, <3>6
      <4> QED BY <2>1, <2>2, <3>2, <3>4, <3>6, <4>1 DEF CutShort
    <3> QED BY <3>2, <3>5, <3>6
  <2>6. CASE Receive
    <3>1. call' = "gave" /\ Len(held') + Len(coding') = Len(held) + Len(coding) - 1
      BY <2>6, ReceiveGives
    <3>2. call = "receive" /\ pulled' = pulled
      BY <2>6 DEF Receive
    <3>3. Len(held') \in Nat /\ Len(coding') \in Nat
      <4>1. EncoderInv'
        BY <2>6, ReceiveInv
      <4>2. held' \in Seq(Fed) /\ coding' \in Seq(Fed)
        BY <4>1 DEF EncoderInv, EncoderTypes
      <4> QED BY <4>2, LenProperties
    <3> QED BY <2>1, <2>2, <3>1, <3>2, <3>3 DEF CutShort
  <2> QED BY <1>1, <2>3, <2>4, <2>5, <2>6 DEF Encode, EncoderStep
<1>2. CASE TakeEncoded
  <2>1. /\ call = "gave" /\ call' = "idle" /\ more /\ UNCHANGED <<more, mode>>
        /\ UNCHANGED <<pulled, held, coding>> /\ mode = "encode"
    BY <1>2 DEF TakeEncoded, Encoding, GetPicture, RoundInv, lavcVars
  <2>2. Len(times') = Len(times) + 1 /\ Len(times) \in Nat
    BY <1>2 DEF TakeEncoded, MuxerTypes
  <2>3. Len(held) \in Nat /\ Len(coding) \in Nat
    BY DEF EncoderInv, EncoderTypes
  <2> QED BY <2>1, <2>2, <2>3 DEF CutShort
<1>3. CASE EncodeEnds
  <2>1. call = "ended" /\ UNCHANGED <<encoderVars, mode, times>>
    BY <1>3 DEF EncodeEnds, saverVars
  <2> QED BY <2>1 DEF CutShort, encoderVars, encodeVars, lavcVars
<1>4. CASE TakeCopied \/ CopyEnds
  BY <1>4 DEF TakeCopied, CopyEnds, Copying, saverVars
<1>5. CASE UserStops \/ Mux \/ Rest \/ UNCHANGED vars
  <2>1. UNCHANGED <<encoderVars, saverVars>>
    BY <1>5 DEF UserStops, Mux, Rest, vars
  <2>2. more' = more
    BY <1>5 DEF UserStops, Abort, Mux, MuxerStep, NextTrack, EndOfRound, Finish, WriteAudio,
                WriteVideo, Rest, vars, muxerVars, pictureVars
  <2> QED BY <2>1, <2>2 DEF CutShort, encoderVars, encodeVars, lavcVars, saverVars
<1> QED BY <1>1, <1>2, <1>3, <1>4, <1>5 DEF Next

\* Where the counts are kept, a good result leaves nothing out.
LEMMA CountsNothingMissing ==
  ASSUME EncoderInv, MuxerTypes, CountInv, FlightInv
  PROVE  NothingMissing
<1> SUFFICES ASSUME pc = "done", result
             PROVE  /\ Cardinality(Videos) = Len(times)
                    /\ mode = "encode" /\ ~CutShort => Len(times) = Len(pulled)
  BY DEF NothingMissing, Videos
<1>1. Cardinality(Videos) = Len(times) /\ ~more
  BY DEF CountInv
<1>2. /\ Len(held) \in Nat /\ Len(coding) \in Nat /\ Len(pulled) \in Nat
      /\ Len(times) \in Nat
  BY DEF EncoderInv, EncoderTypes, MuxerTypes
<1> QED BY <1>1, <1>2 DEF FlightInv

-----------------------------------------------------------------------------
(* Sound and picture are shifted alike                                     *)

Shifted(w) == w.stream = Video \/ w.src # NoTime => w.us - w.src = encoderDelay

(* The muxer learns the delay before it writes the first sound, and never  *)
(* has to repair what the encoder gives.                                   *)
ShiftInv ==
  mode = "encode" =>
    /\ lastVideoDts <= lastDts
    /\ firstOut => lastVideoDts = 0
    /\ written > 0 => ~firstOut /\ audioDelay = encoderDelay
    /\ pc \in {"audio", "video"} /\ more =>
         /\ ~firstOut
         /\ picture.pts = picture.src + encoderDelay
         /\ picture.pts < NoTime /\ lastVideoDts <= picture.pts
    /\ \A i \in 1..Len(file) : written > 0 /\ Shifted(file[i])

\* A frame is added that is shifted as the others are.
LEMMA ShiftedGrow ==
  ASSUME file \in Seq(Frame), encoderDelay' = encoderDelay,
         \E w : file' = Append(file, w) /\ Shifted(w),
         \A i \in 1..Len(file) : Shifted(file[i])
  PROVE  \A i \in 1..Len(file') : Shifted(file[i])'
<1> PICK w : file' = Append(file, w) /\ Shifted(w)
  OBVIOUS
<1>1. /\ Len(file) \in Nat /\ Len(file') = Len(file) + 1
      /\ \A i \in 1..Len(file) : file'[i] = file[i]
      /\ file'[Len(file) + 1] = w
  BY LenProperties
<1>2. ASSUME NEW i \in 1..Len(file') PROVE Shifted(file[i])'
  <2>1. i \in 1..Len(file) \/ i = Len(file) + 1
    BY <1>1
  <2>2. CASE i \in 1..Len(file)
    BY <1>1, <2>2 DEF Shifted
  <2>3. CASE i = Len(file) + 1
    BY <1>1, <2>3 DEF Shifted
  <2> QED BY <2>1, <2>2, <2>3
<1> QED BY <1>2

\* A picture of the encoder is taken as it is.
LEMMA TakeShifted ==
  ASSUME EncoderInv, GivenInv, MuxerTypes, RoundInv, ShiftInv, TakeEncoded
  PROVE  ShiftInv'
<1>1. /\ mode = "encode" /\ pc = "get" /\ call = "gave" /\ GetPicture(out)
      /\ UNCHANGED <<mode, encoderDelay, lastDts, firstOut>>
  BY DEF TakeEncoded, Encoding, timeVars
<1>2. /\ out.src \in Nat /\ out.dts \in Nat /\ out.pts \in Nat
      /\ encoderDelay \in Nat /\ lastDts \in Nat /\ lastVideoDts \in Nat
      /\ EncTick \in Nat \ {0}
  BY EncoderAssumption DEF EncoderInv, EncoderTypes, MuxerTypes, EncoderAssumption
<1>3. /\ ~firstOut /\ out.src <= LastPulled /\ out.pts = out.src + encoderDelay
      /\ out.dts = lastDts /\ out.dts <= out.pts /\ pulled # <<>>
      /\ 3 * (LastPulled + EncTick) < NoTime - 1
      /\ encoderDelay <= 2 * LastPulled + 3 * EncTick
  BY <1>1 DEF GivenInv
<1>4. LastPulled \in Nat
  <2>1. pulled \in Seq(Nat)
    BY DEF EncoderInv, EncoderTypes
  <2>2. Len(pulled) \in 1..Len(pulled)
    BY <1>3, <2>1, EmptySeq, LenProperties
  <2> QED BY <2>1, <2>2, ElementOfSeq DEF LastPulled
<1>5. out.pts < NoTime /\ out.dts < NoTime
  BY <1>2, <1>3, <1>4 DEF NoTime
<1>6. picture' = out /\ lastVideoDts' = out.dts
  BY <1>1, <1>2, <1>3, <1>5 DEF GetPicture, ShiftInv
<1>7. /\ UNCHANGED <<file, written, audioDelay>>
  BY <1>1 DEF GetPicture, fileVars
<1>8. \A i \in 1..Len(file) : Shifted(file[i]) => Shifted(file[i])'
  BY <1>1, <1>7 DEF Shifted
<1> QED BY <1>1, <1>2, <1>3, <1>5, <1>6, <1>7, <1>8 DEF ShiftInv

\* The encoder works while the muxer waits: it settles the delay once.
LEMMA EncodeShifted ==
  ASSUME EncoderInv, CutInv, GivenInv, MuxerTypes, ShiftInv, Encode
  PROVE  ShiftInv'
<1>1. /\ mode = "encode" /\ pc = "get" /\ UNCHANGED <<muxerVars, saverVars>>
      /\ [Next]_vars
  BY DEF Encode, Encoding, Next
<1>2. UNCHANGED <<pc, more, picture, lastVideoDts, written, audioDelay, file, mode>>
  BY <1>1 DEF muxerVars, saverVars, pictureVars, fileVars
<1>3. ~firstOut => encoderDelay' = encoderDelay
  BY <1>1, GivenNext
<1>4. /\ lastVideoDts \in Nat /\ lastDts \in Nat
      /\ EncTick \in Nat \ {0}
  BY EncoderAssumption DEF EncoderInv, EncoderTypes, MuxerTypes, EncoderAssumption
<1>5. (firstOut' => firstOut) /\ lastVideoDts <= lastDts'
  <2>1. CASE Receive
    <3>1. firstOut' = FALSE /\ call = "receive"
      BY <2>1 DEF Receive
    <3>2. lastDts' \in Nat /\ (lastDts # NoTime => lastDts <= lastDts')
      BY <2>1, ReceiveInv DEF EncoderInv, EncoderTypes
    <3>3. ASSUME ~firstOut PROVE lastDts # NoTime
      <4>1. /\ pulled # <<>> /\ lastDts <= LastPulled
            /\ 3 * (LastPulled + EncTick) < NoTime - 1
        BY <3>1, <3>3 DEF EncoderInv, Behind, GivenInv, LastPulled
      <4>2. LastPulled \in Nat
        BY <4>1, EmptySeq, ElementOfSeq DEF EncoderInv, EncoderTypes, LastPulled
      <4> QED BY <1>4, <4>1, <4>2 DEF NoTime
    <3> QED BY <1>1, <1>4, <3>1, <3>2, <3>3 DEF ShiftInv
  <2>2. CASE CallEncode \/ FeedSome \/ FeedEnd \/ NeedsMore \/ Flushed
    <3>1. UNCHANGED <<firstOut, lastDts>>
      BY <2>2 DEF CallEncode, FeedSome, Feed, FeedEnd, NeedsMore, Flushed, timeVars
    <3> QED BY <1>1, <3>1 DEF ShiftInv
  <2> QED BY <2>1, <2>2 DEF Encode, EncoderStep
<1>6. (written > 0 => ~firstOut /\ encoderDelay' = encoderDelay)
  BY <1>1, <1>3 DEF ShiftInv
<1>7. \A i \in 1..Len(file) : written > 0 /\ Shifted(file[i]) => Shifted(file[i])'
  BY <1>2, <1>6 DEF Shifted
<1> QED BY <1>1, <1>2, <1>5, <1>6, <1>7 DEF ShiftInv

\* What the muxer writes is shifted by the delay it has learnt.
LEMMA MuxShifted ==
  ASSUME EncoderInv, MuxerTypes, RoundInv, ShiftInv, Mux, mode = "encode"
  PROVE  ShiftInv'
<1>1. /\ MuxerStep(StreamDelay) /\ StreamDelay = encoderDelay
      /\ encoderDelay \in Nat /\ audioDelay \in Nat
      /\ UNCHANGED <<mode, lastDts, firstOut, encoderDelay>>
  BY DEF Mux, StreamDelay, EncoderInv, EncoderTypes, MuxerTypes, saverVars, encoderVars,
         timeVars
<1>2. \A w : Shifted(w)' = Shifted(w)
  BY <1>1 DEF Shifted
<1>3. CASE NextTrack \/ EndOfRound \/ Finish
  <2>1. /\ UNCHANGED <<more, picture, lastVideoDts, written, audioDelay, file>>
        /\ pc' \in {"audio", "video"} => pc = "audio"
    BY <1>3 DEF NextTrack, EndOfRound, Finish, pictureVars, fileVars
  <2>2. \A i \in 1..Len(file) : Shifted(file[i])' = Shifted(file[i])
    BY <1>1, <2>1 DEF Shifted
  <2> QED BY <1>1, <2>1, <2>2 DEF ShiftInv
<1>4. ASSUME NEW ok \in BOOLEAN, WriteAudio(ok) PROVE ShiftInv'
  <2>1. /\ pc = "audio" /\ track \in DOMAIN tracks /\ HasPacket(track)
        /\ UNCHANGED <<pc, more, picture, lastVideoDts, written, audioDelay>>
    BY <1>4 DEF WriteAudio, pictureVars
  <2> DEFINE p == InHand(track)
             w == AudioFrame(p, track)
  <2>2. file' = file \/ file' = Append(file, w)
    BY <1>4, WriteAudioLeaves
  <2>3. written > 0 /\ audioDelay = encoderDelay
    BY <2>1 DEF RoundInv, ShiftInv
  <2>4. Shifted(w)
    <3>1. p.dts \in Nat /\ track # Video
      <4>1. p \in Sound
        BY <2>1, InHandTypes
      <4>2. track # Video
        BY DEF MuxerTypes, Video
      <4> QED BY <4>1, <4>2 DEF Sound
    <3>2. /\ w.stream = track
          /\ w.us = TimeOf(p, track)
          /\ w.src = IF p.dts = NoTime THEN NoTime ELSE p.dts - audioDelay
      BY DEF AudioFrame
    <3> HIDE DEF p, w
    <3> QED BY <1>1, <2>3, <3>1, <3>2 DEF Shifted, TimeOf
  <2>5. \A i \in 1..Len(file') : Shifted(file[i])'
    <3> HIDE DEF w
    <3>1. CASE file' = file
      BY <1>1, <3>1 DEF ShiftInv, Shifted
    <3>2. CASE file' = Append(file, w)
      <4>1. file \in Seq(Frame) /\ \A i \in 1..Len(file) : Shifted(file[i])
        BY DEF MuxerTypes, ShiftInv
      <4> QED BY <1>1, <2>4, <3>2, <4>1, ShiftedGrow
    <3> QED BY <2>2, <3>1, <3>2
  <2> QED BY <1>1, <2>1, <2>3, <2>5 DEF ShiftInv
<1>5. ASSUME NEW ok \in BOOLEAN, WriteVideo(StreamDelay, ok) PROVE ShiftInv'
  <2>1. /\ pc = "video" /\ more
        /\ UNCHANGED <<more, picture, lastVideoDts>>
        /\ IF ok
             THEN /\ pc' = "get" /\ written' = written + 1
                  /\ audioDelay' = IF written = 0 THEN StreamDelay ELSE audioDelay
             ELSE pc' = "finish" /\ written' = written /\ audioDelay' = audioDelay
    BY <1>5 DEF WriteVideo, pictureVars, RoundInv, MuxerTypes
  <2>2. written \in Nat /\ picture.pts \in Nat /\ picture.src \in Nat
    BY DEF MuxerTypes, Taken
  <2>3. CASE ok
    <3> DEFINE w == [stream |-> Video, us |-> ShownAt, dts |-> LavDts, pts |-> LavPts,
                     src |-> picture.src]
    <3>1. file' = Append(file, w)
      BY <1>1, <1>5, <2>3, WriteVideoLeaves
    <3>2. ShownAt = picture.pts
      <4>1. picture.pts < NoTime /\ lastVideoDts <= picture.pts /\ lastVideoDts \in Nat
        BY <2>1 DEF ShiftInv, MuxerTypes
      <4> QED BY <2>2, <4>1 DEF ShownAt, NoTime
    <3>3. w.us - w.src = encoderDelay
      BY <1>1, <2>1, <2>2, <3>2 DEF ShiftInv
    <3> HIDE DEF w
    <3>4. written' > 0 /\ audioDelay' = encoderDelay /\ ~firstOut
      BY <1>1, <2>1, <2>2, <2>3 DEF ShiftInv
    <3>5. Shifted(w)
      BY <3>3 DEF Shifted
    <3>6. file \in Seq(Frame) /\ \A i \in 1..Len(file) : Shifted(file[i])
      BY DEF MuxerTypes, ShiftInv
    <3>7. \A i \in 1..Len(file') : Shifted(file[i])'
      BY <1>1, <3>1, <3>5, <3>6, ShiftedGrow
    <3> QED BY <1>1, <2>1, <2>3, <3>4, <3>7 DEF ShiftInv
  <2>4. CASE ~ok
    <3>1. file' = file
      BY <1>1, <1>5, <2>4, WriteVideoLeaves
    <3>2. \A i \in 1..Len(file) : Shifted(file[i])' = Shifted(file[i])
      BY <1>1, <3>1 DEF Shifted
    <3> QED BY <1>1, <2>1, <2>4, <3>1, <3>2 DEF ShiftInv
  <2> QED BY <2>3, <2>4
<1> QED BY <1>1, <1>3, <1>4, <1>5 DEF MuxerStep

-----------------------------------------------------------------------------
(* The repair of the decode times                                          *)

\* f[i] is the greatest of the first i elements of s, as saveLoop finds it.
Repairs(f, s, n) ==
  /\ f \in [0..n -> Nat] /\ f[0] = 0
  /\ \A i \in 1..n : f[i] = IF s[i] >= f[i - 1] THEN s[i] ELSE f[i - 1]

RepairOf(s) ==
  LET f[i \in 0..Len(s)] ==
        IF i = 0 THEN 0 ELSE IF s[i] >= f[i - 1] THEN s[i] ELSE f[i - 1]
  IN f

\* One more time.
LEMMA RepairExtends ==
  ASSUME NEW n \in Nat, NEW s, s[n + 1] \in Nat, NEW g, Repairs(g, s, n)
  PROVE  \E f : Repairs(f, s, n + 1)
<1> DEFINE last == IF s[n + 1] >= g[n] THEN s[n + 1] ELSE g[n]
           f == [i \in 0..n + 1 |-> IF i = n + 1 THEN last ELSE g[i]]
<1>1. g \in [0..n -> Nat] /\ g[0] = 0
  BY DEF Repairs
<1>2. last \in Nat
  BY <1>1
<1>3. f \in [0..n + 1 -> Nat] /\ f[0] = 0
  <2>1. \A i \in 0..n + 1 : i = n + 1 \/ i \in 0..n
    OBVIOUS
  <2> HIDE DEF last
  <2> QED BY <1>1, <1>2, <2>1
<1>4. ASSUME NEW i \in 1..n + 1
      PROVE  f[i] = IF s[i] >= f[i - 1] THEN s[i] ELSE f[i - 1]
  <2>1. CASE i = n + 1
    BY <1>1, <2>1
  <2>2. CASE i # n + 1
    <3>1. i \in 1..n /\ i - 1 \in 0..n /\ i - 1 # n + 1
      BY <2>2
    <3>2. f[i] = g[i] /\ f[i - 1] = g[i - 1]
      BY <3>1
    <3> HIDE DEF f
    <3> QED BY <3>1, <3>2 DEF Repairs
  <2> QED BY <2>1, <2>2
<1> HIDE DEF f
<1> QED BY <1>3, <1>4 DEF Repairs

\* There is such a function, and it is the one of the definition.
LEMMA RepairExists ==
  ASSUME NEW s \in Seq(Nat)
  PROVE  Repairs(RepairOf(s), s, Len(s))
<1>1. Len(s) \in Nat /\ \A i \in 1..Len(s) : s[i] \in Nat
  BY ElementOfSeq, LenProperties
<1> DEFINE Bad == {n \in 0..Len(s) : ~\E f : Repairs(f, s, n)}
<1>2. Bad = {}
  <2> SUFFICES ASSUME Bad # {} PROVE FALSE
    OBVIOUS
  <2>1. PICK n \in Bad : \A m \in Bad : n <= m
    <3> Bad \in SUBSET (0..Len(s)) /\ Len(s) \in Nat
      BY <1>1
    <3> HIDE DEF Bad
    <3> QED BY SmallestExists
  <2>2. CASE n = 0
    <3> DEFINE f == [i \in 0..0 |-> 0]
    <3>1. Repairs(f, s, 0)
      BY DEF Repairs
    <3> QED BY <2>2, <3>1
  <2>3. CASE n # 0
    <3>1. n - 1 \in 0..Len(s) /\ n - 1 \in Nat /\ n - 1 < n /\ n \in 1..Len(s)
          /\ (n - 1) + 1 = n
      BY <1>1, <2>3
    <3>2. n - 1 \notin Bad
      BY <1>1, <2>1, <3>1
    <3>3. PICK g : Repairs(g, s, n - 1)
      BY <3>1, <3>2
    <3>4. \E f : Repairs(f, s, (n - 1) + 1)
      <4>1. s[(n - 1) + 1] \in Nat
        BY <1>1, <3>1
      <4> QED BY <3>1, <3>3, <4>1, RepairExtends
    <3> QED BY <3>1, <3>4
  <2> QED BY <2>2, <2>3
<1>3. PICK g : Repairs(g, s, Len(s))
  BY <1>1, <1>2
<1> DEFINE Equation(f) ==
             f = [i \in 0..Len(s) |->
                    IF i = 0 THEN 0 ELSE IF s[i] >= f[i - 1] THEN s[i] ELSE f[i - 1]]
<1>4. Equation(g)
  BY <1>1, <1>3 DEF Repairs
<1>5. RepairOf(s) = CHOOSE f : Equation(f)
  BY DEF RepairOf
<1>6. Equation(RepairOf(s))
  BY <1>4, <1>5
<1> DEFINE f == RepairOf(s)
<1> HIDE DEF f
<1>7. ASSUME NEW i \in 1..Len(s)
      PROVE  f[i] = IF s[i] >= f[i - 1] THEN s[i] ELSE f[i - 1]
  <2>1. i \in 0..Len(s) /\ i # 0
    BY <1>1
  <2> QED BY <1>6, <2>1 DEF f
<1>8. f[0] = 0 /\ DOMAIN f = 0..Len(s)
  BY <1>1, <1>6 DEF f
<1>9. \A i \in 0..Len(s) : f[i] = g[i]
  <2> DEFINE Off == {i \in 0..Len(s) : f[i] # g[i]}
  <2> SUFFICES ASSUME Off # {} PROVE FALSE
    OBVIOUS
  <2>1. PICK n \in Off : \A m \in Off : n <= m
    <3> Off \in SUBSET (0..Len(s)) /\ Len(s) \in Nat
      BY <1>1
    <3> HIDE DEF Off
    <3> QED BY SmallestExists
  <2>2. n # 0
    BY <1>3, <1>8, <2>1 DEF Repairs
  <2>3. n \in 1..Len(s) /\ n - 1 \in 0..Len(s) /\ n - 1 \in Nat /\ n - 1 < n
    BY <1>1, <2>2
  <2>4. f[n - 1] = g[n - 1]
    BY <1>1, <2>1, <2>3
  <2> QED BY <1>3, <1>7, <2>1, <2>3, <2>4 DEF Repairs
<1>10. f = g
  BY <1>3, <1>6, <1>8, <1>9 DEF Repairs, f
<1> QED BY <1>3, <1>10 DEF f

\* A time that is appended leaves the repair of those before it.
LEMMA RepairAppends ==
  ASSUME NEW s \in Seq(Nat), NEW d \in Nat
  PROVE  /\ Repairs(RepairOf(Append(s, d)), Append(s, d), Len(s) + 1)
         /\ \A i \in 0..Len(s) : RepairOf(Append(s, d))[i] = RepairOf(s)[i]
<1> DEFINE t == Append(s, d)
           f == RepairOf(t)
           g == RepairOf(s)
<1>1. /\ t \in Seq(Nat) /\ Len(t) = Len(s) + 1 /\ Len(s) \in Nat
      /\ \A i \in 1..Len(s) : t[i] = s[i]
  BY AppendProperties, LenProperties
<1> HIDE DEF t
<1>2. Repairs(f, t, Len(t)) /\ Repairs(g, s, Len(s))
  BY <1>1, RepairExists
<1> HIDE DEF f, g
<1>3. \A i \in 0..Len(s) : f[i] = g[i]
  <2> DEFINE Off == {i \in 0..Len(s) : f[i] # g[i]}
  <2> SUFFICES ASSUME Off # {} PROVE FALSE
    OBVIOUS
  <2>1. PICK n \in Off : \A m \in Off : n <= m
    <3> Off \in SUBSET (0..Len(s)) /\ Len(s) \in Nat
      BY <1>1
    <3> HIDE DEF Off
    <3> QED BY SmallestExists
  <2>2. n # 0
    BY <1>2, <2>1 DEF Repairs
  <2>3. n \in 1..Len(s) /\ n \in 1..Len(t) /\ n - 1 \in 0..Len(s) /\ n - 1 \in Nat /\ n - 1 < n
    BY <1>1, <2>2
  <2>4. f[n - 1] = g[n - 1]
    BY <1>1, <2>1, <2>3
  <2> QED BY <1>1, <1>2, <2>1, <2>3, <2>4 DEF Repairs
<1> QED BY <1>1, <1>2, <1>3 DEF t, f, g

(* The ticks of the pictures: the one written last is in its own tick, or  *)
(* was moved to the next because the one before had taken its own.         *)
Tick(n) == Ticks(Repaired[n], MuxTick)

Placed(n) ==
  /\ n = 0 => lastLavDts = 0
  /\ n > 0 => \/ lastLavDts = Tick(n)
              \/ n > 1 /\ lastLavDts = Tick(n) + 1 /\ Tick(n) <= Tick(n - 1) + 1
  /\ n > 1 => lastLavDts > 0
  /\ \A i \in DOMAIN file : file[i].stream = Video => n > 0 /\ file[i].dts <= lastLavDts

Calm == NoTime \notin Range(times) /\ roundup = 0 /\ ~Crowded

CrowdInv ==
  /\ faults \in Nat
  /\ faults = 0 /\ Calm =>
       /\ \A w \in refused : w.stream # Video
       /\ pc \in {"get", "audio", "video"} /\ more =>
            lastVideoDts = Repaired[Len(times)] /\ lastVideoDts < NoTime - 1
       /\ pc = "get" => Placed(Len(times))
       /\ pc \in {"audio", "video"} /\ more =>
            Len(times) > 0 /\ picture.dts = lastVideoDts /\ Placed(Len(times) - 1)

\* The definition of the model is the function of the lemmas above.
LEMMA RepairedIs ==
  ASSUME times \in Seq(Nat)
  PROVE  Repaired = RepairOf(times) /\ Repairs(Repaired, times, Len(times))
<1>1. Repaired = RepairOf(times)
  BY DEF Repaired, RepairOf
<1> QED BY <1>1, RepairExists

\* A picture more: what was crowded stays so, the ticks before stay.
LEMMA RepairedGrows ==
  ASSUME times \in Seq(Nat), NEW d \in Nat, times' = Append(times, d)
  PROVE  /\ Len(times') = Len(times) + 1
         /\ \A i \in 0..Len(times) : Repaired'[i] = Repaired[i]
         /\ Repaired'[Len(times) + 1]
              = IF d >= Repaired[Len(times)] THEN d ELSE Repaired[Len(times)]
         /\ Crowded => Crowded'
         /\ NoTime \in Range(times) \/ d = NoTime => NoTime \in Range(times')
<1>1. Repaired = RepairOf(times) /\ Repaired' = RepairOf(times') /\ Len(times) \in Nat
  BY LenProperties DEF Repaired, RepairOf
<1>2. /\ Len(times') = Len(times) + 1
      /\ \A i \in 1..Len(times) : times'[i] = times[i]
      /\ times'[Len(times) + 1] = d
      /\ times' \in Seq(Nat)
  BY AppendProperties
<1>3. \A i \in 0..Len(times) : Repaired'[i] = Repaired[i]
  BY <1>1, RepairAppends
<1>4. Repaired'[Len(times) + 1]
        = IF d >= Repaired[Len(times)] THEN d ELSE Repaired[Len(times)]
  <2>1. Repairs(Repaired', times', Len(times) + 1)
    BY <1>1, RepairAppends
  <2>2. /\ Len(times) + 1 \in 1..Len(times) + 1 /\ Len(times) + 1 - 1 = Len(times)
        /\ Len(times) \in 0..Len(times)
    BY <1>1
  <2>3. Repaired'[Len(times) + 1]
          = IF times'[Len(times) + 1] >= Repaired'[Len(times)] THEN times'[Len(times) + 1]
            ELSE Repaired'[Len(times)]
    BY <2>1, <2>2 DEF Repairs
  <2>4. Repaired'[Len(times)] = Repaired[Len(times)]
    BY <1>3, <2>2
  <2> QED BY <1>2, <2>3, <2>4
<1>5. ASSUME Crowded PROVE Crowded'
  <2>1. CASE \E i \in 1..Len(times) - 2 : Repaired[i + 2] - Repaired[i] < 2 * MuxTick
    <3>1. PICK i \in 1..Len(times) - 2 : Repaired[i + 2] - Repaired[i] < 2 * MuxTick
      BY <2>1
    <3>2. i \in 1..Len(times') - 2 /\ i \in 0..Len(times) /\ i + 2 \in 0..Len(times)
      BY <1>1, <1>2
    <3>3. Repaired'[i + 2] - Repaired'[i] < 2 * MuxTick
      BY <1>3, <3>1, <3>2
    <3> QED BY <3>2, <3>3 DEF Crowded
  <2>2. CASE Len(times) > 1 /\ RescaleLavPts(Repaired[2]) = 0
    <3>1. 2 \in 0..Len(times) /\ Len(times') > 1
      BY <1>1, <1>2, <2>2
    <3>2. RescaleLavPts(Repaired'[2]) = 0
      BY <1>3, <2>2, <3>1
    <3> QED BY <3>1, <3>2 DEF Crowded, RescaleLavPts
  <2> QED BY <1>5, <2>1, <2>2 DEF Crowded
<1>6. ASSUME NoTime \in Range(times) \/ d = NoTime PROVE NoTime \in Range(times')
  <2>1. PICK i \in 1..Len(times') : times'[i] = NoTime
    <3>1. CASE NoTime \in Range(times)
      <4>1. PICK i \in 1..Len(times) : times[i] = NoTime
        BY <3>1, LenProperties DEF Range
      <4>2. i \in 1..Len(times')
        BY <1>1, <1>2
      <4> QED BY <1>2, <4>1, <4>2
    <3>2. CASE d = NoTime
      <4>1. Len(times) + 1 \in 1..Len(times')
        BY <1>1, <1>2
      <4> QED BY <1>2, <3>2, <4>1
    <3> QED BY <1>6, <3>1, <3>2
  <2>2. DOMAIN times' = 1..Len(times')
    BY <1>2, LenProperties
  <2> QED BY <2>1, <2>2 DEF Range
<1> QED BY <1>2, <1>3, <1>4, <1>5, <1>6

\* What the container is offered next is later than what it has.
LEMMA NextPlace ==
  ASSUME times \in Seq(Nat), ~Crowded, NEW n, n = Len(times), n > 0,
         Repaired[n] # NoTime, lastLavDts \in Nat, Placed(n - 1), NEW dts,
         dts = IF lastLavDts # 0 /\ Tick(n) = lastLavDts THEN Tick(n) + 1 ELSE Tick(n)
  PROVE  /\ dts \in Nat /\ dts <= Tick(n) + 1
         /\ n > 1 => dts > lastLavDts
         /\ dts >= lastLavDts
         /\ \/ dts = Tick(n)
            \/ n > 1 /\ dts = Tick(n) + 1 /\ Tick(n) <= Tick(n - 1) + 1
<1>1. n \in Nat /\ n \in 0..n /\ n - 1 \in 0..n /\ MuxTick \in Nat \ {0}
  BY MuxerAssumption, LenProperties DEF MuxerAssumption
<1>2. Repairs(Repaired, times, n)
  BY RepairedIs
<1>3. \A i \in 0..n : Repaired[i] \in Nat /\ Tick(i) \in Nat
  <2>1. \A i \in 0..n : Repaired[i] \in Nat
    BY <1>2 DEF Repairs
  <2> QED BY <1>1, <2>1, TicksBound DEF Tick
<1>4. CASE n = 1
  BY <1>1, <1>3, <1>4 DEF Placed
<1>5. CASE n > 1
  <2>1. n \in 1..n /\ times[n] \in Nat
    BY <1>1, <1>5, ElementOfSeq
  <2>2. Repaired[n - 1] <= Repaired[n]
    BY <1>1, <1>2, <1>3, <2>1 DEF Repairs
  <2>3. Tick(n - 1) <= Tick(n)
    BY <1>1, <1>3, <2>2, TicksInOrder DEF Tick
  <2>4. CASE lastLavDts = Tick(n - 1)
    <3>1. lastLavDts = 0 => n = 2
      BY <1>1, <1>5 DEF Placed
    <3>2. n = 2 => Tick(n) # 0
      <4> SUFFICES ASSUME n = 2, Tick(n) = 0 PROVE FALSE
        OBVIOUS
      <4>1. RescaleLavPts(Repaired[2]) = 0
        BY DEF RescaleLavPts, Tick
      <4> QED BY <4>1 DEF Crowded
    <3>3. /\ Tick(n) \in Nat /\ Tick(n - 1) \in Nat
          /\ (Tick(n) = lastLavDts => Tick(n) # 0)
      BY <1>1, <1>3, <2>4, <3>1, <3>2
    <3>4. CASE Tick(n) = lastLavDts
      <4>1. dts = Tick(n) + 1
        BY <3>3, <3>4
      <4> QED BY <1>5, <2>4, <3>3, <3>4, <4>1
    <3>5. CASE Tick(n) # lastLavDts
      <4>1. dts = Tick(n)
        BY <3>5
      <4> QED BY <1>5, <2>3, <2>4, <3>3, <3>5, <4>1
    <3> QED BY <3>4, <3>5
  <2>5. CASE lastLavDts # Tick(n - 1)
    <3>1. n - 1 > 1 /\ lastLavDts = Tick(n - 1) + 1 /\ Tick(n - 1) <= Tick(n - 1 - 1) + 1
      BY <1>1, <1>5, <2>5 DEF Placed
    <3>2. n - 2 \in 1..n - 2 /\ n - 2 \in 0..n /\ n - 1 - 1 = n - 2 /\ n - 2 + 2 = n
      BY <1>1, <3>1
    <3>3. ~(Repaired[n] - Repaired[n - 2] < 2 * MuxTick)
      BY <3>2 DEF Crowded
    <3>4. ~(Tick(n) <= Tick(n - 2) + 1)
      BY <1>1, <1>3, <3>2, <3>3, TicksNear DEF Tick
    <3>5. /\ Tick(n) \in Nat /\ Tick(n - 1) \in Nat /\ Tick(n - 2) \in Nat
          /\ lastLavDts = Tick(n - 1) + 1 /\ Tick(n - 1) <= Tick(n - 2) + 1
      BY <1>1, <1>3, <3>1, <3>2
    <3>6. Tick(n) >= lastLavDts /\ lastLavDts # 0 /\ Tick(n) <= lastLavDts => Tick(n) <= Tick(n - 1) + 1
      BY <3>4, <3>5
    <3>7. CASE Tick(n) = lastLavDts
      <4>1. dts = Tick(n) + 1
        BY <3>5, <3>6, <3>7
      <4> QED BY <1>5, <3>5, <3>7, <4>1
    <3>8. CASE Tick(n) # lastLavDts
      <4>1. dts = Tick(n)
        BY <3>8
      <4>2. Tick(n) > lastLavDts
        BY <3>4, <3>5, <3>8
      <4> QED BY <1>5, <3>5, <4>1, <4>2
    <3> QED BY <3>7, <3>8
  <2> QED BY <2>4, <2>5
<1> QED BY <1>1, <1>4, <1>5

\* What a write leaves: without a fault only what the container cannot take, or
\* would have to guess, is refused.
LEMMA WriteFrameLeaves ==
  ASSUME faults \in Nat, NEW w, NEW ok \in BOOLEAN, WriteFrame(w, ok)
  PROVE  /\ faults' \in Nat /\ (faults' = 0 => faults = 0)
         /\ refused' \subseteq refused \cup {w}
         /\ ok => refused' = refused
         /\ ~ok /\ faults' = 0 => Guesses(w) \/ ~Accepts(w)
  BY DEF WriteFrame

\* Taking a picture repairs its time.
LEMMA CrowdTakes ==
  ASSUME MuxerTypes, RoundInv, CrowdInv, NEW p \in Taken,
         p.dts = NoTime \/ p.dts < NoTime - 1,
         GetPicture(p), times' = Append(times, p.dts)
  PROVE  CrowdInv'
<1>1. /\ pc = "get" /\ more /\ more' = more
      /\ UNCHANGED <<lastLavDts, roundup, file, faults, refused>>
  BY DEF GetPicture, RoundInv, formatVars, fileVars
<1>2. /\ p.dts \in Nat /\ lastVideoDts \in Nat /\ times \in Seq(Nat) /\ Len(times) \in Nat
      /\ file \in Seq(Frame)
  BY LenProperties DEF Taken, MuxerTypes
<1> SUFFICES ASSUME faults = 0, Calm'
             PROVE  /\ lastVideoDts' = Repaired'[Len(times')] /\ lastVideoDts' < NoTime - 1
                    /\ Len(times') > 0 /\ picture'.dts = lastVideoDts'
                    /\ Placed(Len(times) - 1)'
                    /\ \A w \in refused : w.stream # Video
  <2>1. pc' \in {"audio", "video"}
    BY DEF GetPicture, AfterPicture
  <2>2. faults \in Nat
    BY DEF CrowdInv
  <2> HIDE DEF Calm, Placed
  <2> QED BY <1>1, <2>1, <2>2 DEF CrowdInv
<1>3. /\ Len(times') = Len(times) + 1
      /\ \A i \in 0..Len(times) : Repaired'[i] = Repaired[i]
      /\ Repaired'[Len(times) + 1]
           = IF p.dts >= Repaired[Len(times)] THEN p.dts ELSE Repaired[Len(times)]
      /\ Calm /\ p.dts # NoTime
  BY <1>1, <1>2, RepairedGrows DEF Calm
<1>4. /\ lastVideoDts = Repaired[Len(times)] /\ lastVideoDts < NoTime - 1
      /\ Placed(Len(times)) /\ \A w \in refused : w.stream # Video
  BY <1>1, <1>3 DEF CrowdInv
<1>5. lastVideoDts' = Repaired'[Len(times')] /\ picture'.dts = lastVideoDts'
  <2>1. CASE p.dts < lastVideoDts
    <3>1. lastVideoDts' = lastVideoDts /\ picture'.dts = lastVideoDts
      BY <1>2, <1>3, <2>1 DEF GetPicture, Taken
    <3> QED BY <1>2, <1>3, <1>4, <2>1, <3>1
  <2>2. CASE ~(p.dts < lastVideoDts)
    <3>1. lastVideoDts' = p.dts /\ picture' = p
      BY <1>2, <1>3, <2>2 DEF GetPicture
    <3> QED BY <1>2, <1>3, <1>4, <2>2, <3>1
  <2> QED BY <2>1, <2>2
<1>6. lastVideoDts' < NoTime - 1
  BY <1>2, <1>3, <1>4, <1>5
<1>7. Placed(Len(times) - 1)'
  <2>1. PICK n \in Nat : n = Len(times)
    BY <1>2
  <2>2. n > 0 => Tick(n)' = Tick(n)
    <3>1. n \in 0..Len(times)
      BY <2>1
    <3> QED BY <1>3, <3>1 DEF Tick
  <2>3. n > 1 => Tick(n - 1)' = Tick(n - 1)
    <3>1. n > 1 => n - 1 \in 0..Len(times)
      BY <2>1
    <3> QED BY <1>3, <3>1 DEF Tick
  <2>4. Placed(n)
    BY <1>4, <2>1
  <2>5. Placed(n)'
    BY <1>1, <2>2, <2>3, <2>4 DEF Placed
  <2>6. Len(times') - 1 = n
    BY <1>2, <1>3, <2>1
  <2> QED BY <2>5, <2>6 DEF Placed, Tick
<1> QED BY <1>2, <1>3, <1>4, <1>5, <1>6, <1>7

\* A picture that comes in its turn is taken by the container.
LEMMA CrowdWrites ==
  ASSUME MuxerTypes, RoundInv, CrowdInv, NEW delay \in Nat, NEW ok \in BOOLEAN,
         WriteVideo(delay, ok), times' = times
  PROVE  CrowdInv'
<1> DEFINE w == [stream |-> Video, us |-> ShownAt, dts |-> LavDts, pts |-> LavPts,
                 src |-> picture.src]
<1>1. /\ pc = "video" /\ more /\ more' = more /\ WriteFrame(w, ok)
      /\ lastLavDts' = LavDts /\ (ok => pc' = "get") /\ (~ok => pc' = "finish")
      /\ UNCHANGED <<lastVideoDts, roundup, picture>>
  BY DEF WriteVideo, RoundInv, pictureVars, formatVars
<1>2. /\ w.stream = Video /\ w.dts = LavDts /\ w.pts = LavPts
      /\ LavDts \in Nat /\ LavPts \in Nat
  <2>1. w \in Frame /\ LavDts \in Nat
    BY VideoFrameTypes
  <2> QED BY <2>1 DEF Frame
<1> HIDE DEF w
<1>3. /\ faults' \in Nat /\ (faults' = 0 => faults = 0)
      /\ refused' \subseteq refused \cup {w}
      /\ (ok => refused' = refused)
      /\ (~ok /\ faults' = 0 => Guesses(w) \/ ~Accepts(w))
  BY <1>1, WriteFrameLeaves DEF CrowdInv
<1>4. /\ times \in Seq(Nat) /\ Len(times) \in Nat /\ file \in Seq(Frame)
      /\ lastLavDts \in Nat /\ lastVideoDts \in Nat
      /\ DOMAIN file = 1..Len(file)
  BY LenProperties DEF MuxerTypes
<1>5. Repaired' = Repaired /\ Calm' = Calm
  BY <1>1 DEF Calm, Repaired, Crowded, RescaleLavPts
<1>6. ASSUME faults' = 0, Calm
      PROVE  /\ \A v \in refused' : v.stream # Video
             /\ pc' = "get" =>
                  lastVideoDts = Repaired[Len(times)] /\ lastVideoDts < NoTime - 1
             /\ pc' = "get" => Placed(Len(times))'
  <2>1. PICK n \in Nat : n = Len(times)
    BY <1>4
  <2>2. /\ \A v \in refused : v.stream # Video
        /\ lastVideoDts = Repaired[n] /\ lastVideoDts < NoTime - 1
        /\ n > 0 /\ picture.dts = lastVideoDts /\ Placed(n - 1)
    BY <1>1, <1>3, <1>6, <2>1 DEF CrowdInv
  <2>3. LavDts = IF lastLavDts # 0 /\ Tick(n) = lastLavDts THEN Tick(n) + 1 ELSE Tick(n)
    <3>1. picture.dts # NoTime /\ roundup = 0
      BY <1>4, <1>6, <2>2 DEF Calm
    <3>2. RescaleVideoTimeDts(picture.dts) = Tick(n)
      BY <2>2, <3>1 DEF RescaleVideoTimeDts, RescaleVideoTime, RescaleLavPts, Tick
    <3> QED BY <3>1, <3>2 DEF LavDts
  <2>4. /\ LavDts <= Tick(n) + 1
        /\ n > 1 => LavDts > lastLavDts
        /\ LavDts >= lastLavDts
        /\ \/ LavDts = Tick(n)
           \/ n > 1 /\ LavDts = Tick(n) + 1 /\ Tick(n) <= Tick(n - 1) + 1
    <3>1. ~Crowded /\ Repaired[n] # NoTime
      BY <1>4, <1>6, <2>2 DEF Calm
    <3> QED BY <1>4, <2>1, <2>2, <2>3, <3>1, NextPlace
  <2>5. ~Guesses(w)
    <3>1. Tick(n) \in Nat /\ Tick(n) <= lastVideoDts
      <4>1. MuxTick \in Nat \ {0}
        BY MuxerAssumption DEF MuxerAssumption
      <4> QED BY <1>4, <2>2, <4>1, TicksBound DEF Tick
    <3> QED BY <1>2, <1>4, <2>2, <2>4, <3>1 DEF Guesses, NoTime
  <2>6. ASSUME NEW i \in DOMAIN file, file[i].stream = Video
        PROVE  n > 1 /\ file[i].dts <= lastLavDts /\ file[i].dts \in Nat
    <3>1. n - 1 > 0 /\ file[i].dts <= lastLavDts
      BY <2>2, <2>6 DEF Placed
    <3>2. file[i] \in Frame
      BY <1>4, ElementOfSeq
    <3> QED BY <3>1, <3>2 DEF Frame
  <2>7. Accepts(w)
    <3>1. LavDts <= LavPts
      <4>1. LavPts = LavDts \/ ~(LavDts > LavPts)
        BY DEF LavPts
      <4> QED BY <1>2, <4>1
    <3>2. \A i \in DOMAIN file : file[i].stream = Video => file[i].dts < LavDts
      BY <1>2, <1>4, <2>4, <2>6
    <3> QED BY <1>2, <3>1, <3>2 DEF Accepts
  <2>8. ok
    BY <1>3, <1>6, <2>5, <2>7
  <2>9. file' = Append(file, w)
    BY <1>1, <2>8 DEF WriteFrame
  <2>10. ASSUME NEW i \in DOMAIN file', file'[i].stream = Video
         PROVE  file'[i].dts <= LavDts
    <3>1. CASE i \in 1..Len(file)
      <4>1. file'[i] = file[i] /\ i \in DOMAIN file
        BY <1>4, <2>9, <3>1
      <4> QED BY <1>2, <1>4, <2>4, <2>6, <2>10, <4>1
    <3>2. CASE i \notin 1..Len(file)
      <4>1. i = Len(file) + 1 /\ file'[i] = w
        BY <1>4, <2>9, <3>2
      <4> QED BY <1>2, <4>1
    <3> QED BY <3>1, <3>2
  <2>11. Tick(n)' = Tick(n) /\ Tick(n - 1)' = Tick(n - 1)
    BY <1>5 DEF Tick
  <2>12. n > 1 => LavDts > 0
    BY <1>2, <1>4, <2>4
  <2>13. Placed(n)'
    BY <1>1, <2>2, <2>4, <2>10, <2>11, <2>12 DEF Placed
  <2>14. Placed(Len(times))'
    BY <2>1, <2>13 DEF Placed, Tick
  <2> QED BY <1>3, <2>1, <2>2, <2>8, <2>14
<1>7. ~(pc' \in {"audio", "video"})
  BY <1>1
<1>8. pc' \in {"get", "finish"}
  BY <1>1
<1> QED BY <1>1, <1>3, <1>5, <1>6, <1>7, <1>8 DEF CrowdInv

\* What is told of the pictures does not depend on the sound.
LEMMA CrowdSound ==
  ASSUME MuxerTypes, CrowdInv, NEW ok \in BOOLEAN, WriteAudio(ok), times' = times
  PROVE  CrowdInv'
<1> DEFINE w == AudioFrame(InHand(track), track)
<1>1. /\ pc = "audio" /\ pc' = pc /\ WriteFrame(w, ok) /\ track \in DOMAIN tracks
      /\ UNCHANGED <<picture, more, lastVideoDts, lastLavDts, roundup>>
  BY DEF WriteAudio, pictureVars, formatVars
<1>2. w.stream # Video
  BY <1>1 DEF AudioFrame, Video, MuxerTypes, TracksTypes
<1>3. file' = file \/ file' = Append(file, w)
  BY WriteAudioLeaves
<1> HIDE DEF w
<1>4. /\ faults' \in Nat /\ (faults' = 0 => faults = 0)
      /\ refused' \subseteq refused \cup {w}
  BY <1>1, WriteFrameLeaves DEF CrowdInv
<1>5. Repaired' = Repaired /\ Calm' = Calm
  BY <1>1 DEF Calm, Repaired, Crowded, RescaleLavPts
<1>6. file \in Seq(Frame) /\ Len(file) \in Nat /\ DOMAIN file = 1..Len(file)
  BY LenProperties DEF MuxerTypes
<1>7. ASSUME NEW i \in DOMAIN file', file'[i].stream = Video
      PROVE  i \in DOMAIN file /\ file'[i] = file[i]
  <2>1. CASE file' = file
    BY <1>7, <2>1
  <2>2. CASE file' = Append(file, w)
    <3>1. CASE i \in 1..Len(file)
      BY <1>6, <2>2, <3>1
    <3>2. CASE i \notin 1..Len(file)
      <4>1. i = Len(file) + 1 /\ file'[i] = w
        BY <1>6, <2>2, <3>2
      <4> QED BY <1>2, <1>7, <4>1
    <3> QED BY <3>1, <3>2
  <2> QED BY <1>3, <2>1, <2>2
<1>8. ASSUME NEW n, Placed(n) PROVE Placed(n)'
  <2>1. \A i : Tick(i)' = Tick(i)
    BY <1>5 DEF Tick
  <2> QED BY <1>1, <1>7, <1>8, <2>1 DEF Placed
<1>9. Placed(Len(times) - 1) => Placed(Len(times) - 1)'
  <2>1. PICK n : n = Len(times) - 1
    OBVIOUS
  <2>2. Placed(n) => Placed(n)'
    BY <1>8
  <2> QED BY <2>1, <2>2 DEF Placed, Tick
<1>10. ASSUME faults' = 0, Calm', more
       PROVE  /\ \A v \in refused' : v.stream # Video
              /\ lastVideoDts = Repaired[Len(times)] /\ lastVideoDts < NoTime - 1
              /\ Len(times) > 0 /\ picture.dts = lastVideoDts
              /\ Placed(Len(times) - 1)'
  BY <1>1, <1>2, <1>4, <1>5, <1>9, <1>10 DEF CrowdInv
<1>11. ASSUME faults' = 0, Calm' PROVE \A v \in refused' : v.stream # Video
  BY <1>1, <1>2, <1>4, <1>5, <1>11 DEF CrowdInv
<1> HIDE DEF Calm, Placed
<1> QED BY <1>1, <1>4, <1>5, <1>10, <1>11 DEF CrowdInv

\* Every step of a save keeps it.
LEMMA CrowdNext ==
  ASSUME EncoderInv, GivenInv, MuxerTypes, RoundInv, CrowdInv, [Next]_vars
  PROVE  CrowdInv'
<1>1. CASE TakeEncoded
  <2>1. /\ call = "gave" /\ out \in Taken /\ GetPicture(out)
        /\ times' = Append(times, out.dts)
    BY <1>1 DEF TakeEncoded, EncoderInv, EncoderTypes, Taken
  <2>2. out.dts < NoTime - 1
    <3>1. /\ EncTick \in Nat /\ encoderDelay \in Nat
          /\ out.dts \in Nat /\ out.pts \in Nat /\ out.src \in Nat
      BY <2>1, EncoderAssumption DEF EncoderAssumption, EncoderInv, EncoderTypes, Taken
    <3>2. pulled # <<>> /\ LastPulled \in Nat
      <4>1. pulled # <<>> /\ pulled \in Seq(Nat)
        BY <2>1 DEF GivenInv, EncoderInv, EncoderTypes
      <4>2. Len(pulled) \in 1..Len(pulled)
        BY <4>1, EmptySeq, LenProperties
      <4> QED BY <4>1, <4>2, ElementOfSeq DEF LastPulled
    <3>3. /\ out.dts <= out.src + encoderDelay /\ out.src <= LastPulled
          /\ encoderDelay <= 2 * LastPulled + 3 * EncTick
          /\ 3 * (LastPulled + EncTick) < NoTime - 1
      BY <2>1, <3>2 DEF GivenInv
    <3> QED BY <3>1, <3>2, <3>3 DEF NoTime
  <2> QED BY <2>1, <2>2, CrowdTakes
<1>2. CASE TakeCopied
  <2>1. PICK p \in CopiedPackets : GetPicture(p) /\ times' = Append(times, p.dts)
    BY <1>2 DEF TakeCopied
  <2>2. p \in Taken /\ (p.dts = NoTime \/ p.dts < NoTime - 1)
    BY CopiedTypes
  <2> QED BY <2>1, <2>2, CrowdTakes
<1>3. CASE Mux /\ \E ok \in BOOLEAN : WriteAudio(ok) \/ WriteVideo(StreamDelay, ok)
  <2>1. StreamDelay \in Nat /\ times' = times
    BY <1>3 DEF Mux, StreamDelay, EncoderInv, EncoderTypes, MuxerTypes, saverVars
  <2> QED BY <1>3, <2>1, CrowdSound, CrowdWrites
<1>4. CASE \/ Encode \/ EncodeEnds \/ CopyEnds \/ UserStops
           \/ Mux /\ (NextTrack \/ EndOfRound \/ Finish)
           \/ Rest \/ UNCHANGED vars
  <2>1. /\ UNCHANGED <<picture, lastVideoDts, lastLavDts, roundup, file, faults, refused,
                       times>>
        /\ pc' = "get" => pc = "get" /\ more
        /\ pc' \in {"audio", "video"} /\ more' => pc \in {"audio", "video"} /\ more
    BY <1>4 DEF Encode, EncodeEnds, CopyEnds, GetEnd, UserStops, Abort, Mux, NextTrack,
                EndOfRound, Finish, Rest, RoundInv, vars, muxerVars, saverVars, pictureVars,
                fileVars, formatVars
  <2>2. Repaired' = Repaired /\ Calm' = Calm
    BY <2>1 DEF Calm, Repaired, Crowded, RescaleLavPts
  <2>3. /\ Placed(Len(times))' = Placed(Len(times))
        /\ Placed(Len(times) - 1)' = Placed(Len(times) - 1)
    BY <2>1, <2>2 DEF Placed, Tick
  <2> HIDE DEF Calm, Placed
  <2> QED BY <2>1, <2>2, <2>3 DEF CrowdInv
<1> QED BY <1>1, <1>2, <1>3, <1>4 DEF Next, Mux, MuxerStep

-----------------------------------------------------------------------------
(* All together                                                            *)

SaverInv ==
  /\ EncoderInv /\ CutInv /\ GivenInv
  /\ MuxerTypes /\ RoundInv /\ CountInv /\ FlightInv /\ ShiftInv
  /\ CrowdInv

\* Nothing has been taken and nothing written at the start.
LEMMA SaverInitInv ==
  ASSUME Init
  PROVE  SaverInv
<1>1. EncoderInv
  BY EncoderInitInv
<1>2. MuxerTypes
  BY MuxerInitTypes
<1>3. CutInv /\ GivenInv
  BY DEF Init, EncoderInit, CutInv, CutShortWhenCrowded, CutShort, Moved, GivenInv
<1>4. /\ pc = "get" /\ more /\ written = 0 /\ file = <<>> /\ times = <<>>
      /\ lastVideoDts = 0 /\ ret
      /\ pulled = <<>> /\ held = <<>> /\ coding = <<>> /\ call = "idle"
      /\ firstOut /\ lastDts = NoTime
  BY DEF Init, EncoderInit, MuxerInit
<1>5. RoundInv
  BY <1>4 DEF RoundInv
<1>6. CountInv
  <2>1. Videos = {}
    BY <1>4 DEF Videos
  <2>2. IsFiniteSet({}) /\ Cardinality({}) = 0
    BY FS_EmptySet
  <2> QED BY <1>4, <2>1, <2>2 DEF CountInv
<1>7. FlightInv
  BY <1>4 DEF FlightInv
<1>8. ShiftInv
  BY <1>4 DEF ShiftInv, NoTime
<1>9. CrowdInv
  <2>1. /\ faults = 0 /\ refused = {} /\ lastLavDts = 0 /\ Len(times) = 0
        /\ times \in Seq(Nat)
    BY <1>4 DEF Init, MuxerInit
  <2>2. Repaired[0] = 0
    BY <2>1, RepairedIs DEF Repairs
  <2> QED BY <1>4, <2>1, <2>2 DEF CrowdInv, Placed, NoTime
<1> QED BY <1>1, <1>2, <1>3, <1>5, <1>6, <1>7, <1>8, <1>9 DEF SaverInv

\* Every step of a save keeps the invariant of the save.
LEMMA SaverNext ==
  ASSUME SaverInv, [Next]_vars
  PROVE  SaverInv'
<1>1. /\ EncoderInv /\ CutInv /\ GivenInv
      /\ MuxerTypes /\ RoundInv /\ CountInv /\ FlightInv /\ ShiftInv
      /\ CrowdInv
  BY DEF SaverInv
<1>2. EncoderInv' /\ CutInv' /\ GivenInv'
  BY <1>1, EncoderNext, CutNext, GivenNext
<1>3. MuxerTypes' /\ RoundInv' /\ CountInv' /\ FlightInv' /\ CrowdInv'
  BY <1>1, MuxerTypesNext, RoundNext, CountNext, FlightNext, CrowdNext
<1>4. ShiftInv'
  <2>1. CASE Encode
    BY <1>1, <2>1, EncodeShifted
  <2>2. CASE TakeEncoded
    BY <1>1, <2>2, TakeShifted
  <2>3. CASE Mux
    <3>1. mode' = mode
      BY <2>3 DEF Mux, saverVars
    <3>2. CASE mode = "encode"
      BY <1>1, <2>3, <3>2, MuxShifted
    <3>3. CASE mode # "encode"
      BY <3>1, <3>3 DEF ShiftInv
    <3> QED BY <3>2, <3>3
  <2>4. CASE TakeCopied \/ CopyEnds
    BY <2>4 DEF TakeCopied, CopyEnds, Copying, saverVars, ShiftInv
  <2>5. CASE EncodeEnds \/ UserStops \/ Rest \/ UNCHANGED vars
    <3>1. /\ UNCHANGED <<mode, lastVideoDts, lastDts, firstOut, written, audioDelay,
                         encoderDelay, picture, file>>
          /\ pc' \in {"audio", "video"} /\ more' => pc \in {"audio", "video"} /\ more
      BY <2>5 DEF EncodeEnds, GetEnd, UserStops, Abort, Rest, vars, muxerVars,
                  pictureVars, fileVars, saverVars, encoderVars, timeVars
    <3>2. \A i \in 1..Len(file) : Shifted(file[i])' = Shifted(file[i])
      BY <3>1 DEF Shifted
    <3> QED BY <1>1, <3>1, <3>2 DEF ShiftInv
  <2> QED BY <2>1, <2>2, <2>3, <2>4, <2>5 DEF Next
<1> QED BY <1>2, <1>3, <1>4 DEF SaverInv

\* The invariant of the save holds always.
THEOREM SaverInvariant == Spec => []SaverInv
<1>1. Init => SaverInv
  BY SaverInitInv
<1>2. SaverInv /\ [Next]_vars => SaverInv'
  BY SaverNext
<1> QED BY <1>1, <1>2, PTL DEF Spec

\* When a picture is about to be written no track holds back sound that is to be
\* heard by then, unless it met an error in this round; at the end what is held
\* back is only sound of the last audioDelay of the film, or later.
THEOREM SaverSoundKeepsUp == Spec => []SoundKeepsUp
<1>1. SaverInv => SoundKeepsUp
  BY RoundKeepsUp DEF SaverInv
<1> QED BY <1>1, SaverInvariant, PTL

\* A save that says it went well has written every picture, unless libavcodec
\* refused one.
THEOREM SaverNothingMissing == Spec => []NothingMissing
<1>1. SaverInv => NothingMissing
  BY CountsNothingMissing DEF SaverInv
<1> QED BY <1>1, SaverInvariant, PTL

\* In the file, sound and encoded pictures are shifted by the same delay.
THEOREM SaverSoundInStep == Spec => []SoundInStep
<1>1. SaverInv => SoundInStep
  <2> SUFFICES ASSUME SaverInv, mode = "encode",
                      NEW i \in DOMAIN file, NEW j \in DOMAIN file,
                      file[i].stream = Video, file[j].stream # Video,
                      file[j].src # NoTime
               PROVE  file[i].us - file[i].src = file[j].us - file[j].src
    BY DEF SoundInStep
  <2>1. DOMAIN file = 1..Len(file)
    BY LenProperties DEF SaverInv, MuxerTypes
  <2>2. Shifted(file[i]) /\ Shifted(file[j])
    BY <2>1 DEF SaverInv, ShiftInv
  <2> QED BY <2>2 DEF Shifted
<1> QED BY <1>1, SaverInvariant, PTL

\* The container refuses a picture for its times only if pictures are crowded
\* in its ticks, or a time is missing or rounded up: otherwise the repair of
\* the decode times by saveLoop is enough.
THEOREM SaverRefusedWhenCrowded == Spec => []RefusedWhenCrowded
<1>1. SaverInv => RefusedWhenCrowded
  BY DEF SaverInv, CrowdInv, Calm, RefusedWhenCrowded
<1> QED BY <1>1, SaverInvariant, PTL

=============================================================================
