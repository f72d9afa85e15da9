--------------------------- MODULE SegmentsProofs ---------------------------
(***************************************************************************)
(* The list of segments, for every input file, every edit and any number   *)
(* of them: each segment stays within its file and, as long as the markers *)
(* are at pictures, starts with a picture; every picture of the film is    *)
(* found at its place; a project that is read back gives the same list;    *)
(* and what an edit leaves, or puts on the clipboard, is the pictures that *)
(* were asked for.                                                         *)
(***************************************************************************)
EXTENDS Segments, SequenceTheorems, FiniteSetTheorems, FunctionTheorems,
        WellFoundedInduction, TLAPS

-----------------------------------------------------------------------------
(* The input files                                                         *)

Picture == [pts : Nat, dts : Nat, key : BOOLEAN]

Refs == 1..Len(Videos)

\* A nonempty set of naturals has a first element.
LEMMA FirstOfIs ==
  ASSUME NEW S \in SUBSET Nat, S # {}
  PROVE  FirstOf(S) \in S /\ \A y \in S : FirstOf(S) <= y
<1>1. IsWellFoundedOn(OpToRel(<, Nat), Nat)
  BY NatLessThanWellFounded
<1>2. PICK x \in S : \A y \in S : ~(<<y, x>> \in OpToRel(<, Nat))
  BY <1>1, WFMin
<1>3. \A y \in S : x <= y
  <2> SUFFICES ASSUME NEW y \in S PROVE x <= y
    OBVIOUS
  <2>1. x \in Nat /\ y \in Nat
    OBVIOUS
  <2>2. ~(y < x)
    BY <1>2, <2>1 DEF OpToRel
  <2> QED BY <2>1, <2>2
<1> QED BY <1>3 DEF FirstOf

\* What is assumed of a file.
LEMMA VideoIs ==
  ASSUME NEW ref \in Refs
  PROVE  /\ Pictures(ref) \in Seq(Picture)
         /\ Videos[ref].duration \in Nat /\ Videos[ref].increment \in Nat \ {0}
         /\ DOMAIN Pictures(ref) = 1..Len(Pictures(ref))
         /\ \A i \in DOMAIN Pictures(ref) : Pictures(ref)[i].pts < Videos[ref].duration
         /\ \E i \in DOMAIN Pictures(ref) : Pictures(ref)[i].key
<1>1. Videos[ref] \in [pictures : Seq(Picture), duration : Nat, increment : Nat \ {0}]
      /\ ref \in DOMAIN Videos
  BY SegmentsAssumption, ElementOfSeq, LenProperties DEF SegmentsAssumption, Refs, Picture
<1>2. /\ \E p \in Range(Videos[ref].pictures) : p.key
      /\ \A p \in Range(Videos[ref].pictures) : p.pts < Videos[ref].duration
  BY <1>1, SegmentsAssumption DEF SegmentsAssumption
<1> QED BY <1>1, <1>2, LenProperties DEF Pictures, Range

\* The first key picture is shown, and what is shown is a time of the file.
LEMMA ShownIs ==
  ASSUME NEW ref \in Refs
  PROVE  /\ ref \in DOMAIN ShownTimes
         /\ ShownTimes[ref] \subseteq Nat
         /\ \A pts \in ShownTimes[ref] : pts < Videos[ref].duration
         /\ FirstFramePts(ref) \in ShownTimes[ref]
<1> DEFINE keys == {i \in DOMAIN Pictures(ref) : Pictures(ref)[i].key}
           later == {Pictures(ref)[i].pts : i \in FirstKey(ref)..Len(Pictures(ref))}
<1>1. /\ Pictures(ref) \in Seq(Picture) /\ DOMAIN Pictures(ref) = 1..Len(Pictures(ref))
      /\ \A i \in DOMAIN Pictures(ref) : Pictures(ref)[i].pts < Videos[ref].duration
      /\ keys # {} /\ Len(Pictures(ref)) \in Nat
  BY VideoIs, LenProperties
<1>2. FirstKey(ref) \in keys
  <2>1. keys \in SUBSET Nat
    BY <1>1
  <2> QED BY <1>1, <2>1, FirstOfIs DEF FirstKey
<1>3. FirstKey(ref) \in 1..Len(Pictures(ref))
  BY <1>1, <1>2
<1>4. ref \in DOMAIN Videos
  BY SegmentsAssumption, LenProperties DEF SegmentsAssumption, Refs
<1>5. ref \in DOMAIN ShownTimes /\ ShownTimes[ref] = {pts \in later : pts >= FirstFramePts(ref)}
  BY <1>4 DEF ShownTimes
<1>6. ASSUME NEW pts \in later PROVE pts \in Nat /\ pts < Videos[ref].duration
  <2>1. PICK i \in FirstKey(ref)..Len(Pictures(ref)) : pts = Pictures(ref)[i].pts
    OBVIOUS
  <2>2. i \in 1..Len(Pictures(ref))
    BY <1>1, <1>3
  <2>3. Pictures(ref)[i] \in Picture
    BY <1>1, <2>2, ElementOfSeq
  <2> QED BY <1>1, <2>1, <2>2, <2>3 DEF Picture
<1>7. FirstFramePts(ref) \in later /\ FirstFramePts(ref) >= FirstFramePts(ref)
  <2>1. FirstKey(ref) \in FirstKey(ref)..Len(Pictures(ref))
    BY <1>1, <1>3
  <2>2. FirstFramePts(ref) \in later
    BY <2>1 DEF FirstFramePts
  <2> HIDE DEF later
  <2>3. FirstFramePts(ref) \in Nat
    BY <1>6, <2>2
  <2> QED BY <2>2, <2>3
<1> HIDE DEF later
<1> QED BY <1>5, <1>6, <1>7

-----------------------------------------------------------------------------
(* updateStartTime                                                         *)

\* The start of a segment is moved to the picture at it or after it, once.
LEMMA StartPtsIs ==
  ASSUME NEW ref \in Refs, NEW t \in Nat
  PROVE  /\ StartPts(ref, t) \in Nat /\ t <= StartPts(ref, t)
         /\ StartPts(ref, t) # t => StartPts(ref, t) < Videos[ref].duration
         /\ t \in ShownTimes[ref] => StartPts(ref, t) = t
         /\ StartPts(ref, StartPts(ref, t)) = StartPts(ref, t)
<1> DEFINE later(x) == {pts \in ShownTimes[ref] : pts >= x}
<1>1. ASSUME NEW x \in Nat, later(x) # {}
      PROVE  StartPts(ref, x) \in later(x) /\ \A y \in later(x) : StartPts(ref, x) <= y
  <2>1. later(x) \in SUBSET Nat
    BY ShownIs
  <2>2. StartPts(ref, x) = FirstOf(later(x))
    BY <1>1 DEF StartPts
  <2> HIDE DEF later
  <2> QED BY <1>1, <2>1, <2>2, FirstOfIs
<1>2. ASSUME NEW x \in Nat, later(x) = {} PROVE StartPts(ref, x) = x
  BY <1>2 DEF StartPts
<1>3. ASSUME NEW x \in ShownTimes[ref] PROVE x \in Nat /\ StartPts(ref, x) = x
  <2>1. x \in Nat /\ x \in later(x) /\ ShownTimes[ref] \subseteq Nat
    BY ShownIs
  <2>2. StartPts(ref, x) \in later(x) /\ StartPts(ref, x) <= x
    BY <1>1, <2>1
  <2> QED BY <2>1, <2>2
<1>4. CASE later(t) = {}
  BY <1>2, <1>3, <1>4
<1>5. CASE later(t) # {}
  <2>1. StartPts(ref, t) \in ShownTimes[ref] /\ StartPts(ref, t) >= t
    BY <1>1, <1>5
  <2> QED BY <1>3, <2>1, ShownIs
<1> QED BY <1>4, <1>5

\* The last element of a set of places.
LEMMA LastExists ==
  ASSUME NEW n \in Nat, NEW S \in SUBSET (0..n), S # {}
  PROVE  \E i \in S : \A j \in S : j <= i
<1> DEFINE T == {n - i : i \in S}
<1>1. T \in SUBSET Nat /\ T # {}
  <2>1. \A i \in S : n - i \in Nat
    <3>1. \A i \in S : i \in 0..n
      OBVIOUS
    <3> QED BY <3>1
  <2> QED BY <2>1
<1>2. FirstOf(T) \in T /\ \A k \in T : FirstOf(T) <= k
  BY <1>1, FirstOfIs
<1>3. PICK i \in S : FirstOf(T) = n - i
  BY <1>2
<1>4. ASSUME NEW j \in S PROVE j <= i
  <2>1. n - j \in T /\ i \in 0..n /\ j \in 0..n
    OBVIOUS
  <2>2. FirstOf(T) <= n - j
    BY <1>2, <2>1
  <2> QED BY <1>3, <2>1, <2>2
<1> QED BY <1>4

\* The decode time found for a picture is a time.
LEMMA StartDtsIs ==
  ASSUME NEW ref \in Refs, NEW pts \in Nat, NEW before \in Nat
  PROVE  StartDts(ref, pts, before) \in Nat
<1> DEFINE frames == {i \in DOMAIN Pictures(ref) : Pictures(ref)[i].pts = pts}
           i == FirstOf(frames)
           dated == {j \in 2..i : Pictures(ref)[j].dts # NoTime}
           from == CHOOSE j \in dated : \A k \in dated : k <= j
           known == IF dated = {} THEN (i - 1) * Videos[ref].increment - 1
                    ELSE Pictures(ref)[from].dts + (i - from) * Videos[ref].increment
<1>1. StartDts(ref, pts, before)
        = IF frames = {} THEN before
          ELSE IF i = 1 THEN IF Pictures(ref)[1].dts = NoTime THEN pts
                             ELSE Pictures(ref)[1].dts
          ELSE IF known > pts THEN before ELSE known
  BY DEF StartDts
<1>2. CASE frames = {}
  BY <1>1, <1>2
<1>3. CASE frames # {}
  <2>1. /\ Pictures(ref) \in Seq(Picture) /\ Videos[ref].increment \in Nat \ {0}
        /\ DOMAIN Pictures(ref) = 1..Len(Pictures(ref)) /\ Len(Pictures(ref)) \in Nat
    BY VideoIs, LenProperties
  <2>2. i \in 1..Len(Pictures(ref))
    <3>1. frames \in SUBSET Nat
      BY <2>1
    <3>2. i \in frames
      BY <1>3, <3>1, FirstOfIs
    <3> QED BY <2>1, <3>2
  <2> HIDE DEF frames, i
  <2>3. \A j \in 1..i : Pictures(ref)[j].dts \in Nat
    <3>1. \A j \in 1..i : j \in 1..Len(Pictures(ref))
      BY <2>1, <2>2
    <3>2. \A j \in 1..i : Pictures(ref)[j] \in Picture
      BY <2>1, <3>1, ElementOfSeq
    <3> QED BY <3>2 DEF Picture
  <2>4. CASE i = 1
    BY <1>1, <1>3, <2>3, <2>4
  <2>5. CASE i # 1
    <3>1. known \in Nat
      <4>1. CASE dated = {}
        <5>1. (i - 1) * Videos[ref].increment \in Nat \ {0}
          BY <2>1, <2>2, <2>5
        <5> QED BY <4>1, <5>1
      <4>2. CASE dated # {}
        <5>1. dated \in SUBSET (0..i) /\ i \in Nat
          BY <2>2
        <5>2. \E j \in dated : \A k \in dated : k <= j
          BY <4>2, <5>1, LastExists
        <5>3. from \in dated
          BY <5>2
        <5>4. from \in 1..i /\ i - from \in Nat
          BY <2>2, <5>3
        <5> HIDE DEF from, dated
        <5>5. (i - from) * Videos[ref].increment \in Nat
          BY <2>1, <5>4
        <5>6. Pictures(ref)[from].dts \in Nat
          BY <2>3, <5>4
        <5> QED BY <4>2, <5>5, <5>6
      <4> QED BY <4>1, <4>2
    <3> HIDE DEF known
    <3> QED BY <1>1, <1>3, <2>5, <3>1
  <2> QED BY <2>4, <2>5
<1> QED BY <1>2, <1>3

(* Segments of the first n files: within their file, starting with a       *)
(* picture, and not empty.                                                 *)
Segment == [ref : Refs, refStart : Nat, duration : Nat, start : Nat, dts : Nat]

Fitting(n) ==
  {s \in Segment : s.ref <= n /\ s.refStart + s.duration <= Videos[s.ref].duration}

Playing(n) == {s \in Fitting(n) : s.refStart \in ShownTimes[s.ref]}

Lasting(n) == {s \in Playing(n) : s.duration > 0}

Settled(s) == StartPts(s.ref, s.refStart) = s.refStart

\* What moving the start of a segment leaves.
LEMMA MoveStartIs ==
  ASSUME NEW n \in Refs, NEW s \in Fitting(n)
  PROVE  /\ MoveStart(s) \in Fitting(n) /\ Settled(MoveStart(s))
         /\ MoveStart(s).ref = s.ref
         /\ Settled(s) => MoveStart(s).refStart = s.refStart
                          /\ MoveStart(s).duration = s.duration
         /\ s \in Playing(n) => Settled(s)
<1>1. /\ s \in Segment /\ s.ref \in Refs /\ s.refStart \in Nat /\ s.duration \in Nat
      /\ s.ref <= n /\ s.refStart + s.duration <= Videos[s.ref].duration
  BY DEF Fitting, Segment
<1> DEFINE pts == StartPts(s.ref, s.refStart)
           duration == Positive(s.duration - (pts - s.refStart))
           dts == StartDts(s.ref, pts, s.refStart)
<1>2. /\ pts \in Nat /\ s.refStart <= pts
      /\ pts # s.refStart => pts < Videos[s.ref].duration
      /\ StartPts(s.ref, pts) = pts
      /\ s.refStart \in ShownTimes[s.ref] => pts = s.refStart
  BY <1>1, StartPtsIs
<1>3. dts \in Nat
  BY <1>1, <1>2, StartDtsIs
<1>4. Videos[s.ref].duration \in Nat
  BY <1>1, VideoIs
<1>5. MoveStart(s) = [s EXCEPT !.refStart = pts, !.duration = duration, !.dts = dts]
  BY <1>1 DEF MoveStart, Segment
<1> HIDE DEF pts, dts
<1>6. duration \in Nat /\ pts + duration <= Videos[s.ref].duration
      /\ (pts = s.refStart => duration = s.duration)
  BY <1>1, <1>2, <1>4 DEF Positive
<1> HIDE DEF duration
<1>7. /\ MoveStart(s) \in Segment /\ MoveStart(s).ref = s.ref
      /\ MoveStart(s).refStart = pts /\ MoveStart(s).duration = duration
  BY <1>1, <1>2, <1>3, <1>5, <1>6 DEF Segment
<1>8. MoveStart(s) \in Fitting(n)
  BY <1>1, <1>6, <1>7 DEF Fitting
<1>9. Settled(MoveStart(s))
  BY <1>2, <1>7 DEF Settled
<1>10. Settled(s) => pts = s.refStart
  BY DEF Settled, pts
<1>11. s \in Playing(n) => Settled(s)
  BY <1>2 DEF Playing, Settled, pts
<1> QED BY <1>6, <1>7, <1>8, <1>9, <1>10, <1>11

-----------------------------------------------------------------------------
(* Where the segments start                                                *)

Durations(list) == \A i \in 1..Len(list) : list[i].duration \in Nat

Adds(f, list, n) ==
  f[1] = 0 /\ \A i \in 1..n : f[i + 1] = f[i] + list[i].duration

Sums(f, list, n) == f \in [1..n + 1 -> Nat] /\ Adds(f, list, n)

LEMMA SumExtends ==
  ASSUME NEW n \in Nat, NEW list, list[n + 1].duration \in Nat, NEW g, Sums(g, list, n)
  PROVE  \E f : Sums(f, list, n + 1)
<1> DEFINE last == g[n + 1] + list[n + 1].duration
           f == [i \in 1..(n + 1) + 1 |-> IF i = n + 2 THEN last ELSE g[i]]
<1>1. g \in [1..n + 1 -> Nat] /\ g[1] = 0
  BY DEF Sums, Adds
<1>2. last \in Nat
  BY <1>1
<1> HIDE DEF last
<1>3. f \in [1..(n + 1) + 1 -> Nat] /\ f[1] = 0
  <2>1. \A i \in 1..(n + 1) + 1 : i = n + 2 \/ i \in 1..n + 1
    OBVIOUS
  <2>2. 1 \in 1..(n + 1) + 1 /\ 1 # n + 2
    OBVIOUS
  <2> QED BY <1>1, <1>2, <2>1, <2>2
<1>4. ASSUME NEW i \in 1..n + 1
      PROVE  f[i + 1] = f[i] + list[i].duration
  <2>1. i \in 1..(n + 1) + 1 /\ i + 1 \in 1..(n + 1) + 1 /\ i # n + 2
    OBVIOUS
  <2>2. f[i] = g[i]
    BY <2>1
  <2>3. CASE i = n + 1
    <3>1. f[i + 1] = last
      BY <2>1, <2>3
    <3> QED BY <2>2, <2>3, <3>1 DEF last
  <2>4. CASE i # n + 1
    <3>1. i \in 1..n /\ i + 1 # n + 2
      BY <2>4
    <3>2. f[i + 1] = g[i + 1]
      BY <2>1, <3>1
    <3> QED BY <2>2, <3>1, <3>2 DEF Sums, Adds
  <2> QED BY <2>3, <2>4
<1> HIDE DEF f
<1> QED BY <1>3, <1>4 DEF Sums, Adds

\* Two sums of the same durations are the same.
LEMMA SumsAgree ==
  ASSUME NEW n \in Nat, NEW f, NEW g, NEW list, NEW more,
         Adds(f, list, n), Adds(g, more, n),
         \A i \in 1..n : list[i].duration = more[i].duration
  PROVE  \A i \in 1..n + 1 : f[i] = g[i]
<1> DEFINE Off == {i \in 1..n + 1 : f[i] # g[i]}
<1> SUFFICES ASSUME Off # {} PROVE FALSE
  OBVIOUS
<1>1. PICK k \in Off : \A j \in Off : k <= j
  <2>1. Off \in SUBSET Nat
    OBVIOUS
  <2> HIDE DEF Off
  <2> QED BY <2>1, FirstOfIs
<1>2. k # 1
  BY <1>1 DEF Adds
<1>3. k - 1 \in 1..n /\ (k - 1) + 1 = k /\ ~(k <= k - 1) /\ k - 1 \in 1..n + 1
  BY <1>1, <1>2
<1>4. f[k - 1] = g[k - 1]
  BY <1>1, <1>3
<1>5. f[k] = g[k]
  BY <1>3, <1>4 DEF Adds
<1> QED BY <1>1, <1>5

\* The sums of the definition: they exist, and are the only ones.
LEMMA DurationBeforeIs ==
  ASSUME NEW list, Len(list) \in Nat, Durations(list)
  PROVE  Sums(DurationBefore(list), list, Len(list))
<1> DEFINE Bad == {n \in 0..Len(list) : ~\E f : Sums(f, list, n)}
<1>1. Bad = {}
  <2> SUFFICES ASSUME Bad # {} PROVE FALSE
    OBVIOUS
  <2>1. PICK n \in Bad : \A m \in Bad : n <= m
    <3>1. Bad \in SUBSET Nat
      OBVIOUS
    <3> HIDE DEF Bad
    <3> QED BY <3>1, FirstOfIs
  <2>2. CASE n = 0
    <3> DEFINE f == [i \in 1..0 + 1 |-> 0]
    <3>1. Sums(f, list, 0)
      BY DEF Sums, Adds
    <3> QED BY <2>2, <3>1
  <2>3. CASE n # 0
    <3>1. /\ n - 1 \in 0..Len(list) /\ n - 1 \in Nat /\ ~(n <= n - 1)
          /\ n \in 1..Len(list) /\ (n - 1) + 1 = n
      BY <2>3
    <3>2. PICK g : Sums(g, list, n - 1)
      BY <2>1, <3>1
    <3>3. list[(n - 1) + 1].duration \in Nat
      BY <3>1 DEF Durations
    <3>4. \E f : Sums(f, list, (n - 1) + 1)
      BY <3>1, <3>2, <3>3, SumExtends
    <3> QED BY <3>1, <3>4
  <2> QED BY <2>2, <2>3
<1>2. PICK g : Sums(g, list, Len(list))
  BY <1>1
<1> DEFINE Equation(f) ==
             f = [i \in 1..Len(list) + 1 |->
                    IF i = 1 THEN 0 ELSE f[i - 1] + list[i - 1].duration]
<1>3. Equation(g)
  <2>1. ASSUME NEW i \in 1..Len(list) + 1, i # 1
        PROVE  g[i] = g[i - 1] + list[i - 1].duration
    <3>1. i - 1 \in 1..Len(list) /\ (i - 1) + 1 = i
      BY <2>1
    <3>2. g[(i - 1) + 1] = g[i - 1] + list[i - 1].duration
      BY <1>2, <3>1 DEF Sums, Adds
    <3> QED BY <3>1, <3>2
  <2> QED BY <1>2, <2>1 DEF Sums, Adds
<1>4. DurationBefore(list) = CHOOSE f : Equation(f)
  BY DEF DurationBefore
<1>5. Equation(DurationBefore(list))
  BY <1>3, <1>4
<1> DEFINE f == DurationBefore(list)
<1> HIDE DEF f
<1>6. f[1] = 0 /\ DOMAIN f = 1..Len(list) + 1
  BY <1>5 DEF f
<1>7. ASSUME NEW i \in 1..Len(list) PROVE f[i + 1] = f[i] + list[i].duration
  <2>1. i + 1 \in 1..Len(list) + 1 /\ i + 1 # 1 /\ (i + 1) - 1 = i
    OBVIOUS
  <2> QED BY <1>5, <2>1 DEF f
<1>8. \A i \in 1..Len(list) + 1 : f[i] = g[i]
  <2>1. Adds(f, list, Len(list)) /\ Adds(g, list, Len(list))
    BY <1>2, <1>6, <1>7 DEF Sums, Adds
  <2> QED BY <2>1, SumsAgree
<1>9. f = g
  <2>1. f = [i \in 1..Len(list) + 1 |-> f[i]]
    BY <1>5 DEF f
  <2> QED BY <1>2, <1>8, <2>1 DEF Sums, Adds
<1> QED BY <1>2, <1>9 DEF f

\* A set that holds zero, and each number after one it holds, holds all.
LEMMA UpTo ==
  ASSUME NEW n \in Nat, NEW S, 0 \in S, \A k \in 1..n : k - 1 \in S => k \in S
  PROVE  \A k \in 0..n : k \in S
<1> DEFINE Bad == {k \in 0..n : k \notin S}
<1> SUFFICES ASSUME Bad # {} PROVE FALSE
  OBVIOUS
<1>1. PICK k \in Bad : \A j \in Bad : k <= j
  <2>1. Bad \in SUBSET Nat
    OBVIOUS
  <2> HIDE DEF Bad
  <2> QED BY <2>1, FirstOfIs
<1>2. k \in 1..n /\ k - 1 \in 0..n /\ ~(k <= k - 1)
  BY <1>1
<1>3. k - 1 \in S
  BY <1>1, <1>2
<1> QED BY <1>1, <1>2, <1>3

\* Where the segments start never goes back.
LEMMA SumsGrow ==
  ASSUME NEW n \in Nat, NEW f, NEW list, Len(list) = n, Durations(list), Sums(f, list, n),
         NEW i \in 1..n + 1, NEW j \in i..n + 1
  PROVE  f[i] <= f[j]
<1> DEFINE S == {k \in Nat : i + k <= n + 1 => f[i] <= f[i + k]}
<1>1. f \in [1..n + 1 -> Nat] /\ \A k \in 1..n : f[k + 1] = f[k] + list[k].duration
  BY DEF Sums, Adds
<1>2. 0 \in S
  <2>1. f[i] \in Nat /\ i + 0 = i
    BY <1>1
  <2> QED BY <2>1
<1>3. ASSUME NEW k \in 1..n, k - 1 \in S PROVE k \in S
  <2> SUFFICES ASSUME i + k <= n + 1 PROVE f[i] <= f[i + k]
    OBVIOUS
  <2> DEFINE m == i + (k - 1)
  <2>1. m \in 1..n /\ m <= n + 1 /\ m + 1 = i + k /\ m \in 1..n + 1 /\ k - 1 \in Nat
    OBVIOUS
  <2>2. f[i] <= f[m]
    BY <1>3, <2>1
  <2> HIDE DEF m
  <2>3. f[m + 1] = f[m] + list[m].duration /\ list[m].duration \in Nat
    BY <1>1, <2>1 DEF Durations
  <2>4. f[m] \in Nat /\ f[i] \in Nat
    BY <1>1, <2>1
  <2> QED BY <2>1, <2>2, <2>3, <2>4
<1>4. j - i \in 0..n /\ i + (j - i) = j /\ j <= n + 1
  OBVIOUS
<1>5. j - i \in S
  <2> HIDE DEF S
  <2> QED BY <1>2, <1>3, <1>4, UpTo
<1> QED BY <1>4, <1>5

\* Every moment before the end is in a segment.
LEMMA SumsCover ==
  ASSUME NEW n \in Nat, NEW f, NEW list, Sums(f, list, n), NEW t \in Nat, t < f[n + 1]
  PROVE  \E i \in 1..n : f[i] <= t /\ t < f[i] + list[i].duration
<1> DEFINE After == {i \in 1..n + 1 : t < f[i]}
<1>1. f \in [1..n + 1 -> Nat] /\ f[1] = 0 /\ \A k \in 1..n : f[k + 1] = f[k] + list[k].duration
  BY DEF Sums, Adds
<1>2. PICK k \in After : \A j \in After : k <= j
  <2>1. After \in SUBSET Nat /\ After # {}
    <3>1. n + 1 \in After
      OBVIOUS
    <3> QED BY <3>1
  <2> HIDE DEF After
  <2> QED BY <2>1, FirstOfIs
<1>3. k # 1
  BY <1>1, <1>2
<1>4. k - 1 \in 1..n /\ (k - 1) + 1 = k /\ ~(k <= k - 1) /\ k - 1 \in 1..n + 1
  BY <1>2, <1>3
<1>5. ~(t < f[k - 1]) /\ f[k - 1] \in Nat
  BY <1>1, <1>2, <1>4
<1>6. f[k] = f[k - 1] + list[k - 1].duration
  BY <1>1, <1>4
<1> QED BY <1>2, <1>4, <1>5, <1>6

-----------------------------------------------------------------------------
(* Sequences                                                               *)

LEMMA FunctionIsSeq ==
  ASSUME NEW S, NEW n \in Nat, NEW f \in [1..n -> S]
  PROVE  f \in Seq(S) /\ Len(f) = n
<1>1. f \in Seq(S)
  BY SeqDef
<1>2. DOMAIN f = 1..n /\ DOMAIN f = 1..Len(f) /\ Len(f) \in Nat
  BY <1>1, LenProperties
<1> QED BY <1>1, <1>2

LEMMA SeqOfElements ==
  ASSUME NEW S, NEW T, NEW f \in Seq(T), \A i \in 1..Len(f) : f[i] \in S
  PROVE  f \in Seq(S)
<1>1. f \in [1..Len(f) -> S] /\ Len(f) \in Nat
  BY LenProperties
<1> QED BY <1>1, FunctionIsSeq

-----------------------------------------------------------------------------
(* updateStartTime of a list                                               *)

Started(list) == \A i \in 1..Len(list) : list[i].start = DurationBefore(list)[i]

LEMMA FittingIs ==
  ASSUME NEW n \in Refs, NEW s \in Fitting(n)
  PROVE  /\ s \in Segment /\ s.ref \in Refs /\ s.ref <= n
         /\ s.refStart \in Nat /\ s.duration \in Nat /\ s.start \in Nat /\ s.dts \in Nat
         /\ s.refStart + s.duration <= Videos[s.ref].duration
  BY DEF Fitting, Segment

LEMMA ListIs ==
  ASSUME NEW n \in Refs, NEW list \in Seq(Fitting(n))
  PROVE  /\ Len(list) \in Nat /\ DOMAIN list = 1..Len(list)
         /\ Durations(list) /\ \A i \in 1..Len(list) : list[i] \in Fitting(n)
<1>1. Len(list) \in Nat /\ DOMAIN list = 1..Len(list)
  BY LenProperties
<1>2. \A i \in 1..Len(list) : list[i] \in Fitting(n)
  BY ElementOfSeq
<1>3. Durations(list)
  BY <1>2, FittingIs DEF Durations
<1> QED BY <1>1, <1>2, <1>3

\* The list with its segments moved: each starts where those before it end.
LEMMA UpdateStartTimeIs ==
  ASSUME NEW n \in Refs, NEW list \in Seq(Fitting(n))
  PROVE  /\ UpdateStartTime(list) \in Seq(Fitting(n))
         /\ Len(UpdateStartTime(list)) = Len(list)
         /\ Started(UpdateStartTime(list))
         /\ \A i \in 1..Len(list) :
              /\ Settled(UpdateStartTime(list)[i])
              /\ UpdateStartTime(list)[i].ref = list[i].ref
              /\ Settled(list[i]) =>
                   /\ UpdateStartTime(list)[i].refStart = list[i].refStart
                   /\ UpdateStartTime(list)[i].duration = list[i].duration
<1> DEFINE moved == [i \in DOMAIN list |-> MoveStart(list[i])]
           new == UpdateStartTime(list)
<1>1. /\ Len(list) \in Nat /\ DOMAIN list = 1..Len(list)
      /\ \A i \in 1..Len(list) : list[i] \in Fitting(n)
  BY ListIs
<1>2. \A i \in 1..Len(list) :
        /\ moved[i] \in Fitting(n) /\ Settled(moved[i]) /\ moved[i].ref = list[i].ref
        /\ Settled(list[i]) => moved[i].refStart = list[i].refStart
                               /\ moved[i].duration = list[i].duration
  BY <1>1, MoveStartIs
<1>3. moved \in Seq(Fitting(n)) /\ Len(moved) = Len(list)
  <2>1. moved \in [1..Len(list) -> Fitting(n)]
    BY <1>1, <1>2
  <2> HIDE DEF moved
  <2> QED BY <1>1, <2>1, FunctionIsSeq
<1>4. new = [i \in DOMAIN list |-> [moved[i] EXCEPT !.start = DurationBefore(moved)[i]]]
  BY DEF UpdateStartTime
<1> HIDE DEF moved, new
<1>5. Sums(DurationBefore(moved), moved, Len(list))
  BY <1>1, <1>3, ListIs, DurationBeforeIs
<1>6. ASSUME NEW i \in 1..Len(list)
      PROVE  /\ new[i] \in Fitting(n) /\ new[i].start = DurationBefore(moved)[i]
             /\ new[i].ref = moved[i].ref /\ new[i].refStart = moved[i].refStart
             /\ new[i].duration = moved[i].duration
  <2>1. new[i] = [moved[i] EXCEPT !.start = DurationBefore(moved)[i]]
    BY <1>1, <1>4
  <2>2. DurationBefore(moved)[i] \in Nat
    BY <1>1, <1>5 DEF Sums, Adds
  <2>3. moved[i] \in Fitting(n)
    BY <1>2
  <2> QED BY <2>1, <2>2, <2>3 DEF Fitting, Segment
<1>7. new \in Seq(Fitting(n)) /\ Len(new) = Len(list)
  <2>1. new \in [1..Len(list) -> Fitting(n)]
    BY <1>1, <1>4, <1>6
  <2> QED BY <1>1, <2>1, FunctionIsSeq
<1>8. Started(new)
  <2>1. Sums(DurationBefore(new), new, Len(list))
    BY <1>1, <1>7, ListIs, DurationBeforeIs
  <2>2. \A i \in 1..Len(list) + 1 : DurationBefore(new)[i] = DurationBefore(moved)[i]
    <3>1. \A i \in 1..Len(list) : new[i].duration = moved[i].duration
      BY <1>6
    <3>2. /\ Adds(DurationBefore(new), new, Len(list))
          /\ Adds(DurationBefore(moved), moved, Len(list))
      BY <1>5, <2>1 DEF Sums
    <3> QED BY <1>1, <3>1, <3>2, SumsAgree
  <2> QED BY <1>1, <1>6, <1>7, <2>2 DEF Started
<1>9. \A i \in 1..Len(list) :
        /\ Settled(new[i]) /\ new[i].ref = list[i].ref
        /\ Settled(list[i]) => new[i].refStart = list[i].refStart
                               /\ new[i].duration = list[i].duration
  BY <1>2, <1>6 DEF Settled
<1> QED BY <1>7, <1>8, <1>9 DEF new

\* Segments that start with a picture keep their start and their duration.
LEMMA UpdateStartTimeKeeps ==
  ASSUME NEW n \in Refs, NEW list \in Seq(Playing(n))
  PROVE  /\ list \in Seq(Fitting(n))
         /\ UpdateStartTime(list) \in Seq(Playing(n))
         /\ list \in Seq(Lasting(n)) => UpdateStartTime(list) \in Seq(Lasting(n))
         /\ \A i \in 1..Len(list) :
              UpdateStartTime(list)[i].duration = list[i].duration
<1> DEFINE new == UpdateStartTime(list)
<1>1. list \in Seq(Fitting(n)) /\ \A i \in 1..Len(list) : list[i] \in Playing(n)
  <2>1. Playing(n) \subseteq Fitting(n)
    BY DEF Playing
  <2> QED BY <2>1, ElementOfSeq, SeqMonotonic
<1>2. \A i \in 1..Len(list) : Settled(list[i])
  BY <1>1, MoveStartIs DEF Playing
<1>3. /\ new \in Seq(Fitting(n)) /\ Len(new) = Len(list)
      /\ \A i \in 1..Len(list) : /\ new[i].ref = list[i].ref
                                 /\ new[i].refStart = list[i].refStart
                                 /\ new[i].duration = list[i].duration
  BY <1>1, <1>2, UpdateStartTimeIs
<1> HIDE DEF new
<1>4. \A i \in 1..Len(new) : new[i] \in Fitting(n)
  BY <1>3, ListIs
<1>5. \A i \in 1..Len(new) : new[i] \in Playing(n)
  BY <1>1, <1>3, <1>4 DEF Playing
<1>7. new \in Seq(Playing(n))
  BY <1>3, <1>5, SeqOfElements
<1>8. ASSUME list \in Seq(Lasting(n)) PROVE new \in Seq(Lasting(n))
  <2>1. \A i \in 1..Len(list) : list[i].duration > 0
    BY <1>8, ElementOfSeq DEF Lasting
  <2>2. \A i \in 1..Len(new) : new[i] \in Lasting(n)
    BY <1>3, <1>5, <2>1 DEF Lasting
  <2> QED BY <1>3, <2>2, SeqOfElements
<1> QED BY <1>1, <1>3, <1>7, <1>8 DEF new

-----------------------------------------------------------------------------
(* Removing the empty segments and joining the continuous ones             *)

Stepping(step, n, S) == step \in [1..n -> [S -> S]]

Steps(f, n, S, first, step) ==
  /\ f \in [0..n -> S] /\ f[0] = first
  /\ \A k \in 1..n : f[k] = step[k][f[k - 1]]

\* Steps taken one after the other, from a first value, have results.
LEMMA StepsExist ==
  ASSUME NEW n \in Nat, NEW S, NEW first \in S, NEW step, Stepping(step, n, S)
  PROVE  \E f : Steps(f, n, S, first, step)
<1> DEFINE Taken(f, m) == f[0] = first /\ \A k \in 1..m : f[k] = step[k][f[k - 1]]
           T == {m \in 0..n : \E f \in [0..m -> S] : Taken(f, m)}
<1>1. 0 \in T
  <2> DEFINE f == [k \in 0..0 |-> first]
  <2>1. f \in [0..0 -> S] /\ f[0] = first
    OBVIOUS
  <2> HIDE DEF f
  <2>2. Taken(f, 0)
    BY <2>1
  <2>3. 0 \in 0..n /\ \E h \in [0..0 -> S] : Taken(h, 0)
    BY <2>1, <2>2
  <2> HIDE DEF Taken
  <2> QED BY <2>3
<1>2. ASSUME NEW m \in 1..n, m - 1 \in T PROVE m \in T
  <2>1. PICK g \in [0..m - 1 -> S] : Taken(g, m - 1)
    BY <1>2
  <2>2. m - 1 \in 0..m - 1 /\ g[m - 1] \in S
    BY <2>1
  <2> DEFINE last == step[m][g[m - 1]]
             f == [k \in 0..m |-> IF k = m THEN last ELSE g[k]]
  <2>3. last \in S
    <3>1. step[m] \in [S -> S]
      BY <1>2 DEF Stepping
    <3> QED BY <2>2, <3>1
  <2> HIDE DEF last
  <2>4. f \in [0..m -> S]
    <3>1. \A k \in 0..m : k = m \/ k \in 0..m - 1
      OBVIOUS
    <3> QED BY <2>1, <2>3, <3>1
  <2>5. f[0] = first /\ f[m] = last /\ \A k \in 1..m - 1 : f[k] = g[k]
    <3>1. 0 \in 0..m /\ m \in 0..m /\ 0 # m /\ \A k \in 1..m - 1 : k \in 0..m /\ k # m
      OBVIOUS
    <3> QED BY <2>1, <3>1
  <2>6. \A k \in 1..m : f[k - 1] = g[k - 1]
    <3>1. \A k \in 1..m : k - 1 \in 0..m /\ k - 1 # m
      OBVIOUS
    <3> QED BY <3>1
  <2> HIDE DEF f
  <2>7. ASSUME NEW k \in 1..m PROVE f[k] = step[k][f[k - 1]]
    <3>1. CASE k = m
      BY <2>5, <2>6, <3>1 DEF last
    <3>2. CASE k # m
      <4>1. k \in 1..m - 1
        BY <3>2
      <4> QED BY <2>1, <2>5, <2>6, <4>1
    <3> QED BY <3>1, <3>2
  <2>8. m \in 0..n /\ Taken(f, m)
    BY <2>5, <2>7
  <2> QED BY <2>4, <2>8
<1>3. n \in T
  <2> HIDE DEF T
  <2>1. n \in 0..n
    OBVIOUS
  <2> QED BY <1>1, <1>2, <2>1, UpTo
<1> QED BY <1>3 DEF Steps

Lively(list) == \E i \in 1..Len(list) : list[i].duration > 0

LEMMA AppendLively ==
  ASSUME NEW S, NEW list \in Seq(S), NEW s \in S, Lively(list) \/ s.duration > 0
  PROVE  Lively(Append(list, s))
<1> DEFINE more == Append(list, s)
<1>1. /\ Len(more) = Len(list) + 1 /\ Len(list) \in Nat /\ more[Len(list) + 1] = s
      /\ \A i \in 1..Len(list) : more[i] = list[i]
  BY AppendProperties, LenProperties
<1> HIDE DEF more
<1>2. CASE s.duration > 0
  BY <1>1, <1>2 DEF Lively, more
<1>3. CASE Lively(list)
  <2>1. PICK i \in 1..Len(list) : list[i].duration > 0
    BY <1>3 DEF Lively
  <2>2. i \in 1..Len(more) /\ more[i].duration > 0
    BY <1>1, <2>1
  <2> QED BY <2>2 DEF Lively, more
<1> QED BY <1>2, <1>3

\* The function it is defined by.
LEMMA RemoveEmptySegmentsSteps ==
  ASSUME NEW Good, NEW list \in Seq(Good), \A s \in Good : s.duration \in Nat
  PROVE  \E kept :
           /\ kept[0] = <<>> /\ kept[Len(list)] = RemoveEmptySegments(list)
           /\ \A k \in 1..Len(list) :
                kept[k] = IF list[k].duration = 0 THEN kept[k - 1]
                          ELSE Append(kept[k - 1], list[k])
<1> DEFINE Full == {s \in Good : s.duration > 0}
           n == Len(list)
           Step(before, k) == IF list[k].duration = 0 THEN before ELSE Append(before, list[k])
           Equation(f) == f = [k \in 0..n |->
             IF k = 0 THEN <<>>
             ELSE IF list[k].duration = 0 THEN f[k - 1] ELSE Append(f[k - 1], list[k])]
           kept == CHOOSE f : Equation(f)
<1>1. n \in Nat /\ \A k \in 1..n : list[k] \in Good
  BY LenProperties, ElementOfSeq
<1>2. ASSUME NEW before \in Seq(Full), NEW k \in 1..n PROVE Step(before, k) \in Seq(Full)
  <2>1. list[k].duration # 0 => list[k] \in Full
    BY <1>1
  <2> HIDE DEF Full
  <2> QED BY <2>1, AppendProperties
<1>3. Equation(kept)
  <2> DEFINE step == [k \in 1..n |-> [before \in Seq(Full) |-> Step(before, k)]]
  <2> HIDE DEF Full
  <2>1. <<>> \in Seq(Full)
    BY EmptySeq
  <2>2. Stepping(step, n, Seq(Full))
    <3> HIDE DEF Step
    <3> QED BY <1>2 DEF Stepping
  <2> HIDE DEF n, step
  <2>3. PICK f : Steps(f, n, Seq(Full), <<>>, step)
    BY <1>1, <2>1, <2>2, StepsExist
  <2>4. f \in [0..n -> Seq(Full)] /\ f[0] = <<>>
    BY <2>3 DEF Steps
  <2>5. ASSUME NEW k \in 1..n PROVE f[k] = Step(f[k - 1], k)
    <3>1. k - 1 \in 0..n
      BY <1>1
    <3>2. f[k - 1] \in Seq(Full)
      BY <2>4, <3>1
    <3>3. step[k][f[k - 1]] = Step(f[k - 1], k)
      <4> HIDE DEF Step
      <4> QED BY <3>2 DEF step
    <3> HIDE DEF Step
    <3> QED BY <2>3, <3>3 DEF Steps
  <2>6. Equation(f)
    <3>1. \A k \in 0..n : k # 0 => k \in 1..n
      BY <1>1
    <3> QED BY <2>4, <2>5, <3>1
  <2> HIDE DEF Equation
  <2> QED BY <2>6
<1>4. RemoveEmptySegments(list) = kept[n]
  BY DEF RemoveEmptySegments
<1> HIDE DEF kept
<1>5. kept[0] = <<>> /\ \A k \in 1..n : kept[k] = Step(kept[k - 1], k)
  <2>1. 0 \in 0..n /\ \A k \in 1..n : k \in 0..n /\ k # 0
    BY <1>1
  <2> HIDE DEF n
  <2> QED BY <1>3, <2>1
<1> HIDE DEF Equation
<1> QED BY <1>4, <1>5

\* What is left are the segments that are not empty, if there are any.
LEMMA RemoveEmptySegmentsIs ==
  ASSUME NEW Good, NEW list \in Seq(Good), \A s \in Good : s.duration \in Nat
  PROVE  /\ RemoveEmptySegments(list) \in Seq({s \in Good : s.duration > 0})
         /\ Lively(list) => Lively(RemoveEmptySegments(list))
<1> DEFINE Full == {s \in Good : s.duration > 0}
           n == Len(list)
           Step(before, k) == IF list[k].duration = 0 THEN before ELSE Append(before, list[k])
<1>1. n \in Nat /\ \A k \in 1..n : list[k] \in Good
  BY LenProperties, ElementOfSeq
<1>2. ASSUME NEW before \in Seq(Full), NEW k \in 1..n PROVE Step(before, k) \in Seq(Full)
  <2>1. list[k].duration # 0 => list[k] \in Full
    BY <1>1
  <2> HIDE DEF Full
  <2> QED BY <2>1, AppendProperties
<1>3. PICK kept : /\ kept[0] = <<>> /\ kept[n] = RemoveEmptySegments(list)
                  /\ \A k \in 1..n : kept[k] = Step(kept[k - 1], k)
  BY RemoveEmptySegmentsSteps
<1> HIDE DEF n
<1> DEFINE T == {k \in 0..n :
                   /\ kept[k] \in Seq(Full)
                   /\ (\E i \in 1..k : list[i].duration > 0) => Lively(kept[k])}
<1>6. 0 \in T
  <2>1. 0 \in 0..n /\ kept[0] \in Seq(Full)
    BY <1>1, <1>3, EmptySeq
  <2>2. ~\E i \in 1..0 : list[i].duration > 0
    OBVIOUS
  <2> QED BY <2>1, <2>2
<1>7. ASSUME NEW k \in 1..n, k - 1 \in T PROVE k \in T
  <2>1. /\ k \in 0..n /\ kept[k - 1] \in Seq(Full)
        /\ (\E i \in 1..k - 1 : list[i].duration > 0) => Lively(kept[k - 1])
    BY <1>1, <1>7
  <2>2. kept[k] \in Seq(Full)
    <3> HIDE DEF Step, Full
    <3> QED BY <1>2, <1>3, <2>1
  <2>3. ASSUME NEW i \in 1..k, list[i].duration > 0 PROVE Lively(kept[k])
    <3>1. CASE list[k].duration = 0
      <4>1. i \in 1..k - 1
        BY <2>3, <3>1
      <4> QED BY <1>3, <2>1, <2>3, <3>1, <4>1
    <3>2. CASE list[k].duration # 0
      <4>1. list[k] \in Full /\ list[k].duration > 0
        BY <1>1, <3>2
      <4>2. kept[k] = Append(kept[k - 1], list[k])
        BY <1>3, <3>2
      <4> HIDE DEF Full
      <4> QED BY <2>1, <4>1, <4>2, AppendLively
    <3> QED BY <3>1, <3>2
  <2> QED BY <2>1, <2>2, <2>3
<1>8. n \in T
  <2>1. n \in 0..n
    BY <1>1
  <2> HIDE DEF T
  <2> QED BY <1>1, <1>6, <1>7, <2>1, UpTo
<1> QED BY <1>3, <1>8 DEF Lively, n

\* Good segments, joined when continuous, are good.
Closed(Good) ==
  /\ Good \subseteq Segment
  /\ \A s \in Good, t \in Good :
       Continuous(s, t) => [s EXCEPT !.duration = @ + t.duration] \in Good

LEMMA JoinIs ==
  ASSUME NEW Good, Closed(Good), NEW done \in Seq(Good), NEW s \in Good
  PROVE  /\ Join(done, s) \in Seq(Good) /\ Join(done, s) # <<>>
         /\ Lively(done) \/ s.duration > 0 => Lively(Join(done, s))
<1>1. CASE done # <<>> /\ Continuous(Last(done), s)
  <2> DEFINE n == Len(done)
             t == [done[n] EXCEPT !.duration = @ + s.duration]
             new == [done EXCEPT ![n] = t]
  <2>1. n \in Nat /\ n # 0 /\ n \in 1..n /\ done[n] \in Good /\ DOMAIN done = 1..n
    BY <1>1, EmptySeq, LenProperties, ElementOfSeq
  <2>2. Last(done) = done[n]
    BY DEF Last
  <2>3. t \in Good
    BY <1>1, <2>1, <2>2 DEF Closed
  <2>4. s \in Segment /\ done[n] \in Segment
    BY <2>1 DEF Closed
  <2>5. t.duration = done[n].duration + s.duration
        /\ done[n].duration \in Nat /\ s.duration \in Nat
    BY <2>4 DEF Segment
  <2>6. Join(done, s) = new
    BY <1>1 DEF Join
  <2> HIDE DEF t
  <2>7. /\ new \in Seq(Good) /\ Len(new) = n
        /\ \A j \in 1..n : new[j] = IF j = n THEN t ELSE done[j]
    BY <2>1, <2>3, ExceptSeq
  <2> HIDE DEF new
  <2>8. new # <<>>
    BY <2>1, <2>7, EmptySeq
  <2>9. ASSUME Lively(done) \/ s.duration > 0 PROVE Lively(new)
    <3>1. CASE s.duration > 0
      <4>1. t.duration > 0
        BY <2>5, <3>1
      <4>2. n \in 1..Len(new) /\ new[n] = t
        BY <2>1, <2>7
      <4> QED BY <4>1, <4>2 DEF Lively
    <3>2. CASE Lively(done)
      <4>1. PICK i \in 1..n : done[i].duration > 0
        BY <3>2 DEF Lively
      <4>2. i \in 1..Len(new) /\ new[i].duration > 0
        BY <2>5, <2>7, <4>1
      <4> QED BY <4>2 DEF Lively
    <3> QED BY <2>9, <3>1, <3>2
  <2> QED BY <2>6, <2>7, <2>8, <2>9
<1>2. CASE ~(done # <<>> /\ Continuous(Last(done), s))
  <2>1. Join(done, s) = Append(done, s)
    BY <1>2 DEF Join
  <2> QED BY <2>1, AppendProperties, AppendLively
<1> QED BY <1>1, <1>2

\* The function it is defined by.
LEMMA MergeContinuousSegmentsSteps ==
  ASSUME NEW Good, Closed(Good), NEW list \in Seq(Good)
  PROVE  \E done :
           /\ done[0] = <<>> /\ done[Len(list)] = MergeContinuousSegments(list)
           /\ \A k \in 1..Len(list) : done[k] = Join(done[k - 1], list[k])
<1> DEFINE n == Len(list)
           Equation(f) == f = [k \in 0..n |->
             IF k = 0 THEN <<>> ELSE Join(f[k - 1], list[k])]
           done == CHOOSE f : Equation(f)
<1>1. n \in Nat /\ \A k \in 1..n : list[k] \in Good
  BY LenProperties, ElementOfSeq
<1>2. ASSUME NEW before \in Seq(Good), NEW k \in 1..n
      PROVE  Join(before, list[k]) \in Seq(Good)
  BY <1>1, JoinIs
<1>3. Equation(done)
  <2> DEFINE step == [k \in 1..n |-> [before \in Seq(Good) |-> Join(before, list[k])]]
  <2>1. <<>> \in Seq(Good)
    BY EmptySeq
  <2>2. Stepping(step, n, Seq(Good))
    BY <1>2 DEF Stepping
  <2> HIDE DEF n, step
  <2>3. PICK f : Steps(f, n, Seq(Good), <<>>, step)
    BY <1>1, <2>1, <2>2, StepsExist
  <2>4. f \in [0..n -> Seq(Good)] /\ f[0] = <<>>
    BY <2>3 DEF Steps
  <2>5. ASSUME NEW k \in 1..n PROVE f[k] = Join(f[k - 1], list[k])
    <3>1. k - 1 \in 0..n
      BY <1>1
    <3>2. f[k - 1] \in Seq(Good)
      BY <2>4, <3>1
    <3>3. step[k][f[k - 1]] = Join(f[k - 1], list[k])
      BY <3>2 DEF step
    <3> QED BY <2>3, <3>3 DEF Steps
  <2>6. Equation(f)
    <3>1. \A k \in 0..n : k # 0 => k \in 1..n
      BY <1>1
    <3> QED BY <2>4, <2>5, <3>1
  <2> HIDE DEF Equation
  <2> QED BY <2>6
<1>4. MergeContinuousSegments(list) = done[n]
  BY DEF MergeContinuousSegments
<1> HIDE DEF done
<1>5. done[0] = <<>> /\ \A k \in 1..n : done[k] = Join(done[k - 1], list[k])
  <2>1. 0 \in 0..n /\ \A k \in 1..n : k \in 0..n /\ k # 0
    BY <1>1
  <2> HIDE DEF n
  <2> QED BY <1>3, <2>1
<1> HIDE DEF Equation
<1> QED BY <1>4, <1>5

\* What is joined is as good as what it is made of, and shows as much.
LEMMA MergeContinuousSegmentsIs ==
  ASSUME NEW Good, Closed(Good), NEW list \in Seq(Good)
  PROVE  /\ MergeContinuousSegments(list) \in Seq(Good)
         /\ Lively(list) => Lively(MergeContinuousSegments(list))
<1> DEFINE n == Len(list)
<1>1. n \in Nat /\ \A k \in 1..n : list[k] \in Good
  BY LenProperties, ElementOfSeq
<1>2. PICK done : /\ done[0] = <<>> /\ done[n] = MergeContinuousSegments(list)
                  /\ \A k \in 1..n : done[k] = Join(done[k - 1], list[k])
  BY MergeContinuousSegmentsSteps
<1> HIDE DEF n
<1> DEFINE T == {k \in 0..n :
                   /\ done[k] \in Seq(Good)
                   /\ (\E i \in 1..k : list[i].duration > 0) => Lively(done[k])}
<1>6. 0 \in T
  <2>1. 0 \in 0..n /\ done[0] \in Seq(Good)
    BY <1>1, <1>2, EmptySeq
  <2>2. ~\E i \in 1..0 : list[i].duration > 0
    OBVIOUS
  <2> QED BY <2>1, <2>2
<1>7. ASSUME NEW k \in 1..n, k - 1 \in T PROVE k \in T
  <2>1. /\ k \in 0..n /\ done[k - 1] \in Seq(Good)
        /\ (\E i \in 1..k - 1 : list[i].duration > 0) => Lively(done[k - 1])
    BY <1>1, <1>7
  <2>2. /\ done[k] \in Seq(Good)
        /\ Lively(done[k - 1]) \/ list[k].duration > 0 => Lively(done[k])
    BY <1>1, <1>2, <2>1, JoinIs
  <2>3. ASSUME NEW i \in 1..k, list[i].duration > 0 PROVE Lively(done[k])
    <3>1. CASE i = k
      BY <2>2, <2>3, <3>1
    <3>2. CASE i # k
      <4>1. i \in 1..k - 1
        BY <3>2
      <4> QED BY <2>1, <2>2, <2>3, <4>1
    <3> QED BY <3>1, <3>2
  <2> QED BY <2>1, <2>2, <2>3
<1>8. n \in T
  <2>1. n \in 0..n
    BY <1>1
  <2> HIDE DEF T
  <2> QED BY <1>1, <1>6, <1>7, <2>1, UpTo
<1> QED BY <1>2, <1>8 DEF Lively, n

LEMMA ClosedFitting ==
  ASSUME NEW n \in Refs
  PROVE  Closed(Fitting(n)) /\ Closed(Playing(n)) /\ Closed(Lasting(n))
<1>1. Fitting(n) \subseteq Segment /\ Playing(n) \subseteq Fitting(n)
      /\ Lasting(n) \subseteq Playing(n)
  BY DEF Fitting, Playing, Lasting
<1>2. ASSUME NEW s \in Fitting(n), NEW t \in Fitting(n), Continuous(s, t)
      PROVE  LET u == [s EXCEPT !.duration = @ + t.duration] IN
               /\ u \in Fitting(n) /\ u.ref = s.ref /\ u.refStart = s.refStart
               /\ u.duration = s.duration + t.duration
  <2> DEFINE u == [s EXCEPT !.duration = @ + t.duration]
  <2>1. /\ s \in Segment /\ s.ref <= n /\ s.duration \in Nat /\ t.duration \in Nat
        /\ s.refStart \in Nat /\ t.refStart + t.duration <= Videos[t.ref].duration
        /\ s.ref = t.ref /\ s.refStart + s.duration = t.refStart
    BY <1>2, FittingIs DEF Continuous
  <2>2. /\ u \in Segment /\ u.ref = s.ref /\ u.refStart = s.refStart
        /\ u.duration = s.duration + t.duration
    BY <2>1 DEF Segment
  <2> HIDE DEF u
  <2>3. u.refStart + u.duration <= Videos[u.ref].duration
    BY <2>1, <2>2
  <2> QED BY <2>1, <2>2, <2>3 DEF Fitting, u
<1>3. ASSUME NEW s \in Playing(n), NEW t \in Playing(n), Continuous(s, t)
      PROVE  [s EXCEPT !.duration = @ + t.duration] \in Playing(n)
  BY <1>1, <1>2, <1>3 DEF Playing
<1>4. ASSUME NEW s \in Lasting(n), NEW t \in Lasting(n), Continuous(s, t)
      PROVE  [s EXCEPT !.duration = @ + t.duration] \in Lasting(n)
  <2>1. s \in Fitting(n) /\ t \in Fitting(n) /\ s.duration > 0 /\ t.duration \in Nat
        /\ s.duration \in Nat /\ s \in Playing(n) /\ t \in Playing(n)
    BY <1>1, FittingIs DEF Lasting
  <2>2. [s EXCEPT !.duration = @ + t.duration] \in Playing(n)
    BY <1>3, <1>4, <2>1
  <2> DEFINE u == [s EXCEPT !.duration = @ + t.duration]
  <2>3. u.duration = s.duration + t.duration
    BY <1>2, <1>4, <2>1
  <2> HIDE DEF u
  <2>4. u.duration > 0
    BY <2>1, <2>3
  <2> QED BY <2>2, <2>4 DEF Lasting, u
<1> QED BY <1>1, <1>2, <1>3, <1>4 DEF Closed

\* Segments that start with a picture unless they are empty.
Clean(n) == {s \in Fitting(n) : s.duration # 0 => s.refStart \in ShownTimes[s.ref]}

\* A list that settles: what it shows, and where, is what its segments say.
Listed(list, n) ==
  /\ list \in Seq(Fitting(n)) /\ Started(list)
  /\ \A i \in 1..Len(list) : Settled(list[i])

LEMMA UpdatedListed ==
  ASSUME NEW n \in Refs, NEW list \in Seq(Fitting(n))
  PROVE  Listed(UpdateStartTime(list), n)
  BY UpdateStartTimeIs DEF Listed

LEMMA UpdatedLively ==
  ASSUME NEW n \in Refs, NEW list \in Seq(Playing(n)), Lively(list)
  PROVE  Lively(UpdateStartTime(list))
<1>1. list \in Seq(Fitting(n))
      /\ \A i \in 1..Len(list) : UpdateStartTime(list)[i].duration = list[i].duration
  BY UpdateStartTimeKeeps
<1>2. Len(UpdateStartTime(list)) = Len(list)
  BY <1>1, UpdateStartTimeIs
<1> QED BY <1>1, <1>2 DEF Lively

LEMMA TidyIs ==
  ASSUME NEW n \in Refs, NEW list \in Seq(Fitting(n))
  PROVE  /\ Listed(Tidy(list), n)
         /\ list \in Seq(Clean(n)) =>
              /\ Tidy(list) \in Seq(Lasting(n))
              /\ Lively(list) => Lively(Tidy(list))
<1> DEFINE some == RemoveEmptySegments(list)
           few == MergeContinuousSegments(some)
<1>1. Tidy(list) = UpdateStartTime(few)
  BY DEF Tidy
<1>2. Listed(Tidy(list), n)
  <2>1. \A s \in Fitting(n) : s.duration \in Nat
    BY FittingIs
  <2>2. some \in Seq({s \in Fitting(n) : s.duration > 0})
    BY <2>1, RemoveEmptySegmentsIs
  <2>3. some \in Seq(Fitting(n))
    BY <2>2, SeqMonotonic
  <2> HIDE DEF some
  <2>4. few \in Seq(Fitting(n))
    BY <2>3, ClosedFitting, MergeContinuousSegmentsIs
  <2> HIDE DEF few
  <2> QED BY <1>1, <2>4, UpdatedListed
<1>3. ASSUME list \in Seq(Clean(n))
      PROVE  /\ Tidy(list) \in Seq(Lasting(n))
             /\ Lively(list) => Lively(Tidy(list))
  <2>1. \A s \in Clean(n) : s.duration \in Nat
    BY FittingIs DEF Clean
  <2>2. some \in Seq({s \in Clean(n) : s.duration > 0}) /\ (Lively(list) => Lively(some))
    BY <1>3, <2>1, RemoveEmptySegmentsIs
  <2>3. {s \in Clean(n) : s.duration > 0} \subseteq Lasting(n)
    BY DEF Clean, Lasting, Playing
  <2> HIDE DEF some
  <2>4. some \in Seq(Lasting(n))
    BY <2>2, <2>3, SeqMonotonic
  <2>5. few \in Seq(Lasting(n)) /\ (Lively(some) => Lively(few))
    BY <2>4, ClosedFitting, MergeContinuousSegmentsIs
  <2> HIDE DEF few
  <2>6. few \in Seq(Playing(n))
    <3>1. Lasting(n) \subseteq Playing(n)
      BY DEF Lasting
    <3> QED BY <2>5, <3>1, SeqMonotonic
  <2>7. UpdateStartTime(few) \in Seq(Lasting(n))
    BY <2>5, <2>6, UpdateStartTimeKeeps
  <2>8. Lively(few) => Lively(UpdateStartTime(few))
    BY <2>6, UpdatedLively
  <2> QED BY <1>1, <2>2, <2>5, <2>7, <2>8
<1> QED BY <1>2, <1>3

-----------------------------------------------------------------------------
(* The segment a moment of the film is in                                  *)

\* The segments follow each other up to the end.
LEMMA PlacesAre ==
  ASSUME NEW n \in Refs, Listed(segments, n)
  PROVE  /\ Len(segments) \in Nat /\ DOMAIN segments = 1..Len(segments)
         /\ GetTotalDuration(segments) \in Nat
         /\ \A i \in 1..Len(segments) :
              /\ segments[i] \in Fitting(n)
              /\ EndOf(segments[i]) <= GetTotalDuration(segments)
              /\ \A k \in 1..Len(segments) : i < k => EndOf(segments[i]) <= segments[k].start
         /\ Len(segments) # 0 =>
              EndOf(segments[Len(segments)]) = GetTotalDuration(segments)
         /\ \A t \in Nat : t < GetTotalDuration(segments) =>
              \E i \in 1..Len(segments) : segments[i].start <= t /\ t < EndOf(segments[i])
<1> DEFINE d == DurationBefore(segments)
           n2 == Len(segments)
<1>1. /\ n2 \in Nat /\ DOMAIN segments = 1..n2 /\ Durations(segments)
      /\ \A i \in 1..n2 : segments[i] \in Fitting(n)
  BY ListIs DEF Listed
<1>2. Sums(d, segments, n2)
  BY <1>1, DurationBeforeIs
<1>3. GetTotalDuration(segments) = d[n2 + 1] /\ \A i \in 1..n2 : segments[i].start = d[i]
  BY DEF GetTotalDuration, Listed, Started
<1> HIDE DEF d
<1>4. d \in [1..n2 + 1 -> Nat] /\ \A i \in 1..n2 : d[i + 1] = d[i] + segments[i].duration
  BY <1>2 DEF Sums, Adds
<1>5. \A i \in 1..n2 : EndOf(segments[i]) = d[i + 1]
  BY <1>3, <1>4 DEF EndOf
<1>6. n2 + 1 \in 1..n2 + 1 /\ d[n2 + 1] \in Nat
  BY <1>1, <1>4
<1>7. ASSUME NEW i \in 1..n2
      PROVE  /\ d[i + 1] <= d[n2 + 1]
             /\ \A k \in 1..n2 : i < k => d[i + 1] <= d[k]
  <2>1. /\ i + 1 \in 1..n2 + 1 /\ n2 + 1 \in (i + 1)..n2 + 1
        /\ \A k \in 1..n2 : i < k => k \in (i + 1)..n2 + 1
    BY <1>1
  <2> QED BY <1>1, <1>2, <2>1, SumsGrow
<1>8. ASSUME NEW t \in Nat, t < d[n2 + 1]
      PROVE  \E i \in 1..n2 : segments[i].start <= t /\ t < EndOf(segments[i])
  <2>1. PICK i \in 1..n2 : d[i] <= t /\ t < d[i] + segments[i].duration
    BY <1>1, <1>2, <1>8, SumsCover
  <2> QED BY <1>3, <1>4, <1>5, <2>1
<1>9. n2 # 0 => EndOf(segments[n2]) = d[n2 + 1]
  BY <1>1, <1>5
<1> HIDE DEF n2
<1> QED BY <1>1, <1>3, <1>5, <1>6, <1>7, <1>8, <1>9 DEF n2

\* A moment is in one segment at most, and in one if it is before the end.
LEMMA SegmentsAtIs ==
  ASSUME NEW n \in Refs, Listed(segments, n), NEW t \in Nat
  PROVE  /\ \A i \in 1..Len(segments) :
              segments[i].start <= t /\ t < EndOf(segments[i]) =>
                SegmentsAt(t) # {} /\ SegmentAt(t) = i
         /\ SegmentsAt(t) # {} =>
              /\ SegmentAt(t) \in 1..Len(segments)
              /\ segments[SegmentAt(t)].start <= t /\ t < EndOf(segments[SegmentAt(t)])
         /\ SegmentsAt(t) # {} <=> t < GetTotalDuration(segments)
<1> DEFINE total == GetTotalDuration(segments)
           Holds(i) == segments[i].start <= t /\ t < EndOf(segments[i])
<1>1. /\ Len(segments) \in Nat /\ DOMAIN segments = 1..Len(segments) /\ total \in Nat
      /\ \A i \in 1..Len(segments) :
           /\ segments[i] \in Fitting(n) /\ EndOf(segments[i]) <= total
           /\ \A k \in 1..Len(segments) : i < k => EndOf(segments[i]) <= segments[k].start
      /\ t < total => \E i \in 1..Len(segments) : Holds(i)
  BY PlacesAre
<1>2. \A i \in 1..Len(segments) :
        /\ segments[i].start \in Nat /\ segments[i].duration \in Nat
        /\ EndOf(segments[i]) = segments[i].start + segments[i].duration
        /\ EndOf(segments[i]) \in Nat
  BY <1>1, FittingIs DEF EndOf
<1> HIDE DEF total
<1>3. ASSUME NEW i \in 1..Len(segments), Holds(i) PROVE SegmentsAt(t) = {i}
  <2>1. ASSUME NEW j \in 1..i - 1 PROVE segments[j].start <= t
    <3>1. j \in 1..Len(segments) /\ j < i
      BY <1>1
    <3>2. EndOf(segments[j]) <= segments[i].start
      BY <1>1, <3>1
    <3> QED BY <1>2, <1>3, <3>1, <3>2
  <2>2. i \in SegmentsAt(t)
    BY <1>1, <1>3, <2>1 DEF SegmentsAt
  <2>3. ASSUME NEW k \in SegmentsAt(t) PROVE k = i
    <3>1. k \in 1..Len(segments) /\ Holds(k)
      BY <1>1 DEF SegmentsAt
    <3>2. i < k => EndOf(segments[i]) <= segments[k].start
      BY <1>1, <3>1
    <3>3. k < i => EndOf(segments[k]) <= segments[i].start
      BY <1>1, <3>1
    <3>4. /\ segments[i].start \in Nat /\ EndOf(segments[i]) \in Nat
          /\ segments[k].start \in Nat /\ EndOf(segments[k]) \in Nat
      BY <1>2, <3>1
    <3> QED BY <1>3, <3>1, <3>2, <3>3, <3>4
  <2> QED BY <2>2, <2>3
<1>4. ASSUME NEW i \in 1..Len(segments), Holds(i)
      PROVE  SegmentsAt(t) # {} /\ SegmentAt(t) = i
  <2>1. SegmentsAt(t) = {i} /\ {i} \in SUBSET Nat
    BY <1>3, <1>4
  <2>2. FirstOf({i}) \in {i}
    BY <2>1, FirstOfIs
  <2> QED BY <2>1, <2>2 DEF SegmentAt
<1>5. ASSUME SegmentsAt(t) # {}
      PROVE  /\ SegmentAt(t) \in 1..Len(segments) /\ Holds(SegmentAt(t))
             /\ t < total
  <2>1. PICK i : i \in SegmentsAt(t)
    BY <1>5
  <2>2. i \in 1..Len(segments) /\ Holds(i)
    BY <1>1, <2>1 DEF SegmentsAt
  <2>3. SegmentAt(t) = i
    BY <1>4, <2>2
  <2> QED BY <1>1, <1>2, <2>2, <2>3
<1>6. t < total => SegmentsAt(t) # {}
  BY <1>1, <1>4
<1> QED BY <1>4, <1>5, <1>6 DEF total

\* If a moment is that of a picture, the segment it is in shows it then.
LEMMA PictureAt ==
  ASSUME NEW n \in Refs, Listed(segments, n), NEW t \in PictureMoments,
         NEW k \in 1..Len(segments), segments[k].start <= t, t < EndOf(segments[k])
  PROVE  segments[k].refStart + (t - segments[k].start) \in ShownTimes[segments[k].ref]
<1> DEFINE total == GetTotalDuration(segments)
<1>1. /\ Len(segments) \in Nat /\ DOMAIN segments = 1..Len(segments) /\ total \in Nat
      /\ \A i \in 1..Len(segments) :
           /\ segments[i] \in Fitting(n) /\ EndOf(segments[i]) <= total
  BY PlacesAre
<1>2. \A i \in 1..Len(segments) :
        /\ segments[i].start \in Nat /\ segments[i].duration \in Nat
        /\ segments[i].refStart \in Nat /\ segments[i].ref \in Refs
        /\ EndOf(segments[i]) = segments[i].start + segments[i].duration
  BY <1>1, FittingIs DEF EndOf
<1> HIDE DEF total
<1>3. t # total
  <2>1. EndOf(segments[k]) <= total /\ EndOf(segments[k]) \in Nat
    BY <1>1, <1>2
  <2> QED BY <1>1, <2>1
<1>4. PICK i \in 1..Len(segments) :
        \E pts \in TimesOf(segments[i]) : t = pts - segments[i].refStart + segments[i].start
  <2> DEFINE all == UNION {MomentsOf(segments[i]) : i \in DOMAIN segments}
  <2>1. PictureMoments = all \cup {total}
    BY DEF PictureMoments, total
  <2> HIDE DEF all
  <2>2. t \in all
    BY <1>3, <2>1
  <2>3. PICK i \in DOMAIN segments : t \in MomentsOf(segments[i])
    BY <2>2 DEF all
  <2> QED BY <1>1, <2>3 DEF MomentsOf
<1> PICK pts \in TimesOf(segments[i]) : t = pts - segments[i].refStart + segments[i].start
  BY <1>4
<1>5. /\ pts \in ShownTimes[segments[i].ref] /\ pts \in Nat
      /\ segments[i].refStart <= pts /\ pts < segments[i].refStart + segments[i].duration
  BY <1>2, <1>4, ShownIs DEF TimesOf
<1>6. t \in Nat /\ segments[i].start <= t /\ t < EndOf(segments[i])
  BY <1>2, <1>4, <1>5
<1>7. SegmentAt(t) = i /\ SegmentAt(t) = k
  BY <1>6, SegmentsAtIs
<1>8. segments[k].refStart + (t - segments[k].start) = pts
  <2>1. /\ i = k /\ segments[i].refStart \in Nat /\ segments[i].start \in Nat
        /\ t = pts - segments[i].refStart + segments[i].start
    BY <1>2, <1>7
  <2> QED BY <1>5, <2>1
<1> QED BY <1>5, <1>7, <1>8

\* The parts of a segment before and from a moment in it are within it.
LEMMA PartsFit ==
  ASSUME NEW n \in Refs, NEW s \in Fitting(n), NEW t \in Nat,
         s.start <= t, t <= EndOf(s)
  PROVE  /\ Before(s, t) \in Fitting(n) /\ Before(s, t).ref = s.ref
         /\ Before(s, t).refStart = s.refStart /\ Before(s, t).duration = t - s.start
         /\ From(s, t) \in Fitting(n) /\ From(s, t).ref = s.ref
         /\ From(s, t).refStart = s.refStart + (t - s.start) /\ From(s, t).start = t
         /\ From(s, t).duration = s.duration - (t - s.start)
<1>1. /\ s \in Segment /\ s.ref <= n /\ s.refStart \in Nat /\ s.duration \in Nat
      /\ s.start \in Nat /\ s.refStart + s.duration <= Videos[s.ref].duration
      /\ s.ref \in Refs /\ EndOf(s) = s.start + s.duration
  BY FittingIs DEF EndOf
<1>2. Videos[s.ref].duration \in Nat
  BY <1>1, VideoIs
<1> DEFINE b == Before(s, t)
           f == From(s, t)
<1>3. t - s.start \in Nat /\ s.duration - (t - s.start) \in Nat
      /\ s.refStart + (t - s.start) \in Nat
  BY <1>1
<1>4. b \in Segment /\ b.ref = s.ref /\ b.refStart = s.refStart /\ b.duration = t - s.start
  BY <1>1, <1>3 DEF Before, Segment
<1>5. /\ f \in Segment /\ f.ref = s.ref /\ f.refStart = s.refStart + (t - s.start)
      /\ f.start = t /\ f.duration = s.duration - (t - s.start)
  BY <1>1, <1>3 DEF From, Segment
<1> HIDE DEF b, f
<1>6. b.refStart + b.duration <= Videos[b.ref].duration
  BY <1>1, <1>2, <1>4
<1>7. f.refStart + f.duration <= Videos[f.ref].duration
  BY <1>1, <1>2, <1>5
<1>8. b \in Fitting(n) /\ f \in Fitting(n)
  BY <1>1, <1>4, <1>5, <1>6, <1>7 DEF Fitting
<1> QED BY <1>4, <1>5, <1>8 DEF b, f

-----------------------------------------------------------------------------
(* The lists the operations make                                           *)

LEMMA WholeVideoIs ==
  ASSUME NEW n \in Refs, NEW ref \in 1..n
  PROVE  WholeVideo(ref) \in Playing(n) /\ WholeVideo(ref).duration > 0
<1> DEFINE w == WholeVideo(ref)
<1>1. ref \in Refs /\ n \in Nat
  BY DEF Refs
<1>2. /\ FirstFramePts(ref) \in Nat /\ Videos[ref].duration \in Nat
      /\ FirstFramePts(ref) < Videos[ref].duration
      /\ FirstFramePts(ref) \in ShownTimes[ref]
  BY <1>1, ShownIs, VideoIs
<1>3. /\ w \in Segment /\ w.ref = ref /\ w.refStart = FirstFramePts(ref)
      /\ w.duration = Videos[ref].duration - FirstFramePts(ref)
  BY <1>1, <1>2 DEF WholeVideo, Segment
<1> HIDE DEF w
<1>4. w.refStart + w.duration <= Videos[w.ref].duration /\ w.ref <= n /\ w.duration > 0
  BY <1>2, <1>3
<1> QED BY <1>2, <1>3, <1>4 DEF Playing, Fitting, w

\* What fits the first files fits more of them.
LEMMA MoreFiles ==
  ASSUME NEW m \in Refs, NEW n \in Refs, m <= n
  PROVE  Fitting(m) \subseteq Fitting(n) /\ Playing(m) \subseteq Playing(n)
<1>1. Fitting(m) \subseteq Fitting(n)
  BY DEF Fitting, Segment, Refs
<1> QED BY <1>1 DEF Playing

LEMMA ConcatLively ==
  ASSUME NEW S, NEW s \in Seq(S), NEW t \in Seq(S), Lively(s) \/ Lively(t)
  PROVE  Lively(s \o t)
<1> DEFINE new == s \o t
<1>1. /\ Len(s) \in Nat /\ Len(t) \in Nat /\ Len(new) = Len(s) + Len(t)
      /\ \A i \in 1..Len(s) + Len(t) : new[i] = IF i <= Len(s) THEN s[i] ELSE t[i - Len(s)]
  BY LenProperties, ConcatProperties
<1> HIDE DEF new
<1>2. CASE Lively(s)
  <2>1. PICK i \in 1..Len(s) : s[i].duration > 0
    BY <1>2 DEF Lively
  <2>2. i \in 1..Len(new) /\ new[i] = s[i]
    BY <1>1
  <2> QED BY <2>1, <2>2 DEF Lively, new
<1>3. CASE Lively(t)
  <2>1. PICK i \in 1..Len(t) : t[i].duration > 0
    BY <1>3 DEF Lively
  <2>2. Len(s) + i \in 1..Len(new) /\ new[Len(s) + i] = t[i]
    <3>1. /\ Len(s) + i \in 1..Len(s) + Len(t) /\ ~(Len(s) + i <= Len(s))
          /\ (Len(s) + i) - Len(s) = i
      BY <1>1
    <3> QED BY <1>1, <3>1
  <2> QED BY <2>1, <2>2 DEF Lively, new
<1> QED BY <1>2, <1>3

\* A part of a list is replaced.
LEMMA ReplacedIs ==
  ASSUME NEW S, NEW list \in Seq(S), NEW middle \in Seq(S),
         NEW i \in 1..Len(list), NEW j \in Nat
  PROVE  /\ SubSeq(list, 1, i - 1) \o middle \o SubSeq(list, j + 1, Len(list)) \in Seq(S)
         /\ Lively(middle) \/ (\E k \in 1..i - 1 : list[k].duration > 0) =>
              Lively(SubSeq(list, 1, i - 1) \o middle \o SubSeq(list, j + 1, Len(list)))
<1> DEFINE a == SubSeq(list, 1, i - 1)
           b == SubSeq(list, j + 1, Len(list))
<1>1. Len(list) \in Nat /\ \A k \in 1..Len(list) : list[k] \in S
  BY LenProperties, ElementOfSeq
<1>2. /\ a \in Seq(S) /\ Len(a) = i - 1
      /\ \A k \in 1..i - 1 : a[k] = list[k]
  <2>1. \A k \in 1..i - 1 : list[k] \in S
    BY <1>1
  <2>2. /\ a \in Seq(S) /\ Len(a) = IF 1 <= i - 1 THEN i - 1 - 1 + 1 ELSE 0
        /\ \A k \in 1..i - 1 - 1 + 1 : a[k] = list[1 + k - 1]
    BY <1>1, <2>1, SubSeqProperties
  <2> HIDE DEF a
  <2> QED BY <1>1, <2>2
<1>3. b \in Seq(S)
  <2>1. \A k \in j + 1..Len(list) : list[k] \in S
    BY <1>1
  <2> QED BY <1>1, <2>1, SubSeqProperties
<1> HIDE DEF a, b
<1>4. a \o middle \in Seq(S) /\ (a \o middle) \o b \in Seq(S)
  BY <1>2, <1>3, ConcatProperties
<1>5. ASSUME \E k \in 1..i - 1 : list[k].duration > 0 PROVE Lively(a)
  BY <1>2, <1>5 DEF Lively
<1>6. Lively(middle) \/ Lively(a) => Lively((a \o middle) \o b)
  BY <1>2, <1>3, <1>4, ConcatLively
<1> QED BY <1>4, <1>5, <1>6 DEF a, b

LEMMA PlayingIsClean ==
  ASSUME NEW n \in Refs
  PROVE  Playing(n) \subseteq Clean(n) /\ Clean(n) \subseteq Fitting(n)
  BY DEF Playing, Clean

\* The parts of the segment a moment is in, and its pictures.
LEMMA PartsAt ==
  ASSUME NEW n \in Refs, Listed(segments, n), NEW t \in Nat, SegmentsAt(t) # {}
  PROVE  LET i == SegmentAt(t) IN
         /\ i \in 1..Len(segments)
         /\ segments[i].start <= t /\ segments[i].start \in Nat
         /\ Before(segments[i], t) \in Fitting(n) /\ From(segments[i], t) \in Fitting(n)
         /\ Before(segments[i], t).duration = t - segments[i].start
         /\ From(segments[i], t).duration > 0
         /\ segments[i] \in Playing(n) =>
              /\ Before(segments[i], t) \in Playing(n)
              /\ t \in PictureMoments => From(segments[i], t) \in Playing(n)
<1> DEFINE i == SegmentAt(t)
           s == segments[i]
           b == Before(s, t)
           f == From(s, t)
<1>1. i \in 1..Len(segments) /\ s.start <= t /\ t < EndOf(s)
  BY SegmentsAtIs
<1>2. s \in Fitting(n) /\ s.start \in Nat /\ s.duration \in Nat /\ EndOf(s) = s.start + s.duration
  BY <1>1, PlacesAre, FittingIs DEF EndOf
<1>3. t <= EndOf(s)
  BY <1>1, <1>2
<1>4. /\ b \in Fitting(n) /\ b.ref = s.ref /\ b.refStart = s.refStart
      /\ b.duration = t - s.start
      /\ f \in Fitting(n) /\ f.ref = s.ref /\ f.refStart = s.refStart + (t - s.start)
      /\ f.duration = s.duration - (t - s.start)
  BY <1>1, <1>2, <1>3, PartsFit
<1>5. t \in PictureMoments => s.refStart + (t - s.start) \in ShownTimes[s.ref]
  BY <1>1, PictureAt
<1> HIDE DEF i, s, b, f
<1>6. f.duration > 0
  BY <1>1, <1>2, <1>4
<1>7. s \in Playing(n) => /\ b \in Playing(n)
                          /\ t \in PictureMoments => f \in Playing(n)
  BY <1>4, <1>5 DEF Playing
<1> QED BY <1>1, <1>2, <1>4, <1>6, <1>7 DEF i, s, b, f

LEMMA CutIs ==
  ASSUME NEW n \in Refs, Listed(segments, n), NEW from \in Nat, NEW to \in Nat,
         SegmentsAt(from) # {}, SegmentsAt(to) # {}
  PROVE  /\ Cut(from, to) \in Seq(Fitting(n)) /\ Lively(Cut(from, to))
         /\ segments \in Seq(Playing(n)) /\ {from, to} \subseteq PictureMoments =>
              Cut(from, to) \in Seq(Clean(n))
<1> DEFINE i == SegmentAt(from)
           j == SegmentAt(to)
           b == Before(segments[i], from)
           f == From(segments[j], to)
<1>1. /\ i \in 1..Len(segments) /\ j \in 1..Len(segments)
      /\ b \in Fitting(n) /\ f \in Fitting(n) /\ f.duration > 0
      /\ segments[i] \in Playing(n) => b \in Playing(n)
      /\ segments[j] \in Playing(n) /\ to \in PictureMoments => f \in Playing(n)
  BY PartsAt
<1>2. segments \in Seq(Fitting(n)) /\ Len(segments) \in Nat /\ j \in Nat
  BY <1>1, ListIs DEF Listed
<1>3. Cut(from, to)
        = SubSeq(segments, 1, i - 1) \o <<b, f>> \o SubSeq(segments, j + 1, Len(segments))
  BY DEF Cut
<1> HIDE DEF i, j, b, f
<1>4. <<b, f>> \in Seq(Fitting(n))
  BY <1>1
<1>5. Cut(from, to) \in Seq(Fitting(n)) /\ Lively(Cut(from, to))
  <2>1. Len(<<b, f>>) = 2 /\ <<b, f>>[2] = f
    OBVIOUS
  <2>2. 2 \in 1..Len(<<b, f>>)
    BY <2>1
  <2>3. Lively(<<b, f>>)
    BY <1>1, <2>1, <2>2 DEF Lively
  <2> QED BY <1>1, <1>2, <1>3, <1>4, <2>3, ReplacedIs
<1>6. ASSUME segments \in Seq(Playing(n)), {from, to} \subseteq PictureMoments
      PROVE  Cut(from, to) \in Seq(Clean(n))
  <2>1. b \in Clean(n) /\ f \in Clean(n)
    <3>1. segments[i] \in Playing(n) /\ segments[j] \in Playing(n)
      BY <1>1, <1>6, ElementOfSeq
    <3> QED BY <1>1, <1>6, <3>1, PlayingIsClean
  <2>2. <<b, f>> \in Seq(Clean(n))
    BY <2>1
  <2>3. segments \in Seq(Clean(n))
    BY <1>6, PlayingIsClean, SeqMonotonic
  <2> QED BY <1>1, <1>2, <1>3, <2>2, <2>3, ReplacedIs
<1> QED BY <1>5, <1>6

LEMMA TruncatedIs ==
  ASSUME NEW n \in Refs, Listed(segments, n), NEW from \in Nat, SegmentsAt(from) # {}
  PROVE  /\ Truncated(from) \in Seq(Fitting(n))
         /\ segments \in Seq(Playing(n)) => Truncated(from) \in Seq(Clean(n))
<1> DEFINE i == SegmentAt(from)
           b == Before(segments[i], from)
           a == SubSeq(segments, 1, i - 1)
           end == IF DropsSegment(from) THEN <<>> ELSE <<b>>
<1>1. /\ i \in 1..Len(segments) /\ b \in Fitting(n)
      /\ segments[i] \in Playing(n) => b \in Playing(n)
  BY PartsAt
<1>2. segments \in Seq(Fitting(n)) /\ Len(segments) \in Nat
  BY ListIs DEF Listed
<1>3. Truncated(from) = a \o end
  BY DEF Truncated
<1> HIDE DEF i, b
<1>4. ASSUME NEW S, segments \in Seq(S), b \in S PROVE Truncated(from) \in Seq(S)
  <2>1. \A k \in 1..i - 1 : segments[k] \in S
    <3>1. \A k \in 1..i - 1 : k \in 1..Len(segments)
      BY <1>1, <1>2
    <3> QED BY <1>4, <3>1, ElementOfSeq
  <2>2. a \in Seq(S)
    BY <1>1, <2>1, SubSeqProperties
  <2>3. end \in Seq(S)
    BY <1>4
  <2> HIDE DEF a, end
  <2> QED BY <1>3, <2>2, <2>3, ConcatProperties
<1> HIDE DEF a, end
<1>5. ASSUME segments \in Seq(Playing(n)) PROVE Truncated(from) \in Seq(Clean(n))
  <2>1. segments \in Seq(Clean(n)) /\ b \in Clean(n)
    BY <1>1, <1>5, ElementOfSeq, PlayingIsClean, SeqMonotonic
  <2> QED BY <1>4, <2>1
<1> QED BY <1>1, <1>2, <1>4, <1>5

LEMMA PastedIs ==
  ASSUME NEW n \in Refs, Listed(segments, n), clipboard \in Seq(Fitting(n)),
         NEW t \in Moments
  PROVE  /\ Pasted(t) \in Seq(Fitting(n))
         /\ segments # <<>> /\ Lively(clipboard) => Lively(Pasted(t))
         /\ /\ segments \in Seq(Playing(n)) /\ clipboard \in Seq(Playing(n))
            /\ t \in PictureMoments /\ Lively(segments)
            => Pasted(t) \in Seq(Clean(n)) /\ Lively(Pasted(t))
<1> DEFINE total == GetTotalDuration(segments)
           end == t >= total
           i == IF end THEN Len(segments) ELSE SegmentAt(t)
           at == segments[i]
           b == Before(at, t)
           f == From(at, t)
           middle == IF t = at.start THEN Append(clipboard, at)
                     ELSE <<b>> \o clipboard \o <<f>>
<1>1. /\ segments \in Seq(Fitting(n)) /\ Len(segments) \in Nat /\ total \in Nat
      /\ t \in Nat /\ t <= total
  BY PlacesAre DEF Listed, Moments
<1>2. CASE segments = <<>>
  <2>1. Pasted(t) = <<>> /\ Len(segments) = 0
    BY <1>2 DEF Pasted
  <2>2. ~Lively(segments)
    BY <2>1 DEF Lively
  <2> QED BY <2>1, <2>2
<1>3. CASE segments # <<>>
  <2>1. Pasted(t)
          = SubSeq(segments, 1, i - 1) \o middle \o SubSeq(segments, i + 1, Len(segments))
    BY <1>3 DEF Pasted
  <2>2. Len(segments) # 0 /\ Len(segments) \in 1..Len(segments)
    BY <1>1, <1>3, EmptySeq
  <2>3. /\ i \in 1..Len(segments) /\ at \in Fitting(n)
        /\ at.start \in Nat /\ at.start <= t
        /\ b \in Fitting(n) /\ f \in Fitting(n) /\ b.duration = t - at.start
        /\ at \in Playing(n) /\ t \in PictureMoments => b \in Clean(n) /\ f \in Clean(n)
        /\ i # Len(segments) => at.duration > 0
    <3>1. CASE end
      <4>1. i = Len(segments) /\ t = total
        BY <1>1, <3>1
      <4>2. at \in Fitting(n) /\ EndOf(at) = t
        BY <2>2, <4>1, PlacesAre
      <4>3. /\ at.start \in Nat /\ at.duration \in Nat /\ at.start + at.duration = t
        BY <4>2, FittingIs DEF EndOf
      <4>4. at.start <= t /\ t <= EndOf(at)
        BY <1>1, <4>2, <4>3
      <4>5. /\ b \in Fitting(n) /\ b.ref = at.ref /\ b.refStart = at.refStart
            /\ b.duration = t - at.start
            /\ f \in Fitting(n) /\ f.duration = at.duration - (t - at.start)
        BY <1>1, <4>2, <4>4, PartsFit
      <4> HIDE DEF i, at, b, f
      <4>6. f.duration = 0
        BY <4>3, <4>5
      <4>7. at \in Playing(n) => b \in Clean(n) /\ f \in Clean(n)
        BY <4>5, <4>6 DEF Clean, Playing
      <4> QED BY <2>2, <4>1, <4>2, <4>3, <4>4, <4>5, <4>7
    <3>2. CASE ~end
      <4>1. i = SegmentAt(t) /\ SegmentsAt(t) # {}
        BY <1>1, <3>2, SegmentsAtIs
      <4>2. /\ i \in 1..Len(segments) /\ at.start <= t /\ at.start \in Nat
            /\ b \in Fitting(n) /\ f \in Fitting(n) /\ b.duration = t - at.start
            /\ at \in Playing(n) =>
                 b \in Playing(n) /\ (t \in PictureMoments => f \in Playing(n))
        BY <1>1, <4>1, PartsAt
      <4>3. at \in Fitting(n) /\ t < EndOf(at)
        BY <1>1, <4>1, <4>2, PlacesAre, SegmentsAtIs
      <4>4. at.duration \in Nat /\ EndOf(at) = at.start + at.duration
        BY <4>3, FittingIs DEF EndOf
      <4> HIDE DEF i, at, b, f
      <4>5. at.duration > 0
        BY <1>1, <4>2, <4>3, <4>4
      <4> QED BY <4>2, <4>3, <4>5, PlayingIsClean
    <3> QED BY <3>1, <3>2
  <2> HIDE DEF i, at, b, f
  <2>4. ASSUME NEW S, clipboard \in Seq(S), at \in S, b \in S, f \in S
        PROVE  middle \in Seq(S)
    <3>1. CASE t = at.start
      BY <2>4, <3>1, AppendProperties
    <3>2. CASE t # at.start
      <4>1. <<b>> \in Seq(S) /\ <<f>> \in Seq(S)
        BY <2>4
      <4>2. <<b>> \o clipboard \in Seq(S)
        BY <2>4, <4>1, ConcatProperties
      <4>3. (<<b>> \o clipboard) \o <<f>> \in Seq(S)
        BY <4>1, <4>2, ConcatProperties
      <4> QED BY <3>2, <4>3
    <3> QED BY <3>1, <3>2
  <2>5. Pasted(t) \in Seq(Fitting(n)) /\ (Lively(clipboard) => Lively(Pasted(t)))
    <3>1. middle \in Seq(Fitting(n))
      BY <2>3, <2>4
    <3>2. ASSUME Lively(clipboard) PROVE Lively(middle)
      <4>1. Lively(Append(clipboard, at))
        BY <2>3, <3>2, AppendLively
      <4>2. <<b>> \in Seq(Fitting(n)) /\ <<f>> \in Seq(Fitting(n))
        BY <2>3
      <4>3. <<b>> \o clipboard \in Seq(Fitting(n)) /\ Lively(<<b>> \o clipboard)
        BY <3>2, <4>2, ConcatProperties, ConcatLively
      <4>4. Lively((<<b>> \o clipboard) \o <<f>>)
        BY <4>2, <4>3, ConcatLively
      <4> QED BY <4>1, <4>4
    <3> HIDE DEF middle
    <3>3. i \in Nat
      BY <1>1, <2>3
    <3> QED BY <1>1, <2>1, <2>3, <3>1, <3>2, <3>3, ReplacedIs
  <2>6. ASSUME segments \in Seq(Playing(n)), clipboard \in Seq(Playing(n)),
               t \in PictureMoments, Lively(segments)
        PROVE  Pasted(t) \in Seq(Clean(n)) /\ Lively(Pasted(t))
    <3>1. segments \in Seq(Clean(n)) /\ clipboard \in Seq(Clean(n))
      BY <2>6, PlayingIsClean, SeqMonotonic
    <3>2. at \in Clean(n) /\ b \in Clean(n) /\ f \in Clean(n)
      <4>1. at \in Playing(n)
        BY <2>3, <2>6, ElementOfSeq DEF at
      <4> QED BY <2>3, <2>6, <4>1, PlayingIsClean
    <3>3. middle \in Seq(Clean(n))
      BY <2>4, <3>1, <3>2
    <3>4. Lively(middle) \/ \E k \in 1..i - 1 : segments[k].duration > 0
      <4>1. PICK k \in 1..Len(segments) : segments[k].duration > 0
        BY <2>6 DEF Lively
      <4>2. CASE t # at.start
        <5>1. b.duration > 0
          BY <1>1, <2>3, <4>2
        <5>2. Len(<<b>>) = 1 /\ <<b>>[1] = b /\ 1 \in 1..1
          OBVIOUS
        <5>3. Lively(<<b>>)
          BY <5>1, <5>2 DEF Lively
        <5>4. <<b>> \in Seq(Clean(n)) /\ <<f>> \in Seq(Clean(n))
          BY <3>2
        <5>5. <<b>> \o clipboard \in Seq(Clean(n)) /\ Lively(<<b>> \o clipboard)
          BY <3>1, <5>3, <5>4, ConcatProperties, ConcatLively
        <5>6. Lively((<<b>> \o clipboard) \o <<f>>)
          BY <5>4, <5>5, ConcatLively
        <5> QED BY <4>2, <5>6
      <4>3. CASE t = at.start /\ at.duration > 0
        <5>1. Lively(Append(clipboard, at))
          BY <3>1, <3>2, <4>3, AppendLively
        <5> QED BY <4>3, <5>1
      <4>4. CASE t = at.start /\ ~(at.duration > 0)
        <5>1. i = Len(segments) /\ k # i
          BY <2>3, <4>1, <4>4 DEF at
        <5>2. k \in 1..i - 1
          BY <1>1, <5>1
        <5> QED BY <4>1, <5>2
      <4> QED BY <4>2, <4>3, <4>4
    <3> HIDE DEF middle
    <3>5. i \in Nat
      BY <1>1, <2>3
    <3> QED BY <2>1, <2>3, <3>1, <3>3, <3>4, <3>5, ReplacedIs
  <2> QED BY <2>5, <2>6
<1> QED BY <1>2, <1>3

\* What is copied of a segment is within it.
LEMMA CopiedIs ==
  ASSUME NEW n \in Refs, Listed(segments, n), NEW from \in Nat, NEW to \in Nat, from <= to,
         NEW k \in 1..Len(segments)
  PROVE  /\ Copied(segments[k], from, to) \in Fitting(n)
         /\ segments[k] \in Playing(n) /\ from \in PictureMoments =>
              Copied(segments[k], from, to) \in Playing(n)
<1> DEFINE s == segments[k]
           late == IF s.start <= from /\ EndOf(s) > from THEN From(s, from) ELSE s
<1>1. /\ s \in Fitting(n) /\ s.start \in Nat /\ s.duration \in Nat
      /\ EndOf(s) = s.start + s.duration
  BY PlacesAre, FittingIs DEF EndOf
<1>2. Copied(s, from, to)
        = IF s.start <= to /\ EndOf(s) >= to THEN Before(late, to) ELSE late
  BY DEF Copied, Before
<1>3. /\ late \in Fitting(n) /\ EndOf(late) = EndOf(s)
      /\ s.start <= to => late.start <= to
      /\ s \in Playing(n) /\ from \in PictureMoments => late \in Playing(n)
  <2>1. CASE s.start <= from /\ EndOf(s) > from
    <3>1. late = From(s, from) /\ from <= EndOf(s) /\ from < EndOf(s)
      BY <1>1, <2>1
    <3>2. /\ late \in Fitting(n) /\ late.ref = s.ref /\ late.start = from
          /\ late.refStart = s.refStart + (from - s.start)
          /\ late.duration = s.duration - (from - s.start)
      BY <1>1, <2>1, <3>1, PartsFit
    <3>3. from \in PictureMoments => s.refStart + (from - s.start) \in ShownTimes[s.ref]
      BY <2>1, <3>1, PictureAt
    <3> HIDE DEF late, s
    <3>4. EndOf(late) = EndOf(s)
      BY <1>1, <3>2 DEF EndOf
    <3>5. from \in PictureMoments => late \in Playing(n)
      BY <3>2, <3>3 DEF Playing
    <3> QED BY <3>2, <3>4, <3>5
  <2>2. CASE ~(s.start <= from /\ EndOf(s) > from)
    BY <1>1, <2>2
  <2> QED BY <2>1, <2>2
<1> HIDE DEF late, s
<1>4. CASE s.start <= to /\ EndOf(s) >= to
  <2>1. late.start <= to /\ to <= EndOf(late)
    BY <1>1, <1>3, <1>4
  <2>2. /\ Before(late, to) \in Fitting(n) /\ Before(late, to).ref = late.ref
        /\ Before(late, to).refStart = late.refStart
    BY <1>3, <2>1, PartsFit
  <2>3. late \in Playing(n) => Before(late, to) \in Playing(n)
    BY <2>2 DEF Playing
  <2> QED BY <1>2, <1>3, <1>4, <2>2, <2>3 DEF s
<1>5. CASE ~(s.start <= to /\ EndOf(s) >= to)
  BY <1>2, <1>3, <1>5 DEF s
<1> QED BY <1>4, <1>5

\* The segments copyToClipBoard takes, from that of one marker to the other's.
LEMMA CopiedListIs ==
  ASSUME NEW n \in Refs, Listed(segments, n), NEW from \in Nat, NEW to \in Nat, from <= to,
         SegmentsAt(from) # {}, NEW last,
         last = IF to >= GetTotalDuration(segments) THEN Len(segments) ELSE SegmentAt(to),
         NEW list, list = [i \in 1..last - SegmentAt(from) + 1 |->
                             Copied(segments[SegmentAt(from) + i - 1], from, to)]
  PROVE  /\ list \in Seq(Fitting(n))
         /\ segments \in Seq(Playing(n)) /\ from \in PictureMoments => list \in Seq(Playing(n))
<1> DEFINE first == SegmentAt(from)
           total == GetTotalDuration(segments)
<1>1. /\ first \in 1..Len(segments) /\ segments[first].start <= from
      /\ Len(segments) \in Nat /\ total \in Nat
  BY PlacesAre, SegmentsAtIs
<1>2. last \in first..Len(segments)
  <2>1. CASE to >= total
    BY <1>1, <2>1
  <2>2. CASE ~(to >= total)
    <3>1. last = SegmentAt(to) /\ SegmentsAt(to) # {}
      <4>1. to < total
        BY <1>1, <2>2
      <4> QED BY <2>2, <4>1, SegmentsAtIs
    <3>2. last \in 1..Len(segments) /\ to < EndOf(segments[last])
      BY <3>1, SegmentsAtIs
    <3>3. last < first => EndOf(segments[last]) <= segments[first].start
      BY <1>1, <3>2, PlacesAre
    <3>4. segments[first].start \in Nat /\ EndOf(segments[last]) \in Nat
      <4>1. segments[first] \in Fitting(n) /\ segments[last] \in Fitting(n)
        BY <1>1, <3>2, PlacesAre
      <4> QED BY <4>1, FittingIs DEF EndOf
    <3> HIDE DEF first
    <3> QED BY <1>1, <3>2, <3>3, <3>4
  <2> QED BY <2>1, <2>2
<1> HIDE DEF first, total
<1>3. last - first + 1 \in Nat
      /\ \A i \in 1..last - first + 1 : first + i - 1 \in 1..Len(segments)
  BY <1>1, <1>2
<1>4. list = [i \in 1..last - first + 1 |-> Copied(segments[first + i - 1], from, to)]
  BY DEF first
<1>5. ASSUME NEW S, \A k \in 1..Len(segments) : Copied(segments[k], from, to) \in S
      PROVE  list \in Seq(S)
  <2>1. \A i \in 1..last - first + 1 : Copied(segments[first + i - 1], from, to) \in S
    BY <1>3, <1>5
  <2>2. list \in [1..last - first + 1 -> S]
    BY <1>4, <2>1
  <2> QED BY <1>3, <2>2, FunctionIsSeq
<1>6. list \in Seq(Fitting(n))
  <2>1. \A k \in 1..Len(segments) : Copied(segments[k], from, to) \in Fitting(n)
    BY CopiedIs
  <2> QED BY <1>5, <2>1
<1>7. ASSUME segments \in Seq(Playing(n)), from \in PictureMoments
      PROVE  list \in Seq(Playing(n))
  <2>1. \A k \in 1..Len(segments) : segments[k] \in Playing(n)
    BY <1>7, ElementOfSeq
  <2>2. \A k \in 1..Len(segments) : Copied(segments[k], from, to) \in Playing(n)
    BY <1>7, <2>1, CopiedIs
  <2> QED BY <1>5, <2>2
<1> QED BY <1>6, <1>7

-----------------------------------------------------------------------------
(* The inductive invariant                                                 *)

(* The segments settle and fit their files; as long as the markers are at  *)
(* pictures they start with one, and the film is not empty.                *)
Sound(list, board, n, ex) ==
  /\ Listed(list, n) /\ board \in Seq(Fitting(n))
  /\ ex => list \in Seq(Playing(n)) /\ board \in Seq(Playing(n)) /\ Lively(list)

Lasts(list, n, r, ex) ==
  ex /\ r.ok /\ r.op \in {"cut", "truncate", "paste"} => list \in Seq(Lasting(n))

SegInv ==
  /\ videos \in Refs /\ exact \in BOOLEAN
  /\ Sound(segments, clipboard, videos, exact)
  /\ Lasts(segments, videos, request, exact)

LEMMA TidySound ==
  ASSUME NEW n \in Refs, NEW list \in Seq(Fitting(n)), NEW board \in Seq(Fitting(n)),
         NEW ex \in BOOLEAN,
         ex => list \in Seq(Clean(n)) /\ board \in Seq(Playing(n)) /\ Lively(list)
  PROVE  Sound(Tidy(list), board, n, ex) /\ (ex => Tidy(list) \in Seq(Lasting(n)))
<1>1. Listed(Tidy(list), n)
  BY TidyIs
<1>2. ex => Tidy(list) \in Seq(Lasting(n)) /\ Lively(Tidy(list))
  BY TidyIs
<1>3. Lasting(n) \subseteq Playing(n)
  BY DEF Lasting
<1>4. ex => Tidy(list) \in Seq(Playing(n))
  BY <1>2, <1>3, SeqMonotonic
<1> QED BY <1>1, <1>2, <1>4 DEF Sound

LEMMA UpdatedSound ==
  ASSUME NEW n \in Refs, NEW list \in Seq(Fitting(n)), NEW board \in Seq(Fitting(n)),
         NEW ex \in BOOLEAN,
         ex => list \in Seq(Playing(n)) /\ board \in Seq(Playing(n)) /\ Lively(list)
  PROVE  Sound(UpdateStartTime(list), board, n, ex)
  BY UpdatedListed, UpdateStartTimeKeeps, UpdatedLively DEF Sound

LEMMA FirstFile == 1 \in Refs /\ \A n \in Refs : n < Len(Videos) => n + 1 \in Refs
<1>1. Len(Videos) \in Nat /\ Len(Videos) # 0
  BY SegmentsAssumption, EmptySeq DEF SegmentsAssumption
<1> QED BY <1>1 DEF Refs

LEMMA SegInit == Init => SegInv
<1> SUFFICES ASSUME Init PROVE SegInv
  OBVIOUS
<1> DEFINE list == <<WholeVideo(1)>>
<1>1. videos = 1 /\ segments = UpdateStartTime(list) /\ clipboard = <<>> /\ exact = TRUE
      /\ request.op = "open"
  BY DEF Init
<1>2. 1 \in Refs /\ 1 \in 1..1
  BY FirstFile
<1>3. WholeVideo(1) \in Playing(1) /\ WholeVideo(1).duration > 0
  BY <1>2, WholeVideoIs
<1>4. list \in Seq(Playing(1)) /\ list \in Seq(Fitting(1))
  BY <1>3 DEF Playing
<1>5. Lively(list)
  <2>1. Len(list) = 1 /\ list[1] = WholeVideo(1) /\ 1 \in 1..1
    OBVIOUS
  <2> QED BY <1>3, <2>1 DEF Lively
<1>6. clipboard \in Seq(Fitting(1)) /\ clipboard \in Seq(Playing(1))
  BY <1>1, EmptySeq
<1> HIDE DEF list
<1>7. Sound(UpdateStartTime(list), clipboard, 1, exact)
  BY <1>1, <1>2, <1>4, <1>5, <1>6, UpdatedSound
<1>8. Lasts(segments, videos, request, exact)
  BY <1>1 DEF Lasts
<1> QED BY <1>1, <1>2, <1>7, <1>8 DEF SegInv

LEMMA SegNext == SegInv /\ [Next]_vars => SegInv'
<1> SUFFICES ASSUME SegInv, [Next]_vars PROVE SegInv'
  OBVIOUS
<1> PICK n \in Refs : n = videos
  BY DEF SegInv
<1>1. /\ n \in Refs /\ n = videos /\ exact \in BOOLEAN
      /\ Listed(segments, n) /\ segments \in Seq(Fitting(n)) /\ clipboard \in Seq(Fitting(n))
      /\ exact => /\ segments \in Seq(Playing(n)) /\ clipboard \in Seq(Playing(n))
                  /\ Lively(segments)
      /\ Lasts(segments, n, request, exact)
  BY DEF SegInv, Sound, Listed
<1>2. ASSUME NEW t \in Moments PROVE t \in Nat
  BY <1>1, PlacesAre DEF Moments
<1>3. ASSUME NEW times, Given(times)
      PROVE  exact' \in BOOLEAN /\ (exact' => exact /\ times \subseteq PictureMoments)
  BY <1>1, <1>3 DEF Given
\* A list that is put in order after a request.
<1>4. ASSUME NEW list \in Seq(Fitting(n)),
             exact' \in BOOLEAN, exact' => exact /\ list \in Seq(Clean(n)) /\ Lively(list),
             segments' = Tidy(list), UNCHANGED <<videos, clipboard>>
      PROVE  SegInv'
  <2>1. PICK ex \in BOOLEAN : ex = exact'
    BY <1>4
  <2>2. ex => list \in Seq(Clean(n)) /\ clipboard \in Seq(Playing(n)) /\ Lively(list)
    BY <1>1, <1>4, <2>1
  <2>3. /\ Sound(Tidy(list), clipboard, n, ex)
        /\ ex => Tidy(list) \in Seq(Lasting(n))
    BY <1>1, <2>2, TidySound
  <2>4. Sound(segments', clipboard', n, exact') /\ Lasts(segments', n, request', exact')
    BY <1>4, <2>1, <2>3 DEF Lasts
  <2> QED BY <1>1, <1>4, <2>4 DEF SegInv
\* A request that is refused.
<1>5. ASSUME Refuse, exact' \in BOOLEAN, exact' => exact, ~request'.ok,
             UNCHANGED <<videos, clipboard>>
      PROVE  SegInv'
  <2>1. segments' = segments
    BY <1>5 DEF Refuse
  <2>2. Sound(segments', clipboard', n, exact') /\ Lasts(segments', n, request', exact')
    BY <1>1, <1>5, <2>1 DEF Sound, Lasts
  <2> QED BY <1>1, <1>5, <2>2 DEF SegInv
<1>6. CASE AddReferenceVideo
  <2> DEFINE m == n + 1
             list == Append(segments, WholeVideo(m))
  <2>1. /\ videos' = m /\ segments' = UpdateStartTime(list)
        /\ clipboard' = clipboard /\ exact' = exact /\ request'.op = "open" /\ n < Len(Videos)
    BY <1>1, <1>6 DEF AddReferenceVideo, Change, Answer
  <2>2. m \in Refs /\ n <= m /\ m \in 1..m
    BY <2>1, FirstFile DEF Refs
  <2>3. WholeVideo(m) \in Playing(m) /\ WholeVideo(m).duration > 0
    BY <2>2, WholeVideoIs
  <2> HIDE DEF m
  <2>4. Fitting(n) \subseteq Fitting(m) /\ Playing(n) \subseteq Playing(m)
    BY <2>2, MoreFiles
  <2>5. segments \in Seq(Fitting(m)) /\ clipboard \in Seq(Fitting(m))
    BY <1>1, <2>4, SeqMonotonic
  <2>6. exact => segments \in Seq(Playing(m)) /\ clipboard \in Seq(Playing(m))
    BY <1>1, <2>4, SeqMonotonic
  <2>7. list \in Seq(Fitting(m)) /\ (exact => list \in Seq(Playing(m)) /\ Lively(list))
    <3>1. WholeVideo(m) \in Fitting(m)
      BY <2>3 DEF Playing
    <3> QED BY <2>3, <2>5, <2>6, <3>1, AppendProperties, AppendLively
  <2> HIDE DEF list
  <2>8. Sound(UpdateStartTime(list), clipboard, m, exact)
    BY <1>1, <2>2, <2>5, <2>6, <2>7, UpdatedSound
  <2>9. Sound(segments', clipboard', m, exact') /\ Lasts(segments', m, request', exact')
    BY <2>1, <2>8 DEF Lasts
  <2> QED BY <1>1, <2>1, <2>2, <2>9 DEF SegInv
<1>7. CASE ResetSegment
  <2> DEFINE list == [i \in 1..n |-> WholeVideo(i)]
  <2>1. /\ segments' = UpdateStartTime(list) /\ videos' = videos
        /\ clipboard' = clipboard /\ exact' = exact /\ request'.op = "reset"
    BY <1>1, <1>7 DEF ResetSegment, Change, Answer
  <2>2. \A i \in 1..n : WholeVideo(i) \in Playing(n) /\ WholeVideo(i).duration > 0
    BY WholeVideoIs
  <2>3. n \in Nat /\ 1 \in 1..n
    BY DEF Refs
  <2>4. list[1].duration > 0 /\ list \in [1..n -> Playing(n)]
    BY <2>2, <2>3
  <2> HIDE DEF list
  <2>5. list \in Seq(Playing(n)) /\ Len(list) = n
    BY <2>3, <2>4, FunctionIsSeq
  <2>6. list \in Seq(Fitting(n)) /\ Lively(list)
    BY <2>3, <2>4, <2>5, UpdateStartTimeKeeps DEF Lively
  <2>7. Sound(UpdateStartTime(list), clipboard, n, exact)
    BY <1>1, <2>5, <2>6, UpdatedSound
  <2>8. Sound(segments', clipboard', n, exact') /\ Lasts(segments', n, request', exact')
    BY <2>1, <2>7 DEF Lasts
  <2> QED BY <1>1, <2>1, <2>8 DEF SegInv
<1>8. CASE AppendFromClipBoard
  <2> DEFINE both == segments \o clipboard
             list == MergeContinuousSegments(both)
  <2>1. /\ segments' = UpdateStartTime(list) /\ videos' = videos
        /\ clipboard' = clipboard /\ exact' = exact /\ request'.op = "append"
    BY <1>8 DEF AppendFromClipBoard, Change, Answer
  <2>2. both \in Seq(Fitting(n)) /\ (exact => both \in Seq(Playing(n)) /\ Lively(both))
    BY <1>1, ConcatProperties, ConcatLively
  <2> HIDE DEF both
  <2>3. list \in Seq(Fitting(n)) /\ (exact => list \in Seq(Playing(n)) /\ Lively(list))
    BY <2>2, ClosedFitting, MergeContinuousSegmentsIs
  <2> HIDE DEF list
  <2>4. Sound(UpdateStartTime(list), clipboard, n, exact)
    BY <1>1, <2>3, UpdatedSound
  <2>5. Sound(segments', clipboard', n, exact') /\ Lasts(segments', n, request', exact')
    BY <2>1, <2>4 DEF Lasts
  <2> QED BY <1>1, <2>1, <2>5 DEF SegInv
<1>9. ASSUME NEW from \in Moments, TruncateVideo(from) PROVE SegInv'
  <2>1. /\ Given({from}) /\ UNCHANGED <<videos, clipboard>> /\ from \in Nat
    BY <1>2, <1>9 DEF TruncateVideo
  <2>2. exact' \in BOOLEAN /\ (exact' => exact)
    BY <1>3, <2>1
  <2> DEFINE list == Tidy(Truncated(from))
  <2>3. CASE SegmentsAt(from) # {} /\ list # <<>>
    <3>1. segments' = list
      BY <1>9, <2>3 DEF TruncateVideo, Change
    <3>2. /\ Truncated(from) \in Seq(Fitting(n))
          /\ exact => Truncated(from) \in Seq(Clean(n))
      BY <1>1, <2>1, <2>3, TruncatedIs
    <3>3. exact => list \in Seq(Lasting(n))
      BY <3>2, TidyIs
    <3>4. Listed(list, n)
      BY <3>2, TidyIs
    <3> HIDE DEF list
    <3>5. ASSUME exact PROVE list \in Seq(Playing(n)) /\ Lively(list)
      <4>1. list \in Seq(Lasting(n))
        BY <3>3, <3>5
      <4>2. Lasting(n) \subseteq Playing(n)
        BY DEF Lasting
      <4>3. Len(list) \in Nat \ {0}
        BY <2>3, <4>1, EmptySeq
      <4>4. list[1].duration > 0 /\ 1 \in 1..Len(list)
        BY <4>1, <4>3, ElementOfSeq DEF Lasting
      <4> QED BY <4>1, <4>2, <4>4, SeqMonotonic DEF Lively
    <3>6. Sound(segments', clipboard', n, exact') /\ Lasts(segments', n, request', exact')
      BY <1>1, <2>1, <2>2, <3>1, <3>3, <3>4, <3>5 DEF Sound, Lasts
    <3> QED BY <1>1, <2>1, <2>2, <3>6 DEF SegInv
  <2>4. CASE SegmentsAt(from) = {}
    <3>1. Refuse /\ ~request'.ok
      BY <1>9, <2>4 DEF TruncateVideo, Answer
    <3> QED BY <1>5, <2>1, <2>2, <3>1
  <2>5. CASE SegmentsAt(from) # {} /\ list = <<>>
    <3>1. segments' = UpdateStartTime(segments) /\ ~request'.ok
      BY <1>9, <2>5 DEF TruncateVideo, Change, Answer
    <3>2. Sound(UpdateStartTime(segments), clipboard, n, exact)
      BY <1>1, UpdatedSound
    <3>3. Sound(segments', clipboard', n, exact') /\ Lasts(segments', n, request', exact')
      BY <2>1, <2>2, <3>1, <3>2 DEF Sound, Lasts
    <3> QED BY <1>1, <2>1, <2>2, <3>3 DEF SegInv
  <2> QED BY <2>3, <2>4, <2>5
<1>10. ASSUME NEW t \in Moments, PasteFromClipBoard(t) PROVE SegInv'
  <2>1. /\ segments' = Tidy(Pasted(t)) /\ Given({t}) /\ UNCHANGED <<videos, clipboard>>
    BY <1>10 DEF PasteFromClipBoard, Change
  <2>2. exact' \in BOOLEAN /\ (exact' => exact /\ t \in PictureMoments)
    BY <1>3, <2>1
  <2>3. /\ Pasted(t) \in Seq(Fitting(n))
        /\ exact' => Pasted(t) \in Seq(Clean(n)) /\ Lively(Pasted(t))
    BY <1>1, <2>2, PastedIs
  <2> QED BY <1>4, <2>1, <2>2, <2>3
<1>11. ASSUME NEW from \in Moments, NEW to \in Moments, RemoveChunk(from, to) PROVE SegInv'
  <2>1. /\ Given({from, to}) /\ UNCHANGED <<videos, clipboard>> /\ from \in Nat /\ to \in Nat
    BY <1>2, <1>11 DEF RemoveChunk
  <2>2. exact' \in BOOLEAN /\ (exact' => exact /\ {from, to} \subseteq PictureMoments)
    BY <1>3, <2>1
  <2> DEFINE found == SegmentsAt(from) # {} /\ SegmentsAt(to) # {}
  <2>3. CASE found
    <3>1. segments' = Tidy(Cut(from, to))
      BY <1>11, <2>3 DEF RemoveChunk, Change
    <3>2. /\ Cut(from, to) \in Seq(Fitting(n))
          /\ exact' => Cut(from, to) \in Seq(Clean(n)) /\ Lively(Cut(from, to))
      BY <1>1, <2>1, <2>2, <2>3, CutIs
    <3> QED BY <1>4, <2>1, <2>2, <3>1, <3>2
  <2>4. CASE ~found
    <3>1. Refuse /\ ~request'.ok
      BY <1>11, <2>4 DEF RemoveChunk, Answer
    <3> QED BY <1>5, <2>1, <2>2, <3>1
  <2> QED BY <2>3, <2>4
<1>12. ASSUME NEW from \in Moments, NEW to \in Moments, CopyToClipBoard(from, to) PROVE SegInv'
  <2> DEFINE last == IF to >= GetTotalDuration(segments) THEN Len(segments) ELSE SegmentAt(to)
             list == [i \in 1..last - SegmentAt(from) + 1 |->
                        Copied(segments[SegmentAt(from) + i - 1], from, to)]
  <2>1. /\ from <= to /\ SegmentsAt(from) # {} /\ clipboard' = list /\ request'.op = "copy"
        /\ Given({from, to}) /\ UNCHANGED <<videos, segments>> /\ from \in Nat /\ to \in Nat
    BY <1>2, <1>12 DEF CopyToClipBoard, Answer
  <2>2. exact' \in BOOLEAN /\ (exact' => exact /\ from \in PictureMoments)
    BY <1>3, <2>1
  <2>3. /\ list \in Seq(Fitting(n))
        /\ exact' => list \in Seq(Playing(n))
    BY <1>1, <2>1, <2>2, CopiedListIs
  <2> HIDE DEF list
  <2>4. Sound(segments', clipboard', n, exact') /\ Lasts(segments', n, request', exact')
    BY <1>1, <2>1, <2>2, <2>3 DEF Sound, Lasts
  <2> QED BY <1>1, <2>1, <2>2, <2>4 DEF SegInv
<1>13. CASE UNCHANGED vars
  <2>1. Sound(segments', clipboard', n, exact') /\ Lasts(segments', n, request', exact')
    BY <1>1, <1>13 DEF vars, SegInv
  <2> QED BY <1>1, <1>13, <2>1 DEF SegInv, vars
<1> QED
  BY <1>6, <1>7, <1>8, <1>9, <1>10, <1>11, <1>12, <1>13 DEF Next

THEOREM SegInvariant == Spec => []SegInv
  BY SegInit, SegNext, PTL DEF Spec

-----------------------------------------------------------------------------
(* The theorems                                                            *)

(* Every segment is within its file.  As long as the markers are at        *)
(* pictures there is always something to show and each segment starts with *)
(* a picture, shown after a cut, a truncation or a paste: the next segment *)
(* can always be gone to.                                                  *)
THEOREM SegmentsWellFormed == Spec => []WellFormed
<1>1. ASSUME SegInv PROVE WellFormed
  <2> PICK n \in Refs : n = videos
    BY <1>1 DEF SegInv
  <2>1. /\ segments \in Seq(Fitting(n)) /\ clipboard \in Seq(Fitting(n))
        /\ exact => segments \in Seq(Playing(n)) /\ Lively(segments)
        /\ Lasts(segments, n, request, exact)
    BY <1>1 DEF SegInv, Sound, Listed
  <2>2. ASSUME NEW s \in Range(segments) \cup Range(clipboard) PROVE WithinFile(s)
    <3>1. s \in Fitting(n)
      <4>1. Range(segments) \subseteq Fitting(n) /\ Range(clipboard) \subseteq Fitting(n)
        BY <2>1, RangeOfSeq
      <4> QED BY <4>1
    <3>2. s.ref \in 1..n
      BY <3>1, FittingIs DEF Refs
    <3> QED BY <3>1, <3>2, FittingIs DEF WithinFile
  <2>3. ASSUME exact
        PROVE  /\ segments # <<>>
               /\ \A s \in Range(segments) :
                    /\ s.refStart \in ShownTimes[s.ref]
                    /\ request.ok /\ request.op \in {"cut", "truncate", "paste"}
                         => s.duration > 0
    <3>1. segments # <<>>
      <4>1. Len(segments) \in Nat /\ Len(segments) # 0
        BY <2>1, <2>3, LenProperties DEF Lively
      <4> QED BY <4>1
    <3>2. \A s \in Range(segments) : s \in Playing(n)
      BY <2>1, <2>3, RangeOfSeq
    <3>3. ASSUME request.ok, request.op \in {"cut", "truncate", "paste"},
                 NEW s \in Range(segments)
          PROVE  s.duration > 0
      <4>1. segments \in Seq(Lasting(n))
        BY <2>1, <2>3, <3>3 DEF Lasts
      <4>2. Range(segments) \subseteq Lasting(n)
        BY <4>1, RangeOfSeq
      <4> QED BY <3>3, <4>2 DEF Lasting
    <3> QED BY <3>1, <3>2, <3>3 DEF Playing
  <2> QED BY <2>2, <2>3 DEF WellFormed
<1> QED BY <1>1, SegInvariant, PTL

(* The place of a picture in the film is converted back to that picture,   *)
(* in the segment that shows it, at the boundaries of segments too.        *)
THEOREM SegmentsEveryPictureFound == Spec => []EveryPictureFound
<1>1. ASSUME SegInv PROVE EveryPictureFound
  <2> PICK n \in Refs : n = videos
    BY <1>1 DEF SegInv
  <2>1. Listed(segments, n)
    BY <1>1 DEF SegInv, Sound
  <2> SUFFICES ASSUME NEW i \in DOMAIN segments, NEW pts \in TimesOf(segments[i]),
                      NEW at, at = DurationBefore(segments)[i] + pts - segments[i].refStart
               PROVE  SegmentsAt(at) # {} /\ SegmentAt(at) = i /\ RefTime(i, at) = pts
    BY DEF EveryPictureFound
  <2>2. i \in 1..Len(segments) /\ segments[i] \in Fitting(n)
    BY <2>1, PlacesAre
  <2>3. /\ segments[i].start \in Nat /\ segments[i].duration \in Nat
        /\ segments[i].refStart \in Nat /\ segments[i].ref \in Refs
        /\ EndOf(segments[i]) = segments[i].start + segments[i].duration
    BY <2>2, FittingIs DEF EndOf
  <2>4. /\ pts \in Nat
        /\ segments[i].refStart <= pts /\ pts < segments[i].refStart + segments[i].duration
    BY <2>3, ShownIs DEF TimesOf
  <2>5. DurationBefore(segments)[i] = segments[i].start
    BY <2>1, <2>2 DEF Listed, Started
  <2>6. at \in Nat /\ segments[i].start <= at /\ at < EndOf(segments[i])
    BY <2>3, <2>4, <2>5
  <2>7. RefTime(i, at) = pts
    BY <2>3, <2>4, <2>5 DEF RefTime
  <2> QED BY <2>1, <2>2, <2>6, <2>7, SegmentsAtIs
<1> QED BY <1>1, SegInvariant, PTL

\* The first k segments as they are read back: the same, but for their dts.
Same(list, k) ==
  /\ list \in Seq(Fitting(videos)) /\ Len(list) = k
  /\ \A i \in 1..k :
       /\ list[i].ref = segments[i].ref /\ list[i].refStart = segments[i].refStart
       /\ list[i].duration = segments[i].duration /\ list[i].start = segments[i].start

Bare(k) == [segments[k] EXCEPT !.start = 0, !.dts = 0]

LEMMA BareIs ==
  ASSUME NEW n \in Refs, Listed(segments, n), NEW k \in 1..Len(segments)
  PROVE  /\ Bare(k) \in Fitting(n) /\ Bare(k).ref = segments[k].ref
         /\ Bare(k).refStart = segments[k].refStart
         /\ Bare(k).duration = segments[k].duration
  BY PlacesAre DEF Bare, Fitting, Segment

\* One more segment is read back.
LEMMA OneMore ==
  ASSUME NEW n \in Refs, n = videos, Listed(segments, n), NEW k \in 1..Len(segments),
         NEW list, Same(list, k - 1)
  PROVE  Same(UpdateStartTime(Append(list, Bare(k))), k)
<1> DEFINE more == Append(list, Bare(k))
           new == UpdateStartTime(more)
<1>1. Bare(k) \in Fitting(n) /\ list \in Seq(Fitting(n)) /\ Len(list) = k - 1
  BY BareIs DEF Same
<1>2. /\ more \in Seq(Fitting(n)) /\ Len(more) = (k - 1) + 1 /\ more[(k - 1) + 1] = Bare(k)
      /\ \A i \in 1..k - 1 : more[i] = list[i]
  BY <1>1, AppendProperties
<1>3. Len(segments) \in Nat /\ (k - 1) + 1 = k
  BY PlacesAre
<1> HIDE DEF more
<1>4. \A i \in 1..k : /\ more[i].ref = segments[i].ref
                      /\ more[i].refStart = segments[i].refStart
                      /\ more[i].duration = segments[i].duration
  <2> SUFFICES ASSUME NEW i \in 1..k
               PROVE  /\ more[i].ref = segments[i].ref
                      /\ more[i].refStart = segments[i].refStart
                      /\ more[i].duration = segments[i].duration
    OBVIOUS
  <2>1. CASE i = k
    BY <1>2, <1>3, <2>1, BareIs
  <2>2. CASE i # k
    <3>1. i \in 1..k - 1
      BY <2>2
    <3> QED BY <1>2, <3>1 DEF Same
  <2> QED BY <2>1, <2>2
<1>5. \A i \in 1..k : Settled(more[i])
  BY <1>3, <1>4 DEF Listed, Settled
<1>6. /\ new \in Seq(Fitting(n)) /\ Len(new) = k /\ Started(new)
      /\ \A i \in 1..k : /\ new[i].ref = segments[i].ref
                         /\ new[i].refStart = segments[i].refStart
                         /\ new[i].duration = segments[i].duration
  BY <1>2, <1>3, <1>4, <1>5, UpdateStartTimeIs
<1> HIDE DEF new
<1>7. ASSUME NEW i \in 1..k PROVE new[i].start = segments[i].start
  <2>1. /\ Adds(DurationBefore(new), new, k)
        /\ Adds(DurationBefore(segments), segments, Len(segments))
    BY <1>3, <1>6, ListIs, DurationBeforeIs DEF Sums, Listed
  <2>2. Adds(DurationBefore(segments), segments, k)
    BY <1>3, <2>1 DEF Adds
  <2>3. k \in Nat /\ i \in 1..k + 1 /\ i \in 1..Len(segments)
    BY <1>3
  <2>4. \A j \in 1..k + 1 : DurationBefore(new)[j] = DurationBefore(segments)[j]
    BY <1>6, <2>1, <2>2, <2>3, SumsAgree
  <2> QED BY <1>6, <2>3, <2>4 DEF Listed, Started
<1> QED BY <1>6, <1>7 DEF Same, new, more

(* A project that is saved and read back, segment by segment, gives the    *)
(* film that was saved.                                                    *)
THEOREM SegmentsReloadsTheSame == Spec => []ReloadsTheSame
<1>1. ASSUME SegInv PROVE ReloadsTheSame
  <2> PICK n \in Refs : n = videos
    BY <1>1 DEF SegInv
  <2>1. Listed(segments, n)
    BY <1>1 DEF SegInv, Sound
  <2> DEFINE m == Len(segments)
             Equation(f) == f = [k \in 0..m |->
               IF k = 0 THEN <<>> ELSE UpdateStartTime(Append(f[k - 1], Bare(k)))]
             read == CHOOSE f : Equation(f)
             step == [k \in 1..m |->
               [list \in Seq(Fitting(n)) |-> UpdateStartTime(Append(list, Bare(k)))]]
  <2>2. m \in Nat /\ <<>> \in Seq(Fitting(n))
    BY <2>1, PlacesAre, EmptySeq
  <2>3. ASSUME NEW k \in 1..m, NEW list \in Seq(Fitting(n))
        PROVE  UpdateStartTime(Append(list, Bare(k))) \in Seq(Fitting(n))
    <3>1. Append(list, Bare(k)) \in Seq(Fitting(n))
      BY <2>1, BareIs, AppendProperties
    <3> QED BY <3>1, UpdateStartTimeIs
  <2>4. Equation(read)
    <3>1. Stepping(step, m, Seq(Fitting(n)))
      BY <2>3 DEF Stepping
    <3> HIDE DEF step, m
    <3>2. PICK f : Steps(f, m, Seq(Fitting(n)), <<>>, step)
      BY <2>2, <3>1, StepsExist
    <3>3. f \in [0..m -> Seq(Fitting(n))] /\ f[0] = <<>>
      BY <3>2 DEF Steps
    <3>4. ASSUME NEW k \in 1..m PROVE f[k] = UpdateStartTime(Append(f[k - 1], Bare(k)))
      <4>1. k - 1 \in 0..m
        BY <2>2
      <4>2. f[k - 1] \in Seq(Fitting(n))
        BY <3>3, <4>1
      <4>3. step[k][f[k - 1]] = UpdateStartTime(Append(f[k - 1], Bare(k)))
        BY <4>2 DEF step
      <4> QED BY <3>2, <4>3 DEF Steps
    <3>5. Equation(f)
      <4>1. \A k \in 0..m : k # 0 => k \in 1..m
        BY <2>2
      <4> QED BY <3>3, <3>4, <4>1
    <3> HIDE DEF Equation
    <3> QED BY <3>5
  <2>5. Reloaded = read[m]
    BY DEF Reloaded, Bare
  <2> HIDE DEF read, step, m
  <2>6. read[0] = <<>>
        /\ \A k \in 1..m : read[k] = UpdateStartTime(Append(read[k - 1], Bare(k)))
    <3>1. 0 \in 0..m /\ \A k \in 1..m : k \in 0..m /\ k # 0
      BY <2>2
    <3> QED BY <2>4, <3>1
  <2> HIDE DEF Equation
  <2> DEFINE T == {k \in 0..m : Same(read[k], k)}
  <2>7. 0 \in T
    <3>1. 0 \in 0..m /\ Len(<<>>) = 0
      BY <2>2
    <3>2. Same(<<>>, 0)
      BY <2>2, <3>1 DEF Same
    <3> QED BY <2>6, <3>1, <3>2
  <2>8. ASSUME NEW k \in 1..m, k - 1 \in T PROVE k \in T
    <3>1. k \in 0..m /\ Same(read[k - 1], k - 1)
      BY <2>2, <2>8
    <3>2. Same(UpdateStartTime(Append(read[k - 1], Bare(k))), k)
      BY <2>1, <3>1, OneMore DEF m
    <3> QED BY <2>6, <3>1, <3>2
  <2>9. m \in T
    <3>1. m \in 0..m
      BY <2>2
    <3> HIDE DEF T
    <3> QED BY <2>2, <2>7, <2>8, <3>1, UpTo
  <2>10. Same(Reloaded, m)
    BY <2>5, <2>9
  <2>11. ASSUME NEW i \in 1..m
         PROVE  [Reloaded[i] EXCEPT !.dts = 0] = [segments[i] EXCEPT !.dts = 0]
    <3>1. Reloaded[i] \in Segment /\ segments[i] \in Segment
      <4>1. Reloaded \in Seq(Fitting(n)) /\ Len(Reloaded) = m
        BY <2>10 DEF Same
      <4> QED BY <2>1, <4>1, ElementOfSeq, PlacesAre, FittingIs DEF m
    <3> QED BY <2>10, <3>1 DEF Same, Segment
  <2>12. DOMAIN segments = 1..m
    BY <2>1, PlacesAre DEF m
  <2> QED BY <2>10, <2>11, <2>12 DEF ReloadsTheSame, Same, m
<1> QED BY <1>1, SegInvariant, PTL

-----------------------------------------------------------------------------
(* The pictures a segment shows, and those of the film                     *)

Shot == [ref : Refs, pts : Nat, at : Int]

LEMMA TimesAre ==
  ASSUME NEW n \in Refs, NEW s \in Fitting(n), NEW pts \in TimesOf(s)
  PROVE  /\ pts \in Nat /\ pts \in ShownTimes[s.ref]
         /\ s.refStart <= pts /\ pts < s.refStart + s.duration
<1>1. s.ref \in Refs
  BY FittingIs
<1> QED BY <1>1, ShownIs DEF TimesOf

LEMMA ShotIs ==
  ASSUME NEW p \in Shot, NEW at
  PROVE  /\ [p EXCEPT !.at = at] = [ref |-> p.ref, pts |-> p.pts, at |-> at]
         /\ p = [ref |-> p.ref, pts |-> p.pts, at |-> p.at]
  BY DEF Shot

LEMMA ShiftHas ==
  ASSUME NEW film \in SUBSET Shot, NEW by \in Int, NEW p
  PROVE  p \in Shift(film, by) <=>
           \E q \in film : p = [ref |-> q.ref, pts |-> q.pts, at |-> q.at + by]
<1>1. p \in Shift(film, by) <=> \E q \in film : p = [q EXCEPT !.at = @ + by]
  BY DEF Shift
<1>2. \A q \in film :
        [q EXCEPT !.at = @ + by] = [ref |-> q.ref, pts |-> q.pts, at |-> q.at + by]
  BY DEF Shot
<1> QED BY <1>1, <1>2

LEMMA ShiftIs ==
  ASSUME NEW film \in SUBSET Shot, NEW by \in Int, NEW more \in Int
  PROVE  /\ Shift(film, by) \in SUBSET Shot
         /\ Shift(film, 0) = film
         /\ Shift(Shift(film, by), more) = Shift(film, by + more)
<1>1. ASSUME NEW x \in Int PROVE Shift(film, x) \in SUBSET Shot
  <2> SUFFICES ASSUME NEW p \in Shift(film, x) PROVE p \in Shot
    OBVIOUS
  <2>1. PICK q \in film : p = [ref |-> q.ref, pts |-> q.pts, at |-> q.at + x]
    BY ShiftHas
  <2> QED BY <2>1 DEF Shot
<1>2. Shift(film, 0) = film
  <2>1. \A q \in film : [ref |-> q.ref, pts |-> q.pts, at |-> q.at + 0] = q
    BY DEF Shot
  <2>2. \A p : p \in Shift(film, 0) <=> p \in film
    BY <2>1, ShiftHas
  <2> QED BY <2>2
<1>3. ASSUME NEW p
      PROVE  p \in Shift(Shift(film, by), more) <=> p \in Shift(film, by + more)
  <2>1. ASSUME p \in Shift(Shift(film, by), more) PROVE p \in Shift(film, by + more)
    <3>1. PICK q \in Shift(film, by) : p = [ref |-> q.ref, pts |-> q.pts, at |-> q.at + more]
      BY <1>1, <2>1, ShiftHas
    <3>2. PICK r \in film : q = [ref |-> r.ref, pts |-> r.pts, at |-> r.at + by]
      BY ShiftHas
    <3>3. r.at \in Int
      BY DEF Shot
    <3>4. p = [ref |-> r.ref, pts |-> r.pts, at |-> r.at + (by + more)]
      BY <3>1, <3>2, <3>3
    <3> QED BY <3>4, ShiftHas
  <2>2. ASSUME p \in Shift(film, by + more) PROVE p \in Shift(Shift(film, by), more)
    <3>1. PICK r \in film : p = [ref |-> r.ref, pts |-> r.pts, at |-> r.at + (by + more)]
      BY <2>2, ShiftHas
    <3> DEFINE q == [ref |-> r.ref, pts |-> r.pts, at |-> r.at + by]
    <3>2. q \in Shift(film, by)
      BY ShiftHas
    <3>3. r.at \in Int
      BY DEF Shot
    <3>4. p = [ref |-> q.ref, pts |-> q.pts, at |-> q.at + more]
      BY <3>1, <3>3
    <3> HIDE DEF q
    <3> QED BY <1>1, <3>2, <3>4, ShiftHas
  <2> QED BY <2>1, <2>2
<1> QED BY <1>1, <1>2, <1>3

LEMMA ShiftJoin ==
  ASSUME NEW film \in SUBSET Shot, NEW other \in SUBSET Shot, NEW by \in Int
  PROVE  Shift(film \cup other, by) = Shift(film, by) \cup Shift(other, by)
<1>1. film \cup other \in SUBSET Shot
  OBVIOUS
<1>2. \A p : p \in Shift(film \cup other, by) <=> p \in Shift(film, by) \cup Shift(other, by)
  BY <1>1, ShiftHas
<1> QED BY <1>2

LEMMA PlacedHas ==
  ASSUME NEW s, NEW at, NEW p
  PROVE  p \in Placed(s, at) <=>
           \E pts \in TimesOf(s) : p = [ref |-> s.ref, pts |-> pts, at |-> at + pts - s.refStart]
  BY DEF Placed

LEMMA PlacedIs ==
  ASSUME NEW n \in Refs, NEW s \in Fitting(n), NEW at \in Int
  PROVE  /\ Placed(s, at) \in SUBSET Shot
         /\ \A p \in Placed(s, at) : at <= p.at /\ p.at < at + s.duration
<1> SUFFICES ASSUME NEW p \in Placed(s, at)
             PROVE  p \in Shot /\ at <= p.at /\ p.at < at + s.duration
  OBVIOUS
<1>1. PICK pts \in TimesOf(s) : p = [ref |-> s.ref, pts |-> pts, at |-> at + pts - s.refStart]
  BY PlacedHas
<1>2. s.ref \in Refs /\ s.refStart \in Nat /\ s.duration \in Nat
  BY FittingIs
<1>3. pts \in Nat /\ s.refStart <= pts /\ pts < s.refStart + s.duration
  BY TimesAre
<1> QED BY <1>1, <1>2, <1>3 DEF Shot

LEMMA PlacedShift ==
  ASSUME NEW n \in Refs, NEW s \in Fitting(n), NEW at \in Int, NEW by \in Int
  PROVE  Shift(Placed(s, at), by) = Placed(s, at + by)
<1>1. Placed(s, at) \in SUBSET Shot
  BY PlacedIs
<1>2. s.refStart \in Nat /\ \A pts \in TimesOf(s) : pts \in Nat
  BY FittingIs, TimesAre
<1>3. \A pts \in TimesOf(s) : (at + pts - s.refStart) + by = (at + by) + pts - s.refStart
  BY <1>2
<1>4. ASSUME NEW p \in Shift(Placed(s, at), by) PROVE p \in Placed(s, at + by)
  <2>1. PICK q \in Placed(s, at) : p = [ref |-> q.ref, pts |-> q.pts, at |-> q.at + by]
    BY <1>1, ShiftHas
  <2>2. PICK pts \in TimesOf(s) : q = [ref |-> s.ref, pts |-> pts, at |-> at + pts - s.refStart]
    BY PlacedHas
  <2>3. p = [ref |-> s.ref, pts |-> pts, at |-> (at + by) + pts - s.refStart]
    BY <1>3, <2>1, <2>2
  <2> QED BY <2>3, PlacedHas
<1>5. ASSUME NEW p \in Placed(s, at + by) PROVE p \in Shift(Placed(s, at), by)
  <2>1. PICK pts \in TimesOf(s) :
          p = [ref |-> s.ref, pts |-> pts, at |-> (at + by) + pts - s.refStart]
    BY PlacedHas
  <2> DEFINE q == [ref |-> s.ref, pts |-> pts, at |-> at + pts - s.refStart]
  <2>2. q \in Placed(s, at)
    BY PlacedHas
  <2>3. p = [ref |-> q.ref, pts |-> q.pts, at |-> q.at + by]
    BY <1>3, <2>1
  <2> HIDE DEF q
  <2> QED BY <1>1, <2>2, <2>3, ShiftHas
<1> QED BY <1>4, <1>5

\* A part of a segment shows the pictures of that part.
LEMMA PlacedPart ==
  ASSUME NEW n \in Refs, NEW s \in Fitting(n), NEW u \in Fitting(n), NEW at \in Int,
         NEW skip \in Nat, u.ref = s.ref, u.refStart = s.refStart + skip,
         skip + u.duration <= s.duration,
         NEW x \in Int, x = at + skip, NEW y \in Int, y = x + u.duration
  PROVE  Placed(u, x) = {p \in Placed(s, at) : x <= p.at /\ p.at < y}
<1>1. /\ s.refStart \in Nat /\ s.duration \in Nat /\ u.duration \in Nat
      /\ x = at + skip /\ y = at + skip + u.duration
  BY FittingIs
<1>2. ASSUME NEW pts \in TimesOf(u)
      PROVE  /\ pts \in TimesOf(s)
             /\ x + pts - u.refStart = at + pts - s.refStart
             /\ x <= at + pts - s.refStart
             /\ at + pts - s.refStart < y
  <2>1. /\ pts \in Nat /\ pts \in ShownTimes[s.ref]
        /\ u.refStart <= pts /\ pts < u.refStart + u.duration
    BY TimesAre
  <2> QED BY <1>1, <2>1 DEF TimesOf
<1>3. ASSUME NEW p \in Placed(u, x)
      PROVE  p \in Placed(s, at) /\ x <= p.at /\ p.at < y
  <2>1. PICK pts \in TimesOf(u) :
          p = [ref |-> u.ref, pts |-> pts, at |-> x + pts - u.refStart]
    BY PlacedHas
  <2>2. p = [ref |-> s.ref, pts |-> pts, at |-> at + pts - s.refStart]
    BY <1>2, <2>1
  <2>3. p.at = at + pts - s.refStart /\ pts \in TimesOf(s)
    BY <1>2, <2>2
  <2>4. p \in Placed(s, at)
    BY <2>2, <2>3, PlacedHas
  <2> QED BY <1>2, <2>3, <2>4
<1>4. ASSUME NEW p \in Placed(s, at), x <= p.at, p.at < y
      PROVE  p \in Placed(u, x)
  <2>1. PICK pts \in TimesOf(s) : p = [ref |-> s.ref, pts |-> pts, at |-> at + pts - s.refStart]
    BY PlacedHas
  <2>2. pts \in Nat /\ pts \in ShownTimes[s.ref]
    BY TimesAre
  <2>3. u.refStart <= pts /\ pts < u.refStart + u.duration
    BY <1>1, <1>4, <2>1, <2>2
  <2>4. pts \in TimesOf(u)
    BY <2>2, <2>3 DEF TimesOf
  <2>5. p = [ref |-> u.ref, pts |-> pts, at |-> x + pts - u.refStart]
    BY <1>2, <2>1, <2>4
  <2> QED BY <2>4, <2>5, PlacedHas
<1> QED BY <1>3, <1>4

LEMMA PlacedEmpty ==
  ASSUME NEW n \in Refs, NEW s \in Fitting(n), s.duration = 0, NEW at \in Int
  PROVE  Placed(s, at) = {}
<1>1. \A pts : pts \notin TimesOf(s)
  <2> SUFFICES ASSUME NEW pts \in TimesOf(s) PROVE FALSE
    OBVIOUS
  <2>1. pts \in Nat /\ s.refStart <= pts /\ pts < s.refStart + s.duration /\ s.refStart \in Nat
    BY TimesAre, FittingIs
  <2> QED BY <2>1
<1> QED BY <1>1, PlacedHas

\* The film: what each segment shows, from where those before it end.
LEMMA FilmHas ==
  ASSUME NEW n \in Refs, NEW list \in Seq(Fitting(n)), NEW p
  PROVE  p \in Film(list) <=>
           \E i \in 1..Len(list) : p \in Placed(list[i], DurationBefore(list)[i])
<1>1. DOMAIN list = 1..Len(list)
  BY LenProperties
<1> QED BY <1>1 DEF Film

LEMMA TotalIs ==
  ASSUME NEW n \in Refs, NEW list \in Seq(Fitting(n))
  PROVE  /\ Len(list) \in Nat /\ Durations(list)
         /\ Sums(DurationBefore(list), list, Len(list))
         /\ GetTotalDuration(list) = DurationBefore(list)[Len(list) + 1]
         /\ GetTotalDuration(list) \in Nat
         /\ \A i \in 1..Len(list) :
              /\ list[i] \in Fitting(n) /\ DurationBefore(list)[i] \in Nat
              /\ DurationBefore(list)[i + 1] = DurationBefore(list)[i] + list[i].duration
              /\ DurationBefore(list)[i] + list[i].duration <= GetTotalDuration(list)
<1> DEFINE sum == DurationBefore(list)
<1>1. Len(list) \in Nat /\ Durations(list) /\ \A i \in 1..Len(list) : list[i] \in Fitting(n)
  BY ListIs
<1>2. Sums(sum, list, Len(list))
  BY <1>1, DurationBeforeIs
<1>3. GetTotalDuration(list) = sum[Len(list) + 1]
  BY DEF GetTotalDuration
<1> HIDE DEF sum
<1>4. sum[Len(list) + 1] \in Nat
  BY <1>1, <1>2 DEF Sums
<1>5. ASSUME NEW i \in 1..Len(list)
      PROVE  /\ sum[i] \in Nat /\ sum[i + 1] = sum[i] + list[i].duration
             /\ sum[i] + list[i].duration <= sum[Len(list) + 1]
  <2>1. sum[i] \in Nat /\ sum[i + 1] = sum[i] + list[i].duration
    BY <1>1, <1>2 DEF Sums, Adds
  <2>2. i + 1 \in 1..Len(list) + 1 /\ Len(list) + 1 \in (i + 1)..Len(list) + 1
    BY <1>1
  <2>3. sum[i + 1] <= sum[Len(list) + 1]
    BY <1>1, <1>2, <2>2, SumsGrow
  <2> QED BY <2>1, <2>3
<1> QED BY <1>1, <1>2, <1>3, <1>4, <1>5 DEF sum

LEMMA FilmIs ==
  ASSUME NEW n \in Refs, NEW list \in Seq(Fitting(n))
  PROVE  /\ Film(list) \in SUBSET Shot
         /\ \A p \in Film(list) : 0 <= p.at /\ p.at < GetTotalDuration(list)
<1> SUFFICES ASSUME NEW p \in Film(list)
             PROVE  p \in Shot /\ 0 <= p.at /\ p.at < GetTotalDuration(list)
  OBVIOUS
<1>1. PICK i \in 1..Len(list) : p \in Placed(list[i], DurationBefore(list)[i])
  BY FilmHas
<1>2. /\ list[i] \in Fitting(n) /\ DurationBefore(list)[i] \in Nat
      /\ DurationBefore(list)[i] + list[i].duration <= GetTotalDuration(list)
      /\ GetTotalDuration(list) \in Nat /\ list[i].duration \in Nat
  BY TotalIs, FittingIs
<1>3. /\ p \in Shot /\ DurationBefore(list)[i] <= p.at
      /\ p.at < DurationBefore(list)[i] + list[i].duration
  BY <1>1, <1>2, PlacedIs
<1> QED BY <1>2, <1>3 DEF Shot

LEMMA FilmEmpty ==
  Film(<<>>) = {} /\ GetTotalDuration(<<>>) = 0
<1> PICK n \in Refs : n = 1
  BY FirstFile
<1>1. <<>> \in Seq(Fitting(n)) /\ Len(<<>>) = 0
  BY EmptySeq
<1>2. \A p : p \notin Film(<<>>)
  <2>1. ~\E i \in 1..Len(<<>>) : TRUE
    BY <1>1
  <2> QED BY <1>1, <2>1, FilmHas
<1>3. GetTotalDuration(<<>>) = 0
  <2>1. /\ GetTotalDuration(<<>>) = DurationBefore(<<>>)[Len(<<>>) + 1]
        /\ Sums(DurationBefore(<<>>), <<>>, Len(<<>>))
    BY <1>1, TotalIs
  <2> QED BY <1>1, <2>1 DEF Sums, Adds
<1> QED BY <1>2, <1>3

LEMMA FilmOne ==
  ASSUME NEW n \in Refs, NEW s \in Fitting(n)
  PROVE  /\ <<s>> \in Seq(Fitting(n))
         /\ Film(<<s>>) = Placed(s, 0) /\ GetTotalDuration(<<s>>) = s.duration
<1> DEFINE one == <<s>>
<1>1. one \in Seq(Fitting(n)) /\ Len(one) = 1 /\ one[1] = s
  OBVIOUS
<1> HIDE DEF one
<1>2. /\ GetTotalDuration(one) = DurationBefore(one)[Len(one) + 1]
      /\ Sums(DurationBefore(one), one, Len(one))
  BY <1>1, TotalIs
<1>3. DurationBefore(one)[1] = 0 /\ GetTotalDuration(one) = s.duration
  <2>1. DurationBefore(one)[1] = 0
        /\ DurationBefore(one)[1 + 1] = DurationBefore(one)[1] + one[1].duration
    BY <1>1, <1>2 DEF Sums, Adds
  <2>2. s.duration \in Nat
    BY FittingIs
  <2> QED BY <1>1, <1>2, <2>1, <2>2
<1>4. \A p : p \in Film(one) <=> p \in Placed(s, 0)
  <2>1. \A i : i \in 1..Len(one) <=> i = 1
    BY <1>1
  <2> QED BY <1>1, <1>3, <2>1, FilmHas
<1> QED BY <1>1, <1>3, <1>4 DEF one

\* The film of a list after another is put at the end of the other's.
LEMMA FilmConcat ==
  ASSUME NEW n \in Refs, NEW a \in Seq(Fitting(n)), NEW b \in Seq(Fitting(n))
  PROVE  /\ a \o b \in Seq(Fitting(n))
         /\ Film(a \o b) = Film(a) \cup Shift(Film(b), GetTotalDuration(a))
         /\ GetTotalDuration(a \o b) = GetTotalDuration(a) + GetTotalDuration(b)
<1> DEFINE c == a \o b
           la == Len(a)
           lb == Len(b)
           ta == GetTotalDuration(a)
           fa == DurationBefore(a)
           fb == DurationBefore(b)
           fc == DurationBefore(c)
<1>1. /\ c \in Seq(Fitting(n)) /\ Len(c) = la + lb
      /\ \A i \in 1..la + lb : c[i] = IF i <= la THEN a[i] ELSE b[i - la]
  BY ConcatProperties
<1>2. /\ la \in Nat /\ lb \in Nat /\ ta \in Nat /\ ta = fa[la + 1]
      /\ Sums(fa, a, la) /\ Sums(fb, b, lb)
      /\ GetTotalDuration(b) = fb[lb + 1]
      /\ \A i \in 1..la : a[i] \in Fitting(n) /\ fa[i] \in Nat
      /\ \A i \in 1..lb : b[i] \in Fitting(n) /\ fb[i] \in Nat
  BY TotalIs
<1>3. Sums(fc, c, la + lb) /\ GetTotalDuration(c) = fc[la + lb + 1]
  <2> HIDE DEF c
  <2> QED BY <1>1, TotalIs
<1> HIDE DEF c, la, lb, ta, fa, fb, fc
<1>4. \A i \in 1..la + 1 : fc[i] = fa[i]
  <2>1. Adds(fc, c, la) /\ Adds(fa, a, la)
    BY <1>2, <1>3 DEF Sums, Adds
  <2>2. \A i \in 1..la : c[i].duration = a[i].duration
    BY <1>1, <1>2
  <2> QED BY <1>2, <2>1, <2>2, SumsAgree
<1>5. \A k \in 0..lb : fc[la + k + 1] = ta + fb[k + 1]
  <2> DEFINE T == {k \in 0..lb : fc[la + k + 1] = ta + fb[k + 1]}
  <2>1. 0 \in T
    <3>1. fc[la + 1] = ta
      <4>1. la + 1 \in 1..la + 1
        BY <1>2
      <4> QED BY <1>2, <1>4, <4>1
    <3>2. fb[0 + 1] = 0 /\ la + 0 + 1 = la + 1 /\ 0 \in 0..lb
      BY <1>2 DEF Sums, Adds
    <3> QED BY <1>2, <3>1, <3>2
  <2>2. ASSUME NEW k \in 1..lb, k - 1 \in T PROVE k \in T
    <3>1. fc[la + k] = ta + fb[k]
      <4>1. la + (k - 1) + 1 = la + k /\ (k - 1) + 1 = k
        BY <1>2
      <4> QED BY <2>2, <4>1
    <3>2. fc[la + k + 1] = fc[la + k] + c[la + k].duration
      <4>1. la + k \in 1..la + lb
        BY <1>2
      <4> QED BY <1>3, <4>1 DEF Sums, Adds
    <3>3. c[la + k] = b[k]
      <4>1. PICK i \in 1..la + lb : i = la + k /\ ~(i <= la) /\ i - la = k
        BY <1>2
      <4>2. c[i] = b[k]
        BY <1>1, <4>1
      <4> QED BY <4>1, <4>2
    <3>4. fb[k + 1] = fb[k] + b[k].duration
      BY <1>2 DEF Sums, Adds
    <3>5. ta \in Nat /\ fb[k] \in Nat /\ b[k].duration \in Nat /\ k \in 0..lb
      BY <1>2, FittingIs
    <3>6. fc[la + k + 1] = (ta + fb[k]) + b[k].duration
      BY <3>1, <3>2, <3>3
    <3>7. fc[la + k + 1] = ta + fb[k + 1]
      BY <3>4, <3>5, <3>6
    <3> QED BY <3>5, <3>7
  <2> HIDE DEF T
  <2>3. \A k \in 0..lb : k \in T
    BY <1>2, <2>1, <2>2, UpTo
  <2> QED BY <2>3 DEF T
<1>6. GetTotalDuration(c) = ta + GetTotalDuration(b)
  <2>1. lb \in 0..lb
    BY <1>2
  <2> QED BY <1>2, <1>3, <1>5, <2>1
<1>7. /\ Film(b) \in SUBSET Shot
      /\ \A p : p \in Film(a) <=> \E i \in 1..la : p \in Placed(a[i], fa[i])
      /\ \A p : p \in Film(b) <=> \E i \in 1..lb : p \in Placed(b[i], fb[i])
      /\ \A p : p \in Film(c) <=> \E i \in 1..la + lb : p \in Placed(c[i], fc[i])
  BY <1>1, FilmHas, FilmIs DEF la, lb, fa, fb, fc
<1>8. \A i \in 1..la : i \in 1..la + lb /\ c[i] = a[i] /\ fc[i] = fa[i]
  <2>1. \A i \in 1..la : i \in 1..la + lb /\ i <= la /\ i \in 1..la + 1
    BY <1>2
  <2> QED BY <1>1, <1>4, <2>1
<1>9. \A k \in 1..lb : la + k \in 1..la + lb /\ c[la + k] = b[k] /\ fc[la + k] = fb[k] + ta
  <2> SUFFICES ASSUME NEW k \in 1..lb
               PROVE  la + k \in 1..la + lb /\ c[la + k] = b[k] /\ fc[la + k] = fb[k] + ta
    OBVIOUS
  <2>1. /\ la + k \in 1..la + lb /\ ~(la + k <= la) /\ (la + k) - la = k
        /\ k - 1 \in 0..lb /\ la + (k - 1) + 1 = la + k /\ (k - 1) + 1 = k
    BY <1>2
  <2>2. fc[la + k] = ta + fb[k]
    BY <1>5, <2>1
  <2> QED BY <1>1, <1>2, <2>1, <2>2
<1>10. \A k \in 1..lb : Placed(b[k], fb[k] + ta) = Shift(Placed(b[k], fb[k]), ta)
  <2> SUFFICES ASSUME NEW k \in 1..lb
               PROVE  Placed(b[k], fb[k] + ta) = Shift(Placed(b[k], fb[k]), ta)
    OBVIOUS
  <2>1. b[k] \in Fitting(n) /\ fb[k] \in Int /\ ta \in Int
    BY <1>2
  <2> QED BY <2>1, PlacedShift
<1>11. \A k \in 1..lb : Placed(b[k], fb[k]) \in SUBSET Shot
  BY <1>2, PlacedIs
<1>12. ASSUME NEW p, p \in Film(c) PROVE p \in Film(a) \cup Shift(Film(b), ta)
  <2>1. PICK i \in 1..la + lb : p \in Placed(c[i], fc[i])
    BY <1>7, <1>12
  <2>2. CASE i \in 1..la
    BY <1>7, <1>8, <2>1, <2>2
  <2>3. CASE i \notin 1..la
    <3>1. PICK k \in 1..lb : i = la + k
      <4>1. i - la \in 1..lb /\ i = la + (i - la)
        BY <1>2, <2>3
      <4> QED BY <4>1
    <3>2. p \in Shift(Placed(b[k], fb[k]), ta)
      BY <1>9, <1>10, <2>1, <3>1
    <3> DEFINE shown == Placed(b[k], fb[k])
    <3>3. PICK q \in shown : p = [ref |-> q.ref, pts |-> q.pts, at |-> q.at + ta]
      <4>1. ta \in Int /\ shown \in SUBSET Shot /\ p \in Shift(shown, ta)
        BY <1>2, <1>11, <3>2
      <4> HIDE DEF shown
      <4> QED BY <4>1, ShiftHas
    <3>4. q \in Film(b)
      BY <1>7, <3>3
    <3> QED BY <1>2, <1>7, <3>3, <3>4, ShiftHas
  <2> QED BY <2>2, <2>3
<1>13. ASSUME NEW p, p \in Shift(Film(b), ta) PROVE p \in Film(c)
  <2>1. PICK q \in Film(b) : p = [ref |-> q.ref, pts |-> q.pts, at |-> q.at + ta]
    <3>1. ta \in Int
      BY <1>2
    <3> QED BY <1>7, <1>13, <3>1, ShiftHas
  <2>2. PICK k \in 1..lb : q \in Placed(b[k], fb[k])
    BY <1>7, <2>1
  <2>3. p \in Shift(Placed(b[k], fb[k]), ta)
    BY <1>2, <1>11, <2>1, <2>2, ShiftHas
  <2>4. p \in Placed(c[la + k], fc[la + k]) /\ la + k \in 1..la + lb
    BY <1>9, <1>10, <2>3
  <2> QED BY <1>7, <2>4
<1>14. ASSUME NEW p, p \in Film(a) PROVE p \in Film(c)
  BY <1>7, <1>8, <1>14
<1>15. Film(c) = Film(a) \cup Shift(Film(b), ta)
  <2> HIDE DEF Film
  <2> QED BY <1>12, <1>13, <1>14
<1> QED BY <1>1, <1>6, <1>15 DEF c, ta

\* A segment shows what its two halves show one after the other.
LEMMA PlacedTwo ==
  ASSUME NEW n \in Refs, NEW s \in Fitting(n), NEW at \in Int,
         NEW a \in Fitting(n), NEW b \in Fitting(n), a.ref = s.ref, b.ref = s.ref,
         a.refStart = s.refStart, b.refStart = s.refStart + a.duration,
         s.duration = a.duration + b.duration
  PROVE  Placed(s, at) = Placed(a, at) \cup Placed(b, at + a.duration)
<1> PICK d \in Nat, e \in Nat : d = a.duration /\ e = b.duration
  BY FittingIs
<1>1. s.refStart \in Nat /\ s.duration = d + e
  BY FittingIs
<1>2. Placed(a, at) = {p \in Placed(s, at) : at <= p.at /\ p.at < at + d}
  <2>1. /\ 0 \in Nat /\ a.refStart = s.refStart + 0 /\ 0 + a.duration <= s.duration
        /\ at = at + 0 /\ at + d \in Int /\ at + d = at + a.duration
    BY <1>1
  <2> QED BY <2>1, PlacedPart
<1>3. Placed(b, at + d) = {p \in Placed(s, at) : at + d <= p.at /\ p.at < at + d + e}
  <2>0. PICK x \in Int, y \in Int : x = at + d /\ y = at + d + e
    OBVIOUS
  <2>1. /\ b.refStart = s.refStart + d /\ d + b.duration <= s.duration
        /\ x = at + d /\ y = x + b.duration /\ x \in Int /\ y \in Int
    BY <1>1, <2>0
  <2>2. Placed(b, x) = {p \in Placed(s, at) : x <= p.at /\ p.at < y}
    BY <2>1, PlacedPart
  <2> QED BY <2>0, <2>2
<1>4. ASSUME NEW p \in Placed(s, at)
      PROVE  /\ at <= p.at /\ p.at < at + d + e
             /\ p.at < at + d \/ at + d <= p.at
  <2>1. p.at \in Int /\ at <= p.at /\ p.at < at + s.duration
    BY PlacedIs DEF Shot
  <2> QED BY <1>1, <2>1
<1> QED BY <1>2, <1>3, <1>4

LEMMA FilmAppend ==
  ASSUME NEW n \in Refs, NEW list \in Seq(Fitting(n)), NEW s \in Fitting(n)
  PROVE  /\ Append(list, s) \in Seq(Fitting(n))
         /\ Film(Append(list, s)) = Film(list) \cup Placed(s, GetTotalDuration(list))
         /\ GetTotalDuration(Append(list, s)) = GetTotalDuration(list) + s.duration
<1> DEFINE total == GetTotalDuration(list)
<1>1. Append(list, s) = list \o <<s>>
  BY AppendIsConcat
<1>2. total \in Nat
  BY TotalIs
<1>3. /\ <<s>> \in Seq(Fitting(n))
      /\ Film(<<s>>) = Placed(s, 0) /\ GetTotalDuration(<<s>>) = s.duration
  BY FilmOne
<1>4. Shift(Placed(s, 0), total) = Placed(s, total)
  <2>1. total \in Int /\ 0 \in Int /\ 0 + total = total
    BY <1>2
  <2> HIDE DEF total
  <2> QED BY <2>1, PlacedShift
<1>5. /\ list \o <<s>> \in Seq(Fitting(n))
      /\ Film(list \o <<s>>) = Film(list) \cup Shift(Film(<<s>>), total)
      /\ GetTotalDuration(list \o <<s>>) = total + GetTotalDuration(<<s>>)
  BY <1>3, FilmConcat
<1> QED BY <1>1, <1>3, <1>4, <1>5

\* What joining makes of two segments shows what they show.
LEMMA FilmJoin ==
  ASSUME NEW n \in Refs, NEW list \in Seq(Fitting(n)), NEW s \in Fitting(n)
  PROVE  /\ Join(list, s) \in Seq(Fitting(n))
         /\ Film(Join(list, s)) = Film(list) \cup Placed(s, GetTotalDuration(list))
         /\ GetTotalDuration(Join(list, s)) = GetTotalDuration(list) + s.duration
<1>1. CASE ~(list # <<>> /\ Continuous(Last(list), s))
  <2>1. Join(list, s) = Append(list, s)
    BY <1>1 DEF Join
  <2> QED BY <2>1, FilmAppend
<1>2. CASE list # <<>> /\ Continuous(Last(list), s)
  <2>1. PICK front \in Seq(Fitting(n)), t \in Fitting(n) : list = Append(front, t)
    BY <1>2, SequenceEmptyOrAppend
  <2> DEFINE m == Len(list)
             u == [t EXCEPT !.duration = @ + s.duration]
             new == [list EXCEPT ![m] = u]
             total == GetTotalDuration(front)
  <2>2. /\ m = Len(front) + 1 /\ Len(front) \in Nat /\ list[m] = t /\ DOMAIN list = 1..m
        /\ \A i \in 1..Len(front) : list[i] = front[i]
    BY <2>1, AppendProperties, LenProperties
  <2>3. Continuous(t, s)
    BY <1>2, <2>2 DEF Last
  <2>4. u \in Fitting(n)
    BY <2>3, ClosedFitting DEF Closed
  <2>5. /\ t.refStart \in Nat /\ t.duration \in Nat /\ s.duration \in Nat
        /\ t \in Segment /\ s.ref = t.ref /\ s.refStart = t.refStart + t.duration
    BY <2>3, FittingIs DEF Continuous
  <2>6. u.ref = t.ref /\ u.refStart = t.refStart /\ u.duration = t.duration + s.duration
    BY <2>5 DEF Segment
  <2>7. Join(list, s) = new
    <3>1. [list EXCEPT ![Len(list)].duration = @ + s.duration] = new
      BY <2>2
    <3> QED BY <1>2, <3>1 DEF Join
  <2> HIDE DEF u
  <2>8. new = Append(front, u)
    <3>1. /\ new \in Seq(Fitting(n)) /\ Len(new) = m
          /\ \A j \in 1..m : new[j] = IF j = m THEN u ELSE list[j]
      <4>1. m \in 1..Len(list)
        BY <2>2
      <4> QED BY <2>4, <4>1, ExceptSeq
    <3> HIDE DEF new, m
    <3> DEFINE other == Append(front, u)
    <3>2. /\ other \in Seq(Fitting(n)) /\ Len(other) = m /\ other[m] = u
          /\ \A i \in 1..Len(front) : other[i] = front[i]
      BY <2>2, <2>4, AppendProperties
    <3>3. \A j \in 1..m : j = m \/ j \in 1..Len(front)
      BY <2>2
    <3> HIDE DEF other
    <3>4. \A j \in 1..Len(new) : new[j] = other[j]
      BY <2>2, <3>1, <3>2, <3>3
    <3>5. new = other
      BY <3>1, <3>2, <3>4, SeqEqual
    <3> QED BY <3>5 DEF other
  <2> HIDE DEF new, m
  <2>9. /\ total \in Nat
        /\ Film(list) = Film(front) \cup Placed(t, total)
        /\ GetTotalDuration(list) = total + t.duration
        /\ new \in Seq(Fitting(n))
        /\ Film(new) = Film(front) \cup Placed(u, total)
        /\ GetTotalDuration(new) = total + u.duration
    BY <2>1, <2>4, <2>8, FilmAppend, TotalIs
  <2> HIDE DEF total
  <2>10. Placed(u, total) = Placed(t, total) \cup Placed(s, total + t.duration)
    <3>1. total \in Int /\ t.ref = u.ref /\ s.ref = u.ref /\ t.refStart = u.refStart
          /\ s.refStart = u.refStart + t.duration /\ u.duration = t.duration + s.duration
      BY <2>5, <2>6, <2>9
    <3> QED BY <2>4, <3>1, PlacedTwo
  <2>11. total + u.duration = (total + t.duration) + s.duration
    BY <2>5, <2>6, <2>9
  <2> QED BY <2>7, <2>9, <2>10, <2>11
<1> QED BY <1>1, <1>2

\* The segments up to one, and those before it.
LEMMA UptoIs ==
  ASSUME NEW S, NEW list \in Seq(S)
  PROVE  /\ Len(list) \in Nat /\ SubSeq(list, 1, 0) = <<>> /\ SubSeq(list, 1, Len(list)) = list
         /\ \A k \in 1..Len(list) :
              /\ list[k] \in S /\ SubSeq(list, 1, k - 1) \in Seq(S)
              /\ SubSeq(list, 1, k) = Append(SubSeq(list, 1, k - 1), list[k])
<1>1. Len(list) \in Nat /\ \A k \in 1..Len(list) : list[k] \in S
  BY LenProperties, ElementOfSeq
<1>2. SubSeq(list, 1, 0) = <<>> /\ SubSeq(list, 1, Len(list)) = list
  BY SubSeqEmpty, SubSeqFull
<1>3. ASSUME NEW k \in 1..Len(list)
      PROVE  /\ SubSeq(list, 1, k - 1) \in Seq(S)
             /\ SubSeq(list, 1, k) = Append(SubSeq(list, 1, k - 1), list[k])
  <2>1. \A i \in 1..k - 1 : list[i] \in S
    BY <1>1
  <2>2. SubSeq(list, 1, k - 1) \in Seq(S)
    BY <1>1, <2>1, SubSeqProperties
  <2>3. SubSeq(list, 1, k) = SubSeq(list, 1, k - 1) \o <<list[k]>>
    <3>1. 1 \in 1..Len(list) /\ k \in 1..Len(list)
      BY <1>1
    <3> QED BY <3>1, SubSeqRecursiveSecond
  <2> QED BY <1>1, <2>2, <2>3, AppendIsConcat
<1> QED BY <1>1, <1>2, <1>3

LEMMA FilmRemoveEmpty ==
  ASSUME NEW n \in Refs, NEW list \in Seq(Fitting(n))
  PROVE  /\ RemoveEmptySegments(list) \in Seq(Fitting(n))
         /\ Film(RemoveEmptySegments(list)) = Film(list)
         /\ GetTotalDuration(RemoveEmptySegments(list)) = GetTotalDuration(list)
<1> DEFINE m == Len(list)
           upto(k) == SubSeq(list, 1, k)
<1>1. /\ m \in Nat /\ upto(0) = <<>> /\ upto(m) = list
      /\ \A k \in 1..m : /\ list[k] \in Fitting(n) /\ upto(k - 1) \in Seq(Fitting(n))
                         /\ upto(k) = Append(upto(k - 1), list[k])
  BY UptoIs
<1>2. PICK kept : /\ kept[0] = <<>> /\ kept[m] = RemoveEmptySegments(list)
                  /\ \A k \in 1..m : kept[k] = IF list[k].duration = 0 THEN kept[k - 1]
                                               ELSE Append(kept[k - 1], list[k])
  <2>1. \A s \in Fitting(n) : s.duration \in Nat
    BY FittingIs
  <2> QED BY <2>1, RemoveEmptySegmentsSteps
<1> HIDE DEF m, upto
<1> DEFINE T == {k \in 0..m : /\ kept[k] \in Seq(Fitting(n))
                              /\ Film(kept[k]) = Film(upto(k))
                              /\ GetTotalDuration(kept[k]) = GetTotalDuration(upto(k))}
<1>3. 0 \in T
  <2>1. 0 \in 0..m /\ kept[0] \in Seq(Fitting(n))
    BY <1>1, <1>2, EmptySeq
  <2> QED BY <1>1, <1>2, <2>1
<1>4. ASSUME NEW k \in 1..m, k - 1 \in T PROVE k \in T
  <2> DEFINE before == kept[k - 1]
             part == upto(k - 1)
             s == list[k]
  <2>1. /\ before \in Seq(Fitting(n)) /\ Film(before) = Film(part) /\ k \in 0..m
        /\ GetTotalDuration(before) = GetTotalDuration(part)
    BY <1>4
  <2>2. /\ s \in Fitting(n) /\ part \in Seq(Fitting(n)) /\ upto(k) = Append(part, s)
        /\ kept[k] = IF s.duration = 0 THEN before ELSE Append(before, s)
    BY <1>1, <1>2
  <2> HIDE DEF before, part, s
  <2>3. /\ Film(upto(k)) = Film(part) \cup Placed(s, GetTotalDuration(part))
        /\ GetTotalDuration(upto(k)) = GetTotalDuration(part) + s.duration
        /\ GetTotalDuration(part) \in Nat
    BY <2>2, FilmAppend, TotalIs
  <2>4. CASE s.duration = 0
    <3>1. Placed(s, GetTotalDuration(part)) = {}
      <4>1. GetTotalDuration(part) \in Int
        BY <2>3
      <4> QED BY <2>2, <2>4, <4>1, PlacedEmpty
    <3>2. GetTotalDuration(upto(k)) = GetTotalDuration(part)
      BY <2>3, <2>4
    <3> QED BY <2>1, <2>2, <2>3, <2>4, <3>1, <3>2
  <2>5. CASE s.duration # 0
    <3>1. /\ kept[k] \in Seq(Fitting(n))
          /\ Film(kept[k]) = Film(before) \cup Placed(s, GetTotalDuration(before))
          /\ GetTotalDuration(kept[k]) = GetTotalDuration(before) + s.duration
      BY <2>1, <2>2, <2>5, FilmAppend
    <3> QED BY <2>1, <2>3, <3>1
  <2> QED BY <2>4, <2>5
<1>5. m \in T
  <2>1. m \in 0..m
    BY <1>1
  <2> HIDE DEF T
  <2> QED BY <1>1, <1>3, <1>4, <2>1, UpTo
<1> QED BY <1>1, <1>2, <1>5

LEMMA FilmMerge ==
  ASSUME NEW n \in Refs, NEW list \in Seq(Fitting(n))
  PROVE  /\ MergeContinuousSegments(list) \in Seq(Fitting(n))
         /\ Film(MergeContinuousSegments(list)) = Film(list)
         /\ GetTotalDuration(MergeContinuousSegments(list)) = GetTotalDuration(list)
<1> DEFINE m == Len(list)
           upto(k) == SubSeq(list, 1, k)
<1>1. /\ m \in Nat /\ upto(0) = <<>> /\ upto(m) = list
      /\ \A k \in 1..m : /\ list[k] \in Fitting(n) /\ upto(k - 1) \in Seq(Fitting(n))
                         /\ upto(k) = Append(upto(k - 1), list[k])
  BY UptoIs
<1>2. PICK done : /\ done[0] = <<>> /\ done[m] = MergeContinuousSegments(list)
                  /\ \A k \in 1..m : done[k] = Join(done[k - 1], list[k])
  BY ClosedFitting, MergeContinuousSegmentsSteps
<1> HIDE DEF m, upto
<1> DEFINE T == {k \in 0..m : /\ done[k] \in Seq(Fitting(n))
                              /\ Film(done[k]) = Film(upto(k))
                              /\ GetTotalDuration(done[k]) = GetTotalDuration(upto(k))}
<1>3. 0 \in T
  <2>1. 0 \in 0..m /\ done[0] \in Seq(Fitting(n))
    BY <1>1, <1>2, EmptySeq
  <2> QED BY <1>1, <1>2, <2>1
<1>4. ASSUME NEW k \in 1..m, k - 1 \in T PROVE k \in T
  <2> DEFINE before == done[k - 1]
             part == upto(k - 1)
             s == list[k]
  <2>1. /\ before \in Seq(Fitting(n)) /\ Film(before) = Film(part) /\ k \in 0..m
        /\ GetTotalDuration(before) = GetTotalDuration(part)
    BY <1>4
  <2>2. /\ s \in Fitting(n) /\ part \in Seq(Fitting(n)) /\ upto(k) = Append(part, s)
        /\ done[k] = Join(before, s)
    BY <1>1, <1>2
  <2> HIDE DEF before, part, s
  <2>3. /\ Film(upto(k)) = Film(part) \cup Placed(s, GetTotalDuration(part))
        /\ GetTotalDuration(upto(k)) = GetTotalDuration(part) + s.duration
    BY <2>2, FilmAppend
  <2>4. /\ done[k] \in Seq(Fitting(n))
        /\ Film(done[k]) = Film(before) \cup Placed(s, GetTotalDuration(before))
        /\ GetTotalDuration(done[k]) = GetTotalDuration(before) + s.duration
    BY <2>1, <2>2, FilmJoin
  <2> QED BY <2>1, <2>3, <2>4
<1>5. m \in T
  <2>1. m \in 0..m
    BY <1>1
  <2> HIDE DEF T
  <2> QED BY <1>1, <1>3, <1>4, <2>1, UpTo
<1> QED BY <1>1, <1>2, <1>5

\* The place of the k-th of the pictures: the time k[2], shown by the segment k[1].
PlaceOf(list, k) == DurationBefore(list)[k[1]] + k[2] - list[k[1]].refStart

ShotOf(list, k) == [ref |-> list[k[1]].ref, pts |-> k[2], at |-> PlaceOf(list, k)]

Shots(list) == {k \in (1..Len(list)) \X Nat : k[2] \in TimesOf(list[k[1]])}

Precedes(j, k) == j[1] < k[1] \/ (j[1] = k[1] /\ j[2] < k[2])

LEMMA ShotsAre ==
  ASSUME NEW n \in Refs, NEW list \in Seq(Fitting(n))
  PROVE  /\ Film(list) = {ShotOf(list, k) : k \in Shots(list)}
         /\ \A k \in Shots(list) :
              PlaceOf(list, k) \in Nat /\ PlaceOf(list, k) < GetTotalDuration(list)
<1>1. Len(list) \in Nat /\ GetTotalDuration(list) \in Nat
  BY TotalIs
<1>2. ASSUME NEW p \in Film(list) PROVE \E k \in Shots(list) : p = ShotOf(list, k)
  <2>1. PICK i \in 1..Len(list) : p \in Placed(list[i], DurationBefore(list)[i])
    BY FilmHas
  <2>2. PICK pts \in TimesOf(list[i]) :
          p = [ref |-> list[i].ref, pts |-> pts,
               at |-> DurationBefore(list)[i] + pts - list[i].refStart]
    BY <2>1, PlacedHas
  <2>3. list[i] \in Fitting(n) /\ pts \in Nat
    BY TotalIs, TimesAre
  <2> DEFINE k == <<i, pts>>
  <2>4. k \in Shots(list)
    BY <2>3 DEF Shots
  <2>5. p = ShotOf(list, k)
    BY <2>2 DEF ShotOf, PlaceOf
  <2> QED BY <2>4, <2>5
<1>3. ASSUME NEW k \in Shots(list)
      PROVE  /\ ShotOf(list, k) \in Film(list)
             /\ PlaceOf(list, k) \in Nat /\ PlaceOf(list, k) < GetTotalDuration(list)
  <2>1. k[1] \in 1..Len(list) /\ k[2] \in TimesOf(list[k[1]])
    BY DEF Shots
  <2> DEFINE i == k[1]
             pts == k[2]
  <2>2. ShotOf(list, k) \in Placed(list[i], DurationBefore(list)[i])
    BY <2>1, PlacedHas DEF ShotOf, PlaceOf
  <2>3. ShotOf(list, k) \in Film(list)
    BY <2>1, <2>2, FilmHas
  <2>4. ShotOf(list, k).at = PlaceOf(list, k)
    BY DEF ShotOf
  <2>5. /\ ShotOf(list, k) \in Shot
        /\ 0 <= PlaceOf(list, k) /\ PlaceOf(list, k) < GetTotalDuration(list)
    BY <2>3, <2>4, FilmIs
  <2>6. PlaceOf(list, k) \in Int
    BY <2>4, <2>5 DEF Shot
  <2> QED BY <2>3, <2>5, <2>6
<1> HIDE DEF Shots
<1> QED BY <1>2, <1>3

\* What is shown before is placed before.
LEMMA ShotsInOrder ==
  ASSUME NEW n \in Refs, NEW list \in Seq(Fitting(n)),
         NEW j \in Shots(list), NEW k \in Shots(list)
  PROVE  /\ PlaceOf(list, j) < PlaceOf(list, k) <=> Precedes(j, k)
         /\ j = k \/ Precedes(j, k) \/ Precedes(k, j)
<1> DEFINE sum == DurationBefore(list)
<1>1. /\ Len(list) \in Nat /\ Durations(list) /\ Sums(sum, list, Len(list))
      /\ \A i \in 1..Len(list) : /\ list[i] \in Fitting(n) /\ sum[i] \in Nat
                                 /\ sum[i + 1] = sum[i] + list[i].duration
  BY TotalIs
<1>2. ASSUME NEW x \in Shots(list)
      PROVE  /\ x[1] \in 1..Len(list) /\ x = <<x[1], x[2]>>
             /\ sum[x[1]] \in Nat /\ x[2] \in Nat /\ PlaceOf(list, x) \in Nat
             /\ list[x[1]].refStart \in Nat /\ list[x[1]].duration \in Nat
             /\ list[x[1]].refStart <= x[2] /\ x[2] < list[x[1]].refStart + list[x[1]].duration
             /\ sum[x[1]] <= PlaceOf(list, x)
             /\ PlaceOf(list, x) < sum[x[1] + 1]
  <2>1. x[1] \in 1..Len(list) /\ x[2] \in TimesOf(list[x[1]]) /\ x = <<x[1], x[2]>>
    BY DEF Shots
  <2>2. list[x[1]] \in Fitting(n) /\ sum[x[1]] \in Nat
        /\ sum[x[1] + 1] = sum[x[1]] + list[x[1]].duration
    BY <1>1, <2>1
  <2>3. /\ list[x[1]].refStart \in Nat /\ list[x[1]].duration \in Nat /\ x[2] \in Nat
        /\ list[x[1]].refStart <= x[2] /\ x[2] < list[x[1]].refStart + list[x[1]].duration
    BY <2>1, <2>2, FittingIs, TimesAre
  <2>4. PlaceOf(list, x) = sum[x[1]] + x[2] - list[x[1]].refStart
    BY DEF PlaceOf
  <2> HIDE DEF sum
  <2> QED BY <2>1, <2>2, <2>3, <2>4
<1> HIDE DEF sum
<1>3. ASSUME NEW x \in Shots(list), NEW y \in Shots(list), Precedes(x, y)
      PROVE  PlaceOf(list, x) < PlaceOf(list, y)
  <2>1. CASE x[1] < y[1]
    <3>1. PICK i \in 1..Len(list), m \in 1..Len(list) : i = x[1] /\ m = y[1] /\ i < m
      BY <1>2, <2>1
    <3>2. i + 1 \in 1..Len(list) + 1 /\ m \in i + 1..Len(list) + 1
      BY <1>1, <3>1
    <3>3. sum[i + 1] <= sum[m] /\ sum[i + 1] \in Nat /\ sum[m] \in Nat
      BY <1>1, <3>2, SumsGrow
    <3>4. PlaceOf(list, x) \in Nat /\ PlaceOf(list, x) < sum[i + 1]
      BY <1>2, <3>1
    <3>5. PlaceOf(list, y) \in Nat /\ sum[m] <= PlaceOf(list, y)
      BY <1>2, <3>1
    <3> QED BY <3>3, <3>4, <3>5
  <2>2. CASE x[1] = y[1] /\ x[2] < y[2]
    <3>1. /\ PlaceOf(list, x) = sum[x[1]] + x[2] - list[x[1]].refStart
          /\ PlaceOf(list, y) = sum[x[1]] + y[2] - list[x[1]].refStart
      BY <2>2 DEF PlaceOf, sum
    <3>2. sum[x[1]] \in Nat /\ x[2] \in Nat /\ y[2] \in Nat /\ list[x[1]].refStart \in Nat
      BY <1>2
    <3> QED BY <2>2, <3>1, <3>2
  <2> QED BY <1>3, <2>1, <2>2 DEF Precedes
<1>4. j = k \/ Precedes(j, k) \/ Precedes(k, j)
  <2>1. /\ j[1] \in Nat /\ k[1] \in Nat /\ j[2] \in Nat /\ k[2] \in Nat
        /\ j = <<j[1], j[2]>> /\ k = <<k[1], k[2]>>
    BY <1>1, <1>2
  <2>2. j[1] = k[1] /\ j[2] = k[2] => j = k
    BY <2>1
  <2> QED BY <2>1, <2>2 DEF Precedes
<1>5. PlaceOf(list, j) < PlaceOf(list, k) => Precedes(j, k)
  <2>1. PlaceOf(list, j) \in Nat /\ PlaceOf(list, k) \in Nat
    BY <1>2
  <2>2. Precedes(k, j) => PlaceOf(list, k) < PlaceOf(list, j)
    BY <1>3
  <2> QED BY <1>4, <2>1, <2>2
<1> QED BY <1>3, <1>4, <1>5

\* So the number of those before a picture is that of the shots that precede it.
LEMMA NumberedBy ==
  ASSUME NEW n \in Refs, NEW list \in Seq(Fitting(n)), NEW k \in Shots(list)
  PROVE  Cardinality({q \in Film(list) : q.at < PlaceOf(list, k)})
           = Cardinality({j \in Shots(list) : Precedes(j, k)})
<1> DEFINE S == {j \in Shots(list) : Precedes(j, k)}
           T == {q \in Film(list) : q.at < PlaceOf(list, k)}
           place == [j \in Shots(list) |-> PlaceOf(list, j)]
           shot == [j \in S |-> ShotOf(list, j)]
           total == GetTotalDuration(list)
<1>1. /\ Film(list) = {ShotOf(list, j) : j \in Shots(list)} /\ total \in Nat
      /\ \A j \in Shots(list) : PlaceOf(list, j) \in Nat /\ PlaceOf(list, j) < total
  BY ShotsAre, TotalIs
<1>2. \A j \in Shots(list), i \in Shots(list) :
        /\ PlaceOf(list, i) < PlaceOf(list, j) <=> Precedes(i, j)
        /\ i = j \/ Precedes(i, j) \/ Precedes(j, i)
  BY ShotsInOrder
<1>3. \A i \in Shots(list), j \in Shots(list) : PlaceOf(list, i) = PlaceOf(list, j) => i = j
  <2> HIDE DEF Shots
  <2> QED BY <1>1, <1>2
<1>4. IsFiniteSet(Shots(list))
  <2>1. place \in [Shots(list) -> 0..total]
    <3>1. \A j \in Shots(list) : PlaceOf(list, j) \in 0..total
      BY <1>1
    <3> QED BY <3>1
  <2>2. \A i \in Shots(list), j \in Shots(list) : place[i] = place[j] => i = j
    BY <1>3
  <2> HIDE DEF place
  <2>3. place \in Injection(Shots(list), 0..total)
    BY <2>1, <2>2, Fun_IsInj
  <2>4. IsFiniteSet(0..total)
    BY <1>1, FS_Interval
  <2> QED BY <2>3, <2>4, FS_Injection
<1>5. S \in SUBSET Shots(list)
  OBVIOUS
<1>6. IsFiniteSet(S)
  <2> HIDE DEF S
  <2> QED BY <1>4, <1>5, FS_Subset
<1>7. \A j \in Shots(list) : ShotOf(list, j).at = PlaceOf(list, j)
  BY DEF ShotOf
<1>8. shot \in [S -> T]
  <2>1. \A j \in S : ShotOf(list, j) \in T
    <3> HIDE DEF Shots
    <3> QED BY <1>1, <1>2, <1>7
  <2> HIDE DEF S, T
  <2> QED BY <2>1
<1>9. \A i \in S, j \in S : shot[i] = shot[j] => i = j
  <2>1. \A j \in S : shot[j].at = PlaceOf(list, j)
    BY <1>5, <1>7
  <2> HIDE DEF S, shot
  <2> QED BY <1>3, <1>5, <2>1
<1>10. \A q \in T : \E j \in S : shot[j] = q
  <2> SUFFICES ASSUME NEW q \in T PROVE \E j \in S : shot[j] = q
    OBVIOUS
  <2>1. PICK j \in Shots(list) : q = ShotOf(list, j)
    BY <1>1
  <2>2. PlaceOf(list, j) < PlaceOf(list, k)
    BY <1>7, <2>1
  <2>3. j \in S
    BY <1>2, <2>2
  <2>4. shot[j] = q
    BY <2>1, <2>3
  <2> QED BY <2>3, <2>4
<1> HIDE DEF S, T, shot
<1>11. shot \in Bijection(S, T)
  <2>1. shot \in Surjection(S, T)
    BY <1>8, <1>10, Fun_IsSurj
  <2> QED BY <1>8, <1>9, <2>1, Fun_IsBij
<1>12. ExistsBijection(S, T)
  BY <1>11, Fun_ExistsBij
<1> QED BY <1>6, <1>12, FS_Bijection DEF S, T

\* Lists that show the same times show the same pictures in the same order.
LEMMA SameShots ==
  ASSUME NEW n \in Refs, NEW list \in Seq(Fitting(n)), NEW more \in Seq(Fitting(n)),
         Len(more) = Len(list),
         \A i \in 1..Len(list) : more[i].ref = list[i].ref /\ TimesOf(more[i]) = TimesOf(list[i])
  PROVE  SamePictures(Film(more), Film(list))
<1> DEFINE before(k) == Cardinality({j \in Shots(list) : Precedes(j, k)})
           numbered(k) == [ref |-> list[k[1]].ref, pts |-> k[2], nr |-> before(k)]
<1>1. Shots(more) = Shots(list)
  <2>1. \A k \in (1..Len(list)) \X Nat : TimesOf(more[k[1]]) = TimesOf(list[k[1]])
    <3>1. \A k \in (1..Len(list)) \X Nat : k[1] \in 1..Len(list)
      OBVIOUS
    <3> QED BY <3>1
  <2> QED BY <2>1 DEF Shots
<1>2. \A k \in Shots(list) : more[k[1]].ref = list[k[1]].ref
  BY DEF Shots
<1>3. ASSUME NEW l \in Seq(Fitting(n)), Shots(l) = Shots(list),
             \A k \in Shots(list) : l[k[1]].ref = list[k[1]].ref
      PROVE  InOrder(Film(l)) = {numbered(k) : k \in Shots(list)}
  <2> DEFINE nr(p) == Cardinality({q \in Film(l) : q.at < p.at})
             entry(p) == [ref |-> p.ref, pts |-> p.pts, nr |-> nr(p)]
  <2>1. InOrder(Film(l)) = {entry(p) : p \in Film(l)}
    BY DEF InOrder
  <2>2. Film(l) = {ShotOf(l, k) : k \in Shots(list)}
    BY <1>3, ShotsAre
  <2>3. ASSUME NEW k \in Shots(list) PROVE entry(ShotOf(l, k)) = numbered(k)
    <3>1. /\ ShotOf(l, k).ref = list[k[1]].ref /\ ShotOf(l, k).pts = k[2]
          /\ ShotOf(l, k).at = PlaceOf(l, k)
      BY <1>3 DEF ShotOf
    <3>2. nr(ShotOf(l, k)) = before(k)
      <4>1. Cardinality({q \in Film(l) : q.at < PlaceOf(l, k)})
              = Cardinality({j \in Shots(l) : Precedes(j, k)})
        <5>1. k \in Shots(l)
          BY <1>3
        <5> QED BY <5>1, NumberedBy
      <4> QED BY <1>3, <3>1, <4>1
    <3> HIDE DEF nr, before
    <3> QED BY <3>1, <3>2
  <2> HIDE DEF entry, numbered
  <2> QED BY <2>1, <2>2, <2>3
<1> HIDE DEF numbered
<1>4. InOrder(Film(list)) = {numbered(k) : k \in Shots(list)}
  BY <1>3
<1>5. InOrder(Film(more)) = {numbered(k) : k \in Shots(list)}
  BY <1>1, <1>2, <1>3
<1> QED BY <1>4, <1>5 DEF SamePictures

\* Moving the start of a segment to its first picture does not change what it shows.
LEMMA MovedShows ==
  ASSUME NEW n \in Refs, NEW s \in Fitting(n)
  PROVE  TimesOf(MoveStart(s)) = TimesOf(s)
<1> DEFINE pts == StartPts(s.ref, s.refStart)
           new == MoveStart(s)
           shown == ShownTimes[s.ref]
<1>1. /\ s \in Segment /\ s.ref \in Refs /\ s.refStart \in Nat /\ s.duration \in Nat
      /\ shown \subseteq Nat
  BY FittingIs, ShownIs
<1>2. pts \in Nat /\ s.refStart <= pts
  BY <1>1, StartPtsIs
<1>3. new.ref = s.ref /\ new.refStart = pts
      /\ new.duration = Positive(s.duration - (pts - s.refStart))
  BY <1>1 DEF MoveStart, Segment
<1>4. \A x \in shown : x >= s.refStart => x >= pts
  <2> DEFINE later == {x \in shown : x >= s.refStart}
  <2>1. CASE later = {}
    BY <2>1
  <2>2. CASE later # {}
    <3>1. pts = FirstOf(later)
      BY <2>2 DEF StartPts
    <3>2. later \in SUBSET Nat
      BY <1>1
    <3> HIDE DEF later, pts
    <3>3. \A x \in later : pts <= x
      BY <2>2, <3>1, <3>2, FirstOfIs
    <3> QED BY <1>1, <1>2, <3>3 DEF later
  <2> QED BY <2>1, <2>2
<1>5. ASSUME NEW x \in shown
      PROVE  /\ s.refStart <= x /\ x < s.refStart + s.duration
             <=> new.refStart <= x /\ x < new.refStart + new.duration
  <2>1. x \in Nat /\ (x >= s.refStart => x >= pts)
    BY <1>1, <1>4
  <2>2. CASE s.duration - (pts - s.refStart) > 0
    <3>1. new.refStart = pts /\ new.duration = s.duration - (pts - s.refStart)
      BY <1>3, <2>2 DEF Positive
    <3> HIDE DEF pts, new
    <3> QED BY <1>1, <1>2, <2>1, <3>1
  <2>3. CASE ~(s.duration - (pts - s.refStart) > 0)
    <3>1. new.refStart = pts /\ new.duration = 0
      BY <1>3, <2>3 DEF Positive
    <3> HIDE DEF pts, new
    <3> QED BY <1>1, <1>2, <2>1, <2>3, <3>1
  <2> QED BY <2>2, <2>3
<1>6. /\ TimesOf(s) = {x \in shown : s.refStart <= x /\ x < s.refStart + s.duration}
      /\ TimesOf(new) = {x \in shown : new.refStart <= x /\ x < new.refStart + new.duration}
  BY <1>3 DEF TimesOf
<1> HIDE DEF new, shown, pts
<1>7. TimesOf(new) = TimesOf(s)
  BY <1>5, <1>6
<1> QED BY <1>7 DEF new

LEMMA UpdatedShows ==
  ASSUME NEW n \in Refs, NEW list \in Seq(Fitting(n))
  PROVE  SamePictures(Film(UpdateStartTime(list)), Film(list))
<1> DEFINE moved == [i \in DOMAIN list |-> MoveStart(list[i])]
           new == UpdateStartTime(list)
<1>1. /\ DOMAIN list = 1..Len(list) /\ \A i \in 1..Len(list) : list[i] \in Fitting(n)
      /\ new \in Seq(Fitting(n)) /\ Len(new) = Len(list)
  BY ListIs, UpdateStartTimeIs
<1>2. ASSUME NEW i \in 1..Len(list)
      PROVE  new[i].ref = list[i].ref /\ TimesOf(new[i]) = TimesOf(list[i])
  <2> DEFINE m == MoveStart(list[i])
  <2>1. moved[i] = m
    BY <1>1
  <2>2. new[i] = [m EXCEPT !.start = DurationBefore(moved)[i]]
    BY <1>1, <2>1 DEF UpdateStartTime
  <2>3. m \in Segment /\ m.ref = list[i].ref
    BY <1>1, MoveStartIs, FittingIs
  <2>4. TimesOf(m) = TimesOf(list[i])
    BY <1>1, MovedShows
  <2> HIDE DEF m, moved, new
  <2>5. new[i].ref = m.ref /\ new[i].refStart = m.refStart /\ new[i].duration = m.duration
    BY <2>2, <2>3 DEF Segment
  <2> QED BY <2>3, <2>4, <2>5 DEF TimesOf
<1> HIDE DEF new
<1>3. SamePictures(Film(new), Film(list))
  BY <1>1, <1>2, SameShots
<1> QED BY <1>3 DEF new

LEMMA UpdatedFilm ==
  ASSUME NEW n \in Refs, NEW list \in Seq(Playing(n))
  PROVE  Film(UpdateStartTime(list)) = Film(list)
<1> DEFINE new == UpdateStartTime(list)
           fl == DurationBefore(list)
           fn == DurationBefore(new)
<1>1. /\ list \in Seq(Fitting(n)) /\ new \in Seq(Fitting(n)) /\ Len(new) = Len(list)
      /\ \A i \in 1..Len(list) :
           /\ list[i] \in Playing(n)
           /\ new[i].ref = list[i].ref
           /\ Settled(list[i]) => /\ new[i].refStart = list[i].refStart
                                  /\ new[i].duration = list[i].duration
  <2>1. list \in Seq(Fitting(n)) /\ \A i \in 1..Len(list) : list[i] \in Playing(n)
    BY UpdateStartTimeKeeps, ElementOfSeq
  <2> QED BY <2>1, UpdateStartTimeIs
<1>2. \A i \in 1..Len(list) : Settled(list[i])
  <2>1. \A i \in 1..Len(list) : list[i] \in Fitting(n)
    BY <1>1, ElementOfSeq
  <2> QED BY <1>1, <2>1, MoveStartIs
<1> HIDE DEF new
<1>3. /\ Len(list) \in Nat /\ Sums(fl, list, Len(list)) /\ Sums(fn, new, Len(new))
  BY <1>1, TotalIs
<1>4. \A i \in 1..Len(list) : fn[i] = fl[i]
  <2>1. Adds(fl, list, Len(list)) /\ Adds(fn, new, Len(list))
    BY <1>1, <1>3 DEF Sums
  <2>2. \A i \in 1..Len(list) : fn[i] = fl[i] /\ i \in 1..Len(list) + 1
    <3>1. \A i \in 1..Len(list) + 1 : fn[i] = fl[i]
      BY <1>1, <1>2, <1>3, <2>1, SumsAgree
    <3>2. \A i \in 1..Len(list) : i \in 1..Len(list) + 1
      BY <1>3
    <3> QED BY <3>1, <3>2
  <2> QED BY <2>2
<1>5. \A i \in 1..Len(list) : Placed(new[i], fn[i]) = Placed(list[i], fl[i])
  BY <1>1, <1>2, <1>4 DEF Placed, TimesOf
<1>6. \A p : p \in Film(new) <=> p \in Film(list)
  BY <1>1, <1>5, FilmHas
<1>7. Film(new) = Film(list)
  BY <1>6
<1> QED BY <1>7 DEF new

\* Putting a list in order does not change its pictures, nor where they are
\* placed if each segment starts with one.
LEMMA TidyShows ==
  ASSUME NEW n \in Refs, NEW list \in Seq(Fitting(n))
  PROVE  /\ SamePictures(Film(Tidy(list)), Film(list))
         /\ list \in Seq(Clean(n)) => Film(Tidy(list)) = Film(list)
<1> DEFINE some == RemoveEmptySegments(list)
           few == MergeContinuousSegments(some)
<1>1. Tidy(list) = UpdateStartTime(few)
  BY DEF Tidy
<1>2. ASSUME list \in Seq(Clean(n)) PROVE some \in Seq(Playing(n))
  <2>1. \A s \in Clean(n) : s.duration \in Nat
    BY FittingIs DEF Clean
  <2>2. some \in Seq({s \in Clean(n) : s.duration > 0})
    BY <1>2, <2>1, RemoveEmptySegmentsIs
  <2>3. {s \in Clean(n) : s.duration > 0} \subseteq Playing(n)
    BY DEF Clean, Playing
  <2> HIDE DEF some
  <2> QED BY <2>2, <2>3, SeqMonotonic
<1>3. some \in Seq(Fitting(n)) /\ Film(some) = Film(list)
  BY FilmRemoveEmpty
<1> HIDE DEF some
<1>4. few \in Seq(Fitting(n)) /\ Film(few) = Film(some)
  BY <1>3, FilmMerge
<1>5. some \in Seq(Playing(n)) => few \in Seq(Playing(n))
  BY ClosedFitting, MergeContinuousSegmentsIs
<1> HIDE DEF few
<1>6. SamePictures(Film(UpdateStartTime(few)), Film(few))
  BY <1>4, UpdatedShows
<1>7. list \in Seq(Clean(n)) => Film(UpdateStartTime(few)) = Film(few)
  BY <1>2, <1>5, UpdatedFilm
<1> QED BY <1>1, <1>3, <1>4, <1>6, <1>7

-----------------------------------------------------------------------------
(* The film on both sides of a moment                                      *)

LEMMA ListSplit ==
  ASSUME NEW S, NEW list \in Seq(S), NEW i \in 1..Len(list)
  PROVE  LET a == SubSeq(list, 1, i - 1)
             b == SubSeq(list, i + 1, Len(list))
         IN /\ a \in Seq(S) /\ Len(a) = i - 1 /\ \A k \in 1..i - 1 : a[k] = list[k]
            /\ b \in Seq(S) /\ list[i] \in S
            /\ list = Append(a, list[i]) \o b
<1> DEFINE a == SubSeq(list, 1, i - 1)
           b == SubSeq(list, i + 1, Len(list))
<1>1. Len(list) \in Nat /\ \A k \in 1..Len(list) : list[k] \in S
  BY LenProperties, ElementOfSeq
<1>2. a \in Seq(S) /\ Len(a) = i - 1 /\ \A k \in 1..i - 1 : a[k] = list[k]
  <2>1. \A k \in 1..i - 1 : list[k] \in S
    BY <1>1
  <2>2. /\ a \in Seq(S) /\ Len(a) = IF 1 <= i - 1 THEN (i - 1) - 1 + 1 ELSE 0
        /\ \A k \in 1..(i - 1) - 1 + 1 : a[k] = list[1 + k - 1]
    BY <1>1, <2>1, SubSeqProperties
  <2>3. (i - 1) - 1 + 1 = i - 1 /\ \A k \in 1..i - 1 : 1 + k - 1 = k
    BY <1>1
  <2> HIDE DEF a
  <2> QED BY <1>1, <2>2, <2>3
<1>3. b \in Seq(S)
  <2>1. \A k \in i + 1..Len(list) : list[k] \in S
    BY <1>1
  <2> QED BY <1>1, <2>1, SubSeqProperties
<1>4. list = SubSeq(list, 1, i) \o b
  <2>1. /\ 1 \in 1..Len(list) + 1 /\ i \in 1 - 1..Len(list) /\ Len(list) \in i..Len(list)
    BY <1>1
  <2>2. SubSeq(list, 1, i) \o SubSeq(list, i + 1, Len(list)) = SubSeq(list, 1, Len(list))
    BY <2>1, ConcatAdjacentSubSeq
  <2> QED BY <2>2, SubSeqFull
<1>5. SubSeq(list, 1, i) = Append(a, list[i])
  BY UptoIs
<1> QED BY <1>1, <1>2, <1>3, <1>4, <1>5

\* What is before a segment of the film, the segment, and what is after it.
LEMMA FilmAround ==
  ASSUME NEW n \in Refs, Listed(segments, n), NEW i \in 1..Len(segments)
  PROVE  LET a == SubSeq(segments, 1, i - 1)
             b == SubSeq(segments, i + 1, Len(segments))
             s == segments[i]
         IN /\ a \in Seq(Fitting(n)) /\ b \in Seq(Fitting(n)) /\ s \in Fitting(n)
            /\ GetTotalDuration(a) = s.start /\ s.start \in Nat /\ s.duration \in Nat
            /\ GetTotalDuration(b) \in Nat /\ EndOf(s) = s.start + s.duration
            /\ GetTotalDuration(segments) = EndOf(s) + GetTotalDuration(b)
            /\ Film(segments)
                 = Film(a) \cup Placed(s, s.start) \cup Shift(Film(b), EndOf(s))
<1> DEFINE a == SubSeq(segments, 1, i - 1)
           b == SubSeq(segments, i + 1, Len(segments))
           s == segments[i]
           more == Append(a, s)
<1>1. /\ segments \in Seq(Fitting(n)) /\ Len(segments) \in Nat
      /\ Sums(DurationBefore(segments), segments, Len(segments))
      /\ DurationBefore(segments)[i] = s.start
  BY TotalIs DEF Listed, Started
<1>2. /\ a \in Seq(Fitting(n)) /\ Len(a) = i - 1 /\ \A k \in 1..i - 1 : a[k] = segments[k]
      /\ b \in Seq(Fitting(n)) /\ s \in Fitting(n) /\ segments = more \o b
  BY <1>1, ListSplit
<1> HIDE DEF a, b
<1>3. GetTotalDuration(a) = s.start
  <2>1. Sums(DurationBefore(a), a, i - 1) /\ GetTotalDuration(a) = DurationBefore(a)[i]
    <3>1. /\ Sums(DurationBefore(a), a, Len(a))
          /\ GetTotalDuration(a) = DurationBefore(a)[Len(a) + 1]
      BY <1>2, TotalIs
    <3>2. (i - 1) + 1 = i
      BY <1>1
    <3> QED BY <1>2, <3>1, <3>2
  <2>2. Adds(DurationBefore(a), a, i - 1) /\ Adds(DurationBefore(segments), segments, i - 1)
    BY <1>1, <2>1 DEF Sums, Adds
  <2>3. i - 1 \in Nat /\ i \in 1..(i - 1) + 1
    BY <1>1
  <2>4. \A k \in 1..i - 1 : a[k].duration = segments[k].duration
    BY <1>2
  <2>5. \A k \in 1..(i - 1) + 1 : DurationBefore(a)[k] = DurationBefore(segments)[k]
    BY <2>2, <2>3, <2>4, SumsAgree
  <2> QED BY <1>1, <2>1, <2>3, <2>5
<1>4. s.start \in Nat /\ s.duration \in Nat /\ EndOf(s) = s.start + s.duration
  BY <1>2, FittingIs DEF EndOf
<1> HIDE DEF s, more
<1>5. /\ more \in Seq(Fitting(n))
      /\ Film(more) = Film(a) \cup Placed(s, s.start)
      /\ GetTotalDuration(more) = EndOf(s)
  BY <1>2, <1>3, <1>4, FilmAppend DEF more
<1>6. /\ Film(segments) = Film(more) \cup Shift(Film(b), EndOf(s))
      /\ GetTotalDuration(segments) = EndOf(s) + GetTotalDuration(b)
  BY <1>2, <1>5, FilmConcat
<1>7. GetTotalDuration(b) \in Nat
  BY <1>2, TotalIs
<1> QED BY <1>2, <1>3, <1>4, <1>5, <1>6, <1>7 DEF a, b, s

LEMMA FilmSplit ==
  ASSUME NEW n \in Refs, Listed(segments, n), NEW i \in 1..Len(segments),
         NEW t \in Nat, segments[i].start <= t, t <= EndOf(segments[i])
  PROVE  LET a == SubSeq(segments, 1, i - 1)
             b == SubSeq(segments, i + 1, Len(segments))
             s == segments[i]
             total == GetTotalDuration(segments)
         IN /\ Before(s, t) \in Fitting(n) /\ From(s, t) \in Fitting(n)
            /\ GetTotalDuration(a) + Before(s, t).duration = t
            /\ Film(a) \cup Placed(Before(s, t), GetTotalDuration(a))
                 = Part(Film(segments), 0, t)
            /\ From(s, t).duration + GetTotalDuration(b) = total - t
            /\ t + From(s, t).duration = EndOf(s)
            /\ Placed(From(s, t), t) \cup Shift(Film(b), EndOf(s))
                 = Part(Film(segments), t, total)
<1> DEFINE a == SubSeq(segments, 1, i - 1)
           b == SubSeq(segments, i + 1, Len(segments))
           s == segments[i]
           total == GetTotalDuration(segments)
           u == Before(s, t)
           v == From(s, t)
<1>1. /\ a \in Seq(Fitting(n)) /\ b \in Seq(Fitting(n)) /\ s \in Fitting(n)
      /\ GetTotalDuration(a) = s.start /\ s.start \in Nat /\ s.duration \in Nat
      /\ GetTotalDuration(b) \in Nat /\ EndOf(s) = s.start + s.duration
      /\ total = EndOf(s) + GetTotalDuration(b)
      /\ Film(segments) = Film(a) \cup Placed(s, s.start) \cup Shift(Film(b), EndOf(s))
  BY FilmAround
<1>2. /\ u \in Fitting(n) /\ u.ref = s.ref /\ u.refStart = s.refStart
      /\ u.duration = t - s.start
      /\ v \in Fitting(n) /\ v.ref = s.ref /\ v.refStart = s.refStart + (t - s.start)
      /\ v.duration = s.duration - (t - s.start)
  BY <1>1, PartsFit
<1> HIDE DEF a, b, total, u, v
<1>3. /\ s.start <= t /\ t <= s.start + s.duration
      /\ GetTotalDuration(a) + u.duration = t
      /\ v.duration + GetTotalDuration(b) = total - t
      /\ t + v.duration = EndOf(s)
  BY <1>1, <1>2
<1> HIDE DEF s
<1>4. Placed(u, s.start) = {p \in Placed(s, s.start) : p.at < t}
      /\ Placed(v, t) = {p \in Placed(s, s.start) : t <= p.at}
  <2>0. PICK st \in Nat, du \in Nat, rs \in Nat :
          st = s.start /\ du = s.duration /\ rs = s.refStart
    BY <1>1, FittingIs
  <2>1. st <= t /\ t <= st + du
    BY <1>3, <2>0
  <2>2. /\ u.refStart = rs /\ u.duration = t - st
        /\ v.refStart = rs + (t - st) /\ v.duration = du - (t - st)
    BY <1>2, <2>0
  <2> DEFINE left == Placed(u, st)
             right == Placed(v, t)
  <2>3. Placed(s, st) = left \cup right
    <3>1. PICK d \in Nat, e \in Nat : d = t - st /\ e = du - (t - st)
      BY <2>1
    <3>2. u.duration = d /\ v.duration = e /\ v.refStart = rs + d
      BY <2>2, <3>1
    <3>3. st \in Int /\ st + d = t /\ du = d + e
      BY <2>1, <3>1
    <3>4. /\ s \in Fitting(n) /\ u \in Fitting(n) /\ v \in Fitting(n)
          /\ u.ref = s.ref /\ v.ref = s.ref /\ u.refStart = s.refStart
          /\ v.refStart = s.refStart + u.duration /\ s.duration = u.duration + v.duration
      BY <1>1, <1>2, <2>0, <3>2, <3>3
    <3>5. Placed(s, st) = Placed(u, st) \cup Placed(v, st + u.duration)
      BY <3>3, <3>4, PlacedTwo
    <3> QED BY <3>2, <3>3, <3>5
  <2>4. \A p \in left : p.at < t
    <3>1. st \in Int /\ st + u.duration = t
      BY <2>1, <2>2
    <3> QED BY <1>2, <3>1, PlacedIs
  <2>5. \A p \in right : t <= p.at /\ p.at \in Int
    <3>1. t \in Int
      OBVIOUS
    <3> QED BY <1>2, <3>1, PlacedIs DEF Shot
  <2>6. \A p \in right : ~(p.at < t)
    BY <2>5
  <2>7. \A p \in left : p.at \in Int
    <3>1. st \in Int
      OBVIOUS
    <3> QED BY <1>2, <3>1, PlacedIs DEF Shot
  <2>8. \A p \in left : ~(t <= p.at)
    BY <2>4, <2>7
  <2> HIDE DEF left, right
  <2>9. /\ left = {p \in left \cup right : p.at < t}
        /\ right = {p \in left \cup right : t <= p.at}
    BY <2>4, <2>5, <2>6, <2>8
  <2> QED BY <2>0, <2>3, <2>9 DEF left, right
<1>5. \A p \in Film(a) : p.at \in Int /\ 0 <= p.at /\ p.at < s.start
  BY <1>1, FilmIs DEF Shot
<1>6. \A p \in Placed(s, s.start) : p.at \in Int /\ s.start <= p.at /\ p.at < EndOf(s)
  <2>1. s.start \in Int
    BY <1>1
  <2> QED BY <1>1, <2>1, PlacedIs DEF Shot
<1>7. \A p \in Shift(Film(b), EndOf(s)) : p.at \in Int /\ EndOf(s) <= p.at /\ p.at < total
  <2> SUFFICES ASSUME NEW p \in Shift(Film(b), EndOf(s))
               PROVE  p.at \in Int /\ EndOf(s) <= p.at /\ p.at < total
    OBVIOUS
  <2>1. Film(b) \in SUBSET Shot /\ EndOf(s) \in Int
    BY <1>1, FilmIs
  <2>2. PICK q \in Film(b) : p = [ref |-> q.ref, pts |-> q.pts, at |-> q.at + EndOf(s)]
    BY <2>1, ShiftHas
  <2>3. q.at \in Int /\ 0 <= q.at /\ q.at < GetTotalDuration(b) /\ p.at = q.at + EndOf(s)
    BY <1>1, <2>2, FilmIs DEF Shot
  <2> QED BY <1>1, <2>3
<1> DEFINE x == Film(a)
           y == Placed(s, s.start)
           z == Shift(Film(b), EndOf(s))
<1>8. x \cup Placed(u, s.start) = Part(Film(segments), 0, t)
  <2>1. ASSUME NEW p PROVE p \in x \cup Placed(u, s.start) <=> p \in Part(Film(segments), 0, t)
    <3>1. p \in Part(Film(segments), 0, t) <=> p \in x \cup y \cup z /\ 0 <= p.at /\ p.at < t
      BY <1>1 DEF Part
    <3>2. p \in Placed(u, s.start) <=> p \in y /\ p.at < t
      BY <1>4
    <3>3. /\ p \in x => p.at \in Int /\ 0 <= p.at /\ p.at < s.start
          /\ p \in y => p.at \in Int /\ s.start <= p.at
          /\ p \in z => p.at \in Int /\ EndOf(s) <= p.at
      BY <1>5, <1>6, <1>7
    <3> HIDE DEF x, y, z
    <3>4. p \in x => 0 <= p.at /\ p.at < t
      BY <1>1, <1>3, <3>3
    <3>5. p \in y => 0 <= p.at
      BY <1>1, <3>3
    <3>6. p \in z => ~(p.at < t)
      BY <1>1, <1>3, <3>3
    <3> QED BY <3>1, <3>2, <3>4, <3>5, <3>6
  <2> HIDE DEF x
  <2> QED BY <2>1
<1>9. Placed(v, t) \cup z = Part(Film(segments), t, total)
  <2>1. ASSUME NEW p PROVE p \in Placed(v, t) \cup z <=> p \in Part(Film(segments), t, total)
    <3>1. p \in Part(Film(segments), t, total)
            <=> p \in x \cup y \cup z /\ t <= p.at /\ p.at < total
      BY <1>1 DEF Part
    <3>2. p \in Placed(v, t) <=> p \in y /\ t <= p.at
      BY <1>4
    <3>3. /\ p \in x => p.at \in Int /\ p.at < s.start
          /\ p \in y => p.at \in Int /\ p.at < EndOf(s)
          /\ p \in z => p.at \in Int /\ EndOf(s) <= p.at /\ p.at < total
      BY <1>5, <1>6, <1>7
    <3> HIDE DEF x, y, z
    <3>4. p \in x => ~(t <= p.at)
      BY <1>1, <1>3, <3>3
    <3>5. p \in y => p.at < total
      BY <1>1, <3>3
    <3>6. p \in z => t <= p.at /\ p.at < total
      BY <1>1, <1>3, <3>3
    <3> QED BY <3>1, <3>2, <3>4, <3>5, <3>6
  <2> HIDE DEF z
  <2> QED BY <2>1
<1> QED BY <1>1, <1>2, <1>3, <1>8, <1>9 DEF a, b, s, total, u, v

-----------------------------------------------------------------------------
(* What the operations make of the film                                    *)

LEMMA FilmTwo ==
  ASSUME NEW n \in Refs, NEW s \in Fitting(n), NEW t \in Fitting(n)
  PROVE  /\ <<s, t>> \in Seq(Fitting(n))
         /\ Film(<<s, t>>) = Placed(s, 0) \cup Placed(t, s.duration)
         /\ GetTotalDuration(<<s, t>>) = s.duration + t.duration
<1>1. <<s, t>> = Append(<<s>>, t)
  OBVIOUS
<1>2. /\ <<s>> \in Seq(Fitting(n))
      /\ Film(<<s>>) = Placed(s, 0) /\ GetTotalDuration(<<s>>) = s.duration
  BY FilmOne
<1> QED BY <1>1, <1>2, FilmAppend

LEMMA MomentIs ==
  ASSUME NEW n \in Refs, Listed(segments, n), NEW t \in Nat, SegmentsAt(t) # {}
  PROVE  LET s == segments[SegmentAt(t)] IN
         /\ SegmentAt(t) \in 1..Len(segments) /\ s \in Fitting(n)
         /\ s.start \in Nat /\ EndOf(s) \in Nat
         /\ s.start <= t /\ t <= EndOf(s) /\ t < EndOf(s)
<1> DEFINE s == segments[SegmentAt(t)]
<1>1. SegmentAt(t) \in 1..Len(segments) /\ s.start <= t /\ t < EndOf(s)
  BY SegmentsAtIs
<1>2. s \in Fitting(n)
  BY <1>1, PlacesAre
<1> HIDE DEF s
<1>3. s.start \in Nat /\ EndOf(s) \in Nat
  BY <1>2, FittingIs DEF EndOf
<1> QED BY <1>1, <1>2, <1>3 DEF s

LEMMA FilmCut ==
  ASSUME NEW n \in Refs, Listed(segments, n), NEW from \in Nat, NEW to \in Nat,
         SegmentsAt(from) # {}, SegmentsAt(to) # {}
  PROVE  Film(Cut(from, to))
           = Part(Film(segments), 0, from)
               \cup Shift(Part(Film(segments), to, GetTotalDuration(segments)), from - to)
<1> DEFINE i == SegmentAt(from)
           j == SegmentAt(to)
           a == SubSeq(segments, 1, i - 1)
           b == SubSeq(segments, j + 1, Len(segments))
           u == Before(segments[i], from)
           v == From(segments[j], to)
           total == GetTotalDuration(segments)
           ta == GetTotalDuration(a)
           end == EndOf(segments[j])
<1>1. /\ i \in 1..Len(segments) /\ segments[i].start <= from /\ from <= EndOf(segments[i])
      /\ j \in 1..Len(segments) /\ segments[j].start <= to /\ to <= EndOf(segments[j])
  BY MomentIs
<1>2. /\ u \in Fitting(n) /\ ta + u.duration = from
      /\ Film(a) \cup Placed(u, ta) = Part(Film(segments), 0, from)
  BY <1>1, FilmSplit
<1>3. /\ v \in Fitting(n) /\ to + v.duration = end
      /\ Placed(v, to) \cup Shift(Film(b), end) = Part(Film(segments), to, total)
  BY <1>1, FilmSplit
<1>4. a \in Seq(Fitting(n)) /\ b \in Seq(Fitting(n)) /\ ta \in Nat
  <2>1. a \in Seq(Fitting(n)) /\ b \in Seq(Fitting(n))
    BY <1>1, FilmAround
  <2> QED BY <2>1, TotalIs
<1>5. Cut(from, to) = a \o <<u, v>> \o b
  BY DEF Cut
<1> HIDE DEF i, j, a, b, u, v, total, ta, end
<1>6. /\ <<u, v>> \in Seq(Fitting(n)) /\ u.duration \in Nat /\ v.duration \in Nat
      /\ Film(<<u, v>>) = Placed(u, 0) \cup Placed(v, u.duration)
      /\ GetTotalDuration(<<u, v>>) = u.duration + v.duration
  BY <1>2, <1>3, FilmTwo, FittingIs
<1> DEFINE two == <<u, v>>
           c == a \o two
<1>7. /\ c \in Seq(Fitting(n))
      /\ Film(c) = Film(a) \cup Shift(Film(two), ta)
      /\ GetTotalDuration(c) = ta + (u.duration + v.duration)
  <2> HIDE DEF two
  <2>1. two \in Seq(Fitting(n)) /\ GetTotalDuration(two) = u.duration + v.duration
    BY <1>6 DEF two
  <2> QED BY <1>4, <2>1, FilmConcat DEF ta
<1>8. Film(c \o b) = Film(c) \cup Shift(Film(b), GetTotalDuration(c))
  <2> HIDE DEF c
  <2> QED BY <1>4, <1>7, FilmConcat
<1> HIDE DEF c
<1>9. Shift(Film(two), ta) = Placed(u, ta) \cup Placed(v, from)
  <2>1. /\ Placed(u, 0) \in SUBSET Shot /\ Placed(v, u.duration) \in SUBSET Shot
        /\ Shift(Placed(u, 0), ta) = Placed(u, 0 + ta)
        /\ Shift(Placed(v, u.duration), ta) = Placed(v, u.duration + ta)
    <3>1. 0 \in Int /\ ta \in Int /\ u.duration \in Int
      BY <1>4, <1>6
    <3> QED BY <1>2, <1>3, <3>1, PlacedIs, PlacedShift
  <2>2. 0 + ta = ta /\ u.duration + ta = from
    BY <1>2, <1>4, <1>6
  <2>3. ta \in Int
    BY <1>4
  <2> QED BY <1>6, <2>1, <2>2, <2>3, ShiftJoin
<1>10. Shift(Part(Film(segments), to, total), from - to)
         = Placed(v, from) \cup Shift(Film(b), GetTotalDuration(c))
  <2>1. Film(b) \in SUBSET Shot
    BY <1>4, FilmIs
  <2>2. end \in Int /\ to \in Int /\ from - to \in Int
    BY <1>3, <1>6
  <2>3. Shift(Film(b), end) \in SUBSET Shot
    BY <2>1, <2>2, ShiftIs
  <2>4. /\ Placed(v, to) \in SUBSET Shot
        /\ Shift(Placed(v, to), from - to) = Placed(v, to + (from - to))
    BY <1>3, <2>2, PlacedIs, PlacedShift
  <2>5. Shift(Shift(Film(b), end), from - to) = Shift(Film(b), end + (from - to))
    BY <2>1, <2>2, ShiftIs
  <2>6. to + (from - to) = from /\ end + (from - to) = GetTotalDuration(c)
    <3>1. PICK d \in Nat, e \in Nat, f \in Nat : d = u.duration /\ e = v.duration /\ f = ta
      BY <1>4, <1>6
    <3>2. f + d = from /\ to + e = end /\ GetTotalDuration(c) = f + (d + e)
      BY <1>2, <1>3, <1>7, <3>1
    <3> QED BY <3>2
  <2>7. Shift(Placed(v, to) \cup Shift(Film(b), end), from - to)
          = Shift(Placed(v, to), from - to) \cup Shift(Shift(Film(b), end), from - to)
    BY <2>2, <2>3, <2>4, ShiftJoin
  <2> QED BY <1>3, <2>4, <2>5, <2>6, <2>7
<1>11. Film(c \o b)
         = Part(Film(segments), 0, from) \cup Shift(Part(Film(segments), to, total), from - to)
  BY <1>2, <1>7, <1>8, <1>9, <1>10
<1> QED BY <1>5, <1>11 DEF c, total

LEMMA FilmTruncated ==
  ASSUME NEW n \in Refs, Listed(segments, n), NEW from \in Nat,
         SegmentsAt(from) # {}, ~LosesPictures(from)
  PROVE  Film(Truncated(from)) = Part(Film(segments), 0, from)
<1> DEFINE i == SegmentAt(from)
           a == SubSeq(segments, 1, i - 1)
           u == Before(segments[i], from)
<1>1. i \in 1..Len(segments) /\ segments[i].start <= from /\ from <= EndOf(segments[i])
  BY MomentIs
<1>2. /\ u \in Fitting(n)
      /\ Film(a) \cup Placed(u, GetTotalDuration(a)) = Part(Film(segments), 0, from)
  BY <1>1, FilmSplit
<1>3. a \in Seq(Fitting(n))
  BY <1>1, FilmAround
<1>4. Truncated(from) = a \o (IF DropsSegment(from) THEN <<>> ELSE <<u>>)
  BY DEF Truncated
<1>5. DropsSegment(from) => TimesOf(u) = {}
  BY DEF LosesPictures
<1> HIDE DEF a, u
<1>6. CASE DropsSegment(from)
  <2>1. Truncated(from) = a
    BY <1>3, <1>4, <1>6, ConcatEmptySeq
  <2>2. Placed(u, GetTotalDuration(a)) = {}
    BY <1>5, <1>6 DEF Placed
  <2> QED BY <1>2, <2>1, <2>2
<1>7. CASE ~DropsSegment(from)
  <2>1. Append(a, u) = a \o <<u>>
    BY <1>2, <1>3, AppendIsConcat
  <2> QED BY <1>2, <1>3, <1>4, <1>7, <2>1, FilmAppend
<1> QED BY <1>6, <1>7

LEMMA FilmPasted ==
  ASSUME NEW n \in Refs, Listed(segments, n), clipboard \in Seq(Fitting(n)),
         NEW t \in Moments, segments # <<>>
  PROVE  Film(Pasted(t))
           = Part(Film(segments), 0, t) \cup Shift(Film(clipboard), t)
               \cup Shift(Part(Film(segments), t, GetTotalDuration(segments)),
                          GetTotalDuration(clipboard))
<1> DEFINE total == GetTotalDuration(segments)
           i == IF t >= total THEN Len(segments) ELSE SegmentAt(t)
           at == segments[i]
           a == SubSeq(segments, 1, i - 1)
           b == SubSeq(segments, i + 1, Len(segments))
           u == Before(at, t)
           v == From(at, t)
           ta == GetTotalDuration(a)
           tc == GetTotalDuration(clipboard)
           middle == IF t = at.start THEN Append(clipboard, at)
                     ELSE <<u>> \o clipboard \o <<v>>
           c == a \o middle
<1>1. /\ t \in Nat /\ t <= total /\ total \in Nat /\ segments \in Seq(Fitting(n))
      /\ Len(segments) \in 1..Len(segments)
  <2>1. Len(segments) # 0 /\ segments \in Seq(Fitting(n)) /\ Len(segments) \in Nat
    BY EmptySeq DEF Listed
  <2> QED BY <2>1, PlacesAre DEF Moments
<1>2. i \in 1..Len(segments) /\ at.start <= t /\ t <= EndOf(at)
  <2>1. CASE t >= total
    <3>1. i = Len(segments) /\ t = total
      BY <1>1, <2>1
    <3>2. EndOf(at) = total
      <4>1. Len(segments) # 0
        BY <1>1
      <4> QED BY <3>1, <4>1, PlacesAre
    <3>3. at.start \in Nat /\ at.duration \in Nat /\ EndOf(at) = at.start + at.duration
      BY <1>1, <3>1, FilmAround
    <3> QED BY <1>1, <3>1, <3>2, <3>3
  <2>2. CASE ~(t >= total)
    <3>1. t < total /\ i = SegmentAt(t)
      BY <1>1, <2>2
    <3>2. SegmentsAt(t) # {}
      BY <1>1, <3>1, SegmentsAtIs
    <3> QED BY <1>1, <3>1, <3>2, MomentIs
  <2> QED BY <2>1, <2>2
<1>3. Pasted(t) = c \o b
  BY DEF Pasted
<1> HIDE DEF i
<1>4. /\ u \in Fitting(n) /\ v \in Fitting(n)
      /\ ta + u.duration = t
      /\ Film(a) \cup Placed(u, ta) = Part(Film(segments), 0, t)
      /\ t + v.duration = EndOf(at)
      /\ Placed(v, t) \cup Shift(Film(b), EndOf(at)) = Part(Film(segments), t, total)
  BY <1>1, <1>2, FilmSplit
<1>5. /\ a \in Seq(Fitting(n)) /\ b \in Seq(Fitting(n)) /\ at \in Fitting(n)
      /\ ta = at.start /\ ta \in Nat /\ EndOf(at) \in Nat
  BY <1>2, FilmAround
<1>6. /\ tc \in Nat /\ u.duration \in Nat /\ v.duration \in Nat /\ at.duration \in Nat
      /\ Film(clipboard) \in SUBSET Shot
  BY <1>4, <1>5, TotalIs, FilmIs, FittingIs
<1>7. /\ v.ref = at.ref /\ v.refStart = at.refStart + (t - at.start)
      /\ v.duration = at.duration - (t - at.start)
  BY <1>1, <1>2, <1>5, PartsFit
<1> HIDE DEF total, at, a, b, u, v, ta, tc, middle, c
\* What is put in, with the parts of the segment it is put into.
<1>8. /\ c \in Seq(Fitting(n))
      /\ Film(c) = Film(a) \cup Placed(u, ta) \cup Shift(Film(clipboard), t) \cup Placed(v, t + tc)
      /\ GetTotalDuration(c) = t + tc + v.duration
  <2>1. CASE t = at.start
    <3>1. u.duration = 0 /\ t = ta /\ at.refStart \in Nat
      BY <1>1, <1>4, <1>5, <1>6, <2>1, FittingIs
    <3>2. Placed(u, ta) = {}
      <4>1. ta \in Int
        BY <1>5
      <4> QED BY <1>4, <3>1, <4>1, PlacedEmpty
    <3>3. v.refStart = at.refStart /\ v.duration = at.duration
      <4>1. PICK x \in Nat, y \in Nat : x = at.refStart /\ y = at.duration
        BY <1>6, <3>1
      <4>2. t - at.start = 0
        BY <1>1, <2>1
      <4>3. x + 0 = x /\ y - 0 = y
        OBVIOUS
      <4> QED BY <1>7, <4>1, <4>2, <4>3
    <3>4. Placed(v, t + tc) = Placed(at, t + tc)
      BY <1>7, <3>3 DEF Placed, TimesOf
    <3>5. middle = Append(clipboard, at)
      BY <2>1 DEF middle
    <3>6. /\ middle \in Seq(Fitting(n))
          /\ Film(middle) = Film(clipboard) \cup Placed(at, tc)
          /\ GetTotalDuration(middle) = tc + at.duration
      BY <1>5, <3>5, FilmAppend DEF tc
    <3>7. /\ c \in Seq(Fitting(n))
          /\ Film(c) = Film(a) \cup Shift(Film(middle), ta)
          /\ GetTotalDuration(c) = ta + (tc + at.duration)
      BY <1>5, <3>6, FilmConcat DEF c, ta
    <3>8. Shift(Film(middle), ta) = Shift(Film(clipboard), ta) \cup Placed(at, tc + ta)
      <4>1. ta \in Int /\ tc \in Int
        BY <1>5, <1>6
      <4>2. Placed(at, tc) \in SUBSET Shot /\ Shift(Placed(at, tc), ta) = Placed(at, tc + ta)
        BY <1>5, <4>1, PlacedIs, PlacedShift
      <4>3. Film(clipboard) \in SUBSET Shot
        BY <1>6
      <4>4. Shift(Film(clipboard) \cup Placed(at, tc), ta)
              = Shift(Film(clipboard), ta) \cup Shift(Placed(at, tc), ta)
        BY <4>1, <4>2, <4>3, ShiftJoin
      <4> QED BY <3>6, <4>2, <4>4
    <3>9. tc + ta = t + tc /\ ta + (tc + at.duration) = t + tc + v.duration
      BY <1>1, <1>6, <3>1, <3>3
    <3> QED BY <3>1, <3>2, <3>4, <3>7, <3>8, <3>9
  <2>2. CASE t # at.start
    <3> DEFINE one == <<u>>
               last == <<v>>
               d == one \o clipboard
    <3>1. middle = d \o last
      BY <2>2 DEF middle
    <3>2. /\ one \in Seq(Fitting(n)) /\ Film(one) = Placed(u, 0)
          /\ GetTotalDuration(one) = u.duration
          /\ last \in Seq(Fitting(n)) /\ Film(last) = Placed(v, 0)
          /\ GetTotalDuration(last) = v.duration
      BY <1>4, FilmOne
    <3> HIDE DEF one, last
    <3>3. /\ d \in Seq(Fitting(n))
          /\ Film(d) = Placed(u, 0) \cup Shift(Film(clipboard), u.duration)
          /\ GetTotalDuration(d) = u.duration + tc
      BY <3>2, FilmConcat DEF tc
    <3> HIDE DEF d
    <3>4. /\ middle \in Seq(Fitting(n))
          /\ Film(middle) = Film(d) \cup Shift(Placed(v, 0), u.duration + tc)
          /\ GetTotalDuration(middle) = u.duration + tc + v.duration
      BY <3>1, <3>2, <3>3, FilmConcat
    <3>5. /\ c \in Seq(Fitting(n))
          /\ Film(c) = Film(a) \cup Shift(Film(middle), ta)
          /\ GetTotalDuration(c) = ta + (u.duration + tc + v.duration)
      BY <1>5, <3>4, FilmConcat DEF c, ta
    <3>6. /\ ta \in Int /\ tc \in Int /\ u.duration \in Int /\ u.duration + tc \in Int
          /\ 0 \in Int
      BY <1>5, <1>6
    <3>7. /\ u.duration + ta = t /\ (u.duration + tc) + ta = t + tc /\ 0 + ta = ta
          /\ 0 + (u.duration + tc) = u.duration + tc
          /\ ta + (u.duration + tc + v.duration) = t + tc + v.duration
      <4>1. PICK x \in Nat, y \in Nat, z \in Nat, w \in Nat :
              x = u.duration /\ y = v.duration /\ z = ta /\ w = tc
        BY <1>5, <1>6
      <4>2. z + x = t
        BY <1>4, <4>1
      <4>3. /\ x + z = t /\ (x + w) + z = t + w /\ 0 + z = z /\ 0 + (x + w) = x + w
            /\ z + (x + w + y) = t + w + y
        BY <4>2
      <4> QED BY <4>1, <4>3
    <3>8. /\ Placed(u, 0) \in SUBSET Shot /\ Shift(Placed(u, 0), ta) = Placed(u, ta)
          /\ Placed(v, u.duration + tc) \in SUBSET Shot
          /\ Shift(Placed(v, 0), u.duration + tc) = Placed(v, u.duration + tc)
          /\ Shift(Placed(v, u.duration + tc), ta) = Placed(v, t + tc)
      <4>1. /\ Shift(Placed(u, 0), ta) = Placed(u, 0 + ta)
            /\ Shift(Placed(v, 0), u.duration + tc) = Placed(v, 0 + (u.duration + tc))
            /\ Shift(Placed(v, u.duration + tc), ta) = Placed(v, (u.duration + tc) + ta)
        BY <1>4, <3>6, PlacedShift
      <4>2. Placed(u, 0) \in SUBSET Shot /\ Placed(v, u.duration + tc) \in SUBSET Shot
        BY <1>4, <3>6, PlacedIs
      <4> QED BY <3>7, <4>1, <4>2
    <3>9. Shift(Shift(Film(clipboard), u.duration), ta) = Shift(Film(clipboard), t)
          /\ Shift(Film(clipboard), u.duration) \in SUBSET Shot
      BY <1>6, <3>6, <3>7, ShiftIs
    <3>10. Shift(Film(d), ta) = Placed(u, ta) \cup Shift(Film(clipboard), t)
           /\ Film(d) \in SUBSET Shot
      BY <3>3, <3>6, <3>8, <3>9, ShiftJoin
    <3>11. Shift(Film(middle), ta)
             = Placed(u, ta) \cup Shift(Film(clipboard), t) \cup Placed(v, t + tc)
      BY <3>4, <3>6, <3>8, <3>10, ShiftJoin
    <3> QED BY <3>5, <3>7, <3>11
  <2> QED BY <2>1, <2>2
<1>9. Film(c \o b) = Film(c) \cup Shift(Film(b), GetTotalDuration(c))
  BY <1>5, <1>8, FilmConcat
<1>10. Shift(Part(Film(segments), t, total), tc)
         = Placed(v, t + tc) \cup Shift(Film(b), GetTotalDuration(c))
  <2>1. tc \in Int /\ t \in Int /\ EndOf(at) \in Int /\ Film(b) \in SUBSET Shot
    BY <1>1, <1>5, <1>6, FilmIs
  <2>2. /\ Placed(v, t) \in SUBSET Shot /\ Shift(Placed(v, t), tc) = Placed(v, t + tc)
        /\ Shift(Film(b), EndOf(at)) \in SUBSET Shot
        /\ Shift(Shift(Film(b), EndOf(at)), tc) = Shift(Film(b), EndOf(at) + tc)
    <3>1. Placed(v, t) \in SUBSET Shot /\ Shift(Placed(v, t), tc) = Placed(v, t + tc)
      BY <1>4, <2>1, PlacedIs, PlacedShift
    <3>2. /\ Shift(Film(b), EndOf(at)) \in SUBSET Shot
          /\ Shift(Shift(Film(b), EndOf(at)), tc) = Shift(Film(b), EndOf(at) + tc)
      BY <2>1, ShiftIs
    <3> QED BY <3>1, <3>2
  <2>3. EndOf(at) + tc = GetTotalDuration(c)
    <3>1. PICK y \in Nat, w \in Nat : y = v.duration /\ w = tc
      BY <1>6
    <3>2. (t + y) + w = t + w + y
      BY <1>1
    <3> QED BY <1>4, <1>8, <3>1, <3>2
  <2>4. Shift(Placed(v, t) \cup Shift(Film(b), EndOf(at)), tc)
          = Shift(Placed(v, t), tc) \cup Shift(Shift(Film(b), EndOf(at)), tc)
    BY <2>1, <2>2, ShiftJoin
  <2> QED BY <1>4, <2>2, <2>3, <2>4
<1>11. Film(c \o b)
         = Part(Film(segments), 0, t) \cup Shift(Film(clipboard), t)
             \cup Shift(Part(Film(segments), t, total), tc)
  BY <1>4, <1>8, <1>9, <1>10
<1> QED BY <1>3, <1>11 DEF total, tc

-----------------------------------------------------------------------------
(* What is copied                                                          *)

\* Where what is copied of a segment begins and ends in the film.
First(s, from) == IF s.start <= from THEN from ELSE s.start

Until(s, to) == IF EndOf(s) >= to THEN to ELSE EndOf(s)

LEMMA CopiedPart ==
  ASSUME NEW n \in Refs, NEW s \in Fitting(n), NEW from \in Nat, NEW to \in Nat, from <= to,
         s.start <= to, s.start <= from => from < EndOf(s)
  PROVE  LET c == Copied(s, from, to) IN
         /\ First(s, from) \in Nat /\ Until(s, to) \in Nat
         /\ s.start <= First(s, from) /\ First(s, from) <= Until(s, to)
         /\ Until(s, to) <= EndOf(s)
         /\ c.ref = s.ref /\ c.refStart = s.refStart + (First(s, from) - s.start)
         /\ c.duration = Until(s, to) - First(s, from)
<1> DEFINE late == IF s.start <= from /\ EndOf(s) > from THEN From(s, from) ELSE s
           c == Copied(s, from, to)
           b == First(s, from)
           e == Until(s, to)
<1>1. /\ s.start \in Nat /\ s.duration \in Nat /\ s.refStart \in Nat /\ EndOf(s) \in Nat
      /\ EndOf(s) = s.start + s.duration /\ s \in Segment
  BY FittingIs DEF EndOf
<1>2. /\ b \in Nat /\ e \in Nat /\ s.start <= b /\ b <= e /\ e <= EndOf(s)
      /\ s.start <= from => b = from
      /\ ~(s.start <= from) => b = s.start
      /\ EndOf(s) >= to => e = to
      /\ ~(EndOf(s) >= to) => e = EndOf(s)
  BY <1>1 DEF First, Until
<1>3. /\ late.ref = s.ref /\ late.start = b /\ late.refStart = s.refStart + (b - s.start)
      /\ late.duration = EndOf(s) - b /\ late \in Fitting(n)
  <2>1. CASE s.start <= from
    <3>1. late = From(s, from) /\ from <= EndOf(s) /\ b = from
      BY <1>1, <1>2, <2>1
    <3>2. /\ late \in Fitting(n) /\ late.ref = s.ref /\ late.start = from
          /\ late.refStart = s.refStart + (from - s.start)
          /\ late.duration = s.duration - (from - s.start)
      BY <2>1, <3>1, PartsFit
    <3>3. s.duration - (from - s.start) = EndOf(s) - from
      BY <1>1
    <3> QED BY <3>1, <3>2, <3>3
  <2>2. CASE ~(s.start <= from)
    <3>1. late = s /\ b = s.start
      BY <1>2, <2>2
    <3> QED BY <1>1, <3>1
  <2> QED BY <2>1, <2>2
<1>4. c = IF s.start <= to /\ EndOf(s) >= to
          THEN [late EXCEPT !.duration = to - late.start] ELSE late
  BY DEF Copied
<1> HIDE DEF late, b, e, c
<1>5. late \in Segment
  BY <1>3, FittingIs
<1>6. CASE EndOf(s) >= to
  <2>1. c = [late EXCEPT !.duration = to - late.start] /\ e = to
    BY <1>2, <1>4, <1>6
  <2>2. c.ref = late.ref /\ c.refStart = late.refStart /\ c.duration = to - late.start
    BY <1>5, <2>1 DEF Segment
  <2> QED BY <1>2, <1>3, <2>1, <2>2 DEF b, c, e
<1>7. CASE ~(EndOf(s) >= to)
  <2>1. c = late /\ e = EndOf(s)
    BY <1>2, <1>4, <1>7
  <2> QED BY <1>2, <1>3, <2>1 DEF b, c, e
<1> QED BY <1>6, <1>7

\* The segments that have something of what is copied.
LEMMA CopiedRange ==
  ASSUME NEW n \in Refs, Listed(segments, n), NEW from \in Nat, NEW to \in Nat, from <= to,
         SegmentsAt(from) # {}, NEW last,
         last = IF to >= GetTotalDuration(segments) THEN Len(segments) ELSE SegmentAt(to)
  PROVE  /\ SegmentAt(from) \in 1..Len(segments) /\ last \in SegmentAt(from)..Len(segments)
         /\ segments[SegmentAt(from)].start <= from
         /\ \A k \in SegmentAt(from)..last :
              /\ segments[k] \in Fitting(n) /\ segments[k].start \in Nat
              /\ EndOf(segments[k]) \in Nat
              /\ segments[k].start <= to /\ from < EndOf(segments[k])
              /\ k # last => EndOf(segments[k]) <= to
              /\ k # SegmentAt(from) => from < segments[k].start
         /\ \A k \in 1..Len(segments) :
              /\ k < SegmentAt(from) => EndOf(segments[k]) <= from
              /\ k > last => to < segments[k].start
<1> DEFINE first == SegmentAt(from)
           total == GetTotalDuration(segments)
<1>1. /\ first \in 1..Len(segments) /\ Len(segments) \in Nat /\ total \in Nat
      /\ segments[first].start <= from /\ from < EndOf(segments[first])
      /\ segments[first].start \in Nat /\ EndOf(segments[first]) \in Nat
  BY PlacesAre, MomentIs
<1>2. ASSUME NEW k \in 1..Len(segments)
      PROVE  /\ segments[k] \in Fitting(n) /\ segments[k].start \in Nat
             /\ EndOf(segments[k]) \in Nat /\ segments[k].start <= EndOf(segments[k])
             /\ EndOf(segments[k]) <= total
             /\ \A m \in 1..Len(segments) : k < m => EndOf(segments[k]) <= segments[m].start
  <2>1. /\ segments[k] \in Fitting(n) /\ EndOf(segments[k]) <= total
        /\ \A m \in 1..Len(segments) : k < m => EndOf(segments[k]) <= segments[m].start
    BY PlacesAre
  <2>2. /\ segments[k].start \in Nat /\ EndOf(segments[k]) \in Nat
        /\ segments[k].start <= EndOf(segments[k])
    BY <2>1, FittingIs DEF EndOf
  <2> QED BY <2>1, <2>2
<1> HIDE DEF first, total
<1>3. /\ last \in first..Len(segments) /\ segments[last].start <= to
      /\ \A k \in 1..Len(segments) : k > last => to < segments[k].start
  <2>1. CASE to >= total
    <3>1. last = Len(segments) /\ last \in 1..Len(segments)
      BY <1>1, <2>1 DEF total
    <3>2. EndOf(segments[last]) <= total /\ segments[last].start <= EndOf(segments[last])
          /\ EndOf(segments[last]) \in Nat /\ segments[last].start \in Nat
      BY <1>2, <3>1
    <3> QED BY <1>1, <2>1, <3>1, <3>2
  <2>2. CASE ~(to >= total)
    <3>1. last = SegmentAt(to) /\ SegmentsAt(to) # {}
      <4>1. to < total
        BY <1>1, <2>2
      <4> QED BY <2>2, <4>1, SegmentsAtIs DEF total
    <3>2. last \in 1..Len(segments) /\ segments[last].start <= to /\ to < EndOf(segments[last])
          /\ EndOf(segments[last]) \in Nat
      BY <3>1, MomentIs
    <3>3. last < first => EndOf(segments[last]) <= segments[first].start
      BY <1>1, <1>2, <3>2
    <3>4. first <= last
      BY <1>1, <3>2, <3>3
    <3>5. ASSUME NEW k \in 1..Len(segments), k > last PROVE to < segments[k].start
      <4>1. EndOf(segments[last]) <= segments[k].start /\ segments[k].start \in Nat
        BY <1>2, <3>2, <3>5
      <4> QED BY <3>2, <4>1
    <3> QED BY <1>1, <3>2, <3>4, <3>5
  <2> QED BY <2>1, <2>2
<1>4. \A k \in first..last : k \in 1..Len(segments)
  BY <1>1, <1>3
<1>5. ASSUME NEW k \in first..last
      PROVE  /\ segments[k].start <= to /\ from < EndOf(segments[k])
             /\ k # last => EndOf(segments[k]) <= to
             /\ k # first => from < segments[k].start
  <2>1. /\ k \in 1..Len(segments) /\ last \in 1..Len(segments)
        /\ segments[k].start \in Nat /\ EndOf(segments[k]) \in Nat
        /\ segments[k].start <= EndOf(segments[k]) /\ segments[last].start \in Nat
    <3>1. k \in 1..Len(segments) /\ last \in 1..Len(segments)
      BY <1>1, <1>3, <1>4
    <3> QED BY <1>2, <3>1
  <2>2. k # last => EndOf(segments[k]) <= segments[last].start
    <3>1. k # last => k < last
      BY <1>1, <1>3
    <3> QED BY <1>2, <2>1, <3>1
  <2>3. k # first => EndOf(segments[first]) <= segments[k].start
    <3>1. k # first => first < k
      BY <1>1, <1>3
    <3> QED BY <1>1, <1>2, <2>1, <3>1
  <2> QED BY <1>1, <1>3, <2>1, <2>2, <2>3
<1>6. \A k \in 1..Len(segments) : k < first => EndOf(segments[k]) <= from
  <2> SUFFICES ASSUME NEW k \in 1..Len(segments), k < first PROVE EndOf(segments[k]) <= from
    OBVIOUS
  <2>1. EndOf(segments[k]) <= segments[first].start /\ EndOf(segments[k]) \in Nat
    BY <1>1, <1>2
  <2> QED BY <1>1, <2>1
<1> QED BY <1>1, <1>2, <1>3, <1>4, <1>5, <1>6 DEF first

LEMMA PlacedBetween ==
  ASSUME NEW n \in Refs, NEW s \in Fitting(n), NEW c \in Fitting(n),
         NEW from \in Nat, NEW to \in Nat,
         s.start <= First(s, from), First(s, from) <= Until(s, to), Until(s, to) <= EndOf(s),
         c.ref = s.ref, c.refStart = s.refStart + (First(s, from) - s.start),
         c.duration = Until(s, to) - First(s, from)
  PROVE  Placed(c, First(s, from)) = {p \in Placed(s, s.start) : from <= p.at /\ p.at < to}
<1>a. PICK st \in Int, x \in Int, y \in Int, end \in Int :
        st = s.start /\ x = First(s, from) /\ y = Until(s, to) /\ end = EndOf(s)
  BY FittingIs DEF First, Until, EndOf
<1>b. /\ st <= x /\ x <= y /\ y <= end /\ end = st + s.duration
      /\ c.refStart = s.refStart + (x - st) /\ c.duration = y - x
      /\ st <= from => x = from
      /\ ~(st <= from) => x = st
      /\ end >= to => y = to
      /\ ~(end >= to) => y = end
  BY <1>a DEF First, Until, EndOf
<1>0. PICK d \in Nat : d = x - st
  BY <1>b
<1>1. PICK h \in Nat : h = s.duration
  BY FittingIs
<1>2. st + d = x /\ d + (y - x) <= h /\ x + (y - x) = y
  BY <1>0, <1>1, <1>b
<1>3. /\ d \in Nat /\ c.refStart = s.refStart + d /\ d + c.duration <= s.duration
      /\ st \in Int /\ x \in Int /\ y \in Int /\ x = st + d /\ y = x + c.duration
  BY <1>0, <1>1, <1>2, <1>b
<1>4. Placed(c, x) = {p \in Placed(s, st) : x <= p.at /\ p.at < y}
  <2>1. /\ n \in Refs /\ s \in Fitting(n) /\ c \in Fitting(n) /\ st \in Int /\ d \in Nat
        /\ c.ref = s.ref /\ c.refStart = s.refStart + d /\ d + c.duration <= s.duration
        /\ x \in Int /\ x = st + d /\ y \in Int /\ y = x + c.duration
    BY <1>3
  <2> QED BY ONLY <2>1, PlacedPart
<1>5. ASSUME NEW p \in Placed(s, st)
      PROVE  (x <= p.at /\ p.at < y) <=> (from <= p.at /\ p.at < to)
  <2>1. st \in Int
    OBVIOUS
  <2>2. p.at \in Int /\ st <= p.at /\ p.at < end
    BY <1>b, <2>1, PlacedIs DEF Shot
  <2> QED BY <2>2, <1>b
<1> QED BY <1>4, <1>5, <1>a

LEMMA ShiftWithin ==
  ASSUME NEW film, NEW by, NEW part \in SUBSET film
  PROVE  Shift(part, by) \subseteq Shift(film, by)
BY DEF Shift

LEMMA FilmCopied ==
  ASSUME NEW n \in Refs, Listed(segments, n), NEW from \in Nat, NEW to \in Nat, from <= to,
         SegmentsAt(from) # {}, NEW last,
         last = IF to >= GetTotalDuration(segments) THEN Len(segments) ELSE SegmentAt(to),
         NEW list, list = [i \in 1..last - SegmentAt(from) + 1 |->
                             Copied(segments[SegmentAt(from) + i - 1], from, to)]
  PROVE  Film(list) = Shift(Part(Film(segments), from, to), -from)
<1> DEFINE first == SegmentAt(from)
           m == last - first + 1
           seg(i) == segments[first + i - 1]
           b(i) == First(seg(i), from)
           e(i) == Until(seg(i), to)
           film == Part(Film(segments), from, to)
           sum == DurationBefore(list)
<1>1. /\ first \in 1..Len(segments) /\ last \in first..Len(segments)
      /\ segments[first].start <= from /\ Len(segments) \in Nat
      /\ \A k \in first..last :
           /\ segments[k] \in Fitting(n) /\ segments[k].start \in Nat
           /\ EndOf(segments[k]) \in Nat
           /\ segments[k].start <= to /\ from < EndOf(segments[k])
           /\ k # last => EndOf(segments[k]) <= to
           /\ k # first => from < segments[k].start
      /\ \A k \in 1..Len(segments) :
           /\ k < first => EndOf(segments[k]) <= from
           /\ k > last => to < segments[k].start
  <2>1. Len(segments) \in Nat
    BY PlacesAre
  <2> HIDE DEF m, seg, b, e, film, sum
  <2>2. /\ first \in 1..Len(segments) /\ last \in first..Len(segments)
        /\ segments[first].start <= from
    BY CopiedRange
  <2>3. \A k \in first..last :
          /\ segments[k] \in Fitting(n) /\ segments[k].start \in Nat
          /\ EndOf(segments[k]) \in Nat
          /\ segments[k].start <= to /\ from < EndOf(segments[k])
          /\ k # last => EndOf(segments[k]) <= to
          /\ k # first => from < segments[k].start
    BY CopiedRange
  <2>4. \A k \in 1..Len(segments) :
          /\ k < first => EndOf(segments[k]) <= from
          /\ k > last => to < segments[k].start
    BY CopiedRange
  <2> HIDE DEF first
  <2> QED BY <2>1, <2>2, <2>3, <2>4
<1>2. list \in Seq(Fitting(n)) /\ segments \in Seq(Fitting(n))
  <2>1. list \in Seq(Fitting(n))
    BY CopiedListIs
  <2> QED BY <2>1 DEF Listed
<1>3. ASSUME NEW k \in 1..Len(segments)
      PROVE  /\ segments[k] \in Fitting(n) /\ DurationBefore(segments)[k] = segments[k].start
             /\ segments[k].start \in Nat /\ EndOf(segments[k]) \in Nat
             /\ EndOf(segments[k]) = segments[k].start + segments[k].duration
             /\ \A j \in 1..Len(segments) : j = k + 1 => segments[j].start = EndOf(segments[k])
  <2>1. /\ segments[k] \in Fitting(n)
        /\ DurationBefore(segments)[k + 1] = DurationBefore(segments)[k] + segments[k].duration
    BY <1>2, TotalIs
  <2>2. \A j \in 1..Len(segments) : DurationBefore(segments)[j] = segments[j].start
    BY DEF Listed, Started
  <2>3. /\ segments[k].start \in Nat /\ EndOf(segments[k]) \in Nat
        /\ EndOf(segments[k]) = segments[k].start + segments[k].duration
    BY <2>1, FittingIs DEF EndOf
  <2> QED BY <2>1, <2>2, <2>3
<1>4. /\ m \in Nat
      /\ \A i \in 1..m : first + i - 1 \in first..last /\ first + i - 1 \in 1..Len(segments)
  <2> HIDE DEF first
  <2>1. m \in Nat
    BY <1>1
  <2>2. ASSUME NEW i \in 1..m PROVE first + i - 1 \in first..last
    BY <1>1
  <2>3. \A k \in first..last : k \in 1..Len(segments)
    BY <1>1
  <2> QED BY <2>1, <2>2, <2>3
<1>5. /\ Len(list) = m
      /\ \A i \in 1..m : list[i] = Copied(seg(i), from, to)
  <2>1. list = [i \in 1..m |-> Copied(seg(i), from, to)]
    OBVIOUS
  <2>2. DOMAIN list = 1..m /\ DOMAIN list = 1..Len(list) /\ Len(list) \in Nat
    BY <1>2, <2>1, LenProperties
  <2> HIDE DEF m
  <2>3. Len(list) = m
    <3>1. list \in [1..m -> Fitting(n)]
      BY <1>2, <2>2, LenProperties
    <3> QED BY <1>4, <3>1, FunctionIsSeq
  <2> QED BY <2>1, <2>3
<1> HIDE DEF first, m
<1>6. ASSUME NEW i \in 1..m
      PROVE  /\ seg(i) \in Fitting(n) /\ list[i] \in Fitting(n)
             /\ b(i) \in Nat /\ e(i) \in Nat /\ seg(i).start \in Nat /\ EndOf(seg(i)) \in Nat
             /\ seg(i).start <= b(i) /\ b(i) <= e(i) /\ e(i) <= EndOf(seg(i))
             /\ list[i].ref = seg(i).ref
             /\ list[i].refStart = seg(i).refStart + (b(i) - seg(i).start)
             /\ list[i].duration = e(i) - b(i)
  <2> PICK k \in first..last : k = first + i - 1
    BY <1>4
  <2>1. /\ segments[k] \in Fitting(n) /\ segments[k].start \in Nat /\ EndOf(segments[k]) \in Nat
        /\ segments[k].start <= to /\ from < EndOf(segments[k])
    BY <1>1
  <2>2. list[i] \in Fitting(n)
    BY <1>2, <1>5, ElementOfSeq
  <2>3. list[i] = Copied(segments[k], from, to)
    BY <1>5
  <2> DEFINE s == segments[k]
             c == Copied(s, from, to)
  <2>4. s.start <= from => from < EndOf(s)
    BY <2>1
  <2>5. /\ First(s, from) \in Nat /\ Until(s, to) \in Nat
        /\ s.start <= First(s, from) /\ First(s, from) <= Until(s, to)
        /\ Until(s, to) <= EndOf(s)
        /\ c.ref = s.ref /\ c.refStart = s.refStart + (First(s, from) - s.start)
        /\ c.duration = Until(s, to) - First(s, from)
    <3> HIDE DEF s
    <3>1. s \in Fitting(n) /\ s.start <= to
      BY <2>1 DEF s
    <3> QED BY <2>4, <3>1, CopiedPart
  <2> QED BY <2>1, <2>2, <2>3, <2>5
<1> HIDE DEF sum
<1>7. \A i \in 1..m : sum[i] = b(i) - from
  <2> DEFINE T == {i \in 0..m : i # 0 => sum[i] = b(i) - from}
  <2>1. Sums(sum, list, m)
    BY <1>2, <1>5, TotalIs DEF sum
  <2>2. 0 \in T
    BY <1>4
  <2>3. ASSUME NEW i \in 1..m, i - 1 \in T PROVE i \in T
    <3>1. CASE i = 1
      <4>1. seg(i) = segments[first]
        BY <1>1, <3>1
      <4>2. b(i) = from
        BY <1>1, <4>1 DEF First
      <4>3. sum[i] = 0
        BY <2>1, <3>1 DEF Sums, Adds
      <4>4. from - from = 0
        OBVIOUS
      <4> QED BY <1>4, <4>2, <4>3, <4>4
    <3>2. CASE i # 1
      <4>1. PICK j \in 1..m : i = j + 1
        <5>1. i - 1 \in 1..m /\ i = (i - 1) + 1
          BY <1>4, <3>2
        <5> QED BY <5>1
      <4>2. j # 0 /\ j = i - 1
        BY <1>4, <4>1
      <4>3. sum[j] = b(j) - from
        BY <2>3, <4>2
      <4>4. sum[i] = sum[j] + list[j].duration
        BY <2>1, <4>1 DEF Sums, Adds
      <4>5. PICK k \in first..last : k = first + j - 1
        BY <1>4
      <4>6. k + 1 \in first..last /\ k + 1 = first + i - 1 /\ k # last /\ k + 1 # first
            /\ k \in 1..Len(segments) /\ k + 1 \in 1..Len(segments)
        <5>1. first + i - 1 = k + 1
          BY <1>1, <4>1, <4>5
        <5>2. k + 1 \in first..last
          BY <1>4, <5>1
        <5> QED BY <1>1, <5>1, <5>2
      <4>7. segments[k + 1].start = EndOf(segments[k])
        BY <1>3, <4>6
      <4>8. EndOf(segments[k]) <= to /\ from < segments[k + 1].start
        BY <1>1, <4>6
      <4>9. EndOf(segments[k]) \in Nat /\ segments[k + 1].start \in Nat
        BY <1>3, <4>6
      <4>10. e(j) = EndOf(segments[k])
        BY <4>5, <4>8, <4>9 DEF Until
      <4>11. b(i) = segments[k + 1].start
        BY <4>6, <4>8, <4>9 DEF First
      <4>12. list[j].duration = e(j) - b(j) /\ b(j) \in Nat /\ e(j) \in Nat
        BY <1>6
      <4>13. e(j) = b(i)
        BY <4>7, <4>10, <4>11
      <4> HIDE DEF b, e
      <4>14. PICK x \in Nat, y \in Nat : x = b(j) /\ y = e(j)
        BY <4>12
      <4>15. sum[i] = (x - from) + (y - x)
        BY <4>3, <4>4, <4>12, <4>14
      <4>16. (x - from) + (y - x) = y - from
        OBVIOUS
      <4> QED BY <1>4, <4>13, <4>14, <4>15, <4>16
    <3> QED BY <3>1, <3>2
  <2> HIDE DEF T
  <2>4. \A i \in 0..m : i \in T
    BY <1>4, <2>2, <2>3, UpTo
  <2>5. \A i \in 1..m : i \in 0..m /\ i # 0
    BY <1>4
  <2> QED BY <2>4, <2>5 DEF T
\* What is copied of a segment is what it has between the markers.
<1>8. ASSUME NEW i \in 1..m
      PROVE  /\ Placed(list[i], sum[i]) = Shift(Placed(list[i], b(i)), -from)
             /\ Placed(list[i], b(i)) \in SUBSET Shot
             /\ Placed(list[i], b(i))
                  = {p \in Placed(seg(i), seg(i).start) : from <= p.at /\ p.at < to}
  <2> DEFINE s == seg(i)
             x == b(i)
             y == e(i)
             c == list[i]
             st == s.start
  <2>1. /\ s \in Fitting(n) /\ c \in Fitting(n)
        /\ x \in Nat /\ y \in Nat /\ st \in Nat /\ EndOf(s) \in Nat
        /\ st <= x /\ x <= y /\ y <= EndOf(s) /\ EndOf(s) = st + s.duration
        /\ c.ref = s.ref /\ c.refStart = s.refStart + (x - st) /\ c.duration = y - x
    <3>1. EndOf(s) = st + s.duration
      BY <1>3, <1>4
    <3> QED BY <1>6, <3>1
  <2>2. /\ st <= from => x = from
        /\ ~(st <= from) => x = st
        /\ EndOf(s) >= to => y = to
        /\ ~(EndOf(s) >= to) => y = EndOf(s)
    BY DEF First, Until
  <2>3. sum[i] = x - from
    BY <1>7
  <2> HIDE DEF s, x, y, c, st
  <2>4. Placed(c, x) \in SUBSET Shot /\ Shift(Placed(c, x), -from) = Placed(c, x - from)
    <3>1. x \in Int /\ -from \in Int /\ x + (-from) = x - from
      BY <2>1
    <3> QED BY <2>1, <3>1, PlacedIs, PlacedShift
  <2>7. Placed(c, x) = {p \in Placed(s, st) : from <= p.at /\ p.at < to}
    <3>1. /\ s.start <= First(s, from) /\ First(s, from) <= Until(s, to)
          /\ Until(s, to) <= EndOf(s)
          /\ c.refStart = s.refStart + (First(s, from) - s.start)
          /\ c.duration = Until(s, to) - First(s, from)
      BY <2>1 DEF x, y, s, st
    <3>2. Placed(c, First(s, from)) = {p \in Placed(s, s.start) : from <= p.at /\ p.at < to}
      BY <2>1, <3>1, PlacedBetween
    <3> QED BY <3>2 DEF x, s, st
  <2> QED BY <2>3, <2>4, <2>7 DEF s, x, c, st
<1> HIDE DEF b, e
<1>9. film \in SUBSET Shot /\ -from \in Int
      /\ \A q : q \in film <=> q \in Film(segments) /\ from <= q.at /\ q.at < to
  <2>1. Film(segments) \in SUBSET Shot
    BY <1>2, FilmIs
  <2> QED BY <2>1 DEF Part
<1> HIDE DEF film
<1>10. \A p : p \in Film(list) <=> \E i \in 1..m : p \in Placed(list[i], sum[i])
  BY <1>2, <1>5, FilmHas DEF sum
<1>11. \A q : q \in Film(segments) <=>
         \E k \in 1..Len(segments) : q \in Placed(segments[k], segments[k].start)
  BY <1>2, <1>3, FilmHas
<1>12. ASSUME NEW p \in Film(list) PROVE p \in Shift(film, -from)
  <2>1. PICK i \in 1..m : p \in Placed(list[i], sum[i])
    BY <1>10
  <2> DEFINE part == Placed(list[i], b(i))
  <2>2. p \in Shift(part, -from) /\ part \in SUBSET Shot
    BY <1>8, <2>1
  <2>3. \A q \in part : q \in Placed(seg(i), seg(i).start) /\ from <= q.at /\ q.at < to
    BY <1>8
  <2> HIDE DEF part
  <2>4. part \in SUBSET film
    BY <1>4, <1>9, <1>11, <2>3
  <2> QED BY <2>2, <2>4, ShiftWithin
<1>13. ASSUME NEW p \in Shift(film, -from) PROVE p \in Film(list)
  <2>1. PICK q \in film : p = [ref |-> q.ref, pts |-> q.pts, at |-> q.at + (-from)]
    BY <1>9, ShiftHas
  <2>2. PICK k \in 1..Len(segments) : q \in Placed(segments[k], segments[k].start)
    BY <1>9, <1>11
  <2>3. /\ segments[k] \in Fitting(n) /\ segments[k].start \in Nat /\ EndOf(segments[k]) \in Nat
        /\ EndOf(segments[k]) = segments[k].start + segments[k].duration
    BY <1>3
  <2>4. q.at \in Int /\ segments[k].start <= q.at /\ q.at < EndOf(segments[k])
    <3>1. segments[k].start \in Int
      BY <2>3
    <3> QED BY <2>2, <2>3, <3>1, PlacedIs DEF Shot
  <2>5. from <= q.at /\ q.at < to
    BY <1>9
  <2>6. ~(k < first) /\ ~(k > last)
    BY <1>1, <2>3, <2>4, <2>5
  <2>7. PICK i \in 1..m : k = first + i - 1
    <3>1. k - first + 1 \in 1..m /\ k = first + (k - first + 1) - 1
      BY <1>1, <2>6 DEF m
    <3> QED BY <3>1
  <2> DEFINE part == Placed(list[i], b(i))
  <2>8. q \in part
    BY <1>8, <2>2, <2>5, <2>7
  <2>9. part \in SUBSET Shot /\ Placed(list[i], sum[i]) = Shift(part, -from)
    BY <1>8
  <2> HIDE DEF part
  <2>10. p \in Shift(part, -from)
    BY <1>9, <2>1, <2>8, <2>9, ShiftHas
  <2> QED BY <1>10, <2>9, <2>10
<1>14. Film(list) = Shift(film, -from)
  BY <1>12, <1>13
<1> QED BY <1>14 DEF film

-----------------------------------------------------------------------------
(* What was asked                                                          *)

(* A film can only have become empty by a paste of pieces that show        *)
(* nothing, and these are still on the clipboard.                          *)
Barren == segments = <<>> => ~Lively(clipboard)

LEMMA LivelyNotEmpty ==
  ASSUME NEW S, NEW list \in Seq(S), Lively(list)
  PROVE  list # <<>>
<1>1. Len(list) \in Nat /\ Len(list) # 0
  BY LenProperties DEF Lively
<1> QED BY <1>1

LEMMA TidyNotEmpty ==
  ASSUME NEW n \in Refs, NEW list \in Seq(Fitting(n)), Lively(list)
  PROVE  Tidy(list) # <<>>
<1> DEFINE some == RemoveEmptySegments(list)
           few == MergeContinuousSegments(some)
<1>1. \A s \in Fitting(n) : s.duration \in Nat
  BY FittingIs
<1>2. some \in Seq({s \in Fitting(n) : s.duration > 0}) /\ Lively(some)
  BY <1>1, RemoveEmptySegmentsIs
<1>3. some \in Seq(Fitting(n))
  BY <1>2, SeqMonotonic
<1>4. Tidy(list) = UpdateStartTime(few)
  BY DEF Tidy
<1> HIDE DEF some
<1>5. few \in Seq(Fitting(n)) /\ Lively(few)
  BY <1>2, <1>3, ClosedFitting, MergeContinuousSegmentsIs
<1> HIDE DEF few
<1>6. Len(few) \in Nat /\ Len(few) # 0
  BY <1>5, LenProperties DEF Lively
<1>7. Len(Tidy(list)) # 0
  BY <1>4, <1>5, <1>6, UpdateStartTimeIs
<1> QED BY <1>7

LEMMA BarrenInit == Init => Barren
<1> SUFFICES ASSUME Init PROVE segments # <<>>
  BY DEF Barren
<1> DEFINE list == <<WholeVideo(1)>>
<1>1. 1 \in Refs /\ 1 \in 1..1
  BY FirstFile
<1>2. WholeVideo(1) \in Fitting(1)
  BY <1>1, WholeVideoIs DEF Playing
<1>3. list \in Seq(Fitting(1)) /\ Len(list) = 1
  BY <1>2
<1>4. segments = UpdateStartTime(list)
  BY DEF Init
<1> HIDE DEF list
<1>5. Len(segments) = 1
  BY <1>1, <1>3, <1>4, UpdateStartTimeIs
<1> QED BY <1>5

LEMMA BarrenNext == SegInv /\ Barren /\ [Next]_vars => Barren'
<1> SUFFICES ASSUME SegInv, Barren, [Next]_vars, segments' = <<>> PROVE ~Lively(clipboard')
  BY DEF Barren
<1>0. PICK n \in Refs : n = videos
  BY DEF SegInv
<1>1. /\ Listed(segments, n) /\ segments \in Seq(Fitting(n)) /\ clipboard \in Seq(Fitting(n))
  BY <1>0 DEF SegInv, Sound, Listed
<1>2. ASSUME NEW t \in Moments PROVE t \in Nat
  BY <1>1, PlacesAre DEF Moments
<1>3. CASE segments' = segments /\ clipboard' = clipboard
  BY <1>3 DEF Barren
<1>4. CASE AddReferenceVideo
  <2> DEFINE m == n + 1
             list == Append(segments, WholeVideo(m))
  <2>1. segments' = UpdateStartTime(list) /\ n < Len(Videos)
    BY <1>0, <1>4 DEF AddReferenceVideo, Change
  <2>2. m \in Refs /\ n <= m /\ m \in 1..m
    BY <2>1, FirstFile DEF Refs
  <2>3. WholeVideo(m) \in Fitting(m)
    BY <2>2, WholeVideoIs DEF Playing
  <2> HIDE DEF m
  <2>4. segments \in Seq(Fitting(m))
    BY <1>1, <2>2, MoreFiles, SeqMonotonic
  <2>5. list \in Seq(Fitting(m)) /\ Len(list) # 0
    <3>1. list \in Seq(Fitting(m)) /\ Len(list) = Len(segments) + 1 /\ Len(segments) \in Nat
      BY <2>3, <2>4, AppendProperties, LenProperties
    <3> QED BY <3>1
  <2> HIDE DEF list
  <2>6. Len(segments') # 0
    BY <2>1, <2>2, <2>5, UpdateStartTimeIs
  <2> QED BY <2>6
<1>5. CASE ResetSegment
  <2> DEFINE list == [i \in 1..n |-> WholeVideo(i)]
  <2>1. segments' = UpdateStartTime(list)
    BY <1>0, <1>5 DEF ResetSegment, Change
  <2>2. \A i \in 1..n : WholeVideo(i) \in Fitting(n)
    BY WholeVideoIs DEF Playing
  <2>3. n \in Nat /\ n # 0
    BY DEF Refs
  <2>4. list \in [1..n -> Fitting(n)]
    BY <2>2
  <2> HIDE DEF list
  <2>5. list \in Seq(Fitting(n)) /\ Len(list) = n
    BY <2>3, <2>4, FunctionIsSeq
  <2>6. Len(segments') # 0
    BY <2>1, <2>3, <2>5, UpdateStartTimeIs
  <2> QED BY <2>6
<1>6. CASE AppendFromClipBoard
  <2> DEFINE both == segments \o clipboard
             list == MergeContinuousSegments(both)
  <2>1. segments' = UpdateStartTime(list) /\ clipboard' = clipboard
    BY <1>6 DEF AppendFromClipBoard, Change
  <2>2. both \in Seq(Fitting(n)) /\ (Lively(clipboard) => Lively(both))
    BY <1>1, ConcatProperties, ConcatLively
  <2> HIDE DEF both
  <2>3. list \in Seq(Fitting(n)) /\ (Lively(clipboard) => Lively(list))
    BY <2>2, ClosedFitting, MergeContinuousSegmentsIs
  <2> HIDE DEF list
  <2>4. Len(list) = 0
    BY <2>1, <2>3, UpdateStartTimeIs
  <2>5. ~Lively(list)
    BY <2>4 DEF Lively
  <2> QED BY <2>1, <2>3, <2>5
<1>7. ASSUME NEW from \in Moments, TruncateVideo(from) PROVE ~Lively(clipboard')
  <2> DEFINE list == IF SegmentsAt(from) # {} THEN Tidy(Truncated(from)) ELSE <<>>
  <2>1. clipboard' = clipboard
    BY <1>7 DEF TruncateVideo
  <2>2. \/ list # <<>> /\ segments' = list
        \/ segments' = UpdateStartTime(segments)
        \/ segments' = segments
    BY <1>7 DEF TruncateVideo, Change, Refuse
  <2> HIDE DEF list
  <2>3. CASE list # <<>> /\ segments' = list
    BY <2>3
  <2>4. CASE segments' = UpdateStartTime(segments)
    <3>1. Len(segments) = 0
      BY <1>1, <2>4, UpdateStartTimeIs
    <3>2. segments = <<>>
      BY <1>1, <3>1, EmptySeq
    <3> QED BY <2>1, <3>2 DEF Barren
  <2>5. CASE segments' = segments
    BY <1>3, <2>1, <2>5
  <2> QED BY <2>2, <2>3, <2>4, <2>5
<1>8. ASSUME NEW t \in Moments, PasteFromClipBoard(t) PROVE ~Lively(clipboard')
  <2>1. segments' = Tidy(Pasted(t)) /\ clipboard' = clipboard
    BY <1>8 DEF PasteFromClipBoard, Change
  <2>2. /\ Pasted(t) \in Seq(Fitting(n))
        /\ segments # <<>> /\ Lively(clipboard) => Lively(Pasted(t))
    BY <1>1, PastedIs
  <2>3. ~Lively(Pasted(t))
    BY <2>1, <2>2, TidyNotEmpty
  <2> QED BY <2>1, <2>2, <2>3 DEF Barren
<1>9. ASSUME NEW from \in Moments, NEW to \in Moments, RemoveChunk(from, to)
      PROVE  ~Lively(clipboard')
  <2>1. clipboard' = clipboard /\ from \in Nat /\ to \in Nat
    BY <1>2, <1>9 DEF RemoveChunk
  <2>2. CASE SegmentsAt(from) # {} /\ SegmentsAt(to) # {}
    <3>1. segments' = Tidy(Cut(from, to))
      BY <1>9, <2>2 DEF RemoveChunk, Change
    <3>2. Cut(from, to) \in Seq(Fitting(n)) /\ Lively(Cut(from, to))
      BY <1>1, <2>1, <2>2, CutIs
    <3> QED BY <3>1, <3>2, TidyNotEmpty
  <2>3. CASE ~(SegmentsAt(from) # {} /\ SegmentsAt(to) # {})
    BY <1>3, <1>9, <2>1, <2>3 DEF RemoveChunk, Refuse
  <2> QED BY <2>2, <2>3
<1>10. ASSUME NEW from \in Moments, NEW to \in Moments, CopyToClipBoard(from, to)
       PROVE  ~Lively(clipboard')
  <2>1. SegmentsAt(from) # {} /\ segments' = segments /\ from \in Nat
    BY <1>2, <1>10 DEF CopyToClipBoard
  <2>2. SegmentAt(from) \in 1..Len(segments) /\ Len(segments) \in Nat
    BY <1>1, <2>1, MomentIs, PlacesAre
  <2>3. Len(segments) # 0
    BY <2>2
  <2> QED BY <2>1, <2>3
<1>11. CASE UNCHANGED vars
  BY <1>3, <1>11 DEF vars
<1> QED
  BY <1>4, <1>5, <1>6, <1>7, <1>8, <1>9, <1>10, <1>11 DEF Next

LEMMA BarrenInvariant == Spec => []Barren
  BY BarrenInit, BarrenNext, SegInvariant, PTL DEF Spec

LEMMA LifelessFilm ==
  ASSUME NEW n \in Refs, NEW list \in Seq(Fitting(n)), ~Lively(list)
  PROVE  Film(list) = {}
<1> SUFFICES ASSUME NEW p \in Film(list) PROVE FALSE
  OBVIOUS
<1>1. PICK i \in 1..Len(list) : p \in Placed(list[i], DurationBefore(list)[i])
  BY FilmHas
<1>2. /\ list[i] \in Fitting(n) /\ DurationBefore(list)[i] \in Nat /\ list[i].duration \in Nat
      /\ ~(list[i].duration > 0)
  BY TotalIs, FittingIs DEF Lively
<1>3. DurationBefore(list)[i] \in Int /\ list[i].duration = 0
  BY <1>2
<1> QED BY <1>1, <1>2, <1>3, PlacedEmpty

(* What is asked of one step. *)
Edited ==
  edits' # edits =>
    /\ ~request'.ok => Undated(segments') = Undated(segments)
    /\ Granted => SamePictures(Film(segments'), FilmAsked)
    /\ PlacedAsAsked

\* A list in which the pictures are where they were asked for, put in order.
LEMMA TidyAsAsked ==
  ASSUME NEW n \in Refs, NEW list \in Seq(Fitting(n)), segments' = Tidy(list),
         exact' => list \in Seq(Clean(n)), Granted => Film(list) = FilmAsked, request'.ok
  PROVE  Edited
<1>1. /\ SamePictures(Film(segments'), Film(list))
      /\ exact' => Film(segments') = Film(list)
  BY TidyShows
<1>2. Granted => SamePictures(Film(segments'), FilmAsked)
  BY <1>1
<1>3. PlacedAsAsked
  BY <1>1 DEF PlacedAsAsked
<1> QED BY <1>2, <1>3 DEF Edited

\* A request that is refused or does not say what the film should be.
LEMMA RefusedAsAsked ==
  ASSUME ~request'.ok, Undated(segments') = Undated(segments)
  PROVE  Edited
  BY DEF Edited, Granted, PlacedAsAsked

\* Updating a list that settles once more changes decode times only.
LEMMA UpdatedAgain ==
  ASSUME NEW n \in Refs, NEW list, Listed(list, n)
  PROVE  Undated(UpdateStartTime(list)) = Undated(list)
<1> DEFINE new == UpdateStartTime(list)
<1>1. list \in Seq(Fitting(n)) /\ Started(list) /\ \A i \in 1..Len(list) : Settled(list[i])
  BY DEF Listed
<1>2. /\ new \in Seq(Fitting(n)) /\ Len(new) = Len(list) /\ Started(new)
      /\ \A i \in 1..Len(list) : /\ new[i].ref = list[i].ref
                                 /\ new[i].refStart = list[i].refStart
                                 /\ new[i].duration = list[i].duration
  BY <1>1, UpdateStartTimeIs
<1> HIDE DEF new
<1>3. /\ DOMAIN new = DOMAIN list /\ DOMAIN list = 1..Len(list) /\ Len(list) \in Nat
      /\ Adds(DurationBefore(new), new, Len(list))
      /\ Adds(DurationBefore(list), list, Len(list))
  BY <1>1, <1>2, ListIs, DurationBeforeIs DEF Sums
<1>4. \A j \in 1..Len(list) + 1 : DurationBefore(new)[j] = DurationBefore(list)[j]
  BY <1>2, <1>3, SumsAgree
<1>5. ASSUME NEW i \in 1..Len(list)
      PROVE  [new[i] EXCEPT !.dts = 0] = [list[i] EXCEPT !.dts = 0]
  <2>1. new[i].start = list[i].start
    BY <1>1, <1>2, <1>3, <1>4 DEF Started
  <2>2. new[i] \in Segment /\ list[i] \in Segment
    BY <1>1, <1>2, ElementOfSeq, FittingIs
  <2> QED BY <1>2, <2>1, <2>2 DEF Segment
<1> QED BY <1>3, <1>5 DEF Undated, new

LEMMA AnythingAsAsked ==
  ASSUME request'.ok, request'.op \in {"open", "reset", "copy"}
  PROVE  Edited
<1>1. FilmAsked = Film(segments')
  BY DEF FilmAsked
<1>2. SamePictures(Film(segments'), FilmAsked)
  BY <1>1 DEF SamePictures
<1> QED BY <1>1, <1>2 DEF Edited, PlacedAsAsked

LEMMA SegEdited == SegInv /\ Barren /\ [Next]_vars => Edited
<1> SUFFICES ASSUME SegInv, Barren, [Next]_vars PROVE Edited
  OBVIOUS
<1>0. PICK n \in Refs : n = videos
  BY DEF SegInv
<1>1. /\ Listed(segments, n) /\ segments \in Seq(Fitting(n)) /\ clipboard \in Seq(Fitting(n))
      /\ exact => /\ segments \in Seq(Playing(n)) /\ clipboard \in Seq(Playing(n))
                  /\ Lively(segments)
      /\ exact \in BOOLEAN
  BY <1>0 DEF SegInv, Sound, Listed
<1>2. ASSUME NEW t \in Moments PROVE t \in Nat
  BY <1>1, PlacesAre DEF Moments
<1>3. ASSUME NEW times, Given(times)
      PROVE  exact' => exact /\ times \subseteq PictureMoments
  BY <1>1, <1>3 DEF Given
<1> DEFINE film == Film(segments)
           total == GetTotalDuration(segments)
<1>4. CASE AddReferenceVideo
  <2>1. request'.ok /\ request'.op = "open"
    BY <1>4 DEF AddReferenceVideo, Answer
  <2> QED BY <2>1, AnythingAsAsked
<1>5. CASE ResetSegment
  <2>1. request'.ok /\ request'.op = "reset"
    BY <1>5 DEF ResetSegment, Answer
  <2> QED BY <2>1, AnythingAsAsked
<1>6. CASE AppendFromClipBoard
  <2> DEFINE both == segments \o clipboard
             list == MergeContinuousSegments(both)
  <2>1. /\ segments' = UpdateStartTime(list) /\ exact' = exact
        /\ request' = [op |-> "append", from |-> total, to |-> 0, ok |-> TRUE]
    BY <1>6 DEF AppendFromClipBoard, Change, Answer
  <2>2. /\ both \in Seq(Fitting(n)) /\ (exact => both \in Seq(Playing(n)))
        /\ Film(both) = film \cup Shift(Film(clipboard), total)
    BY <1>1, ConcatProperties, FilmConcat
  <2>3. FilmAsked = Part(film, 0, total) \cup Shift(Film(clipboard), total)
                      \cup Shift(Part(film, total, total), GetTotalDuration(clipboard))
    BY <2>1 DEF FilmAsked
  <2>4. /\ Film(clipboard) \in SUBSET Shot /\ film \in SUBSET Shot
        /\ total \in Nat /\ \A p \in film : 0 <= p.at /\ p.at < total
    BY <1>1, FilmIs, TotalIs
  <2> HIDE DEF both, film, total
  <2>5. Part(film, 0, total) = film /\ Part(film, total, total) = {}
    <3>1. \A p \in film : p.at \in Int
      BY <2>4 DEF Shot
    <3> QED BY <2>4, <3>1 DEF Part
  <2>6. Shift({}, GetTotalDuration(clipboard)) = {}
    BY DEF Shift
  <2>7. Film(both) = FilmAsked
    BY <2>2, <2>3, <2>5, <2>6
  <2>8. /\ list \in Seq(Fitting(n)) /\ (exact => list \in Seq(Playing(n)))
        /\ Film(list) = Film(both)
    BY <2>2, ClosedFitting, MergeContinuousSegmentsIs, FilmMerge
  <2> HIDE DEF list
  <2>9. SamePictures(Film(segments'), FilmAsked)
    BY <2>1, <2>7, <2>8, UpdatedShows
  <2>10. exact' => Film(segments') = FilmAsked
    BY <2>1, <2>7, <2>8, UpdatedFilm
  <2>11. request'.ok
    BY <2>1
  <2> QED BY <2>9, <2>10, <2>11 DEF Edited, PlacedAsAsked
<1>7. ASSUME NEW from \in Moments, TruncateVideo(from) PROVE Edited
  <2> DEFINE list == Tidy(Truncated(from))
             found == SegmentsAt(from) # {} /\ list # <<>>
  <2>1. Given({from}) /\ from \in Nat
    BY <1>2, <1>7 DEF TruncateVideo
  <2>2. CASE found
    <3>1. /\ segments' = list
          /\ request' = [op |-> "truncate", from |-> from, to |-> from, ok |-> TRUE]
      BY <1>7, <2>2 DEF TruncateVideo, Change, Answer
    <3>2. /\ request'.ok /\ request'.op = "truncate" /\ request'.from = from
          /\ FilmAsked = Part(film, 0, from)
      BY <3>1 DEF FilmAsked
    <3>3. /\ Truncated(from) \in Seq(Fitting(n))
          /\ exact' => Truncated(from) \in Seq(Clean(n))
      BY <1>1, <1>3, <2>1, <2>2, TruncatedIs
    <3>4. Granted => Film(Truncated(from)) = FilmAsked
      <4>1. ~LosesPictures(from) => Film(Truncated(from)) = Part(film, 0, from)
        BY <1>1, <2>1, <2>2, FilmTruncated
      <4> QED BY <3>2, <4>1 DEF Granted
    <3> HIDE DEF film
    <3> QED BY <3>1, <3>2, <3>3, <3>4, TidyAsAsked
  <2>3. CASE ~found
    <3>1. ~request'.ok /\ segments' \in {segments, UpdateStartTime(segments)}
      BY <1>7, <2>3 DEF TruncateVideo, Change, Refuse, Answer
    <3>2. Undated(segments') = Undated(segments)
      BY <1>1, <3>1, UpdatedAgain
    <3> QED BY <3>1, <3>2, RefusedAsAsked
  <2> QED BY <2>2, <2>3
<1>8. ASSUME NEW t \in Moments, PasteFromClipBoard(t) PROVE Edited
  <2>1. /\ segments' = Tidy(Pasted(t)) /\ Given({t}) /\ t \in Nat
        /\ request' = [op |-> "paste", from |-> t, to |-> t, ok |-> TRUE]
    BY <1>2, <1>8 DEF PasteFromClipBoard, Change, Answer
  <2>2. /\ Pasted(t) \in Seq(Fitting(n))
        /\ exact' => Pasted(t) \in Seq(Clean(n))
    <3>1. exact' => exact /\ t \in PictureMoments
      BY <1>3, <2>1
    <3> QED BY <1>1, <3>1, PastedIs
  <2>3. FilmAsked = Part(film, 0, t) \cup Shift(Film(clipboard), t)
                      \cup Shift(Part(film, t, total), GetTotalDuration(clipboard))
    BY <2>1 DEF FilmAsked
  <2>4. Film(Pasted(t)) = FilmAsked
    <3>1. CASE segments = <<>>
      <4>1. Pasted(t) = <<>> /\ film = {}
        BY <3>1, FilmEmpty DEF Pasted
      <4>2. Film(clipboard) = {}
        BY <1>1, <3>1, LifelessFilm DEF Barren
      <4>3. Film(Pasted(t)) = {}
        BY <4>1, FilmEmpty
      <4> HIDE DEF film, total
      <4>4. Part(film, 0, t) = {} /\ Part(film, t, total) = {}
        BY <4>1 DEF Part
      <4>5. Shift({}, t) = {} /\ Shift({}, GetTotalDuration(clipboard)) = {}
        BY DEF Shift
      <4> QED BY <2>3, <4>2, <4>3, <4>4, <4>5
    <3>2. CASE segments # <<>>
      BY <1>1, <2>3, <3>2, FilmPasted
    <3> QED BY <3>1, <3>2
  <2>5. request'.ok
    BY <2>1
  <2> QED BY <2>1, <2>2, <2>4, <2>5, TidyAsAsked
<1>9. ASSUME NEW from \in Moments, NEW to \in Moments, RemoveChunk(from, to) PROVE Edited
  <2> DEFINE found == SegmentsAt(from) # {} /\ SegmentsAt(to) # {}
  <2>1. Given({from, to}) /\ from \in Nat /\ to \in Nat
    BY <1>2, <1>9 DEF RemoveChunk
  <2>2. CASE found
    <3>1. /\ segments' = Tidy(Cut(from, to))
          /\ request' = [op |-> "cut", from |-> from, to |-> to, ok |-> TRUE]
      BY <1>9, <2>2 DEF RemoveChunk, Change, Answer
    <3>2. /\ Cut(from, to) \in Seq(Fitting(n))
          /\ exact' => Cut(from, to) \in Seq(Clean(n))
      <4>1. exact' => exact /\ {from, to} \subseteq PictureMoments
        BY <1>3, <2>1
      <4> QED BY <1>1, <2>1, <2>2, <4>1, CutIs
    <3>3. /\ request'.ok
          /\ FilmAsked = Part(film, 0, from) \cup Shift(Part(film, to, total), from - to)
      BY <3>1 DEF FilmAsked
    <3>4. Film(Cut(from, to)) = FilmAsked
      BY <1>1, <2>1, <2>2, <3>3, FilmCut
    <3> QED BY <3>1, <3>2, <3>3, <3>4, TidyAsAsked
  <2>3. CASE ~found
    <3>1. ~request'.ok /\ segments' = segments
      BY <1>9, <2>3 DEF RemoveChunk, Refuse, Answer
    <3> QED BY <3>1, RefusedAsAsked
  <2> QED BY <2>2, <2>3
<1>10. ASSUME NEW from \in Moments, NEW to \in Moments, CopyToClipBoard(from, to) PROVE Edited
  <2>1. request'.ok /\ request'.op = "copy"
    BY <1>10 DEF CopyToClipBoard, Answer
  <2> QED BY <2>1, AnythingAsAsked
<1>11. CASE UNCHANGED vars
  BY <1>11 DEF vars, Edited
<1> QED
  BY <1>4, <1>5, <1>6, <1>7, <1>8, <1>9, <1>10, <1>11 DEF Next

(* What a step promises of the film: a request refused changes nothing but *)
(* decode times; a cut, a paste or an append granted, and a truncation     *)
(* that drops no segment with a picture before the marker, shows exactly   *)
(* the pictures the user asked for, in that order, wherever the search for *)
(* the next picture moved the start of a segment, and each at its very     *)
(* moment as long as the markers were at pictures.                         *)
THEOREM SegmentsEditedAsAsked == Spec => EditedAsAsked
<1>1. SegInv /\ Barren /\ [Next]_vars =>
        [edits' # edits =>
           /\ ~request'.ok => Undated(segments') = Undated(segments)
           /\ Granted => SamePictures(Film(segments'), FilmAsked)
           /\ PlacedAsAsked]_vars
  BY SegEdited DEF Edited
<1> QED BY <1>1, SegInvariant, BarrenInvariant, PTL DEF Spec, EditedAsAsked

(* What copyToClipBoard takes is what the film shows between the markers,  *)
(* each picture as far from the first marker as in the film.               *)
THEOREM SegmentsCopiedAsAsked == Spec => CopiedAsAsked
<1> DEFINE Taken ==
      clipboard' # clipboard =>
        Film(clipboard') = Shift(Part(Film(segments), request'.from, request'.to),
                                 -request'.from)
<1>1. ASSUME SegInv, [Next]_vars PROVE Taken
  <2>0. PICK n \in Refs : n = videos
    BY <1>1 DEF SegInv
  <2>1. Listed(segments, n)
    BY <1>1, <2>0 DEF SegInv, Sound
  <2>2. ASSUME NEW from \in Moments, NEW to \in Moments, CopyToClipBoard(from, to)
        PROVE  Taken
    <3> DEFINE last == IF to >= GetTotalDuration(segments) THEN Len(segments)
                       ELSE SegmentAt(to)
               list == [i \in 1..last - SegmentAt(from) + 1 |->
                          Copied(segments[SegmentAt(from) + i - 1], from, to)]
    <3>1. /\ from <= to /\ SegmentsAt(from) # {} /\ clipboard' = list
          /\ request' = [op |-> "copy", from |-> from, to |-> to, ok |-> TRUE]
      BY <2>2 DEF CopyToClipBoard, Answer
    <3>2. from \in Nat /\ to \in Nat
      BY <2>1, PlacesAre DEF Moments
    <3>3. Film(list) = Shift(Part(Film(segments), from, to), -from)
      BY <2>1, <3>1, <3>2, FilmCopied
    <3> HIDE DEF list
    <3> QED BY <3>1, <3>3
  <2>3. CASE UNCHANGED clipboard
    BY <2>3
  <2> HIDE DEF Taken
  <2> QED BY <1>1, <2>2, <2>3
          DEF Next, vars, AddReferenceVideo, ResetSegment, AppendFromClipBoard, TruncateVideo,
              PasteFromClipBoard, RemoveChunk
<1>2. SegInv /\ [Next]_vars =>
        [clipboard' # clipboard =>
           Film(clipboard') = Shift(Part(Film(segments), request'.from, request'.to),
                                    -request'.from)]_vars
  BY <1>1
<1> QED BY <1>2, SegInvariant, PTL DEF Spec, CopiedAsAsked
=============================================================================
