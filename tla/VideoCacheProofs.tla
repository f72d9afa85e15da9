-------------------------- MODULE VideoCacheProofs --------------------------
(***************************************************************************)
(* What the filter works on, for every size of the cache of at least three *)
(* entries, however often the bridge fails and the user seeks: the picture *)
(* of its frame and its two neighbours, and no assertion can fail but the  *)
(* one on the number of the picture, after a number was used up.           *)
(*                                                                         *)
(* The age of an entry plays no part in it.  What is needed again is what  *)
(* is locked: the pictures that pass from one frame to the next were both  *)
(* among the three of the frame before, and no picture is fetched between  *)
(* the unlocking and the first of them.                                    *)
(***************************************************************************)
EXTENDS VideoCache, WellFoundedInduction, TLAPS

Dead == {"inconsistent", "noVictim", "noPrev"}

\* The cache offers an image under the number f; what it offers is right.
Offers(e, f) == ~entry[e].free /\ entry[e].frame = f
Cached(f) == \E e \in Entries : Offers(e, f)
Right(f) == Cached(f) /\ \A e \in Entries : Offers(e, f) => picture[e] = f

\* The entries the filter has in hand for the frame it works on.
Holding == CASE pc = "prev" -> {got.src}
             [] pc = "next" -> {got.src, got.prev}
             [] pc = "filter" -> {got.src, got.prev, got.next}
             [] OTHER -> {}

\* No number is offered twice, and no offer is used after the clock.
Offered ==
  /\ \A e, f \in Entries : ~entry[e].free /\ ~entry[f].free
                             /\ entry[e].frame = entry[f].frame => e = f
  /\ \A e \in Entries : ~entry[e].free => entry[e].use < counter

\* What is locked is what the filter has in hand.
Locked ==
  pc \notin Dead =>
    \A e \in Entries : /\ entry[e].lock = IF e \in Holding THEN 1 ELSE 0
                       /\ e \in Holding => ~entry[e].free

\* Without a hole the numbers of the bridge are those of the pictures.
Numbered ==
  ~hole /\ pc \notin Dead =>
    /\ IF bridge.first THEN sent = 0 ELSE sent > 0 /\ bridge.next = sent - 1
    /\ \A e \in Entries : ~entry[e].free => entry[e].frame < sent

\* Whether the picture after the current one is there, or can still come.
Ahead ==
  IF hole THEN ~Cached(Current + 1) /\ bridge.next > Current
  ELSE \/ Right(Current + 1) /\ sent = Current + 2
       \/ ~Cached(Current + 1) /\ sent = Current + 1

\* After a seek; as long as the film goes on; once a hole has been reached.
Fresh == /\ bridge.first /\ ~hole /\ sent = 0 /\ nextFrame = 0
         /\ \A e \in Entries : entry[e].free
Flowing == /\ ~bridge.first /\ Right(Current) /\ Ahead
           /\ Current > 0 => Right(Current - 1)
Doomed == ~bridge.first /\ hole /\ ~Cached(Current) /\ bridge.next >= Current

Holds(e, f) == e \in Entries /\ Offers(e, f)
Hands ==
  /\ pc \in {"prev", "next", "filter"} => Holds(got.src, Current)
  /\ pc = "prev" => Current > 0
  /\ pc \in {"prev", "next"} => got.next = got.src
  /\ pc \in {"next", "filter"} =>
       Holds(got.prev, IF Current > 0 THEN Current - 1 ELSE Current)
  /\ pc = "filter" => Holds(got.next, Current + 1) \/ (got.next = got.src /\ hole)

Course ==
  /\ pc \notin {"noVictim", "noPrev"}
  /\ pc = "inconsistent" => hole
  /\ pc = "src" => Fresh \/ Flowing \/ Doomed
  /\ pc \in {"prev", "next", "filter"} => Flowing
  /\ pc = "ended" => Doomed

IInv == TypeOK /\ Offered /\ Locked /\ Numbered /\ Hands /\ Course

-----------------------------------------------------------------------------
(* The search in the cache                                                 *)

LEMMA LeastIn ==
    ASSUME NEW S \in SUBSET Nat, S # {}
    PROVE  Least(S) \in S
<1>1. IsWellFoundedOn(OpToRel(<, Nat), Nat)
  BY NatLessThanWellFounded
<1>2. PICK x \in S : \A y \in S : ~(<<y, x>> \in OpToRel(<, Nat))
  BY <1>1, WFMin
<1>3. ASSUME NEW y \in S PROVE x <= y
  <2>1. x \in Nat /\ y \in Nat
    OBVIOUS
  <2>2. ~(y < x)
    BY <1>2, <2>1 DEF OpToRel
  <2> QED BY <2>1, <2>2
<1> QED BY <1>3 DEF Least

LEMMA Constants ==
    /\ NbEntry \in Nat /\ NbEntry >= 3 /\ MaxSent \in Nat /\ MaxEarly \in Nat
    /\ Entries \in SUBSET Nat /\ {1, 2, 3} \subseteq Entries
<1>1. /\ NbEntry \in Nat /\ NbEntry >= 3 /\ MaxSent \in Nat /\ MaxEarly \in Nat
  BY CacheAssumption DEF CacheAssumption
<1> QED BY <1>1 DEF Entries

LEMMA Search ==
    ASSUME NEW f
    PROVE  /\ Found(f) # {} <=> Cached(f)
           /\ Found(f) # {} => Holds(Least(Found(f)), f)
<1>1. Found(f) \in SUBSET Nat
  BY Constants DEF Found
<1> QED BY <1>1, LeastIn DEF Found, Cached, Offers, Holds

\* An entry that is not in hand can be given away, and only such a one is.
LEMMA VictimFree ==
    ASSUME TypeOK, Offered, Locked, pc \notin Dead,
           \E e \in Entries : e \notin Holding
    PROVE  /\ Victims # {}
           /\ Least(Victims) \in Entries
           /\ Least(Victims) \notin Holding
<1>1. PICK e0 \in Entries : e0 \notin Holding
  OBVIOUS
<1>2. Victims \subseteq Entries
  BY DEF Victims, Free, Oldest, Unlocked
<1>3. \A e \in Victims : e \notin Holding
  BY <1>2 DEF Victims, Free, Oldest, Unlocked, Locked
<1>4. Victims # {}
  <2>1. CASE Free # {}
    BY <2>1 DEF Victims
  <2>2. CASE Free = {}
    <3>1. \A e \in Entries : entry[e].use \in Nat /\ counter \in Nat /\ entry[e].use < counter
      BY <2>2 DEF Free, Offered, TypeOK
    <3>2. \A e \in Entries : Age(e) \in Nat /\ Age(e) > 0
      BY <3>1 DEF Age
    <3>3. e0 \in Unlocked
      BY <1>1, <3>2 DEF Unlocked, Locked
    <3> DEFINE Uses == {entry[e].use : e \in Unlocked}
    <3>4. Uses \in SUBSET Nat /\ Uses # {}
      BY <3>1, <3>3 DEF Unlocked
    <3>5. PICK u \in Uses : \A v \in Uses : ~(<<v, u>> \in OpToRel(<, Nat))
      BY <3>4, NatLessThanWellFounded, WFMin
    <3>6. PICK e \in Unlocked : entry[e].use = u
      BY <3>5
    <3>7. ASSUME NEW f \in Unlocked PROVE Age(f) <= Age(e)
      <4>1. entry[f].use \in Uses /\ entry[f].use \in Nat /\ u \in Nat
        BY <3>4
      <4>2. ~(entry[f].use < u)
        BY <3>5, <4>1 DEF OpToRel
      <4> QED BY <3>1, <3>6, <4>1, <4>2 DEF Age, Unlocked
    <3>8. e \in Oldest
      BY <3>6, <3>7 DEF Oldest
    <3> QED BY <2>2, <3>8 DEF Victims
  <2> QED BY <2>1, <2>2
<1>5. Least(Victims) \in Victims
  BY <1>2, <1>4, LeastIn, Constants
<1> QED BY <1>2, <1>3, <1>4, <1>5

\* The number of the frame the filter makes.
LEMMA CurrentType ==
    ASSUME TypeOK
    PROVE  /\ Current \in Nat
           /\ nextFrame = 0 => Current = 0
           /\ bob' = bob /\ nextFrame' = nextFrame => Current' = Current
           /\ bob' = bob /\ nextFrame' = nextFrame + 1 => Current' \in {Current, Current + 1}
<1>1. nextFrame \in Nat /\ bob \in BOOLEAN
  BY DEF TypeOK
<1>2. \A n \in Nat : /\ n \div 2 \in Nat /\ (n = 0 => n \div 2 = 0)
                     /\ (n + 1) \div 2 \in {n \div 2, n \div 2 + 1}
  OBVIOUS
<1> QED BY <1>1, <1>2 DEF Current

LEMMA InitIInv == Init => IInv
<1> SUFFICES ASSUME Init PROVE IInv
  OBVIOUS
<1>1. /\ \A e \in Entries : entry[e] = EmptyEntry
      /\ pc = "src" /\ bridge.first /\ ~hole /\ sent = 0 /\ nextFrame = 0
  BY DEF Init
<1>2. TypeOK
  <2>1. /\ entry \in [Entries -> [frame : {NoFrame} \cup Nat, lock : 0..1,
                                  use : Nat, free : BOOLEAN]]
    BY DEF Init, EmptyEntry
  <2>2. picture \in [Entries -> {Junk} \cup 0..MaxSent]
    BY DEF Init
  <2>3. got \in [src : 0..NbEntry, prev : 0..NbEntry, next : 0..NbEntry] /\ sent \in 0..MaxSent
    BY Constants DEF Init, None
  <2>4. bridge \in [first : BOOLEAN, next : Nat]
    BY DEF Init
  <2> QED BY <2>1, <2>2, <2>3, <2>4 DEF Init, TypeOK
<1>3. Offered /\ Locked /\ Numbered
  BY <1>1 DEF Offered, Locked, Numbered, Holding, EmptyEntry
<1>4. Hands /\ Course
  BY <1>1 DEF Hands, Course, Fresh, EmptyEntry
<1> QED BY <1>2, <1>3, <1>4 DEF IInv

-----------------------------------------------------------------------------
(* Steps that leave what is offered as it is                               *)

\* The cache offers the same images, of the same frame of the filter, and the
\* bridge is where it was.
Same ==
  /\ \A e \in Entries : entry'[e].free = entry[e].free /\ entry'[e].frame = entry[e].frame
  /\ picture' = picture /\ Current' = Current
  /\ bridge' = bridge /\ hole' = hole /\ sent' = sent

LEMMA SameCourse ==
    ASSUME Same
    PROVE  /\ \A e \in Entries : \A f : Offers(e, f)' <=> Offers(e, f)
           /\ \A f : (Cached(f)' <=> Cached(f)) /\ (Right(f)' <=> Right(f))
           /\ (Flowing' <=> Flowing) /\ (Doomed' <=> Doomed)
<1>1. ASSUME NEW f
      PROVE  /\ \A e \in Entries : (~entry'[e].free /\ entry'[e].frame = f) <=> Offers(e, f)
             /\ Cached(f)' <=> Cached(f)
             /\ Right(f)' <=> Right(f)
  BY DEF Same, Cached, Right, Offers
<1>2. /\ Cached(Current)' <=> Cached(Current)
      /\ Cached(Current + 1)' <=> Cached(Current + 1)
      /\ Right(Current)' <=> Right(Current)
      /\ Right(Current + 1)' <=> Right(Current + 1)
      /\ Right(Current - 1)' <=> Right(Current - 1)
  BY DEF Same, Cached, Right, Offers
<1>3. Ahead' <=> Ahead
  BY <1>2 DEF Same, Ahead
<1>4. (Flowing' <=> Flowing) /\ (Doomed' <=> Doomed)
  BY <1>2, <1>3 DEF Same, Flowing, Doomed
<1>5. \A e \in Entries : \A f : Offers(e, f)' <=> Offers(e, f)
  BY <1>1 DEF Offers
<1> QED BY <1>1, <1>4, <1>5

\* An image the cache has: one more is in hand.
LEMMA CachedKept == IInv /\ GetCached => IInv'
<1> SUFFICES ASSUME TypeOK, Offered, Locked, Numbered, Hands, Course, GetCached
             PROVE  IInv'
  BY DEF IInv
<1>0. PICK e \in Entries : e = Least(Found(Wanted)) /\ Offers(e, Wanted)
  BY Search DEF GetCached, Hit, Holds
<1>1. e \in Entries /\ Offers(e, Wanted)
  BY <1>0
<1>2. /\ Asking /\ pc \in {"src", "prev", "next"} /\ pc \notin Dead
      /\ counter' = counter + 1
      /\ UNCHANGED <<picture, bridge, sent, hole, fails, nextFrame, bob, retries, seeks>>
      /\ entry' = [entry EXCEPT ![e].lock = @ + 1, ![e].use = counter]
      /\ Takes(e)
  BY <1>0 DEF GetCached, Hit, feedVars, Asking, Dead
<1>3. /\ counter \in Nat /\ counter' \in Nat /\ Current \in Nat
      /\ Current' = Current
  BY <1>2, CurrentType DEF TypeOK
<1>4. /\ \A x \in Entries \ {e} : entry'[x] = entry[x]
      /\ entry'[e].frame = entry[e].frame /\ entry'[e].free = entry[e].free
      /\ entry'[e].use = counter /\ entry'[e].lock = entry[e].lock + 1
  BY <1>1, <1>2 DEF TypeOK
<1>5. Same
  BY <1>2, <1>3, <1>4 DEF Same
<1>6. Flowing
  <2>1. CASE pc = "src"
    <3>1. Wanted = Current
      BY <2>1 DEF Wanted
    <3>2. ~Fresh /\ ~Doomed
      BY <1>1, <3>1 DEF Fresh, Doomed, Cached, Offers
    <3> QED BY <2>1, <3>2 DEF Course
  <2> QED BY <1>2, <2>1 DEF Course
<1>7. e \notin Holding
  <2>1. CASE pc = "src"
    BY <2>1 DEF Holding
  <2>2. CASE pc = "prev"
    BY <1>1, <1>3, <2>2 DEF Holding, Hands, Holds, Offers, Wanted
  <2>3. CASE pc = "next"
    <3>1. e # got.src /\ e # got.prev
      BY <1>1, <1>3, <2>3 DEF Hands, Holds, Offers, Wanted
    <3> QED BY <2>3, <3>1 DEF Holding
  <2> QED BY <1>2, <2>1, <2>2, <2>3
<1>8. entry[e].lock = 0 /\ entry'[e].lock = 1
  BY <1>1, <1>2, <1>4, <1>7 DEF Locked
<1>9. e # None /\ e \in 0..NbEntry
  BY <1>1, Constants DEF None, Entries
<1>10. /\ pc' \in {"prev", "next", "filter"} /\ pc' \notin Dead
       /\ Holding' = Holding \cup {e}
       /\ got' \in [src : 0..NbEntry, prev : 0..NbEntry, next : 0..NbEntry]
       /\ Hands'
  <2>0. /\ got \in [src : 0..NbEntry, prev : 0..NbEntry, next : 0..NbEntry]
        /\ hole' = hole
    BY <1>2 DEF TypeOK
  <2> DEFINE Stays(x, f) == x \in Entries /\ ~entry'[x].free /\ entry'[x].frame = f
  <2>a. \A x, f : Holds(x, f) => Stays(x, f)
    BY <1>5 DEF Same, Holds, Offers
  <2>b. Holds(e, Wanted)
    BY <1>1 DEF Holds
  <2>1. CASE pc = "src"
    <3>1. /\ got' = [src |-> e, prev |-> e, next |-> e]
          /\ pc' = IF Current > 0 THEN "prev" ELSE "next"
      BY <1>2, <1>9, <2>1 DEF Takes
    <3>2. Holding' = {e} /\ Holding = {}
      BY <2>1, <3>1 DEF Holding
    <3>3. Stays(e, Current)
      BY <2>1, <2>a, <2>b DEF Wanted
    <3>4. Hands'
      BY <1>3, <3>1, <3>3 DEF Hands, Holds, Offers
    <3> QED BY <1>9, <3>1, <3>2, <3>4 DEF Dead
  <2>2. CASE pc = "prev"
    <3>1. got' = [got EXCEPT !.prev = e] /\ pc' = "next"
      BY <1>2, <1>9, <2>2 DEF Takes
    <3>2. got'.src = got.src /\ got'.prev = e /\ got'.next = got.next
      BY <2>0, <3>1
    <3>3. Holding' = {got.src, e} /\ Holding = {got.src}
      BY <2>2, <3>1, <3>2 DEF Holding
    <3>4. Holds(got.src, Current) /\ Current > 0 /\ got.next = got.src
      BY <2>2 DEF Hands
    <3>5. Stays(got.src, Current) /\ Stays(e, Current - 1)
      BY <2>2, <2>a, <2>b, <3>4 DEF Wanted
    <3>6. Hands'
      BY <1>3, <3>1, <3>2, <3>4, <3>5 DEF Hands, Holds, Offers
    <3> QED BY <1>9, <2>0, <3>1, <3>3, <3>6 DEF Dead
  <2>3. CASE pc = "next"
    <3>1. got' = [got EXCEPT !.next = e] /\ pc' = "filter"
      BY <1>2, <1>9, <2>3 DEF Takes
    <3>2. got'.src = got.src /\ got'.prev = got.prev /\ got'.next = e
      BY <2>0, <3>1
    <3>3. Holding' = {got.src, got.prev, e} /\ Holding = {got.src, got.prev}
      BY <2>3, <3>1, <3>2 DEF Holding
    <3>4. /\ Holds(got.src, Current)
          /\ Holds(got.prev, IF Current > 0 THEN Current - 1 ELSE Current)
      BY <2>3 DEF Hands
    <3>5. /\ Stays(got.src, Current) /\ Stays(e, Current + 1)
          /\ Stays(got.prev, IF Current > 0 THEN Current - 1 ELSE Current)
      BY <2>3, <2>a, <2>b, <3>4 DEF Wanted
    <3>6. Hands'
      BY <1>3, <3>1, <3>2, <3>5 DEF Hands, Holds, Offers
    <3> QED BY <1>9, <2>0, <3>1, <3>3, <3>6 DEF Dead
  <2> QED BY <1>2, <2>1, <2>2, <2>3
<1>11. TypeOK'
  <2>1. entry' \in [Entries -> [frame : {NoFrame} \cup Nat, lock : 0..1,
                                use : Nat, free : BOOLEAN]]
    <3> DEFINE R == [frame : {NoFrame} \cup Nat, lock : 0..1, use : Nat, free : BOOLEAN]
    <3>1. entry' = [x \in Entries |-> entry'[x]]
      BY <1>2 DEF TypeOK
    <3>2. ASSUME NEW x \in Entries PROVE entry'[x] \in R
      <4>1. entry[x] \in R
        BY DEF TypeOK
      <4>2. CASE x = e
        <5>1. entry'[e] = [entry[e] EXCEPT !.lock = entry[e].lock + 1, !.use = counter]
          BY <1>1, <1>2 DEF TypeOK
        <5>2. entry'[e] = [frame |-> entry[e].frame, lock |-> 1,
                           use |-> counter, free |-> entry[e].free]
          BY <1>8, <4>1, <4>2, <5>1
        <5>3. entry[e].frame \in {NoFrame} \cup Nat /\ entry[e].free \in BOOLEAN
          BY <4>1, <4>2
        <5> QED BY <1>3, <4>2, <5>2, <5>3
      <4> QED BY <1>4, <4>1, <4>2
    <3> QED BY <3>1, <3>2
  <2> QED BY <1>2, <1>3, <1>10, <2>1 DEF TypeOK
<1>12. Offered'
  <2>1. \A x \in Entries : /\ entry'[x].free = entry[x].free
                           /\ entry'[x].frame = entry[x].frame
    BY <1>5 DEF Same
  <2>2. \A x \in Entries : ~entry'[x].free => entry'[x].use < counter'
    <3> SUFFICES ASSUME NEW x \in Entries, ~entry'[x].free PROVE entry'[x].use < counter'
      OBVIOUS
    <3>1. CASE x = e
      BY <1>2, <1>3, <1>4, <3>1
    <3>2. CASE x # e
      <4>1. entry'[x] = entry[x] /\ entry[x].use < counter /\ entry[x].use \in Nat
        BY <1>4, <2>1, <3>2 DEF Offered, TypeOK
      <4> QED BY <1>2, <1>3, <4>1
    <3> QED BY <3>1, <3>2
  <2> QED BY <2>1, <2>2 DEF Offered
<1>13. Locked'
  <2> SUFFICES ASSUME NEW x \in Entries
               PROVE  /\ entry'[x].lock = IF x \in Holding \cup {e} THEN 1 ELSE 0
                      /\ x \in Holding \cup {e} => ~entry'[x].free
    BY <1>10 DEF Locked
  <2>1. CASE x = e
    BY <1>1, <1>4, <1>8, <2>1 DEF Offers
  <2>2. CASE x # e
    BY <1>2, <1>4, <2>2 DEF Locked
  <2> QED BY <2>1, <2>2
<1>14. Numbered'
  <2>1. \A x \in Entries : /\ entry'[x].free = entry[x].free
                           /\ entry'[x].frame = entry[x].frame
    BY <1>5 DEF Same
  <2> QED BY <1>2, <2>1 DEF Numbered
<1>15. Course'
  BY <1>5, <1>6, <1>10, SameCourse DEF Course
<1> QED BY <1>10, <1>11, <1>12, <1>13, <1>14, <1>15 DEF IInv

\* An image the cache does not have: what is given away is not in hand, and the
\* bridge sends what was asked for unless a number was used up.
LEMMA BridgeAsked ==
    ASSUME IInv, GetFromBridge
    PROVE  /\ pc \in {"src", "next"} /\ pc \notin Dead
           /\ Current \in Nat /\ Current' = Current
           /\ ~Cached(Wanted) /\ Wanted \in Nat
           /\ UNCHANGED <<nextFrame, bob, retries, seeks>>
           /\ \E v \in Entries : v \notin Holding /\ FromBridge(v)
<1>1. /\ pc \in {"src", "prev", "next"} /\ pc \notin Dead
      /\ Found(Wanted) = {}
      /\ UNCHANGED <<nextFrame, bob, retries, seeks>>
  BY DEF GetFromBridge, Asking, Dead
<1>2. Current \in Nat /\ Current' = Current
  BY <1>1, CurrentType DEF IInv
<1>3. ~Cached(Wanted)
  BY <1>1, Search
<1>4. pc # "prev"
  BY <1>3 DEF IInv, Hands, Course, Flowing, Right, Wanted
<1>5. Wanted \in Nat
  BY <1>1, <1>2, <1>4 DEF Wanted
<1>6. \E e \in Entries : e \notin Holding
  <2>1. Holding \subseteq {got.src, got.prev}
    BY <1>1, <1>4 DEF Holding
  <2> QED BY <2>1, Constants
<1>7. /\ Victims # {} /\ Least(Victims) \in Entries /\ Least(Victims) \notin Holding
  BY <1>1, <1>6, VictimFree DEF IInv
<1>8. FromBridge(Least(Victims))
  BY <1>7 DEF GetFromBridge
<1> QED BY <1>1, <1>2, <1>3, <1>4, <1>5, <1>7, <1>8

\* Where the bridge is while the filter asks for an image the cache does not have.
LEMMA BridgeAt ==
    ASSUME IInv, pc \in {"src", "next"}, ~Cached(Wanted), Current \in Nat,
           NEW early \in Nat
    PROVE  /\ pc = "src" => Fresh \/ Doomed
           /\ pc = "next" => Flowing
           /\ NumberAfter(early) \in Nat /\ NumberAfter(early) >= Current
           /\ pc = "next" => NumberAfter(early) >= Current + 1
           /\ hole => NumberAfter(early) # Wanted
           /\ ~hole /\ early = 0 => NumberAfter(early) = Wanted
           /\ ~hole => Wanted = sent
           /\ pc = "next" => ~bridge.first
           /\ pc = "next" /\ ~hole => sent # 0
<1>1. bridge.next \in Nat /\ bridge.first \in BOOLEAN /\ sent \in Nat
  BY Constants DEF IInv, TypeOK
<1>2. CASE pc = "src"
  <2>1. Wanted = Current
    BY <1>2 DEF Wanted
  <2>2. Fresh \/ Doomed
    BY <1>2, <2>1 DEF IInv, Course, Flowing, Right
  <2>3. CASE Fresh
    <3>1. Current = 0
      BY <2>3, CurrentType DEF Fresh, IInv
    <3> QED BY <1>1, <1>2, <2>1, <2>3, <3>1 DEF Fresh, NumberAfter
  <2>4. CASE Doomed
    BY <1>1, <1>2, <2>1, <2>4 DEF Doomed, NumberAfter
  <2> QED BY <2>2, <2>3, <2>4
<1>3. CASE pc = "next"
  <2>1. Wanted = Current + 1 /\ pc \notin Dead
    BY <1>3 DEF Wanted, Dead
  <2>2. Flowing /\ ~bridge.first
    BY <1>3 DEF IInv, Course, Flowing
  <2>3. CASE hole
    <3>1. bridge.next > Current
      BY <2>2, <2>3 DEF Flowing, Ahead
    <3> QED BY <1>1, <1>3, <2>1, <2>2, <2>3, <3>1 DEF NumberAfter
  <2>4. CASE ~hole
    <3>1. sent = Current + 1
      BY <2>1, <2>2, <2>4 DEF Flowing, Ahead, Right
    <3>2. bridge.next = sent - 1
      BY <2>1, <2>2, <2>4 DEF IInv, Numbered
    <3> QED BY <1>1, <1>3, <2>1, <2>2, <2>4, <3>1, <3>2 DEF NumberAfter
  <2> QED BY <2>3, <2>4
<1> QED BY <1>2, <1>3

\* The bridge sends it: it goes into the entry v and to the filter.
LEMMA FetchKept ==
    ASSUME IInv, GetFromBridge, NEW v \in Entries, v \notin Holding,
           NEW early \in 0..MaxEarly, Fetch(Wanted, v, early), Takes(v)
    PROVE  IInv'
<1>1. /\ pc \in {"src", "next"} /\ pc \notin Dead
      /\ Current \in Nat /\ Current' = Current
      /\ ~Cached(Wanted) /\ Wanted \in Nat
      /\ UNCHANGED <<nextFrame, bob, retries, seeks>>
  BY BridgeAsked
<1>2. early \in Nat
  BY Constants
<1>3. /\ NumberAfter(early) = Wanted /\ ~hole
      /\ Wanted = sent /\ sent \in Nat /\ sent < MaxSent /\ counter \in Nat
      /\ pc = "src" => Fresh
      /\ pc = "next" => Flowing /\ sent # 0
  <2>1. NumberAfter(early) = Wanted /\ sent < MaxSent
    BY DEF Fetch, Sends
  <2>2. ~hole
    BY <1>1, <1>2, <2>1, BridgeAt
  <2> QED BY <1>1, <1>2, <2>1, <2>2, BridgeAt DEF Doomed, IInv, TypeOK
<1>4. early = 0
  <2>1. early = 0 \/ sent = 0
    BY DEF Fetch, Sends
  <2>2. CASE pc = "src"
    <3>1. Current = 0 /\ bridge.first /\ Wanted = Current
      BY <1>3, <2>2, CurrentType DEF Fresh, IInv, Wanted
    <3> QED BY <1>2, <1>3, <3>1 DEF NumberAfter
  <2> QED BY <1>1, <1>3, <2>1, <2>2
<1>5. /\ bridge' = [first |-> FALSE, next |-> Wanted]
      /\ sent' = sent + 1 /\ hole' = FALSE
      /\ picture' = [picture EXCEPT ![v] = sent]
      /\ counter' = counter + 1
      /\ entry' = [entry EXCEPT ![v] = [frame |-> Wanted, lock |-> 1,
                                        use |-> counter, free |-> FALSE]]
  <2>1. entry[v].lock + 1 = 1
    BY <1>1 DEF IInv, Locked
  <2>2. hole = FALSE /\ (early > 0) = FALSE
    BY <1>3, <1>4 DEF IInv, TypeOK
  <2>3. hole' = FALSE
    BY <2>2 DEF Fetch, Sends
  <2>4. /\ bridge' = [first |-> FALSE, next |-> Wanted] /\ sent' = sent + 1
        /\ picture' = [picture EXCEPT ![v] = sent] /\ counter' = counter + 1
    BY <1>3 DEF Fetch, Sends
  <2>5. entry' = [entry EXCEPT ![v] = [frame |-> Wanted, lock |-> 1,
                                       use |-> counter, free |-> FALSE]]
    BY <2>1 DEF Fetch
  <2> QED BY <2>3, <2>4, <2>5
<1>6. /\ entry'[v] = [frame |-> Wanted, lock |-> 1, use |-> counter, free |-> FALSE]
      /\ \A x \in Entries \ {v} : entry'[x] = entry[x]
      /\ picture'[v] = Wanted
      /\ \A x \in Entries \ {v} : picture'[x] = picture[x]
  BY <1>3, <1>5 DEF IInv, TypeOK
<1>7. \A x \in Entries : ~entry'[x].free /\ entry'[x].frame = Wanted <=> x = v
  BY <1>1, <1>6 DEF Offers, Cached
<1>8. \A x \in Entries : \A f : f # Wanted /\ ~entry'[x].free /\ entry'[x].frame = f
                                  => x # v /\ Offers(x, f)
  BY <1>6 DEF Offers
<1>9. v # None /\ v \in 0..NbEntry
  BY Constants DEF None, Entries
<1>10. TypeOK'
  <2>1. [frame |-> Wanted, lock |-> 1, use |-> counter, free |-> FALSE]
          \in [frame : {NoFrame} \cup Nat, lock : 0..1, use : Nat, free : BOOLEAN]
    BY <1>1, <1>3
  <2>2. entry' \in [Entries -> [frame : {NoFrame} \cup Nat, lock : 0..1,
                                use : Nat, free : BOOLEAN]]
    BY <1>5, <2>1 DEF IInv, TypeOK
  <2>3. sent \in 0..MaxSent /\ sent' \in 0..MaxSent
    BY <1>3, <1>5, Constants
  <2>4. picture' \in [Entries -> {Junk} \cup 0..MaxSent]
    BY <1>5, <2>3 DEF IInv, TypeOK
  <2>5. pc' \in {"prev", "next", "filter"}
    BY <1>1, <1>9 DEF Takes
  <2>6. got' \in [src : 0..NbEntry, prev : 0..NbEntry, next : 0..NbEntry]
    <3>1. CASE pc = "src"
      BY <1>9, <3>1 DEF Takes
    <3>2. CASE pc = "next"
      <4>1. got' = [got EXCEPT !.next = v]
        BY <1>9, <3>2 DEF Takes
      <4> QED BY <1>9, <4>1 DEF IInv, TypeOK
    <3> QED BY <1>1, <3>1, <3>2
  <2>7. bridge' \in [first : BOOLEAN, next : Nat]
    BY <1>1, <1>5
  <2>8. counter' \in Nat /\ nextFrame' \in Nat /\ bob' \in BOOLEAN
    BY <1>1, <1>3, <1>5 DEF IInv, TypeOK
  <2>9. hole' \in BOOLEAN
    BY <1>5
  <2> QED BY <2>2, <2>3, <2>4, <2>5, <2>6, <2>7, <2>8, <2>9 DEF TypeOK
<1>11. Offered'
  <2>1. \A x, y \in Entries : ~entry'[x].free /\ ~entry'[y].free
                                /\ entry'[x].frame = entry'[y].frame => x = y
    <3> SUFFICES ASSUME NEW x \in Entries, NEW y \in Entries, ~entry'[x].free, ~entry'[y].free,
                        entry'[x].frame = entry'[y].frame
                 PROVE  x = y
      OBVIOUS
    <3>1. CASE entry'[x].frame = Wanted
      <4>1. x = v /\ y = v
        BY <1>7, <3>1
      <4> QED BY <4>1
    <3>2. CASE entry'[x].frame # Wanted
      BY <1>8, <3>2 DEF IInv, Offered, Offers
    <3> QED BY <3>1, <3>2
  <2>2. \A x \in Entries : ~entry'[x].free => entry'[x].use < counter'
    <3> SUFFICES ASSUME NEW x \in Entries, ~entry'[x].free PROVE entry'[x].use < counter'
      OBVIOUS
    <3>1. CASE x = v
      BY <1>3, <1>5, <1>6, <3>1
    <3>2. CASE x # v
      <4>1. entry'[x] = entry[x] /\ entry[x].use < counter /\ entry[x].use \in Nat
        BY <1>6, <3>2 DEF IInv, Offered, TypeOK
      <4> QED BY <1>3, <1>5, <4>1
    <3> QED BY <3>1, <3>2
  <2> QED BY <2>1, <2>2 DEF Offered
<1>12. Numbered'
  <2>1. \A x \in Entries : ~entry'[x].free => entry'[x].frame < sent'
    <3> SUFFICES ASSUME NEW x \in Entries, ~entry'[x].free PROVE entry'[x].frame < sent'
      OBVIOUS
    <3>1. CASE x = v
      BY <1>3, <1>5, <1>6, <3>1
    <3>2. CASE x # v
      <4>1. entry'[x] = entry[x] /\ entry[x].frame < sent /\ entry[x].frame \in Int
        BY <1>1, <1>3, <1>6, <3>2 DEF IInv, Numbered, TypeOK, NoFrame
      <4> QED BY <1>3, <1>5, <4>1
    <3> QED BY <3>1, <3>2
  <2> QED BY <1>3, <1>5, <2>1 DEF Numbered
<1>13. CASE pc = "src"
  <2>1. Wanted = Current /\ Current = 0 /\ sent = 0 /\ \A x \in Entries : entry[x].free
    BY <1>3, <1>13, CurrentType DEF Fresh, IInv, Wanted
  <2>2. pc' = "next" /\ got' = [src |-> v, prev |-> v, next |-> v]
    BY <1>9, <1>13, <2>1 DEF Takes
  <2>3. Flowing'
    <3>1. Right(Current)'
      BY <1>1, <1>6, <1>7, <2>1 DEF Right, Cached, Offers
    <3>2. Ahead'
      <4>1. ~Cached(Current + 1)'
        BY <1>1, <1>8, <2>1 DEF Cached, Offers
      <4> QED BY <1>1, <1>5, <2>1, <4>1 DEF Ahead
    <3> QED BY <1>1, <1>5, <2>1, <3>1, <3>2 DEF Flowing
  <2>4. Hands'
    BY <1>1, <1>7, <2>1, <2>2 DEF Hands, Holds, Offers
  <2>5. Locked'
    <3>1. Holding' = {v}
      BY <2>2 DEF Holding
    <3>2. \A x \in Entries \ {v} : entry'[x].lock = 0
      BY <1>1, <1>6, <1>13 DEF IInv, Locked, Holding
    <3> QED BY <1>6, <3>1, <3>2 DEF Locked
  <2>6. Course'
    BY <2>2, <2>3 DEF Course
  <2> QED BY <1>10, <1>11, <1>12, <2>4, <2>5, <2>6 DEF IInv
<1>14. CASE pc = "next"
  <2>1. /\ Wanted = Current + 1 /\ Flowing /\ sent = Current + 1
        /\ Holds(got.src, Current)
        /\ Holds(got.prev, IF Current > 0 THEN Current - 1 ELSE Current)
    BY <1>3, <1>14 DEF IInv, Hands, Wanted
  <2>2. /\ pc' = "filter" /\ got'.src = got.src /\ got'.prev = got.prev /\ got'.next = v
    BY <1>9, <1>14 DEF Takes, IInv, TypeOK
  <2>3. got.src # v /\ got.prev # v /\ Holding = {got.src, got.prev} /\ Holding' = {got.src, got.prev, v}
    BY <1>14, <2>2 DEF Holding
  <2>4. /\ Offers(got.src, Current)' /\ Offers(got.src, Current)
        /\ Offers(got.prev, IF Current > 0 THEN Current - 1 ELSE Current)'
        /\ Offers(v, Current + 1)'
    BY <1>1, <1>6, <2>1, <2>2, <2>3 DEF Holds, Offers
  <2>5. Flowing'
    <3>1. Right(Current)'
      <4>1. \A x \in Entries : Offers(x, Current)' => picture'[x] = Current
        BY <1>1, <1>6, <2>1 DEF Flowing, Right, Offers
      <4> QED BY <1>1, <2>1, <2>2, <2>4, <4>1 DEF Right, Cached, Holds
    <3>2. Current > 0 => Right(Current - 1)'
      <4>1. Current > 0 =>
              \A x \in Entries : Offers(x, Current - 1)' => picture'[x] = Current - 1
        BY <1>1, <1>6, <2>1 DEF Flowing, Right, Offers
      <4> QED BY <1>1, <2>1, <2>2, <2>4, <4>1 DEF Right, Cached, Holds
    <3>3. Right(Current + 1)'
      BY <1>1, <1>6, <1>7, <2>1 DEF Right, Cached, Offers
    <3> QED BY <1>1, <1>3, <1>5, <2>1, <3>1, <3>2, <3>3 DEF Flowing, Ahead
  <2>6. Hands'
    BY <1>1, <2>1, <2>2, <2>4 DEF Hands, Holds
  <2>7. Locked'
    <3> SUFFICES ASSUME NEW x \in Entries
                 PROVE  /\ entry'[x].lock = IF x \in Holding \cup {v} THEN 1 ELSE 0
                        /\ x \in Holding \cup {v} => ~entry'[x].free
      BY <2>3 DEF Locked
    <3> QED BY <1>1, <1>6 DEF IInv, Locked
  <2>8. Course'
    BY <2>2, <2>5 DEF Course
  <2> QED BY <1>10, <1>11, <1>12, <2>6, <2>7, <2>8 DEF IInv
<1> QED BY <1>1, <1>13, <1>14

\* The bridge fails: the film ends there, or at the picture in hand.
LEMMA FailKept ==
    ASSUME IInv, GetFromBridge, NEW v \in Entries, v \notin Holding,
           NEW early \in 0..MaxEarly, FetchFails(v, early), Takes(None)
    PROVE  IInv'
<1>1. /\ pc \in {"src", "next"} /\ pc \notin Dead
      /\ Current \in Nat /\ Current' = Current
      /\ ~Cached(Wanted)
      /\ UNCHANGED <<nextFrame, bob, retries, seeks>>
  BY BridgeAsked
<1>2. early \in Nat
  BY Constants
<1>3. /\ bridge' = [first |-> FALSE, next |-> NumberAfter(early)]
      /\ sent' = sent /\ hole' = TRUE
      /\ picture' = [picture EXCEPT ![v] = Junk]
      /\ entry' = entry /\ counter' = counter /\ got' = got
      /\ pc' = IF pc = "src" THEN "ended" ELSE "filter"
  BY <1>1 DEF FetchFails, FailsToSend, Takes, None
<1>4. /\ NumberAfter(early) \in Nat /\ NumberAfter(early) >= Current
      /\ pc = "next" => NumberAfter(early) >= Current + 1 /\ Flowing
  BY <1>1, <1>2, BridgeAt
<1>5. \A x \in Entries : \A f : Offers(x, f)' <=> Offers(x, f)
  BY <1>3 DEF Offers
<1>6. TypeOK'
  <2>1. picture' \in [Entries -> {Junk} \cup 0..MaxSent]
    BY <1>3 DEF IInv, TypeOK
  <2>2. bridge' \in [first : BOOLEAN, next : Nat]
    BY <1>3, <1>4
  <2> QED BY <1>1, <1>3, <2>1, <2>2 DEF IInv, TypeOK
<1>7. Offered'
  BY <1>3 DEF IInv, Offered
<1>8. Numbered'
  BY <1>3 DEF Numbered
<1>9. CASE pc = "src"
  <2>1. pc' = "ended"
    BY <1>3, <1>9
  <2>2. Locked'
    BY <1>1, <1>3, <1>9, <2>1 DEF IInv, Locked, Holding
  <2>3. Doomed'
    <3>1. ~Cached(Current)'
      BY <1>1, <1>5, <1>9 DEF Cached, Wanted
    <3> QED BY <1>1, <1>3, <1>4, <3>1 DEF Doomed
  <2> QED BY <1>6, <1>7, <1>8, <2>1, <2>2, <2>3 DEF IInv, Course, Hands
<1>10. CASE pc = "next"
  <2>1. pc' = "filter"
    BY <1>3, <1>10
  <2>2. /\ Wanted = Current + 1 /\ Flowing /\ got.next = got.src
        /\ Holds(got.src, Current)
        /\ Holds(got.prev, IF Current > 0 THEN Current - 1 ELSE Current)
        /\ got.src # v /\ got.prev # v
    BY <1>4, <1>10 DEF IInv, Hands, Wanted, Holding
  <2>3. Locked'
    <3>1. Holding' = Holding
      BY <1>3, <1>10, <2>1, <2>2 DEF Holding
    <3> QED BY <1>1, <1>3, <3>1 DEF IInv, Locked
  <2>4. Hands'
    BY <1>1, <1>3, <2>1, <2>2 DEF Hands, Holds, Offers
  <2>5. ASSUME NEW f, NEW h \in Entries, h # v, Offers(h, f), Right(f)
        PROVE  \A x \in Entries : Offers(x, f) => picture'[x] = f
    <3>1. \A x \in Entries : Offers(x, f) => x = h
      BY <2>5 DEF IInv, Offered, Offers
    <3>2. picture'[h] = picture[h]
      BY <1>3, <2>5 DEF IInv, TypeOK
    <3> QED BY <2>5, <3>1, <3>2 DEF Right
  <2>6. Flowing'
    <3>1. Right(Current)'
      <4>1. \A x \in Entries : Offers(x, Current) => picture'[x] = Current
        BY <2>2, <2>5 DEF Holds, Flowing
      <4> QED BY <1>1, <1>3, <2>2, <4>1 DEF Right, Cached, Offers, Holds
    <3>2. Current > 0 => Right(Current - 1)'
      <4>1. Current > 0 => \A x \in Entries : Offers(x, Current - 1) => picture'[x] = Current - 1
        BY <2>2, <2>5 DEF Holds, Flowing
      <4> QED BY <1>1, <1>3, <2>2, <4>1 DEF Right, Cached, Offers, Holds
    <3>3. Ahead'
      <4>1. ~Cached(Current + 1)'
        BY <1>1, <1>5, <2>2 DEF Cached
      <4>2. NumberAfter(early) > Current
        BY <1>1, <1>4, <1>10
      <4> QED BY <1>1, <1>3, <4>1, <4>2 DEF Ahead
    <3> QED BY <1>1, <1>3, <3>1, <3>2, <3>3 DEF Flowing
  <2> QED BY <1>6, <1>7, <1>8, <2>1, <2>3, <2>4, <2>6 DEF IInv, Course
<1> QED BY <1>1, <1>9, <1>10

\* The bridge sends another picture: the end, and only after a hole.
LEMMA InconsistentKept ==
    ASSUME IInv, GetFromBridge, NEW v \in Entries, v \notin Holding,
           NEW early \in 0..MaxEarly, Inconsistent(Wanted, v, early),
           pc' = "inconsistent", got' = got
    PROVE  IInv'
<1>1. /\ pc \in {"src", "next"}
      /\ Current \in Nat /\ ~Cached(Wanted)
      /\ UNCHANGED <<nextFrame, bob, retries, seeks>>
  BY BridgeAsked
<1>2. early \in Nat
  BY Constants
<1>3. /\ bridge' = [first |-> FALSE, next |-> NumberAfter(early)]
      /\ sent < MaxSent /\ sent' = sent + 1 /\ hole' = (hole \/ early > 0)
      /\ picture' = [picture EXCEPT ![v] = sent]
      /\ entry' = entry /\ counter' = counter /\ NumberAfter(early) # Wanted
  BY DEF Inconsistent, Sends
<1>4. hole'
  <2>1. hole \in BOOLEAN
    BY DEF IInv, TypeOK
  <2>2. hole \/ early # 0
    BY <1>1, <1>2, <1>3, BridgeAt
  <2>3. hole \/ early > 0
    BY <1>2, <2>2
  <2> QED BY <1>3, <2>3
<1>5. TypeOK'
  <2>1. sent \in 0..MaxSent /\ sent' \in 0..MaxSent
    BY <1>3, Constants DEF IInv, TypeOK
  <2>2. picture' \in [Entries -> {Junk} \cup 0..MaxSent]
    BY <1>3, <2>1 DEF IInv, TypeOK
  <2>3. bridge' \in [first : BOOLEAN, next : Nat]
    BY <1>1, <1>2, <1>3, BridgeAt
  <2>4. hole' \in BOOLEAN
    BY <1>4
  <2> QED BY <1>1, <1>3, <2>1, <2>2, <2>3, <2>4 DEF IInv, TypeOK
<1>6. Offered'
  BY <1>3 DEF IInv, Offered
<1>7. pc' \in Dead
  BY DEF Dead
<1> QED BY <1>4, <1>5, <1>6, <1>7 DEF IInv, Locked, Numbered, Hands, Course

LEMMA BridgeKept == IInv /\ GetFromBridge => IInv'
<1> SUFFICES ASSUME IInv, GetFromBridge PROVE IInv'
  OBVIOUS
<1>1. PICK v \in Entries : v \notin Holding /\ FromBridge(v)
  BY BridgeAsked
<1>2. PICK early \in 0..MaxEarly :
        \/ Fetch(Wanted, v, early) /\ Takes(v)
        \/ FetchFails(v, early) /\ Takes(None)
        \/ Inconsistent(Wanted, v, early) /\ pc' = "inconsistent" /\ UNCHANGED got
  BY <1>1 DEF FromBridge
<1> QED BY <1>1, <1>2, FetchKept, FailKept, InconsistentKept

-----------------------------------------------------------------------------
(* The filter goes on, asks again, seeks                                   *)

LEMMA FilterKept == IInv /\ Filter => IInv'
<1> SUFFICES ASSUME IInv, Filter PROVE IInv'
  OBVIOUS
<1>1. /\ pc = "filter" /\ pc' = "src" /\ nextFrame' = nextFrame + 1
      /\ UNCHANGED <<picture, counter, bridge, sent, hole, fails, bob, got>>
      /\ entry' = [e \in Entries |-> [entry[e] EXCEPT !.lock = 0]]
  BY DEF Filter, UnlockAll, feedVars
<1>2. Current \in Nat /\ Current' \in {Current, Current + 1}
  BY <1>1, CurrentType DEF IInv
<1>3. \A x \in Entries : /\ entry'[x].frame = entry[x].frame /\ entry'[x].free = entry[x].free
                         /\ entry'[x].use = entry[x].use /\ entry'[x].lock = 0
  BY <1>1 DEF IInv, TypeOK
<1>4. TypeOK'
  <2>1. entry' \in [Entries -> [frame : {NoFrame} \cup Nat, lock : 0..1,
                                use : Nat, free : BOOLEAN]]
    <3> DEFINE R == [frame : {NoFrame} \cup Nat, lock : 0..1, use : Nat, free : BOOLEAN]
    <3>1. ASSUME NEW x \in Entries PROVE [entry[x] EXCEPT !.lock = 0] \in R
      <4>1. entry[x] \in R /\ 0 \in 0..1
        BY DEF IInv, TypeOK
      <4> QED BY <4>1
    <3> QED BY <1>1, <3>1
  <2>2. nextFrame' \in Nat
    BY <1>1 DEF IInv, TypeOK
  <2> QED BY <1>1, <2>1, <2>2 DEF IInv, TypeOK
<1>5. Offered' /\ Locked' /\ Numbered' /\ Hands'
  <2>1. Offered'
    <3>1. \A x, y \in Entries : ~entry[x].free /\ ~entry[y].free
                                  /\ entry[x].frame = entry[y].frame => x = y
      BY DEF IInv, Offered
    <3>2. \A x \in Entries : ~entry'[x].free => entry'[x].use < counter'
      BY <1>1, <1>3 DEF IInv, Offered
    <3> QED BY <1>3, <3>1, <3>2 DEF Offered
  <2>2. Locked'
    BY <1>1, <1>3 DEF Locked, Holding
  <2>3. Numbered'
    BY <1>1, <1>3 DEF IInv, Numbered, Dead
  <2> QED BY <1>1, <2>1, <2>2, <2>3 DEF Hands
<1>6. Flowing
  BY <1>1 DEF IInv, Course
<1>7. Flowing' \/ Doomed'
  <2>1. CASE Current' = Current
    BY <1>1, <1>3, <1>6, <2>1, SameCourse DEF Same
  <2>2. CASE Current' = Current + 1 /\ hole
    <3>1. ~Cached(Current + 1) /\ bridge.next > Current /\ ~bridge.first /\ bridge.next \in Nat
      BY <1>6, <2>2 DEF Flowing, Ahead, IInv, TypeOK
    <3>2. ~Cached(Current)'
      BY <1>3, <2>2, <3>1 DEF Cached, Offers
    <3> QED BY <1>1, <1>2, <2>2, <3>1, <3>2 DEF Doomed
  <2>3. CASE Current' = Current + 1 /\ ~hole
    <3>1. Cached(Current + 1)
      BY <1>1, <2>3 DEF IInv, Hands, Holds, Cached
    <3>2. Right(Current + 1) /\ sent = Current + 2 /\ Right(Current) /\ ~bridge.first
      BY <1>6, <2>3, <3>1 DEF Flowing, Ahead
    <3>3. Right(Current)' /\ Right(Current - 1)'
      <4>1. picture' = picture /\ Current' - 1 = Current
        BY <1>1, <1>2, <2>3
      <4>2. Right(Current)'
        BY <1>3, <2>3, <3>2, <4>1 DEF Right, Cached, Offers
      <4>3. Right(Current - 1)'
        BY <1>3, <3>2, <4>1 DEF Right, Cached, Offers
      <4> QED BY <4>2, <4>3
    <3>4. ~Cached(Current + 1)'
      <4>1. \A x \in Entries : ~entry[x].free => entry[x].frame < Current + 2
        BY <1>1, <2>3, <3>2 DEF IInv, Numbered, Dead
      <4> QED BY <1>2, <1>3, <2>3, <4>1 DEF Cached, Offers
    <3> QED BY <1>1, <1>2, <2>3, <3>2, <3>3, <3>4 DEF Flowing, Ahead
  <2> QED BY <1>2, <2>1, <2>2, <2>3
<1> QED BY <1>1, <1>4, <1>5, <1>7 DEF IInv, Course

LEMMA RetryKept == IInv /\ Retry => IInv'
<1> SUFFICES ASSUME IInv, Retry PROVE IInv'
  OBVIOUS
<1>1. /\ pc = "ended" /\ pc' = "src"
      /\ UNCHANGED <<entry, picture, counter, bridge, sent, hole, fails, nextFrame, bob, got>>
  BY DEF Retry, cacheVars, feedVars
<1>2. TypeOK' /\ Offered'
  BY <1>1 DEF IInv, TypeOK, Offered
<1>3. Locked' /\ Numbered'
  BY <1>1 DEF IInv, Locked, Numbered, Holding, Dead
<1>4. Current' = Current
  BY <1>1, CurrentType DEF IInv
<1>5. Doomed'
  BY <1>1, <1>4, SameCourse DEF Same, IInv, Course
<1> QED BY <1>1, <1>2, <1>3, <1>5 DEF IInv, Hands, Course

LEMMA SeekKept == IInv /\ GoToTime => IInv'
<1> SUFFICES ASSUME IInv, GoToTime PROVE IInv'
  OBVIOUS
<1>1. /\ pc' = "src" /\ nextFrame' = 0 /\ sent' = 0 /\ hole' = FALSE
      /\ bridge' = [bridge EXCEPT !.first = TRUE]
      /\ picture' = [e \in Entries |-> Junk]
      /\ entry' = [e \in Entries |-> [entry[e] EXCEPT !.frame = NoFrame, !.lock = 0,
                                                      !.free = TRUE]]
      /\ UNCHANGED <<counter, bob, got>>
  BY DEF GoToTime
<1>2. /\ bridge'.first /\ bridge' \in [first : BOOLEAN, next : Nat]
      /\ \A x \in Entries : entry'[x].free /\ entry'[x].lock = 0
  BY <1>1 DEF IInv, TypeOK
<1>3. TypeOK'
  <2>1. entry' \in [Entries -> [frame : {NoFrame} \cup Nat, lock : 0..1,
                                use : Nat, free : BOOLEAN]]
    <3> DEFINE R == [frame : {NoFrame} \cup Nat, lock : 0..1, use : Nat, free : BOOLEAN]
    <3>1. ASSUME NEW x \in Entries
          PROVE  [entry[x] EXCEPT !.frame = NoFrame, !.lock = 0, !.free = TRUE] \in R
      <4>1. entry[x] \in R
        BY DEF IInv, TypeOK
      <4>2. /\ 0 \in 0..1 /\ TRUE \in BOOLEAN /\ NoFrame \in {NoFrame} \cup Nat
        OBVIOUS
      <4> QED BY <4>1, <4>2
    <3> QED BY <1>1, <3>1
  <2>2. sent' \in 0..MaxSent
    <3>1. sent' = 0 /\ MaxSent \in Nat
      BY <1>1, Constants
    <3> QED BY <3>1
  <2>3. picture' \in [Entries -> {Junk} \cup 0..MaxSent]
    BY <1>1
  <2> QED BY <1>1, <1>2, <2>1, <2>2, <2>3 DEF IInv, TypeOK
<1>4. Offered' /\ Locked' /\ Numbered'
  BY <1>1, <1>2 DEF Offered, Locked, Numbered, Holding
<1>5. Hands' /\ Course'
  BY <1>1, <1>2 DEF Hands, Course, Fresh
<1> QED BY <1>3, <1>4, <1>5 DEF IInv

-----------------------------------------------------------------------------
(* The theorems                                                            *)

LEMMA NextIInv == IInv /\ [Next]_vars => IInv'
<1> SUFFICES ASSUME IInv, [Next]_vars PROVE IInv'
  OBVIOUS
<1>1. CASE UNCHANGED vars
  <2>1. UNCHANGED <<entry, picture, counter, bridge, sent, hole, fails, pc, nextFrame, bob, got>>
    BY <1>1 DEF vars, cacheVars, feedVars
  <2> QED BY <2>1 DEF IInv, TypeOK, Offered, Locked, Numbered, Hands, Course, Holding, Holds,
                      Fresh, Flowing, Doomed, Ahead, Right, Cached, Offers, Current
<1> QED BY <1>1, CachedKept, BridgeKept, FilterKept, RetryKept, SeekKept DEF Next

(* In whatever order filter, bridge and user act: what is locked is what   *)
(* the filter has in hand, no number is offered twice, the numbers are     *)
(* those of the pictures until one is used up, and then the next the       *)
(* filter needs is neither there nor still to come.                        *)
THEOREM Invariance == Spec => []IInv
<1> QED BY InitIInv, NextIInv, PTL DEF Spec

(* Every variable keeps to its range; no image is locked twice at once     *)
(* (getImageBase counts, unlockAll clears).                                *)
THEOREM TypeCorrect == Spec => []TypeOK
<1>1. IInv => TypeOK
  BY DEF IInv
<1> QED BY <1>1, Invariance, PTL

(* The filter works on the picture of its frame and on its neighbours.     *)
THEOREM NeighboursRight == Spec => []ThreeNeighbours
<1>1. IInv => ThreeNeighbours
  <2> SUFFICES ASSUME IInv, pc = "filter"
               PROVE  /\ picture[got.src] = Current
                      /\ picture[got.prev] = IF Current > 0 THEN Current - 1 ELSE Current
                      /\ \/ picture[got.next] = Current + 1
                         \/ got.next = got.src /\ hole
    BY DEF ThreeNeighbours
  <2>1. Flowing /\ Current \in Nat
    BY CurrentType DEF IInv, Course
  <2>2. /\ Holds(got.src, Current)
        /\ Holds(got.prev, IF Current > 0 THEN Current - 1 ELSE Current)
        /\ Holds(got.next, Current + 1) \/ (got.next = got.src /\ hole)
    BY DEF IInv, Hands
  <2>3. Holds(got.next, Current + 1) => picture[got.next] = Current + 1
    BY <2>1 DEF Flowing, Ahead, Right, Cached, Holds
  <2> QED BY <2>1, <2>2, <2>3 DEF Flowing, Right, Holds
<1> QED BY <1>1, Invariance, PTL

(* An entry can always be given away, the picture before is always there,  *)
(* and the numbers of cache and bridge differ only after one was used up.  *)
THEOREM OnlyHoles == Spec => []OnlyHolesKill
<1>1. IInv => OnlyHolesKill
  BY DEF IInv, Course, OnlyHolesKill
<1> QED BY <1>1, Invariance, PTL
=============================================================================
