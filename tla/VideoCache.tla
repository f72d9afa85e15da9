----------------------------- MODULE VideoCache -----------------------------
(***************************************************************************)
(* The cache of a video filter (ADM_videoFilterCache.cpp), between the     *)
(* bridge that numbers the pictures of the editor (ADM_videoFilterBridge)  *)
(* and a filter that works on three neighbours (yadif).  The filter keeps  *)
(* pointers into the cache while it asks for more, the cache picks a       *)
(* victim for each picture it does not have, and trusts the bridge to send *)
(* the very picture that was asked for.                                    *)
(***************************************************************************)
EXTENDS Integers, FiniteSets

CONSTANTS
  NbEntry,    \* nbEntry
  MaxSent,    \* bound: pictures of the range that are sent after a seek
  MaxEarly,   \* bound: pictures before the range that the bridge skips
  MaxFails,   \* bound: pictures the editor fails to give
  MaxRetries, \* bound: calls of getNextFrame after one that returned false
  MaxSeeks    \* bound: calls of goToTime

ASSUME CacheAssumption ==
  /\ NbEntry \in Nat /\ NbEntry >= 3   \* the filter holds three at a time
  /\ {MaxSent, MaxEarly, MaxFails, MaxRetries, MaxSeeks} \subseteq Nat

Entries == 1..NbEntry
None == 0          \* the NULL image
NoFrame == -1      \* a frame number no filter asks for
Junk == -1         \* a picture that is not one of the range after the seek

VARIABLES
  entry,      \* frame number, lock count, last use and freeEntry of each entry
  picture,    \* which picture of the range the image of each entry holds
  counter,    \* the clock of the last uses
  bridge,     \* firstImage and nextFrame of the bridge
  sent,       \* pictures of the range the bridge has sent since the seek
  pc,         \* the image the filter asks for next, or why it died
  nextFrame,  \* the frame the filter produces next
  bob,        \* two frames from each picture
  got,        \* the entries the filter has pointers to
  hole,       \* a number was used up without a picture since the seek
  fails, retries, seeks

cacheVars == <<entry, picture, counter>>
feedVars == <<bridge, sent, hole, fails>>
vars == <<cacheVars, feedVars, pc, nextFrame, bob, got, retries, seeks>>

Least(S) == CHOOSE x \in S : \A y \in S : x <= y

EmptyEntry == [frame |-> NoFrame, lock |-> 0, use |-> 0, free |-> TRUE]

Init ==
  /\ entry = [e \in Entries |-> EmptyEntry]
  /\ picture = [e \in Entries |-> Junk]
  /\ counter = 0
  /\ bridge = [first |-> TRUE, next |-> 0]
  /\ sent = 0 /\ hole = FALSE /\ fails = 0
  /\ retries = 0 /\ seeks = 0
  /\ pc = "src" /\ nextFrame = 0
  /\ bob \in BOOLEAN
  /\ got = [src |-> None, prev |-> None, next |-> None]

-----------------------------------------------------------------------------
(* The bridge                                                              *)

(* getNextFrameBase: the number goes up with every picture the editor is   *)
(* asked for, those it fails to give and those before the range included.  *)
NumberAfter(early) == (IF bridge.first THEN 0 ELSE bridge.next + 1) + early

Sends(early) ==
  /\ sent < MaxSent
  /\ early = 0 \/ sent = 0
  /\ bridge' = [first |-> FALSE, next |-> NumberAfter(early)]
  /\ sent' = sent + 1
  /\ hole' = (hole \/ early > 0)
  /\ UNCHANGED fails

FailsToSend(early) ==
  /\ fails < MaxFails
  /\ early = 0 \/ sent = 0
  /\ bridge' = [first |-> FALSE, next |-> NumberAfter(early)]
  /\ fails' = fails + 1
  /\ hole' = TRUE
  /\ UNCHANGED sent

-----------------------------------------------------------------------------
(* The cache                                                               *)

(* searchFrame. *)
Found(frame) == {e \in Entries : entry[e].frame = frame /\ ~entry[e].free}

(* searchFreeEntry: a free entry, else the least recently used of those    *)
(* that are not locked, the first of equals; none is a failed assertion.   *)
Free == {e \in Entries : entry[e].free}

Age(e) == counter - entry[e].use

Unlocked == {e \in Entries : entry[e].lock = 0 /\ Age(e) > 0}

Oldest == {e \in Unlocked : \A f \in Unlocked : Age(f) <= Age(e)}

Victims == IF Free # {} THEN Free ELSE Oldest

(* getImageBase, an image the cache has: one lock more. *)
Hit(frame) ==
  /\ Found(frame) # {}
  /\ LET e == Least(Found(frame)) IN
       entry' = [entry EXCEPT ![e].lock = @ + 1, ![e].use = counter]
  /\ counter' = counter + 1
  /\ UNCHANGED <<picture, feedVars>>

\* Mutant: the entry is not marked as taken.
Fetch_StaysFree(frame, e, early) ==
  /\ Sends(early)
  /\ NumberAfter(early) = frame
  /\ picture' = [picture EXCEPT ![e] = sent]
  /\ entry' = [entry EXCEPT ![e].frame = frame, ![e].lock = @ + 1, ![e].use = counter]
  /\ counter' = counter + 1

(* getImageBase, an image from the bridge, the one that was asked for. *)
Fetch(frame, e, early) ==
  /\ Sends(early)
  /\ NumberAfter(early) = frame
  /\ picture' = [picture EXCEPT ![e] = sent]
  /\ entry' = [entry EXCEPT ![e] = [frame |-> frame, lock |-> @.lock + 1,
                                    use |-> counter, free |-> FALSE]]
  /\ counter' = counter + 1

(* The bridge fails: it may have written a picture into the image that the *)
(* entry still offers under its old number.                                *)
FetchFails(e, early) ==
  /\ FailsToSend(early)
  /\ picture' = [picture EXCEPT ![e] = Junk]
  /\ UNCHANGED <<entry, counter>>

(* The bridge sends another picture than the one asked for. *)
Inconsistent(frame, e, early) ==
  /\ Sends(early)
  /\ NumberAfter(early) # frame
  /\ picture' = [picture EXCEPT ![e] = sent]
  /\ UNCHANGED <<entry, counter>>

UnlockAll == entry' = [e \in Entries |-> [entry[e] EXCEPT !.lock = 0]]

-----------------------------------------------------------------------------
(* The filter: getNextFrame asks for the picture, the one before and the   *)
(* one after, works on them, unlocks them and goes on.                     *)

Current == IF bob THEN nextFrame \div 2 ELSE nextFrame

Asking == pc \in {"src", "prev", "next"}

Wanted == CASE pc = "src"  -> Current
            [] pc = "prev" -> Current - 1
            [] pc = "next" -> Current + 1

(* What the filter does with the image, or with NULL. *)
Takes(e) ==
  CASE pc = "src" /\ e # None ->
         /\ got' = [src |-> e, prev |-> e, next |-> e]
         /\ pc' = IF Current > 0 THEN "prev" ELSE "next"
    [] pc = "prev" /\ e # None -> got' = [got EXCEPT !.prev = e] /\ pc' = "next"
    [] pc = "next" /\ e # None -> got' = [got EXCEPT !.next = e] /\ pc' = "filter"
    [] pc = "src" /\ e = None -> pc' = "ended" /\ UNCHANGED got
    [] pc = "prev" /\ e = None -> pc' = "noPrev" /\ UNCHANGED got
    [] pc = "next" /\ e = None -> pc' = "filter" /\ UNCHANGED got

GetCached ==
  /\ Asking
  /\ Hit(Wanted)
  /\ Takes(Least(Found(Wanted)))
  /\ UNCHANGED <<nextFrame, bob, retries, seeks>>

\* What comes from the bridge goes into the entry e, and to the filter.
FromBridge(e) ==
  \E early \in 0..MaxEarly :
    \/ Fetch(Wanted, e, early) /\ Takes(e)
    \/ FetchFails(e, early) /\ Takes(None)
    \/ Inconsistent(Wanted, e, early) /\ pc' = "inconsistent" /\ UNCHANGED got

GetFromBridge ==
  /\ Asking /\ Found(Wanted) = {}
  /\ IF Victims # {}
     THEN FromBridge(Least(Victims))
     ELSE pc' = "noVictim" /\ UNCHANGED <<cacheVars, feedVars, got>>
  /\ UNCHANGED <<nextFrame, bob, retries, seeks>>

Filter ==
  /\ pc = "filter"
  /\ UnlockAll
  /\ nextFrame' = nextFrame + 1
  /\ pc' = "src"
  /\ UNCHANGED <<picture, counter, feedVars, bob, got, retries, seeks>>

(* The preview asks again after getNextFrame returned false; the queue does *)
(* not (ADM_filterThread.cpp:156).                                          *)
Retry ==
  /\ pc = "ended" /\ retries < MaxRetries
  /\ retries' = retries + 1
  /\ pc' = "src"
  /\ UNCHANGED <<cacheVars, feedVars, nextFrame, bob, got, seeks>>

\* Mutant: the cache is not told of the seek.
GoToTime_NoFlush ==
  /\ pc \in {"src", "ended"} /\ seeks < MaxSeeks
  /\ seeks' = seeks + 1
  /\ picture' = [e \in Entries |-> Junk]
  /\ nextFrame' = 0
  /\ bridge' = [bridge EXCEPT !.first = TRUE]
  /\ sent' = 0 /\ hole' = FALSE /\ pc' = "src"
  /\ UNCHANGED <<entry, counter, fails, bob, got, retries>>

(* goToTime: the cache is flushed, the numbers start again on both sides.  *)
GoToTime ==
  /\ pc \in {"src", "ended"} /\ seeks < MaxSeeks
  /\ seeks' = seeks + 1
  /\ entry' = [e \in Entries |-> [entry[e] EXCEPT !.frame = NoFrame, !.lock = 0,
                                                  !.free = TRUE]]
  /\ picture' = [e \in Entries |-> Junk]
  /\ nextFrame' = 0
  /\ bridge' = [bridge EXCEPT !.first = TRUE]
  /\ sent' = 0 /\ hole' = FALSE /\ pc' = "src"
  /\ UNCHANGED <<counter, fails, bob, got, retries>>

Next == GetCached \/ GetFromBridge \/ Filter \/ Retry \/ GoToTime

Spec == Init /\ [][Next]_vars

-----------------------------------------------------------------------------
(* Every variable keeps to its range: in particular no image is locked     *)
(* twice at once.                                                          *)
TypeOK ==
  /\ entry \in [Entries -> [frame : {NoFrame} \cup Nat, lock : 0..1,
                            use : Nat, free : BOOLEAN]]
  /\ picture \in [Entries -> {Junk} \cup 0..MaxSent]
  /\ counter \in Nat /\ sent \in 0..MaxSent /\ nextFrame \in Nat
  /\ bridge \in [first : BOOLEAN, next : Nat]
  /\ pc \in {"src", "prev", "next", "filter", "ended", "inconsistent", "noVictim", "noPrev"}
  /\ bob \in BOOLEAN /\ hole \in BOOLEAN
  /\ got \in [src : 0..NbEntry, prev : 0..NbEntry, next : 0..NbEntry]

(* What the filter works on is the picture of its frame, the one before it *)
(* and the one after it (the same again at both ends): no image was given  *)
(* away while the filter held it, none is left from before a seek or from  *)
(* a call that failed (lines 157-186 of ADM_videoFilterCache.cpp).         *)
ThreeNeighbours ==
  pc = "filter" =>
    /\ picture[got.src] = Current
    /\ picture[got.prev] = IF Current > 0 THEN Current - 1 ELSE Current
    /\ \/ picture[got.next] = Current + 1
       \/ got.next = got.src /\ hole

(* The only assertion that can fail is the one on the number of the        *)
(* picture, and only after the bridge used up a number without a picture:  *)
(* an entry can always be given away (line 143) and the picture before is  *)
(* always there (ADM_vidYadif_body.cpp:60).                                *)
OnlyHolesKill ==
  /\ pc \notin {"noVictim", "noPrev"}
  /\ pc = "inconsistent" => hole
=============================================================================
