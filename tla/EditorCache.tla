----------------------------- MODULE EditorCache -----------------------------
(***************************************************************************)
(* The ring of decoded images of the editor (ADM_edCache.cpp): operators   *)
(* on a record of the entries and the two indexes.  An entry has the time  *)
(* it was validated with, and an image, which keeps its time and picture   *)
(* when the entry is given away.                                           *)
(*                                                                         *)
(* The indexes grow; check() brings them back near 0 when they get large,  *)
(* here they are brought back at once, which nothing can tell.  All the    *)
(* images are of one file.                                                 *)
(***************************************************************************)
EXTENDS Integers, Sequences

CONSTANTS
  NbImage, \* number of entries
  NoTime   \* ADM_NO_PTS, above every time

ASSUME CacheAssumption == NbImage \in Nat \ {0, 1} /\ NoTime \in Nat

NoImage == [pts |-> NoTime, pic |-> 0]

EmptyCache ==
  [pts |-> [i \in 0..NbImage - 1 |-> NoTime],
   image |-> [i \in 0..NbImage - 1 |-> NoImage],
   read |-> 0, write |-> 0]

Wrapped(c) ==
  LET laps == NbImage * (c.read \div NbImage) IN
    [c EXCEPT !.read = @ - laps, !.write = @ - laps]

Full(c) == c.write - c.read = NbImage

(* The entry that was given away last. *)
Newest(c) == (c.write - 1) % NbImage

(* The oldest entry is given up when the ring is full. *)
GetFreeImage(cache) ==
  LET c == IF cache.read = cache.write
           THEN [cache EXCEPT !.read = 0, !.write = 0] ELSE cache
  IN Wrapped([c EXCEPT !.read = IF Full(c) THEN @ + 1 ELSE @,
                       !.write = @ + 1,
                       !.pts[c.write % NbImage] = NoTime])

Flush(cache) ==
  [cache EXCEPT !.pts = [i \in 0..NbImage - 1 |-> NoTime], !.read = 0, !.write = 0]

(* The image of the newest entry is decoded into. *)
Fill(cache, image) == [cache EXCEPT !.image[Newest(cache)] = image]

(* The newest entry is given back. *)
Invalidate(cache) == [cache EXCEPT !.write = @ - 1]

(* The newest entry can be found from now on. *)
Validate(cache) ==
  [cache EXCEPT !.pts[Newest(cache)] = cache.image[Newest(cache)].pts]

(* validate of an image whose entry was given back already. *)
ValidateAfterInvalidate(cache) ==
  [cache EXCEPT !.pts[cache.write % NbImage] = cache.image[cache.write % NbImage].pts]

\* Mutant: the newest entry is left out of every search.
Window_Short(cache) == cache.read..cache.write - 2

(* The entries in use, from the oldest to the newest. *)
Window(cache) == cache.read..cache.write - 1

Entry(cache, i) == cache.image[i % NbImage]

TimeOf(cache, i) == cache.pts[i % NbImage]

FirstIn(S) == CHOOSE i \in S : \A j \in S : i <= j

(* getByPts: by the time of the image, not of the entry. *)
GetByPts(cache, pts) ==
  LET found == {i \in Window(cache) : Entry(cache, i).pts = pts} IN
    IF found = {} THEN NoImage ELSE Entry(cache, FirstIn(found))

GetLast(cache) ==
  IF cache.read = cache.write THEN NoImage ELSE Entry(cache, cache.write - 1)

(* getAfter: the entry after the one of that time; if its time is not      *)
(* later, the first later one, except the newest, and failing that the     *)
(* search goes on with the next entry of that time.                        *)
GetAfter(cache, pts) ==
  LET later(i) == {k \in i + 2..cache.write - 2 : TimeOf(cache, k) > pts}
      found == {i \in Window(cache) :
                  /\ i < cache.write - 1 /\ TimeOf(cache, i) = pts
                  /\ Entry(cache, i + 1).pts > pts \/ later(i) # {}}
      i == FirstIn(found)
  IN IF found = {} THEN NoImage
     ELSE IF Entry(cache, i + 1).pts > pts THEN Entry(cache, i + 1)
     ELSE Entry(cache, FirstIn(later(i)))

\* Mutant: the oldest entry has one before it too.
GetBefore_Stale(cache, pts) ==
  LET found == {i \in Window(cache) : TimeOf(cache, i) = pts} IN
    IF found = {} THEN NoImage
    ELSE Entry(cache, FirstIn(found) + NbImage - 1)

(* getBefore: the entry before the one of that time. *)
GetBefore(cache, pts) ==
  LET found == {i \in Window(cache) : i > cache.read /\ TimeOf(cache, i) = pts} IN
    IF found = {} THEN NoImage ELSE Entry(cache, FirstIn(found) - 1)

(* Both searches assert that the entries they pass have a time. *)
Untimed(cache) == \E i \in Window(cache) : TimeOf(cache, i) = NoTime

=============================================================================
