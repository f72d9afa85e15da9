--------------------------- MODULE MCEditorRender ---------------------------
(* Instance of EditorRender for TLC; the cfg files give the other constants. *)
EXTENDS EditorFilms

P(pts, dts, key) ==
  [pts |-> pts, dts |-> dts, key |-> key, timed |-> TRUE, bad |-> FALSE]

Part(refStart, duration, start) ==
  [refStart |-> refStart, duration |-> duration, start |-> start]

(* Three groups of pictures with B-pictures, the second one open. *)
Sound ==
  <<P(2, 0, TRUE), P(6, 2, FALSE), P(4, 4, FALSE),
    P(10, 6, TRUE), P(8, 8, FALSE), P(14, 10, FALSE), P(12, 12, FALSE),
    P(16, 14, TRUE), P(20, 16, FALSE), P(18, 18, FALSE)>>

Bad(file, i) == [file EXCEPT ![i].bad = TRUE]

WithoutTime(file, i) == [file EXCEPT ![i].timed = FALSE]

(* The whole file; its groups in another order; pieces of them. *)
Whole == <<Part(2, 20, 0)>>
Swapped == <<Part(10, 6, 0), Part(2, 6, 6)>>
Pieces == <<Part(4, 4, 0), Part(6, 6, 4), Part(4, 2, 10)>>
Back == <<Part(2, 4, 0), Part(18, 4, 4), Part(8, 6, 8)>>

Opened(file, segments) == [pictures |-> file, segments |-> segments]

MCFilms ==
  {Opened(Sound, Pieces), Opened(Sound, Swapped), Opened(Bad(Sound, 6), Whole),
   Opened(Bad(Sound, 3), Back), Opened(WithoutTime(Sound, 5), Whole)}

(* The second key picture cannot be decoded; the segment that has it is    *)
(* followed by another.                                                    *)
MCBadKey == {Opened(Bad(Sound, 4), <<Part(2, 12, 0), Part(16, 6, 12)>>)}

(* Two segments overlap, and the last key picture before the end of the    *)
(* first is before its beginning: a step back into it shows a wrong        *)
(* picture when that key picture is the oldest of a full ring.             *)
MCFullRing == {Opened(Sound, <<Part(2, 4, 0), Part(12, 4, 4), Part(14, 6, 8)>>)}

(* The theorems of EditorProofs are about films like these.  The guess of  *)
(* a time, a key picture that cannot be decoded and a ring that is full at *)
(* the wrong moment are beyond them.                                       *)
ASSUME RegularFilms ==
  /\ \A film \in MCFilms :
       Regular(film) <=> \A i \in DOMAIN film.pictures : film.pictures[i].timed
  /\ \A film \in MCBadKey \cup MCFullRing : ~Regular(film)
=============================================================================
