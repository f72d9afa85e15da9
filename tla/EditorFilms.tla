----------------------------- MODULE EditorFilms -----------------------------
(***************************************************************************)
(* What a film has to be for EditorProofs.  EditorRender is run on any     *)
(* film, and some are shown wrongly: pictures without a time, key pictures *)
(* that cannot be decoded, a decoder that is given too few tries.  Here is *)
(* what keeps a film from these; MCEditorRender checks that its films are  *)
(* regular, unless they were made not to be.                               *)
(***************************************************************************)
EXTENDS EditorRender

(* The file: its frames, those that can be decoded, and their times.       *)
All(file) == 0..Len(file) - 1
Good(file) == {f \in All(file) : ~file[f + 1].bad}
Time(file, f) == file[f + 1].pts
KeyFrames(file) == {f \in All(file) : file[f + 1].key}
KeysUnder(file, t) == {k \in KeyFrames(file) : Time(file, k) < t}

(* Every time is known, no two are the same, and the first picture is a    *)
(* key picture that is shown first.                                        *)
WellTimed(file) ==
  /\ file \in Seq([pts : 0..NoTime - 1, dts : Int, key : BOOLEAN, timed : {TRUE},
                   bad : BOOLEAN])
  /\ \A f, g \in All(file) : f # g => Time(file, f) # Time(file, g)
  /\ 0 \in KeyFrames(file)
  /\ \A f \in All(file) \ {0} : Time(file, 0) + 1 < Time(file, f)

(* The decoder can give the pictures in order: no more than it holds back  *)
(* come in front of a picture and are shown after it.                      *)
Reordered(file) ==
  \A f \in Good(file) :
    Cardinality({g \in Good(file) : g < f /\ Time(file, g) > Time(file, f)}) <= Delay

(* Key pictures can be decoded, and divide what is shown as they divide    *)
(* the file.                                                               *)
Divided(file) ==
  /\ KeyFrames(file) \subseteq Good(file)
  /\ \A k \in KeyFrames(file), f, g \in All(file) : f < k /\ k <= g => Time(file, f) < Time(file, g)

(* What comes after a key picture within the tries and is not shown after  *)
(* it: the key picture comes out before the tries are used up.             *)
Late(file, k) ==
  {g \in All(file) : k < g /\ g < k + Tries /\ (g \notin Good(file) \/ Time(file, g) < Time(file, k))}

Findable(file) == \A k \in KeyFrames(file) : Cardinality(Late(file, k)) + Delay < Tries

\* A picture is decoded, or the file ends, before the tries are used up.
Reachable(file) ==
  \A f \in All(file) : \E g \in f + 1..f + Loops : g \notin All(file) \/ g \in Good(file)

Known(file) ==
  WellTimed(file) /\ Reordered(file) /\ Divided(file) /\ Findable(file) /\ Reachable(file)

-----------------------------------------------------------------------------
(* The segments.                                                           *)
RefEnd(s) == s.refStart + s.duration

(* They start at pictures that can be decoded, one after the other; they   *)
(* may end anywhere.                                                       *)
Cut(file, segments) ==
  /\ segments \in Seq([refStart : Nat, duration : Nat, start : Nat])
  /\ Len(segments) > 0 /\ segments[1].start = 0
  /\ \A i \in DOMAIN segments :
       /\ segments[i].duration > 1
       /\ \E f \in Good(file) : segments[i].refStart = Time(file, f)
       /\ i # 1 => segments[i].start = EndOf(segments[i - 1])

(* To step back into a segment, previousPicture seeks the last key picture *)
(* before its end, plays up to the end, and takes the picture before.  A   *)
(* ring that has the key picture answers the seek, with the key picture as *)
(* its oldest entry perhaps; decoding on gives that entry up, and nothing  *)
(* follows a picture that is not in the ring.  That can only be where the  *)
(* segment has no key picture after its first, and not with the first of   *)
(* the file, which is always decoded again.  There, the pictures from      *)
(* the key picture to the first of the segment do not fill the ring, and   *)
(* the next segment starts before the key picture, or after a picture that *)
(* is where this one ends.                                                 *)
Joined(file, segments) ==
  \A i \in DOMAIN segments : i + 1 \in DOMAIN segments =>
    LET s == segments[i]
        next == segments[i + 1]
        key == Time(file, LastIn(KeysUnder(file, RefEnd(s) - 1)))
    IN Time(file, 0) < key /\ key <= s.refStart =>
         /\ Cardinality({f \in Good(file) : key <= Time(file, f) /\ Time(file, f) <= s.refStart})
              # NbImage
         /\ key <= next.refStart =>
              RefEnd(s) < next.refStart /\ \E f \in Good(file) : Time(file, f) = RefEnd(s)

Regular(film) ==
  /\ Known(film.pictures)
  /\ Cut(film.pictures, film.segments) /\ Joined(film.pictures, film.segments)
=============================================================================
