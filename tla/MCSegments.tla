----------------------------- MODULE MCSegments -----------------------------
(* Instance of Segments for TLC; the cfg files give the other constants.   *)
EXTENDS Segments

Picture(pts, dts, key) == [pts |-> pts, dts |-> dts, key |-> key]

(* A file with a hole whose first picture cannot be decoded, and one that  *)
(* begins late and has a B-picture and a missing decode time.              *)
MCVideos ==
  <<[pictures |-> <<Picture(0, 0, FALSE), Picture(1, NoTime, TRUE),
                    Picture(3, NoTime, FALSE)>>,
     duration |-> 4, increment |-> 1],
    [pictures |-> <<Picture(1, 0, TRUE), Picture(3, NoTime, FALSE),
                    Picture(2, 2, FALSE)>>,
     duration |-> 4, increment |-> 1]>>
=============================================================================
