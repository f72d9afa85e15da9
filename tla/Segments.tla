------------------------------ MODULE Segments ------------------------------
(***************************************************************************)
(* The list of segments of the editor (ADM_segment.cpp): each shows a part *)
(* of an input file (the reference), and the film is what they show one    *)
(* after the other.  Cutting, copying and pasting change the list only.    *)
(* After every change updateStartTime moves the start of each segment to a *)
(* picture of its reference and computes where it starts in the film.      *)
(*                                                                         *)
(* The search for the picture looks 32 pictures past the first candidate,  *)
(* the reordering of any codec; here it looks at all of them.              *)
(***************************************************************************)
EXTENDS Integers, FiniteSets, SequencesExt

CONSTANTS
  Videos,      \* the input files: pictures in decoding order, duration
  NoTime,      \* ADM_NO_PTS
  MaxSegments, \* bound: segments in the list or on the clipboard
  MaxEdits     \* bound: changes of the list

ASSUME SegmentsAssumption ==
  /\ Videos # <<>> /\ MaxSegments \in Nat /\ MaxEdits \in Nat /\ NoTime \in Nat
  /\ Videos \in Seq([pictures : Seq([pts : Nat, dts : Nat, key : BOOLEAN]),
                     duration : Nat, increment : Nat \ {0}])
  /\ \A i \in DOMAIN Videos :
       /\ \E p \in Range(Videos[i].pictures) : p.key
       /\ \A p \in Range(Videos[i].pictures) : p.pts < Videos[i].duration

VARIABLES
  videos,    \* number of input files opened
  segments,
  clipboard,
  edits,     \* bound: changes made
  request,   \* the last call: operation, times, answer
  exact      \* every time given so far was that of a picture, or the end

vars == <<videos, segments, clipboard, edits, request, exact>>

-----------------------------------------------------------------------------
(* The input files                                                         *)

Pictures(ref) == Videos[ref].pictures

FirstOf(S) == CHOOSE x \in S : \A y \in S : x <= y

FirstKey(ref) == FirstOf({i \in DOMAIN Pictures(ref) : Pictures(ref)[i].key})

(* The time of the first key picture, where the file starts to be shown.   *)
FirstFramePts(ref) == Pictures(ref)[FirstKey(ref)].pts

(* getVideoDuration, less what comes before the first key picture. *)
WholeVideo(ref) ==
  [ref |-> ref, refStart |-> FirstFramePts(ref),
   duration |-> Videos[ref].duration - FirstFramePts(ref), start |-> 0, dts |-> 0]

-----------------------------------------------------------------------------
(* updateStartTime                                                         *)

(* The pictures that can be shown: those that are decoded from the first   *)
(* key picture on and not shown before it.                                 *)
ShownTimes ==
  [ref \in DOMAIN Videos |->
     {pts \in {Pictures(ref)[i].pts : i \in FirstKey(ref)..Len(Pictures(ref))} :
        pts >= FirstFramePts(ref)}]

(* The picture at a time or the first one after it; the time itself if     *)
(* there is none.                                                          *)
StartPts(ref, t) ==
  LET later == {pts \in ShownTimes[ref] : pts >= t} IN
    IF later = {} THEN t ELSE FirstOf(later)

(* dtsFromPts: the decode time of a picture, or that of the last picture   *)
(* before it that has one, advanced by an increment for each picture; the  *)
(* first picture is not looked at, and none is the number before zero.  If *)
(* there is no such picture or the result is after the picture, the time   *)
(* the segment started at before it was moved stays.                       *)
StartDts(ref, pts, before) ==
  LET frames == {i \in DOMAIN Pictures(ref) : Pictures(ref)[i].pts = pts}
      i == FirstOf(frames)
      dated == {j \in 2..i : Pictures(ref)[j].dts # NoTime}
      from == CHOOSE j \in dated : \A k \in dated : k <= j
      known == IF dated = {} THEN (i - 1) * Videos[ref].increment - 1
               ELSE Pictures(ref)[from].dts + (i - from) * Videos[ref].increment
  IN IF frames = {} THEN before
     ELSE IF i = 1 THEN IF Pictures(ref)[1].dts = NoTime THEN pts
                        ELSE Pictures(ref)[1].dts
     ELSE IF known > pts THEN before ELSE known

Positive(x) == IF x > 0 THEN x ELSE 0

MoveStart(s) ==
  LET pts == StartPts(s.ref, s.refStart) IN
    [s EXCEPT !.refStart = pts,
              !.duration = Positive(@ - (pts - s.refStart)),
              !.dts = StartDts(s.ref, pts, s.refStart)]

DurationBefore(list) ==
  LET sum[i \in 1..Len(list) + 1] ==
        IF i = 1 THEN 0 ELSE sum[i - 1] + list[i - 1].duration
  IN sum

\* Mutant: the start times are those from before the segments were moved.
UpdateStartTime_Unmoved(list) ==
  [i \in DOMAIN list |->
     [MoveStart(list[i]) EXCEPT !.start = DurationBefore(list)[i]]]

UpdateStartTime(list) ==
  LET moved == [i \in DOMAIN list |-> MoveStart(list[i])] IN
    [i \in DOMAIN list |-> [moved[i] EXCEPT !.start = DurationBefore(moved)[i]]]

GetTotalDuration(list) == DurationBefore(list)[Len(list) + 1]

-----------------------------------------------------------------------------
(* Helpers of the operations                                               *)

EndOf(s) == s.start + s.duration

(* convertLinearTimeToSeg *)
SegmentsAt(t) ==
  {i \in DOMAIN segments :
     /\ segments[i].start <= t /\ t < EndOf(segments[i])
     /\ \A j \in 1..i - 1 : segments[j].start <= t}

SegmentAt(t) == FirstOf(SegmentsAt(t))

(* LinearToRefTime *)
RefTime(i, t) == segments[i].refStart + t - segments[i].start

\* Mutant: nothing is removed.
RemoveEmptySegments_None(list) == list

RemoveEmptySegments(list) ==
  LET kept[n \in 0..Len(list)] ==
        IF n = 0 THEN <<>>
        ELSE IF list[n].duration = 0 THEN kept[n - 1]
        ELSE Append(kept[n - 1], list[n])
  IN kept[Len(list)]

Continuous(s, t) == s.ref = t.ref /\ s.refStart + s.duration = t.refStart

(* What is shown so far, and the next segment. *)
Join(done, s) ==
  IF done # <<>> /\ Continuous(Last(done), s)
  THEN [done EXCEPT ![Len(done)].duration = @ + s.duration]
  ELSE Append(done, s)

MergeContinuousSegments(list) ==
  LET done[n \in 0..Len(list)] ==
        IF n = 0 THEN <<>> ELSE LET before == done[n - 1] IN Join(before, list[n])
  IN done[Len(list)]

Tidy(list) == UpdateStartTime(MergeContinuousSegments(RemoveEmptySegments(list)))

(* The times of the pictures a segment shows. *)
TimesOf(s) ==
  {pts \in ShownTimes[s.ref] : s.refStart <= pts /\ pts < s.refStart + s.duration}

(* The part of a segment before, or from, a moment of the film. *)
Before(s, t) == [s EXCEPT !.duration = t - s.start]

From(s, t) ==
  [s EXCEPT !.refStart = @ + (t - s.start), !.duration = @ - (t - s.start), !.start = t]

-----------------------------------------------------------------------------
(* The operations                                                          *)

Moments == 0..GetTotalDuration(segments)

(* When a segment shows its pictures. *)
MomentsOf(s) == {pts - s.refStart + s.start : pts \in TimesOf(s)}

(* The moments the markers and the position are at when they are set by    *)
(* going to a picture.                                                     *)
PictureMoments ==
  {GetTotalDuration(segments)} \cup UNION {MomentsOf(segments[i]) : i \in DOMAIN segments}

Answer(op, from, to, ok) == request' = [op |-> op, from |-> from, to |-> to, ok |-> ok]

Change(list) ==
  /\ edits < MaxEdits /\ Len(list) <= MaxSegments
  /\ edits' = edits + 1
  /\ segments' = list

Refuse ==
  /\ edits < MaxEdits
  /\ edits' = edits + 1
  /\ UNCHANGED segments

Given(times) == exact' = (exact /\ times \subseteq PictureMoments)

(* addReferenceVideo: the next file is opened and appended. *)
AddReferenceVideo ==
  /\ videos < Len(Videos)
  /\ videos' = videos + 1
  /\ Change(UpdateStartTime(Append(segments, WholeVideo(videos + 1))))
  /\ Answer("open", 0, 0, TRUE)
  /\ UNCHANGED <<clipboard, exact>>

ResetSegment ==
  /\ Change(UpdateStartTime([i \in 1..videos |-> WholeVideo(i)]))
  /\ Answer("reset", 0, 0, TRUE)
  /\ UNCHANGED <<videos, clipboard, exact>>

\* Mutant: the end of the cut is kept whole.
Cut_KeepsEnd(from, to) ==
  SubSeq(segments, 1, SegmentAt(from) - 1)
    \o <<Before(segments[SegmentAt(from)], from)>>
    \o SubSeq(segments, SegmentAt(to) + 1, Len(segments))

Cut(from, to) ==
  SubSeq(segments, 1, SegmentAt(from) - 1)
    \o <<Before(segments[SegmentAt(from)], from), From(segments[SegmentAt(to)], to)>>
    \o SubSeq(segments, SegmentAt(to) + 1, Len(segments))

RemoveChunk(from, to) ==
  /\ from <= to
  /\ LET found == SegmentsAt(from) # {} /\ SegmentsAt(to) # {} IN
       /\ Answer("cut", from, to, found)
       /\ IF found THEN Change(Tidy(Cut(from, to))) ELSE Refuse
  /\ Given({from, to})
  /\ UNCHANGED <<videos, clipboard>>

(* truncateVideo compares the time of the first picture of the file with   *)
(* the place in the segment, and may drop the segment.                     *)
DropsSegment(from) ==
  LET i == SegmentAt(from) IN
    i > 1 /\ FirstFramePts(segments[i].ref) >= from - segments[i].start

Truncated(from) ==
  LET i == SegmentAt(from) IN
    SubSeq(segments, 1, i - 1)
      \o (IF DropsSegment(from) THEN <<>> ELSE <<Before(segments[i], from)>>)

(* Nothing would be left: the old list is put back and updated again.      *)
TruncateVideo(from) ==
  /\ LET found == SegmentsAt(from) # {}
         list == IF found THEN Tidy(Truncated(from)) ELSE <<>>
     IN /\ Answer("truncate", from, from, list # <<>>)
        /\ \/ list # <<>> /\ Change(list)
           \/ found /\ list = <<>> /\ Change(UpdateStartTime(segments))
           \/ ~found /\ Refuse
  /\ Given({from})
  /\ UNCHANGED <<videos, clipboard>>

\* Mutant: the two ends of one segment are chopped independently.
Copied_Twice(s, from, to) ==
  LET late == IF s.start <= from /\ EndOf(s) > from THEN From(s, from) ELSE s IN
    IF s.start <= to /\ EndOf(s) >= to
    THEN [late EXCEPT !.duration = to - s.start]
    ELSE late

(* One segment of what copyToClipBoard takes. *)
Copied(s, from, to) ==
  LET late == IF s.start <= from /\ EndOf(s) > from THEN From(s, from) ELSE s IN
    IF s.start <= to /\ EndOf(s) >= to
    THEN [late EXCEPT !.duration = to - late.start]
    ELSE late

CopyToClipBoard(from, to) ==
  /\ edits < MaxEdits /\ from <= to
  /\ SegmentsAt(from) # {}
  /\ LET last == IF to >= GetTotalDuration(segments) THEN Len(segments) ELSE SegmentAt(to)
         list == [i \in 1..last - SegmentAt(from) + 1 |->
                    Copied(segments[SegmentAt(from) + i - 1], from, to)]
     IN Len(list) <= MaxSegments /\ clipboard' = list
  /\ Answer("copy", from, to, TRUE)
  /\ edits' = edits + 1
  /\ Given({from, to})
  /\ UNCHANGED <<videos, segments>>

(* The clipboard is put before the segment that starts at t, into the one  *)
(* that does not, or at the end; it is put nowhere if there is no segment. *)
Pasted(t) ==
  LET end == t >= GetTotalDuration(segments)
      i == IF end THEN Len(segments) ELSE SegmentAt(t)
      at == segments[i]
  IN IF segments = <<>> THEN <<>>
     ELSE SubSeq(segments, 1, i - 1)
       \o (IF t = at.start THEN Append(clipboard, at)
           ELSE <<Before(at, t)>> \o clipboard \o <<From(at, t)>>)
       \o SubSeq(segments, i + 1, Len(segments))

PasteFromClipBoard(t) ==
  /\ clipboard # <<>>
  /\ Answer("paste", t, t, TRUE)
  /\ Change(Tidy(Pasted(t)))
  /\ Given({t})
  /\ UNCHANGED <<videos, clipboard>>

(* Unlike the other operations this one does not remove empty segments. *)
AppendFromClipBoard ==
  /\ clipboard # <<>>
  /\ Answer("append", GetTotalDuration(segments), 0, TRUE)
  /\ Change(UpdateStartTime(MergeContinuousSegments(segments \o clipboard)))
  /\ UNCHANGED <<videos, clipboard, exact>>

Init ==
  /\ videos = 1
  /\ segments = UpdateStartTime(<<WholeVideo(1)>>)
  /\ clipboard = <<>>
  /\ edits = 0
  /\ request = [op |-> "open", from |-> 0, to |-> 0, ok |-> TRUE]
  /\ exact = TRUE

Next ==
  \/ AddReferenceVideo \/ ResetSegment \/ AppendFromClipBoard
  \/ \E from \in Moments :
       \/ TruncateVideo(from) \/ PasteFromClipBoard(from)
       \/ \E to \in Moments : RemoveChunk(from, to) \/ CopyToClipBoard(from, to)

Spec == Init /\ [][Next]_vars

-----------------------------------------------------------------------------
(* What the film is: the pictures shown, each with its place.              *)

Placed(s, at) ==
  {[ref |-> s.ref, pts |-> pts, at |-> at + pts - s.refStart] : pts \in TimesOf(s)}

Film(list) ==
  LET starts == DurationBefore(list) IN
    UNION {Placed(list[i], starts[i]) : i \in DOMAIN list}

Shift(film, by) == {[p EXCEPT !.at = @ + by] : p \in film}

Part(film, from, to) == {p \in film : from <= p.at /\ p.at < to}

(* The film after a request that was granted, as the user meant it.        *)
FilmAsked ==
  LET film == Film(segments)
      total == GetTotalDuration(segments)
      r == request'
  IN CASE r.op = "cut" ->
            Part(film, 0, r.from) \cup Shift(Part(film, r.to, total), r.from - r.to)
       [] r.op = "truncate" -> Part(film, 0, r.from)
       [] r.op \in {"paste", "append"} ->
            Part(film, 0, r.from) \cup Shift(Film(clipboard), r.from)
              \cup Shift(Part(film, r.from, total), GetTotalDuration(clipboard))
       [] OTHER -> Film(segments')

(* The pictures, each with the number of those before it instead of a place. *)
InOrder(film) ==
  {[ref |-> p.ref, pts |-> p.pts, nr |-> Cardinality({q \in film : q.at < p.at})] : p \in film}

SamePictures(film, other) == InOrder(film) = InOrder(other)

(* What goes wrong in truncateVideo: see DropsOnlyAtFirstFrame.            *)
LosesPictures(from) ==
  DropsSegment(from) /\ TimesOf(Before(segments[SegmentAt(from)], from)) # {}

(* Left out: truncateVideo when it drops a segment that shows a picture    *)
(* before the marker.                                                      *)
Granted == request'.ok /\ ~(request'.op = "truncate" /\ LosesPictures(request'.from))

(* The list but for the decode times.                                      *)
Undated(list) == [i \in DOMAIN list |-> [list[i] EXCEPT !.dts = 0]]

(* If the times given were those of pictures, each picture is at its place. *)
PlacedAsAsked == Granted /\ exact' => Film(segments') = FilmAsked

(* A request refused changes nothing, decode times excepted; one granted   *)
(* shows exactly the pictures the user asked for, in order, and each at    *)
(* its place if the times given were those of pictures.                    *)
EditedAsAsked ==
  [][edits' # edits =>
       /\ ~request'.ok => Undated(segments') = Undated(segments)
       /\ Granted => SamePictures(Film(segments'), FilmAsked)
       /\ PlacedAsAsked]_vars

(* What is copied is what is between the markers, also when they are in    *)
(* different segments or at the boundary of two.                           *)
CopiedAsAsked ==
  [][clipboard' # clipboard =>
       Film(clipboard') = Shift(Part(Film(segments), request'.from, request'.to),
                                -request'.from)]_vars

(* Every picture of the film is found again at its place by the conversion *)
(* of times on which navigation, saving and the other operations rest.     *)
EveryPictureFound ==
  \A i \in DOMAIN segments : \A pts \in TimesOf(segments[i]) :
    LET at == DurationBefore(segments)[i] + pts - segments[i].refStart IN
      SegmentsAt(at) # {} /\ SegmentAt(at) = i /\ RefTime(i, at) = pts

(* A project holds file, start and duration of each segment; reading it    *)
(* back with addSegment, one after the other, gives the same list.         *)
Reloaded ==
  LET list[n \in 0..Len(segments)] ==
        IF n = 0 THEN <<>>
        ELSE UpdateStartTime(Append(list[n - 1],
                                    [segments[n] EXCEPT !.start = 0, !.dts = 0]))
  IN list[Len(segments)]

ReloadsTheSame ==
  /\ Len(Reloaded) = Len(segments)
  /\ \A i \in DOMAIN segments :
       [Reloaded[i] EXCEPT !.dts = 0] = [segments[i] EXCEPT !.dts = 0]

(* Every segment lies within its file.  As long as the markers are at      *)
(* pictures the film is never empty, although pasting does not look        *)
(* whether it is, each segment starts with a picture, and after a cut, a   *)
(* truncation or a paste with one that it shows, so that playing can go    *)
(* from each segment to the next.                                          *)
WithinFile(s) ==
  /\ s.ref \in 1..videos
  /\ {s.refStart, s.duration, s.start, s.dts} \subseteq Nat
  /\ s.refStart + s.duration <= Videos[s.ref].duration

WellFormed ==
  /\ \A s \in Range(segments) \cup Range(clipboard) : WithinFile(s)
  /\ exact =>
       /\ segments # <<>>
       /\ \A s \in Range(segments) :
            /\ s.refStart \in ShownTimes[s.ref]
            /\ request.ok /\ request.op \in {"cut", "truncate", "paste"} => s.duration > 0

(* truncateVideo says, when it drops a segment, that "from matches the     *)
(* first frame of the ref video": no picture before the marker goes.       *)
DropsOnlyAtFirstFrame ==
  [][request' # request /\ request'.op = "truncate" /\ request'.ok /\ exact'
       /\ DropsSegment(request'.from)
     => Film(segments') = Part(Film(segments), 0, request'.from)]_vars
=============================================================================
