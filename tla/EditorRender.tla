---------------------------- MODULE EditorRender ----------------------------
(***************************************************************************)
(* The editor shows a film: decoding, seeking and going from picture to    *)
(* picture (ADM_edRender.cpp, ADM_edRenderInternal.cpp, ADM_edSearch.cpp)  *)
(* over the ring of decoded images.  One file, of which the segments show  *)
(* parts, in any order; one action for each call of the user interface     *)
(* (ADM_previewNavigate.cpp).                                              *)
(*                                                                         *)
(* A call is a chain of operators on a record, the state of the editor; ok *)
(* is the answer of the last of them.                                      *)
(*                                                                         *)
(* The decoder is external: it holds Delay pictures back to give them in   *)
(* order, gives what it holds at the end of the file, gives nothing for a  *)
(* picture it cannot decode, and knows the time of a picture if the file   *)
(* does.                                                                   *)
(***************************************************************************)
EXTENDS EditorCache, SequencesExt

CONSTANTS
  Films,      \* the pictures of a file, in decoding order, and the segments
  Trust,      \* values of ~dontTrustBFramePts
  Increment,  \* timeIncrementInUs
  Delay,      \* pictures the decoder holds back
  Leading,    \* whether it gives the pictures shown before the first key one
  Loops,      \* pictures nextPictureInternal tries
  Tries       \* pictures DecodePictureUpToIntra tries

ASSUME RenderAssumption ==
  /\ Increment \in Nat \ {0} /\ {Delay, Loops, Tries} \subseteq Nat
  /\ Leading \in BOOLEAN /\ Trust \subseteq BOOLEAN

VARIABLES
  editor, \* the state of the editor; trusted is ~dontTrustBFramePts
  call    \* the last call

vars == <<editor, call>>

None == NoImage

(* A loop is a function of the number of its rounds.  Its state is the one *)
(* of the editor, where the loop is (it goes on while it is "on", and is   *)
(* left as it is afterwards), and what else a round needs.                 *)
Start(e) == [e |-> e, at |-> "on", sync |-> FALSE]

(* Bound: no loop without a limit of its own goes on for so many rounds,   *)
(* for each decodes a picture or moves on in the ring.                     *)
Enough(e) == 4 * Len(e.file) + NbImage

-----------------------------------------------------------------------------
(* The file.  Its frames are numbered from 0, as in the code.             *)

Frames(e) == 0..Len(e.file) - 1

Picture(e, frame) == e.file[frame + 1]

(* getPtsDts *)
PtsOf(e, frame) == IF Picture(e, frame).timed THEN Picture(e, frame).pts ELSE NoTime

Keys(e) == {f \in Frames(e) : Picture(e, f).key}

FirstFramePts(e) == PtsOf(e, FirstIn(Keys(e)))

LastIn(S) == CHOOSE i \in S : \A j \in S : j <= i

FramesAt(e, pts) == {f \in Frames(e) : PtsOf(e, f) = pts}

IsKeyFrameByTime(e, pts) ==
  FramesAt(e, pts) # {} /\ Picture(e, FirstIn(FramesAt(e, pts))).key

(* getFrameNumFromPtsOrBefore: the last picture not shown after the time. *)
FramesUpTo(e, pts) == {f \in Frames(e) : PtsOf(e, f) <= pts}

FrameUpTo(e, pts) ==
  IF pts <= FirstFramePts(e) THEN 0
  ELSE CHOOSE f \in FramesUpTo(e, pts) :
         \A g \in FramesUpTo(e, pts) :
           PtsOf(e, f) > PtsOf(e, g) \/ (PtsOf(e, f) = PtsOf(e, g) /\ f <= g)

(* searchPreviousKeyFrameInRef: back in decoding order. *)
KeysBefore(e, pts) ==
  IF pts = 0 \/ FramesUpTo(e, pts) = {} THEN {}
  ELSE {f \in Keys(e) : f <= FrameUpTo(e, pts) /\ PtsOf(e, f) < pts}

(* searchNextKeyFrameInRef *)
KeysAfter(e, pts) == {f \in Keys(e) : PtsOf(e, f) > pts}

-----------------------------------------------------------------------------
(* Segments                                                                *)

Segment(e) == e.segments[e.segment]

EndOf(s) == s.start + s.duration

SegmentsAt(e, t) ==
  {i \in DOMAIN e.segments : e.segments[i].start <= t /\ t < EndOf(e.segments[i])}

SegmentAt(e, t) == FirstIn(SegmentsAt(e, t))

(* LinearToRefTime; below zero it fails. *)
RefTime(e, t) == Segment(e).refStart + t - Segment(e).start

(* recalibrate *)
LinearTime(e, pts) ==
  LET t == pts - Segment(e).refStart + Segment(e).start IN IF t < 0 THEN 0 ELSE t

Failed(e) == [e EXCEPT !.ok = FALSE]

Done(e) == [e EXCEPT !.ok = TRUE]

(* The image is copied to the caller; updateImageTiming gives it the time  *)
(* of the film, which becomes the position.                                *)
Deliver(e, image) ==
  LET t == LinearTime(e, image.pts) IN
    [e EXCEPT !.image = [pts |-> t, pic |-> image.pic], !.current = t, !.ok = TRUE]

-----------------------------------------------------------------------------
(* The decoder                                                             *)

NewDecoder ==
  [held |-> {}, drain |-> FALSE, ended |-> FALSE, feeding |-> FALSE, from |-> 0]

(* decoderFF::flush *)
FlushDecoder(d) == [d EXCEPT !.held = {}, !.drain = FALSE]

(* What a frame adds to what is held. *)
Decoded(e, frame) ==
  IF \/ Picture(e, frame).bad
     \/ ~Leading /\ Picture(e, frame).pts < Picture(e, e.decoder.from).pts
  THEN {} ELSE {frame}

EarliestShown(e, S) ==
  CHOOSE f \in S : \A g \in S : Picture(e, f).pts <= Picture(e, g).pts

(* decoderFF::uncompress with a frame; beyond the last one getFrame fails, *)
(* and with none the decoder is drained.  The frame it gives (-1 is none), *)
(* and the decoder after it.                                               *)
Uncompress(e, frame) ==
  LET d == [e.decoder EXCEPT !.drain = @ \/ frame \notin Frames(e)]
      held == IF d.drain THEN d.held ELSE d.held \cup Decoded(e, frame)
      first == EarliestShown(e, held)
  IN IF Cardinality(held) > (IF d.drain THEN 0 ELSE Delay)
     THEN [frame |-> first,
           decoder |-> [d EXCEPT !.held = held \ {first}, !.ended = FALSE,
                                 !.feeding = FALSE]]
     ELSE IF d.drain
     THEN [frame |-> -1,
           decoder |-> [FlushDecoder(d) EXCEPT !.ended = TRUE, !.feeding = FALSE]]
     ELSE [frame |-> -1, decoder |-> [d EXCEPT !.held = held, !.feeding = TRUE]]

-----------------------------------------------------------------------------
(* Decoding                                                                *)

Image(frame, pts) == [pts |-> pts, pic |-> frame + 1]

(* The time guessed for a picture: an increment after the last one, but    *)
(* not before the decode time of the frame that is thought to be it.       *)
GuessedPts(e, frame) ==
  LET guess == e.decoded + Increment
      origin == IF frame >= e.delay THEN frame - e.delay ELSE 0
  IN IF ~e.trusted /\ origin \in Frames(e) /\ Picture(e, origin).dts > guess
     THEN Picture(e, origin).dts ELSE guess

(* DecodeNextPicture: nothing out of the decoder is no error; a picture    *)
(* before the last one is dropped, and is one.                             *)
DecodeNextPicture(e) ==
  LET frame == e.sent + 1
      drained == e.decoder.drain \/ frame \notin Frames(e)
      pts(f) == IF e.trusted /\ PtsOf(e, f) # NoTime THEN PtsOf(e, f)
                ELSE GuessedPts(e, frame)
      none(next) ==
        [Done(next) EXCEPT !.cache = Invalidate(GetFreeImage(@)), !.eos = drained]
      picture(next, image) ==
        LET full == Fill(GetFreeImage(e.cache), image) IN
          [next EXCEPT !.cache = IF e.decoded > image.pts THEN Invalidate(full)
                                 ELSE Validate(full),
                       !.decoded = image.pts, !.ok = e.decoded <= image.pts]
      after(out) ==
        LET next == [e EXCEPT !.sent = frame, !.decoder = out.decoder,
                              !.eos = @ /\ drained]
        IN IF out.frame = -1 THEN none(next)
           ELSE picture(next, Image(out.frame, pts(out.frame)))
  IN IF e.decoder.ended THEN Failed(e) ELSE after(Uncompress(e, frame))

(* A round of the loop of DecodePictureUpToIntra, until the picture of     *)
(* time `wanted' comes out.  Before a picture with a time has come out,    *)
(* those without are dropped.                                              *)
UntilRound(x, wanted) ==
  LET known(f) == PtsOf(x.e, f) # NoTime
      pts(f) == IF known(f) THEN PtsOf(x.e, f)
                ELSE IF x.sync THEN x.e.decoded + Increment ELSE NoTime
      none(next) ==
        IF next.decoder.feeding THEN [x EXCEPT !.e = [next EXCEPT !.delay = @ + 1]]
        ELSE [x EXCEPT !.e = next, !.at = "lost"]
      shown(next, image, timed) ==
        IF image.pts = wanted
        THEN [x EXCEPT !.e = [next EXCEPT !.sent = x.e.sent, !.read = wanted], !.at = "found"]
        ELSE [x EXCEPT !.e = next, !.sync = @ \/ timed]
      picture(next, full, image, timed) ==
        IF image.pts = NoTime
        THEN [x EXCEPT !.e = [next EXCEPT !.cache =
                                ValidateAfterInvalidate(Invalidate(full))]]
        ELSE shown([next EXCEPT !.cache = Validate(full), !.decoded = image.pts],
                   image, timed)
      after(out) ==
        LET next == [x.e EXCEPT !.decoder = out.decoder, !.sent = @ + 1] IN
          IF out.frame = -1 THEN none([next EXCEPT !.cache = Invalidate(GetFreeImage(@))])
          ELSE picture(next,
                       Fill(GetFreeImage(x.e.cache), Image(out.frame, pts(out.frame))),
                       Image(out.frame, pts(out.frame)), known(out.frame))
  IN IF x.at # "on" THEN x
     ELSE IF x.e.decoder.ended THEN [x EXCEPT !.at = "lost"]
     ELSE after(Uncompress(x.e, x.e.sent))

DecodeUntil(e, wanted) ==
  LET loop[n \in 0..Tries] == IF n = 0 THEN Start(e) ELSE UntilRound(loop[n - 1], wanted)
      left(x) == IF x.at = "found" THEN Done(x.e) ELSE [Failed(x.e) EXCEPT !.delay = 0]
  IN left(loop[Tries])

\* Mutant: the decoder keeps what it holds.
DecodePictureUpToIntra_NoFlush(e, frame) ==
  DecodeUntil([e EXCEPT !.sent = frame, !.cache = Flush(e.cache),
                        !.delay = 0, !.eos = FALSE,
                        !.decoder.ended = FALSE],
              PtsOf(e, frame))

DecodePictureUpToIntra(e, frame) ==
  DecodeUntil([e EXCEPT !.sent = frame, !.cache = Flush(e.cache),
                        !.delay = 0, !.eos = FALSE,
                        !.decoder = [FlushDecoder(e.decoder) EXCEPT
                                       !.ended = FALSE, !.from = frame]],
              PtsOf(e, frame))

(* A round of nextPictureInternal: decode, and look for a picture after    *)
(* the last one read.  It is left where it is if it is not before the end, *)
(* and with `copy' it becomes the last one read and goes to the caller.    *)
NextRound(x, copy, end) ==
  LET after(next, found) ==
        IF ~next.ok \/ found = None THEN [x EXCEPT !.e = next]
        ELSE IF end # 0 /\ found.pts >= end THEN [x EXCEPT !.e = next, !.at = "lost"]
        ELSE [x EXCEPT !.e = IF copy THEN [next EXCEPT !.image = found, !.read = found.pts]
                             ELSE next,
                       !.at = "found"]
      looked(next) == after(next, GetAfter(next.cache, next.read))
  IN IF x.at # "on" THEN x
     ELSE IF x.e.eos THEN [x EXCEPT !.at = "lost"]
     ELSE looked(DecodeNextPicture(x.e))

NextPictureInternal(e, copy, end) ==
  LET loop[n \in 0..Loops] == IF n = 0 THEN Start(e) ELSE NextRound(loop[n - 1], copy, end)
      left(x) == IF x.at = "found" THEN Done(x.e) ELSE Failed(x.e)
  IN left(loop[Loops])

(* A round of seektoTime after the key picture: forward to the time. *)
ForwardRound(x, pts) ==
  LET after(got) ==
        IF ~got.ok THEN [x EXCEPT !.e = got, !.at = "lost"]
        ELSE [x EXCEPT !.e = [got EXCEPT !.read = got.decoded],
                       !.at = IF got.decoded = pts THEN "found"
                              ELSE IF got.decoded > pts THEN "lost" ELSE "on"]
  IN IF x.at # "on" THEN x ELSE after(NextPictureInternal(x.e, FALSE, 0))

DecodeForward(e, pts) ==
  LET loop[n \in 0..Enough(e)] == IF n = 0 THEN Start(e) ELSE ForwardRound(loop[n - 1], pts)
      left(x) == IF x.at = "found" THEN Done(x.e) ELSE Failed(x.e)
  IN left(loop[Enough(e)])

(* The key picture at a time or before it. *)
SeekFrame(e, pts) ==
  IF IsKeyFrameByTime(e, pts) THEN {FirstIn(FramesAt(e, pts))}
  ELSE IF KeysBefore(e, pts) = {} THEN {}
  ELSE {FirstIn(FramesAt(e, PtsOf(e, LastIn(KeysBefore(e, pts)))))}

(* The second attempt, of seektoTime. *)
Again(first, frame) == IF first.ok THEN first ELSE DecodePictureUpToIntra(first, frame)

Once(e, frame) == Again(DecodePictureUpToIntra(e, frame), frame)

(* seektoTime: from the key picture forward, unless it is what is sought. *)
Forward(key, pts) ==
  IF key.ok /\ ~IsKeyFrameByTime(key, pts) THEN DecodeForward(key, pts) ELSE key

SeekToTime(e, pts) ==
  IF pts > FirstFramePts(e) /\ GetByPts(e.cache, pts) # None
  THEN [Done(e) EXCEPT !.decoded = pts, !.read = pts, !.eos = FALSE]
  ELSE IF SeekFrame(e, pts) = {} THEN Failed(e)
  ELSE Forward(Once(e, FirstIn(SeekFrame(e, pts))), pts)

-----------------------------------------------------------------------------
(* From picture to picture                                                 *)

(* The segment is switched when the seek has succeeded. *)
Entered(e, s) == IF e.ok THEN [e EXCEPT !.segment = s] ELSE e

SwitchToSegment(e, s) ==
  LET start == e.segments[s].refStart IN
    Entered(SeekToTime(e, IF start = 0 THEN FirstFramePts(e) ELSE start), s)

(* nextPicture, where the segment has no more pictures: the first picture  *)
(* of the next one; `within' forbids it.                                   *)
NextSegment(e, within) ==
  LET after(there) ==
        LET same == GetByPts(there.cache, there.decoded) IN
          IF ~there.ok THEN there
          ELSE Deliver(there, IF same = None THEN there.image ELSE same)
  IN IF within \/ e.segment = Len(e.segments) THEN Failed(e)
     ELSE after(SwitchToSegment(e, e.segment + 1))

(* ... where an image was found: it must be before the end of the segment. *)
Got(e, within) ==
  LET t == LinearTime(e, e.image.pts) IN
    IF t >= EndOf(Segment(e)) THEN NextSegment([e EXCEPT !.image.pts = t], within)
    ELSE Deliver(e, e.image)

(* ... where decoding on has failed: the next key picture, if it is in the *)
(* segment and is not frame 0; Skipped is what follows its decoding.       *)
Skipped(there, time, within) ==
  IF ~there.ok THEN NextSegment(there, within)
  ELSE Got([there EXCEPT !.image = GetByPts(there.cache, time)], within)

SkipToKey(e, pts, within) ==
  LET end == Segment(e).refStart + Segment(e).duration
      time == PtsOf(e, FirstIn(KeysAfter(e, pts)))
      skips == KeysAfter(e, pts) # {} /\ time < end /\ FirstIn(FramesAt(e, time)) # 0
  IN IF skips
     THEN Skipped(DecodePictureUpToIntra(e, FirstIn(FramesAt(e, time))), time, within)
     ELSE NextSegment(e, within)

(* ... where the ring has no picture after this one: it is decoded, and    *)
(* DecodedOn follows.                                                      *)
DecodedOn(got, pts, within) ==
  IF got.ok THEN Got(got, within)
  ELSE IF within THEN Failed(got)
  ELSE SkipToKey(got, pts, within)

DecodeOn(e, pts, within) ==
  DecodedOn(NextPictureInternal(e, TRUE, Segment(e).refStart + Segment(e).duration),
            pts, within)

\* Mutant: a picture of the cache is given also from beyond the segment.
NextPicture_Beyond(e, within) ==
  LET pts == RefTime(e, e.current)
      cached == GetAfter(e.cache, pts)
  IN IF pts < 0 THEN Failed(e)
     ELSE IF cached = None THEN DecodeOn(e, pts, within)
     ELSE Deliver([e EXCEPT !.read = cached.pts], cached)

(* nextPicture *)
NextPicture(e, within) ==
  LET pts == RefTime(e, e.current)
      cached == GetAfter(e.cache, pts)
  IN IF pts < 0 THEN Failed(e)
     ELSE IF cached = None THEN DecodeOn(e, pts, within)
     ELSE IF cached.pts < Segment(e).refStart + Segment(e).duration
     THEN Got([e EXCEPT !.image = cached, !.read = cached.pts], within)
     ELSE NextSegment(e, within)

(* decodeTillPictureAtPts: from the key picture before a time of the film  *)
(* to the picture at that time.  It answers no, yes, or (ADM_IGN) that it  *)
(* came out elsewhere.                                                     *)
PlayRound(x, t) ==
  LET after(next) ==
        IF ~next.ok THEN [x EXCEPT !.e = next, !.at = "elsewhere"]
        ELSE [x EXCEPT !.e = next,
                       !.at = IF next.segment = x.e.segment /\ next.image.pts < t THEN "on"
                              ELSE IF next.image.pts = t THEN "yes" ELSE "elsewhere"]
  IN IF x.at # "on" THEN x ELSE after(NextPicture(x.e, TRUE))

PlayUpTo(e, t) ==
  LET loop[n \in 0..Enough(e)] == IF n = 0 THEN Start(e) ELSE PlayRound(loop[n - 1], t)
      left(x) == [e |-> x.e, answer |-> x.at]
  IN left(loop[Enough(e)])

PlayFrom(there, t) ==
  IF there.ok THEN PlayUpTo(there, t) ELSE [e |-> there, answer |-> "no"]

DecodeTillPictureAtPts(e, t) ==
  LET keys == KeysBefore(e, RefTime(e, t - 1)) IN
    IF RefTime(e, t - 1) <= FirstFramePts(e) \/ keys = {}
    THEN [e |-> e, answer |-> "no"]
    ELSE PlayFrom(SeekToTime(e, PtsOf(e, LastIn(keys))), t)

(* previousPicture, in the segment of the picture. *)
PreviousInSegment(e, t, pts) ==
  LET shown(there, cached) ==
        IF cached # None /\ cached.pts >= Segment(e).refStart
        THEN Deliver(there, cached) ELSE Failed(there)
      after(till) ==
        CASE till.answer = "no" -> Failed(till.e)
          [] till.answer = "yes" -> shown(till.e, GetBefore(till.e.cache, pts))
          [] till.answer = "elsewhere" -> shown(till.e, GetLast(till.e.cache))
  IN after(DecodeTillPictureAtPts(e, t))

(* ... the last picture of the segment before; BackIn is what follows the  *)
(* switch to it.                                                           *)
LastBefore(cache, image, pts) ==
  LET back(i) == IF i.pts < pts \/ GetBefore(cache, i.pts) = None THEN i
                 ELSE GetBefore(cache, i.pts)
      loop[n \in 0..NbImage] == IF n = 0 THEN image ELSE back(loop[n - 1])
  IN loop[NbImage]

BackIn(there, t) ==
  LET after(till) ==
        LET pts == RefTime(till.e, t)
            last == GetLast(till.e.cache)
        IN IF till.answer = "no" \/ pts < 0 \/ last = None THEN Failed(till.e)
           ELSE Deliver(till.e, LastBefore(till.e.cache, last, pts))
  IN IF there.ok THEN after(DecodeTillPictureAtPts(there, t)) ELSE there

PreviousInOther(e, t, s) == BackIn(SwitchToSegment(e, s), t)

(* previousPicture *)
PreviousPicture(e) ==
  LET pts == RefTime(e, e.current)
      first == pts <= FirstFramePts(e)
      t == IF first THEN Segment(e).start ELSE e.current
      cached == GetBefore(e.cache, pts)
      s == SegmentAt(e, t - 1)
  IN IF e.current = 0 \/ pts < 0 \/ (first /\ e.segment = 1) THEN Failed(e)
     ELSE IF cached # None /\ cached.pts < pts /\ cached.pts >= Segment(e).refStart
     THEN Deliver(e, cached)
     ELSE IF SegmentsAt(e, t - 1) = {} THEN Failed(e)
     ELSE IF s = e.segment THEN PreviousInSegment(e, t, pts)
     ELSE IF s + 1 # e.segment THEN [e EXCEPT !.dead = TRUE]
     ELSE PreviousInOther(e, t, s)

(* samePicture *)
SamePicture(e) ==
  LET same == GetByPts(e.cache, RefTime(e, e.current)) IN
    IF SegmentsAt(e, e.current) = {} THEN Failed(e)
    ELSE IF SegmentAt(e, e.current) # e.segment THEN [e EXCEPT !.dead = TRUE]
    ELSE IF same = None THEN Failed(e)
    ELSE [Done(e) EXCEPT !.image = [same EXCEPT !.pts = LinearTime(e, @)]]

(* Where a seek has come to is the position; its picture is shown. *)
Arrived(e) ==
  IF ~e.ok THEN e
  ELSE SamePicture([e EXCEPT !.current =
                      e.decoded + Segment(e).start - Segment(e).refStart])

\* Mutant: the editor stays in its segment.
GoToTime_SameSegment(e, t) ==
  LET s == SegmentAt(e, t) IN
    Arrived(SeekToTime(e, e.segments[s].refStart + t - e.segments[s].start))

(* goToTimeVideo, samePicture *)
GoToTime(e, t) ==
  LET s == SegmentAt(e, t) IN
    Arrived(Entered(SeekToTime(e, e.segments[s].refStart + t - e.segments[s].start), s))

(* goToIntraTimeVideo, samePicture *)
GoToIntraTime(e, t) ==
  LET s == SegmentAt(e, t)
      frame == FirstIn(FramesAt(e, e.segments[s].refStart + t - e.segments[s].start))
      after(there) ==
        IF there.ok
        THEN Arrived(DecodePictureUpToIntra([there EXCEPT !.sent = frame], frame))
        ELSE there
  IN after(IF s = e.segment THEN Done(e) ELSE SwitchToSegment(e, s))

(* rewind, samePicture *)
Rewind(e) == Arrived(SwitchToSegment(e, 1))

-----------------------------------------------------------------------------
(* The film: what the segments show of what can be decoded.                *)

In(s, pts) == s.refStart <= pts /\ pts < s.refStart + s.duration

Shown(e, s) ==
  {[at |-> s.start + Picture(e, f).pts - s.refStart, frame |-> f] :
     f \in {g \in Frames(e) : ~Picture(e, g).bad /\ In(s, Picture(e, g).pts)}}

Film(e) == UNION {Shown(e, e.segments[i]) : i \in DOMAIN e.segments}

(* The times a user can see. *)
Times(e) == {p.at : p \in {q \in Film(e) : Picture(e, q.frame).timed}}

(* Key pictures by the flags of the file, decodable or not. *)
KeyTimes(e) ==
  UNION {{s.start + Picture(e, f).pts - s.refStart :
            f \in {k \in Keys(e) : In(s, Picture(e, k).pts)}} : s \in Range(e.segments)}

-----------------------------------------------------------------------------
(* What the user does                                                      *)

NewEditor(file, segments, trusted) ==
  [file |-> file, segments |-> segments, trusted |-> trusted,
   cache |-> EmptyCache, decoder |-> NewDecoder,
   sent |-> 0, decoded |-> 0, read |-> 0, eos |-> FALSE, delay |-> 0,
   segment |-> 1, current |-> 0, image |-> NoImage, ok |-> TRUE, dead |-> FALSE]

(* A film that was opened is shown from its beginning. *)
Init ==
  /\ \E film \in Films, trusted \in Trust :
       editor = Rewind(NewEditor(film.pictures, film.segments, trusted))
  /\ call = "rewind"

Call(op, e) == call' = op /\ editor' = e

Next ==
  /\ ~editor.dead
  /\ \/ Call("next", NextPicture(editor, FALSE))
     \/ Call("previous", PreviousPicture(editor))
     \/ Call("rewind", Rewind(editor))
     \/ \E t \in Times(editor) : Call("seek", GoToTime(editor, t))
     \/ \E t \in KeyTimes(editor) \ {editor.current} :
          Call("intra", GoToIntraTime(editor, t))

Spec == Init /\ [][Next]_vars

-----------------------------------------------------------------------------
(* The pictures of the film that are on screen, in the segment and at the  *)
(* time the editor says it is at.                                          *)
Places(e) ==
  {p \in Film(e) : /\ p.at = e.current /\ SegmentsAt(e, e.current) = {e.segment}
                   /\ e.image = [pts |-> p.at, pic |-> p.frame + 1]}

(* One picture of the film comes right after another. *)
Follows(e, p, q) ==
  p.at < q.at /\ \A r \in Film(e) : r.at <= p.at \/ q.at <= r.at

(* Where the time of every picture of the file is known.  Elsewhere it is  *)
(* guessed, and after a seek answered by the ring guessed wrong: the seek  *)
(* moves the last decoded time back, not the decoder.                      *)
Dependable(e) == e.trusted /\ \A f \in Frames(e) : Picture(e, f).timed

(* After a call that went well the editor is at a picture of the film: in  *)
(* the segment of its position, with the picture of that time on screen.   *)
OnFilm == Dependable(editor) /\ editor.ok => Places(editor) # {}

(* The editor's assertions hold: the segment it is in is the one its       *)
(* position is in, the one before it is next to it, and no picture in use  *)
(* of the ring is without a time.                                          *)
NeverDies == ~editor.dead /\ ~Untimed(editor.cache)

(* Every picture of the film can be gone to.                               *)
SeekFinds ==
  Dependable(editor) /\ call \in {"seek", "intra", "rewind"} => editor.ok

(* nextPicture goes to the next picture of the film, whatever was decoded, *)
(* sought or kept in the ring before, and fails after the last one only.   *)
NextIsNext ==
  [][call' = "next" /\ Dependable(editor) =>
       \A p \in Places(editor) :
         IF editor'.ok THEN \E q \in Places(editor') : Follows(editor, p, q)
         ELSE \A q \in Film(editor) : q.at <= p.at]_vars

(* previousPicture goes to the one before, and fails at the first only.    *)
PreviousIsPrevious ==
  [][call' = "previous" /\ Dependable(editor) =>
       \A p \in Places(editor) :
         IF editor'.ok THEN \E q \in Places(editor') : Follows(editor, q, p)
         ELSE \A q \in Film(editor) : p.at <= q.at]_vars

=============================================================================
