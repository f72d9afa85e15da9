---------------------------- MODULE EncoderFFmpeg ----------------------------
(***************************************************************************)
(* A video encoder built on libavcodec (ADM_coreVideoEncoderFFmpeg.cpp,    *)
(* ADM_coreVideoEncoder.cpp) and its encode() (ADM_ffMpeg4.cpp, which the  *)
(* mpeg2 encoder repeats).  libavcodec counts time in ticks and gives the  *)
(* pictures back in coding order; the class finds the time of each again   *)
(* in `mapper', and makes decode times of the times of the pictures in the *)
(* order they were fed.                                                    *)
(*                                                                         *)
(* libavcodec itself is external: it keeps max_b_frames pictures, refuses  *)
(* a picture that is not later than the one before, decides how many       *)
(* B-pictures come between two others, and dates the first packet back by  *)
(* the distance of the first two pictures.                                 *)
(***************************************************************************)
EXTENDS MediaTime, SequencesExt

CONSTANTS
  EncTick,        \* length of a tick of the encoder
  FrameIncrement, \* frameIncrement of the last filter
  BFrames,        \* the values of max_b_frames to try
  Starts,         \* times of the first picture
  Gaps,           \* distances between a picture and the one before
  MaxPictures     \* bound: pictures the filters give

ASSUME EncoderAssumption ==
  /\ EncTick \in Nat \ {0} /\ FrameIncrement \in Nat \ {0}
  /\ BFrames \subseteq Nat /\ Starts \subseteq Nat
  /\ Gaps \subseteq Nat \ {0}
  /\ MaxPictures \in Nat

VARIABLES
  call,         \* where encode() is: idle, feed, receive, gave, ended, dead
  out,          \* the picture encode() gave
  pulled,       \* times of the pictures taken from the filters
  encoderState, \* feeding, startFlushing, flushing, flushed
  mapper,       \* internal and real time of the pictures in flight
  queueOfDts,   \* decode times still to be given
  encoderDelay,
  lastDts,      \* the last decode time given
  lastLavPts,   \* the last internal time
  firstOut,     \* no packet has come out yet
  bframes,      \* max_b_frames
  held,         \* libavcodec: pictures fed, in the order they are shown
  coding        \* libavcodec: those whose turn is decided, in coding order

encodeVars == <<call, out>>
timeVars == <<mapper, queueOfDts, encoderDelay, lastDts, lastLavPts, firstOut>>
lavcVars == <<held, coding>>
encoderVars ==
  <<encodeVars, pulled, encoderState, timeVars, bframes, lavcVars>>

NoPicture == [src |-> NoTime, dts |-> NoTime, pts |-> NoTime]

EncoderInit ==
  /\ call = "idle" /\ out = NoPicture
  /\ pulled = <<>> /\ encoderState = "feeding"
  /\ mapper = <<>> /\ queueOfDts = <<>>
  /\ encoderDelay = 0 /\ lastDts = NoTime /\ lastLavPts = NoTime
  /\ firstOut = TRUE
  /\ bframes \in BFrames
  /\ held = <<>> /\ coding = <<>>

-----------------------------------------------------------------------------
(* Time                                                                    *)

TimingToLav(us) == Ticks(us, EncTick)

LavToTiming(ticks) == ticks * EncTick

\* Mutant: pictures of one tick are not parted.
InternalTime_Collides(us) == TimingToLav(us)

(* preEncode: a picture that falls in the tick of the one before goes to   *)
(* the next tick.                                                          *)
InternalTime(us) ==
  LET t == TimingToLav(us) IN IF t = lastLavPts THEN t + 1 ELSE t

-----------------------------------------------------------------------------
(* libavcodec                                                              *)

LavcRefuses(t) == lastLavPts # NoTime /\ t <= lastLavPts

Least(a, b) == IF a < b THEN a ELSE b

LavcHasOutput ==
  Len(held) + Len(coding) > (IF encoderState = "feeding" THEN bframes ELSE 0)

(* The pictures that may come next: those whose turn is decided, or one    *)
(* picture and, after it, the B-pictures that are shown before it.         *)
NextOut ==
  IF coding # <<>> THEN {coding}
  ELSE {<<held[b + 1]>> \o SubSeq(held, 1, b) :
          b \in IF firstOut THEN {0} ELSE 0..Least(bframes, Len(held) - 1)}

(* The decode time of the first packet. *)
FirstLavDts ==
  LET fed == coding \o held IN
    IF bframes > 0 /\ Len(fed) > 1 THEN 2 * fed[1].pts - fed[2].pts
    ELSE fed[1].pts

-----------------------------------------------------------------------------
(* encode(), in steps: a picture is fed, what libavcodec has is received,  *)
(* and again until there is a packet, the end or an error.                 *)

CallEncode ==
  /\ call = "idle"
  /\ call' = "feed"
  /\ UNCHANGED <<out, pulled, encoderState, timeVars, bframes, lavcVars>>

(* preEncode with a picture, then avcodec_send_frame.  A refusal makes     *)
(* encode() return false, as the end of the stream does.                   *)
Feed(us) ==
  /\ call = "feed" /\ encoderState = "feeding"
  /\ pulled' = Append(pulled, us)
  /\ queueOfDts' = Append(queueOfDts, us)
  /\ LET t == InternalTime(us) IN
       /\ mapper' = Append(mapper, [internal |-> t, real |-> us])
       /\ lastLavPts' = t
       /\ IF LavcRefuses(t)
            THEN call' = "ended" /\ UNCHANGED held
            ELSE /\ call' = "receive"
                 /\ held' = Append(held, [src |-> us, pts |-> t])
  /\ UNCHANGED <<out, encoderState, encoderDelay, lastDts, firstOut, bframes, coding>>

(* preEncode without a picture: libavcodec is told that this was the last. *)
FeedEnd ==
  /\ call = "feed"
  /\ \/ encoderState = "feeding" /\ encoderState' = "flushing"
     \/ encoderState = "flushing" /\ UNCHANGED encoderState
  /\ call' = "receive"
  /\ UNCHANGED <<out, pulled, timeVars, bframes, lavcVars>>

(* avcodec_receive_packet says that it needs more input. *)
NeedsMore ==
  /\ call = "receive" /\ ~LavcHasOutput /\ encoderState = "feeding"
  /\ call' = "feed"
  /\ UNCHANGED <<out, pulled, encoderState, timeVars, bframes, lavcVars>>

(* ... or that everything has been given. *)
Flushed ==
  /\ call = "receive" /\ ~LavcHasOutput /\ encoderState = "flushing"
  /\ encoderState' = "flushed"
  /\ call' = "ended"
  /\ UNCHANGED <<out, pulled, timeVars, bframes, lavcVars>>

(* postEncode, first packet: a negative decode time of libavcodec tells by *)
(* how much the pictures have to be delayed.                               *)
DelayAfter(p) ==
  IF firstOut /\ FirstLavDts < 0 THEN LavToTiming(p.pts - FirstLavDts)
  ELSE encoderDelay

\* Mutant: the pictures are looked up by the rounded time, before it was moved.
Matches_Rounded(p) ==
  {i \in DOMAIN mapper : mapper[i].internal = TimingToLav(p.src)}

(* getRealPtsFromInternal: the first of the pictures in flight that has    *)
(* the internal time.                                                      *)
Matches(p) == {i \in DOMAIN mapper : mapper[i].internal = p.pts}

First(S) == CHOOSE i \in S : \A j \in S : i <= j

\* Mutant: decoded an increment before it is shown.
DecodeTime_Early(dts, pts) ==
  IF dts <= pts THEN dts
  ELSE IF pts > FrameIncrement THEN pts - FrameIncrement ELSE 0

(* A decode time after the time of the picture is replaced by the last one *)
(* plus an increment, or else by the time of the picture.                  *)
DecodeTime(dts, pts) ==
  IF dts <= pts THEN dts
  ELSE IF lastDts # NoTime /\ lastDts + FrameIncrement <= pts
       THEN lastDts + FrameIncrement
       ELSE pts

(* postEncode without B-pictures: the first time in, the first time out. *)
GiveInOrder(p) ==
  /\ bframes = 0
  /\ out' = [src |-> p.src, dts |-> Head(queueOfDts), pts |-> Head(queueOfDts)]
  /\ mapper' = Tail(mapper)
  /\ lastDts' = Head(queueOfDts)
  /\ call' = "gave"

(* postEncode with B-pictures. *)
GiveMatched(p) ==
  /\ bframes > 0
  /\ IF Matches(p) = {}
     THEN call' = "dead" /\ UNCHANGED <<out, mapper, lastDts>>
     ELSE LET i == First(Matches(p))
              pts == mapper[i].real + DelayAfter(p)
              dts == DecodeTime(Head(queueOfDts), pts)
          IN /\ out' = [src |-> p.src, dts |-> dts, pts |-> pts]
             /\ mapper' = RemoveAt(mapper, i)
             /\ lastDts' = dts
             /\ call' = "gave"

Receive ==
  /\ call = "receive" /\ LavcHasOutput
  /\ \E group \in NextOut :
       /\ coding' = Tail(group)
       /\ IF coding = <<>>
            THEN held' = SubSeq(held, Len(group) + 1, Len(held))
            ELSE UNCHANGED held
       /\ encoderDelay' = DelayAfter(Head(group))
       /\ \/ GiveInOrder(Head(group))
          \/ GiveMatched(Head(group))
  /\ queueOfDts' = Tail(queueOfDts)
  /\ firstOut' = FALSE
  /\ UNCHANGED <<pulled, encoderState, lastLavPts, bframes>>

(* The filters, in order of time; they may stop before the bound. *)
NextTimes ==
  IF pulled = <<>> THEN Starts ELSE {Last(pulled) + g : g \in Gaps}

(* bound: no time comes near NoTime, nor does it when it is delayed. *)
FarFromNoTime(us) == 3 * (us + EncTick) < NoTime - 1

FeedSome ==
  /\ Len(pulled) < MaxPictures
  /\ \E us \in NextTimes : FarFromNoTime(us) /\ Feed(us)

EncoderStep == FeedSome \/ FeedEnd \/ NeedsMore \/ Flushed \/ Receive

-----------------------------------------------------------------------------
(* The encoder never ends the process (the assertion of                    *)
(* getRealPtsFromInternal): whatever the rounding, each packet that comes  *)
(* out is found among the pictures in flight.                              *)
EveryPictureFound == call # "dead"

(* The decode times, some of them made up, never go back.                  *)
DecodeTimesForward ==
  [][call' = "gave" /\ lastDts # NoTime => lastDts' >= lastDts]_encoderVars

(* A refusal by libavcodec ends the film without a word, since encode()    *)
(* then answers as it does at the end.  Parting the pictures that fall in  *)
(* one tick prevents it as long as no three pictures come within less than *)
(* two ticks.                                                              *)
CutShort == call = "ended" /\ encoderState = "feeding"

CutShortWhenCrowded ==
  CutShort =>
    \E i \in 1..Len(pulled) - 2 : pulled[i + 2] - pulled[i] < 2 * EncTick

=============================================================================
