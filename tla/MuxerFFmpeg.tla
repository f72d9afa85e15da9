----------------------------- MODULE MuxerFFmpeg -----------------------------
(***************************************************************************)
(* saveLoop of the muxers built on libavformat (ADM_coreMuxerFfmpeg.cpp):  *)
(* a picture is taken, the packets of every audio track that are due are   *)
(* written, then the picture.  The loop repairs decode times that are      *)
(* missing, go back or fall in one tick of the container, and delays the   *)
(* sound by the delay of the encoder, which is known only after the first  *)
(* picture.                                                                *)
(*                                                                         *)
(* av_write_frame is external: it refuses a packet whose decode time is    *)
(* not later than that of the packet before it in the same stream, or is   *)
(* later than the time it is shown, and it may fail for other reasons.     *)
(***************************************************************************)
EXTENDS MediaTime, SequencesExt

CONSTANTS
  MuxTick,        \* length of a tick of the video stream
  Roundups,       \* the values of roundup to try, in ticks; 0 is none
  VideoIncrement, \* a picture at the average frame rate
  VideoDuration,  \* getVideoDuration
  Films,          \* what the audio tracks may hold: sequences of packets
  MaxFaults       \* bound: writes that fail without a reason of the loop's

ASSUME MuxerAssumption ==
  /\ MuxTick \in Nat \ {0} /\ Roundups \subseteq Nat
  /\ {VideoIncrement, VideoDuration, MaxFaults} \subseteq Nat
  /\ Films \subseteq Seq(Seq([dts : Nat, samples : Nat]))

NoAudio == [dts |-> NoTime, samples |-> 0]

VARIABLES
  pc,           \* get, audio, video, finish, done
  picture,      \* the picture in hand
  more,         \* gotVideoPacket
  track,        \* the audio track whose turn it is
  tracks,       \* rest, eof, packet in hand and clock of each track
  lastVideoDts, lastLavDts,
  audioDelay,
  written,      \* pictures written
  ret, result,
  failed,       \* history: the tracks that met an error in this round
  roundup,
  computesDts,  \* muxerRescaleVideoTimeDts of mkv, ts and ps: no packet
                \* without decode time
  file,         \* what the container took, in order
  faults, refused

pictureVars == <<picture, more, lastVideoDts>>
soundVars == <<track, tracks>>
outcomeVars == <<ret, result, failed>>
fileVars == <<file, faults, refused>>
formatVars == <<roundup, computesDts>>
muxerVars == <<pc, pictureVars, soundVars, lastLavDts, audioDelay, written,
               outcomeVars, formatVars, fileVars>>

Video == 0

MuxerInit(delay) ==
  /\ pc = "get"
  /\ picture = [src |-> NoTime, dts |-> NoTime, pts |-> NoTime] /\ more = TRUE
  /\ track = 1
  /\ \E film \in Films :
       tracks = [t \in DOMAIN film |->
                   [rest |-> film[t], eof |-> FALSE, present |-> FALSE,
                    packet |-> NoAudio, clock |-> 0]]
  /\ lastVideoDts = 0 /\ lastLavDts = 0
  /\ audioDelay = delay
  /\ written = 0
  /\ ret = TRUE /\ result = TRUE /\ failed = {}
  /\ roundup \in Roundups /\ computesDts \in BOOLEAN
  /\ file = <<>> /\ faults = 0 /\ refused = {}

-----------------------------------------------------------------------------
(* Time                                                                    *)

RescaleLavPts(us) == IF us = NoTime THEN NoTime ELSE Ticks(us, MuxTick)

(* muxerRescaleVideoTime: to the nearest multiple of roundup. *)
RescaleVideoTime(us) ==
  LET t == RescaleLavPts(us) IN
    IF roundup = 0 \/ t = NoTime THEN t
    ELSE ((t + roundup \div 2) \div roundup) * roundup

RescaleVideoTimeDts(us) ==
  RescaleVideoTime(IF us = NoTime /\ computesDts THEN lastVideoDts ELSE us)

-----------------------------------------------------------------------------
(* The container                                                           *)

(* With no time, or with one made from none, libavformat guesses: it may   *)
(* take the packet or not.                                                 *)
Guesses(w) == w.dts >= NoTime

Accepts(w) ==
  /\ w.dts <= w.pts
  /\ \A i \in DOMAIN file :
       file[i].stream = w.stream /\ ~Guesses(file[i]) => file[i].dts < w.dts

WriteFrame(w, ok) ==
  IF ok
  THEN /\ Guesses(w) \/ Accepts(w)
       /\ file' = Append(file, w)
       /\ UNCHANGED <<faults, refused>>
  ELSE /\ \/ /\ Guesses(w) \/ ~Accepts(w)
             /\ UNCHANGED faults
          \/ /\ Accepts(w) /\ faults < MaxFaults
             /\ faults' = faults + 1
       /\ refused' = refused \cup {w}
       /\ UNCHANGED file

-----------------------------------------------------------------------------
(* A picture is taken                                                      *)

\* Mutant: the sound does not wait for the first picture.
AfterPicture_SoundFirst == "audio"

(* No sound before the first picture is written: the delay may change. *)
AfterPicture == IF written > 0 THEN "audio" ELSE "video"

(* The decode time is repaired: if there is none, the last one advances by *)
(* an increment and the picture still has none; one that goes back becomes *)
(* the last one.                                                           *)
GetPicture(p) ==
  /\ pc = "get"
  /\ \/ /\ p.dts = NoTime
        /\ lastVideoDts' = lastVideoDts + VideoIncrement
        /\ picture' = p
     \/ /\ p.dts # NoTime /\ lastVideoDts # 0 /\ p.dts < lastVideoDts
        /\ picture' = [p EXCEPT !.dts = lastVideoDts]
        /\ UNCHANGED lastVideoDts
     \/ /\ p.dts # NoTime /\ (lastVideoDts = 0 \/ p.dts >= lastVideoDts)
        /\ lastVideoDts' = p.dts
        /\ picture' = p
  /\ pc' = AfterPicture
  /\ track' = 1
  /\ UNCHANGED <<more, tracks, lastLavDts, audioDelay, written, outcomeVars,
                 formatVars, fileVars>>

(* There is no picture any more; the sound goes on to the end of the film. *)
GetEnd ==
  /\ pc = "get"
  /\ more' = FALSE
  /\ pc' = IF written > 0 THEN "audio" ELSE "finish"
  /\ track' = 1
  /\ UNCHANGED <<picture, lastVideoDts, tracks, lastLavDts, audioDelay, written,
                 outcomeVars, formatVars, fileVars>>

(* The user has closed the dialog of the encoding. *)
Abort ==
  /\ pc = "get"
  /\ result' = FALSE
  /\ pc' = "finish"
  /\ UNCHANGED <<pictureVars, soundVars, lastLavDts, audioDelay, written, ret,
                 failed, formatVars, fileVars>>

-----------------------------------------------------------------------------
(* The sound that is due                                                   *)

\* Mutant: the delay of the encoder is left out.
MaxAudioDts_NoDelay == IF more THEN lastVideoDts ELSE VideoDuration

MaxAudioDts == IF more THEN lastVideoDts + audioDelay ELSE VideoDuration

(* The packet in hand, or the next one of the track, with the delay. *)
Delayed(p) == IF p.dts = NoTime THEN p ELSE [p EXCEPT !.dts = @ + audioDelay]

InHand(t) ==
  IF tracks[t].present THEN tracks[t].packet ELSE Delayed(Head(tracks[t].rest))

HasPacket(t) == tracks[t].present \/ tracks[t].rest # <<>>

InFuture(t) == InHand(t).dts # NoTime /\ InHand(t).dts > MaxAudioDts

NextTrack ==
  /\ pc = "audio" /\ track \in DOMAIN tracks
  /\ track' = track + 1
  /\ \/ /\ ~HasPacket(track)
        /\ tracks' = [tracks EXCEPT ![track].eof = TRUE]
     \/ /\ HasPacket(track) /\ InFuture(track)
        /\ tracks' = [tracks EXCEPT ![track].present = TRUE,
                                    ![track].packet = InHand(track),
                                    ![track].rest =
                                       IF tracks[track].present THEN @ ELSE Tail(@)]
  /\ UNCHANGED <<pc, pictureVars, lastLavDts, audioDelay, written, outcomeVars,
                 formatVars, fileVars>>

(* A packet without a time takes that of the clock of its track. *)
TimeOf(p, t) == IF p.dts = NoTime THEN tracks[t].clock ELSE p.dts

AudioFrame(p, t) ==
  [stream |-> t, us |-> TimeOf(p, t), dts |-> TimeOf(p, t), pts |-> TimeOf(p, t),
   src |-> IF p.dts = NoTime THEN NoTime ELSE p.dts - audioDelay]

(* The packet is used up, written or not, and sets and advances the clock. *)
Consumed(p, t) ==
  [tracks EXCEPT ![t].present = FALSE,
                 ![t].packet = NoAudio,
                 ![t].rest = IF tracks[t].present THEN @ ELSE Tail(@),
                 ![t].clock = TimeOf(p, t) + p.samples]

\* Mutant: a packet that could not be written is tried again at once.
WriteAudio_Retries(ok) ==
  /\ pc = "audio" /\ track \in DOMAIN tracks
  /\ HasPacket(track) /\ ~InFuture(track)
  /\ LET p == InHand(track) IN
       /\ WriteFrame(AudioFrame(p, track), ok)
       /\ tracks' = IF ok THEN Consumed(p, track)
                    ELSE [tracks EXCEPT ![track] = tracks[track]]
  /\ ret' = ok
  /\ UNCHANGED <<pc, track, pictureVars, lastLavDts, audioDelay, written, result,
                 failed, formatVars>>

(* After an error the track waits for the next round. *)
WriteAudio(ok) ==
  /\ pc = "audio" /\ track \in DOMAIN tracks
  /\ HasPacket(track) /\ ~InFuture(track)
  /\ LET p == InHand(track) IN
       /\ WriteFrame(AudioFrame(p, track), ok)
       /\ tracks' = Consumed(p, track)
  /\ IF ok THEN UNCHANGED <<ret, failed, track>>
     ELSE ret' = FALSE /\ failed' = failed \cup {track} /\ track' = track + 1
  /\ UNCHANGED <<pc, pictureVars, lastLavDts, audioDelay, written, result, formatVars>>

EndOfRound ==
  /\ pc = "audio" /\ track \notin DOMAIN tracks
  /\ pc' = IF more THEN "video" ELSE "finish"
  /\ UNCHANGED <<pictureVars, soundVars, lastLavDts, audioDelay, written,
                 outcomeVars, formatVars, fileVars>>

-----------------------------------------------------------------------------
(* The picture is written                                                  *)

(* A picture is not shown before the last decode time. *)
ShownAt == IF picture.pts = NoTime \/ picture.pts < lastVideoDts
           THEN lastVideoDts ELSE picture.pts

\* Mutant: pictures of one tick are not parted.
LavDts_Collides == RescaleVideoTimeDts(picture.dts)

(* Two pictures in one tick: the second is moved to the next tick. *)
LavDts ==
  LET t == RescaleVideoTimeDts(picture.dts) IN
    IF roundup = 0 /\ lastLavDts # 0 /\ t = lastLavDts THEN t + 1 ELSE t

LavPts ==
  LET t == RescaleVideoTime(ShownAt) IN IF LavDts > t THEN LavDts ELSE t

(* Errors of the sound are forgotten, those of the picture end the loop.   *)
(* `delay' is what the stream says its delay is by now.                    *)
WriteVideo(delay, ok) ==
  /\ pc = "video"
  /\ WriteFrame([stream |-> Video, us |-> ShownAt, dts |-> LavDts, pts |-> LavPts,
                 src |-> picture.src], ok)
  /\ lastLavDts' = LavDts
  /\ ret' = ok /\ failed' = {}
  /\ IF ok
       THEN /\ pc' = "get"
            /\ written' = written + 1
            /\ audioDelay' = IF written = 0 THEN delay ELSE audioDelay
       ELSE pc' = "finish" /\ UNCHANGED <<written, audioDelay>>
  /\ UNCHANGED <<pictureVars, soundVars, result, formatVars>>

\* Mutant: the outcome of the loop is not looked at.
Finish_Forgets ==
  /\ pc = "finish"
  /\ pc' = "done"
  /\ UNCHANGED <<pictureVars, soundVars, lastLavDts, audioDelay, written,
                 outcomeVars, formatVars, fileVars>>

Finish ==
  /\ pc = "finish"
  /\ pc' = "done"
  /\ result' = (result /\ ret)
  /\ UNCHANGED <<pictureVars, soundVars, lastLavDts, audioDelay, written, ret,
                 failed, formatVars, fileVars>>

MuxerStep(delay) ==
  \/ NextTrack \/ EndOfRound \/ Finish
  \/ \E ok \in BOOLEAN : WriteAudio(ok) \/ WriteVideo(delay, ok)

=============================================================================
