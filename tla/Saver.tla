------------------------------- MODULE Saver -------------------------------
(***************************************************************************)
(* A save: the muxer and the stream its pictures come from, which is the   *)
(* encoder (ADM_videoProcess.cpp) or, in copy mode, the editor             *)
(* (ADM_videoCopy.cpp), whose packets may have any times.                  *)
(***************************************************************************)
EXTENDS EncoderFFmpeg, MuxerFFmpeg, FiniteSets

CONSTANTS
  Steps,      \* copy mode: how the decode time moves from one packet to the next
  Leads,      \* copy mode: how much later than decoded a picture is shown
  CopyDelays, \* copy mode: videoDelay
  MaxCopied   \* bound: packets copied

ASSUME CopyAssumption ==
  Steps \subseteq Int /\ Leads \subseteq Int /\ CopyDelays \subseteq Nat
  /\ MaxCopied \in Nat

VARIABLES
  mode,   \* copy or encode
  times   \* decode times of the pictures taken from the stream

saverVars == <<mode, times>>
vars == <<encoderVars, muxerVars, saverVars>>

Init ==
  /\ EncoderInit
  /\ times = <<>>
  /\ \/ mode = "encode" /\ MuxerInit(encoderDelay)
     \/ mode = "copy" /\ \E delay \in CopyDelays : MuxerInit(delay)

-----------------------------------------------------------------------------
(* encode                                                                  *)

Encoding == mode = "encode" /\ pc = "get"

Encode ==
  /\ Encoding
  /\ CallEncode \/ EncoderStep
  /\ UNCHANGED <<muxerVars, saverVars>>

TakeEncoded ==
  /\ Encoding /\ call = "gave"
  /\ GetPicture(out)
  /\ call' = "idle"
  /\ times' = Append(times, out.dts)
  /\ UNCHANGED <<mode, out, pulled, encoderState, timeVars, bframes, lavcVars>>

EncodeEnds ==
  /\ Encoding /\ call = "ended"
  /\ GetEnd
  /\ UNCHANGED <<encoderVars, saverVars>>

-----------------------------------------------------------------------------
(* copy                                                                    *)

Copying == mode = "copy" /\ pc = "get"

(* getPacket: rescaleTs makes a time before the start zero. *)
LastKnown ==
  LET known == {i \in DOMAIN times : times[i] # NoTime} IN
    IF known = {} THEN 0
    ELSE times[CHOOSE i \in known : \A j \in known : j <= i]

RescaleTs(t) == IF t < 0 THEN 0 ELSE t

(* bound: no time comes near NoTime, as those that are encoded do not. *)
CopiedPackets ==
  LET Around(S) == {t \in {RescaleTs(LastKnown + s) : s \in S} : t < NoTime - 1} IN
    {[src |-> Len(times), dts |-> d, pts |-> p] :
       d \in Around(Steps) \cup {NoTime},
       p \in Around(Leads) \cup {NoTime}}

TakeCopied ==
  /\ Copying /\ Len(times) < MaxCopied
  /\ \E p \in CopiedPackets :
       /\ GetPicture(p)
       /\ times' = Append(times, p.dts)
  /\ UNCHANGED <<mode, encoderVars>>

CopyEnds ==
  /\ Copying
  /\ GetEnd
  /\ UNCHANGED <<encoderVars, saverVars>>

-----------------------------------------------------------------------------

UserStops ==
  /\ \/ Encoding /\ call = "gave"
     \/ Copying /\ Len(times) < MaxCopied
  /\ Abort
  /\ UNCHANGED <<encoderVars, saverVars>>

(* getVideoDelay. *)
StreamDelay == IF mode = "encode" THEN encoderDelay ELSE audioDelay

Mux == MuxerStep(StreamDelay) /\ UNCHANGED <<encoderVars, saverVars>>

Saved == pc = "done" \/ call = "dead"

Rest == Saved /\ UNCHANGED vars

Next == Encode \/ TakeEncoded \/ EncodeEnds \/ TakeCopied \/ CopyEnds \/ UserStops \/ Mux \/ Rest

Spec == Init /\ [][Next]_vars

FairSpec == Spec /\ WF_vars(Next)

-----------------------------------------------------------------------------
(* Picture and sound are shifted by the same delay: a picture that was     *)
(* encoded is written with its own time, however the internal times were   *)
(* rounded and matched, later by as much as every packet of sound.         *)
SoundInStep ==
  mode = "encode" =>
    \A i, j \in DOMAIN file :
      file[i].stream = Video /\ file[j].stream # Video /\ file[j].src # NoTime =>
        file[i].us - file[i].src = file[j].us - file[j].src

(* When a picture is about to be written, no track holds back sound that   *)
(* is to be heard by then, unless that track met an error in this round.   *)
(* At the end the code compares the delayed sound with the duration of     *)
(* the film without the delay: what is not written then is only sound of   *)
(* the last audioDelay of the film, or later.                              *)
SoundSource(t) ==
  IF tracks[t].present THEN tracks[t].packet.dts - audioDelay
  ELSE Head(tracks[t].rest).dts

SoundKeepsUp ==
  written > 0 =>
    \A t \in DOMAIN tracks \ failed : HasPacket(t) =>
      /\ pc = "video" => SoundSource(t) > lastVideoDts
      /\ pc = "done" /\ ~more => SoundSource(t) > VideoDuration - audioDelay

(* A save that says it went well has written every picture the stream      *)
(* gave, and the stream has given every picture the filters gave, unless   *)
(* libavcodec refused one.                                                 *)
NothingMissing ==
  pc = "done" /\ result =>
    /\ Cardinality({i \in DOMAIN file : file[i].stream = Video}) = Len(times)
    /\ mode = "encode" /\ ~CutShort => Len(times) = Len(pulled)

(* The repair of the decode times does what it is for: the container       *)
(* refuses a picture for its times only if three decode times (those that  *)
(* go back being replaced) come within less than two ticks, or two in the  *)
(* very first tick, or some time is missing or rounded up.                 *)
Repaired ==
  LET f[i \in 0..Len(times)] ==
        IF i = 0 THEN 0 ELSE IF times[i] >= f[i - 1] THEN times[i] ELSE f[i - 1]
  IN f

Crowded ==
  \/ \E i \in 1..Len(times) - 2 : Repaired[i + 2] - Repaired[i] < 2 * MuxTick
  \/ Len(times) > 1 /\ RescaleLavPts(Repaired[2]) = 0

RefusedWhenCrowded ==
  (\E w \in refused : w.stream = Video) /\ faults = 0 =>
    NoTime \in Range(times) \/ roundup # 0 \/ Crowded

(* The save comes to its end, whatever could not be written. *)
SaveEnds == <>Saved

=============================================================================
