----------------------------- MODULE FrameFifo -----------------------------
(***************************************************************************)
(* What a threaded queue of avidemux promises to the code that pulls from  *)
(* it: frames (or audio packets) come out in the order the source made     *)
(* them, none is lost, repeated or altered, at most Capacity of them are   *)
(* read ahead, and "no more data" is answered only once the source has     *)
(* ended and everything it made has been handed out.  Destroying the queue *)
(* drops what is still inside.                                             *)
(***************************************************************************)
EXTENDS Naturals, Sequences

CONSTANT Capacity   \* a positive number: what may be read ahead

VARIABLES queue,        \* frames made by the source and not handed out yet
          handed,       \* frames handed out, in order
          phase,        \* "open", "ended" (the source has stopped), "destroyed"
          eof           \* the puller has been told there is no more data

fifoVars == <<queue, handed, phase, eof>>

FifoInit ==
    /\ queue = <<>>
    /\ handed = <<>>
    /\ phase = "open"
    /\ eof = FALSE

\* The source makes the next frame; frames are numbered from 1.
Put ==
    /\ phase = "open"
    /\ Len(queue) < Capacity
    /\ queue' = Append(queue, Len(handed) + Len(queue) + 1)
    /\ UNCHANGED <<handed, phase, eof>>

Get ==
    /\ phase # "destroyed"
    /\ queue # <<>>
    /\ handed' = Append(handed, Head(queue))
    /\ queue' = Tail(queue)
    /\ UNCHANGED <<phase, eof>>

End ==
    /\ phase = "open"
    /\ phase' = "ended"
    /\ UNCHANGED <<queue, handed, eof>>

NoMoreData ==
    /\ phase = "ended"
    /\ queue = <<>>
    /\ eof' = TRUE
    /\ UNCHANGED <<queue, handed, phase>>

Destroy ==
    /\ phase # "destroyed"
    /\ phase' = "destroyed"
    /\ queue' = <<>>
    /\ UNCHANGED <<handed, eof>>

FifoNext == Put \/ Get \/ End \/ NoMoreData \/ Destroy

FifoSpec == FifoInit /\ [][FifoNext]_fifoVars
=============================================================================
