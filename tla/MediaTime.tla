------------------------------ MODULE MediaTime ------------------------------
(***************************************************************************)
(* Times as the encoder and the muxer count them.  The program has         *)
(* microseconds; the unit of the models is a hundredth of a second or so,  *)
(* only the relations between times matter.                                *)
(***************************************************************************)
EXTENDS Integers

(* ADM_NO_PTS and AV_NOPTS_VALUE.  Both are compared as unsigned numbers,  *)
(* where they are above every time.                                        *)
NoTime == 1000000

(* A time in ticks: 0.49 is added before the fraction is dropped, which    *)
(* rounds to the nearest and a half downwards.                             *)
Ticks(us, tick) == (100 * us + 49 * tick) \div (100 * tick)

=============================================================================
