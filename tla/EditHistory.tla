----------------------------- MODULE EditHistory -----------------------------
(***************************************************************************)
(* What undo and redo promise the user of an editor.  Every layout of the  *)
(* film (segments and markers) that an edit creates gets the next number.  *)
(* The layouts one can go back to are the past, the ones undone and not    *)
(* yet abandoned are the future.  Undo brings back the newest of the past, *)
(* redo the oldest of the future, an edit abandons the future.  The oldest *)
(* layouts may be forgotten, and only those.                               *)
(***************************************************************************)
EXTENDS Integers, FiniteSets

VARIABLES past, present, future

vars == <<past, present, future>>

Newest(S) == CHOOSE x \in S : \A y \in S : y <= x
Oldest(S) == CHOOSE x \in S : \A y \in S : x <= y

(* S after its oldest members were forgotten. *)
ForgetsOldest(S, T) ==
  /\ T \subseteq S
  /\ \A x \in S \ T, y \in T : x < y

Init == past = {} /\ future = {} /\ present \in Nat

(* A new layout; everything older stays in reach, what was undone does not. *)
Edit ==
  /\ present' > present
  /\ ForgetsOldest(past \cup {present}, past')
  /\ future' = {}

(* An edit that was recorded and changed nothing. *)
IdleEdit ==
  /\ ForgetsOldest(past, past')
  /\ future' = {}
  /\ UNCHANGED present

Undo ==
  /\ past # {}
  /\ present' = Newest(past)
  /\ ForgetsOldest(past \ {present'}, past')
  /\ future' = future \cup {present}

Redo ==
  /\ future # {}
  /\ present' = Oldest(future)
  /\ past' = past \cup {present}
  /\ future' = future \ {present'}

(* An edit the user refuses after seeing its consequences: back where one  *)
(* was, the refused layout is all that can be redone.                      *)
RefusedEdit ==
  /\ UNCHANGED present
  /\ ForgetsOldest(past, past')
  /\ \E x \in future' : x > present /\ future' = {x}

(* The film is closed, or its segments reset. *)
Clear ==
  /\ past' = {} /\ future' = {}
  /\ present' >= present

Next == Edit \/ IdleEdit \/ Undo \/ Redo \/ RefusedEdit \/ Clear

Spec == Init /\ [][Next]_vars
=============================================================================
