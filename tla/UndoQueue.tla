------------------------------ MODULE UndoQueue ------------------------------
(***************************************************************************)
(* The undo queue of the editor (ADM_edUndoQueue.cpp) with the handlers of *)
(* gui_main.cpp that call it.  Records are pushed at the end of a vector;  *)
(* the first undo also pushes the current layout, and from then on a       *)
(* counter says how far from the end the layout on screen is.  A layout    *)
(* (segments and markers) is the number of the edit that created it.       *)
(***************************************************************************)
EXTENDS Integers, Sequences

CONSTANTS
  MaxUndoSteps,    \* MAX_UNDO_STEPS
  LeastUndoSteps,  \* the 10 below which the limit is ignored
  MaxEdits         \* bound: layouts created in a behaviour

ASSUME UndoAssumption ==
  /\ MaxUndoSteps \in Nat
  /\ LeastUndoSteps \in Nat /\ LeastUndoSteps >= 2
  /\ MaxEdits \in Nat

VARIABLES
  undoQueue,     \* the records, oldest first
  undoCounter,   \* _undo_counter
  current,       \* the layout the editor holds now
  created        \* the number of the last layout created

undoVars == <<undoQueue, undoCounter, current, created>>

Steps == IF MaxUndoSteps < LeastUndoSteps THEN LeastUndoSteps ELSE MaxUndoSteps

UndoInit ==
  /\ undoQueue = <<>> /\ undoCounter = 0
  /\ current = 0 /\ created = 0

-----------------------------------------------------------------------------
(* canUndo and canRedo. *)
CanUndo == undoQueue # <<>> /\ Len(undoQueue) >= undoCounter + 1

CanRedo == undoCounter >= 2 /\ Len(undoQueue) >= undoCounter

\* Mutant: one record is popped, however long the branch is.
DropBranch_One ==
  IF undoCounter > 1 /\ Len(undoQueue) > 1
  THEN SubSeq(undoQueue, 1, Len(undoQueue) - 1)
  ELSE undoQueue

(* addToUndoQueue: drop the branch that was undone, make room, push the    *)
(* current layout.                                                         *)
DropBranch ==
  IF undoCounter > 1 /\ Len(undoQueue) > 1
  THEN SubSeq(undoQueue, 1, Len(undoQueue) - undoCounter)
  ELSE undoQueue

MakeRoom(q) ==
  IF Len(q) > Steps THEN SubSeq(q, Len(q) - Steps + 2, Len(q)) ELSE q

Recorded == Append(MakeRoom(DropBranch), current)

(* The vector undo() reads: before the first undo the current layout has   *)
(* to be recorded too.                                                     *)
UndoSource == IF undoCounter = 0 THEN Recorded ELSE undoQueue

UndoDepth == IF undoCounter = 0 THEN 1 ELSE undoCounter

(* undoQueue.at(size - counter - 1) and at(size - counter + 1), from 1. *)
UndoIndex == Len(UndoSource) - UndoDepth
RedoIndex == Len(undoQueue) - undoCounter + 2

-----------------------------------------------------------------------------
(* A handler that records and then changes the layout: markers, paste,     *)
(* cut, append.                                                            *)
Edit ==
  /\ created < MaxEdits
  /\ undoQueue' = Recorded /\ undoCounter' = 0
  /\ created' = created + 1 /\ current' = created + 1

(* The same handler when the change fails after the record was made. *)
FailedEdit ==
  /\ undoQueue' = Recorded /\ undoCounter' = 0
  /\ UNCHANGED <<current, created>>

(* A cut or paste the user refuses at the warning: the handler records,    *)
(* changes, and calls undo(), which records the refused layout.            *)
RefusedEdit ==
  /\ created < MaxEdits
  /\ created' = created + 1
  /\ undoQueue' = Append(MakeRoom(Recorded), created + 1)
  /\ current' = undoQueue'[Len(undoQueue') - 1]
  /\ undoCounter' = 2

\* Mutant: the counter counts the undo steps, as if nothing had been recorded.
Undo_CountSteps ==
  /\ CanUndo
  /\ undoQueue' = UndoSource
  /\ current' = UndoSource[UndoIndex]
  /\ undoCounter' = undoCounter + 1
  /\ UNCHANGED created

Undo ==
  /\ CanUndo
  /\ undoQueue' = UndoSource
  /\ current' = UndoSource[UndoIndex]
  /\ undoCounter' = UndoDepth + 1
  /\ UNCHANGED created

Redo ==
  /\ CanRedo
  /\ current' = undoQueue[RedoIndex]
  /\ undoCounter' = undoCounter - 1
  /\ UNCHANGED <<undoQueue, created>>

(* clearUndoQueue when the film is closed, with a new layout when another  *)
(* one is opened or the segments are reset.  The counter stays.            *)
Clear ==
  /\ undoQueue' = <<>>
  /\ created' \in {created, created + 1} /\ created' <= MaxEdits
  /\ current' = IF created' = created THEN current ELSE created'
  /\ UNCHANGED undoCounter

UndoNext == Edit \/ FailedEdit \/ RefusedEdit \/ Undo \/ Redo \/ Clear

UndoSpec == UndoInit /\ [][UndoNext]_undoVars

-----------------------------------------------------------------------------
(* The vector never outgrows the limit by more than one record, and the    *)
(* records are layouts in the order of their creation.                     *)
TypeOK ==
  /\ undoQueue \in Seq(0..created) /\ Len(undoQueue) <= Steps + 1
  /\ undoCounter \in Nat /\ current \in 0..created /\ created \in Nat

(* The unsigned subtractions that index the vector never leave it, and     *)
(* dropping the undone branch never pops an empty vector, whatever the     *)
(* counter kept from before the queue was cleared (lines 32, 80 and 101).  *)
AtInRange ==
  /\ CanUndo => UndoIndex \in DOMAIN UndoSource
  /\ CanRedo => RedoIndex \in DOMAIN undoQueue
  /\ undoCounter > 1 /\ Len(undoQueue) > 1 => undoCounter <= Len(undoQueue)

(* While something can be redone or undone further, the layout on screen   *)
(* is the record the counter designates: undo and redo step from where the *)
(* user really is.                                                         *)
PresentRecorded ==
  undoQueue # <<>> /\ undoCounter >= 1 =>
    /\ undoCounter <= Len(undoQueue)
    /\ undoQueue[Len(undoQueue) - undoCounter + 1] = current

-----------------------------------------------------------------------------
(* The abstract history: the records before and after the designated one.  *)
(* Records equal to the current layout are left out, for a failed edit and *)
(* an edit after a redo to the end record a layout twice: the undo that    *)
(* meets the copy changes nothing.                                         *)
Position == IF undoCounter = 0 THEN Len(undoQueue) + 1
                               ELSE Len(undoQueue) - undoCounter + 1

Past == {undoQueue[i] : i \in {j \in DOMAIN undoQueue : j < Position}} \ {current}
Future == {undoQueue[i] : i \in {j \in DOMAIN undoQueue : j > Position}} \ {current}

History == INSTANCE EditHistory
             WITH past <- Past, present <- current, future <- Future

(* Undo and redo walk through the layouts in the order of their creation   *)
(* without skipping one, an edit abandons what was undone and nothing else *)
(* and only the oldest layouts are ever lost (the whole of the file).      *)
ImplementsEditHistory == History!Spec
=============================================================================
