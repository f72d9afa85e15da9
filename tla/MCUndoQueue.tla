---------------------------- MODULE MCUndoQueue ----------------------------
(* Instance of UndoQueue for TLC: the values are in MCUndoQueue.cfg. *)
EXTENDS UndoQueue
=============================================================================
