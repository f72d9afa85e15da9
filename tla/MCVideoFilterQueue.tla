------------------------- MODULE MCVideoFilterQueue -------------------------
(* Instance of VideoFilterQueue for TLC; the cfg files give the constants. *)
EXTENDS VideoFilterQueue
=============================================================================
