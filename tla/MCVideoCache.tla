---------------------------- MODULE MCVideoCache ----------------------------
(* Instance of VideoCache for TLC; the cfg files give the constants.       *)
EXTENDS VideoCache
=============================================================================
