---------------------------- MODULE MCJobRunner ----------------------------
(* Instance of JobRunner for TLC; the cfg files give the constants.        *)
EXTENDS JobRunner
=============================================================================
