------------------------ MODULE MCAudioAccessThread ------------------------
(* Instance of AudioAccessThread for TLC; the cfg files give the constants. *)
EXTENDS AudioAccessThread
=============================================================================
