--------------------------- MODULE MCAudioDevice ---------------------------
(* Instance of AudioDevice for TLC; the cfg files give the constants.      *)
EXTENDS AudioDevice
=============================================================================
