------------------------------ MODULE MCSaver ------------------------------
(* Instance of Saver for TLC; the cfg files give the other constants.      *)
EXTENDS Saver

Packet(t) == [dts |-> t, samples |-> 2]

(* Two tracks: one in order, one with a packet that goes back and packets  *)
(* without a time.                                                         *)
MCFilms ==
  {<< <<Packet(0), Packet(2), Packet(5), Packet(9), Packet(20)>>,
      <<Packet(1), Packet(NoTime), Packet(2), Packet(NoTime), Packet(8)>> >>}

MCSteps == {-1, 0, 1, 3}
MCLeads == {0, 3}
=============================================================================
