--------------------------- MODULE MCBusShutdown ---------------------------
(* The instance of BusShutdown that TLC checks. *)
EXTENDS BusShutdown

CONSTANTS p1, p2, s1

MCPublishers == {p1, p2}
MCShutters == {s1}
=============================================================================
