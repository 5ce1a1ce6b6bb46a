--------------------------- MODULE MCDispatchGate ---------------------------
(* The instance of DispatchGate that TLC checks. *)
EXTENDS DispatchGate

CONSTANTS p1, p2, p3, s1, s2

MCPublishers == {p1, p2, p3}
MCShutters == {s1, s2}
=============================================================================
