----------------------------- MODULE MCTestBus -----------------------------
(* The instance of TestBus that TLC checks. *)
EXTENDS TestBus

CONSTANTS c1, c2, c3, e1, e2

MCCaptures == {c1, c2, c3}
MCEvents == {e1, e2}
=============================================================================
