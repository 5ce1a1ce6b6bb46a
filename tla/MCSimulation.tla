---------------------------- MODULE MCSimulation ----------------------------
(* The instance of Simulation that TLC checks. *)
EXTENDS Simulation

Listener(mode, type, retries, deadLetter) ==
  [mode |-> mode, type |-> type, retries |-> retries, deadLetter |-> deadLetter]

\* Two listeners of two types or of one; each way to stop; a retry, or timeouts.
MCConfigs == {
  [types |-> 2, listeners |-> <<Listener("async", 1, 1, TRUE), Listener("sync", 2, 0, TRUE)>>,
   target |-> NoTarget, timeout |-> FALSE],
  [types |-> 2, listeners |-> <<Listener("async", 1, 0, TRUE), Listener("sync", 2, 0, TRUE)>>,
   target |-> 1, timeout |-> TRUE],
  [types |-> 1, listeners |-> <<Listener("async", 1, 0, FALSE), Listener("sync", 1, 0, TRUE)>>,
   target |-> NoTarget, timeout |-> TRUE]}
=============================================================================
