----------------------------- MODULE Lifecycle -----------------------------
(***************************************************************************)
(* What EventBus promises about publish calls and shutdown, without the    *)
(* packed word, the compare-and-swap loops and the Notify: a publish call  *)
(* is either inside the bus or not, a closed bus lets nobody in, and the   *)
(* drain that shutdown waits for is reported only when nobody is inside.   *)
(* DispatchGate is shown to implement this specification.                  *)
(***************************************************************************)
CONSTANT Publishers

VARIABLES
  accepting,   \* does the bus still admit publish calls?
  inside,      \* the publish calls that were admitted and have not finished
  outcome      \* what the drain phase of the one effective shutdown said

vars == <<accepting, inside, outcome>>

Init ==
  /\ accepting = TRUE
  /\ inside = {}
  /\ outcome = "pending"

Enter(p) ==
  /\ accepting
  /\ p \notin inside
  /\ inside' = inside \cup {p}
  /\ UNCHANGED <<accepting, outcome>>

Leave(p) ==
  /\ p \in inside
  /\ inside' = inside \ {p}
  /\ UNCHANGED <<accepting, outcome>>

Close ==
  /\ accepting
  /\ accepting' = FALSE
  /\ UNCHANGED <<inside, outcome>>

Drained ==
  /\ ~accepting
  /\ outcome = "pending"
  /\ inside = {}
  /\ outcome' = "drained"
  /\ UNCHANGED <<accepting, inside>>

\* The deadline passed, or the caller dropped the shutdown future.
GaveUp ==
  /\ ~accepting
  /\ outcome = "pending"
  /\ outcome' = "gave_up"
  /\ UNCHANGED <<accepting, inside>>

Next ==
  \/ \E p \in Publishers : Enter(p) \/ Leave(p)
  \/ Close
  \/ Drained
  \/ GaveUp

Spec == Init /\ [][Next]_vars

\* The drain is not only safe, it happens: a closed bus that is empty reports
\* it.  That publish calls end is their affair and not promised here.
FairSpec == Spec /\ WF_vars(Drained)
=============================================================================
