----------------------------- MODULE Quiescence -----------------------------
(***************************************************************************)
(* What EventBus::shutdown promises to its caller, as a specification of   *)
(* nothing but the work in the bus: publish calls and async listener tasks.*)
(* Work enters an open bus, or is forked by a publish call at work; once   *)
(* shutdown has returned Ok there is no work, hence none can ever start.   *)
(* BusShutdown is shown to implement this specification.                   *)
(***************************************************************************)
CONSTANTS Publishers, Tasks

VARIABLES
  phase,   \* "open", "closing", or what the effective shutdown call returned
  calls,   \* the publish calls at work
  tasks    \* the async listener tasks at work

vars == <<phase, calls, tasks>>

Init == phase = "open" /\ calls = {} /\ tasks = {}

Publish(p) ==
  /\ phase = "open"
  /\ p \notin calls
  /\ calls' = calls \cup {p}
  /\ UNCHANGED <<phase, tasks>>

Fork(t) ==
  /\ calls # {}
  /\ t \notin tasks
  /\ tasks' = tasks \cup {t}
  /\ UNCHANGED <<phase, calls>>

Return(p) == p \in calls /\ calls' = calls \ {p} /\ UNCHANGED <<phase, tasks>>

End(t) == t \in tasks /\ tasks' = tasks \ {t} /\ UNCHANGED <<phase, calls>>

Close == phase = "open" /\ phase' = "closing" /\ UNCHANGED <<calls, tasks>>

ReturnOk ==
  /\ phase = "closing"
  /\ calls = {} /\ tasks = {}
  /\ phase' = "ok"
  /\ UNCHANGED <<calls, tasks>>

\* ShutdownTimeout, or the caller dropped the shutdown future.
ReturnEarly == phase = "closing" /\ phase' = "early" /\ UNCHANGED <<calls, tasks>>

Next ==
  \/ \E p \in Publishers : Publish(p) \/ Return(p)
  \/ \E t \in Tasks : Fork(t) \/ End(t)
  \/ Close \/ ReturnOk \/ ReturnEarly

Spec == Init /\ [][Next]_vars
=============================================================================
