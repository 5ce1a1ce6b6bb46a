--------------------------- MODULE MCBusRegistry ---------------------------
(* The instance of BusRegistry that TLC checks. *)
EXTENDS BusRegistry

CONSTANTS c1, c2, E

MCCallers == {c1, c2}

Sync(type, priority) == [op |-> "listener", type |-> type, kind |-> "sync", priority |-> priority]
Async(type) == [op |-> "listener", type |-> type, kind |-> "async", priority |-> 0]
Typed(type, kind) == [op |-> "typed", type |-> type, kind |-> kind]
Global(kind) == [op |-> "global", kind |-> kind]

\* Everything the API can add, on one event type and on DeadLetter.
MCAdditions ==
  {Sync(E, 0), Sync(E, 1), Async(E), Typed(E, "sync"), Typed(E, "async"),
   Global("sync"), Global("async"), Sync(DeadLetter, 0)}

\* subscribe::<DeadLetter, _, _>(h) with an asynchronous h type-checks too.
MCAsyncDeadLetter == {Sync(E, 0), Async(DeadLetter)}
=============================================================================
