----------------------------- MODULE MCSyncLane -----------------------------
(* The instance of SyncLane that TLC checks, from two initial states: the  *)
(* bus with one event type whose listeners come and go, and the bus with   *)
(* two event types whose listeners stay.                                   *)
EXTENDS SyncLane

CONSTANTS c1, p1, p2, p3, p4, f1, E, F

VARIABLE changing   \* do callers change the registry

MCCallers == {c1}
MCPublishers == {p1, p2, p3, p4}
MCFailures == {f1}
MCEventTypes == {E, F}

SyncListener(t) == [op |-> "listener", type |-> t, kind |-> "sync", priority |-> 0]

\* Two kinds of listener: one on the event type, one on dead letters.
MCAdditions == {SyncListener(t) : t \in {E, DeadLetter}}

\* ActorsInit, with some calls and tasks that are over already.
ActorsInitBut(over) ==
  /\ lanePc = [a \in Actors |-> IF a \in over THEN "done"
                               ELSE IF a \in Failures THEN "failing" ELSE "idle"]
  /\ caller = [p \in Publishers |-> NoOwner]
  /\ slot = [a \in Actors |-> NoSlot] /\ letters = [a \in Actors |-> <<>>]
  /\ laneOwner = [g \in Gates |-> NoOwner] /\ deadOwner = NoOwner
  /\ gone = [a \in Actors |-> [start |-> {}, letter |-> {}]]

Callable ==
  /\ snapshot = RegistrySnapshotOf(registry)
  /\ owner = NoOwner /\ stopped = FALSE
  /\ pc = [c \in Callers |-> "idle"] /\ request = [c \in Callers |-> NoRequest]

\* A dead-letter listener has come and gone, and nothing else is subscribed yet;
\* there are two publish calls and a failing task.
ChangingInit ==
  /\ changing = TRUE
  /\ registry = RemoveSubscription(
       AddListener(NewRegistry, DeadLetter, Listener(1, "sync", 0)), 1)
  /\ nextSub = 2 /\ granted = {1} /\ released = {1} /\ removed = {1}
  /\ Callable /\ ActorsInitBut({p3, p4})

\* A sync listener is subscribed to each event type and one to dead letters; there
\* are four publish calls.
StayingInit ==
  /\ changing = FALSE
  /\ registry = AddListener(AddListener(AddListener(NewRegistry,
       E, Listener(1, "sync", 0)), F, Listener(2, "sync", 0)), DeadLetter, Listener(3, "sync", 0))
  /\ nextSub = 4 /\ granted = 1 .. 3 /\ released = {} /\ removed = {}
  /\ Callable /\ ActorsInitBut(Failures)

MCNext ==
  /\ LaneNext
  /\ changing \/ UNCHANGED <<registry, pc>>
  /\ UNCHANGED changing

MCSpec ==
  (ChangingInit \/ StayingInit) /\ [][MCNext]_<<vars, laneVars, changing>> /\ LaneFairness
=============================================================================
