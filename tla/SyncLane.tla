------------------------------ MODULE SyncLane ------------------------------
(***************************************************************************)
(* Publish calls of several event types over a registry that changes: each *)
(* loads the snapshot once, queues at the sync gate of the slot it found   *)
(* there, and runs the slot's sync listeners under the gate.  A listener   *)
(* that fails is turned into a dead letter at once, still under the gate:  *)
(* the current snapshot is loaded and its dead-letter listeners run under  *)
(* the dead-letter gate.  Async listener tasks that failed for good enter  *)
(* the dead-letter gate by the same code.  On the way an async middleware  *)
(* may publish an event of the same or of another type and await that;     *)
(* what else middlewares do is left to Pipeline.                           *)
(***************************************************************************)
EXTENDS BusRegistry

CONSTANTS
  Publishers,   \* publish calls
  Failures,     \* async listener tasks that exhausted their retries
  EventTypes    \* what is published, dead letters apart

ASSUME ActorsAssumption ==
  NoOwner \notin Publishers \cup Failures /\ Publishers \cap Failures = {}

VARIABLES
  lanePc,     \* where each publish call or failed task is
  caller,     \* whose dead letter's middleware awaits a publish call
  slot,       \* of a publish call: its type, its gate, the listeners still to run
  letters,    \* the dead-letter listeners it has still to run
  laneOwner,  \* who holds each sync gate
  deadOwner,  \* who holds the dead-letter gate
  gone        \* history: the ids that were removed when the publish began, and
              \* when the dead letter at hand was created

laneVars == <<lanePc, caller, slot, letters, laneOwner, deadOwner, gone>>

Actors == Publishers \cup Failures
Gates  == 1 .. MaxId

NoSlot == [type |-> "none", rest |-> <<>>, gate |-> 0]

ActorsInit ==
  /\ lanePc = [a \in Actors |-> IF a \in Failures THEN "failing" ELSE "idle"]
  /\ caller = [p \in Publishers |-> NoOwner]
  /\ slot = [a \in Actors |-> NoSlot]
  /\ letters = [a \in Actors |-> <<>>]
  /\ laneOwner = [g \in Gates |-> NoOwner]
  /\ deadOwner = NoOwner
  /\ gone = [a \in Actors |-> [start |-> {}, letter |-> {}]]

LaneInit == Init /\ ActorsInit

Move(a, state) == lanePc' = [lanePc EXCEPT ![a] = state]

\* What a publish call finds in the snapshot; nothing without a sync listener.
FoundSlot(t) ==
  IF t \in DOMAIN snapshot.byType
  THEN [type |-> t,
        rest |-> snapshot.byType[t].syncListeners,
        gate |-> snapshot.byType[t].gate]
  ELSE NoSlot

Publish(p, t) ==
  /\ p \in Publishers
  /\ lanePc[p] = "idle"
  /\ ~stopped
  /\ FoundSlot(t).rest # <<>>
  /\ slot' = [slot EXCEPT ![p] = FoundSlot(t)]
  /\ gone' = [gone EXCEPT ![p].start = removed]
  /\ Move(p, "queued")
  /\ UNCHANGED <<letters, laneOwner, deadOwner>>

PublishStart(p, t) == Publish(p, t) /\ UNCHANGED caller

EnterLaneUngated(p) ==
  /\ lanePc[p] = "queued"
  /\ laneOwner' = [laneOwner EXCEPT ![slot[p].gate] = p]
  /\ Move(p, "running")
  /\ UNCHANGED <<caller, slot, letters, deadOwner, gone>>

\* slot.sync_gate.lock().await
EnterLane(p) ==
  /\ lanePc[p] = "queued"
  /\ laneOwner[slot[p].gate] = NoOwner
  /\ laneOwner' = [laneOwner EXCEPT ![slot[p].gate] = p]
  /\ Move(p, "running")
  /\ UNCHANGED <<caller, slot, letters, deadOwner, gone>>

\* The publish future is dropped while it waits for the gate.
LeaveQueue(p) ==
  /\ lanePc[p] = "queued"
  /\ Move(p, "done")
  /\ slot' = [slot EXCEPT ![p] = NoSlot]
  /\ gone' = [gone EXCEPT ![p].start = {}]
  /\ UNCHANGED <<caller, letters, laneOwner, deadOwner>>

\* The next sync listener runs, and it succeeds or fails.
RunListener(p) ==
  /\ lanePc[p] = "running"
  /\ slot[p].rest # <<>>
  /\ slot' = [slot EXCEPT ![p].rest = Tail(@)]
  /\ Move(p, "running") \/ Move(p, "failing")
  /\ UNCHANGED <<caller, letters, laneOwner, deadOwner, gone>>

LeaveLane(p) ==
  /\ lanePc[p] = "running"
  /\ slot[p].rest = <<>>
  /\ laneOwner' = [laneOwner EXCEPT ![slot[p].gate] = NoOwner]
  /\ slot' = [slot EXCEPT ![p] = NoSlot]
  /\ gone' = [gone EXCEPT ![p].start = {}]
  /\ Move(p, "done")
  /\ UNCHANGED <<caller, letters, deadOwner>>

\* Where an actor goes on after its dead letter was handled.
Resume(a) == IF a \in Failures THEN "done" ELSE "running"

\* finalize_listener_failure loads the snapshot of now, not of the publish.
Fail(a) ==
  /\ lanePc[a] = "failing"
  /\ gone' = [gone EXCEPT ![a].letter = removed]
  /\ letters' = [letters EXCEPT ![a] = snapshot.deadLetters]
  /\ Move(a, "letter")
  /\ UNCHANGED <<caller, slot, laneOwner, deadOwner>>

\* An async middleware on the dead letter publishes an event.
Republish(a, p, t) ==
  /\ lanePc[a] = "letter"
  /\ Publish(p, t)
  /\ caller' = [caller EXCEPT ![p] = a]

\* The middlewares are through when the publish calls they await have returned.
Accepted(a) == \A p \in Publishers : caller[p] = a => lanePc[p] = "done"

NoListener(a) ==
  /\ lanePc[a] = "letter"
  /\ Accepted(a)
  /\ letters[a] = <<>>
  /\ gone' = [gone EXCEPT ![a].letter = {}]
  /\ Move(a, Resume(a))
  /\ UNCHANGED <<caller, slot, letters, laneOwner, deadOwner>>

EnterDeadLane(a) ==
  /\ lanePc[a] = "letter"
  /\ Accepted(a)
  /\ letters[a] # <<>>
  /\ deadOwner = NoOwner
  /\ deadOwner' = a
  /\ Move(a, "delivering")
  /\ UNCHANGED <<caller, slot, letters, laneOwner, gone>>

\* The result of a dead-letter listener is only logged.
Deliver(a) ==
  /\ lanePc[a] = "delivering"
  /\ letters[a] # <<>>
  /\ letters' = [letters EXCEPT ![a] = Tail(@)]
  /\ UNCHANGED <<lanePc, caller, slot, laneOwner, deadOwner, gone>>

LeaveDeadLaneHolding(a) ==
  /\ lanePc[a] = "delivering"
  /\ letters[a] = <<>>
  /\ UNCHANGED deadOwner
  /\ gone' = [gone EXCEPT ![a].letter = {}]
  /\ Move(a, Resume(a))
  /\ UNCHANGED <<caller, slot, letters, laneOwner>>

LeaveDeadLane(a) ==
  /\ lanePc[a] = "delivering"
  /\ letters[a] = <<>>
  /\ deadOwner' = NoOwner
  /\ gone' = [gone EXCEPT ![a].letter = {}]
  /\ Move(a, Resume(a))
  /\ UNCHANGED <<caller, slot, letters, laneOwner>>

Proceed(a) ==
  \/ EnterLane(a) \/ RunListener(a) \/ LeaveLane(a)
  \/ Fail(a) \/ NoListener(a) \/ EnterDeadLane(a) \/ Deliver(a) \/ LeaveDeadLane(a)

LaneStep(a) ==
  /\ \/ LeaveQueue(a) \/ Proceed(a)
     \/ \E t \in EventTypes :
          PublishStart(a, t) \/ \E p \in Publishers : Republish(a, p, t)
  /\ UNCHANGED vars

\* How the registry changes meanwhile: each listener is added and removed once.
\* Guards and calls that are dropped, which take the registry through the same
\* changes, and stats are left to BusRegistry.
RegistryStep ==
  \/ \E c \in Callers :
       \/ \E what \in Additions : CallAdd(c, what)
       \/ \E id \in granted \ released : CallUnsubscribe(c, id)
       \/ UnderLock(c)
  \/ Stop

LaneSettled ==
  /\ stopped
  /\ \A c \in Callers : pc[c] = "idle"
  /\ \A a \in Actors : lanePc[a] \in {"idle", "done"}
  /\ UNCHANGED <<vars, laneVars>>

LaneNext ==
  \/ \E a \in Actors : LaneStep(a)
  \/ RegistryStep /\ UNCHANGED laneVars
  \/ LaneSettled

LaneSpec == LaneInit /\ [][LaneNext]_<<vars, laneVars>>

\* Handlers return and threads go on.  An actor is one call, so a gate is only
\* ever contended for finitely often and weak fairness is enough to get it.
LaneFairness == \A a \in Actors : WF_<<vars, laneVars>>(Proceed(a) /\ UNCHANGED vars)

LaneFairSpec == LaneSpec /\ LaneFairness

-----------------------------------------------------------------------------
(* Properties *)

InLane(p) ==
  p \in Publishers /\ lanePc[p] \in {"running", "failing", "letter", "delivering"}

\* What the gates promise.  A publish call in the lane owns the gate of its slot to
\* the end, so that two that overlap found different slots of the registry; and
\* dead letters are handled one at a time, whichever event type, publish call or
\* task they come from.
LanesExclusive ==
  /\ \A p \in Publishers : InLane(p) => laneOwner[slot[p].gate] = p
  /\ \A a \in Actors : lanePc[a] = "delivering" => deadOwner = a

\* A listener whose removal was complete before the publish began, or before
\* the failure of which the dead letter tells, is never run for it.
NoDeliveryAfterRemoval ==
  \A a \in Actors :
    /\ IdsOf(slot[a].rest) \cap gone[a].start = {}
    /\ IdsOf(letters[a]) \cap gone[a].letter = {}

\* Two publish calls with a listener in common queue at the same gate, also when the
\* slot was removed and made anew between them: no listener is in two lanes at once.
OneGatePerListener ==
  \A p, q \in Publishers :
    IdsOf(slot[p].rest) \cap IdsOf(slot[q].rest) # {} => slot[p].gate = slot[q].gate

\* a cannot go on before b does: it awaits the publish call b in a middleware on
\* its dead letter, or it queues for the sync gate that b holds.  For the
\* dead-letter gate nobody waits forever, as its holder waits for nothing.
WaitsFor(a, b) ==
  \/ b \in Publishers /\ caller[b] = a /\ lanePc[b] # "done"
  \/ lanePc[a] = "queued" /\ laneOwner[slot[a].gate] = b

Waiting == {a \in Actors : \E b \in Actors : WaitsFor(a, b)}

\* a waits for a circle of actors that wait for each other.
Stuck(a) ==
  \E S \in SUBSET Waiting : a \in S /\ \A b \in S : \E d \in S : WaitsFor(b, d)

\* Every publish call gets through the lane and through the dead letters it
\* causes, unless it waits for a circle.  Middlewares that publish under a gate
\* can close one: by the type of the failed publish itself, by way of another
\* type back to it, or when two failed publishes of different types each publish
\* the other's type.  Only a publish that is dropped then frees the others.  As
\* each actor is one call, this comes to rest for good.
PublishReturns ==
  <>[](\A a \in Actors : lanePc[a] \in {"idle", "done"} \/ Stuck(a))
=============================================================================
