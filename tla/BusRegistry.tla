---------------------------- MODULE BusRegistry ----------------------------
(***************************************************************************)
(* The registry under concurrent use: the async mutex around               *)
(* MutableRegistry, the ArcSwap snapshot that dispatch reads without it,   *)
(* the subscribe_* / add_*middleware* / unsubscribe / stats calls, the     *)
(* SubscriptionGuard that unsubscribes when dropped, and a shutdown that   *)
(* may stop the bus at any point of them.                                  *)
(***************************************************************************)
EXTENDS Registry

CONSTANTS
  Callers,       \* tasks that use the registry
  NoOwner,       \* the registry mutex is free
  MaxId,         \* bound of the model: how many subscription ids are drawn
  Additions      \* what callers may add: records [op, type, kind, priority]

ASSUME CallersAssumption == IsFiniteSet(Callers) /\ NoOwner \notin Callers
ASSUME MaxIdAssumption == MaxId \in Nat

\* A handler or middleware is synchronous or not, and a priority is an i32.
ASSUME AdditionsAssumption ==
  \A what \in Additions :
    /\ {"op", "kind"} \subseteq DOMAIN what
    /\ what.op \in {"listener", "typed", "global"}
    /\ what.kind \in {"sync", "async"}
    /\ what.op # "global" => "type" \in DOMAIN what
    /\ what.op = "listener" => "priority" \in DOMAIN what /\ what.priority \in Int

Ids == 1 .. MaxId

VARIABLES
  registry,   \* Inner.registry
  snapshot,   \* Inner.snapshot
  owner,      \* who holds the registry mutex
  stopped,    \* the closed bit of dispatch_state
  nextSub,    \* next_subscription_id
  pc,         \* where each caller is
  request,    \* what it is doing: [op, ..., id]
  granted,    \* ids of Subscriptions returned with Ok
  released,   \* ids somebody asked to remove: unsubscribe, or a guard dropped
  removed     \* ids whose removal returned Ok(true) or was done by a guard

regVars == <<registry, snapshot, owner>>
idVars  == <<nextSub, granted, released, removed>>
vars    == <<regVars, stopped, idVars, pc, request>>

NoRequest == [op |-> "none"]

Init ==
  /\ registry = NewRegistry
  /\ snapshot = RegistrySnapshotOf(NewRegistry)
  /\ owner = NoOwner
  /\ stopped = FALSE
  /\ nextSub = 1
  /\ pc = [c \in Callers |-> "idle"]
  /\ request = [c \in Callers |-> NoRequest]
  /\ granted = {} /\ released = {} /\ removed = {}

Goto(c, state) == pc' = [pc EXCEPT ![c] = state]
Ask(c, r) == request' = [request EXCEPT ![c] = r]
Finish(c) == Goto(c, "idle") /\ Ask(c, NoRequest)

-----------------------------------------------------------------------------
(* The calls, up to their first await: is_stopped, and the id if one is    *)
(* needed.  A stopped bus answers Err(Stopped) at once, which changes      *)
(* nothing.                                                                *)

CallAdd(c, what) ==
  /\ pc[c] = "idle"
  /\ ~stopped
  /\ nextSub <= MaxId
  /\ nextSub' = nextSub + 1
  /\ Ask(c, Put(what, "id", nextSub))
  /\ Goto(c, "lock")
  /\ UNCHANGED <<regVars, stopped, granted, released, removed>>

\* Subscription::unsubscribe and EventBus::unsubscribe, with an id once returned.
CallUnsubscribe(c, id) ==
  /\ pc[c] = "idle"
  /\ ~stopped
  /\ id \in granted
  /\ released' = released \cup {id}
  /\ Ask(c, [op |-> "unsubscribe", id |-> id])
  /\ Goto(c, "lock")
  /\ UNCHANGED <<regVars, stopped, nextSub, granted, removed>>

CallStats(c) ==
  /\ pc[c] = "idle"
  /\ ~stopped
  /\ Ask(c, [op |-> "stats"])
  /\ Goto(c, "lock")
  /\ UNCHANGED <<regVars, stopped, idVars>>

-----------------------------------------------------------------------------
(* Under the mutex *)

Acquire(c) ==
  /\ pc[c] = "lock"
  /\ owner = NoOwner
  /\ owner' = c
  /\ Goto(c, "recheck")
  /\ UNCHANGED <<registry, snapshot, stopped, idVars, request>>

\* The future is dropped while it waits for the mutex; the task that a guard
\* spawned is nobody's to drop.
Abandon(c) ==
  /\ pc[c] = "lock"
  /\ request[c].op # "drop"
  /\ Finish(c)
  /\ UNCHANGED <<regVars, stopped, idVars>>

RecheckForgotten(c) ==
  /\ pc[c] = "recheck"
  /\ Goto(c, "apply")
  /\ UNCHANGED <<regVars, stopped, idVars, request>>

Recheck(c) ==
  /\ pc[c] = "recheck"
  /\ IF stopped
     THEN owner' = NoOwner /\ Finish(c)
     ELSE owner' = owner /\ Goto(c, "apply") /\ UNCHANGED request
  /\ UNCHANGED <<registry, snapshot, stopped, idVars>>

Added(r) ==
  CASE r.op = "listener" -> AddListener(registry, r.type, Listener(r.id, r.kind, r.priority))
    [] r.op = "typed"    -> AddTypedMiddleware(registry, r.type, Middleware(r.id, r.kind))
    [] r.op = "global"   -> AddGlobalMiddleware(registry, Middleware(r.id, r.kind))

\* refresh_snapshot_locked, which unwinds before the store when snapshot panics.
Refresh == snapshot' = IF SnapshotPanics(registry') THEN snapshot ELSE RegistrySnapshotOf(registry')

ApplyAddStale(c) ==
  /\ pc[c] = "apply"
  /\ request[c].op \in {"listener", "typed", "global"}
  /\ registry' = Added(request[c])
  /\ snapshot' = IF request[c].op = "global" THEN snapshot ELSE RegistrySnapshotOf(registry')
  /\ granted' = granted \cup {request[c].id}
  /\ owner' = NoOwner
  /\ Finish(c)
  /\ UNCHANGED <<stopped, nextSub, released, removed>>

\* The caller gets its Subscription unless the refresh unwound.
ApplyAdd(c) ==
  /\ pc[c] = "apply"
  /\ request[c].op \in {"listener", "typed", "global"}
  /\ registry' = Added(request[c])
  /\ Refresh
  /\ granted' = IF SnapshotPanics(registry') THEN granted ELSE granted \cup {request[c].id}
  /\ owner' = NoOwner
  /\ Finish(c)
  /\ UNCHANGED <<stopped, nextSub, released, removed>>

TakeOutUnpublished(id) ==
  /\ registry' = RemoveSubscription(registry, id)
  /\ UNCHANGED snapshot
  /\ removed' = IF IsRegistered(registry, id) THEN removed \cup {id} ELSE removed

TakeOut(id) ==
  /\ registry' = RemoveSubscription(registry, id)
  /\ IF IsRegistered(registry, id) THEN Refresh ELSE UNCHANGED snapshot
  /\ removed' = IF IsRegistered(registry, id) /\ ~SnapshotPanics(registry')
                THEN removed \cup {id} ELSE removed

ApplyUnsubscribe(c) ==
  /\ pc[c] = "apply"
  /\ request[c].op \in {"unsubscribe", "drop"}
  /\ TakeOut(request[c].id)
  /\ owner' = NoOwner
  /\ Finish(c)
  /\ UNCHANGED <<stopped, nextSub, granted, released>>

ApplyStats(c) ==
  /\ pc[c] = "apply"
  /\ request[c].op = "stats"
  /\ owner' = NoOwner
  /\ Finish(c)
  /\ UNCHANGED <<registry, snapshot, stopped, idVars>>

-----------------------------------------------------------------------------
(* Drop of a SubscriptionGuard: try_unsubscribe_best_effort, and a spawned *)
(* unsubscribe if that did nothing                                         *)

\* The check of the closed bit, on a thread of a Tokio runtime or on another,
\* where Handle::try_current fails.
DropGuard(c, id, onRuntime) ==
  /\ pc[c] = "idle"
  /\ id \in granted \ released
  /\ released' = released \cup {id}
  /\ Ask(c, [op |-> "drop", id |-> id, onRuntime |-> onRuntime])
  /\ Goto(c, IF stopped THEN "fallback" ELSE "try_lock")
  /\ UNCHANGED <<regVars, stopped, nextSub, granted, removed>>

\* registry.try_lock(), which does not wait.
TryLock(c) ==
  /\ pc[c] = "try_lock"
  /\ IF owner = NoOwner
     THEN owner' = c /\ Goto(c, "try_apply")
     ELSE owner' = owner /\ Goto(c, "fallback")
  /\ UNCHANGED <<registry, snapshot, stopped, idVars, request>>

\* The closed bit was read before try_lock and is not read again.
TryApply(c) ==
  /\ pc[c] = "try_apply"
  /\ TakeOut(request[c].id)
  /\ owner' = NoOwner
  /\ IF IsRegistered(registry, request[c].id)
     THEN Finish(c) ELSE Goto(c, "fallback") /\ UNCHANGED request
  /\ UNCHANGED <<stopped, nextSub, granted, released>>

FallbackNever(c) ==
  /\ pc[c] = "fallback"
  /\ Finish(c)
  /\ UNCHANGED <<regVars, stopped, idVars>>

\* The spawned task enters unsubscribe; without a runtime there is no task.
Fallback(c) ==
  /\ pc[c] = "fallback"
  /\ IF request[c].onRuntime /\ ~stopped
     THEN Goto(c, "lock") /\ UNCHANGED request
     ELSE Finish(c)
  /\ UNCHANGED <<regVars, stopped, idVars>>

-----------------------------------------------------------------------------

\* EventBus::shutdown closes dispatch_state without the registry mutex.
Stop ==
  /\ ~stopped
  /\ stopped' = TRUE
  /\ UNCHANGED <<regVars, idVars, pc, request>>

UnderLock(c) ==
  \/ Acquire(c) \/ Recheck(c) \/ ApplyAdd(c) \/ ApplyUnsubscribe(c) \/ ApplyStats(c)

Step(c) == UnderLock(c) \/ TryLock(c) \/ TryApply(c) \/ Fallback(c)

Call(c) ==
  \/ \E what \in Additions : CallAdd(c, what)
  \/ \E id \in Ids : CallUnsubscribe(c, id) \/ \E onRuntime \in BOOLEAN : DropGuard(c, id, onRuntime)
  \/ CallStats(c)
  \/ Abandon(c)

\* A stopped bus that nobody uses any more.
Settled == stopped /\ (\A c \in Callers : pc[c] = "idle") /\ UNCHANGED vars

Next ==
  \/ \E c \in Callers : Call(c) \/ Step(c)
  \/ Stop
  \/ Settled

Spec == Init /\ [][Next]_vars

\* A caller that is past its first check goes on; the mutex is a tokio Mutex,
\* which serves its waiters in turn, hence strong fairness of Acquire.
FairSpec ==
  /\ Spec
  /\ \A c \in Callers : WF_vars(Step(c)) /\ SF_vars(Acquire(c))

-----------------------------------------------------------------------------
(* Properties *)

IdsOf(seq) == {seq[i].id : i \in DOMAIN seq}

\* Every id that dispatch can reach through the published snapshot.
Published ==
  IdsOf(snapshot.globals) \cup IdsOf(snapshot.deadLetters)
    \cup UNION {IdsOf(snapshot.byType[t].syncListeners)
                \cup IdsOf(snapshot.byType[t].asyncListeners)
                \cup IdsOf(snapshot.byType[t].middlewares) : t \in DOMAIN snapshot.byType}

\* The index and the entries agree: each indexed id is in the collection the
\* index names, no entry is without an index, and no vacant slot stays behind.
Located(id) ==
  LET at == registry.index[id] IN
    CASE at[1] = "global" -> id \in IdsOf(registry.globals)
      [] at[1] = "typed"  ->
           at[2] \in DOMAIN registry.slots /\ id \in IdsOf(registry.slots[at[2]].middlewares)
      [] at[1] = "listener" /\ at[2] = DeadLetter ->
           \E l \in registry.deadLetters : l.id = id
      [] at[1] = "listener" /\ at[2] # DeadLetter ->
           at[2] \in DOMAIN registry.slots /\ \E l \in registry.slots[at[2]].listeners : l.id = id

IndexExact ==
  /\ \A id \in DOMAIN registry.index : Located(id)
  /\ owner = NoOwner => Published \subseteq DOMAIN registry.index
  /\ \A t \in DOMAIN registry.slots : ~Vacant(registry.slots[t])

\* What publish reads is right at every moment: whenever nobody is inside the
\* registry mutex it is what the registry holds; a Subscription that was granted
\* stays in force until somebody asks to remove it, also across a shutdown; and
\* what was removed, or refused, is not there.
SnapshotSound ==
  /\ owner = NoOwner => snapshot = RegistrySnapshotOf(registry)
  /\ granted \ released \subseteq Published
  /\ Published \cap (removed \cup (Ids \ granted)) = {}

\* The calls past their last look at the closed bit: those that took it under
\* the mutex, one at a time, and any number of dropped guards that took it before.
Rechecked == {c \in Callers : pc[c] = "apply"}
Committed == Rechecked \cup {c \in Callers : pc[c] \in {"try_lock", "try_apply"}}

\* After the stop the routes change only by calls that had looked before it, each
\* of them at most once, and no call comes to be one of them.  Most of these are
\* guards that withdraw a listener: at most one call can still grant a Subscription.
StopEndsChanges ==
  [][stopped =>
       /\ Committed' \subseteq Committed /\ Rechecked' \subseteq Rechecked
       /\ snapshot' # snapshot => Committed' # Committed
       /\ granted' # granted => Rechecked' = {}]_vars

ListenersOf(type) ==
  IF type = DeadLetter THEN IdsOf(snapshot.deadLetters)
  ELSE IF type \in DOMAIN snapshot.byType
  THEN IdsOf(snapshot.byType[type].syncListeners) \cup IdsOf(snapshot.byType[type].asyncListeners)
  ELSE {}

\* What stats lists under each event type is what a publish of it would run:
\* neither vacant slots, nor middlewares, nor a listener under another type.
StatsMatchDispatch ==
  owner = NoOwner =>
    LET listed == SubscriptionsByEvent(registry)
    IN /\ \A t \in DOMAIN listed : listed[t] = ListenersOf(t) /\ listed[t] # {}
       /\ \A t \in DOMAIN snapshot.byType \ {DeadLetter} :
            ListenersOf(t) # {} => t \in DOMAIN listed
       /\ ListenersOf(DeadLetter) # {} => DeadLetter \in DOMAIN listed

\* "Dead-letter listeners must be synchronous": the registry never holds one
\* that the snapshot cannot represent.
DeadLettersAreSync == OfKind(registry.deadLetters, "async") = {}

\* "Automatically unsubscribes when dropped": once a guard is dropped on a
\* thread of a runtime its listener is withdrawn, by the best-effort path or by
\* the spawned task, unless the bus stops first.
DroppedGuardRemoves ==
  \A id \in Ids :
    (\E c \in Callers : request[c] = [op |-> "drop", id |-> id, onRuntime |-> TRUE])
      ~> stopped \/ id \notin Published
=============================================================================
