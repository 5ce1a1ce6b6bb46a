------------------------------ MODULE Registry ------------------------------
(***************************************************************************)
(* MutableRegistry as operators: a registry is a record, an operation maps *)
(* it to the next one, and RegistrySnapshotOf builds the immutable view    *)
(* that dispatch reads.  A Vec of listeners is a set, because every use    *)
(* of it sorts by a total order; a Vec of middlewares is a sequence,       *)
(* because middlewares run in the order of the Vec.  Handler and           *)
(* middleware closures, and names, are left out.                           *)
(***************************************************************************)
EXTENDS Integers, FiniteSets, Sequences, SequencesExt

CONSTANT DeadLetter   \* TypeId::of::<DeadLetter>()

\* A listener or a middleware: its id is its registration order too.
Listener(id, kind, priority) == [id |-> id, kind |-> kind, priority |-> priority]
Middleware(id, kind) == [id |-> id, kind |-> kind]

\* nextGate numbers the Arc<Mutex<()>> that the slots allocate.
NewRegistry ==
  [slots |-> <<>>, deadLetters |-> {}, globals |-> <<>>, index |-> <<>>, nextGate |-> 1]

EmptySlot(gate) == [listeners |-> {}, middlewares |-> <<>>, gate |-> gate]

-----------------------------------------------------------------------------
(* Functions with a domain that grows and shrinks, as HashMap has *)

Put(f, k, v) == [x \in DOMAIN f \cup {k} |-> IF x = k THEN v ELSE f[x]]
Without(f, k) == [x \in DOMAIN f \ {k} |-> f[x]]

-----------------------------------------------------------------------------
(* Adding *)

EnsureSlot(reg, type) ==
  IF type \in DOMAIN reg.slots THEN reg
  ELSE [reg EXCEPT !.slots = Put(@, type, EmptySlot(reg.nextGate)), !.nextGate = @ + 1]

\* Each listener that comes replaces the gate of its slot.
AddListenerNewGate(reg, type, listener) ==
  LET indexed == [reg EXCEPT !.index = Put(@, listener.id, <<"listener", type>>)]
      slot == EnsureSlot(reg, type).slots[type]
  IN IF type = DeadLetter
     THEN [indexed EXCEPT !.deadLetters = @ \cup {listener}]
     ELSE [indexed EXCEPT
             !.slots = Put(@, type, [slot EXCEPT !.listeners = @ \cup {listener},
                                                 !.gate = reg.nextGate]),
             !.nextGate = @ + 1]

AddListener(reg, type, listener) ==
  LET indexed == [reg EXCEPT !.index = Put(@, listener.id, <<"listener", type>>)]
  IN IF type = DeadLetter
     THEN [indexed EXCEPT !.deadLetters = @ \cup {listener}]
     ELSE [EnsureSlot(indexed, type) EXCEPT !.slots[type].listeners = @ \cup {listener}]

AddTypedMiddleware(reg, type, mw) ==
  [EnsureSlot(reg, type) EXCEPT
     !.slots[type].middlewares = Append(@, mw),
     !.index = Put(@, mw.id, <<"typed", type>>)]

AddGlobalMiddleware(reg, mw) ==
  [reg EXCEPT !.globals = Append(@, mw), !.index = Put(@, mw.id, <<"global">>)]

-----------------------------------------------------------------------------
(* remove_subscription *)

WithoutListener(listeners, id) == {l \in listeners : l.id # id}

\* Vec::retain: what is left keeps its order.
WithoutMiddleware(mws, id) ==
  LET kept[n \in 0 .. Len(mws)] ==
        IF n = 0 THEN <<>>
        ELSE IF mws[n].id = id THEN kept[n - 1] ELSE Append(kept[n - 1], mws[n])
  IN kept[Len(mws)]

Vacant(slot) == slot.listeners = {} /\ slot.middlewares = <<>>

\* A slot that lost its last entry goes, and its sync gate goes with it.
DropIfVacant(reg, type) ==
  IF Vacant(reg.slots[type]) THEN [reg EXCEPT !.slots = Without(@, type)] ELSE reg

RemoveIndexKept(reg, id) ==
  IF id \notin DOMAIN reg.index THEN reg
  ELSE LET at == reg.index[id] IN
    CASE at[1] = "global" -> [reg EXCEPT !.globals = WithoutMiddleware(@, id)]
      [] at[1] = "listener" /\ at[2] = DeadLetter ->
           [reg EXCEPT !.deadLetters = WithoutListener(@, id)]
      [] at[1] = "listener" /\ at[2] # DeadLetter ->
           DropIfVacant([reg EXCEPT !.slots[at[2]].listeners = WithoutListener(@, id)], at[2])
      [] at[1] = "typed" ->
           DropIfVacant([reg EXCEPT !.slots[at[2]].middlewares = WithoutMiddleware(@, id)], at[2])

\* The index says where the entry is; every entry of the index is present there.
RemoveSubscription(reg, id) ==
  IF id \notin DOMAIN reg.index THEN reg
  ELSE LET at == reg.index[id]
           rest == [reg EXCEPT !.index = Without(@, id)]
       IN CASE at[1] = "global" -> [rest EXCEPT !.globals = WithoutMiddleware(@, id)]
            [] at[1] = "listener" /\ at[2] = DeadLetter ->
                 [rest EXCEPT !.deadLetters = WithoutListener(@, id)]
            [] at[1] = "listener" /\ at[2] # DeadLetter ->
                 DropIfVacant(
                   [rest EXCEPT !.slots[at[2]].listeners = WithoutListener(@, id)], at[2])
            [] at[1] = "typed" ->
                 DropIfVacant(
                   [rest EXCEPT !.slots[at[2]].middlewares = WithoutMiddleware(@, id)], at[2])

\* What remove_subscription returns.
IsRegistered(reg, id) == id \in DOMAIN reg.index

-----------------------------------------------------------------------------
(* snapshot *)

ByRegistration(a, b) == a.id < b.id

ByPriority(a, b) == a.priority > b.priority \/ (a.priority = b.priority /\ a.id < b.id)

\* sort_by, where no two entries compare equal.
Sorted(entries, Before(_, _)) ==
  CHOOSE seq \in SetToSeqs(entries) :
    \A i, j \in DOMAIN seq : i < j => Before(seq[i], seq[j])

OfKind(entries, kind) == {e \in entries : e.kind = kind}

SomeAsync(mws) == \E i \in DOMAIN mws : mws[i].kind = "async"

SnapshotSlot(slot) ==
  [syncListeners  |-> Sorted(OfKind(slot.listeners, "sync"), ByPriority),
   asyncListeners |-> Sorted(OfKind(slot.listeners, "async"), ByRegistration),
   middlewares    |-> slot.middlewares,
   hasAsyncMiddleware |-> SomeAsync(slot.middlewares),
   gate           |-> slot.gate]

\* dead_letter is None, here <<>>, without a dead-letter listener.
RegistrySnapshotOf(reg) ==
  [byType      |-> [t \in DOMAIN reg.slots |-> SnapshotSlot(reg.slots[t])],
   deadLetters |-> Sorted(reg.deadLetters, ByPriority),
   globals     |-> reg.globals,
   globalHasAsync |-> SomeAsync(reg.globals)]

\* SyncListenerEntry::from panics on an async listener, and snapshot converts
\* every dead-letter listener with it.
SnapshotPanics(reg) == OfKind(reg.deadLetters, "async") # {}

-----------------------------------------------------------------------------
(* stats: the listeners by event type; middlewares are not counted *)

SubscriptionsOfSlots(reg) ==
  [t \in DOMAIN reg.slots |-> {l.id : l \in reg.slots[t].listeners}]

SubscriptionsByEvent(reg) ==
  LET listening == {t \in DOMAIN reg.slots : reg.slots[t].listeners # {}}
      byType == [t \in listening |-> {l.id : l \in reg.slots[t].listeners}]
  IN IF reg.deadLetters = {} THEN byType
     ELSE Put(byType, DeadLetter, {l.id : l \in reg.deadLetters})

-----------------------------------------------------------------------------
(* The registries that calls can make                                      *)

MiddlewareRecords == [id : Nat, kind : {"sync", "async"}]

\* Listeners that a Vec can hold: finitely many, told apart by their ids.
ListenersOK(L) ==
  /\ IsFiniteSet(L)
  /\ \A l \in L : l.id \in Nat /\ l.priority \in Int /\ l.kind \in {"sync", "async"}
  /\ \A l, m \in L : l.id = m.id => l = m

\* A Vec that has every entry, and each once.
Lists(seq, entries) ==
  /\ seq \in Seq(entries)
  /\ entries = {seq[i] : i \in DOMAIN seq}
  /\ \A i, j \in DOMAIN seq : seq[i] = seq[j] => i = j

\* Middlewares in Vecs, listeners with ids of their own that sorting keeps, no
\* listener of dead letters among those of a slot.
ProperRegistry(reg) ==
  /\ reg.globals \in Seq(MiddlewareRecords)
  /\ ListenersOK(reg.deadLetters) /\ ~SnapshotPanics(reg)
  /\ Lists(Sorted(reg.deadLetters, ByPriority), reg.deadLetters)
  /\ \A t \in DOMAIN reg.slots :
       LET listeners == reg.slots[t].listeners
       IN /\ reg.slots[t].middlewares \in Seq(MiddlewareRecords)
          /\ ListenersOK(listeners)
          /\ t = DeadLetter => listeners = {}
          /\ Lists(Sorted(OfKind(listeners, "sync"), ByPriority), OfKind(listeners, "sync"))
          /\ Lists(Sorted(OfKind(listeners, "async"), ByRegistration), OfKind(listeners, "async"))
=============================================================================
