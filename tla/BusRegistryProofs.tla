-------------------------- MODULE BusRegistryProofs --------------------------
(***************************************************************************)
(* Proofs about BusRegistry and about SyncLane, which runs over it, for    *)
(* any number of callers, publish calls, failed tasks and ids and any set  *)
(* of additions.  Of the registry: who is inside the mutex; that only a    *)
(* call that had looked before the stop changes a stopped bus, and once;   *)
(* that every slot, also one made again, has a gate of its own number; and *)
(* that the index, the entries, the snapshot and what the callers were     *)
(* told agree at every moment (Bookkeeping).  Of the lanes: the gates      *)
(* exclude, as those in use are the ones the registry has numbered, so     *)
(* that a publish call that overlaps the removal and the re-creation of    *)
(* its slot holds a gate that nobody else is given; and what was removed   *)
(* is not run, as what a publish call finds is published, which by the     *)
(* books nothing is that was removed, and only gets less.                  *)
(***************************************************************************)
EXTENDS SyncLane, FiniteSetTheorems, SequenceTheorems, TLAPS

(* The mutex is held by whoever is past it.                                *)
Inside == {"recheck", "apply", "try_apply"}

Mutex ==
  /\ owner \in Callers \cup {NoOwner}
  /\ DOMAIN pc = Callers
  /\ \A c \in Callers : pc[c] \in Inside <=> owner = c

\* At first nobody is.
LEMMA MutexInit == Init => Mutex
BY CallersAssumption DEF Init, Mutex, Inside

\* Every step keeps the mutex.
LEMMA MutexStep == Mutex /\ [Next]_vars => Mutex'
<1> SUFFICES ASSUME Mutex, [Next]_vars PROVE Mutex'
  OBVIOUS
<1> USE CallersAssumption DEF Mutex, Inside, regVars, Goto, Finish
<1>1. ASSUME NEW c \in Callers, Call(c) PROVE Mutex'
  <2>1. ASSUME NEW what \in Additions, CallAdd(c, what) PROVE Mutex'
    BY <2>1 DEF CallAdd
  <2>2. ASSUME NEW id \in Ids, CallUnsubscribe(c, id) PROVE Mutex'
    BY <2>2 DEF CallUnsubscribe
  <2>3. ASSUME NEW id \in Ids, NEW onRuntime \in BOOLEAN, DropGuard(c, id, onRuntime)
        PROVE  Mutex'
    BY <2>3 DEF DropGuard
  <2>4. CASE CallStats(c) \/ Abandon(c)
    BY <2>4 DEF CallStats, Abandon
  <2> QED BY <1>1, <2>1, <2>2, <2>3, <2>4 DEF Call
<1>2. ASSUME NEW c \in Callers, Step(c) PROVE Mutex'
  BY <1>2 DEF Step, UnderLock, Acquire, Recheck, ApplyAdd, ApplyUnsubscribe, ApplyStats,
     TryLock, TryApply, Fallback
<1>3. CASE Stop \/ UNCHANGED vars
  BY <1>3 DEF Stop, vars
<1> QED
  BY <1>1, <1>2, <1>3 DEF Next, Settled

\* One caller at a time is inside.
THEOREM MutexHolds == Spec => []Mutex
BY MutexInit, MutexStep, PTL DEF Spec

\* After the stop only calls that had looked before it change the routes, each
\* of them at most once, and at most one grants a subscription.
THEOREM ChangesEnd == Spec => StopEndsChanges
<1>1. ASSUME Mutex, [Next]_vars
      PROVE  [stopped =>
                /\ Committed' \subseteq Committed /\ Rechecked' \subseteq Rechecked
                /\ snapshot' # snapshot => Committed' # Committed
                /\ granted' # granted => Rechecked' = {}]_vars
  <2> DEFINE Calm == /\ Committed' \subseteq Committed /\ Rechecked' \subseteq Rechecked
                     /\ snapshot' = snapshot /\ granted' = granted
  <2> SUFFICES ASSUME Next, stopped
               PROVE  /\ Committed' \subseteq Committed /\ Rechecked' \subseteq Rechecked
                      /\ snapshot' # snapshot => Committed' # Committed
                      /\ granted' # granted => Rechecked' = {}
    BY <1>1
  <2> USE <1>1, CallersAssumption DEF Mutex, Inside, regVars, idVars, Goto, Finish
  <2>1. ASSUME NEW c \in Callers, Call(c) PROVE Calm
    BY <2>1 DEF Call, CallAdd, CallUnsubscribe, DropGuard, CallStats, Abandon, Committed, Rechecked
  <2>2. ASSUME NEW c \in Callers,
               Acquire(c) \/ Recheck(c) \/ ApplyStats(c) \/ TryLock(c) \/ Fallback(c)
        PROVE  Calm
    <3>1. CASE Acquire(c) \/ ApplyStats(c)
      BY <3>1 DEF Acquire, ApplyStats, Committed, Rechecked
    <3>2. CASE Recheck(c)
      <4>1. pc' = [pc EXCEPT ![c] = "idle"] /\ UNCHANGED <<snapshot, granted>>
        BY <3>2 DEF Recheck
      <4> QED BY <4>1 DEF Committed, Rechecked
    <3>3. CASE TryLock(c)
      BY <3>3 DEF TryLock, Committed, Rechecked
    <3>4. CASE Fallback(c)
      BY <3>4 DEF Fallback, Committed, Rechecked
    <3> QED BY <2>2, <3>1, <3>2, <3>3, <3>4
  <2>3. Stop \/ UNCHANGED vars => Calm
    BY DEF Stop, vars, Committed, Rechecked
  <2>4. ASSUME NEW c \in Callers, ApplyAdd(c)
        PROVE  Committed' = Committed \ {c} /\ c \in Committed /\ Rechecked' = {}
    BY <2>4 DEF ApplyAdd, Committed, Rechecked
  <2>5. ASSUME NEW c \in Callers, ApplyUnsubscribe(c) \/ TryApply(c)
        PROVE  /\ Committed' = Committed \ {c} /\ c \in Committed
               /\ Rechecked' \subseteq Rechecked /\ granted' = granted
    BY <2>5 DEF ApplyUnsubscribe, TryApply, Committed, Rechecked
  <2> QED
    BY <2>1, <2>2, <2>3, <2>4, <2>5 DEF Next, Step, UnderLock, Settled
<1> QED
  BY <1>1, MutexHolds, PTL DEF Spec, StopEndsChanges

-----------------------------------------------------------------------------
(* Gates                                                                   *)

Fields     == {"slots", "deadLetters", "globals", "index", "nextGate"}
SlotFields == {"listeners", "middlewares", "gate"}

GatesBelow(slots, n) ==
  \A t \in DOMAIN slots : DOMAIN slots[t] = SlotFields /\ slots[t].gate \in 1 .. n - 1

(* Every slot has a gate that was numbered when the slot was made.         *)
RegistryOK(reg) ==
  /\ DOMAIN reg = Fields
  /\ reg.nextGate \in Nat \ {0}
  /\ GatesBelow(reg.slots, reg.nextGate)
  /\ \A id \in DOMAIN reg.index : reg.index[id][1] \in {"global", "listener", "typed"}

\* Putting an entry in the index changes no slot.
LEMMA IndexKeeps ==
  ASSUME NEW reg, RegistryOK(reg), NEW id, NEW at, at[1] \in {"global", "listener", "typed"}
  PROVE  RegistryOK([reg EXCEPT !.index = Put(@, id, at)])
BY DEF RegistryOK, Fields, GatesBelow, Put

\* EnsureSlot takes a gate for a slot it makes.
LEMMA EnsureKeeps ==
  ASSUME NEW reg, RegistryOK(reg), NEW type
  PROVE  /\ RegistryOK(EnsureSlot(reg, type))
         /\ EnsureSlot(reg, type).nextGate \in {reg.nextGate, reg.nextGate + 1}
         /\ EnsureSlot(reg, type).index = reg.index
<1>1. CASE type \in DOMAIN reg.slots
  BY <1>1 DEF EnsureSlot
<1>2. CASE type \notin DOMAIN reg.slots
  <2> DEFINE new == EnsureSlot(reg, type)
  <2>1. /\ DOMAIN new = Fields
        /\ new.slots = Put(reg.slots, type, EmptySlot(reg.nextGate))
        /\ new.nextGate = reg.nextGate + 1
        /\ new.index = reg.index
    BY <1>2 DEF EnsureSlot, RegistryOK, Fields
  <2> HIDE DEF new
  <2>2. GatesBelow(new.slots, new.nextGate)
    BY <2>1 DEF RegistryOK, GatesBelow, Put, EmptySlot, SlotFields
  <2> QED BY <2>1, <2>2 DEF RegistryOK, new
<1> QED
  BY <1>1, <1>2

\* Dropping a slot leaves the others.
LEMMA DropKeeps ==
  ASSUME NEW reg, RegistryOK(reg), NEW type
  PROVE  /\ RegistryOK(DropIfVacant(reg, type))
         /\ DropIfVacant(reg, type).nextGate = reg.nextGate
BY DEF DropIfVacant, RegistryOK, Fields, GatesBelow, Without

\* What is added takes at most one new gate.
LEMMA AddKeeps ==
  ASSUME RegistryOK(registry), NEW r, r.op \in {"listener", "typed", "global"}
  PROVE  /\ RegistryOK(Added(r))
         /\ Added(r).nextGate \in {registry.nextGate, registry.nextGate + 1}
<1>1. CASE r.op = "listener"
  <2> DEFINE l == Listener(r.id, r.kind, r.priority)
             at == <<"listener", r.type>>
             indexed == [registry EXCEPT !.index = Put(@, l.id, at)]
             slotted == EnsureSlot(indexed, r.type)
  <2>1. RegistryOK(indexed)
    BY IndexKeeps
  <2>2. indexed.nextGate = registry.nextGate
    BY DEF RegistryOK, Fields
  <2>3. RegistryOK(slotted) /\ slotted.nextGate \in {registry.nextGate, registry.nextGate + 1}
    BY <2>1, <2>2, EnsureKeeps
  <2>4. Added(r) = IF r.type = DeadLetter
                   THEN [indexed EXCEPT !.deadLetters = @ \cup {l}]
                   ELSE [slotted EXCEPT !.slots[r.type].listeners = @ \cup {l}]
    BY <1>1 DEF Added, AddListener
  <2> HIDE DEF indexed, slotted
  <2>5. CASE r.type = DeadLetter
    BY <2>1, <2>2, <2>4, <2>5 DEF RegistryOK, Fields, GatesBelow
  <2>6. CASE r.type # DeadLetter
    <3> DEFINE x == slotted.slots[r.type].listeners \cup {l}
    <3>1. Added(r) = [slotted EXCEPT !.slots[r.type].listeners = x]
      BY <2>4, <2>6
    <3> HIDE DEF x
    <3> QED BY <2>3, <3>1 DEF RegistryOK, Fields, GatesBelow, SlotFields
  <2> QED BY <2>5, <2>6
<1>2. CASE r.op = "typed"
  <2> DEFINE mw == Middleware(r.id, r.kind)
             at == <<"typed", r.type>>
             slotted == EnsureSlot(registry, r.type)
             x == Append(slotted.slots[r.type].middlewares, mw)
             filled == [slotted EXCEPT !.slots[r.type].middlewares = x]
  <2>1. RegistryOK(slotted) /\ slotted.nextGate \in {registry.nextGate, registry.nextGate + 1}
    BY EnsureKeeps
  <2>2. Added(r) = [slotted EXCEPT !.slots[r.type].middlewares = x, !.index = Put(@, mw.id, at)]
    BY <1>2 DEF Added, AddTypedMiddleware
  <2> HIDE DEF slotted, x
  <2>3. RegistryOK(filled) /\ filled.nextGate = slotted.nextGate
    BY <2>1 DEF RegistryOK, Fields, GatesBelow, SlotFields
  <2>4. Added(r) = [filled EXCEPT !.index = Put(@, mw.id, at)]
    BY <2>1, <2>2 DEF RegistryOK, Fields
  <2> HIDE DEF filled
  <2>5. RegistryOK(Added(r))
    BY <2>3, <2>4, IndexKeeps
  <2>6. Added(r).nextGate = filled.nextGate
    BY <2>3, <2>4 DEF RegistryOK, Fields
  <2> QED BY <2>1, <2>3, <2>5, <2>6
<1>3. CASE r.op = "global"
  <2> DEFINE mw == Middleware(r.id, r.kind)
  <2>1. Added(r) = [registry EXCEPT !.globals = Append(@, mw), !.index = Put(@, mw.id, <<"global">>)]
    BY <1>3 DEF Added, AddGlobalMiddleware
  <2> HIDE DEF mw
  <2> QED BY <2>1 DEF RegistryOK, Fields, GatesBelow, Put
<1> QED
  BY <1>1, <1>2, <1>3

\* What is removed gives no gate back.
LEMMA RemoveKeeps ==
  ASSUME RegistryOK(registry), NEW id
  PROVE  /\ RegistryOK(RemoveSubscription(registry, id))
         /\ RemoveSubscription(registry, id).nextGate = registry.nextGate
<1>1. CASE id \notin DOMAIN registry.index
  BY <1>1 DEF RemoveSubscription
<1>2. CASE id \in DOMAIN registry.index
  <2> DEFINE at == registry.index[id]
             rest == [registry EXCEPT !.index = Without(@, id)]
             fewer == [rest EXCEPT !.slots[at[2]].listeners = WithoutListener(@, id)]
             less == [rest EXCEPT !.slots[at[2]].middlewares = WithoutMiddleware(@, id)]
  <2>1. RegistryOK(rest) /\ rest.nextGate = registry.nextGate
    BY DEF RegistryOK, Fields, GatesBelow, Without
  <2>2. at[1] \in {"global", "listener", "typed"}
    BY <1>2 DEF RegistryOK
  <2>3. RemoveSubscription(registry, id) =
          CASE at[1] = "global" -> [rest EXCEPT !.globals = WithoutMiddleware(@, id)]
            [] at[1] = "listener" /\ at[2] = DeadLetter ->
                 [rest EXCEPT !.deadLetters = WithoutListener(@, id)]
            [] at[1] = "listener" /\ at[2] # DeadLetter -> DropIfVacant(fewer, at[2])
            [] at[1] = "typed" -> DropIfVacant(less, at[2])
    BY <1>2 DEF RemoveSubscription
  <2> HIDE DEF rest, at
  <2>4. RegistryOK(fewer) /\ fewer.nextGate = registry.nextGate
    BY <2>1 DEF RegistryOK, Fields, GatesBelow, SlotFields
  <2>5. RegistryOK(less) /\ less.nextGate = registry.nextGate
    BY <2>1 DEF RegistryOK, Fields, GatesBelow, SlotFields
  <2> HIDE DEF fewer, less
  <2>6. CASE at[1] = "global"
    BY <2>1, <2>3, <2>6 DEF RegistryOK, Fields, GatesBelow
  <2>7. CASE at[1] = "listener" /\ at[2] = DeadLetter
    BY <2>1, <2>3, <2>7 DEF RegistryOK, Fields, GatesBelow
  <2>8. CASE at[1] = "listener" /\ at[2] # DeadLetter
    BY <2>3, <2>4, <2>8, DropKeeps
  <2>9. CASE at[1] = "typed"
    BY <2>3, <2>5, <2>9, DropKeeps
  <2> QED BY <2>2, <2>6, <2>7, <2>8, <2>9
<1> QED
  BY <1>1, <1>2

\* The snapshot has the gates of the registry it was taken of.
LEMMA SnapshotGates ==
  ASSUME NEW reg, RegistryOK(reg), NEW t \in DOMAIN RegistrySnapshotOf(reg).byType
  PROVE  RegistrySnapshotOf(reg).byType[t].gate \in 1 .. reg.nextGate - 1
BY DEF RegistrySnapshotOf, SnapshotSlot, RegistryOK, GatesBelow

AddOps == {"listener", "typed", "global"}
Adding == {c \in Callers : request[c].op \in AddOps}

(* A gate is numbered by an addition, and each addition has drawn an id:   *)
(* so the gates stay within the ids.                                       *)
GateRoom ==
  /\ RegistryOK(registry)
  /\ DOMAIN request = Callers
  /\ nextSub \in Nat /\ nextSub <= MaxId + 1
  /\ registry.nextGate + Cardinality(Adding) <= nextSub
  /\ \A t \in DOMAIN snapshot.byType : snapshot.byType[t].gate \in 1 .. registry.nextGate - 1

\* Fewer callers are not more.
LEMMA CallersFewer ==
  ASSUME NEW S \in SUBSET Callers, NEW T \in SUBSET S
  PROVE  Cardinality(T) <= Cardinality(S) /\ Cardinality(S) \in Nat /\ Cardinality(T) \in Nat
<1>1. IsFiniteSet(S) /\ IsFiniteSet(T)
  BY CallersAssumption, FS_Subset
<1> QED
  BY <1>1, FS_Subset, FS_CardinalityType

\* A caller more is at most one more, a caller less one less.
LEMMA CallersChange ==
  ASSUME NEW S \in SUBSET Callers, NEW c \in Callers
  PROVE  /\ Cardinality(S \cup {c}) <= Cardinality(S) + 1
         /\ c \in S => Cardinality(S \ {c}) = Cardinality(S) - 1
         /\ Cardinality(S) \in Nat
<1>1. IsFiniteSet(S)
  BY CallersAssumption, FS_Subset
<1>2. Cardinality(S) \in Nat
  BY <1>1, FS_CardinalityType
<1>3. CASE c \in S
  <2>1. S \cup {c} = S
    BY <1>3
  <2>2. Cardinality(S \ {c}) = Cardinality(S) - 1
    BY <1>1, <1>3, FS_RemoveElement
  <2> QED BY <1>2, <2>1, <2>2
<1>4. CASE c \notin S
  <2>1. Cardinality(S \cup {c}) = Cardinality(S) + 1
    BY <1>1, <1>4, FS_AddElement
  <2> QED BY <1>2, <1>4, <2>1
<1> QED
  BY <1>2, <1>3, <1>4

\* A new registry has no slot.
LEMMA GateInit == Init => GateRoom
<1> SUFFICES ASSUME Init PROVE GateRoom
  OBVIOUS
<1>1. Adding = {}
  BY DEF Init, Adding, AddOps, NoRequest
<1>2. RegistryOK(registry) /\ registry.nextGate = 1
  BY DEF Init, NewRegistry, RegistryOK, Fields, GatesBelow
<1>3. \A t \in DOMAIN snapshot.byType : snapshot.byType[t].gate \in 1 .. registry.nextGate - 1
  BY <1>2, SnapshotGates DEF Init
<1> QED
  BY <1>1, <1>2, <1>3, FS_EmptySet, MaxIdAssumption DEF Init, GateRoom

\* A step that adds nothing and starts no addition leaves the gates alone.
LEMMA GateCalm ==
  ASSUME GateRoom, UNCHANGED <<registry, snapshot, nextSub>>, Adding' \subseteq Adding,
         DOMAIN request' = Callers
  PROVE  GateRoom'
<1>1. Adding \in SUBSET Callers
  BY DEF Adding
<1>2. Cardinality(Adding') <= Cardinality(Adding) /\ Cardinality(Adding') \in Nat
  BY <1>1, CallersFewer
<1>3. Cardinality(Adding) \in Nat
  BY <1>1, CallersFewer
<1> QED
  BY <1>2, <1>3, MaxIdAssumption DEF GateRoom, RegistryOK

\* Asking to remove a subscription, whichever it is, is such a step.
LEMMA GateUnsubscribe ==
  ASSUME GateRoom, NEW c \in Callers, NEW id, CallUnsubscribe(c, id)
  PROVE  GateRoom'
BY GateCalm DEF CallUnsubscribe, Ask, regVars, Adding, AddOps, GateRoom

\* Every step keeps the gates within the ids.
LEMMA GateStep == GateRoom /\ [Next]_vars => GateRoom'
<1> SUFFICES ASSUME GateRoom, [Next]_vars PROVE GateRoom'
  OBVIOUS
<1> USE MaxIdAssumption DEF Goto, Ask, Finish
<1>1. Adding \in SUBSET Callers /\ Cardinality(Adding) \in Nat /\ registry.nextGate \in Nat
  <2>1. Adding \in SUBSET Callers
    BY DEF Adding
  <2> QED BY <2>1, CallersFewer DEF GateRoom, RegistryOK
<1>2. ASSUME UNCHANGED <<registry, snapshot, nextSub>>, Adding' \subseteq Adding,
             DOMAIN request' = Callers
      PROVE  GateRoom'
  BY <1>2, GateCalm
<1>3. ASSUME NEW c \in Callers, Call(c) PROVE GateRoom'
  <2>1. ASSUME NEW what \in Additions, CallAdd(c, what) PROVE GateRoom'
    <3>1. Adding' \subseteq Adding \cup {c}
      BY <2>1 DEF CallAdd, Adding, GateRoom
    <3>2. /\ Cardinality(Adding') <= Cardinality(Adding \cup {c})
          /\ Cardinality(Adding') \in Nat /\ Cardinality(Adding \cup {c}) \in Nat
      BY <1>1, <3>1, CallersFewer
    <3>3. Cardinality(Adding \cup {c}) <= Cardinality(Adding) + 1
      BY <1>1, CallersChange
    <3>4. /\ registry' = registry /\ snapshot' = snapshot /\ nextSub' = nextSub + 1
          /\ nextSub <= MaxId /\ DOMAIN request' = Callers
      BY <2>1 DEF CallAdd, regVars, GateRoom
    <3> QED BY <1>1, <3>2, <3>3, <3>4 DEF GateRoom
  <2>2. ASSUME NEW id \in Ids, CallUnsubscribe(c, id) PROVE GateRoom'
    BY <2>2, GateUnsubscribe
  <2>3. ASSUME NEW id \in Ids, NEW onRuntime \in BOOLEAN, DropGuard(c, id, onRuntime)
        PROVE  GateRoom'
    BY <1>2, <2>3 DEF DropGuard, regVars, Adding, AddOps, GateRoom
  <2>4. CASE CallStats(c)
    BY <1>2, <2>4 DEF CallStats, regVars, idVars, Adding, AddOps, GateRoom
  <2>5. CASE Abandon(c)
    BY <1>2, <2>5 DEF Abandon, regVars, idVars, Adding, AddOps, NoRequest, GateRoom
  <2> QED BY <1>3, <2>1, <2>2, <2>3, <2>4, <2>5 DEF Call
<1>4. ASSUME NEW c \in Callers,
             Acquire(c) \/ Recheck(c) \/ ApplyStats(c) \/ TryLock(c) \/ Fallback(c)
      PROVE  GateRoom'
  BY <1>2, <1>4 DEF Acquire, Recheck, ApplyStats, TryLock, Fallback, regVars, idVars, Adding, AddOps,
     NoRequest, GateRoom
<1>5. ASSUME NEW c \in Callers, ApplyAdd(c) PROVE GateRoom'
  <2>1. /\ request[c].op \in AddOps
        /\ registry' = Added(request[c])
        /\ snapshot' = snapshot \/ snapshot' = RegistrySnapshotOf(registry')
        /\ nextSub' = nextSub
        /\ request' = [request EXCEPT ![c] = NoRequest]
    BY <1>5 DEF ApplyAdd, Refresh, AddOps
  <2>2. /\ RegistryOK(registry')
        /\ registry'.nextGate \in {registry.nextGate, registry.nextGate + 1}
    BY <2>1, AddKeeps DEF GateRoom, AddOps
  <2>3. c \in Adding /\ Adding' = Adding \ {c} /\ DOMAIN request' = Callers
    BY <2>1 DEF Adding, AddOps, NoRequest, GateRoom
  <2>4. Cardinality(Adding') = Cardinality(Adding) - 1
    BY <1>1, <2>3, CallersChange
  <2>5. \A t \in DOMAIN snapshot'.byType :
          snapshot'.byType[t].gate \in 1 .. registry'.nextGate - 1
    <3>1. CASE snapshot' = snapshot
      BY <1>1, <2>2, <3>1 DEF GateRoom
    <3>2. CASE snapshot' = RegistrySnapshotOf(registry')
      BY <2>2, <3>2, SnapshotGates
    <3> QED BY <2>1, <3>1, <3>2
  <2> QED BY <1>1, <2>1, <2>2, <2>3, <2>4, <2>5 DEF GateRoom
<1>6. ASSUME NEW c \in Callers, ApplyUnsubscribe(c) \/ TryApply(c) PROVE GateRoom'
  <2>1. /\ \E id : registry' = RemoveSubscription(registry, id)
        /\ snapshot' = snapshot \/ snapshot' = RegistrySnapshotOf(registry')
        /\ nextSub' = nextSub
        /\ request' = [request EXCEPT ![c] = NoRequest] \/ request' = request
    BY <1>6 DEF ApplyUnsubscribe, TryApply, TakeOut, Refresh
  <2>2. RegistryOK(registry') /\ registry'.nextGate = registry.nextGate
    BY <2>1, RemoveKeeps DEF GateRoom
  <2>3. Adding' \subseteq Adding /\ DOMAIN request' = Callers
    BY <2>1 DEF Adding, AddOps, NoRequest, GateRoom
  <2>4. Cardinality(Adding') <= Cardinality(Adding) /\ Cardinality(Adding') \in Nat
    BY <1>1, <2>3, CallersFewer
  <2>5. \A t \in DOMAIN snapshot'.byType :
          snapshot'.byType[t].gate \in 1 .. registry'.nextGate - 1
    <3>1. CASE snapshot' = snapshot
      BY <2>2, <3>1 DEF GateRoom
    <3>2. CASE snapshot' = RegistrySnapshotOf(registry')
      BY <2>2, <3>2, SnapshotGates
    <3> QED BY <2>1, <3>1, <3>2
  <2> QED BY <1>1, <2>1, <2>2, <2>3, <2>4, <2>5 DEF GateRoom
<1>7. CASE Stop \/ UNCHANGED vars
  BY <1>2, <1>7 DEF Stop, vars, regVars, idVars, Adding, GateRoom
<1> QED
  BY <1>3, <1>4, <1>5, <1>6, <1>7 DEF Next, Step, UnderLock, Settled

\* There are never more gates than ids were drawn.
THEOREM GatesWithinIds == Spec => []GateRoom
BY GateInit, GateStep, PTL DEF Spec

-----------------------------------------------------------------------------
(* Order, and what is left of a Vec                                        *)

(* A relation that orders a set strictly and totally.                      *)
StrictTotalOrder(R, S) ==
  /\ \A x, y \in S : x # y => <<x, y>> \in R \/ <<y, x>> \in R
  /\ \A x \in S : <<x, x>> \notin R
  /\ \A x, y, z \in S : <<x, y>> \in R /\ <<y, z>> \in R => <<x, z>> \in R

\* A finite set can be put in order: an element's place is one more than the
\* number of elements before it.
LEMMA OrderExists ==
  ASSUME NEW S, IsFiniteSet(S), NEW R, StrictTotalOrder(R, S)
  PROVE  \E seq \in SetToSeqs(S) : \A i, j \in DOMAIN seq : i < j => <<seq[i], seq[j]>> \in R
<1> DEFINE n == Cardinality(S)
           before(x) == {y \in S : <<y, x>> \in R}
           place == [x \in S |-> Cardinality(before(x)) + 1]
<1>1. n \in Nat /\ IsFiniteSet(1 .. n) /\ Cardinality(1 .. n) = n
  BY FS_CardinalityType, FS_Interval
<1>2. \A x \in S : IsFiniteSet(before(x)) /\ Cardinality(before(x)) \in 0 .. n - 1
  <2> SUFFICES ASSUME NEW x \in S
               PROVE  IsFiniteSet(before(x)) /\ Cardinality(before(x)) \in 0 .. n - 1
    OBVIOUS
  <2>1. before(x) \in SUBSET (S \ {x})
    BY DEF StrictTotalOrder
  <2>2. IsFiniteSet(S \ {x}) /\ Cardinality(S \ {x}) = n - 1
    BY FS_RemoveElement
  <2> HIDE DEF before
  <2>3. /\ IsFiniteSet(before(x)) /\ Cardinality(before(x)) <= n - 1
        /\ Cardinality(before(x)) \in Nat
    BY <2>1, <2>2, FS_Subset, FS_CardinalityType
  <2> QED BY <1>1, <2>3
<1>3. \A x, y \in S : <<x, y>> \in R => Cardinality(before(x)) < Cardinality(before(y))
  <2> SUFFICES ASSUME NEW x \in S, NEW y \in S, <<x, y>> \in R
               PROVE  Cardinality(before(x)) < Cardinality(before(y))
    OBVIOUS
  <2>1. before(x) \in SUBSET before(y) /\ before(x) # before(y)
    BY DEF StrictTotalOrder
  <2> HIDE DEF before
  <2>2. /\ Cardinality(before(x)) <= Cardinality(before(y))
        /\ Cardinality(before(x)) # Cardinality(before(y))
    BY <1>2, <2>1, FS_Subset
  <2> QED BY <1>1, <1>2, <2>2
<1> HIDE DEF before
<1>4. place \in [S -> 1 .. n]
  BY <1>1, <1>2
<1>5. \A x, y \in S : <<x, y>> \in R => place[x] < place[y]
  BY <1>1, <1>2, <1>3
<1> HIDE DEF place
<1>6. place \in Injection(S, 1 .. n)
  <2>1. \A x, y \in S : x # y => place[x] < place[y] \/ place[y] < place[x]
    BY <1>5 DEF StrictTotalOrder
  <2>2. \A x \in S : place[x] \in Int
    BY <1>1, <1>4
  <2>3. \A x, y \in S : x # y => place[x] # place[y]
    BY <2>1, <2>2
  <2> QED BY <1>4, <2>3 DEF Injection, IsInjective
<1>7. \A i \in 1 .. n : \E x \in S : place[x] = i
  <2>1. place \in Surjection(S, 1 .. n)
    BY <1>1, <1>6, FS_Injection
  <2> QED BY <2>1 DEF Surjection
<1> DEFINE seq == [i \in 1 .. n |-> CHOOSE x \in S : place[x] = i]
<1>8. DOMAIN seq = 1 .. n /\ \A i \in 1 .. n : seq[i] \in S /\ place[seq[i]] = i
  BY <1>7
<1>9. seq \in [1 .. n -> S]
  BY <1>8
<1> HIDE DEF seq
<1>10. seq \in SetToSeqs(S)
  BY <1>8, <1>9 DEF SetToSeqs
<1>11. ASSUME NEW i \in 1 .. n, NEW j \in 1 .. n, i < j PROVE <<seq[i], seq[j]>> \in R
  <2>1. seq[i] # seq[j] /\ ~(place[seq[j]] < place[seq[i]])
    BY <1>1, <1>8, <1>11
  <2> QED BY <1>5, <1>8, <2>1 DEF StrictTotalOrder
<1> QED
  BY <1>8, <1>10, <1>11

\* A sequence of all the elements of a finite set, each once, has no others.
LEMMA SeqOfSet ==
  ASSUME NEW S, IsFiniteSet(S), NEW seq \in SetToSeqs(S)
  PROVE  /\ seq \in Seq(S) /\ Len(seq) = Cardinality(S)
         /\ S = {seq[i] : i \in DOMAIN seq}
<1>1. /\ Cardinality(S) \in Nat /\ IsFiniteSet(1 .. Cardinality(S))
      /\ Cardinality(1 .. Cardinality(S)) = Cardinality(S)
  BY FS_CardinalityType, FS_Interval
<1>2. seq \in Injection(1 .. Cardinality(S), S)
  BY DEF SetToSeqs, Injection, IsInjective
<1>3. seq \in Surjection(1 .. Cardinality(S), S)
  BY <1>1, <1>2, FS_Injection
<1>4. DOMAIN seq = 1 .. Cardinality(S) /\ S = {seq[i] : i \in DOMAIN seq}
  BY <1>3 DEF Surjection
<1>5. seq \in Seq(S)
  BY <1>1, <1>2, SeqDef DEF Injection
<1>6. Len(seq) \in Nat /\ DOMAIN seq = 1 .. Len(seq)
  BY <1>5, LenProperties
<1>7. Len(seq) = Cardinality(S)
  <2>1. 1 .. Len(seq) = 1 .. Cardinality(S)
    BY <1>4, <1>6
  <2> QED BY <1>1, <1>6, <2>1
<1> QED
  BY <1>4, <1>5, <1>7

\* sort_by puts listeners in the order of their priority, and keeps them all.
LEMMA SortedByPriority ==
  ASSUME NEW L, ListenersOK(L)
  PROVE  /\ Sorted(L, ByPriority) \in SetToSeqs(L)
         /\ \A i, j \in DOMAIN Sorted(L, ByPriority) :
              i < j => ByPriority(Sorted(L, ByPriority)[i], Sorted(L, ByPriority)[j])
<1> DEFINE R == {p \in L \X L : ByPriority(p[1], p[2])}
<1>1. \A x, y \in L : <<x, y>> \in R <=> ByPriority(x, y)
  OBVIOUS
<1> HIDE DEF R
<1>2. StrictTotalOrder(R, L)
  BY <1>1 DEF StrictTotalOrder, ByPriority, ListenersOK
<1>3. PICK seq \in SetToSeqs(L) : \A i, j \in DOMAIN seq : i < j => <<seq[i], seq[j]>> \in R
  BY <1>2, OrderExists DEF ListenersOK
<1>4. \A i \in DOMAIN seq : seq[i] \in L
  BY <1>3, SeqOfSet DEF ListenersOK
<1>5. \A i, j \in DOMAIN seq : i < j => ByPriority(seq[i], seq[j])
  BY <1>1, <1>3, <1>4
<1> QED
  BY <1>5 DEF Sorted

\* The same of async listeners, which are in the order of registration.
LEMMA SortedByRegistration ==
  ASSUME NEW L, ListenersOK(L)
  PROVE  /\ Sorted(L, ByRegistration) \in SetToSeqs(L)
         /\ \A i, j \in DOMAIN Sorted(L, ByRegistration) :
              i < j => ByRegistration(Sorted(L, ByRegistration)[i], Sorted(L, ByRegistration)[j])
<1> DEFINE R == {p \in L \X L : ByRegistration(p[1], p[2])}
<1>1. \A x, y \in L : <<x, y>> \in R <=> ByRegistration(x, y)
  OBVIOUS
<1> HIDE DEF R
<1>2. StrictTotalOrder(R, L)
  BY <1>1 DEF StrictTotalOrder, ByRegistration, ListenersOK
<1>3. PICK seq \in SetToSeqs(L) : \A i, j \in DOMAIN seq : i < j => <<seq[i], seq[j]>> \in R
  BY <1>2, OrderExists DEF ListenersOK
<1>4. \A i \in DOMAIN seq : seq[i] \in L
  BY <1>3, SeqOfSet DEF ListenersOK
<1>5. \A i, j \in DOMAIN seq : i < j => ByRegistration(seq[i], seq[j])
  BY <1>1, <1>3, <1>4
<1> QED
  BY <1>5 DEF Sorted

\* A set of natural numbers that is not empty has a least element.  Inductions
\* below are over the least number for which something fails.
LEMMA LeastOf ==
  ASSUME NEW T \in SUBSET Nat, T # {}
  PROVE  \E x \in T : \A y \in T : x <= y
<1>1. PICK x \in T : \A y \in T : <<y, x>> \notin OpToRel(<, Nat)
  BY WFMin, NatLessThanWellFounded, Zenon
<1>2. \A y \in T : ~(y < x)
  BY <1>1, Zenon DEF OpToRel
<1>3. \A y \in T : x <= y
  BY <1>2
<1> QED
  BY <1>3

\* push adds one id.
LEMMA AppendIds ==
  ASSUME NEW M, NEW s \in Seq(M), NEW e \in M
  PROVE  Append(s, e) \in Seq(M) /\ IdsOf(Append(s, e)) = IdsOf(s) \cup {e.id}
<1> DEFINE t == Append(s, e)
<1>1. /\ t \in Seq(M) /\ Len(t) = Len(s) + 1
      /\ \A i \in 1 .. Len(s) : t[i] = s[i]
      /\ t[Len(s) + 1] = e
  BY AppendProperties
<1> HIDE DEF t
<1>2. /\ Len(s) \in Nat /\ DOMAIN s = 1 .. Len(s)
      /\ DOMAIN t = (1 .. Len(s)) \cup {Len(s) + 1}
  BY <1>1, LenProperties
<1> QED
  BY <1>1, <1>2 DEF IdsOf, t

(* The sequences that WithoutMiddleware builds of the first m entries.     *)
AreKept(f, mws, id, m) ==
  f = [n \in 0 .. m |-> IF n = 0 THEN <<>>
                        ELSE IF mws[n].id = id THEN f[n - 1] ELSE Append(f[n - 1], mws[n])]

\* They exist.
LEMMA KeptExist ==
  ASSUME NEW mws, NEW id, NEW k \in Nat
  PROVE  \E f : AreKept(f, mws, id, k)
<1> DEFINE Kept(f, m) == AreKept(f, mws, id, m)
           Bad == {m \in Nat : ~ \E f : Kept(f, m)}
<1> USE DEF AreKept
<1>1. SUFFICES ASSUME Bad # {} PROVE FALSE
  OBVIOUS
<1>2. PICK m \in Bad : \A y \in Bad : m <= y
  <2> HIDE DEF Bad
  <2>1. Bad \in SUBSET Nat
    BY DEF Bad
  <2> QED BY <1>1, <2>1, LeastOf
<1>3. CASE m = 0
  <2>1. Kept([n \in 0 .. 0 |-> <<>>], 0)
    OBVIOUS
  <2> HIDE DEF Kept
  <2> QED BY <1>3, <2>1
<1>4. CASE m # 0
  <2>1. m - 1 \in Nat /\ m - 1 \notin Bad
    <3>1. m \in Nat
      OBVIOUS
    <3> HIDE DEF Bad
    <3> QED BY <1>2, <1>4, <3>1
  <2>2. PICK f : Kept(f, m - 1)
    <3> HIDE DEF Kept
    <3> QED BY <2>1
  <2> DEFINE step == IF mws[m].id = id THEN f[m - 1] ELSE Append(f[m - 1], mws[m])
             g == [n \in 0 .. m |-> IF n = m THEN step ELSE f[n]]
  <2>3. \A n \in 0 .. m - 1 : g[n] = f[n]
    OBVIOUS
  <2>4. g[m] = step /\ g[m - 1] = f[m - 1]
    BY <2>1
  <2> HIDE DEF step
  <2>5. ASSUME NEW n \in 0 .. m
        PROVE  g[n] = IF n = 0 THEN <<>>
                      ELSE IF mws[n].id = id THEN g[n - 1] ELSE Append(g[n - 1], mws[n])
    <3>1. CASE n = m
      BY <1>4, <2>4, <3>1 DEF step
    <3>2. CASE n # m
      <4>1. n \in 0 .. m - 1
        BY <3>2
      <4>2. f[n] = IF n = 0 THEN <<>>
                   ELSE IF mws[n].id = id THEN f[n - 1] ELSE Append(f[n - 1], mws[n])
        BY <2>2, <4>1
      <4>3. n # 0 => n - 1 \in 0 .. m - 1
        BY <4>1
      <4> HIDE DEF g
      <4> QED BY <2>3, <4>1, <4>2, <4>3
    <3> QED BY <3>1, <3>2
  <2>6. DOMAIN g = 0 .. m /\ g = [n \in 0 .. m |-> g[n]]
    OBVIOUS
  <2> HIDE DEF g
  <2>7. Kept(g, m)
    BY <2>5, <2>6
  <2> HIDE DEF Kept
  <2> QED BY <2>7
<1> QED
  BY <1>3, <1>4

\* Vec::retain takes out what has the id and nothing else.
LEMMA RetainRemoves ==
  ASSUME NEW mws \in Seq(MiddlewareRecords), NEW id
  PROVE  /\ WithoutMiddleware(mws, id) \in Seq(MiddlewareRecords)
         /\ IdsOf(WithoutMiddleware(mws, id)) = IdsOf(mws) \ {id}
<1> DEFINE kept == CHOOSE f : AreKept(f, mws, id, Len(mws))
           upTo(n) == {mws[i].id : i \in 1 .. n} \ {id}
           Good(n) == kept[n] \in Seq(MiddlewareRecords) /\ IdsOf(kept[n]) = upTo(n)
           Bad == {n \in 0 .. Len(mws) : ~Good(n)}
<1>1. Len(mws) \in Nat /\ DOMAIN mws = 1 .. Len(mws)
  BY LenProperties
<1>2. AreKept(kept, mws, id, Len(mws))
  BY <1>1, KeptExist
<1>3. WithoutMiddleware(mws, id) = kept[Len(mws)]
  BY DEF WithoutMiddleware, AreKept
<1> HIDE DEF kept
<1>4. /\ kept[0] = <<>>
      /\ \A n \in 1 .. Len(mws) :
           kept[n] = IF mws[n].id = id THEN kept[n - 1] ELSE Append(kept[n - 1], mws[n])
  <2>1. \A n \in 0 .. Len(mws) :
          kept[n] = IF n = 0 THEN <<>>
                    ELSE IF mws[n].id = id THEN kept[n - 1] ELSE Append(kept[n - 1], mws[n])
    <3> SUFFICES ASSUME NEW n \in 0 .. Len(mws)
                 PROVE  kept[n] = IF n = 0 THEN <<>>
                                  ELSE IF mws[n].id = id THEN kept[n - 1]
                                  ELSE Append(kept[n - 1], mws[n])
      OBVIOUS
    <3> QED BY <1>2 DEF AreKept
  <2>2. 0 \in 0 .. Len(mws) /\ \A n \in 1 .. Len(mws) : n \in 0 .. Len(mws) /\ n # 0
    BY <1>1
  <2> QED BY <2>1, <2>2
<1>5. Good(0)
  BY <1>4, EmptySeq DEF IdsOf
<1>6. ASSUME NEW n \in 1 .. Len(mws), Good(n - 1) PROVE Good(n)
  <2>1. mws[n] \in MiddlewareRecords /\ n \in Nat
    BY <1>1, ElementOfSeq
  <2>2. upTo(n) = (upTo(n - 1) \cup {mws[n].id}) \ {id}
    <3>1. 1 .. n = (1 .. n - 1) \cup {n}
      BY <2>1
    <3> QED BY <3>1
  <2>3. CASE mws[n].id = id
    BY <1>4, <1>6, <2>2, <2>3
  <2>4. CASE mws[n].id # id
    <3> DEFINE s == kept[n - 1]
    <3>1. s \in Seq(MiddlewareRecords) /\ IdsOf(s) = upTo(n - 1)
      BY <1>6
    <3>2. kept[n] = Append(s, mws[n])
      BY <1>4, <2>4
    <3> HIDE DEF s
    <3>3. /\ Append(s, mws[n]) \in Seq(MiddlewareRecords)
          /\ IdsOf(Append(s, mws[n])) = IdsOf(s) \cup {mws[n].id}
      BY <2>1, <3>1, AppendIds
    <3> QED BY <2>2, <2>4, <3>1, <3>2, <3>3
  <2> QED BY <2>3, <2>4
<1>7. Bad = {}
  <2> SUFFICES ASSUME Bad # {} PROVE FALSE
    OBVIOUS
  <2>1. PICK n \in Bad : \A y \in Bad : n <= y
    <3>1. Bad \in SUBSET Nat
      OBVIOUS
    <3> HIDE DEF Bad
    <3> QED BY <3>1, LeastOf
  <2> HIDE DEF Good
  <2>2. n \in 0 .. Len(mws) /\ ~Good(n)
    OBVIOUS
  <2>3. n # 0
    BY <1>5, <2>2
  <2>4. n - 1 \in 0 .. Len(mws) /\ n \in 1 .. Len(mws)
    BY <1>1, <2>2, <2>3
  <2>5. n - 1 \notin Bad
    BY <1>1, <2>1, <2>2, <2>4
  <2>6. Good(n - 1)
    BY <2>4, <2>5
  <2> QED BY <1>6, <2>2, <2>4, <2>6
<1> HIDE DEF Good
<1>8. Good(Len(mws))
  BY <1>1, <1>7
<1>9. upTo(Len(mws)) = IdsOf(mws) \ {id}
  BY <1>1 DEF IdsOf
<1> QED
  BY <1>3, <1>8, <1>9 DEF Good

-----------------------------------------------------------------------------
(* The registry and its index                                              *)

Indexed(reg, id, what) == id \in DOMAIN reg.index /\ reg.index[id][1] = what
IndexedUnder(reg, id, what, type) == Indexed(reg, id, what) /\ reg.index[id][2] = type

LocatedIn(reg, id) ==
  \/ Indexed(reg, id, "global") /\ id \in IdsOf(reg.globals)
  \/ IndexedUnder(reg, id, "listener", DeadLetter) /\ \E l \in reg.deadLetters : l.id = id
  \/ \E t \in DOMAIN reg.slots :
       \/ IndexedUnder(reg, id, "typed", t) /\ id \in IdsOf(reg.slots[t].middlewares)
       \/ /\ IndexedUnder(reg, id, "listener", t) /\ t # DeadLetter
          /\ \E l \in reg.slots[t].listeners : l.id = id

SlotExact(reg, t) ==
  /\ ListenersOK(reg.slots[t].listeners)
  /\ reg.slots[t].middlewares \in Seq(MiddlewareRecords)
  /\ ~Vacant(reg.slots[t])
  /\ \A l \in reg.slots[t].listeners : t # DeadLetter /\ IndexedUnder(reg, l.id, "listener", t)
  /\ \A id \in IdsOf(reg.slots[t].middlewares) : IndexedUnder(reg, id, "typed", t)

(* The index tells of every entry in which collection it is, of no entry   *)
(* twice and of no other; no slot is vacant, and dead-letter listeners are *)
(* synchronous.                                                            *)
RegistryExact(reg) ==
  /\ reg.globals \in Seq(MiddlewareRecords)
  /\ \A id \in IdsOf(reg.globals) : Indexed(reg, id, "global")
  /\ ListenersOK(reg.deadLetters) /\ ~SnapshotPanics(reg)
  /\ \A l \in reg.deadLetters : IndexedUnder(reg, l.id, "listener", DeadLetter)
  /\ \A t \in DOMAIN reg.slots : SlotExact(reg, t)
  /\ \A id \in DOMAIN reg.index : LocatedIn(reg, id)

(* What a caller may add, when no dead-letter listener is asynchronous.    *)
WellFormed(r) ==
  /\ r.kind \in {"sync", "async"}
  /\ r.op = "listener" => r.priority \in Int
  /\ r.op = "listener" /\ r.type = DeadLetter => r.kind = "sync"

\* One listener more.
LEMMA ListenersGrow ==
  ASSUME NEW L, ListenersOK(L), NEW r, WellFormed(r), r.op = "listener", r.id \in Nat,
         \A l \in L : l.id # r.id
  PROVE  ListenersOK(L \cup {Listener(r.id, r.kind, r.priority)})
<1> DEFINE new == Listener(r.id, r.kind, r.priority)
<1>1. new.id = r.id /\ new.kind = r.kind /\ new.priority = r.priority
  BY DEF Listener
<1> HIDE DEF new
<1>2. IsFiniteSet(L \cup {new})
  BY FS_AddElement DEF ListenersOK
<1>3. ListenersOK(L \cup {new})
  BY <1>1, <1>2 DEF ListenersOK, WellFormed
<1> QED
  BY <1>3 DEF new

\* One listener less.
LEMMA ListenersShrink ==
  ASSUME NEW L, ListenersOK(L), NEW id
  PROVE  ListenersOK(WithoutListener(L, id))
<1>1. IsFiniteSet(WithoutListener(L, id))
  BY FS_Subset DEF ListenersOK, WithoutListener
<1> QED
  BY <1>1 DEF ListenersOK, WithoutListener

\* What add_listener does to each field, of an event type.
LEMMA AddedListener ==
  ASSUME RegistryOK(registry), NEW r, r.op = "listener", r.type # DeadLetter
  PROVE  LET new == Added(r)
             had == r.type \in DOMAIN registry.slots
         IN /\ new.globals = registry.globals /\ new.deadLetters = registry.deadLetters
            /\ new.index = Put(registry.index, r.id, <<"listener", r.type>>)
            /\ DOMAIN new.slots = DOMAIN registry.slots \cup {r.type}
            /\ \A t \in DOMAIN registry.slots \ {r.type} : new.slots[t] = registry.slots[t]
            /\ new.slots[r.type].listeners =
                 (IF had THEN registry.slots[r.type].listeners ELSE {})
                    \cup {Listener(r.id, r.kind, r.priority)}
            /\ new.slots[r.type].middlewares =
                 IF had THEN registry.slots[r.type].middlewares ELSE <<>>
<1> DEFINE l == Listener(r.id, r.kind, r.priority)
           indexed == [registry EXCEPT !.index = Put(@, l.id, <<"listener", r.type>>)]
           slotted == EnsureSlot(indexed, r.type)
           new == [slotted EXCEPT !.slots[r.type].listeners = @ \cup {l}]
<1>1. Added(r) = new
  BY DEF Added, AddListener
<1>2. /\ DOMAIN indexed = Fields /\ indexed.slots = registry.slots
      /\ indexed.globals = registry.globals /\ indexed.deadLetters = registry.deadLetters
      /\ indexed.index = Put(registry.index, r.id, <<"listener", r.type>>)
  BY DEF RegistryOK, Fields, Listener
<1> HIDE DEF indexed
<1>3. /\ DOMAIN slotted = Fields
      /\ slotted.globals = registry.globals /\ slotted.deadLetters = registry.deadLetters
      /\ slotted.index = Put(registry.index, r.id, <<"listener", r.type>>)
      /\ slotted.slots = IF r.type \in DOMAIN registry.slots THEN registry.slots
                         ELSE Put(registry.slots, r.type, EmptySlot(indexed.nextGate))
  BY <1>2 DEF EnsureSlot, Fields
<1> HIDE DEF slotted, l
<1>4. /\ new.globals = registry.globals /\ new.deadLetters = registry.deadLetters
      /\ new.index = Put(registry.index, r.id, <<"listener", r.type>>)
      /\ DOMAIN new.slots = DOMAIN slotted.slots
      /\ \A t \in DOMAIN slotted.slots \ {r.type} : new.slots[t] = slotted.slots[t]
      /\ r.type \in DOMAIN slotted.slots =>
           new.slots[r.type] = [slotted.slots[r.type] EXCEPT !.listeners = @ \cup {l}]
  BY <1>3 DEF Fields
<1>5. /\ DOMAIN slotted.slots = DOMAIN registry.slots \cup {r.type}
      /\ \A t \in DOMAIN registry.slots \ {r.type} : slotted.slots[t] = registry.slots[t]
      /\ DOMAIN slotted.slots[r.type] = SlotFields
      /\ slotted.slots[r.type].listeners =
           IF r.type \in DOMAIN registry.slots THEN registry.slots[r.type].listeners ELSE {}
      /\ slotted.slots[r.type].middlewares =
           IF r.type \in DOMAIN registry.slots THEN registry.slots[r.type].middlewares ELSE <<>>
  BY <1>3 DEF Put, EmptySlot, RegistryOK, GatesBelow, SlotFields
<1> HIDE DEF new
<1> QED
  BY <1>1, <1>4, <1>5 DEF SlotFields, l

\* What add_typed_middleware does to each field.
LEMMA AddedTyped ==
  ASSUME RegistryOK(registry), NEW r, r.op = "typed"
  PROVE  LET new == Added(r)
             had == r.type \in DOMAIN registry.slots
         IN /\ new.globals = registry.globals /\ new.deadLetters = registry.deadLetters
            /\ new.index = Put(registry.index, r.id, <<"typed", r.type>>)
            /\ DOMAIN new.slots = DOMAIN registry.slots \cup {r.type}
            /\ \A t \in DOMAIN registry.slots \ {r.type} : new.slots[t] = registry.slots[t]
            /\ new.slots[r.type].listeners =
                 IF had THEN registry.slots[r.type].listeners ELSE {}
            /\ new.slots[r.type].middlewares =
                 Append(IF had THEN registry.slots[r.type].middlewares ELSE <<>>,
                        Middleware(r.id, r.kind))
<1> DEFINE mw == Middleware(r.id, r.kind)
           slotted == EnsureSlot(registry, r.type)
           x == Append(slotted.slots[r.type].middlewares, mw)
           new == [slotted EXCEPT !.slots[r.type].middlewares = x,
                                  !.index = Put(@, mw.id, <<"typed", r.type>>)]
<1>1. Added(r) = new
  BY DEF Added, AddTypedMiddleware
<1>2. mw.id = r.id
  BY DEF Middleware
<1>3. /\ DOMAIN slotted = Fields
      /\ slotted.globals = registry.globals /\ slotted.deadLetters = registry.deadLetters
      /\ slotted.index = registry.index
      /\ slotted.slots = IF r.type \in DOMAIN registry.slots THEN registry.slots
                         ELSE Put(registry.slots, r.type, EmptySlot(registry.nextGate))
  BY DEF EnsureSlot, RegistryOK, Fields
<1> HIDE DEF slotted, mw, x
<1>4. /\ new.globals = registry.globals /\ new.deadLetters = registry.deadLetters
      /\ new.index = Put(registry.index, r.id, <<"typed", r.type>>)
      /\ DOMAIN new.slots = DOMAIN slotted.slots
      /\ \A t \in DOMAIN slotted.slots \ {r.type} : new.slots[t] = slotted.slots[t]
      /\ r.type \in DOMAIN slotted.slots =>
           new.slots[r.type] = [slotted.slots[r.type] EXCEPT !.middlewares = x]
  BY <1>2, <1>3 DEF Fields
<1>5. /\ DOMAIN slotted.slots = DOMAIN registry.slots \cup {r.type}
      /\ \A t \in DOMAIN registry.slots \ {r.type} : slotted.slots[t] = registry.slots[t]
      /\ DOMAIN slotted.slots[r.type] = SlotFields
      /\ slotted.slots[r.type].listeners =
           IF r.type \in DOMAIN registry.slots THEN registry.slots[r.type].listeners ELSE {}
      /\ slotted.slots[r.type].middlewares =
           IF r.type \in DOMAIN registry.slots THEN registry.slots[r.type].middlewares ELSE <<>>
  BY <1>3 DEF Put, EmptySlot, RegistryOK, GatesBelow, SlotFields
<1>6. x = Append(IF r.type \in DOMAIN registry.slots
                 THEN registry.slots[r.type].middlewares ELSE <<>>, mw)
  BY <1>5 DEF x
<1> HIDE DEF new
<1>7. /\ new.slots[r.type].listeners = slotted.slots[r.type].listeners
      /\ new.slots[r.type].middlewares = x
  BY <1>4, <1>5 DEF SlotFields
<1> QED
  BY <1>1, <1>4, <1>5, <1>6, <1>7 DEF mw

HasListener(listeners, id) == \E l \in listeners : l.id = id

\* A slot that stayed as it was is still indexed where its entries are.
LEMMA SlotCarried ==
  ASSUME NEW old, NEW new, NEW t, SlotExact(old, t), new.slots[t] = old.slots[t],
         \A x, what : IndexedUnder(old, x, what, t) => IndexedUnder(new, x, what, t)
  PROVE  SlotExact(new, t)
BY DEF SlotExact

\* An id whose entry stayed where it was is still located there.
LEMMA LocatedCarried ==
  ASSUME NEW old, NEW new, NEW id, LocatedIn(old, id),
         id \in DOMAIN new.index, new.index[id] = old.index[id],
         id \in IdsOf(old.globals) => id \in IdsOf(new.globals),
         HasListener(old.deadLetters, id) => HasListener(new.deadLetters, id),
         \A t \in DOMAIN old.slots :
           /\ id \in IdsOf(old.slots[t].middlewares) =>
                t \in DOMAIN new.slots /\ id \in IdsOf(new.slots[t].middlewares)
           /\ HasListener(old.slots[t].listeners, id) =>
                t \in DOMAIN new.slots /\ HasListener(new.slots[t].listeners, id)
  PROVE  LocatedIn(new, id)
<1>1. \A what, t : /\ Indexed(old, id, what) => Indexed(new, id, what)
                   /\ IndexedUnder(old, id, what, t) => IndexedUnder(new, id, what, t)
  BY DEF Indexed, IndexedUnder
<1>2. CASE Indexed(old, id, "global") /\ id \in IdsOf(old.globals)
  BY <1>1, <1>2 DEF LocatedIn
<1>3. CASE IndexedUnder(old, id, "listener", DeadLetter) /\ HasListener(old.deadLetters, id)
  BY <1>1, <1>3 DEF LocatedIn, HasListener
<1>4. ASSUME NEW t \in DOMAIN old.slots, IndexedUnder(old, id, "typed", t),
             id \in IdsOf(old.slots[t].middlewares)
      PROVE  LocatedIn(new, id)
  BY <1>1, <1>4 DEF LocatedIn
<1>5. ASSUME NEW t \in DOMAIN old.slots, IndexedUnder(old, id, "listener", t), t # DeadLetter,
             HasListener(old.slots[t].listeners, id)
      PROVE  LocatedIn(new, id)
  <2>1. t \in DOMAIN new.slots /\ HasListener(new.slots[t].listeners, id)
    BY <1>5
  <2>2. IndexedUnder(new, id, "listener", t)
    BY <1>1, <1>5
  <2> QED BY <1>5, <2>1, <2>2 DEF LocatedIn, HasListener
<1> QED
  BY <1>2, <1>3, <1>4, <1>5 DEF LocatedIn, HasListener

\* An id more in the index.
LEMMA IndexGrows ==
  ASSUME NEW old, NEW new, NEW id, NEW at, id \notin DOMAIN old.index,
         new.index = Put(old.index, id, at)
  PROVE  /\ DOMAIN new.index = DOMAIN old.index \cup {id} /\ new.index[id] = at
         /\ \A x \in DOMAIN old.index : x \in DOMAIN new.index /\ new.index[x] = old.index[x]
         /\ \A x, what : Indexed(old, x, what) => Indexed(new, x, what)
         /\ \A x, what, t : IndexedUnder(old, x, what, t) => IndexedUnder(new, x, what, t)
<1>1. /\ DOMAIN new.index = DOMAIN old.index \cup {id} /\ new.index[id] = at
      /\ \A x \in DOMAIN old.index : x \in DOMAIN new.index /\ new.index[x] = old.index[x]
  BY DEF Put
<1>2. \A x, what : Indexed(old, x, what) => Indexed(new, x, what)
  BY <1>1 DEF Indexed
<1>3. \A x, what, t : IndexedUnder(old, x, what, t) => IndexedUnder(new, x, what, t)
  BY <1>1, <1>2 DEF IndexedUnder, Indexed
<1> QED
  BY <1>1, <1>2, <1>3

\* An addition under a new id keeps the registry exact.
LEMMA AddExact ==
  ASSUME RegistryOK(registry), RegistryExact(registry),
         NEW r, r.op \in AddOps, WellFormed(r), r.id \in Nat, r.id \notin DOMAIN registry.index
  PROVE  /\ RegistryExact(Added(r))
         /\ DOMAIN Added(r).index = DOMAIN registry.index \cup {r.id}
<1> DEFINE new == Added(r)
<1>1. \A l \in registry.deadLetters : l.id # r.id
  BY DEF RegistryExact, IndexedUnder, Indexed
<1>2. \A t \in DOMAIN registry.slots : \A l \in registry.slots[t].listeners : l.id # r.id
  BY DEF RegistryExact, SlotExact, IndexedUnder, Indexed
<1>3. CASE r.op = "global"
  <2> DEFINE mw == Middleware(r.id, r.kind)
             at == <<"global">>
  <2>1. /\ new.globals = Append(registry.globals, mw)
        /\ new.index = Put(registry.index, r.id, at)
        /\ new.deadLetters = registry.deadLetters /\ new.slots = registry.slots
    BY <1>3 DEF Added, AddGlobalMiddleware, RegistryOK, Fields, Middleware
  <2>2. mw \in MiddlewareRecords /\ mw.id = r.id /\ at[1] = "global"
    BY DEF Middleware, MiddlewareRecords, WellFormed
  <2> HIDE DEF new, mw, at
  <2>3. /\ new.globals \in Seq(MiddlewareRecords)
        /\ IdsOf(new.globals) = IdsOf(registry.globals) \cup {r.id}
    BY <2>1, <2>2, AppendIds DEF RegistryExact
  <2>4. /\ DOMAIN new.index = DOMAIN registry.index \cup {r.id} /\ new.index[r.id] = at
        /\ \A x \in DOMAIN registry.index : x \in DOMAIN new.index /\ new.index[x] = registry.index[x]
        /\ \A x, what : Indexed(registry, x, what) => Indexed(new, x, what)
        /\ \A x, what, t : IndexedUnder(registry, x, what, t) => IndexedUnder(new, x, what, t)
    BY <2>1, IndexGrows
  <2>5. Indexed(new, r.id, "global")
    BY <2>2, <2>4 DEF Indexed
  <2>6. ASSUME NEW id \in DOMAIN registry.index PROVE LocatedIn(new, id)
    BY <2>1, <2>3, <2>4, LocatedCarried DEF RegistryExact
  <2>7. LocatedIn(new, r.id)
    BY <2>3, <2>5 DEF LocatedIn
  <2>8. ASSUME NEW t \in DOMAIN new.slots PROVE SlotExact(new, t)
    BY <2>1, <2>4, SlotCarried DEF RegistryExact
  <2>9. ~SnapshotPanics(new)
    BY <2>1 DEF RegistryExact, SnapshotPanics
  <2>10. /\ \A id \in IdsOf(new.globals) : Indexed(new, id, "global")
         /\ \A l \in new.deadLetters : IndexedUnder(new, l.id, "listener", DeadLetter)
         /\ ListenersOK(new.deadLetters)
    BY <2>1, <2>3, <2>4, <2>5 DEF RegistryExact
  <2>11. RegistryExact(new)
    BY <2>3, <2>4, <2>6, <2>7, <2>8, <2>9, <2>10 DEF RegistryExact
  <2> QED BY <2>4, <2>11 DEF new
<1>4. CASE r.op = "listener" /\ r.type = DeadLetter
  <2> DEFINE l == Listener(r.id, r.kind, r.priority)
             at == <<"listener", DeadLetter>>
  <2>1. /\ new.globals = registry.globals /\ new.slots = registry.slots
        /\ new.index = Put(registry.index, r.id, at)
        /\ new.deadLetters = registry.deadLetters \cup {l}
    BY <1>4 DEF Added, AddListener, RegistryOK, Fields, Listener
  <2>2. ListenersOK(registry.deadLetters \cup {l})
    BY <1>1, <1>4, ListenersGrow DEF RegistryExact
  <2>3. l.id = r.id /\ l.kind = "sync" /\ at[1] = "listener" /\ at[2] = DeadLetter
    BY <1>4 DEF Listener, WellFormed
  <2> HIDE DEF new, l, at
  <2>4. /\ DOMAIN new.index = DOMAIN registry.index \cup {r.id} /\ new.index[r.id] = at
        /\ \A x \in DOMAIN registry.index : x \in DOMAIN new.index /\ new.index[x] = registry.index[x]
        /\ \A x, what : Indexed(registry, x, what) => Indexed(new, x, what)
        /\ \A x, what, t : IndexedUnder(registry, x, what, t) => IndexedUnder(new, x, what, t)
    BY <2>1, IndexGrows
  <2>5. IndexedUnder(new, l.id, "listener", DeadLetter)
    BY <2>3, <2>4 DEF Indexed, IndexedUnder
  <2>6. ASSUME NEW id \in DOMAIN registry.index PROVE LocatedIn(new, id)
    BY <2>1, <2>4, LocatedCarried DEF RegistryExact, HasListener
  <2>7. LocatedIn(new, r.id)
    BY <2>1, <2>3, <2>5 DEF LocatedIn
  <2>8. ASSUME NEW t \in DOMAIN new.slots PROVE SlotExact(new, t)
    BY <2>1, <2>4, SlotCarried DEF RegistryExact
  <2>9. ~SnapshotPanics(new)
    BY <2>1, <2>3 DEF RegistryExact, SnapshotPanics, OfKind
  <2>10. /\ \A id \in IdsOf(new.globals) : Indexed(new, id, "global")
         /\ \A x \in new.deadLetters : IndexedUnder(new, x.id, "listener", DeadLetter)
         /\ new.globals \in Seq(MiddlewareRecords)
    BY <2>1, <2>4, <2>5 DEF RegistryExact
  <2>11. RegistryExact(new)
    BY <2>1, <2>2, <2>4, <2>6, <2>7, <2>8, <2>9, <2>10 DEF RegistryExact
  <2> QED BY <2>4, <2>11 DEF new
<1>5. CASE r.op = "listener" /\ r.type # DeadLetter
  <2> DEFINE l == Listener(r.id, r.kind, r.priority)
             at == <<"listener", r.type>>
             L == IF r.type \in DOMAIN registry.slots THEN registry.slots[r.type].listeners ELSE {}
             M == IF r.type \in DOMAIN registry.slots THEN registry.slots[r.type].middlewares
                  ELSE <<>>
  <2>1. /\ new.globals = registry.globals /\ new.deadLetters = registry.deadLetters
        /\ new.index = Put(registry.index, r.id, at)
        /\ DOMAIN new.slots = DOMAIN registry.slots \cup {r.type}
        /\ \A t \in DOMAIN registry.slots \ {r.type} : new.slots[t] = registry.slots[t]
        /\ new.slots[r.type].listeners = L \cup {l}
        /\ new.slots[r.type].middlewares = M
    BY <1>5, AddedListener
  <2>2. ListenersOK(L \cup {l})
    <3>1. ListenersOK(L) /\ \A x \in L : x.id # r.id
      BY <1>2, FS_EmptySet DEF RegistryExact, SlotExact, ListenersOK
    <3> HIDE DEF L
    <3> QED BY <1>5, <3>1, ListenersGrow
  <2>3. l.id = r.id /\ at[1] = "listener" /\ at[2] = r.type
    BY DEF Listener
  <2>4. M \in Seq(MiddlewareRecords)
    BY EmptySeq DEF RegistryExact, SlotExact
  <2>5. /\ \A x \in L : IndexedUnder(registry, x.id, "listener", r.type)
        /\ \A id \in IdsOf(M) : IndexedUnder(registry, id, "typed", r.type)
    BY DEF RegistryExact, SlotExact, IdsOf
  <2>6. r.type \in DOMAIN registry.slots =>
          registry.slots[r.type].listeners = L /\ registry.slots[r.type].middlewares = M
    OBVIOUS
  <2> HIDE DEF new, l, at, L, M
  <2>7. /\ DOMAIN new.index = DOMAIN registry.index \cup {r.id} /\ new.index[r.id] = at
        /\ \A x \in DOMAIN registry.index : x \in DOMAIN new.index /\ new.index[x] = registry.index[x]
        /\ \A x, what : Indexed(registry, x, what) => Indexed(new, x, what)
        /\ \A x, what, t : IndexedUnder(registry, x, what, t) => IndexedUnder(new, x, what, t)
    BY <2>1, IndexGrows
  <2>8. IndexedUnder(new, l.id, "listener", r.type)
    BY <2>3, <2>7 DEF Indexed, IndexedUnder
  <2>9. ASSUME NEW id \in DOMAIN registry.index PROVE LocatedIn(new, id)
    <3>1. ASSUME NEW t \in DOMAIN registry.slots
          PROVE  /\ id \in IdsOf(registry.slots[t].middlewares) =>
                      t \in DOMAIN new.slots /\ id \in IdsOf(new.slots[t].middlewares)
                 /\ HasListener(registry.slots[t].listeners, id) =>
                      t \in DOMAIN new.slots /\ HasListener(new.slots[t].listeners, id)
      BY <2>1, <2>6 DEF HasListener
    <3> QED BY <2>1, <2>7, <3>1, LocatedCarried DEF RegistryExact
  <2>10. LocatedIn(new, r.id)
    BY <1>5, <2>1, <2>3, <2>8 DEF LocatedIn
  <2>11. ASSUME NEW t \in DOMAIN registry.slots \ {r.type} PROVE SlotExact(new, t)
    BY <2>1, <2>7, SlotCarried DEF RegistryExact
  <2>12. SlotExact(new, r.type)
    <3>1. /\ \A x \in L : IndexedUnder(new, x.id, "listener", r.type)
          /\ \A id \in IdsOf(M) : IndexedUnder(new, id, "typed", r.type)
      BY <2>5, <2>7
    <3> QED BY <1>5, <2>1, <2>2, <2>4, <2>8, <3>1 DEF SlotExact, Vacant
  <2>13. ~SnapshotPanics(new)
    BY <2>1 DEF RegistryExact, SnapshotPanics
  <2>14. /\ \A id \in IdsOf(new.globals) : Indexed(new, id, "global")
         /\ \A x \in new.deadLetters : IndexedUnder(new, x.id, "listener", DeadLetter)
         /\ new.globals \in Seq(MiddlewareRecords) /\ ListenersOK(new.deadLetters)
    BY <2>1, <2>7 DEF RegistryExact
  <2>15. RegistryExact(new)
    BY <2>1, <2>7, <2>9, <2>10, <2>11, <2>12, <2>13, <2>14 DEF RegistryExact
  <2> QED BY <2>7, <2>15 DEF new
<1>6. CASE r.op = "typed"
  <2> DEFINE mw == Middleware(r.id, r.kind)
             at == <<"typed", r.type>>
             L == IF r.type \in DOMAIN registry.slots THEN registry.slots[r.type].listeners ELSE {}
             M == IF r.type \in DOMAIN registry.slots THEN registry.slots[r.type].middlewares
                  ELSE <<>>
  <2>1. /\ new.globals = registry.globals /\ new.deadLetters = registry.deadLetters
        /\ new.index = Put(registry.index, r.id, at)
        /\ DOMAIN new.slots = DOMAIN registry.slots \cup {r.type}
        /\ \A t \in DOMAIN registry.slots \ {r.type} : new.slots[t] = registry.slots[t]
        /\ new.slots[r.type].listeners = L
        /\ new.slots[r.type].middlewares = Append(M, mw)
    BY <1>6, AddedTyped
  <2>2. ListenersOK(L)
    BY FS_EmptySet DEF RegistryExact, SlotExact, ListenersOK
  <2>3. mw \in MiddlewareRecords /\ mw.id = r.id /\ at[1] = "typed" /\ at[2] = r.type
    BY DEF Middleware, MiddlewareRecords, WellFormed
  <2>4. M \in Seq(MiddlewareRecords)
    BY EmptySeq DEF RegistryExact, SlotExact
  <2>5. /\ \A x \in L : r.type # DeadLetter /\ IndexedUnder(registry, x.id, "listener", r.type)
        /\ \A id \in IdsOf(M) : IndexedUnder(registry, id, "typed", r.type)
    BY DEF RegistryExact, SlotExact, IdsOf
  <2>6. r.type \in DOMAIN registry.slots =>
          registry.slots[r.type].listeners = L /\ registry.slots[r.type].middlewares = M
    OBVIOUS
  <2> HIDE DEF new, mw, at, L, M
  <2>7. /\ Append(M, mw) \in Seq(MiddlewareRecords)
        /\ IdsOf(Append(M, mw)) = IdsOf(M) \cup {r.id}
        /\ Append(M, mw) # <<>>
    <3>1. Len(Append(M, mw)) = Len(M) + 1 /\ Len(M) \in Nat
      BY <2>3, <2>4, AppendProperties, LenProperties
    <3>2. Append(M, mw) # <<>>
      BY <3>1, EmptySeq
    <3> QED BY <2>3, <2>4, <3>2, AppendIds
  <2>8. /\ DOMAIN new.index = DOMAIN registry.index \cup {r.id} /\ new.index[r.id] = at
        /\ \A x \in DOMAIN registry.index : x \in DOMAIN new.index /\ new.index[x] = registry.index[x]
        /\ \A x, what : Indexed(registry, x, what) => Indexed(new, x, what)
        /\ \A x, what, t : IndexedUnder(registry, x, what, t) => IndexedUnder(new, x, what, t)
    BY <2>1, IndexGrows
  <2>9. IndexedUnder(new, r.id, "typed", r.type)
    BY <2>3, <2>8 DEF Indexed, IndexedUnder
  <2>10. ASSUME NEW id \in DOMAIN registry.index PROVE LocatedIn(new, id)
    <3>1. ASSUME NEW t \in DOMAIN registry.slots
          PROVE  /\ id \in IdsOf(registry.slots[t].middlewares) =>
                      t \in DOMAIN new.slots /\ id \in IdsOf(new.slots[t].middlewares)
                 /\ HasListener(registry.slots[t].listeners, id) =>
                      t \in DOMAIN new.slots /\ HasListener(new.slots[t].listeners, id)
      BY <2>1, <2>6, <2>7 DEF HasListener
    <3> QED BY <2>1, <2>8, <3>1, LocatedCarried DEF RegistryExact
  <2>11. LocatedIn(new, r.id)
    BY <2>1, <2>7, <2>9 DEF LocatedIn
  <2>12. ASSUME NEW t \in DOMAIN registry.slots \ {r.type} PROVE SlotExact(new, t)
    BY <2>1, <2>8, SlotCarried DEF RegistryExact
  <2>13. SlotExact(new, r.type)
    <3>1. /\ \A x \in L : IndexedUnder(new, x.id, "listener", r.type)
          /\ \A id \in IdsOf(M) : IndexedUnder(new, id, "typed", r.type)
      BY <2>5, <2>8
    <3> QED BY <2>1, <2>2, <2>5, <2>7, <2>9, <3>1 DEF SlotExact, Vacant
  <2>14. ~SnapshotPanics(new)
    BY <2>1 DEF RegistryExact, SnapshotPanics
  <2>15. /\ \A id \in IdsOf(new.globals) : Indexed(new, id, "global")
         /\ \A x \in new.deadLetters : IndexedUnder(new, x.id, "listener", DeadLetter)
         /\ new.globals \in Seq(MiddlewareRecords) /\ ListenersOK(new.deadLetters)
    BY <2>1, <2>8 DEF RegistryExact
  <2>16. RegistryExact(new)
    BY <2>1, <2>8, <2>10, <2>11, <2>12, <2>13, <2>14, <2>15 DEF RegistryExact
  <2> QED BY <2>8, <2>16 DEF new
<1> QED
  BY <1>3, <1>4, <1>5, <1>6 DEF AddOps

\* What remove_subscription does to each field, of a listener of an event type.
LEMMA RemovedListener ==
  ASSUME RegistryOK(registry), NEW id \in DOMAIN registry.index, NEW type \in DOMAIN registry.slots,
         IndexedUnder(registry, id, "listener", type), type # DeadLetter
  PROVE  LET new == RemoveSubscription(registry, id)
             L == WithoutListener(registry.slots[type].listeners, id)
             M == registry.slots[type].middlewares
         IN /\ new.globals = registry.globals /\ new.deadLetters = registry.deadLetters
            /\ new.index = Without(registry.index, id)
            /\ DOMAIN new.slots = IF L = {} /\ M = <<>> THEN DOMAIN registry.slots \ {type}
                                  ELSE DOMAIN registry.slots
            /\ \A t \in DOMAIN new.slots \ {type} : new.slots[t] = registry.slots[t]
            /\ type \in DOMAIN new.slots =>
                 new.slots[type].listeners = L /\ new.slots[type].middlewares = M
<1> DEFINE new == RemoveSubscription(registry, id)
           L == WithoutListener(registry.slots[type].listeners, id)
           M == registry.slots[type].middlewares
           rest == [registry EXCEPT !.index = Without(@, id)]
           fewer == [rest EXCEPT !.slots[type].listeners = L]
<1>1. /\ DOMAIN rest = Fields /\ rest.globals = registry.globals /\ rest.slots = registry.slots
      /\ rest.deadLetters = registry.deadLetters /\ rest.index = Without(registry.index, id)
  BY DEF RegistryOK, Fields
<1>2. registry.index[id][1] = "listener" /\ registry.index[id][2] = type
  BY DEF IndexedUnder, Indexed
<1>3. new = DropIfVacant([rest EXCEPT !.slots[type].listeners = WithoutListener(@, id)], type)
  BY <1>2 DEF RemoveSubscription
<1>4. [rest EXCEPT !.slots[type].listeners = WithoutListener(@, id)] = fewer
  BY <1>1
<1> HIDE DEF L, rest, new
<1>5. /\ DOMAIN fewer = Fields /\ fewer.globals = registry.globals
      /\ fewer.deadLetters = registry.deadLetters /\ fewer.index = Without(registry.index, id)
      /\ DOMAIN fewer.slots = DOMAIN registry.slots
      /\ \A t \in DOMAIN registry.slots \ {type} : fewer.slots[t] = registry.slots[t]
      /\ fewer.slots[type] = [registry.slots[type] EXCEPT !.listeners = L]
  BY <1>1 DEF Fields
<1> HIDE DEF fewer
<1>6. fewer.slots[type].listeners = L /\ fewer.slots[type].middlewares = M
  BY <1>5 DEF RegistryOK, GatesBelow, SlotFields
<1> HIDE DEF M
<1>7. new = DropIfVacant(fewer, type) /\ type \in DOMAIN fewer.slots
  BY <1>3, <1>4, <1>5
<1>8. /\ new.globals = fewer.globals /\ new.deadLetters = fewer.deadLetters
      /\ new.index = fewer.index
      /\ DOMAIN new.slots =
           IF Vacant(fewer.slots[type]) THEN DOMAIN fewer.slots \ {type} ELSE DOMAIN fewer.slots
      /\ \A t \in DOMAIN new.slots : new.slots[t] = fewer.slots[t]
  BY <1>5, <1>7 DEF DropIfVacant, Without, Fields
<1>9. Vacant(fewer.slots[type]) <=> L = {} /\ M = <<>>
  BY <1>6 DEF Vacant
<1>10. DOMAIN new.slots = IF L = {} /\ M = <<>> THEN DOMAIN registry.slots \ {type}
                          ELSE DOMAIN registry.slots
  BY <1>5, <1>8, <1>9
<1>11. /\ \A t \in DOMAIN new.slots \ {type} : new.slots[t] = registry.slots[t]
       /\ type \in DOMAIN new.slots =>
            new.slots[type].listeners = L /\ new.slots[type].middlewares = M
  BY <1>5, <1>6, <1>8
<1>12. /\ new.globals = registry.globals /\ new.deadLetters = registry.deadLetters
       /\ new.index = Without(registry.index, id)
  BY <1>5, <1>8
<1> QED
  BY <1>10, <1>11, <1>12, Zenon DEF new, L, M

\* And of a middleware of an event type.
LEMMA RemovedTyped ==
  ASSUME RegistryOK(registry), NEW id \in DOMAIN registry.index, NEW type \in DOMAIN registry.slots,
         IndexedUnder(registry, id, "typed", type)
  PROVE  LET new == RemoveSubscription(registry, id)
             L == registry.slots[type].listeners
             M == WithoutMiddleware(registry.slots[type].middlewares, id)
         IN /\ new.globals = registry.globals /\ new.deadLetters = registry.deadLetters
            /\ new.index = Without(registry.index, id)
            /\ DOMAIN new.slots = IF L = {} /\ M = <<>> THEN DOMAIN registry.slots \ {type}
                                  ELSE DOMAIN registry.slots
            /\ \A t \in DOMAIN new.slots \ {type} : new.slots[t] = registry.slots[t]
            /\ type \in DOMAIN new.slots =>
                 new.slots[type].listeners = L /\ new.slots[type].middlewares = M
<1> DEFINE new == RemoveSubscription(registry, id)
           L == registry.slots[type].listeners
           M == WithoutMiddleware(registry.slots[type].middlewares, id)
           rest == [registry EXCEPT !.index = Without(@, id)]
           less == [rest EXCEPT !.slots[type].middlewares = M]
<1>1. /\ DOMAIN rest = Fields /\ rest.globals = registry.globals /\ rest.slots = registry.slots
      /\ rest.deadLetters = registry.deadLetters /\ rest.index = Without(registry.index, id)
  BY DEF RegistryOK, Fields
<1>2. registry.index[id][1] = "typed" /\ registry.index[id][2] = type
  BY DEF IndexedUnder, Indexed
<1>3. new = DropIfVacant([rest EXCEPT !.slots[type].middlewares = WithoutMiddleware(@, id)], type)
  BY <1>2 DEF RemoveSubscription
<1>4. [rest EXCEPT !.slots[type].middlewares = WithoutMiddleware(@, id)] = less
  BY <1>1
<1> HIDE DEF M, rest, new
<1>5. /\ DOMAIN less = Fields /\ less.globals = registry.globals
      /\ less.deadLetters = registry.deadLetters /\ less.index = Without(registry.index, id)
      /\ DOMAIN less.slots = DOMAIN registry.slots
      /\ \A t \in DOMAIN registry.slots \ {type} : less.slots[t] = registry.slots[t]
      /\ less.slots[type] = [registry.slots[type] EXCEPT !.middlewares = M]
  BY <1>1 DEF Fields
<1> HIDE DEF less
<1>6. less.slots[type].listeners = L /\ less.slots[type].middlewares = M
  BY <1>5 DEF RegistryOK, GatesBelow, SlotFields
<1> HIDE DEF L
<1>7. new = DropIfVacant(less, type) /\ type \in DOMAIN less.slots
  BY <1>3, <1>4, <1>5
<1>8. /\ new.globals = less.globals /\ new.deadLetters = less.deadLetters
      /\ new.index = less.index
      /\ DOMAIN new.slots =
           IF Vacant(less.slots[type]) THEN DOMAIN less.slots \ {type} ELSE DOMAIN less.slots
      /\ \A t \in DOMAIN new.slots : new.slots[t] = less.slots[t]
  BY <1>5, <1>7 DEF DropIfVacant, Without, Fields
<1>9. Vacant(less.slots[type]) <=> L = {} /\ M = <<>>
  BY <1>6 DEF Vacant
<1>10. DOMAIN new.slots = IF L = {} /\ M = <<>> THEN DOMAIN registry.slots \ {type}
                          ELSE DOMAIN registry.slots
  BY <1>5, <1>8, <1>9
<1>11. /\ \A t \in DOMAIN new.slots \ {type} : new.slots[t] = registry.slots[t]
       /\ type \in DOMAIN new.slots =>
            new.slots[type].listeners = L /\ new.slots[type].middlewares = M
  BY <1>5, <1>6, <1>8
<1>12. /\ new.globals = registry.globals /\ new.deadLetters = registry.deadLetters
       /\ new.index = Without(registry.index, id)
  BY <1>5, <1>8
<1> QED
  BY <1>10, <1>11, <1>12, Zenon DEF new, L, M

\* An id less in the index.
LEMMA IndexShrinks ==
  ASSUME NEW old, NEW new, NEW id, new.index = Without(old.index, id)
  PROVE  /\ DOMAIN new.index = DOMAIN old.index \ {id}
         /\ \A x \in DOMAIN new.index : new.index[x] = old.index[x]
         /\ \A x, what : x # id /\ Indexed(old, x, what) => Indexed(new, x, what)
         /\ \A x, what, t : x # id /\ IndexedUnder(old, x, what, t) => IndexedUnder(new, x, what, t)
<1>1. /\ DOMAIN new.index = DOMAIN old.index \ {id}
      /\ \A x \in DOMAIN new.index : new.index[x] = old.index[x]
  BY DEF Without
<1>2. \A x, what : x # id /\ Indexed(old, x, what) => Indexed(new, x, what)
  BY <1>1 DEF Indexed
<1>3. \A x, what, t : x # id /\ IndexedUnder(old, x, what, t) => IndexedUnder(new, x, what, t)
  BY <1>1, <1>2 DEF IndexedUnder, Indexed
<1> QED
  BY <1>1, <1>2, <1>3

\* A removal keeps the registry exact and takes the id out of it.
LEMMA RemoveExact ==
  ASSUME RegistryOK(registry), RegistryExact(registry), NEW id \in DOMAIN registry.index
  PROVE  /\ RegistryExact(RemoveSubscription(registry, id))
         /\ DOMAIN RemoveSubscription(registry, id).index = DOMAIN registry.index \ {id}
<1> DEFINE new == RemoveSubscription(registry, id)
<1>1. LocatedIn(registry, id)
  BY DEF RegistryExact
<1>2. CASE Indexed(registry, id, "global") /\ id \in IdsOf(registry.globals)
  <2>1. /\ new.globals = WithoutMiddleware(registry.globals, id)
        /\ new.index = Without(registry.index, id)
        /\ new.deadLetters = registry.deadLetters /\ new.slots = registry.slots
    BY <1>2 DEF RemoveSubscription, RegistryOK, Fields, Indexed
  <2> HIDE DEF new
  <2>2. /\ new.globals \in Seq(MiddlewareRecords)
        /\ IdsOf(new.globals) = IdsOf(registry.globals) \ {id}
    BY <2>1, RetainRemoves DEF RegistryExact
  <2>3. /\ DOMAIN new.index = DOMAIN registry.index \ {id}
        /\ \A x \in DOMAIN new.index : new.index[x] = registry.index[x]
        /\ \A x, what : x # id /\ Indexed(registry, x, what) => Indexed(new, x, what)
        /\ \A x, what, t :
             x # id /\ IndexedUnder(registry, x, what, t) => IndexedUnder(new, x, what, t)
    BY <2>1, IndexShrinks
  <2>4. \A what, t : what # "global" => ~IndexedUnder(registry, id, what, t)
    BY <1>2 DEF Indexed, IndexedUnder
  <2>5. /\ \A l \in registry.deadLetters : l.id # id
        /\ \A t \in DOMAIN registry.slots :
             /\ \A l \in registry.slots[t].listeners : l.id # id
             /\ id \notin IdsOf(registry.slots[t].middlewares)
    BY <2>4 DEF RegistryExact, SlotExact
  <2>6. ASSUME NEW x \in DOMAIN new.index PROVE LocatedIn(new, x)
    <3>1. LocatedIn(registry, x) /\ x # id
      BY <2>3 DEF RegistryExact
    <3> QED BY <2>1, <2>2, <2>3, <3>1, LocatedCarried
  <2>7. ASSUME NEW t \in DOMAIN new.slots PROVE SlotExact(new, t)
    <3>1. SlotExact(registry, t)
      BY <2>1 DEF RegistryExact
    <3> QED BY <2>1, <2>3, <2>5, <3>1 DEF SlotExact
  <2>8. /\ \A x \in IdsOf(new.globals) : Indexed(new, x, "global")
        /\ \A l \in new.deadLetters : IndexedUnder(new, l.id, "listener", DeadLetter)
        /\ ListenersOK(new.deadLetters)
    BY <2>1, <2>2, <2>3, <2>5 DEF RegistryExact
  <2>9. ~SnapshotPanics(new)
    BY <2>1 DEF RegistryExact, SnapshotPanics
  <2>10. RegistryExact(new)
    BY <2>2, <2>6, <2>7, <2>8, <2>9 DEF RegistryExact
  <2> QED BY <2>3, <2>10 DEF new
<1>3. CASE IndexedUnder(registry, id, "listener", DeadLetter)
  <2>1. /\ new.deadLetters = WithoutListener(registry.deadLetters, id)
        /\ new.index = Without(registry.index, id)
        /\ new.globals = registry.globals /\ new.slots = registry.slots
    BY <1>3 DEF RemoveSubscription, RegistryOK, Fields, Indexed, IndexedUnder
  <2> HIDE DEF new
  <2>2. ListenersOK(new.deadLetters)
    BY <2>1, ListenersShrink DEF RegistryExact
  <2>3. /\ DOMAIN new.index = DOMAIN registry.index \ {id}
        /\ \A x \in DOMAIN new.index : new.index[x] = registry.index[x]
        /\ \A x, what : x # id /\ Indexed(registry, x, what) => Indexed(new, x, what)
        /\ \A x, what, t :
             x # id /\ IndexedUnder(registry, x, what, t) => IndexedUnder(new, x, what, t)
    BY <2>1, IndexShrinks
  <2>4. /\ ~Indexed(registry, id, "global") /\ \A t : ~IndexedUnder(registry, id, "typed", t)
        /\ \A t : t # DeadLetter => ~IndexedUnder(registry, id, "listener", t)
    BY <1>3 DEF Indexed, IndexedUnder
  <2>5. /\ id \notin IdsOf(registry.globals)
        /\ \A t \in DOMAIN registry.slots :
             /\ \A l \in registry.slots[t].listeners : l.id # id
             /\ id \notin IdsOf(registry.slots[t].middlewares)
    BY <2>4 DEF RegistryExact, SlotExact
  <2>6. ASSUME NEW x \in DOMAIN new.index PROVE LocatedIn(new, x)
    <3>1. LocatedIn(registry, x) /\ x # id
      BY <2>3 DEF RegistryExact
    <3>2. HasListener(registry.deadLetters, x) => HasListener(new.deadLetters, x)
      BY <2>1, <3>1 DEF HasListener, WithoutListener
    <3> QED BY <2>1, <2>3, <3>1, <3>2, LocatedCarried
  <2>7. ASSUME NEW t \in DOMAIN new.slots PROVE SlotExact(new, t)
    <3>1. SlotExact(registry, t)
      BY <2>1 DEF RegistryExact
    <3> QED BY <2>1, <2>3, <2>5, <3>1 DEF SlotExact
  <2>8. /\ \A x \in IdsOf(new.globals) : Indexed(new, x, "global")
        /\ \A l \in new.deadLetters : IndexedUnder(new, l.id, "listener", DeadLetter)
        /\ new.globals \in Seq(MiddlewareRecords)
    BY <2>1, <2>3, <2>5 DEF RegistryExact, WithoutListener
  <2>9. ~SnapshotPanics(new)
    BY <2>1 DEF RegistryExact, SnapshotPanics, OfKind, WithoutListener
  <2>10. RegistryExact(new)
    BY <2>2, <2>6, <2>7, <2>8, <2>9 DEF RegistryExact
  <2> QED BY <2>3, <2>10 DEF new
<1>4. ASSUME NEW type \in DOMAIN registry.slots,
             \/ IndexedUnder(registry, id, "listener", type) /\ type # DeadLetter
             \/ IndexedUnder(registry, id, "typed", type)
      PROVE  /\ RegistryExact(RemoveSubscription(registry, id))
             /\ DOMAIN RemoveSubscription(registry, id).index = DOMAIN registry.index \ {id}
  <2> DEFINE had == registry.slots[type]
             L == IF Indexed(registry, id, "listener") THEN WithoutListener(had.listeners, id)
                  ELSE had.listeners
             M == IF Indexed(registry, id, "typed") THEN WithoutMiddleware(had.middlewares, id)
                  ELSE had.middlewares
  <2>1. /\ new.globals = registry.globals /\ new.deadLetters = registry.deadLetters
        /\ new.index = Without(registry.index, id)
        /\ DOMAIN new.slots = IF L = {} /\ M = <<>> THEN DOMAIN registry.slots \ {type}
                              ELSE DOMAIN registry.slots
        /\ \A t \in DOMAIN new.slots \ {type} : new.slots[t] = registry.slots[t]
        /\ type \in DOMAIN new.slots => new.slots[type].listeners = L /\ new.slots[type].middlewares = M
    <3>1. CASE IndexedUnder(registry, id, "listener", type) /\ type # DeadLetter
      <4>1. L = WithoutListener(had.listeners, id) /\ M = had.middlewares
        BY <3>1 DEF Indexed, IndexedUnder
      <4> HIDE DEF L, M, new
      <4> QED BY <3>1, <4>1, RemovedListener DEF new
    <3>2. CASE IndexedUnder(registry, id, "typed", type)
      <4>1. L = had.listeners /\ M = WithoutMiddleware(had.middlewares, id)
        BY <3>2 DEF Indexed, IndexedUnder
      <4> HIDE DEF L, M, new
      <4> QED BY <3>2, <4>1, RemovedTyped DEF new
    <3> QED BY <1>4, <3>1, <3>2
  <2> HIDE DEF new
  <2>2. SlotExact(registry, type) /\ RegistryExact(registry)
    BY DEF RegistryExact
  <2>3. /\ DOMAIN new.index = DOMAIN registry.index \ {id}
        /\ \A x \in DOMAIN new.index : new.index[x] = registry.index[x]
        /\ \A x, what : x # id /\ Indexed(registry, x, what) => Indexed(new, x, what)
        /\ \A x, what, t :
             x # id /\ IndexedUnder(registry, x, what, t) => IndexedUnder(new, x, what, t)
    BY <2>1, IndexShrinks
  <2>4. /\ ~Indexed(registry, id, "global")
        /\ ~IndexedUnder(registry, id, "listener", DeadLetter)
        /\ \A what, t : t # type => ~IndexedUnder(registry, id, what, t)
    BY <1>4 DEF Indexed, IndexedUnder
  <2>5. /\ id \notin IdsOf(registry.globals) /\ \A l \in registry.deadLetters : l.id # id
        /\ \A t \in DOMAIN registry.slots \ {type} :
             /\ \A l \in registry.slots[t].listeners : l.id # id
             /\ id \notin IdsOf(registry.slots[t].middlewares)
    <3>1. id \notin IdsOf(registry.globals) /\ \A l \in registry.deadLetters : l.id # id
      BY <2>4 DEF RegistryExact
    <3>2. ASSUME NEW t \in DOMAIN registry.slots, t # type
          PROVE  /\ \A l \in registry.slots[t].listeners : l.id # id
                 /\ id \notin IdsOf(registry.slots[t].middlewares)
      <4>1. SlotExact(registry, t)
        BY DEF RegistryExact
      <4> QED BY <2>4, <3>2, <4>1 DEF SlotExact
    <3> QED BY <3>1, <3>2
  <2>6. /\ L \in SUBSET had.listeners /\ \A l \in had.listeners : l.id # id => l \in L
        /\ \A l \in L : l.id # id
        /\ ListenersOK(L)
    <3>1. CASE Indexed(registry, id, "listener")
      BY <2>2, <3>1, ListenersShrink DEF SlotExact, WithoutListener
    <3>2. CASE ~Indexed(registry, id, "listener")
      BY <2>2, <3>2 DEF SlotExact, IndexedUnder
    <3> QED BY <3>1, <3>2
  <2>7. M \in Seq(MiddlewareRecords) /\ IdsOf(M) = IdsOf(had.middlewares) \ {id}
    <3>1. CASE Indexed(registry, id, "typed")
      BY <2>2, <3>1, RetainRemoves DEF SlotExact
    <3>2. CASE ~Indexed(registry, id, "typed")
      BY <2>2, <3>2 DEF SlotExact, IndexedUnder
    <3> QED BY <3>1, <3>2
  <2> HIDE DEF L, M
  <2>8. ASSUME NEW x \in DOMAIN new.index PROVE LocatedIn(new, x)
    <3>1. LocatedIn(registry, x) /\ x # id
      BY <2>3 DEF RegistryExact
    <3>2. IdsOf(<<>>) = {}
      BY EmptySeq DEF IdsOf
    <3>3. ASSUME NEW t \in DOMAIN registry.slots
          PROVE  /\ x \in IdsOf(registry.slots[t].middlewares) =>
                      t \in DOMAIN new.slots /\ x \in IdsOf(new.slots[t].middlewares)
                 /\ HasListener(registry.slots[t].listeners, x) =>
                      t \in DOMAIN new.slots /\ HasListener(new.slots[t].listeners, x)
      <4>1. CASE t # type
        BY <2>1, <4>1
      <4>2. CASE t = type
        <5>1. x \in IdsOf(had.middlewares) => x \in IdsOf(M) /\ M # <<>>
          BY <2>7, <3>1, <3>2
        <5>2. HasListener(had.listeners, x) => HasListener(L, x) /\ L # {}
          BY <2>6, <3>1 DEF HasListener
        <5> QED BY <2>1, <4>2, <5>1, <5>2
      <4> QED BY <4>1, <4>2
    <3> QED BY <2>1, <2>3, <3>1, <3>3, LocatedCarried
  <2>9. ASSUME NEW t \in DOMAIN new.slots PROVE SlotExact(new, t)
    <3>1. CASE t # type
      <4>1. SlotExact(registry, t) /\ t \in DOMAIN registry.slots \ {type}
        BY <2>1, <3>1 DEF RegistryExact
      <4> QED BY <2>1, <2>3, <2>5, <3>1, <4>1 DEF SlotExact
    <3>2. CASE t = type
      <4>1. /\ \A l \in L : type # DeadLetter /\ IndexedUnder(registry, l.id, "listener", type)
            /\ \A x \in IdsOf(M) : IndexedUnder(registry, x, "typed", type) /\ x # id
        BY <2>2, <2>6, <2>7 DEF SlotExact
      <4>2. /\ \A l \in L : type # DeadLetter /\ IndexedUnder(new, l.id, "listener", type)
            /\ \A x \in IdsOf(M) : IndexedUnder(new, x, "typed", type)
        BY <2>3, <2>6, <4>1
      <4>3. new.slots[t].listeners = L /\ new.slots[t].middlewares = M /\ ~(L = {} /\ M = <<>>)
        BY <2>1, <3>2
      <4> QED BY <2>6, <2>7, <3>2, <4>2, <4>3 DEF SlotExact, Vacant
    <3> QED BY <3>1, <3>2
  <2>10. /\ \A x \in IdsOf(new.globals) : Indexed(new, x, "global")
         /\ \A l \in new.deadLetters : IndexedUnder(new, l.id, "listener", DeadLetter)
         /\ new.globals \in Seq(MiddlewareRecords) /\ ListenersOK(new.deadLetters)
    BY <2>1, <2>3, <2>5 DEF RegistryExact
  <2>11. ~SnapshotPanics(new)
    BY <2>1 DEF RegistryExact, SnapshotPanics
  <2>12. RegistryExact(new)
    BY <2>8, <2>9, <2>10, <2>11 DEF RegistryExact
  <2> QED BY <2>3, <2>12 DEF new
<1> QED
  BY <1>1, <1>2, <1>3, <1>4 DEF LocatedIn

-----------------------------------------------------------------------------
(* What the snapshot publishes, and the books that the calls keep          *)

ListenerIds(L) == {l.id : l \in L}

\* Sorting loses no listener.
LEMMA SortedIds ==
  ASSUME NEW L, ListenersOK(L)
  PROVE  /\ IdsOf(Sorted(L, ByPriority)) = ListenerIds(L)
         /\ IdsOf(Sorted(L, ByRegistration)) = ListenerIds(L)
<1>1. ASSUME NEW seq \in SetToSeqs(L) PROVE IdsOf(seq) = ListenerIds(L)
  <2>1. L = {seq[i] : i \in DOMAIN seq}
    BY SeqOfSet DEF ListenersOK
  <2>2. IdsOf(seq) = {l.id : l \in {seq[i] : i \in DOMAIN seq}}
    BY DEF IdsOf
  <2> QED BY <2>1, <2>2 DEF ListenerIds
<1> QED
  BY <1>1, SortedByPriority, SortedByRegistration

\* The two lists of a slot have all its listeners.
LEMMA SlotIds ==
  ASSUME NEW s, ListenersOK(s.listeners)
  PROVE  IdsOf(SnapshotSlot(s).syncListeners) \cup IdsOf(SnapshotSlot(s).asyncListeners)
           = ListenerIds(s.listeners)
<1> DEFINE L(kind) == OfKind(s.listeners, kind)
<1>1. ASSUME NEW kind PROVE ListenersOK(L(kind))
  <2>1. IsFiniteSet(L(kind))
    BY FS_Subset DEF ListenersOK, OfKind
  <2> QED BY <2>1 DEF ListenersOK, OfKind
<1>2. ListenerIds(s.listeners) = ListenerIds(L("sync")) \cup ListenerIds(L("async"))
  BY DEF ListenerIds, ListenersOK, OfKind
<1> HIDE DEF L
<1>3. /\ IdsOf(Sorted(L("sync"), ByPriority)) = ListenerIds(L("sync"))
      /\ IdsOf(Sorted(L("async"), ByRegistration)) = ListenerIds(L("async"))
  BY <1>1, SortedIds
<1> QED
  BY <1>2, <1>3 DEF SnapshotSlot, L

\* What dispatch can reach is what the index knows.
LEMMA PublishedIsIndexed ==
  ASSUME RegistryExact(registry), snapshot = RegistrySnapshotOf(registry)
  PROVE  Published = DOMAIN registry.index
<1>1. /\ DOMAIN snapshot.byType = DOMAIN registry.slots
      /\ \A t \in DOMAIN registry.slots : snapshot.byType[t] = SnapshotSlot(registry.slots[t])
      /\ snapshot.deadLetters = Sorted(registry.deadLetters, ByPriority)
      /\ snapshot.globals = registry.globals
  BY DEF RegistrySnapshotOf
<1>2. IdsOf(snapshot.deadLetters) = ListenerIds(registry.deadLetters)
  BY <1>1, SortedIds DEF RegistryExact
<1> DEFINE byType(t) == IdsOf(snapshot.byType[t].syncListeners)
                          \cup IdsOf(snapshot.byType[t].asyncListeners)
                          \cup IdsOf(snapshot.byType[t].middlewares)
<1>3. ASSUME NEW t \in DOMAIN registry.slots
      PROVE  byType(t) = ListenerIds(registry.slots[t].listeners)
                           \cup IdsOf(registry.slots[t].middlewares)
  <2>1. ListenersOK(registry.slots[t].listeners)
    BY DEF RegistryExact, SlotExact
  <2>2. SnapshotSlot(registry.slots[t]).middlewares = registry.slots[t].middlewares
    BY DEF SnapshotSlot
  <2> QED BY <1>1, <2>1, <2>2, SlotIds
<1>4. Published = IdsOf(registry.globals) \cup ListenerIds(registry.deadLetters)
                    \cup UNION {byType(t) : t \in DOMAIN registry.slots}
  BY <1>1, <1>2 DEF Published
<1> HIDE DEF byType
<1>5. \A id : id \in Published <=>
                \/ id \in IdsOf(registry.globals) \/ id \in ListenerIds(registry.deadLetters)
                \/ \E t \in DOMAIN registry.slots :
                     \/ id \in ListenerIds(registry.slots[t].listeners)
                     \/ id \in IdsOf(registry.slots[t].middlewares)
  BY <1>3, <1>4
<1>6. ASSUME NEW id \in Published PROVE id \in DOMAIN registry.index
  <2>1. CASE id \in IdsOf(registry.globals)
    BY <2>1 DEF RegistryExact, Indexed
  <2>2. CASE id \in ListenerIds(registry.deadLetters)
    BY <2>2 DEF RegistryExact, Indexed, IndexedUnder, ListenerIds
  <2>3. ASSUME NEW t \in DOMAIN registry.slots,
               \/ id \in ListenerIds(registry.slots[t].listeners)
               \/ id \in IdsOf(registry.slots[t].middlewares)
        PROVE  id \in DOMAIN registry.index
    BY <2>3 DEF RegistryExact, SlotExact, Indexed, IndexedUnder, ListenerIds
  <2> QED BY <1>5, <2>1, <2>2, <2>3
<1>7. ASSUME NEW id \in DOMAIN registry.index PROVE id \in Published
  <2>1. LocatedIn(registry, id)
    BY DEF RegistryExact
  <2> QED BY <1>5, <2>1 DEF LocatedIn, ListenerIds
<1> QED
  BY <1>6, <1>7

\* Where a call is only as a dropped guard.
Dropping == {"try_lock", "try_apply"}

\* The snapshot is the registry's, the index is exact, what is granted and not
\* yet given up is registered, what was removed is not, and every addition that
\* is under way has an id of its own.
Bookkeeping ==
  /\ snapshot = RegistrySnapshotOf(registry)
  /\ RegistryExact(registry)
  /\ DOMAIN registry.index \subseteq granted
  /\ granted \subseteq 1 .. nextSub - 1
  /\ granted \ released \subseteq DOMAIN registry.index
  /\ released \subseteq granted
  /\ removed \subseteq released \ DOMAIN registry.index
  /\ \A c \in Adding : WellFormed(request[c]) /\ request[c].id \in (1 .. nextSub - 1) \ granted
  /\ \A c, d \in Adding : request[c].id = request[d].id => c = d
  /\ \A c \in Callers : request[c].op \in {"unsubscribe", "drop"} => request[c].id \in released
  /\ DOMAIN pc = Callers
  /\ \A c \in Callers : pc[c] \in Dropping => request[c].op = "drop"

\* A subscription is in force until somebody asks to remove it, and gone after.
LEMMA SoundByBooks == Bookkeeping => SnapshotSound
<1> SUFFICES ASSUME Bookkeeping PROVE SnapshotSound
  OBVIOUS
<1>1. Published = DOMAIN registry.index
  BY PublishedIsIndexed DEF Bookkeeping
<1> QED
  BY <1>1 DEF Bookkeeping, SnapshotSound

\* The index and the entries agree.
LEMMA IndexedByBooks == Bookkeeping => IndexExact
<1> SUFFICES ASSUME Bookkeeping PROVE IndexExact
  OBVIOUS
<1>1. Published = DOMAIN registry.index
  BY PublishedIsIndexed DEF Bookkeeping
<1>2. \A t \in DOMAIN registry.slots : ~Vacant(registry.slots[t])
  BY DEF Bookkeeping, RegistryExact, SlotExact
<1>3. ASSUME NEW id \in DOMAIN registry.index PROVE Located(id)
  <2> DEFINE at == registry.index[id]
  <2>1. LocatedIn(registry, id)
    BY DEF Bookkeeping, RegistryExact
  <2>2. CASE Indexed(registry, id, "global") /\ id \in IdsOf(registry.globals)
    BY <2>2 DEF Located, Indexed
  <2>3. CASE /\ IndexedUnder(registry, id, "listener", DeadLetter)
             /\ \E l \in registry.deadLetters : l.id = id
    <3>1. at[1] = "listener" /\ at[2] = DeadLetter
      BY <2>3 DEF Indexed, IndexedUnder
    <3> QED BY <2>3, <3>1 DEF Located
  <2>4. ASSUME NEW t \in DOMAIN registry.slots, IndexedUnder(registry, id, "typed", t),
               id \in IdsOf(registry.slots[t].middlewares)
        PROVE  Located(id)
    <3>1. at[1] = "typed" /\ at[2] = t
      BY <2>4 DEF Indexed, IndexedUnder
    <3> QED BY <2>4, <3>1 DEF Located
  <2>5. ASSUME NEW t \in DOMAIN registry.slots, IndexedUnder(registry, id, "listener", t),
               t # DeadLetter, \E l \in registry.slots[t].listeners : l.id = id
        PROVE  Located(id)
    <3>1. at[1] = "listener" /\ at[2] = t
      BY <2>5 DEF Indexed, IndexedUnder
    <3> QED BY <2>5, <3>1 DEF Located
  <2> QED BY <2>1, <2>2, <2>3, <2>4, <2>5 DEF LocatedIn
<1> QED
  BY <1>1, <1>2, <1>3 DEF IndexExact

\* What stats lists is what dispatch would run.
LEMMA ListedByBooks == Bookkeeping => StatsMatchDispatch
<1> SUFFICES ASSUME Bookkeeping PROVE StatsMatchDispatch
  OBVIOUS
<1> DEFINE listed == SubscriptionsByEvent(registry)
           listening == {t \in DOMAIN registry.slots : registry.slots[t].listeners # {}}
<1>1. RegistryExact(registry) /\ snapshot = RegistrySnapshotOf(registry)
  BY DEF Bookkeeping
<1>2. /\ DOMAIN snapshot.byType = DOMAIN registry.slots
      /\ \A t \in DOMAIN registry.slots : snapshot.byType[t] = SnapshotSlot(registry.slots[t])
      /\ snapshot.deadLetters = Sorted(registry.deadLetters, ByPriority)
  BY <1>1 DEF RegistrySnapshotOf
<1>3. DeadLetter \notin listening
  BY <1>1 DEF RegistryExact, SlotExact
<1>4. ListenersOf(DeadLetter) = ListenerIds(registry.deadLetters)
  BY <1>1, <1>2, SortedIds DEF RegistryExact, ListenersOf
<1>5. ASSUME NEW t \in DOMAIN registry.slots, t # DeadLetter
      PROVE  ListenersOf(t) = ListenerIds(registry.slots[t].listeners)
  <2>1. ListenersOK(registry.slots[t].listeners)
    BY <1>1 DEF RegistryExact, SlotExact
  <2> QED BY <1>2, <1>5, <2>1, SlotIds DEF ListenersOf
<1>6. /\ DOMAIN listed = listening \cup (IF registry.deadLetters = {} THEN {} ELSE {DeadLetter})
      /\ \A t \in listening : listed[t] = ListenerIds(registry.slots[t].listeners)
      /\ registry.deadLetters # {} => listed[DeadLetter] = ListenerIds(registry.deadLetters)
  BY <1>3 DEF SubscriptionsByEvent, Put, ListenerIds
<1> HIDE DEF listed
<1>7. \A L : ListenerIds(L) = {} <=> L = {}
  BY DEF ListenerIds
<1>8. \A t \in DOMAIN listed : listed[t] = ListenersOf(t) /\ listed[t] # {}
  BY <1>3, <1>4, <1>5, <1>6, <1>7
<1>9. \A t \in DOMAIN snapshot.byType \ {DeadLetter} : ListenersOf(t) # {} => t \in DOMAIN listed
  BY <1>2, <1>5, <1>6, <1>7
<1>10. ListenersOf(DeadLetter) # {} => DeadLetter \in DOMAIN listed
  BY <1>4, <1>6, <1>7
<1> QED
  BY <1>8, <1>9, <1>10 DEF StatsMatchDispatch, listed

(* Nobody subscribes an async listener for dead letters, which panics in   *)
(* add_listener's refresh: see the run that shows it.                      *)
SyncDeadLetters ==
  \A what \in Additions : what.op = "listener" /\ what.type = DeadLetter => what.kind = "sync"

\* A new registry is exact.
LEMMA BooksInit == Init => Bookkeeping
<1> SUFFICES ASSUME Init PROVE Bookkeeping
  OBVIOUS
<1>1. registry = NewRegistry /\ snapshot = RegistrySnapshotOf(NewRegistry)
  BY DEF Init
<1>2. IdsOf(<<>>) = {} /\ <<>> \in Seq(MiddlewareRecords)
  BY EmptySeq DEF IdsOf
<1>3. /\ registry.globals = <<>> /\ registry.deadLetters = {}
      /\ DOMAIN registry.slots = {} /\ DOMAIN registry.index = {}
  BY <1>1 DEF NewRegistry
<1>4. RegistryExact(registry)
  BY <1>2, <1>3, FS_EmptySet DEF RegistryExact, ListenersOK, SnapshotPanics, OfKind
<1>5. DOMAIN pc = Callers /\ \A c \in Callers : request[c].op = "none" /\ pc[c] = "idle"
  BY DEF Init, NoRequest
<1>6. granted = {} /\ released = {} /\ removed = {}
  BY DEF Init
<1> QED
  BY <1>1, <1>3, <1>4, <1>5, <1>6 DEF Bookkeeping, Adding, AddOps, Dropping

\* A step that leaves the registry and the ids alone keeps the books.
LEMMA BooksCalm ==
  ASSUME Bookkeeping, UNCHANGED <<registry, snapshot, nextSub, granted, removed>>,
         released \subseteq released', released' \subseteq granted,
         DOMAIN pc' = Callers,
         \A c \in Callers :
           /\ request'[c] = request[c] \/ request'[c].op \notin AddOps
           /\ request'[c].op \in {"unsubscribe", "drop"} => request'[c].id \in released'
           /\ pc'[c] \in Dropping => request'[c].op = "drop"
  PROVE  Bookkeeping'
<1>1. \A c \in Adding' : c \in Adding /\ request'[c] = request[c]
  BY DEF Adding
<1>2. /\ \A c \in Adding' : WellFormed(request[c]) /\ request[c].id \in (1 .. nextSub - 1) \ granted
      /\ \A c, d \in Adding' : request[c].id = request[d].id => c = d
  BY <1>1 DEF Bookkeeping
<1>3. /\ \A c \in Adding' : WellFormed(request'[c]) /\ request'[c].id \in (1 .. nextSub' - 1) \ granted'
      /\ \A c, d \in Adding' : request'[c].id = request'[d].id => c = d
  BY <1>1, <1>2
<1>4. /\ snapshot' = RegistrySnapshotOf(registry') /\ RegistryExact(registry')
      /\ DOMAIN registry'.index \subseteq granted' /\ granted' \subseteq 1 .. nextSub' - 1
      /\ granted' \ released' \subseteq DOMAIN registry'.index /\ released' \subseteq granted'
      /\ removed' \subseteq released' \ DOMAIN registry'.index
  BY DEF Bookkeeping
<1> QED
  BY <1>3, <1>4 DEF Bookkeeping

\* A new addition draws an id that no other has.
LEMMA BooksCallAdd ==
  ASSUME SyncDeadLetters, GateRoom, Bookkeeping, NEW c \in Callers, NEW what \in Additions,
         CallAdd(c, what)
  PROVE  Bookkeeping'
<1> DEFINE r == Put(what, "id", nextSub)
<1>1. r.id = nextSub /\ r.op = what.op /\ WellFormed(r) /\ r.op \in AddOps
  <2>1. /\ {"op", "kind"} \subseteq DOMAIN what /\ what.op \in AddOps
        /\ what.kind \in {"sync", "async"}
        /\ what.op # "global" => "type" \in DOMAIN what
        /\ what.op = "listener" => "priority" \in DOMAIN what /\ what.priority \in Int
    BY AdditionsAssumption DEF AddOps
  <2>2. \A x \in DOMAIN what : x # "id" => r[x] = what[x]
    BY DEF Put
  <2>3. r.id = nextSub /\ r.op = what.op /\ r.kind = what.kind
    BY <2>1, <2>2 DEF Put
  <2>4. r.op = "listener" => r.type = what.type /\ r.priority = what.priority
    BY <2>1, <2>2, <2>3
  <2> HIDE DEF r
  <2> QED BY <2>1, <2>3, <2>4 DEF WellFormed, SyncDeadLetters
<1> HIDE DEF r
<1>2. /\ nextSub' = nextSub + 1 /\ request' = [request EXCEPT ![c] = r] /\ nextSub \in Nat
      /\ DOMAIN request = Callers
      /\ registry' = registry /\ snapshot' = snapshot /\ granted' = granted
      /\ released' = released /\ removed' = removed
      /\ pc' = [pc EXCEPT ![c] = "lock"]
  BY DEF CallAdd, Ask, Goto, regVars, GateRoom, r
<1>3. request'[c] = r /\ \A d \in Callers \ {c} : request'[d] = request[d]
  BY <1>2
<1>4. Adding' = Adding \cup {c}
  BY <1>1, <1>3 DEF Adding
<1>5. \A d \in Adding : WellFormed(request[d]) /\ request[d].id \in (1 .. nextSub - 1) \ granted
  BY DEF Bookkeeping
<1>6. \A x : x \in 1 .. nextSub - 1 => x \in 1 .. nextSub' - 1 /\ x # nextSub
  BY <1>2
<1>7. nextSub \in 1 .. nextSub' - 1
  <2>1. nextSub # 0
    <3>1. Adding \in SUBSET Callers
      BY DEF Adding
    <3>2. Cardinality(Adding) \in Nat
      BY <3>1, CallersFewer
    <3> QED BY <1>2, <3>2 DEF GateRoom, RegistryOK
  <2> QED BY <1>2, <2>1
<1>8. nextSub \notin granted
  BY <1>6 DEF Bookkeeping
<1>9. \A d \in Adding' : WellFormed(request'[d]) /\ request'[d].id \in (1 .. nextSub' - 1) \ granted
  BY <1>1, <1>3, <1>4, <1>5, <1>6, <1>7, <1>8 DEF Adding
<1>10. \A d \in Adding \ {c} : request[d].id # nextSub
  BY <1>5, <1>6
<1>11. ASSUME NEW d \in Adding', NEW e \in Adding', request'[d].id = request'[e].id
       PROVE  d = e
  <2>1. \A x \in Adding' \ {c} : x \in Adding /\ request'[x] = request[x]
    BY <1>3, <1>4 DEF Adding
  <2>2. CASE d = c \/ e = c
    BY <1>1, <1>3, <1>10, <1>11, <2>1, <2>2
  <2>3. CASE d # c /\ e # c
    BY <1>11, <2>1, <2>3 DEF Bookkeeping
  <2> QED BY <2>2, <2>3
<1>12. \A d \in Callers : request'[d].op \in {"unsubscribe", "drop"} => request'[d].id \in released
  BY <1>1, <1>3 DEF Bookkeeping, AddOps
<1>13. ASSUME NEW d \in Callers, pc'[d] \in Dropping PROVE request'[d].op = "drop"
  <2>1. d # c /\ pc[d] \in Dropping
    BY <1>2, <1>13 DEF Bookkeeping, Dropping
  <2> QED BY <1>3, <2>1 DEF Bookkeeping
<1>14. granted \subseteq 1 .. nextSub' - 1
  BY <1>6 DEF Bookkeeping
<1> QED
  BY <1>2, <1>9, <1>11, <1>12, <1>13, <1>14 DEF Bookkeeping

\* A finished addition is granted what it added.
LEMMA BooksApplyAdd ==
  ASSUME GateRoom, Bookkeeping, NEW c \in Callers, ApplyAdd(c)
  PROVE  Bookkeeping'
<1> DEFINE r == request[c]
<1>1. /\ r.op \in AddOps /\ registry' = Added(r)
      /\ snapshot' = IF SnapshotPanics(registry') THEN snapshot ELSE RegistrySnapshotOf(registry')
      /\ granted' = IF SnapshotPanics(registry') THEN granted ELSE granted \cup {r.id}
      /\ nextSub' = nextSub /\ released' = released /\ removed' = removed
      /\ request' = [request EXCEPT ![c] = NoRequest] /\ pc' = [pc EXCEPT ![c] = "idle"]
  BY DEF ApplyAdd, Refresh, Finish, Goto, Ask, AddOps
<1>2. /\ c \in Adding /\ WellFormed(r) /\ r.id \in (1 .. nextSub - 1) \ granted
      /\ DOMAIN request = Callers /\ nextSub \in Nat
      /\ RegistryOK(registry) /\ RegistryExact(registry)
  BY <1>1 DEF Adding, Bookkeeping, GateRoom
<1>3. r.id \in Nat /\ r.id \notin DOMAIN registry.index
  BY <1>2 DEF Bookkeeping
<1>4. \A d \in Adding : d # c => request[d].id # r.id
  BY <1>2 DEF Bookkeeping
<1> HIDE DEF r
<1>5. RegistryExact(registry') /\ DOMAIN registry'.index = DOMAIN registry.index \cup {r.id}
  BY <1>1, <1>2, <1>3, AddExact
<1>6. snapshot' = RegistrySnapshotOf(registry') /\ granted' = granted \cup {r.id}
  BY <1>1, <1>5 DEF RegistryExact
<1>7. request'[c].op = "none" /\ \A d \in Callers \ {c} : request'[d] = request[d]
  BY <1>1, <1>2 DEF NoRequest
<1>8. \A d \in Adding' : d \in Adding /\ d # c /\ request'[d] = request[d]
  BY <1>7 DEF Adding, AddOps
<1>9. /\ \A d \in Adding' : WellFormed(request'[d]) /\ request'[d].id \in (1 .. nextSub - 1) \ granted'
      /\ \A d, e \in Adding' : request'[d].id = request'[e].id => d = e
  BY <1>4, <1>6, <1>8 DEF Bookkeeping
<1>10. /\ \A d \in Callers : request'[d].op \in {"unsubscribe", "drop"} => request'[d].id \in released
       /\ \A d \in Callers : pc'[d] \in Dropping => request'[d].op = "drop"
       /\ DOMAIN pc' = Callers
  <2>1. DOMAIN pc = Callers /\ pc'[c] = "idle" /\ \A d \in Callers \ {c} : pc'[d] = pc[d]
    BY <1>1 DEF Bookkeeping
  <2> QED BY <1>1, <1>7, <2>1 DEF Bookkeeping, Dropping
<1>11. /\ DOMAIN registry'.index \subseteq granted' /\ granted' \subseteq 1 .. nextSub - 1
       /\ granted' \ released \subseteq DOMAIN registry'.index /\ released \subseteq granted'
       /\ removed \subseteq released \ DOMAIN registry'.index
  BY <1>2, <1>5, <1>6 DEF Bookkeeping
<1> QED
  BY <1>1, <1>5, <1>6, <1>9, <1>10, <1>11 DEF Bookkeeping

\* A finished removal has removed what was to be removed, or found it gone.
LEMMA BooksTakeOut ==
  ASSUME GateRoom, Bookkeeping, NEW c \in Callers, ApplyUnsubscribe(c) \/ TryApply(c)
  PROVE  Bookkeeping'
<1> DEFINE id == request[c].id
<1>1. /\ registry' = RemoveSubscription(registry, id)
      /\ snapshot' = IF id \in DOMAIN registry.index /\ ~SnapshotPanics(registry')
                     THEN RegistrySnapshotOf(registry') ELSE snapshot
      /\ removed' = IF id \in DOMAIN registry.index /\ ~SnapshotPanics(registry')
                    THEN removed \cup {id} ELSE removed
      /\ nextSub' = nextSub /\ released' = released /\ granted' = granted
      /\ request' = [request EXCEPT ![c] = NoRequest] \/ request' = request
      /\ \E state \in {"idle", "fallback"} : pc' = [pc EXCEPT ![c] = state]
  BY DEF ApplyUnsubscribe, TryApply, TakeOut, IsRegistered, Refresh, Finish, Goto, Ask
<1>2. id \in released
  BY DEF Bookkeeping, Dropping, ApplyUnsubscribe, TryApply
<1> HIDE DEF id
<1>3. /\ snapshot' = RegistrySnapshotOf(registry') /\ RegistryExact(registry')
      /\ DOMAIN registry'.index \subseteq granted /\ granted \ released \subseteq DOMAIN registry'.index
      /\ removed' \subseteq released \ DOMAIN registry'.index
  <2>1. CASE id \in DOMAIN registry.index
    <3>1. RegistryExact(registry') /\ DOMAIN registry'.index = DOMAIN registry.index \ {id}
      BY <1>1, <2>1, RemoveExact DEF GateRoom, Bookkeeping
    <3>2. snapshot' = RegistrySnapshotOf(registry') /\ removed' = removed \cup {id}
      BY <1>1, <2>1, <3>1 DEF RegistryExact
    <3> QED BY <1>2, <3>1, <3>2 DEF Bookkeeping
  <2>2. CASE id \notin DOMAIN registry.index
    <3>1. registry' = registry /\ snapshot' = snapshot /\ removed' = removed
      BY <1>1, <2>2 DEF RemoveSubscription
    <3> QED BY <3>1 DEF Bookkeeping
  <2> QED BY <2>1, <2>2
<1>4. \A d \in Callers : request'[d] = request[d] \/ request'[d].op = "none"
  BY <1>1 DEF NoRequest, GateRoom
<1>5. \A d \in Adding' : d \in Adding /\ request'[d] = request[d]
  BY <1>4 DEF Adding, AddOps
<1>6. /\ \A d \in Adding' : WellFormed(request'[d]) /\ request'[d].id \in (1 .. nextSub - 1) \ granted
      /\ \A d, e \in Adding' : request'[d].id = request'[e].id => d = e
  BY <1>5 DEF Bookkeeping
<1>7. \A d \in Callers : request'[d].op \in {"unsubscribe", "drop"} => request'[d].id \in released
  BY <1>4 DEF Bookkeeping
<1>8. DOMAIN pc' = Callers /\ \A d \in Callers : pc'[d] \in Dropping => request'[d].op = "drop"
  <2>1. DOMAIN pc = Callers /\ DOMAIN request = Callers
    BY DEF Bookkeeping, GateRoom
  <2>2. pc'[c] \notin Dropping /\ \A d \in Callers \ {c} : pc'[d] = pc[d] /\ request'[d] = request[d]
    BY <1>1, <2>1 DEF Dropping
  <2>3. DOMAIN pc' = Callers
    BY <1>1, <2>1
  <2> QED BY <2>2, <2>3 DEF Bookkeeping
<1> QED
  BY <1>1, <1>3, <1>6, <1>7, <1>8 DEF Bookkeeping

\* Asking to remove a subscription that was granted, whichever it is.
LEMMA BooksUnsubscribe ==
  ASSUME GateRoom, Bookkeeping, NEW c \in Callers, NEW id, CallUnsubscribe(c, id)
  PROVE  Bookkeeping'
<1> DEFINE r == [op |-> "unsubscribe", id |-> id]
<1>1. /\ UNCHANGED <<registry, snapshot, nextSub, granted, removed>>
      /\ released' = released \cup {id} /\ id \in granted
      /\ request' = [request EXCEPT ![c] = r] /\ pc' = [pc EXCEPT ![c] = "lock"]
  BY DEF CallUnsubscribe, regVars, Ask, Goto
<1>2. r.op = "unsubscribe" /\ r.id = id
  OBVIOUS
<1> HIDE DEF r
<1>3. DOMAIN request = Callers /\ DOMAIN pc = Callers
  BY DEF GateRoom, Bookkeeping
<1>4. /\ request'[c] = r /\ pc'[c] = "lock" /\ DOMAIN pc' = Callers
      /\ \A d \in Callers \ {c} : request'[d] = request[d] /\ pc'[d] = pc[d]
  BY <1>1, <1>3
<1>5. ASSUME NEW d \in Callers
      PROVE  /\ request'[d] = request[d] \/ request'[d].op \notin AddOps
             /\ request'[d].op \in {"unsubscribe", "drop"} => request'[d].id \in released'
             /\ pc'[d] \in Dropping => request'[d].op = "drop"
  BY <1>1, <1>2, <1>4 DEF Bookkeeping, AddOps, Dropping
<1> QED
  BY <1>1, <1>4, <1>5, BooksCalm DEF Bookkeeping

\* Dropping a guard asks for the same.
LEMMA BooksDropGuard ==
  ASSUME GateRoom, Bookkeeping, NEW c \in Callers, NEW id, NEW onRuntime,
         DropGuard(c, id, onRuntime)
  PROVE  Bookkeeping'
<1> DEFINE r == [op |-> "drop", id |-> id, onRuntime |-> onRuntime]
<1>1. /\ UNCHANGED <<registry, snapshot, nextSub, granted, removed>>
      /\ released' = released \cup {id} /\ id \in granted
      /\ request' = [request EXCEPT ![c] = r]
      /\ \E state : pc' = [pc EXCEPT ![c] = state]
  BY DEF DropGuard, regVars, Ask, Goto
<1>2. r.op = "drop" /\ r.id = id
  OBVIOUS
<1> HIDE DEF r
<1>3. DOMAIN request = Callers /\ DOMAIN pc = Callers
  BY DEF GateRoom, Bookkeeping
<1>4. /\ request'[c] = r /\ DOMAIN pc' = Callers
      /\ \A d \in Callers \ {c} : request'[d] = request[d] /\ pc'[d] = pc[d]
  BY <1>1, <1>3
<1>5. ASSUME NEW d \in Callers
      PROVE  /\ request'[d] = request[d] \/ request'[d].op \notin AddOps
             /\ request'[d].op \in {"unsubscribe", "drop"} => request'[d].id \in released'
             /\ pc'[d] \in Dropping => request'[d].op = "drop"
  BY <1>1, <1>2, <1>4 DEF Bookkeeping, AddOps
<1> QED
  BY <1>1, <1>4, <1>5, BooksCalm DEF Bookkeeping

\* Every step keeps the books.
LEMMA BooksStep == SyncDeadLetters /\ GateRoom /\ Bookkeeping /\ [Next]_vars => Bookkeeping'
<1> SUFFICES ASSUME SyncDeadLetters, GateRoom, Bookkeeping, [Next]_vars PROVE Bookkeeping'
  OBVIOUS
<1>1. /\ DOMAIN pc = Callers /\ DOMAIN request = Callers /\ released \subseteq granted
      /\ \A d \in Callers : /\ request[d].op \in {"unsubscribe", "drop"} => request[d].id \in released
                            /\ pc[d] \in Dropping => request[d].op = "drop"
  BY DEF Bookkeeping, GateRoom
<1>2. ASSUME NEW c \in Callers,
             UNCHANGED <<registry, snapshot, nextSub, granted, removed, released>>,
             DOMAIN pc' = Callers, pc'[c] \notin Dropping,
             \A d \in Callers \ {c} : pc'[d] = pc[d] /\ request'[d] = request[d],
             request'[c] = request[c] \/ request'[c].op \in {"none", "stats"}
      PROVE  Bookkeeping'
  <2>1. ASSUME NEW d \in Callers
        PROVE  /\ request'[d] = request[d] \/ request'[d].op \notin AddOps
               /\ request'[d].op \in {"unsubscribe", "drop"} => request'[d].id \in released'
               /\ pc'[d] \in Dropping => request'[d].op = "drop"
    BY <1>1, <1>2 DEF AddOps
  <2> QED BY <1>1, <1>2, <2>1, BooksCalm
<1> USE DEF regVars, idVars, Goto, Finish, Ask, NoRequest, Dropping
<1>3. ASSUME NEW c \in Callers, Call(c) PROVE Bookkeeping'
  <2>1. ASSUME NEW what \in Additions, CallAdd(c, what) PROVE Bookkeeping'
    BY <2>1, BooksCallAdd
  <2>2. ASSUME NEW id \in Ids, CallUnsubscribe(c, id) PROVE Bookkeeping'
    BY <2>2, BooksUnsubscribe
  <2>3. ASSUME NEW id \in Ids, NEW onRuntime \in BOOLEAN, DropGuard(c, id, onRuntime)
        PROVE  Bookkeeping'
    BY <2>3, BooksDropGuard
  <2>4. CASE CallStats(c) \/ Abandon(c)
    <3>1. /\ UNCHANGED <<registry, snapshot, nextSub, granted, removed, released>>
          /\ DOMAIN pc' = Callers /\ pc'[c] \notin Dropping
          /\ \A d \in Callers \ {c} : pc'[d] = pc[d] /\ request'[d] = request[d]
          /\ request'[c].op \in {"none", "stats"}
      BY <1>1, <2>4 DEF CallStats, Abandon
    <3> QED BY <1>2, <3>1
  <2> QED BY <1>3, <2>1, <2>2, <2>3, <2>4 DEF Call
<1>4. ASSUME NEW c \in Callers, Acquire(c) \/ Recheck(c) \/ ApplyStats(c) \/ Fallback(c)
      PROVE  Bookkeeping'
  <2>1. /\ UNCHANGED <<registry, snapshot, nextSub, granted, removed, released>>
        /\ DOMAIN pc' = Callers /\ pc'[c] \notin Dropping
        /\ \A d \in Callers \ {c} : pc'[d] = pc[d] /\ request'[d] = request[d]
        /\ request'[c] = request[c] \/ request'[c].op \in {"none", "stats"}
    BY <1>1, <1>4 DEF Acquire, Recheck, ApplyStats, Fallback
  <2> QED BY <1>2, <2>1
<1>5. ASSUME NEW c \in Callers, ApplyAdd(c) PROVE Bookkeeping'
  BY <1>5, BooksApplyAdd
<1>6. ASSUME NEW c \in Callers, ApplyUnsubscribe(c) \/ TryApply(c) PROVE Bookkeeping'
  BY <1>6, BooksTakeOut
<1>7. ASSUME NEW c \in Callers, TryLock(c) PROVE Bookkeeping'
  <2>1. /\ UNCHANGED <<registry, snapshot, nextSub, granted, removed, released>>
        /\ DOMAIN pc' = Callers /\ request' = request
        /\ \A d \in Callers : pc'[d] \in Dropping => pc[d] \in Dropping
    BY <1>1, <1>7 DEF TryLock
  <2> QED BY <1>1, <2>1, BooksCalm
<1>8. CASE Stop \/ UNCHANGED vars
  <2>1. /\ UNCHANGED <<registry, snapshot, nextSub, granted, removed, released>>
        /\ pc' = pc /\ request' = request
    BY <1>8 DEF Stop, vars
  <2> QED BY <1>1, <2>1, BooksCalm
<1> QED
  BY <1>3, <1>4, <1>5, <1>6, <1>7, <1>8 DEF Next, Step, UnderLock, Settled

\* The books are right whenever nobody subscribes an async dead-letter listener.
THEOREM BooksHold ==
  ASSUME SyncDeadLetters
  PROVE  Spec => []Bookkeeping
<1>1. Init => GateRoom /\ Bookkeeping
  BY GateInit, BooksInit
<1>2. GateRoom /\ Bookkeeping /\ [Next]_vars => (GateRoom /\ Bookkeeping)'
  BY GateStep, BooksStep
<1> QED
  BY <1>1, <1>2, PTL DEF Spec

\* What publish reads is what the registry holds, a granted subscription is in
\* force until somebody asks to remove it, and what was removed is gone.
THEOREM SubscriptionsInForce ==
  ASSUME SyncDeadLetters
  PROVE  Spec => []SnapshotSound
BY BooksHold, SoundByBooks, PTL

\* The index names the place of every entry, and nothing else.
THEOREM IndexIsExact ==
  ASSUME SyncDeadLetters
  PROVE  Spec => []IndexExact
BY BooksHold, IndexedByBooks, PTL

\* stats lists what a publish would run.
THEOREM StatsTellDispatch ==
  ASSUME SyncDeadLetters
  PROVE  Spec => []StatsMatchDispatch
BY BooksHold, ListedByBooks, PTL

(* Sync and dead-letter listeners are called by priority, those of equal   *)
(* priority and async ones in the order they subscribed.                   *)
InOrder(seq, Before(_, _)) == \A i, j \in DOMAIN seq : i < j => Before(seq[i], seq[j])

DispatchInOrder ==
  /\ InOrder(snapshot.deadLetters, ByPriority)
  /\ \A t \in DOMAIN snapshot.byType :
       /\ InOrder(snapshot.byType[t].syncListeners, ByPriority)
       /\ InOrder(snapshot.byType[t].asyncListeners, ByRegistration)

\* Whatever was added and removed in whatever order, dispatch calls listeners
\* by priority and then in the order of registration.
THEOREM ListenersInOrder ==
  ASSUME SyncDeadLetters
  PROVE  Spec => []DispatchInOrder
<1>1. Bookkeeping => DispatchInOrder
  <2> SUFFICES ASSUME Bookkeeping PROVE DispatchInOrder
    OBVIOUS
  <2>1. snapshot = RegistrySnapshotOf(registry) /\ RegistryExact(registry)
    BY DEF Bookkeeping
  <2>2. ASSUME NEW t \in DOMAIN snapshot.byType
        PROVE  /\ InOrder(snapshot.byType[t].syncListeners, ByPriority)
               /\ InOrder(snapshot.byType[t].asyncListeners, ByRegistration)
    <3> DEFINE L(kind) == OfKind(registry.slots[t].listeners, kind)
    <3>1. /\ t \in DOMAIN registry.slots
          /\ snapshot.byType[t] = SnapshotSlot(registry.slots[t])
      BY <2>1 DEF RegistrySnapshotOf
    <3>2. ListenersOK(registry.slots[t].listeners)
      BY <2>1, <3>1 DEF RegistryExact, SlotExact
    <3>3. ASSUME NEW kind PROVE ListenersOK(L(kind))
      <4>1. IsFiniteSet(L(kind))
        BY <3>2, FS_Subset DEF ListenersOK, OfKind
      <4> QED BY <3>2, <4>1 DEF ListenersOK, OfKind
    <3>4. /\ snapshot.byType[t].syncListeners = Sorted(L("sync"), ByPriority)
          /\ snapshot.byType[t].asyncListeners = Sorted(L("async"), ByRegistration)
      BY <3>1 DEF SnapshotSlot
    <3> HIDE DEF L
    <3>5. /\ InOrder(Sorted(L("sync"), ByPriority), ByPriority)
          /\ InOrder(Sorted(L("async"), ByRegistration), ByRegistration)
      BY <3>3, SortedByPriority, SortedByRegistration DEF InOrder
    <3> QED BY <3>4, <3>5
  <2>3. InOrder(snapshot.deadLetters, ByPriority)
    BY <2>1, SortedByPriority DEF RegistryExact, RegistrySnapshotOf, InOrder
  <2> QED BY <2>2, <2>3 DEF DispatchInOrder
<1> QED
  BY <1>1, BooksHold, PTL

\* A sequence made of a set lists it.
LEMMA MadeOfLists ==
  ASSUME NEW S, IsFiniteSet(S), NEW seq \in SetToSeqs(S)
  PROVE  Lists(seq, S)
<1>1. \A i, j \in DOMAIN seq : seq[i] = seq[j] => i = j
  BY DEF SetToSeqs, IsInjective
<1>2. seq \in Seq(S) /\ S = {seq[i] : i \in DOMAIN seq}
  BY SeqOfSet
<1> QED
  BY <1>1, <1>2 DEF Lists

\* The registry is always one that Pipeline assumes of its inputs: sorting keeps
\* every listener once, and no slot has a listener of dead letters.
THEOREM RegistryIsProper ==
  ASSUME SyncDeadLetters
  PROVE  Spec => []ProperRegistry(registry)
<1>1. Bookkeeping => ProperRegistry(registry)
  <2> SUFFICES ASSUME Bookkeeping PROVE ProperRegistry(registry)
    OBVIOUS
  <2>1. RegistryExact(registry)
    BY DEF Bookkeeping
  <2>2. ASSUME NEW L, ListenersOK(L)
        PROVE  Lists(Sorted(L, ByPriority), L) /\ Lists(Sorted(L, ByRegistration), L)
    BY <2>2, SortedByPriority, SortedByRegistration, MadeOfLists DEF ListenersOK
  <2>3. ASSUME NEW L, ListenersOK(L), NEW kind PROVE ListenersOK(OfKind(L, kind))
    <3>1. IsFiniteSet(OfKind(L, kind))
      BY <2>3, FS_Subset DEF ListenersOK, OfKind
    <3> QED BY <2>3, <3>1 DEF ListenersOK, OfKind
  <2>4. ASSUME NEW t \in DOMAIN registry.slots
        PROVE  LET listeners == registry.slots[t].listeners
               IN /\ registry.slots[t].middlewares \in Seq(MiddlewareRecords)
                  /\ ListenersOK(listeners)
                  /\ t = DeadLetter => listeners = {}
                  /\ Lists(Sorted(OfKind(listeners, "sync"), ByPriority), OfKind(listeners, "sync"))
                  /\ Lists(Sorted(OfKind(listeners, "async"), ByRegistration),
                           OfKind(listeners, "async"))
    <3> DEFINE L == registry.slots[t].listeners
    <3>1. /\ registry.slots[t].middlewares \in Seq(MiddlewareRecords)
          /\ ListenersOK(L) /\ (t = DeadLetter => L = {})
      BY <2>1, <2>4 DEF RegistryExact, SlotExact
    <3> HIDE DEF L
    <3>2. ListenersOK(OfKind(L, "sync")) /\ ListenersOK(OfKind(L, "async"))
      BY <2>3, <3>1
    <3>3. /\ Lists(Sorted(OfKind(L, "sync"), ByPriority), OfKind(L, "sync"))
          /\ Lists(Sorted(OfKind(L, "async"), ByRegistration), OfKind(L, "async"))
      BY <2>2, <3>2
    <3> QED BY <3>1, <3>3 DEF L
  <2>5. /\ registry.globals \in Seq(MiddlewareRecords)
        /\ ListenersOK(registry.deadLetters) /\ ~SnapshotPanics(registry)
        /\ Lists(Sorted(registry.deadLetters, ByPriority), registry.deadLetters)
    BY <2>1, <2>2 DEF RegistryExact
  <2> QED BY <2>4, <2>5 DEF ProperRegistry
<1> QED
  BY <1>1, BooksHold, PTL

-----------------------------------------------------------------------------
(* The gates of the lanes                                                  *)

(* The shape of the state, and who owns what.  A failed task starts in the *)
(* middle: it never queues at, or runs under, a sync gate.                 *)
LaneShape ==
  /\ DOMAIN lanePc = Actors
  /\ DOMAIN laneOwner = Gates
  /\ DOMAIN slot = Actors
  /\ \A a \in Actors : DOMAIN slot[a] = {"type", "rest", "gate"}
  /\ \A a \in Failures : lanePc[a] \notin {"queued", "running"}
  /\ \A p \in Publishers : lanePc[p] = "queued" \/ InLane(p) => slot[p].gate \in Gates

LaneInv == LaneShape /\ LanesExclusive

\* A publish call finds a gate that the registry has numbered.
LEMMA FoundGate ==
  ASSUME GateRoom, NEW t, FoundSlot(t).rest # <<>>
  PROVE  DOMAIN FoundSlot(t) = {"type", "rest", "gate"} /\ FoundSlot(t).gate \in Gates
<1>1. t \in DOMAIN snapshot.byType
  BY DEF FoundSlot, NoSlot
<1>2. snapshot.byType[t].gate \in 1 .. registry.nextGate - 1
  BY <1>1 DEF GateRoom
<1>3. Adding \in SUBSET Callers
  BY DEF Adding
<1>4. Cardinality(Adding) \in Nat
  BY <1>3, CallersFewer
<1>5. registry.nextGate - 1 <= MaxId
  BY <1>4, MaxIdAssumption DEF GateRoom, RegistryOK
<1> QED
  BY <1>1, <1>2, <1>5, MaxIdAssumption DEF FoundSlot, Gates, GateRoom, RegistryOK

\* At first nobody is in a lane.
LEMMA LaneInitInv == LaneInit => LaneInv
BY ActorsAssumption
   DEF LaneInit, ActorsInit, LaneInv, LaneShape, LanesExclusive, InLane, Actors, NoSlot

\* A publish call queues at the gate it found.
LEMMA PublishKeeps ==
  ASSUME GateRoom, LaneInv, NEW p \in Publishers, NEW t, Publish(p, t)
  PROVE  LaneInv'
<1>1. DOMAIN FoundSlot(t) = {"type", "rest", "gate"} /\ FoundSlot(t).gate \in Gates
  BY FoundGate DEF Publish
<1> HIDE DEF FoundSlot
<1>2. LaneShape'
  BY <1>1, ActorsAssumption DEF Publish, Move, LaneInv, LaneShape, InLane, Actors
<1>3. LanesExclusive'
  BY ActorsAssumption DEF Publish, Move, LaneInv, LaneShape, LanesExclusive, InLane, Actors
<1> QED
  BY <1>2, <1>3 DEF LaneInv

\* The steps at the gate of a slot.
LEMMA LaneKeeps ==
  ASSUME LaneInv, NEW a \in Actors,
         EnterLane(a) \/ LeaveQueue(a) \/ RunListener(a) \/ LeaveLane(a)
  PROVE  LaneInv'
<1> USE ActorsAssumption DEF LaneInv, LaneShape, LanesExclusive, InLane, Actors, Move
<1>1. CASE EnterLane(a)
  <2>1. a \in Publishers /\ slot[a].gate \in Gates
    BY <1>1 DEF EnterLane
  <2>2. LaneShape'
    BY <1>1, <2>1 DEF EnterLane
  <2>3. ASSUME NEW p \in Publishers, InLane(p)' PROVE laneOwner'[slot'[p].gate] = p
    BY <1>1, <2>1, <2>3 DEF EnterLane
  <2> QED BY <1>1, <2>2, <2>3 DEF EnterLane
<1>2. CASE LeaveQueue(a)
  BY <1>2 DEF LeaveQueue, NoSlot
<1>3. CASE RunListener(a)
  <2>1. a \in Publishers
    BY <1>3 DEF RunListener
  <2>2. /\ DOMAIN slot' = Actors
        /\ \A x \in Actors : slot'[x].gate = slot[x].gate /\ DOMAIN slot'[x] = {"type", "rest", "gate"}
    BY <1>3 DEF RunListener
  <2>3. UNCHANGED <<laneOwner, deadOwner>>
    BY <1>3 DEF RunListener
  <2>4. /\ DOMAIN lanePc' = Actors
        /\ \A x \in Actors \ {a} : lanePc'[x] = lanePc[x]
        /\ lanePc[a] = "running" /\ lanePc'[a] \in {"running", "failing"}
    BY <1>3 DEF RunListener
  <2> QED BY <2>1, <2>2, <2>3, <2>4
<1>4. CASE LeaveLane(a)
  <2>1. a \in Publishers /\ slot[a].gate \in Gates /\ laneOwner[slot[a].gate] = a
    BY <1>4 DEF LeaveLane
  <2>2. LaneShape'
    BY <1>4, <2>1 DEF LeaveLane, NoSlot
  <2>3. ASSUME NEW p \in Publishers, InLane(p)' PROVE laneOwner'[slot'[p].gate] = p
    BY <1>4, <2>1, <2>3 DEF LeaveLane
  <2> QED BY <1>4, <2>2, <2>3 DEF LeaveLane
<1> QED
  BY <1>1, <1>2, <1>3, <1>4

\* The steps at the dead-letter gate.
LEMMA DeadLaneKeeps ==
  ASSUME LaneInv, NEW a \in Actors,
         Fail(a) \/ NoListener(a) \/ EnterDeadLane(a) \/ Deliver(a) \/ LeaveDeadLane(a)
  PROVE  LaneInv'
<1> USE ActorsAssumption
    DEF LaneInv, LaneShape, LanesExclusive, InLane, Actors, Move, Resume
<1>1. CASE Fail(a)
  BY <1>1 DEF Fail
<1>2. CASE NoListener(a)
  BY <1>2 DEF NoListener
<1>3. CASE EnterDeadLane(a)
  BY <1>3 DEF EnterDeadLane
<1>4. CASE Deliver(a)
  BY <1>4 DEF Deliver
<1>5. CASE LeaveDeadLane(a)
  BY <1>5 DEF LeaveDeadLane
<1> QED
  BY <1>1, <1>2, <1>3, <1>4, <1>5

\* What the registry does meanwhile keeps its gates within the ids.
LEMMA RegistryStepKeeps == GateRoom /\ RegistryStep => GateRoom'
<1> SUFFICES ASSUME GateRoom, RegistryStep PROVE GateRoom'
  OBVIOUS
<1>1. CASE \E c \in Callers : \E id \in granted \ released : CallUnsubscribe(c, id)
  BY <1>1, GateUnsubscribe
<1>2. CASE Next
  BY <1>2, GateStep
<1>3. RegistryStep =>
        Next \/ \E c \in Callers : \E id \in granted \ released : CallUnsubscribe(c, id)
  BY DEF RegistryStep, Next, Call, Step
<1> QED
  BY <1>1, <1>2, <1>3

\* Every step of the lane and of the registry keeps both.
LEMMA LaneInvStep ==
  GateRoom /\ LaneInv /\ [LaneNext]_<<vars, laneVars>> => (GateRoom /\ LaneInv)'
<1> SUFFICES ASSUME GateRoom, LaneInv, [LaneNext]_<<vars, laneVars>>
             PROVE  GateRoom' /\ LaneInv'
  OBVIOUS
<1>1. UNCHANGED vars => GateRoom'
  BY GateStep
<1>2. UNCHANGED laneVars => LaneInv'
  BY DEF laneVars, LaneInv, LaneShape, LanesExclusive, InLane
<1>3. ASSUME NEW a \in Actors, LaneStep(a) PROVE GateRoom' /\ LaneInv'
  <2>1. ASSUME NEW t \in EventTypes,
               PublishStart(a, t) \/ \E p \in Publishers : Republish(a, p, t)
        PROVE  LaneInv'
    <3>1. PICK p \in Publishers : Publish(p, t)
      BY <2>1 DEF PublishStart, Republish, Publish
    <3> QED BY <3>1, PublishKeeps
  <2>2. ASSUME LeaveQueue(a) \/ Proceed(a) PROVE LaneInv'
    BY <2>2, LaneKeeps, DeadLaneKeeps DEF Proceed
  <2> QED BY <1>1, <1>3, <2>1, <2>2 DEF LaneStep
<1>4. CASE RegistryStep /\ UNCHANGED laneVars
  BY <1>2, <1>4, RegistryStepKeeps
<1>5. CASE LaneSettled \/ UNCHANGED <<vars, laneVars>>
  BY <1>1, <1>2, <1>5 DEF LaneSettled
<1> QED
  BY <1>3, <1>4, <1>5 DEF LaneNext

\* Whoever is in a lane owns the gate of its slot to the end, and whoever
\* delivers a dead letter owns the dead-letter gate.
THEOREM GatesExclude == LaneSpec => []LanesExclusive
<1>1. LaneInit => GateRoom /\ LaneInv
  BY GateInit, LaneInitInv DEF LaneInit
<1>2. LaneInv => LanesExclusive
  BY DEF LaneInv
<1> QED
  BY <1>1, <1>2, LaneInvStep, PTL DEF LaneSpec

-----------------------------------------------------------------------------
(* What was removed is not run                                             *)

IsSeq(s) == s \in Seq({s[i] : i \in DOMAIN s})

(* What is still to run is a list, of which each step takes the head.      *)
LaneLists ==
  /\ DOMAIN letters = Actors /\ DOMAIN gone = Actors
  /\ \A a \in Actors : /\ IsSeq(slot[a].rest) /\ IsSeq(letters[a])
                       /\ DOMAIN gone[a] = {"start", "letter"}

\* A sequence is one over its own elements, and its tail has no others.
LEMMA TailIds ==
  ASSUME NEW S, NEW s \in Seq(S)
  PROVE  /\ IsSeq(s)
         /\ s # <<>> => IsSeq(Tail(s)) /\ IdsOf(Tail(s)) \subseteq IdsOf(s)
<1>1. ASSUME NEW t \in Seq(S) PROVE IsSeq(t)
  <2>1. t \in [1 .. Len(t) -> {t[i] : i \in DOMAIN t}] /\ Len(t) \in Nat
    BY LenProperties
  <2> QED BY <2>1, SeqDef DEF IsSeq
<1>2. ASSUME s # <<>> PROVE IsSeq(Tail(s)) /\ IdsOf(Tail(s)) \subseteq IdsOf(s)
  <2>1. /\ Tail(s) \in Seq(S) /\ Len(Tail(s)) = Len(s) - 1 /\ Len(s) \in Nat
        /\ \A i \in 1 .. Len(Tail(s)) : Tail(s)[i] = s[i + 1]
    BY <1>2, HeadTailProperties, LenProperties
  <2>2. DOMAIN s = 1 .. Len(s) /\ DOMAIN Tail(s) = 1 .. Len(s) - 1
    BY <2>1, LenProperties
  <2>3. IdsOf(Tail(s)) \subseteq IdsOf(s)
    <3>1. \A i \in DOMAIN Tail(s) : i + 1 \in DOMAIN s /\ Tail(s)[i] = s[i + 1]
      BY <2>1, <2>2
    <3> QED BY <3>1 DEF IdsOf
  <2> QED BY <1>1, <2>1, <2>3
<1> QED
  BY <1>1, <1>2

\* What a publish call or a failure finds is published, and so not removed.
LEMMA FoundLists ==
  ASSUME Bookkeeping
  PROVE  /\ IsSeq(snapshot.deadLetters) /\ IdsOf(snapshot.deadLetters) \cap removed = {}
         /\ \A t : FoundSlot(t).rest # <<>> =>
              IsSeq(FoundSlot(t).rest) /\ IdsOf(FoundSlot(t).rest) \cap removed = {}
<1>1. Published \cap removed = {}
  BY SoundByBooks DEF SnapshotSound
<1>2. snapshot = RegistrySnapshotOf(registry) /\ RegistryExact(registry)
  BY DEF Bookkeeping
<1>3. ASSUME NEW L, ListenersOK(L) PROVE IsSeq(Sorted(L, ByPriority))
  <2>1. Sorted(L, ByPriority) \in Seq(L)
    BY <1>3, SortedByPriority, SeqOfSet DEF ListenersOK
  <2> QED BY <2>1, TailIds
<1>4. IsSeq(snapshot.deadLetters)
  BY <1>2, <1>3 DEF RegistryExact, RegistrySnapshotOf
<1>5. IdsOf(snapshot.deadLetters) \cap removed = {}
  BY <1>1 DEF Published
<1>6. ASSUME NEW t, FoundSlot(t).rest # <<>>
      PROVE  IsSeq(FoundSlot(t).rest) /\ IdsOf(FoundSlot(t).rest) \cap removed = {}
  <2>1. /\ t \in DOMAIN snapshot.byType
        /\ FoundSlot(t).rest = snapshot.byType[t].syncListeners
    BY <1>6 DEF FoundSlot, NoSlot
  <2>2. IdsOf(FoundSlot(t).rest) \subseteq Published
    BY <2>1 DEF Published
  <2> DEFINE L == OfKind(registry.slots[t].listeners, "sync")
  <2>3. /\ t \in DOMAIN registry.slots
        /\ snapshot.byType[t] = SnapshotSlot(registry.slots[t])
    BY <1>2, <2>1 DEF RegistrySnapshotOf
  <2>4. ListenersOK(L)
    <3>1. ListenersOK(registry.slots[t].listeners)
      BY <1>2, <2>3 DEF RegistryExact, SlotExact
    <3>2. IsFiniteSet(L)
      BY <3>1, FS_Subset DEF ListenersOK, OfKind
    <3> QED BY <3>1, <3>2 DEF ListenersOK, OfKind
  <2>5. FoundSlot(t).rest = Sorted(L, ByPriority)
    BY <2>1, <2>3 DEF SnapshotSlot
  <2> HIDE DEF L
  <2> QED BY <1>1, <1>3, <2>2, <2>4, <2>5
<1> QED
  BY <1>4, <1>5, <1>6

Withdrawn == LaneLists /\ NoDeliveryAfterRemoval

\* At first there is nothing to run.
LEMMA WithdrawnInit == LaneInit => Withdrawn
<1> SUFFICES ASSUME LaneInit PROVE Withdrawn
  OBVIOUS
<1>1. IsSeq(<<>>) /\ IdsOf(<<>>) = {}
  BY EmptySeq DEF IsSeq, IdsOf
<1> QED
  BY <1>1 DEF LaneInit, ActorsInit, Withdrawn, LaneLists, NoDeliveryAfterRemoval, NoSlot

\* One actor's lists change, and no other's.
LEMMA ActorKeeps ==
  ASSUME LaneInv, Withdrawn, NEW a \in Actors,
         DOMAIN slot' = Actors, DOMAIN letters' = Actors, DOMAIN gone' = Actors,
         \A x \in Actors \ {a} : slot'[x] = slot[x] /\ letters'[x] = letters[x] /\ gone'[x] = gone[x],
         IsSeq(slot'[a].rest), IsSeq(letters'[a]), DOMAIN gone'[a] = {"start", "letter"},
         IdsOf(slot'[a].rest) \cap gone'[a].start = {},
         IdsOf(letters'[a]) \cap gone'[a].letter = {}
  PROVE  Withdrawn'
<1>1. ASSUME NEW x \in Actors
      PROVE  /\ IsSeq(slot'[x].rest) /\ IsSeq(letters'[x]) /\ DOMAIN gone'[x] = {"start", "letter"}
             /\ IdsOf(slot'[x].rest) \cap gone'[x].start = {}
             /\ IdsOf(letters'[x]) \cap gone'[x].letter = {}
  BY DEF Withdrawn, LaneLists, NoDeliveryAfterRemoval
<1> QED
  BY <1>1 DEF Withdrawn, LaneLists, NoDeliveryAfterRemoval

\* Every step of the lanes keeps what was removed out of them.
LEMMA WithdrawnStep ==
  ASSUME Bookkeeping, LaneInv, Withdrawn, NEW a \in Actors, LaneStep(a)
  PROVE  Withdrawn'
<1>1. /\ DOMAIN slot = Actors /\ DOMAIN letters = Actors /\ DOMAIN gone = Actors
      /\ DOMAIN lanePc = Actors
      /\ \A x \in Actors :
           /\ DOMAIN slot[x] = {"type", "rest", "gate"} /\ DOMAIN gone[x] = {"start", "letter"}
           /\ IsSeq(slot[x].rest) /\ IsSeq(letters[x])
           /\ IdsOf(slot[x].rest) \cap gone[x].start = {}
           /\ IdsOf(letters[x]) \cap gone[x].letter = {}
  BY DEF LaneInv, LaneShape, Withdrawn, LaneLists, NoDeliveryAfterRemoval
<1>2. IsSeq(<<>>) /\ IdsOf(<<>>) = {}
  BY EmptySeq DEF IsSeq, IdsOf
<1>3. ASSUME NEW p \in Publishers, NEW t, Publish(p, t) PROVE Withdrawn'
  <2>1. /\ p \in Actors /\ slot' = [slot EXCEPT ![p] = FoundSlot(t)]
        /\ gone' = [gone EXCEPT ![p].start = removed] /\ letters' = letters
        /\ FoundSlot(t).rest # <<>>
    BY <1>3 DEF Publish, Actors
  <2>2. IsSeq(FoundSlot(t).rest) /\ IdsOf(FoundSlot(t).rest) \cap removed = {}
    BY <2>1, FoundLists
  <2> HIDE DEF FoundSlot
  <2>3. /\ slot'[p].rest = FoundSlot(t).rest /\ gone'[p].start = removed
        /\ gone'[p].letter = gone[p].letter /\ letters'[p] = letters[p]
        /\ DOMAIN gone'[p] = {"start", "letter"}
        /\ DOMAIN slot' = Actors /\ DOMAIN letters' = Actors /\ DOMAIN gone' = Actors
        /\ \A x \in Actors \ {p} :
             slot'[x] = slot[x] /\ letters'[x] = letters[x] /\ gone'[x] = gone[x]
    BY <1>1, <2>1
  <2> QED BY <1>1, <2>1, <2>2, <2>3, ActorKeeps
<1>4. CASE UNCHANGED <<slot, letters, gone>>
  BY <1>1, <1>4, ActorKeeps
<1>5. CASE LeaveQueue(a) \/ LeaveLane(a)
  <2>1. /\ slot'[a].rest = <<>> /\ gone'[a].start = {} /\ gone'[a].letter = gone[a].letter
        /\ letters' = letters /\ DOMAIN gone'[a] = {"start", "letter"}
        /\ DOMAIN slot' = Actors /\ DOMAIN gone' = Actors
        /\ \A x \in Actors \ {a} : slot'[x] = slot[x] /\ gone'[x] = gone[x]
    BY <1>1, <1>5 DEF LeaveQueue, LeaveLane, NoSlot
  <2> QED BY <1>1, <1>2, <2>1, ActorKeeps
<1>6. CASE RunListener(a)
  <2>1. /\ slot'[a].rest = Tail(slot[a].rest) /\ slot[a].rest # <<>>
        /\ gone' = gone /\ letters' = letters /\ DOMAIN slot' = Actors
        /\ \A x \in Actors \ {a} : slot'[x] = slot[x]
    BY <1>1, <1>6 DEF RunListener
  <2> DEFINE s == slot[a].rest
  <2>2. IsSeq(s) /\ s # <<>>
    BY <1>1, <2>1
  <2> HIDE DEF s
  <2>3. IsSeq(Tail(s)) /\ IdsOf(Tail(s)) \subseteq IdsOf(s)
    BY <2>2, TailIds DEF IsSeq
  <2>4. IsSeq(slot'[a].rest) /\ IdsOf(slot'[a].rest) \cap gone[a].start = {}
    BY <1>1, <2>1, <2>3 DEF s
  <2> QED BY <1>1, <2>1, <2>4, ActorKeeps
<1>7. CASE Fail(a)
  <2>1. /\ letters'[a] = snapshot.deadLetters /\ gone'[a].letter = removed
        /\ gone'[a].start = gone[a].start /\ slot' = slot
        /\ DOMAIN gone'[a] = {"start", "letter"}
        /\ DOMAIN letters' = Actors /\ DOMAIN gone' = Actors
        /\ \A x \in Actors \ {a} : letters'[x] = letters[x] /\ gone'[x] = gone[x]
    BY <1>1, <1>7 DEF Fail
  <2> QED BY <1>1, <2>1, FoundLists, ActorKeeps
<1>8. CASE NoListener(a) \/ LeaveDeadLane(a)
  <2>1. /\ letters' = letters /\ gone'[a].letter = {}
        /\ gone'[a].start = gone[a].start /\ slot' = slot
        /\ DOMAIN gone'[a] = {"start", "letter"} /\ DOMAIN gone' = Actors
        /\ \A x \in Actors \ {a} : gone'[x] = gone[x]
    BY <1>1, <1>8 DEF NoListener, LeaveDeadLane
  <2> QED BY <1>1, <2>1, ActorKeeps
<1>9. CASE Deliver(a)
  <2>1. /\ letters'[a] = Tail(letters[a]) /\ letters[a] # <<>>
        /\ gone' = gone /\ slot' = slot /\ DOMAIN letters' = Actors
        /\ \A x \in Actors \ {a} : letters'[x] = letters[x]
    BY <1>1, <1>9 DEF Deliver
  <2> DEFINE s == letters[a]
  <2>2. IsSeq(s) /\ s # <<>>
    BY <1>1, <2>1
  <2> HIDE DEF s
  <2>3. IsSeq(Tail(s)) /\ IdsOf(Tail(s)) \subseteq IdsOf(s)
    BY <2>2, TailIds DEF IsSeq
  <2>4. IsSeq(letters'[a]) /\ IdsOf(letters'[a]) \cap gone[a].letter = {}
    BY <1>1, <2>1, <2>3 DEF s
  <2> QED BY <1>1, <2>1, <2>4, ActorKeeps
<1>10. EnterLane(a) \/ EnterDeadLane(a) => UNCHANGED <<slot, letters, gone>>
  BY DEF EnterLane, EnterDeadLane
<1>11. (\E p \in Publishers : \E t \in EventTypes : Publish(p, t)) \/ LeaveQueue(a) \/ Proceed(a)
  BY DEF LaneStep, PublishStart, Republish, Publish
<1> QED
  BY <1>3, <1>4, <1>5, <1>6, <1>7, <1>8, <1>9, <1>10, <1>11 DEF Proceed

\* What the registry does meanwhile keeps the books.
LEMMA RegistryStepBooks ==
  SyncDeadLetters /\ GateRoom /\ Bookkeeping /\ RegistryStep => Bookkeeping'
<1> SUFFICES ASSUME SyncDeadLetters, GateRoom, Bookkeeping, RegistryStep PROVE Bookkeeping'
  OBVIOUS
<1>1. CASE \E c \in Callers : \E id \in granted \ released : CallUnsubscribe(c, id)
  BY <1>1, BooksUnsubscribe
<1>2. CASE Next
  BY <1>2, BooksStep
<1>3. RegistryStep =>
        Next \/ \E c \in Callers : \E id \in granted \ released : CallUnsubscribe(c, id)
  BY DEF RegistryStep, Next, Call, Step
<1> QED
  BY <1>1, <1>2, <1>3

\* A listener that was removed before a publish began, or before the failure
\* that a dead letter tells of, is not run for it.
THEOREM RemovedIsNotRun ==
  ASSUME SyncDeadLetters
  PROVE  LaneSpec => []NoDeliveryAfterRemoval
<1> DEFINE Inv == GateRoom /\ LaneInv /\ Bookkeeping /\ Withdrawn
<1>1. LaneInit => Inv
  BY GateInit, LaneInitInv, BooksInit, WithdrawnInit DEF LaneInit
<1>2. Inv /\ [LaneNext]_<<vars, laneVars>> => Inv'
  <2> SUFFICES ASSUME Inv, [LaneNext]_<<vars, laneVars>> PROVE Bookkeeping' /\ Withdrawn'
    BY LaneInvStep
  <2>1. UNCHANGED vars => Bookkeeping'
    BY BooksStep
  <2>2. UNCHANGED laneVars => Withdrawn'
    BY DEF laneVars, Withdrawn, LaneLists, NoDeliveryAfterRemoval
  <2>3. ASSUME NEW a \in Actors, LaneStep(a) PROVE Bookkeeping' /\ Withdrawn'
    BY <2>1, <2>3, WithdrawnStep DEF LaneStep
  <2>4. CASE RegistryStep /\ UNCHANGED laneVars
    BY <2>2, <2>4, RegistryStepBooks
  <2>5. CASE LaneSettled \/ UNCHANGED <<vars, laneVars>>
    BY <2>1, <2>2, <2>5 DEF LaneSettled
  <2> QED BY <2>3, <2>4, <2>5 DEF LaneNext
<1>3. Inv => NoDeliveryAfterRemoval
  BY DEF Withdrawn
<1> QED
  BY <1>1, <1>2, <1>3, PTL DEF LaneSpec
=============================================================================
