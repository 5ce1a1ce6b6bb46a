------------------------------ MODULE Pipeline ------------------------------
(***************************************************************************)
(* One publish, from the snapshot to the listeners: the choice between the *)
(* sync-only path, the path without middleware and the full path, the      *)
(* global and typed middlewares that can reject or panic, the spawn of the *)
(* async listeners, the sync listeners, and the dead letter of each sync   *)
(* listener that fails, with its own pass through the middlewares.  The    *)
(* snapshot is immutable, so a publish is a function of its input; what it *)
(* does is the sequence of the things it runs.  SyncLane has the gates.    *)
(***************************************************************************)
EXTENDS Registry

CONSTANTS
  EventType,   \* the type that is published
  Inputs       \* what TLC tries: [registry, verdict, letterVerdict, fails, quiet]

\* Every registry that calls make is proper (BusRegistryProofs, RegistryIsProper).
ASSUME InputsAssumption == \A reg \in {in.registry : in \in Inputs} : ProperRegistry(reg)

(* A step of a trace: <<"mw", event type, id>>, <<"spawn", id>>,           *)
(* <<"run", id>> or <<"letter", id>>.                                       *)

-----------------------------------------------------------------------------
(* Middleware loops *)

\* The middlewares that run: all, or those up to the first that does not
\* accept (it rejects, or it panics, which counts as a rejection).
Passed(mws, verdict) ==
  LET bad == {i \in DOMAIN mws : verdict[mws[i].id] # "accept"}
  IN IF bad = {} THEN Len(mws) ELSE CHOOSE i \in bad : \A j \in bad : i <= j

Blocks(mws, verdict) == \E i \in DOMAIN mws : verdict[mws[i].id] # "accept"

Steps(mws, n, type) == [i \in 1 .. n |-> <<"mw", type, mws[i].id>>]

Intercept(mws, verdict, type) ==
  [ok |-> ~Blocks(mws, verdict), trace |-> Steps(mws, Passed(mws, verdict), type)]

\* In the sync-only path an async middleware is an internal error, met before
\* it runs.
InterceptSync(mws, verdict, type) ==
  LET n == Passed(mws, verdict)
      async == {i \in 1 .. n : mws[i].kind = "async"}
  IN IF async = {} THEN [ok |-> ~Blocks(mws, verdict), trace |-> Steps(mws, n, type)]
     ELSE [ok |-> FALSE, trace |-> Append(Steps(mws, 0, type), <<"internal error", EventType>>)]

-----------------------------------------------------------------------------
(* Listeners and dead letters *)

NoSlot == [syncListeners |-> <<>>, asyncListeners |-> <<>>, middlewares |-> <<>>,
           hasAsyncMiddleware |-> FALSE, gate |-> 0]

SlotOf(snapshot, type) ==
  IF type \in DOMAIN snapshot.byType THEN snapshot.byType[type] ELSE NoSlot

Found(snapshot, type) == type \in DOMAIN snapshot.byType

DeliverDeadLetterUnfiltered(snapshot, verdict) ==
  [i \in DOMAIN snapshot.deadLetters |-> <<"letter", snapshot.deadLetters[i].id>>]

\* deliver_dead_letter: the middlewares decide about the dead letter too.
DeliverDeadLetter(snapshot, verdict) ==
  LET global == Intercept(snapshot.globals, verdict, DeadLetter)
      typed  == Intercept(SlotOf(snapshot, DeadLetter).middlewares, verdict, DeadLetter)
      letters == [i \in DOMAIN snapshot.deadLetters |-> <<"letter", snapshot.deadLetters[i].id>>]
  IN IF ~global.ok THEN global.trace
     ELSE IF ~typed.ok THEN global.trace \o typed.trace
     ELSE global.trace \o typed.trace \o letters

\* The sync listeners in order; each that fails is followed by its dead letter,
\* unless it is one of those whose policy has dead_letter off.
RunSync(snapshot, listeners, input) ==
  LET One(l) == <<<<"run", l.id>>>> \o
                (IF l.id \in input.fails \ input.quiet
                 THEN DeliverDeadLetter(snapshot, input.letterVerdict) ELSE <<>>)
  IN FlattenSeq([i \in DOMAIN listeners |-> One(listeners[i])])

SpawnAsync(listeners) == [i \in DOMAIN listeners |-> <<"spawn", listeners[i].id>>]

DispatchSlotSyncFirst(snapshot, slot, input) ==
  RunSync(snapshot, slot.syncListeners, input) \o SpawnAsync(slot.asyncListeners)

\* dispatch_slot: the async lane is scheduled before the sync gate is awaited.
DispatchSlot(snapshot, slot, input) ==
  SpawnAsync(slot.asyncListeners) \o RunSync(snapshot, slot.syncListeners, input)

-----------------------------------------------------------------------------
(* The paths *)

Outcome(result, trace) == [result |-> result, trace |-> trace]

DispatchWithSnapshot(snapshot, input) ==
  LET slot == SlotOf(snapshot, EventType)
      global == Intercept(snapshot.globals, input.verdict, EventType)
      typed  == Intercept(slot.middlewares, input.verdict, EventType)
  IN IF ~global.ok THEN Outcome("rejected", global.trace)
     ELSE IF ~Found(snapshot, EventType) THEN Outcome("ok", global.trace)
     ELSE IF ~typed.ok THEN Outcome("rejected", global.trace \o typed.trace)
     ELSE Outcome("ok", global.trace \o typed.trace \o DispatchSlot(snapshot, slot, input))

\* publish_erased skips the middleware loops when there is none.
PublishErased(snapshot, input) ==
  IF snapshot.globals = <<>> /\ SlotOf(snapshot, EventType).middlewares = <<>>
  THEN Outcome("ok", IF Found(snapshot, EventType)
                     THEN DispatchSlot(snapshot, SlotOf(snapshot, EventType), input) ELSE <<>>)
  ELSE DispatchWithSnapshot(snapshot, input)

DispatchSyncOnly(snapshot, input) ==
  LET slot == SlotOf(snapshot, EventType)
      global == InterceptSync(snapshot.globals, input.verdict, EventType)
      typed  == InterceptSync(slot.middlewares, input.verdict, EventType)
  IN IF ~global.ok THEN Outcome("rejected", global.trace)
     ELSE IF ~Found(snapshot, EventType) THEN Outcome("ok", global.trace)
     ELSE IF ~typed.ok THEN Outcome("rejected", global.trace \o typed.trace)
     ELSE Outcome("ok", global.trace \o typed.trace
                        \o RunSync(snapshot, slot.syncListeners, input))

\* The flag by which publish chooses its path.
SyncOnly(snapshot) ==
  LET slot == SlotOf(snapshot, EventType)
  IN ~snapshot.globalHasAsync /\ slot.asyncListeners = <<>> /\ ~slot.hasAsyncMiddleware

Publish(snapshot, input) ==
  IF ~Found(snapshot, EventType) /\ snapshot.globals = <<>> THEN Outcome("ok", <<>>)
  ELSE IF SyncOnly(snapshot) THEN DispatchSyncOnly(snapshot, input)
  ELSE PublishErased(snapshot, input)

-----------------------------------------------------------------------------
(* One publish call as a step *)

VARIABLES input, done, outcome

vars == <<input, done, outcome>>

Init ==
  /\ input \in Inputs
  /\ done = FALSE
  /\ outcome = Outcome("pending", <<>>)

PublishCall ==
  /\ ~done
  /\ done' = TRUE
  /\ outcome' = Publish(RegistrySnapshotOf(input.registry), input)
  /\ UNCHANGED input

Next == PublishCall

Spec == Init /\ [][Next]_vars

-----------------------------------------------------------------------------
(* Properties *)

Tagged(tag, seq) == [i \in DOMAIN seq |-> <<tag, seq[i].id>>]

\* The plain pipeline, spelled out from the registry and not from the snapshot:
\* the middlewares up to the first that objects; if none does, the async
\* listeners in the order of registration and then the sync listeners by
\* priority and, where it is equal, registration.
Reference ==
  LET reg == input.registry
      slot == IF EventType \in DOMAIN reg.slots THEN reg.slots[EventType] ELSE EmptySlot(0)
      mws == reg.globals \o slot.middlewares
      blocked == {i \in DOMAIN mws : input.verdict[mws[i].id] # "accept"}
      upTo == IF blocked = {} THEN Len(mws) ELSE Min(blocked)
      asked == [i \in 1 .. upTo |-> <<"mw", EventType, mws[i].id>>]
      sync  == Sorted({l \in slot.listeners : l.kind = "sync"},
                 LAMBDA a, b : a.priority > b.priority
                               \/ (a.priority = b.priority /\ a.id < b.id))
      async == Sorted({l \in slot.listeners : l.kind = "async"}, LAMBDA a, b : a.id < b.id)
  IN IF blocked = {} THEN Outcome("ok", asked \o Tagged("spawn", async) \o Tagged("run", sync))
     ELSE Outcome("rejected", asked)

\* What a trace tells of the event: not what its dead letters pass and reach.
OfEvent(step) ==
  step[1] \in {"spawn", "run"} \/ (step[1] \in {"mw", "internal error"} /\ step[2] = EventType)

EventSteps(trace) ==
  LET kept[n \in 0 .. Len(trace)] ==
        IF n = 0 THEN <<>>
        ELSE IF OfEvent(trace[n]) THEN Append(kept[n - 1], trace[n]) ELSE kept[n - 1]
  IN kept[Len(trace)]

\* The path that publish takes is an optimisation and nothing else: whichever
\* it is, and dead letters apart, it does what the plain pipeline does, in the
\* same order, and returns the same.
PathsAgree ==
  done =>
    /\ outcome.result = Reference.result
    /\ EventSteps(outcome.trace) = Reference.trace

Occurrences(step, trace) == Cardinality({i \in DOMAIN trace : trace[i] = step})

\* A dead-letter listener runs once for each sync listener that failed and wants
\* it known, unless a middleware stopped the dead letter, and then none of them
\* does; no dead letter is made for a rejected event.
LettersFollowFailures ==
  done =>
    LET reg == input.registry
        run == {step[2] : step \in {s \in ToSet(Reference.trace) : s[1] = "run"}}
        failed == (run \cap input.fails) \ input.quiet
        typed == IF DeadLetter \in DOMAIN reg.slots THEN reg.slots[DeadLetter].middlewares ELSE <<>>
        passes == \A mw \in ToSet(reg.globals \o typed) : input.letterVerdict[mw.id] = "accept"
    IN \A l \in reg.deadLetters :
         Occurrences(<<"letter", l.id>>, outcome.trace)
           = IF passes THEN Cardinality(failed) ELSE 0
=============================================================================
