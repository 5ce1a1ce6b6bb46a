---------------------------- MODULE DispatchGate ----------------------------
(***************************************************************************)
(* The admission gate of EventBus: the packed atomic `dispatch_state` that *)
(* counts the publish calls in flight and carries the closed bit, the      *)
(* compare-and-swap loops of begin_dispatch and close_dispatches, the      *)
(* DispatchGuard that leaves the gate, and the wait for the gate to drain  *)
(* with which shutdown begins.  One action is one atomic operation, so     *)
(* every interleaving of publishing and closing threads is a behaviour.    *)
(***************************************************************************)
EXTENDS Integers, FiniteSets

CONSTANTS
  Publishers,   \* the callers of publish
  Shutters,     \* the callers of shutdown
  CountMask     \* DISPATCH_COUNT_MASK, the largest count the word can hold

ASSUME PublishersAssumption == IsFiniteSet(Publishers)
ASSUME CountMaskAssumption == CountMask \in Nat \ {0}

VARIABLES
  timed,     \* Inner.shutdown_timeout: is one configured?
  word,      \* Inner.dispatch_state
  pubPc,     \* where each publish call is
  pubSeen,   \* the word begin_dispatch loaded, while its loop still holds it
  shutPc,    \* where each shutdown call is
  shutSeen,  \* the word close_dispatches loaded, likewise
  waiter     \* each shutdown call's Notified future on dispatches_drained

pubVars  == <<pubPc, pubSeen>>
shutVars == <<shutPc, shutSeen>>
vars     == <<timed, word, pubVars, shutVars, waiter>>

ClosedBit == CountMask + 1
Words     == 0 .. (2 * ClosedBit - 1)

Closed(w) == w >= ClosedBit
Count(w)  == IF Closed(w) THEN w - ClosedBit ELSE w

\* fetch_sub wraps at zero, as usize does.
Decrement(w) == IF w = 0 THEN 2 * ClosedBit - 1 ELSE w - 1

Holders == {p \in Publishers : pubPc[p] = "inside"}

PubStates  == {"idle", "cas", "inside", "notify", "refused", "panicked"}
\* The states of the shutdown call that closed the gate.
CloserStates == {"precheck", "arm", "check", "wait", "drained", "expired", "cancelled"}
ShutStates == CloserStates \cup {"idle", "cas", "noop"}

Init ==
  /\ timed \in BOOLEAN
  /\ word = 0
  /\ pubPc = [p \in Publishers |-> "idle"]
  /\ pubSeen = [p \in Publishers |-> 0]
  /\ shutPc = [s \in Shutters |-> "idle"]
  /\ shutSeen = [s \in Shutters |-> 0]
  /\ waiter = [s \in Shutters |-> "none"]

-----------------------------------------------------------------------------
(* Notify: a Notified future counts from its creation, polled or not, and  *)
(* notify_waiters completes every future that exists when it is called.    *)

NotifyWaiters ==
  waiter' = [s \in Shutters |-> IF waiter[s] = "armed" THEN "notified" ELSE waiter[s]]

-----------------------------------------------------------------------------
(* begin_dispatch, and the guard it returns *)

Advance(p, pc) == pubPc' = [pubPc EXCEPT ![p] = pc]

\* The load and the two checks on what it read.
BeginLoad(p) ==
  /\ pubPc[p] = "idle"
  /\ Advance(p, CASE Closed(word)            -> "refused"
                  [] Count(word) = CountMask -> "panicked"
                  [] OTHER                   -> "cas")
  /\ pubSeen' = [pubSeen EXCEPT ![p] = IF Closed(word) THEN 0 ELSE word]
  /\ UNCHANGED <<timed, word, shutVars, waiter>>

EnterWithoutCompare(p) ==
  /\ pubPc[p] = "cas"
  /\ word' = word + 1
  /\ Advance(p, "inside")
  /\ pubSeen' = [pubSeen EXCEPT ![p] = 0]
  /\ UNCHANGED <<timed, shutVars, waiter>>

EnterStore(p) ==
  /\ pubPc[p] = "cas"
  /\ word' = pubSeen[p] + 1
  /\ Advance(p, "inside")
  /\ pubSeen' = [pubSeen EXCEPT ![p] = 0]
  /\ UNCHANGED <<timed, shutVars, waiter>>

Enter(p) ==
  /\ pubPc[p] = "cas"
  /\ word = pubSeen[p]
  /\ word' = word + 1
  /\ Advance(p, "inside")
  /\ pubSeen' = [pubSeen EXCEPT ![p] = 0]
  /\ UNCHANGED <<timed, shutVars, waiter>>

\* compare_exchange_weak may also fail when the word has not changed.
EnterRetry(p) ==
  /\ pubPc[p] = "cas"
  /\ Advance(p, "idle")
  /\ pubSeen' = [pubSeen EXCEPT ![p] = 0]
  /\ UNCHANGED <<timed, word, shutVars, waiter>>

LeaveOffByOne(p) ==
  /\ pubPc[p] = "inside"
  /\ word' = Decrement(word)
  /\ Advance(p, IF Count(word') = 1 THEN "notify" ELSE "idle")
  /\ UNCHANGED <<timed, pubSeen, shutVars, waiter>>

\* The guard is dropped: the publish call returned, its future was dropped,
\* or it unwound from a panic.
Leave(p) ==
  /\ pubPc[p] = "inside"
  /\ word' = Decrement(word)
  /\ Advance(p, IF Count(word) = 1 THEN "notify" ELSE "idle")
  /\ UNCHANGED <<timed, pubSeen, shutVars, waiter>>

NotifyDrained(p) ==
  /\ pubPc[p] = "notify"
  /\ Advance(p, "idle")
  /\ NotifyWaiters
  /\ UNCHANGED <<timed, word, pubSeen, shutVars>>

-----------------------------------------------------------------------------
(* shutdown: close_dispatches and wait_for_dispatches_to_drain *)

Proceed(s, pc) == shutPc' = [shutPc EXCEPT ![s] = pc]

CloseLoad(s) ==
  /\ shutPc[s] = "idle"
  /\ Proceed(s, IF Closed(word) THEN "noop" ELSE "cas")
  /\ shutSeen' = [shutSeen EXCEPT ![s] = IF Closed(word) THEN 0 ELSE word]
  /\ UNCHANGED <<timed, word, pubVars, waiter>>

CloseStore(s) ==
  /\ shutPc[s] = "cas"
  /\ word' = shutSeen[s] + ClosedBit
  /\ Proceed(s, "precheck")
  /\ shutSeen' = [shutSeen EXCEPT ![s] = 0]
  /\ UNCHANGED <<timed, pubVars, waiter>>

Close(s) ==
  /\ shutPc[s] = "cas"
  /\ word = shutSeen[s]
  /\ word' = word + ClosedBit
  /\ Proceed(s, "precheck")
  /\ shutSeen' = [shutSeen EXCEPT ![s] = 0]
  /\ UNCHANGED <<timed, pubVars, waiter>>

CloseRetry(s) ==
  /\ shutPc[s] = "cas"
  /\ Proceed(s, "idle")
  /\ shutSeen' = [shutSeen EXCEPT ![s] = 0]
  /\ UNCHANGED <<timed, word, pubVars, waiter>>

\* The early return that skips the wait and its timer altogether.
Precheck(s) ==
  /\ shutPc[s] = "precheck"
  /\ Proceed(s, IF Count(word) = 0 THEN "drained" ELSE "arm")
  /\ UNCHANGED <<timed, word, shutSeen, pubVars, waiter>>

\* let notified = self.inner.dispatches_drained.notified();
Arm(s) ==
  /\ shutPc[s] = "arm"
  /\ waiter' = [waiter EXCEPT ![s] = "armed"]
  /\ Proceed(s, "check")
  /\ UNCHANGED <<timed, word, shutSeen, pubVars>>

CheckThenArm(s) ==
  /\ shutPc[s] = "check"
  /\ CASE waiter[s] = "none" -> Proceed(s, "wait") /\ waiter' = [waiter EXCEPT ![s] = "armed"]
       [] Count(word) = 0    -> Proceed(s, "drained") /\ waiter' = [waiter EXCEPT ![s] = "none"]
       [] OTHER              -> UNCHANGED shutPc /\ waiter' = [waiter EXCEPT ![s] = "none"]
  /\ UNCHANGED <<timed, word, shutSeen, pubVars>>

Check(s) ==
  /\ shutPc[s] = "check"
  /\ IF Count(word) = 0
     THEN Proceed(s, "drained") /\ waiter' = [waiter EXCEPT ![s] = "none"]
     ELSE Proceed(s, "wait") /\ UNCHANGED waiter
  /\ UNCHANGED <<timed, word, shutSeen, pubVars>>

WakeTrusting(s) ==
  /\ shutPc[s] = "wait"
  /\ waiter[s] = "notified"
  /\ waiter' = [waiter EXCEPT ![s] = "none"]
  /\ Proceed(s, "drained")
  /\ UNCHANGED <<timed, word, shutSeen, pubVars>>

Wake(s) ==
  /\ shutPc[s] = "wait"
  /\ waiter[s] = "notified"
  /\ waiter' = [waiter EXCEPT ![s] = "none"]
  /\ Proceed(s, "arm")
  /\ UNCHANGED <<timed, word, shutSeen, pubVars>>

ExpireUntimed(s) ==
  /\ ~timed
  /\ shutPc[s] = "wait"
  /\ waiter[s] = "armed"
  /\ waiter' = [waiter EXCEPT ![s] = "none"]
  /\ Proceed(s, "expired")
  /\ UNCHANGED <<timed, word, shutSeen, pubVars>>

\* tokio::time::timeout polls the wait before its timer: a completed
\* notification is always consumed first.
Expire(s) ==
  /\ timed
  /\ shutPc[s] = "wait"
  /\ waiter[s] = "armed"
  /\ waiter' = [waiter EXCEPT ![s] = "none"]
  /\ Proceed(s, "expired")
  /\ UNCHANGED <<timed, word, shutSeen, pubVars>>

\* The caller drops the shutdown future at its only await point of this phase.
Cancel(s) ==
  /\ shutPc[s] = "wait"
  /\ waiter' = [waiter EXCEPT ![s] = "none"]
  /\ Proceed(s, "cancelled")
  /\ UNCHANGED <<timed, word, shutSeen, pubVars>>

-----------------------------------------------------------------------------

Publish(p) == BeginLoad(p) \/ Enter(p) \/ EnterRetry(p) \/ Leave(p) \/ NotifyDrained(p)

AwaitDrain(s) == Precheck(s) \/ Arm(s) \/ Check(s) \/ Wake(s) \/ Expire(s)

Shutdown(s) == CloseLoad(s) \/ Close(s) \/ CloseRetry(s) \/ AwaitDrain(s) \/ Cancel(s)

\* Every caller has its answer; nothing is left to do.
Settled ==
  /\ \A p \in Publishers : pubPc[p] \in {"refused", "panicked"}
  /\ \A s \in Shutters : shutPc[s] \in {"noop", "drained", "expired", "cancelled"}
  /\ UNCHANGED vars

Next ==
  \/ \E p \in Publishers : Publish(p)
  \/ \E s \in Shutters : Shutdown(s)
  \/ Settled

Spec == Init /\ [][Next]_vars

\* A thread that is past an atomic operation performs the next one, and timers
\* fire.  Publish calls that were admitted are assumed to end only where no
\* shutdown_timeout is configured: with one they may hang for ever.  Nobody is
\* obliged to call publish or shutdown, to win a compare-and-swap or to drop a
\* future.
FairSpec ==
  /\ Spec
  /\ \A p \in Publishers : WF_vars(Leave(p) /\ ~timed) /\ WF_vars(NotifyDrained(p))
  /\ \A s \in Shutters : WF_vars(AwaitDrain(s))

-----------------------------------------------------------------------------
(* Properties *)

WaiterStates == {"none", "armed", "notified"}

\* The shape of the state.
TypeOK ==
  /\ timed \in BOOLEAN
  /\ word \in Words
  /\ pubPc \in [Publishers -> PubStates]
  /\ pubSeen \in [Publishers -> Words]
  /\ shutPc \in [Shutters -> ShutStates]
  /\ shutSeen \in [Shutters -> Words]
  /\ waiter \in [Shutters -> WaiterStates]

\* The count packed under the closed bit is the number of publish calls that
\* hold a DispatchGuard: no increment is lost to a concurrent close, no
\* increment spills into the closed bit, and no guard is subtracted twice.
CountIsGuards == Count(word) = Cardinality(Holders)

Closers == {s \in Shutters : shutPc[s] \in CloserStates}

\* The closed bit is set exactly when one shutdown call took close_dispatches
\* to be its own; every other call returned, or will return, at once.
OneCloser ==
  /\ Closed(word) <=> Closers # {}
  /\ \A s, t \in Closers : s = t

\* When the wait reports a drained gate, no publish call is inside the bus,
\* and since this is an invariant none ever will be again.
DrainedIsEmpty == \A s \in Shutters : shutPc[s] = "drained" => Holders = {}

\* The reason a drain is never slept through: if the gate is empty while
\* shutdown sleeps on a future nobody completed, a guard that was the last
\* to leave is about to call notify_waiters.
NoLostWakeup ==
  \A s \in Shutters :
    shutPc[s] = "wait" /\ waiter[s] = "armed" /\ Count(word) = 0
      => \E p \in Publishers : pubPc[p] = "notify"

\* Once the closed bit is visible no publish call is admitted, not even one
\* that loaded the word before, and the bit is never cleared.
ClosedAdmitsNobody ==
  [][Closed(word) => Closed(word') /\ Holders' \subseteq Holders]_vars

\* A shutdown that closed the gate gets its answer, drained or timed out,
\* unless its caller gives up: because admitted publish calls end or, with a
\* shutdown_timeout, even if they never do.
ShutdownAnswered ==
  \A s \in Shutters :
    shutPc[s] \in CloserStates ~> shutPc[s] \in {"drained", "expired", "cancelled"}

-----------------------------------------------------------------------------
(* The abstract promise *)

Outcome ==
  IF \E s \in Shutters : shutPc[s] = "drained" THEN "drained"
  ELSE IF \E s \in Shutters : shutPc[s] \in {"expired", "cancelled"} THEN "gave_up"
  ELSE "pending"

Bus == INSTANCE Lifecycle WITH
  accepting <- ~Closed(word), inside <- Holders, outcome <- Outcome

\* The packed word, its CAS loops and the Notify implement Lifecycle.
ImplementsLifecycle == Bus!Spec

\* They also implement its liveness: a closed gate that stays empty is reported.
ImplementsFairLifecycle == Bus!FairSpec
=============================================================================
