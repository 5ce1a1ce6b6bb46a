--------------------------- MODULE AsyncListener ---------------------------
(***************************************************************************)
(* The async lane after the spawn: tracked tasks that run                  *)
(* execute_async_listener for one listener and one event.  Each attempt    *)
(* takes a permit of the bus-wide semaphore, runs the handler under the    *)
(* handler timeout, gives the permit back and, if it failed, sleeps and    *)
(* tries again until the retries are used up; then the task makes a dead   *)
(* letter if the listener's policy wants one.  Shutdown may abort a task   *)
(* at any await.                                                           *)
(***************************************************************************)
EXTENDS RetryStrategy, FiniteSets

CONSTANTS
  Tasks,        \* the spawned tasks, one per listener and event
  Limit,        \* the permits, where max_concurrent_async is configured
  NoStrategy,   \* retry_strategy = None
  Policies      \* what the tasks' subscription policies may be

\* build() refuses a limit of zero.
ASSUME TasksAssumption == IsFiniteSet(Tasks)
ASSUME LimitAssumption == Limit \in Nat \ {0}
ASSUME PoliciesAssumption ==
  \A policies \in Policies : \A t \in Tasks :
    /\ policies[t].maxRetries \in Nat
    /\ policies[t].deadLetter \in BOOLEAN
    /\ policies[t].strategy # NoStrategy =>
         /\ policies[t].strategy.kind \in {"fixed", "exponential", "jitter"}
         /\ policies[t].strategy.base \in 0 .. DurationMax
         /\ policies[t].strategy.max \in 0 .. DurationMax

VARIABLES
  limited,      \* is max_concurrent_async configured?
  timed,        \* is a handler_timeout configured?
  policy,       \* the subscription policy of each task's listener
  permits,      \* available permits of async_limit
  pc,           \* where each task is
  attempts,     \* attempts made so far
  retriesLeft,  \* retries_left
  delay,        \* the delay of the sleep it is in
  letters       \* dead letters made for the task

config   == <<limited, timed, policy>>
progress == <<attempts, retriesLeft, delay, letters>>
vars     == <<config, permits, pc, progress>>

States == {"attempt", "acquire", "running", "sleep", "failed", "succeeded", "lettered",
           "dropped", "aborted", "panicked"}

Init ==
  /\ limited \in BOOLEAN /\ timed \in BOOLEAN
  /\ policy \in Policies
  /\ permits = Limit
  /\ pc = [t \in Tasks |-> "attempt"]
  /\ attempts = [t \in Tasks |-> 0]
  /\ retriesLeft = [t \in Tasks |-> policy[t].maxRetries]
  /\ delay = [t \in Tasks |-> 0]
  /\ letters = [t \in Tasks |-> 0]

Goto(t, state) == pc' = [pc EXCEPT ![t] = state]

\* The permit is dropped at the end of the attempt, however it ends.
Release == permits' = IF limited THEN permits + 1 ELSE permits

-----------------------------------------------------------------------------

\* The head of the loop, up to the first await.
Begin(t) ==
  /\ pc[t] = "attempt"
  /\ attempts' = [attempts EXCEPT ![t] = @ + 1]
  /\ Goto(t, IF limited THEN "acquire" ELSE "running")
  /\ UNCHANGED <<config, permits, retriesLeft, delay, letters>>

AcquireOverdraw(t) ==
  /\ pc[t] = "acquire"
  /\ permits' = permits - 1
  /\ Goto(t, "running")
  /\ UNCHANGED <<config, progress>>

\* async_limit.acquire().await; the semaphore is never closed.
Acquire(t) ==
  /\ pc[t] = "acquire"
  /\ permits > 0
  /\ permits' = permits - 1
  /\ Goto(t, "running")
  /\ UNCHANGED <<config, progress>>

Succeed(t) ==
  /\ pc[t] = "running"
  /\ Release
  /\ Goto(t, "succeeded")
  /\ UNCHANGED <<config, progress>>

\* The next attempt, at once or after a sleep.  A panic of delay_for_attempt is
\* outside the handler's catch_unwind and ends the task.
BackOff(t) ==
  IF policy[t].strategy = NoStrategy
  THEN Goto(t, "attempt") /\ UNCHANGED delay
  ELSE LET delays == Delays(policy[t].strategy, attempts[t] - 1) IN
    \/ delays = {} /\ Goto(t, "panicked") /\ UNCHANGED delay
    \/ \E d \in delays : delay' = [delay EXCEPT ![t] = d] /\ Goto(t, "sleep")

AttemptFailedOnceMore(t) ==
  /\ pc[t] = "running"
  /\ Release
  /\ \/ retriesLeft[t] <= 1 /\ Goto(t, "failed") /\ UNCHANGED <<retriesLeft, delay>>
     \/ retriesLeft[t] > 1 /\ retriesLeft' = [retriesLeft EXCEPT ![t] = @ - 1] /\ BackOff(t)
  /\ UNCHANGED <<config, attempts, letters>>

AttemptFailed(t) ==
  /\ pc[t] = "running"
  /\ Release
  /\ \/ retriesLeft[t] = 0 /\ Goto(t, "failed") /\ UNCHANGED <<retriesLeft, delay>>
     \/ retriesLeft[t] > 0 /\ retriesLeft' = [retriesLeft EXCEPT ![t] = @ - 1] /\ BackOff(t)
  /\ UNCHANGED <<config, attempts, letters>>

\* The handler returned an error or panicked.
Fail(t) == AttemptFailed(t)

\* handler_timeout elapsed; the handler's future is dropped.  The time spent
\* waiting for a permit does not count.
TimeOut(t) == timed /\ AttemptFailed(t)

Wake(t) ==
  /\ pc[t] = "sleep"
  /\ Goto(t, "attempt")
  /\ delay' = [delay EXCEPT ![t] = 0]
  /\ UNCHANGED <<config, permits, attempts, retriesLeft, letters>>

FinalizeAlways(t) ==
  /\ pc[t] = "failed"
  /\ letters' = [letters EXCEPT ![t] = @ + 1]
  /\ Goto(t, "lettered")
  /\ UNCHANGED <<config, permits, attempts, retriesLeft, delay>>

\* finalize_listener_failure: a dead letter if the policy wants one.
Finalize(t) ==
  /\ pc[t] = "failed"
  /\ IF policy[t].deadLetter
     THEN Goto(t, "lettered") /\ letters' = [letters EXCEPT ![t] = @ + 1]
     ELSE Goto(t, "dropped") /\ UNCHANGED letters
  /\ UNCHANGED <<config, permits, attempts, retriesLeft, delay>>

\* Where a task waits and can be aborted: before its first poll, for a permit,
\* in its handler, between attempts, and while it delivers its dead letter.
Awaiting(t) ==
  \/ pc[t] = "attempt" /\ attempts[t] = 0
  \/ pc[t] \in {"acquire", "running", "sleep"}
  \/ pc[t] = "failed" /\ policy[t].deadLetter

AbortLeakingPermit(t) ==
  /\ Awaiting(t)
  /\ Goto(t, "aborted")
  /\ UNCHANGED <<config, permits, progress>>

\* The abort handle of the task is used; dropping the task drops its permit.
Abort(t) ==
  /\ Awaiting(t)
  /\ IF pc[t] = "running" THEN Release ELSE UNCHANGED permits
  /\ Goto(t, "aborted")
  /\ UNCHANGED <<config, progress>>

Step(t) == Begin(t) \/ Acquire(t) \/ Wake(t) \/ Finalize(t)

Over == {"succeeded", "lettered", "dropped", "aborted", "panicked"}

Settled == (\A t \in Tasks : pc[t] \in Over) /\ UNCHANGED vars

Next ==
  \/ \E t \in Tasks : Step(t) \/ Succeed(t) \/ Fail(t) \/ TimeOut(t) \/ Abort(t)
  \/ Settled

Spec == Init /\ [][Next]_vars

\* Tasks are polled, timers fire, and a free permit goes to who waits for it:
\* weak fairness is enough, since each task takes a permit finitely often.
\* Handlers are assumed to end only where no handler_timeout is configured.
FairSpec ==
  /\ Spec
  /\ \A t \in Tasks :
       WF_vars(Step(t)) /\ WF_vars(TimeOut(t)) /\ WF_vars((Succeed(t) \/ Fail(t)) /\ ~timed)

-----------------------------------------------------------------------------
(* Properties *)

Running == {t \in Tasks : pc[t] = "running"}

\* max_concurrent_async bounds the handlers that run at once, and a permit is
\* held by nobody else: not by a task that sleeps between attempts, makes its
\* dead letter, was aborted or panicked.
PermitsConserved == limited => permits >= 0 /\ permits + Cardinality(Running) = Limit

\* A failure is final only after the first attempt and every retry, neither
\* one fewer nor one more, and no attempt is made beyond them.
AttemptsExact ==
  \A t \in Tasks :
    /\ attempts[t] <= policy[t].maxRetries + 1
    /\ pc[t] \in {"failed", "lettered", "dropped"} => attempts[t] = policy[t].maxRetries + 1

\* A task that failed for good and was not aborted made exactly one dead letter
\* if its policy asked for one, and none otherwise; no other task ever made one.
LettersExact ==
  \A t \in Tasks :
    letters[t] = IF pc[t] \in {"lettered", "dropped"} /\ policy[t].deadLetter THEN 1 ELSE 0

\* The delay after attempt n is the documented one while 2^n fits the factor;
\* from there on it is neither above the documented delay nor below the last
\* exact one, however the shift, the factor and the product saturate.  The
\* jitter stays under it, and fails only for a delay of u64::MAX nanoseconds.
DelayFollowsPolicy ==
  \A t \in {u \in Tasks : policy[u].strategy # NoStrategy} :
    LET s == policy[t].strategy
        n == attempts[t] - 1
    IN /\ pc[t] = "sleep" /\ s.kind = "exponential" /\ n < Pow2[AttemptBits] =>
            delay[t] \in Documented(s, Minimum(n, NarrowBits - 1)) .. Documented(s, n)
       /\ pc[t] = "sleep" /\ s.kind = "jitter" => delay[t] <= Documented(s, n)
       /\ pc[t] = "panicked" => s.kind = "jitter" /\ s.max >= Pow2[NanosBits] - 1

\* Every task ends: because handlers do or, with a handler timeout, even if
\* every handler hangs while holding a permit.
TaskEnds == \A t \in Tasks : <>(pc[t] \in Over)
=============================================================================
