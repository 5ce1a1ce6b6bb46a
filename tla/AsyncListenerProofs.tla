------------------------ MODULE AsyncListenerProofs ------------------------
(***************************************************************************)
(* Proofs about AsyncListener, for any number of tasks and permits, any    *)
(* policies and any integer widths: the permits, the attempts, the letters *)
(* and the delays between attempts.                                        *)
(***************************************************************************)
EXTENDS AsyncListener, FiniteSetTheorems, NaturalsInduction, WellFoundedInduction, TLAPS

Shape ==
  /\ limited \in BOOLEAN
  /\ policy \in Policies
  /\ permits \in Nat
  /\ pc \in [Tasks -> States]
  /\ attempts \in [Tasks -> Nat]
  /\ retriesLeft \in [Tasks -> Nat]
  /\ letters \in [Tasks -> Nat]

(* The retries that are left and the attempts that were made add up to the *)
(* budget of the policy: before the head of the loop counts the next       *)
(* attempt to max_retries, after it to one more; and a failure is final    *)
(* when none is left.                                                      *)
BudgetOf(t) ==
  /\ pc[t] \in {"attempt", "sleep"} => attempts[t] + retriesLeft[t] = policy[t].maxRetries
  /\ pc[t] \in {"acquire", "running", "failed", "lettered", "dropped"} =>
       attempts[t] + retriesLeft[t] = policy[t].maxRetries + 1
  /\ pc[t] \in {"failed", "lettered", "dropped"} => retriesLeft[t] = 0
  /\ attempts[t] + retriesLeft[t] <= policy[t].maxRetries + 1

Budget == \A t \in Tasks : BudgetOf(t)

(* The delay of a task is the one that its strategy gives for the attempt  *)
(* it has made last.                                                       *)
DelayGiven(t) ==
  LET s == policy[t].strategy
      delays == Delays(s, attempts[t] - 1)
  IN /\ pc[t] \in {"acquire", "running", "sleep", "panicked"} => attempts[t] >= 1
     /\ pc[t] = "sleep" => s # NoStrategy /\ delay[t] \in delays
     /\ pc[t] = "panicked" => s # NoStrategy /\ delays = {}

DelaysGiven == DOMAIN delay = Tasks /\ \A t \in Tasks : DelayGiven(t)

IInv == Shape /\ Budget /\ PermitsConserved /\ LettersExact

\* Finitely many handlers run, so they can be counted.
LEMMA RunningFinite == IsFiniteSet(Running) /\ Cardinality(Running) \in Nat
<1>1. Running \subseteq Tasks
  BY DEF Running
<1>2. IsFiniteSet(Running)
  BY <1>1, TasksAssumption, FS_Subset
<1> QED
  BY <1>2, FS_CardinalityType

\* A task that starts or ends an attempt changes the count by one.
LEMMA RunningChange ==
  ASSUME NEW t
  PROVE  /\ t \notin Running => Cardinality(Running \cup {t}) = Cardinality(Running) + 1
         /\ t \in Running => Cardinality(Running \ {t}) = Cardinality(Running) - 1
<1> QED
  BY RunningFinite, FS_AddElement, FS_RemoveElement

\* Retries are a number, whatever the policy.
LEMMA RetriesAreNat ==
  ASSUME policy \in Policies, NEW t \in Tasks
  PROVE  policy[t].maxRetries \in Nat /\ policy[t].deadLetter \in BOOLEAN
<1> QED
  BY PoliciesAssumption

\* No task has made an attempt, and every permit is free.
LEMMA InitInv == Init => IInv
<1> SUFFICES ASSUME Init PROVE IInv
  OBVIOUS
<1> USE LimitAssumption, RetriesAreNat DEF Init
<1>1. Shape
  BY DEF Shape, States
<1>2. Budget
  BY DEF Budget, BudgetOf
<1>3. PermitsConserved
  <2>1. Running = {}
    BY DEF Running
  <2> QED BY <2>1, FS_EmptySet DEF PermitsConserved
<1>4. LettersExact
  BY DEF LettersExact
<1> QED
  BY <1>1, <1>2, <1>3, <1>4 DEF IInv

\* A step that keeps the handlers that run, and the permits, keeps the account.
LEMMA AccountKept ==
  ASSUME PermitsConserved, limited' = limited, permits' = permits, Running' = Running
  PROVE  PermitsConserved'
<1> QED
  BY DEF PermitsConserved

\* A task that stops running gives its permit back.
LEMMA AccountReleased ==
  ASSUME Shape, PermitsConserved, limited' = limited, Release,
         NEW t \in Running, Running' = Running \ {t}
  PROVE  PermitsConserved' /\ permits' \in Nat
<1> QED
  BY RunningChange, RunningFinite, LimitAssumption DEF Shape, PermitsConserved, Release

\* A failed attempt, whoever calls it a failure: the handler or its timeout.
LEMMA FailureKeeps ==
  ASSUME IInv, NEW t \in Tasks, AttemptFailed(t)
  PROVE  IInv'
<1> USE RetriesAreNat DEF IInv, Shape, States, AttemptFailed, BackOff, Goto, config
<1>1. /\ pc[t] = "running"
      /\ \E state \in {"failed", "attempt", "sleep", "panicked"} :
           pc' = [pc EXCEPT ![t] = state]
  OBVIOUS
<1>2. Running' = Running \ {t} /\ t \in Running
  BY <1>1 DEF Running
<1>3. PermitsConserved' /\ permits' \in Nat
  BY <1>2, AccountReleased
<1>4. Shape'
  BY <1>3
<1>5. Budget'
  <2>1. CASE retriesLeft[t] = 0
    <3>1. pc' = [pc EXCEPT ![t] = "failed"] /\ UNCHANGED <<attempts, retriesLeft, policy>>
      BY <2>1
    <3> QED BY <1>1, <2>1, <3>1 DEF Budget, BudgetOf
  <2>2. CASE retriesLeft[t] > 0
    <3>1. /\ pc'[t] \in {"attempt", "sleep", "panicked"}
          /\ \A u \in Tasks \ {t} : pc'[u] = pc[u]
          /\ retriesLeft' = [retriesLeft EXCEPT ![t] = @ - 1]
          /\ UNCHANGED <<attempts, policy>>
      BY <2>2
    <3> QED BY <1>1, <2>2, <3>1 DEF Budget, BudgetOf
  <2> QED BY <2>1, <2>2
<1>6. LettersExact'
  BY <1>1 DEF LettersExact
<1> QED
  BY <1>3, <1>4, <1>5, <1>6

\* Every step of execute_async_listener, of its timer and of an abort keeps IInv.
LEMMA StepInv == IInv /\ [Next]_vars => IInv'
<1> SUFFICES ASSUME IInv, [Next]_vars PROVE IInv'
  OBVIOUS
<1> USE RetriesAreNat DEF IInv, Shape, States, Goto, config, progress
<1>1. ASSUME NEW t \in Tasks, Begin(t) PROVE IInv'
  <2> USE <1>1 DEF Begin
  <2>1. Shape' OBVIOUS
  <2>2. Budget'
    <3>1. /\ pc[t] = "attempt" /\ pc'[t] \in {"acquire", "running"}
          /\ attempts'[t] = attempts[t] + 1
          /\ \A u \in Tasks \ {t} : pc'[u] = pc[u] /\ attempts'[u] = attempts[u]
          /\ UNCHANGED <<retriesLeft, policy>>
      OBVIOUS
    <3>2. ASSUME NEW u \in Tasks PROVE BudgetOf(u)'
      <4>1. CASE u = t BY <3>1, <4>1 DEF Budget, BudgetOf
      <4>2. CASE u # t BY <3>1, <4>2 DEF Budget, BudgetOf
      <4> QED BY <4>1, <4>2
    <3> QED BY <3>2 DEF Budget
  <2>3. PermitsConserved'
    <3>1. CASE limited
      <4>1. Running' = Running BY <3>1 DEF Running
      <4> QED BY <4>1, AccountKept
    <3>2. CASE ~limited BY <3>2 DEF PermitsConserved
    <3> QED BY <3>1, <3>2
  <2>4. LettersExact' BY DEF LettersExact
  <2> QED BY <2>1, <2>2, <2>3, <2>4
<1>2. ASSUME NEW t \in Tasks, Acquire(t) PROVE IInv'
  <2> USE <1>2 DEF Acquire
  <2>1. Shape' OBVIOUS
  <2>2. Budget' BY DEF Budget, BudgetOf
  <2>3. Running' = Running \cup {t} /\ t \notin Running BY DEF Running
  <2>4. PermitsConserved' BY <2>3, RunningChange, RunningFinite, LimitAssumption DEF PermitsConserved
  <2>5. LettersExact' BY DEF LettersExact
  <2> QED BY <2>1, <2>2, <2>4, <2>5
<1>3. ASSUME NEW t \in Tasks, Wake(t) PROVE IInv'
  <2> USE <1>3 DEF Wake
  <2>1. Shape' OBVIOUS
  <2>2. Budget' BY DEF Budget, BudgetOf
  <2>3. Running' = Running BY DEF Running
  <2>4. PermitsConserved' BY <2>3, AccountKept
  <2>5. LettersExact' BY DEF LettersExact
  <2> QED BY <2>1, <2>2, <2>4, <2>5
<1>4. ASSUME NEW t \in Tasks, Finalize(t) PROVE IInv'
  <2> USE <1>4 DEF Finalize
  <2>1. Shape' OBVIOUS
  <2>2. Budget' BY DEF Budget, BudgetOf
  <2>3. Running' = Running BY DEF Running
  <2>4. PermitsConserved' BY <2>3, AccountKept
  <2>5. LettersExact' BY DEF LettersExact
  <2> QED BY <2>1, <2>2, <2>4, <2>5
<1>5. ASSUME NEW t \in Tasks, Succeed(t) PROVE IInv'
  <2> USE <1>5 DEF Succeed
  <2>1. Running' = Running \ {t} /\ t \in Running BY DEF Running
  <2>2. PermitsConserved' /\ permits' \in Nat BY <2>1, AccountReleased
  <2>3. Shape' BY <2>2
  <2>4. Budget' BY DEF Budget, BudgetOf
  <2>5. LettersExact' BY DEF LettersExact
  <2> QED BY <2>2, <2>3, <2>4, <2>5
<1>6. ASSUME NEW t \in Tasks, Fail(t) \/ TimeOut(t) PROVE IInv'
  BY <1>6, FailureKeeps DEF Fail, TimeOut
<1>7. ASSUME NEW t \in Tasks, Abort(t) PROVE IInv'
  <2> USE <1>7 DEF Abort, Awaiting
  <2>1. ASSUME pc[t] = "running" PROVE PermitsConserved' /\ permits' \in Nat
    <3>1. Running' = Running \ {t} /\ t \in Running BY <2>1 DEF Running
    <3>2. Release /\ limited' = limited BY <2>1
    <3>3. Shape /\ PermitsConserved OBVIOUS
    <3> QED BY <3>1, <3>2, <3>3, AccountReleased
  <2>2. ASSUME pc[t] # "running" PROVE PermitsConserved' /\ permits' \in Nat
    <3>1. Running' = Running BY <2>2 DEF Running
    <3>2. permits' = permits /\ limited' = limited BY <2>2
    <3> QED BY <3>1, <3>2, AccountKept
  <2>3. PermitsConserved' /\ permits' \in Nat BY <2>1, <2>2
  <2>4. Shape' BY <2>3
  <2>5. Budget' BY DEF Budget, BudgetOf
  <2>6. LettersExact' BY DEF LettersExact
  <2> QED BY <2>3, <2>4, <2>5, <2>6
<1>8. ASSUME UNCHANGED vars PROVE IInv'
  <2>1. Running' = Running BY <1>8 DEF vars, Running
  <2> QED BY <1>8, <2>1, AccountKept DEF vars, Budget, BudgetOf, LettersExact
<1> QED
  BY <1>1, <1>2, <1>3, <1>4, <1>5, <1>6, <1>7, <1>8 DEF Next, Step, Settled

\* The attempt that failed last decides how long the task sleeps.
LEMMA DelayOfOne ==
  ASSUME IInv, DelaysGiven, [Next]_vars, NEW t \in Tasks
  PROVE  DOMAIN delay' = Tasks /\ DelayGiven(t)'
<1>1. /\ Shape /\ DOMAIN delay = Tasks /\ \A u \in Tasks : DelayGiven(u)
      /\ \A u \in Tasks : attempts[u] \in Nat
  BY DEF IInv, DelaysGiven, Shape
<1>2. ASSUME policy' = policy, DOMAIN delay' = Tasks, pc'[t] = pc[t],
             attempts'[t] = attempts[t], delay'[t] = delay[t]
      PROVE  DelayGiven(t)'
  BY <1>1, <1>2 DEF DelayGiven
<1> USE DEF Shape, Goto, config, progress
<1>3. ASSUME NEW u \in Tasks, Begin(u) PROVE DOMAIN delay' = Tasks /\ DelayGiven(t)'
  <2>1. /\ policy' = policy /\ delay' = delay /\ pc'[u] \in {"acquire", "running"}
        /\ attempts'[u] = attempts[u] + 1
        /\ u # t => pc'[t] = pc[t] /\ attempts'[t] = attempts[t]
    BY <1>1, <1>3 DEF Begin
  <2>2. CASE u = t
    BY <1>1, <2>1, <2>2 DEF DelayGiven
  <2> QED BY <1>1, <1>2, <2>1, <2>2
<1>4. ASSUME NEW u \in Tasks, Acquire(u) PROVE DOMAIN delay' = Tasks /\ DelayGiven(t)'
  <2>1. /\ policy' = policy /\ delay' = delay /\ attempts' = attempts
        /\ pc[u] = "acquire" /\ pc'[u] = "running"
        /\ u # t => pc'[t] = pc[t]
    BY <1>1, <1>4 DEF Acquire
  <2>2. CASE u = t
    BY <1>1, <2>1, <2>2 DEF DelayGiven
  <2> QED BY <1>1, <1>2, <2>1, <2>2
<1>5. ASSUME NEW u \in Tasks, Wake(u) PROVE DOMAIN delay' = Tasks /\ DelayGiven(t)'
  <2>1. /\ policy' = policy /\ DOMAIN delay' = Tasks /\ attempts' = attempts
        /\ pc'[u] = "attempt"
        /\ u # t => pc'[t] = pc[t] /\ delay'[t] = delay[t]
    BY <1>1, <1>5 DEF Wake
  <2>2. CASE u = t
    BY <2>1, <2>2 DEF DelayGiven
  <2> QED BY <1>1, <1>2, <2>1, <2>2
<1>6. ASSUME NEW u \in Tasks, Finalize(u) \/ Succeed(u) \/ Abort(u)
      PROVE  DOMAIN delay' = Tasks /\ DelayGiven(t)'
  <2>1. /\ policy' = policy /\ delay' = delay /\ attempts' = attempts
        /\ pc'[u] \in {"lettered", "dropped", "succeeded", "aborted"}
        /\ u # t => pc'[t] = pc[t]
    BY <1>1, <1>6 DEF Finalize, Succeed, Abort
  <2>2. CASE u = t
    BY <1>1, <2>1, <2>2 DEF DelayGiven
  <2> QED BY <1>1, <1>2, <2>1, <2>2
<1>7. ASSUME NEW u \in Tasks, AttemptFailed(u) PROVE DOMAIN delay' = Tasks /\ DelayGiven(t)'
  <2>1. /\ policy' = policy /\ attempts' = attempts /\ pc[u] = "running"
        /\ \/ pc' = [pc EXCEPT ![u] = "failed"] /\ delay' = delay
           \/ BackOff(u)
    BY <1>7 DEF AttemptFailed
  <2>2. CASE pc' = [pc EXCEPT ![u] = "failed"] /\ delay' = delay
    <3>1. CASE u = t
      BY <1>1, <2>1, <2>2, <3>1 DEF DelayGiven
    <3> QED BY <1>1, <1>2, <2>1, <2>2, <3>1
  <2>3. CASE BackOff(u)
    <3> DEFINE s == policy[u].strategy
               delays == Delays(s, attempts[u] - 1)
    <3>1. \/ pc' = [pc EXCEPT ![u] = "attempt"] /\ delay' = delay
          \/ s # NoStrategy /\ delays = {} /\ pc' = [pc EXCEPT ![u] = "panicked"] /\ delay' = delay
          \/ s # NoStrategy /\ \E d \in delays : delay' = [delay EXCEPT ![u] = d]
                                                 /\ pc' = [pc EXCEPT ![u] = "sleep"]
      BY <2>3 DEF BackOff
    <3>2. attempts[u] >= 1
      BY <1>1, <2>1 DEF DelayGiven
    <3>3. DOMAIN delay' = Tasks /\ (u # t => pc'[t] = pc[t] /\ delay'[t] = delay[t])
      BY <1>1, <3>1
    <3>4. CASE u = t
      <4>1. pc'[u] = "attempt" \/ (pc'[u] = "panicked" /\ s # NoStrategy /\ delays = {})
              \/ (pc'[u] = "sleep" /\ s # NoStrategy /\ delay'[u] \in delays)
        BY <1>1, <3>1
      <4> QED BY <2>1, <3>2, <3>3, <3>4, <4>1 DEF DelayGiven
    <3> QED BY <1>2, <2>1, <3>3, <3>4
  <2> QED BY <2>1, <2>2, <2>3
<1>8. ASSUME UNCHANGED vars PROVE DOMAIN delay' = Tasks /\ DelayGiven(t)'
  BY <1>1, <1>2, <1>8 DEF vars
<1> QED
  BY <1>3, <1>4, <1>5, <1>6, <1>7, <1>8 DEF Next, Step, Settled, Fail, TimeOut

LEMMA DelayStep == IInv /\ DelaysGiven /\ [Next]_vars => DelaysGiven'
<1> SUFFICES ASSUME IInv, DelaysGiven, [Next]_vars PROVE DelaysGiven'
  OBVIOUS
<1>1. \A t \in Tasks : DelayGiven(t)'
  BY DelayOfOne
<1>2. DOMAIN delay' = Tasks
  <2>1. CASE Tasks # {}
    BY <2>1, DelayOfOne
  <2>2. CASE Tasks = {}
    <3>1. UNCHANGED vars
      BY <2>2 DEF Next, Settled
    <3> QED BY <3>1 DEF vars, progress, DelaysGiven
  <2> QED BY <2>1, <2>2
<1> QED BY <1>1, <1>2 DEF DelaysGiven

-----------------------------------------------------------------------------
(* Powers of two                                                           *)

\* A set that has 0 and with a number the next one has every number.
LEMMA Everything ==
  ASSUME NEW T, 0 \in T, \A n \in Nat : n \in T => n + 1 \in T
  PROVE  \A n \in Nat : n \in T
<1> DEFINE Bad == {n \in Nat : n \notin T}
<1>1. SUFFICES ASSUME Bad # {} PROVE FALSE
  OBVIOUS
<1>2. Bad \subseteq Nat
  OBVIOUS
<1>3. PICK n \in Bad : \A m \in Bad : <<m, n>> \notin OpToRel(<, Nat)
  <2> HIDE DEF Bad
  <2> QED BY <1>1, <1>2, WFMin, NatLessThanWellFounded, Zenon
<1>4. n \in Nat /\ n \notin T /\ n # 0
  OBVIOUS
<1>5. n - 1 \in Nat /\ n - 1 < n /\ (n - 1) + 1 = n
  BY <1>4
<1>6. n - 1 \in T
  <2>1. n - 1 \notin Bad
    BY <1>2, <1>3, <1>4, <1>5, Zenon DEF OpToRel
  <2> QED BY <1>5, <2>1
<1> QED
  BY <1>4, <1>5, <1>6

(* The first k + 1 powers, as a function of their own.                     *)
Table(k, g) ==
  /\ g \in [0 .. k -> Nat]
  /\ g[0] = 1
  /\ \A i \in 0 .. k - 1 : g[i + 1] = 2 * g[i]

LEMMA TableExists == \A k \in Nat : \E g : Table(k, g)
<1> DEFINE T == {k \in Nat : \E g : Table(k, g)}
<1>1. 0 \in T
  <2>1. Table(0, [i \in 0 .. 0 |-> 1])
    BY DEF Table
  <2> QED BY <2>1
<1>2. ASSUME NEW k \in Nat, k \in T PROVE k + 1 \in T
  <2>1. PICK g : Table(k, g)
    BY <1>2
  <2> DEFINE h == [i \in 0 .. k + 1 |-> IF i <= k THEN g[i] ELSE 2 * g[k]]
  <2>2. g \in [0 .. k -> Nat] /\ g[k] \in Nat /\ g[0] = 1
    BY <2>1 DEF Table
  <2>3. h \in [0 .. k + 1 -> Nat] /\ h[0] = 1 /\ h[k + 1] = 2 * g[k]
    BY <2>2
  <2>4. \A i \in 0 .. k : h[i] = g[i]
    OBVIOUS
  <2> HIDE DEF h
  <2>5. ASSUME NEW i \in 0 .. k PROVE h[i + 1] = 2 * h[i]
    <3>1. CASE i = k
      BY <2>3, <2>4, <3>1
    <3>2. CASE i # k
      <4>1. i \in 0 .. k - 1 /\ i + 1 \in 0 .. k
        BY <3>2
      <4> QED BY <2>1, <2>4, <4>1 DEF Table
    <3> QED BY <3>1, <3>2
  <2>6. Table(k + 1, h)
    <3>1. (k + 1) - 1 = k
      OBVIOUS
    <3> QED BY <2>3, <2>5, <3>1 DEF Table
  <2> QED BY <2>6
<1> HIDE DEF T
<1>3. \A k \in Nat : k \in T
  BY <1>1, <1>2, Everything
<1> QED BY <1>3 DEF T

LEMMA TableUnique ==
  ASSUME NEW j \in Nat, NEW k \in Nat, j <= k, NEW g, NEW h, Table(j, g), Table(k, h)
  PROVE  \A i \in 0 .. j : g[i] = h[i]
<1> DEFINE T == {i \in Nat : i <= j => g[i] = h[i]}
<1>1. 0 \in T
  BY DEF Table
<1>2. ASSUME NEW i \in Nat, i \in T PROVE i + 1 \in T
  <2>1. ASSUME i + 1 <= j PROVE g[i + 1] = h[i + 1]
    <3>1. i \in 0 .. j - 1 /\ i \in 0 .. k - 1 /\ g[i] = h[i]
      BY <1>2, <2>1
    <3> QED BY <3>1 DEF Table
  <2> QED BY <2>1
<1> HIDE DEF T
<1>3. \A i \in Nat : i \in T
  BY <1>1, <1>2, Everything
<1> QED BY <1>3 DEF T

\* The recursion that defines Pow2 has a solution, so that Pow2 is one.
LEMMA Pow2Defined == Pow2 = [n \in Nat |-> IF n = 0 THEN 1 ELSE 2 * Pow2[n - 1]]
<1> DEFINE P(f) == f = [n \in Nat |-> IF n = 0 THEN 1 ELSE 2 * f[n - 1]]
           G(n) == CHOOSE g : Table(n, g)
           f == [n \in Nat |-> G(n)[n]]
<1>1. \A n \in Nat : Table(n, G(n))
  BY TableExists
<1>2. f[0] = 1
  BY <1>1 DEF Table
<1>3. ASSUME NEW n \in Nat, n # 0 PROVE f[n] = 2 * f[n - 1]
  <2>1. n - 1 \in Nat /\ n - 1 <= n /\ n - 1 \in 0 .. n - 1 /\ (n - 1) + 1 = n
    BY <1>3
  <2>2. Table(n, G(n)) /\ Table(n - 1, G(n - 1))
    BY <1>1, <2>1
  <2> HIDE DEF G
  <2>3. G(n - 1)[n - 1] = G(n)[n - 1]
    BY <2>1, <2>2, TableUnique
  <2>4. G(n)[n] = 2 * G(n)[n - 1]
    BY <2>1, <2>2 DEF Table
  <2> QED BY <2>1, <2>3, <2>4
<1> HIDE DEF f
<1>4. f = [n \in Nat |-> f[n]]
  BY DEF f
<1>5. \A n \in Nat : f[n] = IF n = 0 THEN 1 ELSE 2 * f[n - 1]
  BY <1>2, <1>3
<1>6. P(f)
  BY <1>4, <1>5
<1>7. Pow2 = CHOOSE g : P(g)
  BY DEF Pow2
<1>8. P(Pow2)
  <2> HIDE DEF P
  <2> QED BY <1>6, <1>7, Zenon
<1> QED BY <1>8

LEMMA Pow2Doubles ==
  /\ Pow2[0] = 1
  /\ \A n \in Nat : Pow2[n] \in Nat \ {0} /\ Pow2[n + 1] = 2 * Pow2[n]
<1>1. Pow2[0] = 1 /\ \A n \in Nat : Pow2[n + 1] = 2 * Pow2[n]
  <2> DEFINE R(n) == IF n = 0 THEN 1 ELSE 2 * Pow2[n - 1]
  <2>1. \A n \in Nat : Pow2[n] = R(n)
    <3> HIDE DEF R
    <3>1. Pow2 = [n \in Nat |-> R(n)]
      BY Pow2Defined DEF R
    <3> QED BY <3>1
  <2>2. R(0) = 1 /\ \A n \in Nat : R(n + 1) = 2 * Pow2[n]
    OBVIOUS
  <2> QED BY <2>1, <2>2
<1> DEFINE T == {n \in Nat : Pow2[n] \in Nat \ {0}}
<1>2. 0 \in T /\ \A n \in Nat : n \in T => n + 1 \in T
  BY <1>1
<1> HIDE DEF T
<1>3. \A n \in Nat : n \in T
  BY <1>2, Everything
<1> QED BY <1>1, <1>3 DEF T

\* A greater number has a greater power, by a factor of two at least.
LEMMA Pow2Grows ==
  ASSUME NEW m \in Nat, NEW n \in Nat
  PROVE  /\ m <= n => Pow2[m] <= Pow2[n]
         /\ m < n => 2 * Pow2[m] <= Pow2[n]
<1>1. ASSUME NEW a \in Nat PROVE \A k \in Nat : Pow2[a] <= Pow2[a + k]
  <2> DEFINE T == {k \in Nat : Pow2[a] <= Pow2[a + k]}
  <2>1. 0 \in T
    BY Pow2Doubles
  <2>2. ASSUME NEW k \in Nat, k \in T PROVE k + 1 \in T
    <3>1. a + k \in Nat /\ (a + k) + 1 = a + (k + 1)
      OBVIOUS
    <3>2. /\ Pow2[a + (k + 1)] = 2 * Pow2[a + k] /\ Pow2[a + k] \in Nat /\ Pow2[a] \in Nat
          /\ Pow2[a] <= Pow2[a + k]
      BY <2>2, <3>1, Pow2Doubles
    <3>3. Pow2[a] <= Pow2[a + (k + 1)]
      BY <3>2
    <3> QED BY <3>3
  <2> HIDE DEF T
  <2>3. \A k \in Nat : k \in T
    BY <2>1, <2>2, Everything
  <2> QED BY <2>3 DEF T
<1>2. ASSUME NEW a \in Nat, NEW b \in Nat, a <= b PROVE Pow2[a] <= Pow2[b]
  <2>1. b - a \in Nat /\ a + (b - a) = b
    BY <1>2
  <2> QED BY <1>1, <2>1
<1>3. ASSUME m < n PROVE 2 * Pow2[m] <= Pow2[n]
  BY <1>2, <1>3, Pow2Doubles
<1> QED BY <1>2, <1>3

-----------------------------------------------------------------------------
(* delay_for_attempt                                                       *)

LEMMA Remainder ==
  ASSUME NEW n \in Nat, NEW m \in Nat \ {0}
  PROVE  n % m \in Nat /\ n % m <= n /\ n % m <= m - 1 /\ (n < m => n % m = n)
OBVIOUS

LEMMA Times ==
  ASSUME NEW b \in Nat, NEW x \in Nat, NEW y \in Nat, x <= y
  PROVE  b * x \in Nat /\ b * y \in Nat /\ b * x <= b * y
OBVIOUS

\* The factor is 2^n as long as it fits, and from there on between the last power that
\* fits and 2^n.
LEMMA FactorBounds ==
  ASSUME NEW n \in Nat
  PROVE  /\ Factor(n) \in Nat /\ Factor(n) <= Pow2[n]
         /\ n < Pow2[AttemptBits] => Pow2[Minimum(n, NarrowBits - 1)] <= Factor(n)
<1> DEFINE shift == n % Pow2[AttemptBits]
           wide == IF shift < WideBits THEN Pow2[shift] ELSE Pow2[WideBits] - 1
           low == Minimum(n, NarrowBits - 1)
<1>1. /\ AttemptBits \in Nat /\ WideBits \in Nat /\ NarrowBits \in Nat /\ NarrowBits >= 1
      /\ NarrowBits <= WideBits
  BY WidthsAssumption
<1>2. Pow2[AttemptBits] \in Nat \ {0} /\ Pow2[WideBits] \in Nat \ {0} /\ Pow2[NarrowBits] \in Nat \ {0}
  BY <1>1, Pow2Doubles
<1>3. shift \in Nat /\ shift <= n /\ (n < Pow2[AttemptBits] => shift = n)
  BY <1>2, Remainder
<1> HIDE DEF shift
<1>4. Pow2[shift] \in Nat \ {0} /\ Pow2[n] \in Nat \ {0} /\ Pow2[shift] <= Pow2[n]
  BY <1>3, Pow2Doubles, Pow2Grows
<1>5. wide \in Nat /\ wide <= Pow2[shift]
  BY <1>1, <1>2, <1>3, <1>4, Pow2Grows
<1>6. Factor(n) = Minimum(wide, Pow2[NarrowBits] - 1)
  BY DEF Factor, shift
<1>7. Factor(n) \in Nat /\ Factor(n) <= Pow2[n]
  BY <1>2, <1>4, <1>5, <1>6 DEF Minimum
<1>8. ASSUME n < Pow2[AttemptBits] PROVE Pow2[low] <= Factor(n)
  <2>1. low \in Nat /\ low <= n /\ low < NarrowBits /\ low < WideBits /\ shift = n
    BY <1>1, <1>3, <1>8 DEF Minimum
  <2> HIDE DEF low
  <2>2. /\ Pow2[low] \in Nat \ {0} /\ Pow2[low] <= Pow2[n]
        /\ 2 * Pow2[low] <= Pow2[NarrowBits] /\ 2 * Pow2[low] <= Pow2[WideBits]
    BY <1>1, <2>1, Pow2Doubles, Pow2Grows
  <2>3. Pow2[low] <= Pow2[NarrowBits] - 1 /\ Pow2[low] <= Pow2[WideBits] - 1
    BY <1>2, <2>2
  <2>4. Pow2[low] <= wide
    BY <2>1, <2>2, <2>3
  <2> HIDE DEF wide
  <2> QED BY <1>6, <2>3, <2>4 DEF Minimum
<1> QED BY <1>7, <1>8

\* The delay, however the product saturates, is what the policy's maximum leaves of it.
LEMMA CappedBounds ==
  ASSUME NEW s, s.base \in 0 .. DurationMax, s.max \in 0 .. DurationMax, NEW n \in Nat
  PROVE  /\ Capped(s, n) \in Nat /\ Capped(s, n) <= s.max
         /\ Capped(s, n) <= Documented(s, n)
         /\ n < Pow2[AttemptBits] => Documented(s, Minimum(n, NarrowBits - 1)) <= Capped(s, n)
<1> DEFINE x == s.base * Factor(n)
           low == Minimum(n, NarrowBits - 1)
<1>1. DurationMax \in Nat /\ s.base \in Nat /\ s.max \in Nat /\ s.max <= DurationMax
  BY WidthsAssumption
<1>2. Factor(n) \in Nat /\ Factor(n) <= Pow2[n] /\ Pow2[n] \in Nat
  BY FactorBounds, Pow2Doubles
<1>3. x \in Nat /\ s.base * Pow2[n] \in Nat /\ x <= s.base * Pow2[n]
  BY <1>1, <1>2, Times
<1>4. ASSUME n < Pow2[AttemptBits]
      PROVE  s.base * Pow2[low] \in Nat /\ s.base * Pow2[low] <= x
  <2>1. low \in Nat
    BY WidthsAssumption DEF Minimum
  <2>2. Pow2[low] \in Nat /\ Pow2[low] <= Factor(n)
    BY <1>4, <2>1, FactorBounds, Pow2Doubles
  <2> HIDE DEF low
  <2> QED BY <1>1, <1>2, <2>2, Times
<1> HIDE DEF x, low
<1>5. Capped(s, n) = Minimum(x, s.max)
  <2>1. Capped(s, n) = IF Minimum(x, DurationMax) > s.max THEN s.max ELSE Minimum(x, DurationMax)
    BY DEF Capped, x
  <2> QED BY <1>1, <1>3, <2>1 DEF Minimum
<1>6. Capped(s, n) \in Nat /\ Capped(s, n) <= s.max
  BY <1>1, <1>3, <1>5 DEF Minimum
<1>7. Capped(s, n) <= Documented(s, n)
  <2> DEFINE y == s.base * Pow2[n]
  <2>1. Documented(s, n) = Minimum(y, s.max) /\ x <= y /\ y \in Nat
    BY <1>3 DEF Documented
  <2> HIDE DEF y
  <2> QED BY <1>1, <1>3, <1>5, <2>1 DEF Minimum
<1>8. ASSUME n < Pow2[AttemptBits] PROVE Documented(s, low) <= Capped(s, n)
  <2> DEFINE y == s.base * Pow2[low]
  <2>1. Documented(s, low) = Minimum(y, s.max) /\ y <= x /\ y \in Nat
    BY <1>4, <1>8 DEF Documented
  <2> HIDE DEF y
  <2> QED BY <1>1, <1>3, <1>5, <2>1 DEF Minimum
<1> QED BY <1>6, <1>7, <1>8 DEF low

LEMMA DocumentedIsNat ==
  ASSUME NEW s, s.base \in 0 .. DurationMax, s.max \in 0 .. DurationMax, NEW n \in Nat
  PROVE  Documented(s, n) \in Nat
<1>1. s.base \in Nat /\ s.max \in Nat /\ Pow2[n] \in Nat
  BY WidthsAssumption, Pow2Doubles
<1>2. s.base * Pow2[n] \in Nat
  BY <1>1, Times
<1> QED BY <1>1, <1>2 DEF Documented, Minimum

\* The jitter stays under the delay, and is only missing for the largest one.
LEMMA JitterBounds ==
  ASSUME NEW s, s.base \in 0 .. DurationMax, s.max \in 0 .. DurationMax, NEW n \in Nat
  PROVE  /\ \A d \in Jittered(s, n) : d \in Nat /\ d <= Documented(s, n)
         /\ Jittered(s, n) = {} => s.max >= Pow2[NanosBits] - 1
<1>1. Pow2[NanosBits] \in Nat \ {0}
  BY WidthsAssumption, Pow2Doubles
<1>2. /\ Capped(s, n) \in Nat /\ Capped(s, n) <= s.max
      /\ Capped(s, n) <= Documented(s, n)
  BY CappedBounds
<1>3. Nanos(s, n) \in Nat /\ Nanos(s, n) <= Capped(s, n)
  BY <1>1, <1>2, Remainder DEF Nanos
<1>4. s.max \in Nat /\ Documented(s, n) \in Nat
  BY WidthsAssumption, DocumentedIsNat
<1>5. ASSUME NEW d \in Jittered(s, n) PROVE d \in Nat /\ d <= Documented(s, n)
  <2>1. d \in 0 .. Nanos(s, n)
    BY <1>5 DEF Jittered
  <2> QED BY <1>2, <1>3, <1>4, <2>1
<1>6. ASSUME Jittered(s, n) = {} PROVE s.max >= Pow2[NanosBits] - 1
  <2>1. Nanos(s, n) = Pow2[NanosBits] - 1
    <3>1. 0 \in 0 .. Nanos(s, n)
      BY <1>3
    <3> QED BY <1>6, <3>1 DEF Jittered
  <2> QED BY <1>1, <1>2, <1>3, <1>4, <2>1
<1> QED BY <1>5, <1>6

-----------------------------------------------------------------------------
(* Theorems *)

\* IInv holds in every reachable state.
THEOREM Invariance == Spec => []IInv
<1>1. Init => IInv
  BY InitInv
<1>2. IInv /\ [Next]_vars => IInv'
  BY StepInv
<1> QED
  BY <1>1, <1>2, PTL DEF Spec

\* async_limit bounds the handlers that run, and no permit of it is ever lost:
\* not to a retry, a timeout, a panic or an abort.
THEOREM PermitsAccounted == Spec => []PermitsConserved
<1>1. IInv => PermitsConserved
  BY DEF IInv
<1> QED
  BY <1>1, Invariance, PTL

\* execute_async_listener makes one attempt and max_retries more before it
\* calls a failure final, and none after that.
THEOREM AttemptsCounted == Spec => []AttemptsExact
<1>1. IInv => AttemptsExact
  <2> SUFFICES ASSUME IInv, NEW t \in Tasks
               PROVE  /\ attempts[t] <= policy[t].maxRetries + 1
                      /\ pc[t] \in {"failed", "lettered", "dropped"} =>
                           attempts[t] = policy[t].maxRetries + 1
    BY DEF AttemptsExact
  <2> QED BY RetriesAreNat DEF IInv, Shape, Budget, BudgetOf
<1> QED
  BY <1>1, Invariance, PTL

\* finalize_listener_failure makes one dead letter for a failure that is final, whose
\* policy wants it and whose task was not aborted before; no other is made.
THEOREM LettersCounted == Spec => []LettersExact
<1>1. IInv => LettersExact
  BY DEF IInv
<1> QED
  BY <1>1, Invariance, PTL

\* The delays of Exponential and of ExponentialWithJitter, of delay_for_attempt and the
\* comments in types.rs, whatever the widths of the integers it computes with.
THEOREM DelaysFollow == Spec => []DelayFollowsPolicy
<1>1. Init => DelaysGiven
  BY DEF Init, DelaysGiven, DelayGiven
<1>2. IInv /\ DelaysGiven => DelayFollowsPolicy
  <2> SUFFICES ASSUME IInv, DelaysGiven, NEW t \in Tasks, policy[t].strategy # NoStrategy
               PROVE  LET s == policy[t].strategy
                          n == attempts[t] - 1
                      IN /\ pc[t] = "sleep" /\ s.kind = "exponential" /\ n < Pow2[AttemptBits] =>
                              delay[t] \in Documented(s, Minimum(n, NarrowBits - 1)) .. Documented(s, n)
                         /\ pc[t] = "sleep" /\ s.kind = "jitter" => delay[t] <= Documented(s, n)
                         /\ pc[t] = "panicked" => s.kind = "jitter" /\ s.max >= Pow2[NanosBits] - 1
    BY DEF DelayFollowsPolicy
  <2> DEFINE s == policy[t].strategy
             n == attempts[t] - 1
  <2>1. /\ s.kind \in {"fixed", "exponential", "jitter"}
        /\ s.base \in 0 .. DurationMax /\ s.max \in 0 .. DurationMax
    BY PoliciesAssumption DEF IInv, Shape
  <2>2. /\ pc[t] \in {"sleep", "panicked"} => n \in Nat
        /\ pc[t] = "sleep" => delay[t] \in Delays(s, n)
        /\ pc[t] = "panicked" => Delays(s, n) = {}
    <3>1. DelayGiven(t) /\ attempts[t] \in Nat
      BY DEF IInv, Shape, DelaysGiven
    <3>2. pc[t] \in {"sleep", "panicked"} => n \in Nat
      BY <3>1 DEF DelayGiven
    <3> QED BY <3>1, <3>2 DEF DelayGiven
  <2> HIDE DEF s, n
  <2>3. /\ s.kind = "fixed" => Delays(s, n) = {s.base}
        /\ s.kind = "exponential" => Delays(s, n) = {Capped(s, n)}
        /\ s.kind = "jitter" => Delays(s, n) = Jittered(s, n)
    BY DEF Delays
  <2>4. ASSUME pc[t] = "sleep", s.kind = "exponential", n < Pow2[AttemptBits]
        PROVE  delay[t] \in Documented(s, Minimum(n, NarrowBits - 1)) .. Documented(s, n)
    <3>1. n \in Nat /\ delay[t] = Capped(s, n)
      BY <2>2, <2>3, <2>4
    <3>2. /\ Capped(s, n) \in Nat /\ Capped(s, n) <= Documented(s, n)
          /\ Documented(s, Minimum(n, NarrowBits - 1)) <= Capped(s, n)
      BY <2>1, <2>4, <3>1, CappedBounds
    <3>3. Documented(s, n) \in Nat /\ Documented(s, Minimum(n, NarrowBits - 1)) \in Nat
      BY <2>1, <3>1, DocumentedIsNat, WidthsAssumption DEF Minimum
    <3> QED BY <3>1, <3>2, <3>3
  <2>5. ASSUME pc[t] = "sleep", s.kind = "jitter" PROVE delay[t] <= Documented(s, n)
    BY <2>1, <2>2, <2>3, <2>5, JitterBounds
  <2>6. ASSUME pc[t] = "panicked" PROVE s.kind = "jitter" /\ s.max >= Pow2[NanosBits] - 1
    BY <2>1, <2>2, <2>3, <2>6, JitterBounds
  <2> QED BY <2>4, <2>5, <2>6 DEF s, n
<1> QED
  BY <1>1, <1>2, DelayStep, Invariance, PTL DEF Spec
=============================================================================
