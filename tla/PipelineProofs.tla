--------------------------- MODULE PipelineProofs ---------------------------
(***************************************************************************)
(* Proofs about Pipeline, for any inputs with proper registries            *)
(* (InputsAssumption) and any event type, DeadLetter included: the fast    *)
(* paths of publish are the full one, the full one is the plain pipeline,  *)
(* and dead letters follow the failures.  Traces are put together with \o  *)
(* and FlattenSeq and read with recursive functions; the lemmas of the     *)
(* first part say what these do, by induction over a set of numbers.       *)
(***************************************************************************)
EXTENDS Pipeline, FiniteSetTheorems, SequenceTheorems, TLAPS

(* The steps that traces are made of.                                      *)
TraceSteps ==
  ({"spawn", "run", "letter"} \X Nat) \cup ({"mw"} \X {EventType, DeadLetter} \X Nat)

Traces == Seq(TraceSteps)

\* What the steps tell of the event.
LEMMA StepKinds ==
  ASSUME NEW id \in Nat
  PROVE  /\ <<"spawn", id>> \in TraceSteps /\ OfEvent(<<"spawn", id>>)
         /\ <<"run", id>> \in TraceSteps /\ OfEvent(<<"run", id>>)
         /\ <<"letter", id>> \in TraceSteps /\ ~OfEvent(<<"letter", id>>)
         /\ \A type \in {EventType, DeadLetter} :
              /\ <<"mw", type, id>> \in TraceSteps
              /\ OfEvent(<<"mw", type, id>>) <=> type = EventType
BY DEF TraceSteps, OfEvent

-----------------------------------------------------------------------------
(* Induction and recursion up to a bound                                   *)

\* A set of natural numbers that is not empty has a least element.
LEMMA LeastOf ==
  ASSUME NEW T \in SUBSET Nat, T # {}
  PROVE  \E n \in T : \A m \in T : n <= m
<1>1. PICK n \in T : \A m \in T : <<m, n>> \notin OpToRel(<, Nat)
  BY WFMin, NatLessThanWellFounded, Zenon
<1>2. \A m \in T : ~(m < n)
  BY <1>1, Zenon DEF OpToRel
<1> QED
  BY <1>2

\* A set that has 0 and with a number the next one has all numbers up to k.
LEMMA UpTo ==
  ASSUME NEW k \in Nat, NEW T, 0 \in T, \A n \in 0 .. k - 1 : n \in T => n + 1 \in T
  PROVE  \A n \in 0 .. k : n \in T
<1> DEFINE Bad == {n \in 0 .. k : n \notin T}
<1>1. SUFFICES ASSUME Bad # {} PROVE FALSE
  OBVIOUS
<1>2. PICK n \in Bad : \A m \in Bad : n <= m
  <2>1. Bad \in SUBSET Nat
    OBVIOUS
  <2> HIDE DEF Bad
  <2> QED BY <1>1, <2>1, LeastOf
<1>3. n \in 0 .. k /\ n \notin T /\ n # 0
  OBVIOUS
<1>4. n - 1 \in 0 .. k - 1 /\ n - 1 \in 0 .. k /\ ~(n <= n - 1) /\ (n - 1) + 1 = n
  BY <1>3
<1>5. n - 1 \in T
  BY <1>2, <1>4
<1> QED
  BY <1>3, <1>4, <1>5

-----------------------------------------------------------------------------
(* EventSteps                                                              *)

(* What EventSteps has kept after each of the first k steps of a trace.    *)
KeptBy(f, trace, k) ==
  /\ f \in [0 .. k -> Traces] /\ f[0] = <<>>
  /\ \A n \in 1 .. k :
       f[n] = IF OfEvent(trace[n]) THEN Append(f[n - 1], trace[n]) ELSE f[n - 1]

\* Up to every step there is such a function.
LEMMA KeptExists ==
  ASSUME NEW trace \in Traces
  PROVE  \E f : KeptBy(f, trace, Len(trace))
<1> DEFINE T == {m \in 0 .. Len(trace) : \E f : KeptBy(f, trace, m)}
<1>1. Len(trace) \in Nat /\ \A n \in 1 .. Len(trace) : trace[n] \in TraceSteps
  BY LenProperties, ElementOfSeq DEF Traces
<1>2. 0 \in T
  <2>1. KeptBy([n \in 0 .. 0 |-> <<>>], trace, 0)
    BY DEF KeptBy, Traces
  <2> QED BY <1>1, <2>1
<1>3. ASSUME NEW m \in 0 .. Len(trace) - 1, m \in T PROVE m + 1 \in T
  <2>1. PICK f : KeptBy(f, trace, m)
    BY <1>3
  <2> DEFINE new == IF OfEvent(trace[m + 1]) THEN Append(f[m], trace[m + 1]) ELSE f[m]
             g == [n \in 0 .. m + 1 |-> IF n = m + 1 THEN new ELSE f[n]]
  <2>2. f \in [0 .. m -> Traces] /\ m \in 0 .. m /\ m + 1 \in 1 .. Len(trace)
    BY <1>1, <2>1 DEF KeptBy
  <2>3. new \in Traces
    BY <1>1, <2>2 DEF Traces
  <2> HIDE DEF new
  <2>4. \A n \in 0 .. m : g[n] = f[n]
    OBVIOUS
  <2>5. g[m + 1] = new /\ g \in [0 .. m + 1 -> Traces]
    BY <2>2, <2>3
  <2> HIDE DEF g
  <2>6. ASSUME NEW n \in 1 .. m + 1
        PROVE  g[n] = IF OfEvent(trace[n]) THEN Append(g[n - 1], trace[n]) ELSE g[n - 1]
    <3>1. CASE n = m + 1
      <4>1. n - 1 = m
        BY <3>1
      <4> QED BY <2>2, <2>4, <2>5, <3>1, <4>1 DEF new
    <3>2. CASE n # m + 1
      <4>1. n \in 1 .. m /\ n \in 0 .. m /\ n - 1 \in 0 .. m
        BY <3>2
      <4>2. f[n] = IF OfEvent(trace[n]) THEN Append(f[n - 1], trace[n]) ELSE f[n - 1]
        BY <2>1, <4>1 DEF KeptBy
      <4> QED BY <2>4, <4>1, <4>2
    <3> QED BY <3>1, <3>2
  <2>7. g[0] = <<>>
    BY <2>1, <2>4 DEF KeptBy
  <2>8. KeptBy(g, trace, m + 1)
    BY <2>5, <2>6, <2>7 DEF KeptBy
  <2>9. m + 1 \in 0 .. Len(trace)
    BY <1>1
  <2> QED BY <2>8, <2>9
<1> HIDE DEF T
<1>4. Len(trace) \in T
  <2>1. Len(trace) \in Nat /\ Len(trace) \in 0 .. Len(trace)
    BY <1>1
  <2>2. \A n \in 0 .. Len(trace) : n \in T
    BY <1>2, <1>3, <2>1, UpTo
  <2> QED BY <2>1, <2>2
<1> QED
  BY <1>4 DEF T

\* The recursion is defined.
LEMMA EventStepsBy ==
  ASSUME NEW trace \in Traces
  PROVE  \E f : KeptBy(f, trace, Len(trace)) /\ EventSteps(trace) = f[Len(trace)]
<1> DEFINE k == Len(trace)
           Is(f) == f = [n \in 0 .. k |->
                           IF n = 0 THEN <<>>
                           ELSE IF OfEvent(trace[n]) THEN Append(f[n - 1], trace[n]) ELSE f[n - 1]]
           kept == CHOOSE f : Is(f)
<1>1. k \in Nat /\ \A n \in 1 .. k : trace[n] \in TraceSteps
  BY LenProperties, ElementOfSeq DEF Traces
<1> HIDE DEF Is
<1>5. PICK f : KeptBy(f, trace, k)
  BY KeptExists
<1>6. ASSUME NEW n \in 1 .. k
      PROVE  f[n] = IF OfEvent(trace[n]) THEN Append(f[n - 1], trace[n]) ELSE f[n - 1]
  BY <1>5 DEF KeptBy
<1>7. Is(f)
  <2>1. ASSUME NEW n \in 0 .. k
        PROVE  f[n] = IF n = 0 THEN <<>>
                      ELSE IF OfEvent(trace[n]) THEN Append(f[n - 1], trace[n]) ELSE f[n - 1]
    <3>1. CASE n = 0
      BY <1>5, <3>1 DEF KeptBy
    <3>2. CASE n # 0
      <4>1. n \in 1 .. k
        BY <1>1, <3>2
      <4> QED BY <1>6, <3>2, <4>1
    <3> QED BY <3>1, <3>2
  <2>2. f = [n \in 0 .. k |-> f[n]]
    BY <1>5 DEF KeptBy
  <2> QED BY <2>1, <2>2 DEF Is
<1>8. EventSteps(trace) = kept[k]
  BY DEF EventSteps, Is
<1>9. Is(kept)
  BY <1>7
<1> HIDE DEF kept
<1>10. /\ DOMAIN kept = 0 .. k
       /\ \A n \in 0 .. k :
            kept[n] = IF n = 0 THEN <<>>
                      ELSE IF OfEvent(trace[n]) THEN Append(kept[n - 1], trace[n]) ELSE kept[n - 1]
  <2>1. DOMAIN kept = 0 .. k
    BY <1>9 DEF Is
  <2> SUFFICES ASSUME NEW n \in 0 .. k
               PROVE  kept[n] = IF n = 0 THEN <<>>
                                ELSE IF OfEvent(trace[n]) THEN Append(kept[n - 1], trace[n])
                                ELSE kept[n - 1]
    BY <2>1
  <2> QED BY <1>9 DEF Is
<1>11. \A n \in 0 .. k : kept[n] = f[n]
  <2> DEFINE T == {n \in 0 .. k : kept[n] = f[n]}
  <2>1. 0 \in T
    BY <1>1, <1>5, <1>10 DEF KeptBy
  <2>2. ASSUME NEW n \in 0 .. k - 1, n \in T PROVE n + 1 \in T
    <3>1. n + 1 \in 0 .. k /\ n + 1 \in 1 .. k /\ n + 1 # 0 /\ (n + 1) - 1 = n
      BY <1>1
    <3> DEFINE m == n + 1
    <3> HIDE DEF m
    <3>2. kept[m] = IF OfEvent(trace[m]) THEN Append(kept[n], trace[m]) ELSE kept[n]
      BY <1>10, <3>1 DEF m
    <3>3. f[m] = IF OfEvent(trace[m]) THEN Append(f[n], trace[m]) ELSE f[n]
      BY <1>6, <3>1 DEF m
    <3>4. kept[n] = f[n]
      BY <2>2
    <3>5. kept[m] = f[m]
      BY <3>2, <3>3, <3>4
    <3> QED BY <3>1, <3>5 DEF m
  <2> HIDE DEF T
  <2>3. \A n \in 0 .. k : n \in T
    BY <1>1, <2>1, <2>2, UpTo
  <2> QED BY <2>3 DEF T
<1> QED
  BY <1>1, <1>5, <1>8, <1>11

\* EventSteps of two traces one after the other.
LEMMA ConcatEvents ==
  ASSUME NEW s \in Traces, NEW t \in Traces
  PROVE  /\ s \o t \in Traces
         /\ EventSteps(s \o t) = EventSteps(s) \o EventSteps(t)
<1> DEFINE st == s \o t
           m == Len(s)
           k == Len(t)
<1>1. /\ m \in Nat /\ k \in Nat /\ st \in Traces /\ Len(st) = m + k
      /\ \A n \in 1 .. m : st[n] = s[n]
      /\ \A n \in 1 .. k : st[m + n] = t[n]
  <2>1. /\ st \in Traces /\ Len(st) = m + k /\ m \in Nat /\ k \in Nat
        /\ \A n \in 1 .. m + k : st[n] = IF n <= m THEN s[n] ELSE t[n - m]
    BY ConcatProperties, LenProperties DEF Traces
  <2> HIDE DEF st, m, k
  <2>2. ASSUME NEW n \in 1 .. k PROVE st[m + n] = t[n]
    <3>1. m + n \in 1 .. m + k /\ ~(m + n <= m) /\ (m + n) - m = n
      BY <2>1
    <3> QED BY <2>1, <3>1
  <2> QED BY <2>1, <2>2
<1>2. PICK f : KeptBy(f, s, m) /\ EventSteps(s) = f[m]
  BY EventStepsBy
<1>3. PICK g : KeptBy(g, t, k) /\ EventSteps(t) = g[k]
  BY EventStepsBy
<1> HIDE DEF st
<1>4. PICK h : KeptBy(h, st, Len(st)) /\ EventSteps(st) = h[Len(st)]
  BY <1>1, EventStepsBy
<1> HIDE DEF m, k
<1>5. KeptBy(h, st, m + k) /\ EventSteps(st) = h[m + k]
  BY <1>1, <1>4
<1>6. \A n \in 0 .. m : h[n] = f[n]
  <2> DEFINE T == {n \in 0 .. m : h[n] = f[n]}
  <2>1. 0 \in T
    BY <1>1, <1>2, <1>5 DEF KeptBy
  <2>2. ASSUME NEW n \in 0 .. m - 1, n \in T PROVE n + 1 \in T
    <3>1. /\ n + 1 \in 0 .. m /\ n + 1 \in 1 .. m /\ n + 1 \in 1 .. m + k
          /\ (n + 1) - 1 = n
      BY <1>1
    <3>2. st[n + 1] = s[n + 1] /\ h[n] = f[n]
      BY <1>1, <2>2, <3>1
    <3>3. h[n + 1] = f[n + 1]
      BY <1>2, <1>5, <3>1, <3>2 DEF KeptBy
    <3> QED BY <3>1, <3>3
  <2> HIDE DEF T
  <2>3. \A n \in 0 .. m : n \in T
    BY <1>1, <2>1, <2>2, UpTo
  <2> QED BY <2>3 DEF T
<1>7. f[m] \in Traces /\ \A n \in 0 .. k : g[n] \in Traces
  BY <1>1, <1>2, <1>3 DEF KeptBy
<1>8. \A n \in 0 .. k : h[m + n] = f[m] \o g[n]
  <2> DEFINE T == {n \in 0 .. k : h[m + n] = f[m] \o g[n]}
  <2>1. 0 \in T
    <3>1. h[m + 0] = f[m] /\ g[0] = <<>>
      BY <1>1, <1>3, <1>6 DEF KeptBy
    <3>2. f[m] \o <<>> = f[m]
      BY <1>7, ConcatEmptySeq DEF Traces
    <3>3. 0 \in 0 .. k /\ h[m + 0] = f[m] \o g[0]
      BY <1>1, <3>1, <3>2
    <3> QED BY <3>3
  <2>2. ASSUME NEW n \in 0 .. k - 1, n \in T PROVE n + 1 \in T
    <3>1. /\ n + 1 \in 0 .. k /\ n + 1 \in 1 .. k /\ m + (n + 1) \in 1 .. m + k
          /\ (n + 1) - 1 = n /\ (m + (n + 1)) - 1 = m + n /\ n \in 0 .. k
      BY <1>1
    <3>2. st[m + (n + 1)] = t[n + 1] /\ h[m + n] = f[m] \o g[n]
      BY <1>1, <2>2, <3>1
    <3>3. h[m + (n + 1)] = IF OfEvent(t[n + 1]) THEN Append(f[m] \o g[n], t[n + 1])
                           ELSE f[m] \o g[n]
      BY <1>5, <3>1, <3>2 DEF KeptBy
    <3>4. g[n + 1] = IF OfEvent(t[n + 1]) THEN Append(g[n], t[n + 1]) ELSE g[n]
      BY <1>3, <3>1 DEF KeptBy
    <3>5. Append(f[m] \o g[n], t[n + 1]) = f[m] \o Append(g[n], t[n + 1])
      <4> DEFINE e == t[n + 1]
                 a == f[m]
                 b == g[n]
      <4>1. a \in Seq(TraceSteps) /\ b \in Seq(TraceSteps)
        BY <1>7, <3>1 DEF Traces
      <4>2. e \in TraceSteps
        BY <3>1, ElementOfSeq DEF k, Traces
      <4> HIDE DEF e, a, b
      <4>3. <<e>> \in Seq(TraceSteps) /\ a \o b \in Seq(TraceSteps)
        BY <4>1, <4>2, ConcatProperties
      <4>4. Append(a \o b, e) = (a \o b) \o <<e>> /\ Append(b, e) = b \o <<e>>
        BY <4>1, <4>2, <4>3, AppendIsConcat
      <4>5. (a \o b) \o <<e>> = a \o (b \o <<e>>)
        BY <4>1, <4>3, ConcatAssociative
      <4>6. Append(a \o b, e) = a \o Append(b, e)
        BY <4>4, <4>5
      <4> QED BY <4>6 DEF e, a, b
    <3>6. h[m + (n + 1)] = f[m] \o g[n + 1]
      BY <3>3, <3>4, <3>5
    <3> QED BY <3>1, <3>6
  <2> HIDE DEF T
  <2>3. \A n \in 0 .. k : n \in T
    BY <1>1, <2>1, <2>2, UpTo
  <2> QED BY <2>3 DEF T
<1>9. EventSteps(st) = f[m] \o g[k]
  <2>1. k \in 0 .. k
    BY <1>1
  <2> QED BY <1>5, <1>8, <2>1
<1> QED
  BY <1>1, <1>2, <1>3, <1>9 DEF st

\* A trace that is all of the event.
LEMMA AllOfEvent ==
  ASSUME NEW s \in Traces, \A i \in 1 .. Len(s) : OfEvent(s[i])
  PROVE  EventSteps(s) = s
<1> DEFINE k == Len(s)
<1>1. k \in Nat /\ \A n \in 1 .. k : s[n] \in TraceSteps
  BY LenProperties, ElementOfSeq DEF Traces
<1>2. PICK f : KeptBy(f, s, k) /\ EventSteps(s) = f[k]
  BY EventStepsBy
<1> HIDE DEF k
<1> DEFINE Same(n) == Len(f[n]) = n /\ \A i \in 1 .. n : f[n][i] = s[i]
           T == {n \in 0 .. k : Same(n)}
<1>3. 0 \in T
  BY <1>1, <1>2 DEF KeptBy
<1>4. ASSUME NEW n \in 0 .. k - 1, n \in T PROVE n + 1 \in T
  <2>1. n + 1 \in 0 .. k /\ n + 1 \in 1 .. k /\ (n + 1) - 1 = n /\ n \in 0 .. k
    BY <1>1
  <2>2. f[n] \in Traces /\ f[n + 1] = Append(f[n], s[n + 1])
    BY <1>2, <2>1 DEF KeptBy, k
  <2>3. Len(f[n]) = n /\ \A i \in 1 .. n : f[n][i] = s[i]
    BY <1>4
  <2> DEFINE r == f[n]
             q == f[n + 1]
  <2>4. /\ Len(q) = Len(r) + 1 /\ \A i \in 1 .. Len(r) : q[i] = r[i]
        /\ q[Len(r) + 1] = s[n + 1]
    BY <1>1, <2>1, <2>2, AppendProperties DEF Traces
  <2>5. \A i \in 1 .. n + 1 : i \in 1 .. n \/ i = n + 1
    BY <2>1
  <2> HIDE DEF r, q
  <2>6. Len(q) = n + 1 /\ \A i \in 1 .. n + 1 : q[i] = s[i]
    BY <2>3, <2>4, <2>5 DEF r
  <2> QED BY <2>1, <2>6 DEF q
<1> HIDE DEF T
<1>5. k \in T
  <2>1. k \in 0 .. k
    BY <1>1
  <2>2. \A n \in 0 .. k : n \in T
    BY <1>1, <1>3, <1>4, UpTo
  <2> QED BY <2>1, <2>2
<1>6. Same(k)
  BY <1>5 DEF T
<1>7. f[k] \in Traces
  BY <1>1, <1>2 DEF KeptBy
<1> QED
  BY <1>1, <1>2, <1>6, <1>7, SeqEqual DEF k, Traces

\* A trace of which nothing is of the event.
LEMMA NoneOfEvent ==
  ASSUME NEW s \in Traces, \A i \in 1 .. Len(s) : ~OfEvent(s[i])
  PROVE  EventSteps(s) = <<>>
<1> DEFINE k == Len(s)
<1>1. k \in Nat
  BY LenProperties DEF Traces
<1>2. PICK f : KeptBy(f, s, k) /\ EventSteps(s) = f[k]
  BY EventStepsBy
<1> HIDE DEF k
<1> DEFINE T == {n \in 0 .. k : f[n] = <<>>}
<1>3. 0 \in T
  BY <1>1, <1>2 DEF KeptBy
<1>4. ASSUME NEW n \in 0 .. k - 1, n \in T PROVE n + 1 \in T
  <2>1. n + 1 \in 0 .. k /\ n + 1 \in 1 .. k /\ (n + 1) - 1 = n
    BY <1>1
  <2>2. f[n + 1] = f[n]
    BY <1>2, <2>1 DEF KeptBy, k
  <2> QED BY <1>4, <2>1, <2>2
<1> HIDE DEF T
<1>5. \A n \in 0 .. k : n \in T
  BY <1>1, <1>3, <1>4, UpTo
<1> QED
  BY <1>1, <1>2, <1>5 DEF T

-----------------------------------------------------------------------------
(* FlattenSeq                                                              *)

(* What FlattenSeq has put together of the first k traces.                 *)
FlatBy(f, traces, k) ==
  /\ f \in [0 .. k -> Traces] /\ f[0] = <<>>
  /\ \A n \in 1 .. k : f[n] = f[n - 1] \o traces[n]

\* Up to every trace there is such a function.
LEMMA FlatExists ==
  ASSUME NEW traces \in Seq(Traces)
  PROVE  \E f : FlatBy(f, traces, Len(traces))
<1> DEFINE T == {m \in 0 .. Len(traces) : \E f : FlatBy(f, traces, m)}
<1>1. Len(traces) \in Nat /\ \A n \in 1 .. Len(traces) : traces[n] \in Traces
  BY LenProperties, ElementOfSeq
<1>2. 0 \in T
  <2>1. FlatBy([n \in 0 .. 0 |-> <<>>], traces, 0)
    BY DEF FlatBy, Traces
  <2> QED BY <1>1, <2>1
<1>3. ASSUME NEW m \in 0 .. Len(traces) - 1, m \in T PROVE m + 1 \in T
  <2>1. PICK f : FlatBy(f, traces, m)
    BY <1>3
  <2> DEFINE new == f[m] \o traces[m + 1]
             g == [n \in 0 .. m + 1 |-> IF n = m + 1 THEN new ELSE f[n]]
  <2>2. f \in [0 .. m -> Traces] /\ m \in 0 .. m /\ m + 1 \in 1 .. Len(traces)
    BY <1>1, <2>1 DEF FlatBy
  <2>3. new \in Traces
    BY <1>1, <2>2, ConcatProperties DEF Traces
  <2> HIDE DEF new
  <2>4. \A n \in 0 .. m : g[n] = f[n]
    OBVIOUS
  <2>5. g[m + 1] = new /\ g \in [0 .. m + 1 -> Traces]
    BY <2>2, <2>3
  <2> HIDE DEF g
  <2>6. ASSUME NEW n \in 1 .. m + 1 PROVE g[n] = g[n - 1] \o traces[n]
    <3>1. CASE n = m + 1
      <4>1. n - 1 = m
        BY <3>1
      <4> QED BY <2>2, <2>4, <2>5, <3>1, <4>1 DEF new
    <3>2. CASE n # m + 1
      <4>1. n \in 1 .. m /\ n \in 0 .. m /\ n - 1 \in 0 .. m
        BY <3>2
      <4>2. f[n] = f[n - 1] \o traces[n]
        BY <2>1, <4>1 DEF FlatBy
      <4> QED BY <2>4, <4>1, <4>2
    <3> QED BY <3>1, <3>2
  <2>7. g[0] = <<>>
    BY <2>1, <2>4 DEF FlatBy
  <2>8. FlatBy(g, traces, m + 1)
    BY <2>5, <2>6, <2>7 DEF FlatBy
  <2>9. m + 1 \in 0 .. Len(traces)
    BY <1>1
  <2> QED BY <2>8, <2>9
<1> HIDE DEF T
<1>4. Len(traces) \in T
  <2>1. Len(traces) \in Nat /\ Len(traces) \in 0 .. Len(traces)
    BY <1>1
  <2>2. \A n \in 0 .. Len(traces) : n \in T
    BY <1>2, <1>3, <2>1, UpTo
  <2> QED BY <2>1, <2>2
<1> QED
  BY <1>4 DEF T

\* The recursion of FlattenSeq, which begins with the first trace.
LEMMA FlattenBy ==
  ASSUME NEW traces \in Seq(Traces)
  PROVE  \E f : FlatBy(f, traces, Len(traces)) /\ FlattenSeq(traces) = f[Len(traces)]
<1> DEFINE k == Len(traces)
           Is(f) == f = [n \in 1 .. k |-> IF n = 1 THEN traces[n] ELSE f[n - 1] \o traces[n]]
           flat == CHOOSE f : Is(f)
<1>1. k \in Nat /\ \A n \in 1 .. k : traces[n] \in Traces
  BY LenProperties, ElementOfSeq
<1>2. PICK f : FlatBy(f, traces, k)
  BY FlatExists
<1>3. CASE k = 0
  <2>1. FlattenSeq(traces) = traces /\ traces = <<>>
    BY <1>3, EmptySeq DEF FlattenSeq
  <2> QED BY <1>2, <1>3, <2>1 DEF FlatBy
<1>4. CASE k # 0
  <2> HIDE DEF Is
  <2> DEFINE r == [n \in 1 .. k |-> f[n]]
  <2>1. f[1] = traces[1]
    <3>1. 1 \in 1 .. k /\ 1 - 1 = 0
      BY <1>1, <1>4
    <3>2. f[1] = <<>> \o traces[1] /\ traces[1] \in Traces
      BY <1>1, <1>2, <3>1 DEF FlatBy
    <3> QED BY <3>2, ConcatEmptySeq DEF Traces
  <2>2. \A n \in 1 .. k : r[n] = f[n]
    OBVIOUS
  <2>3. r = [n \in 1 .. k |-> r[n]]
    OBVIOUS
  <2> HIDE DEF r
  <2>4. ASSUME NEW n \in 1 .. k
        PROVE  r[n] = IF n = 1 THEN traces[n] ELSE r[n - 1] \o traces[n]
    <3>1. n # 1 => n - 1 \in 1 .. k
      BY <1>1
    <3> QED BY <1>2, <2>1, <2>2, <3>1 DEF FlatBy
  <2>5. Is(r)
    BY <2>3, <2>4 DEF Is
  <2>6. FlattenSeq(traces) = flat[k]
    BY <1>4 DEF FlattenSeq, Is
  <2>7. Is(flat)
    BY <2>5
  <2> HIDE DEF flat
  <2>8. \A n \in 1 .. k : flat[n] = IF n = 1 THEN traces[n] ELSE flat[n - 1] \o traces[n]
    <3> SUFFICES ASSUME NEW n \in 1 .. k
                 PROVE  flat[n] = IF n = 1 THEN traces[n] ELSE flat[n - 1] \o traces[n]
      OBVIOUS
    <3> QED BY <2>7 DEF Is
  <2>9. \A n \in 0 .. k : n = 0 \/ flat[n] = f[n]
    <3> DEFINE T == {n \in 0 .. k : n = 0 \/ flat[n] = f[n]}
    <3>1. 0 \in T
      BY <1>1
    <3>2. ASSUME NEW n \in 0 .. k - 1, n \in T PROVE n + 1 \in T
      <4>1. n + 1 \in 0 .. k /\ n + 1 \in 1 .. k /\ (n + 1) - 1 = n
        BY <1>1
      <4>2. CASE n = 0
        BY <2>1, <2>8, <4>1, <4>2
      <4>3. CASE n # 0
        <5>1. flat[n] = f[n] /\ n + 1 # 1
          BY <3>2, <4>3
        <5>2. flat[n + 1] = flat[n] \o traces[n + 1]
          BY <2>8, <4>1, <5>1
        <5>3. f[n + 1] = f[n] \o traces[n + 1]
          BY <1>2, <4>1 DEF FlatBy
        <5> QED BY <4>1, <5>1, <5>2, <5>3
      <4> QED BY <4>2, <4>3
    <3> HIDE DEF T
    <3>3. \A n \in 0 .. k : n \in T
      BY <1>1, <3>1, <3>2, UpTo
    <3> QED BY <3>3 DEF T
  <2>10. flat[k] = f[k]
    BY <1>1, <1>4, <2>9
  <2> QED BY <1>2, <2>6, <2>10
<1> QED
  BY <1>3, <1>4

-----------------------------------------------------------------------------
(* What a publish puts into its trace                                      *)

Mws == Seq(MiddlewareRecords)

(* A Vec of entries with ids.                                              *)
HasIds(seq) ==
  Len(seq) \in Nat /\ DOMAIN seq = 1 .. Len(seq) /\ \A i \in DOMAIN seq : seq[i].id \in Nat

\* A Vec of middlewares is one.
LEMMA MwsHaveIds ==
  ASSUME NEW mws \in Mws
  PROVE  HasIds(mws)
<1>1. Len(mws) \in Nat /\ DOMAIN mws = 1 .. Len(mws)
  BY LenProperties DEF Mws
<1>2. \A i \in 1 .. Len(mws) : mws[i] \in MiddlewareRecords
  BY ElementOfSeq DEF Mws
<1> QED
  BY <1>1, <1>2 DEF HasIds, MiddlewareRecords

\* The steps that are made of such a Vec.
LEMMA TaggedTrace ==
  ASSUME NEW seq, HasIds(seq), NEW tag \in {"spawn", "run", "letter"}
  PROVE  /\ Tagged(tag, seq) \in Traces /\ Len(Tagged(tag, seq)) = Len(seq)
         /\ \A i \in 1 .. Len(seq) : Tagged(tag, seq)[i] = <<tag, seq[i].id>>
<1>1. Tagged(tag, seq) \in [1 .. Len(seq) -> TraceSteps]
  BY StepKinds DEF Tagged, HasIds
<1> QED
  BY <1>1 DEF Tagged, HasIds, Traces

\* The number of middlewares that run: as many as there are, or up to the first
\* that does not accept.
LEMMA PassedUpTo ==
  ASSUME NEW mws \in Mws, NEW verdict
  PROVE  /\ Passed(mws, verdict) \in 0 .. Len(mws)
         /\ ~Blocks(mws, verdict) => Passed(mws, verdict) = Len(mws)
         /\ Blocks(mws, verdict) =>
              LET n == Passed(mws, verdict)
              IN /\ n \in 1 .. Len(mws) /\ verdict[mws[n].id] # "accept"
                 /\ \A i \in 1 .. Len(mws) : verdict[mws[i].id] # "accept" => n <= i
<1> DEFINE bad == {i \in DOMAIN mws : verdict[mws[i].id] # "accept"}
<1>1. Len(mws) \in Nat /\ DOMAIN mws = 1 .. Len(mws)
  BY MwsHaveIds DEF HasIds
<1>2. Blocks(mws, verdict) <=> bad # {}
  BY DEF Blocks
<1>3. Passed(mws, verdict) = IF bad = {} THEN Len(mws)
                             ELSE CHOOSE i \in bad : \A j \in bad : i <= j
  BY DEF Passed
<1>4. bad # {} => \E i \in bad : \A j \in bad : i <= j
  <2>1. bad \in SUBSET Nat
    BY <1>1
  <2> HIDE DEF bad
  <2> QED BY <2>1, LeastOf
<1>5. bad # {} => Passed(mws, verdict) \in bad /\ \A j \in bad : Passed(mws, verdict) <= j
  <2> HIDE DEF bad
  <2> QED BY <1>3, <1>4
<1>6. CASE bad = {}
  <2>1. Passed(mws, verdict) = Len(mws) /\ ~Blocks(mws, verdict)
    BY <1>2, <1>3, <1>6
  <2> QED BY <1>1, <2>1
<1>7. CASE bad # {}
  <2>1. /\ Blocks(mws, verdict)
        /\ Passed(mws, verdict) \in bad /\ \A j \in bad : Passed(mws, verdict) <= j
    BY <1>2, <1>5, <1>7
  <2>2. Passed(mws, verdict) \in 1 .. Len(mws) /\ verdict[mws[Passed(mws, verdict)].id] # "accept"
    BY <1>1, <2>1
  <2>3. \A i \in 1 .. Len(mws) : verdict[mws[i].id] # "accept" => Passed(mws, verdict) <= i
    BY <1>1, <2>1
  <2>4. Passed(mws, verdict) \in 0 .. Len(mws)
    BY <1>1, <2>2
  <2> QED BY <2>1, <2>2, <2>3, <2>4
<1> QED
  BY <1>6, <1>7

\* The steps of the first n middlewares.
LEMMA StepsTrace ==
  ASSUME NEW mws \in Mws, NEW n \in 0 .. Len(mws), NEW type \in {EventType, DeadLetter}
  PROVE  /\ Steps(mws, n, type) \in Traces /\ Len(Steps(mws, n, type)) = n
         /\ \A i \in 1 .. n : /\ Steps(mws, n, type)[i] = <<"mw", type, mws[i].id>>
                              /\ mws[i].id \in Nat
<1>1. Len(mws) \in Nat /\ \A i \in 1 .. Len(mws) : mws[i].id \in Nat
  BY MwsHaveIds DEF HasIds
<1>2. n \in Nat /\ \A i \in 1 .. n : i \in 1 .. Len(mws)
  BY <1>1
<1>3. Steps(mws, n, type) \in [1 .. n -> TraceSteps]
  BY <1>1, <1>2, StepKinds DEF Steps
<1> QED
  BY <1>1, <1>2, <1>3 DEF Steps, Traces

\* Without an async middleware the sync-only loop is the full one.
LEMMA SyncIntercept ==
  ASSUME NEW mws \in Mws, ~SomeAsync(mws), NEW verdict, NEW type
  PROVE  InterceptSync(mws, verdict, type) = Intercept(mws, verdict, type)
<1>1. Len(mws) \in Nat /\ DOMAIN mws = 1 .. Len(mws)
  BY MwsHaveIds DEF HasIds
<1>2. Passed(mws, verdict) \in 0 .. Len(mws)
  BY PassedUpTo
<1>3. {i \in 1 .. Passed(mws, verdict) : mws[i].kind = "async"} = {}
  BY <1>1, <1>2 DEF SomeAsync
<1> QED
  BY <1>3 DEF InterceptSync, Intercept

\* Without a middleware there is nothing to run.
LEMMA NoMiddleware ==
  ASSUME NEW verdict, NEW type \in {EventType, DeadLetter}
  PROVE  Intercept(<<>>, verdict, type) = [ok |-> TRUE, trace |-> <<>>]
<1>1. Passed(<<>>, verdict) = 0 /\ ~Blocks(<<>>, verdict)
  BY DEF Passed, Blocks
<1>2. <<>> \in Mws /\ Len(<<>>) = 0 /\ 0 \in 0 .. 0
  BY DEF Mws
<1>3. Steps(<<>>, 0, type) \in Traces /\ Len(Steps(<<>>, 0, type)) = 0
  BY <1>2, StepsTrace
<1>4. Steps(<<>>, 0, type) = <<>>
  BY <1>3, EmptySeq DEF Traces
<1> QED
  BY <1>1, <1>4 DEF Intercept

\* The trace of the middlewares, which tells of the event if it is the event they
\* are run for.
LEMMA InterceptTrace ==
  ASSUME NEW mws \in Mws, NEW verdict, NEW type \in {EventType, DeadLetter}
  PROVE  /\ Intercept(mws, verdict, type).trace \in Traces
         /\ EventSteps(Intercept(mws, verdict, type).trace)
              = IF type = EventType THEN Intercept(mws, verdict, type).trace ELSE <<>>
<1> DEFINE trace == Intercept(mws, verdict, type).trace
           n == Passed(mws, verdict)
<1>1. n \in 0 .. Len(mws)
  BY PassedUpTo
<1>2. trace = Steps(mws, n, type)
  BY DEF Intercept
<1> HIDE DEF trace, n
<1>3. /\ trace \in Traces /\ Len(trace) = n
      /\ \A i \in 1 .. n : trace[i] = <<"mw", type, mws[i].id>> /\ mws[i].id \in Nat
  BY <1>1, <1>2, StepsTrace
<1>4. \A i \in 1 .. Len(trace) : OfEvent(trace[i]) <=> type = EventType
  BY <1>3, StepKinds
<1>5. EventSteps(trace) = IF type = EventType THEN trace ELSE <<>>
  BY <1>3, <1>4, AllOfEvent, NoneOfEvent
<1> QED
  BY <1>3, <1>5 DEF trace

(* What the proofs need to know of a snapshot.                             *)
SnapshotOK(snapshot) ==
  LET slot == SlotOf(snapshot, EventType)
  IN /\ snapshot.globals \in Mws /\ snapshot.globalHasAsync = SomeAsync(snapshot.globals)
     /\ slot.middlewares \in Mws /\ slot.hasAsyncMiddleware = SomeAsync(slot.middlewares)
     /\ HasIds(slot.syncListeners) /\ HasIds(slot.asyncListeners)
     /\ EventType = DeadLetter => slot.syncListeners = <<>>
     /\ SlotOf(snapshot, DeadLetter).middlewares \in Mws
     /\ HasIds(snapshot.deadLetters)

\* What a Vec lists has the ids of the set.
LEMMA ListedHaveIds ==
  ASSUME NEW S, ListenersOK(S), NEW seq, Lists(seq, S)
  PROVE  HasIds(seq)
<1>1. seq \in Seq(S) /\ Len(seq) \in Nat /\ DOMAIN seq = 1 .. Len(seq)
  BY LenProperties DEF Lists
<1>2. \A i \in 1 .. Len(seq) : seq[i] \in S
  BY <1>1, ElementOfSeq
<1> QED
  BY <1>1, <1>2 DEF HasIds, ListenersOK

\* The listeners of one kind are listeners.
LEMMA KindOK ==
  ASSUME NEW L, ListenersOK(L), NEW kind
  PROVE  ListenersOK(OfKind(L, kind))
<1>1. IsFiniteSet(OfKind(L, kind))
  BY FS_Subset DEF ListenersOK, OfKind
<1> QED
  BY <1>1 DEF ListenersOK, OfKind

\* The slot of a type in the snapshot is made of the registry's.
LEMMA SlotFound ==
  ASSUME NEW reg, ProperRegistry(reg), NEW type
  PROVE  LET snapshot == RegistrySnapshotOf(reg)
             slot == SlotOf(snapshot, type)
         IN /\ Found(snapshot, type) <=> type \in DOMAIN reg.slots
            /\ slot.middlewares \in Mws /\ slot.hasAsyncMiddleware = SomeAsync(slot.middlewares)
            /\ HasIds(slot.syncListeners) /\ HasIds(slot.asyncListeners)
            /\ type = DeadLetter => slot.syncListeners = <<>>
            /\ type \in DOMAIN reg.slots =>
                 /\ slot.middlewares = reg.slots[type].middlewares
                 /\ slot.syncListeners
                      = Sorted(OfKind(reg.slots[type].listeners, "sync"), ByPriority)
                 /\ slot.asyncListeners
                      = Sorted(OfKind(reg.slots[type].listeners, "async"), ByRegistration)
            /\ type \notin DOMAIN reg.slots => slot = NoSlot
<1> DEFINE snapshot == RegistrySnapshotOf(reg)
           slot == SlotOf(snapshot, type)
<1>1. /\ DOMAIN snapshot.byType = DOMAIN reg.slots
      /\ \A t \in DOMAIN reg.slots : snapshot.byType[t] = SnapshotSlot(reg.slots[t])
  BY DEF RegistrySnapshotOf
<1>2. CASE type \in DOMAIN reg.slots
  <2> DEFINE L == reg.slots[type].listeners
             sync == Sorted(OfKind(L, "sync"), ByPriority)
             async == Sorted(OfKind(L, "async"), ByRegistration)
  <2>1. slot = SnapshotSlot(reg.slots[type])
    BY <1>1, <1>2 DEF SlotOf
  <2>2. /\ slot.syncListeners = sync /\ slot.asyncListeners = async
        /\ slot.middlewares = reg.slots[type].middlewares
        /\ slot.hasAsyncMiddleware = SomeAsync(slot.middlewares)
    BY <2>1 DEF SnapshotSlot
  <2>3. /\ reg.slots[type].middlewares \in Mws /\ ListenersOK(L)
        /\ Lists(sync, OfKind(L, "sync")) /\ Lists(async, OfKind(L, "async"))
        /\ type = DeadLetter => L = {}
    BY <1>2 DEF ProperRegistry, Mws
  <2> HIDE DEF sync, async, L
  <2>4. HasIds(sync) /\ HasIds(async)
    BY <2>3, KindOK, ListedHaveIds
  <2>5. type = DeadLetter => sync = <<>>
    <3> SUFFICES ASSUME type = DeadLetter PROVE sync = <<>>
      OBVIOUS
    <3>1. OfKind(L, "sync") = {}
      BY <2>3 DEF OfKind
    <3>2. sync \in Seq({})
      BY <2>3, <3>1 DEF Lists
    <3> QED BY <3>2, EmptySeq, LenProperties, ElementOfSeq
  <2>6. Found(snapshot, type)
    BY <1>1, <1>2 DEF Found
  <2> QED BY <1>2, <2>2, <2>3, <2>4, <2>5, <2>6 DEF sync, async, L
<1>3. CASE type \notin DOMAIN reg.slots
  <2>1. slot = NoSlot /\ ~Found(snapshot, type)
    BY <1>1, <1>3 DEF SlotOf, Found
  <2>2. <<>> \in Mws /\ HasIds(<<>>) /\ ~SomeAsync(<<>>)
    BY DEF Mws, HasIds, SomeAsync
  <2> HIDE DEF slot
  <2>3. /\ slot.middlewares = <<>> /\ slot.syncListeners = <<>> /\ slot.asyncListeners = <<>>
        /\ slot.hasAsyncMiddleware = FALSE
    BY <2>1 DEF NoSlot
  <2>4. slot.hasAsyncMiddleware = SomeAsync(slot.middlewares)
    BY <2>2, <2>3 DEF SomeAsync
  <2> QED BY <1>3, <2>1, <2>2, <2>3, <2>4 DEF slot
<1> QED
  BY <1>2, <1>3

\* The snapshot of a proper registry is as the proofs need it.
LEMMA SnapshotIsOK ==
  ASSUME NEW reg, ProperRegistry(reg)
  PROVE  SnapshotOK(RegistrySnapshotOf(reg))
<1> DEFINE snapshot == RegistrySnapshotOf(reg)
<1>1. /\ snapshot.globals \in Mws /\ snapshot.globalHasAsync = SomeAsync(snapshot.globals)
      /\ snapshot.deadLetters = Sorted(reg.deadLetters, ByPriority)
  BY DEF RegistrySnapshotOf, ProperRegistry, Mws
<1>2. HasIds(snapshot.deadLetters)
  BY <1>1, ListedHaveIds DEF ProperRegistry
<1>3. SlotOf(snapshot, DeadLetter).middlewares \in Mws
  BY SlotFound
<1>4. LET slot == SlotOf(snapshot, EventType)
      IN /\ slot.middlewares \in Mws /\ slot.hasAsyncMiddleware = SomeAsync(slot.middlewares)
         /\ HasIds(slot.syncListeners) /\ HasIds(slot.asyncListeners)
         /\ EventType = DeadLetter => slot.syncListeners = <<>>
  BY SlotFound
<1> HIDE DEF snapshot
<1>5. SnapshotOK(snapshot)
  BY <1>1, <1>2, <1>3, <1>4 DEF SnapshotOK
<1> QED
  BY <1>5 DEF snapshot

\* A dead letter tells nothing of the event, unless the event is one itself.
LEMMA LettersTrace ==
  ASSUME NEW snapshot, SnapshotOK(snapshot), NEW verdict
  PROVE  /\ DeliverDeadLetter(snapshot, verdict) \in Traces
         /\ EventType # DeadLetter => EventSteps(DeliverDeadLetter(snapshot, verdict)) = <<>>
<1> DEFINE global == Intercept(snapshot.globals, verdict, DeadLetter)
           typed == Intercept(SlotOf(snapshot, DeadLetter).middlewares, verdict, DeadLetter)
           letters == Tagged("letter", snapshot.deadLetters)
           g == global.trace
           t == typed.trace
           all == g \o t \o letters
<1>1. DeliverDeadLetter(snapshot, verdict) \in {g, g \o t, all}
  BY DEF DeliverDeadLetter, Tagged
<1>2. /\ g \in Traces /\ t \in Traces
      /\ EventType # DeadLetter => EventSteps(g) = <<>> /\ EventSteps(t) = <<>>
  BY InterceptTrace DEF SnapshotOK
<1>3. letters \in Traces /\ EventSteps(letters) = <<>>
  <2>1. HasIds(snapshot.deadLetters)
    BY DEF SnapshotOK
  <2>2. /\ letters \in Traces /\ Len(letters) = Len(snapshot.deadLetters)
        /\ \A i \in 1 .. Len(snapshot.deadLetters) :
             letters[i] = <<"letter", snapshot.deadLetters[i].id>>
    BY <2>1, TaggedTrace
  <2> HIDE DEF letters
  <2>3. \A i \in 1 .. Len(letters) : ~OfEvent(letters[i])
    BY <2>1, <2>2, StepKinds DEF HasIds
  <2> QED BY <2>2, <2>3, NoneOfEvent
<1> HIDE DEF g, t, letters
<1>4. <<>> \o <<>> = <<>>
  BY ConcatEmptySeq, EmptySeq
<1>5. g \o t \in Traces /\ EventSteps(g \o t) = EventSteps(g) \o EventSteps(t)
  BY <1>2, ConcatEvents
<1>6. all \in Traces /\ EventSteps(all) = EventSteps(g \o t) \o EventSteps(letters)
  BY <1>3, <1>5, ConcatEvents
<1> QED
  BY <1>1, <1>2, <1>3, <1>4, <1>5, <1>6

(* What RunSync makes of one listener.                                     *)
OneRun(snapshot, l, in) ==
  <<<<"run", l.id>>>> \o
  (IF l.id \in in.fails \ in.quiet THEN DeliverDeadLetter(snapshot, in.letterVerdict) ELSE <<>>)

\* It runs the listener, and what follows tells nothing of the event.
LEMMA OneRunTrace ==
  ASSUME NEW snapshot, SnapshotOK(snapshot), NEW in, NEW l, l.id \in Nat, EventType # DeadLetter
  PROVE  /\ OneRun(snapshot, l, in) \in Traces
         /\ EventSteps(OneRun(snapshot, l, in)) = <<<<"run", l.id>>>>
<1> DEFINE first == <<<<"run", l.id>>>>
           rest == IF l.id \in in.fails \ in.quiet
                   THEN DeliverDeadLetter(snapshot, in.letterVerdict) ELSE <<>>
<1>1. first \in Traces /\ EventSteps(first) = first
  <2>1. <<"run", l.id>> \in TraceSteps /\ OfEvent(<<"run", l.id>>)
    BY StepKinds
  <2>2. first \in Traces /\ Len(first) = 1 /\ first[1] = <<"run", l.id>>
    BY <2>1 DEF Traces
  <2>3. \A i \in 1 .. Len(first) : OfEvent(first[i])
    BY <2>1, <2>2
  <2> HIDE DEF first
  <2> QED BY <2>2, <2>3, AllOfEvent
<1>2. rest \in Traces /\ EventSteps(rest) = <<>>
  <2>1. <<>> \in Traces /\ EventSteps(<<>>) = <<>>
    <3>1. <<>> \in Traces /\ Len(<<>>) = 0
      BY DEF Traces
    <3> QED BY <3>1, AllOfEvent
  <2> QED BY <2>1, LettersTrace
<1> HIDE DEF first, rest
<1>3. first \o rest \in Traces /\ EventSteps(first \o rest) = first \o <<>>
  BY <1>1, <1>2, ConcatEvents
<1>4. first \o <<>> = first
  BY <1>1, ConcatEmptySeq DEF Traces
<1> QED
  BY <1>3, <1>4 DEF OneRun, first, rest

\* RunSync puts the runs one after the other.
LEMMA RunSyncIsRuns ==
  ASSUME NEW snapshot, NEW listeners, NEW in
  PROVE  RunSync(snapshot, listeners, in)
           = FlattenSeq([i \in DOMAIN listeners |-> OneRun(snapshot, listeners[i], in)])
BY DEF RunSync, OneRun

\* The sync listeners run in their order.
LEMMA RunSyncTrace ==
  ASSUME NEW snapshot, SnapshotOK(snapshot), NEW listeners, HasIds(listeners), NEW in,
         EventType = DeadLetter => listeners = <<>>
  PROVE  /\ RunSync(snapshot, listeners, in) \in Traces
         /\ EventSteps(RunSync(snapshot, listeners, in)) = Tagged("run", listeners)
<1> DEFINE k == Len(listeners)
           runs == [i \in DOMAIN listeners |-> OneRun(snapshot, listeners[i], in)]
           tagged == Tagged("run", listeners)
<1>1. /\ k \in Nat /\ DOMAIN listeners = 1 .. k
      /\ \A i \in 1 .. k : listeners[i].id \in Nat
  BY DEF HasIds
<1>2. ASSUME NEW i \in 1 .. k
      PROVE  runs[i] \in Traces /\ EventSteps(runs[i]) = <<<<"run", listeners[i].id>>>>
  <2>1. EventType # DeadLetter
    BY <1>1
  <2>2. runs[i] = OneRun(snapshot, listeners[i], in)
    BY <1>1
  <2> QED BY <1>1, <2>1, <2>2, OneRunTrace
<1>3. runs \in Seq(Traces) /\ Len(runs) = k
  <2>1. runs \in [1 .. k -> Traces]
    BY <1>1, <1>2
  <2> HIDE DEF runs, k
  <2> QED BY <1>1, <2>1
<1>4. RunSync(snapshot, listeners, in) = FlattenSeq(runs)
  BY RunSyncIsRuns
<1>5. /\ tagged \in Traces /\ Len(tagged) = k
      /\ \A i \in 1 .. k : tagged[i] = <<"run", listeners[i].id>>
  BY TaggedTrace
<1> HIDE DEF runs, tagged, k
<1>6. PICK f : FlatBy(f, runs, k) /\ FlattenSeq(runs) = f[k]
  BY <1>3, FlattenBy
<1> DEFINE T == {n \in 0 .. k : EventSteps(f[n]) = SubSeq(tagged, 1, n)}
<1>7. 0 \in T
  <2>1. f[0] = <<>> /\ f[0] \in Traces
    BY <1>1, <1>6 DEF FlatBy
  <2>2. EventSteps(f[0]) = <<>>
    BY <2>1, NoneOfEvent
  <2>3. SubSeq(tagged, 1, 0) = <<>>
    BY SubSeqEmpty
  <2>4. 0 \in 0 .. k /\ EventSteps(f[0]) = SubSeq(tagged, 1, 0)
    BY <1>1, <2>2, <2>3
  <2> QED BY <2>4
<1>8. ASSUME NEW n \in 0 .. k - 1, n \in T PROVE n + 1 \in T
  <2>1. n + 1 \in 0 .. k /\ n + 1 \in 1 .. k /\ (n + 1) - 1 = n /\ n \in 0 .. k
    BY <1>1
  <2>2. f[n + 1] = f[n] \o runs[n + 1] /\ f[n] \in Traces
    BY <1>6, <2>1 DEF FlatBy
  <2>3. EventSteps(f[n + 1]) = EventSteps(f[n]) \o EventSteps(runs[n + 1])
    BY <1>2, <2>1, <2>2, ConcatEvents
  <2>4. EventSteps(f[n + 1]) = SubSeq(tagged, 1, n) \o <<tagged[n + 1]>>
    BY <1>2, <1>5, <1>8, <2>1, <2>3
  <2>5. SubSeq(tagged, 1, n + 1) = SubSeq(tagged, 1, n) \o <<tagged[n + 1]>>
    <3>1. /\ tagged \in Seq(TraceSteps) /\ 1 \in 1 .. Len(tagged)
          /\ n + 1 \in 1 .. Len(tagged)
      BY <1>1, <1>5, <2>1 DEF Traces
    <3>2. SubSeq(tagged, 1, n + 1) = SubSeq(tagged, 1, (n + 1) - 1) \o <<tagged[n + 1]>>
      BY <3>1, SubSeqRecursiveSecond
    <3> QED BY <2>1, <3>2
  <2> QED BY <2>1, <2>4, <2>5
<1> HIDE DEF T
<1>9. k \in T /\ k \in 0 .. k
  <2>1. \A n \in 0 .. k : n \in T
    BY <1>1, <1>7, <1>8, UpTo
  <2> QED BY <1>1, <2>1
<1>10. EventSteps(f[k]) = SubSeq(tagged, 1, k) /\ f[k] \in Traces
  BY <1>6, <1>9 DEF T, FlatBy
<1>11. SubSeq(tagged, 1, k) = tagged
  BY <1>5, SubSeqFull DEF Traces
<1> QED
  BY <1>4, <1>6, <1>10, <1>11 DEF tagged

-----------------------------------------------------------------------------
(* The fast paths                                                          *)

\* What the lanes of a slot put into the trace.
LEMMA SlotTrace ==
  ASSUME NEW snapshot, SnapshotOK(snapshot), NEW in
  PROVE  LET slot == SlotOf(snapshot, EventType)
             trace == DispatchSlot(snapshot, slot, in)
         IN /\ trace \in Traces
            /\ EventSteps(trace) = Tagged("spawn", slot.asyncListeners)
                                     \o Tagged("run", slot.syncListeners)
            /\ slot.asyncListeners = <<>> =>
                 trace = RunSync(snapshot, slot.syncListeners, in)
<1> DEFINE slot == SlotOf(snapshot, EventType)
           spawn == Tagged("spawn", slot.asyncListeners)
           run == RunSync(snapshot, slot.syncListeners, in)
<1>1. /\ HasIds(slot.asyncListeners) /\ HasIds(slot.syncListeners)
      /\ EventType = DeadLetter => slot.syncListeners = <<>>
  BY DEF SnapshotOK
<1>2. DispatchSlot(snapshot, slot, in) = spawn \o run
  BY DEF DispatchSlot, SpawnAsync, Tagged
<1> HIDE DEF slot
<1>3. run \in Traces /\ EventSteps(run) = Tagged("run", slot.syncListeners)
  BY <1>1, RunSyncTrace
<1>4. /\ spawn \in Traces /\ Len(spawn) = Len(slot.asyncListeners)
      /\ \A i \in 1 .. Len(slot.asyncListeners) :
           spawn[i] = <<"spawn", slot.asyncListeners[i].id>>
  BY <1>1, TaggedTrace
<1> HIDE DEF spawn, run
<1>5. EventSteps(spawn) = spawn
  <2>1. \A i \in 1 .. Len(spawn) : OfEvent(spawn[i])
    BY <1>1, <1>4, StepKinds DEF HasIds
  <2> QED BY <1>4, <2>1, AllOfEvent
<1>6. /\ spawn \o run \in Traces
      /\ EventSteps(spawn \o run) = spawn \o Tagged("run", slot.syncListeners)
  BY <1>3, <1>4, <1>5, ConcatEvents
<1>7. slot.asyncListeners = <<>> => spawn \o run = run
  <2> SUFFICES ASSUME slot.asyncListeners = <<>> PROVE spawn \o run = run
    OBVIOUS
  <2>1. spawn = <<>>
    BY <1>4, EmptySeq DEF Traces
  <2> QED BY <1>3, <2>1, ConcatEmptySeq DEF Traces
<1> QED
  BY <1>2, <1>6, <1>7 DEF slot, spawn, run

\* A publish does on every path what the full path does.  The sync-only path
\* never meets the async middleware that would be an internal error, and the
\* path without middleware skips loops that would run nothing.
THEOREM FastPathsAreFull ==
  ASSUME NEW reg, ProperRegistry(reg), NEW in
  PROVE  Publish(RegistrySnapshotOf(reg), in) = DispatchWithSnapshot(RegistrySnapshotOf(reg), in)
<1> DEFINE snapshot == RegistrySnapshotOf(reg)
<1>1. SnapshotOK(snapshot)
  BY SnapshotIsOK
<1> HIDE DEF snapshot
<1> DEFINE slot == SlotOf(snapshot, EventType)
           global == Intercept(snapshot.globals, in.verdict, EventType)
           typed == Intercept(slot.middlewares, in.verdict, EventType)
           run == RunSync(snapshot, slot.syncListeners, in)
           dispatched == DispatchSlot(snapshot, slot, in)
           full == DispatchWithSnapshot(snapshot, in)
<1>2. full = IF ~global.ok THEN Outcome("rejected", global.trace)
             ELSE IF ~Found(snapshot, EventType) THEN Outcome("ok", global.trace)
             ELSE IF ~typed.ok THEN Outcome("rejected", global.trace \o typed.trace)
             ELSE Outcome("ok", global.trace \o typed.trace \o dispatched)
  BY DEF DispatchWithSnapshot
<1>3. dispatched \in Traces /\ (slot.asyncListeners = <<>> => dispatched = run)
  BY <1>1, SlotTrace
<1> HIDE DEF dispatched, full, run
<1>4. CASE ~Found(snapshot, EventType) /\ snapshot.globals = <<>>
  <2>1. global.ok /\ global.trace = <<>>
    BY <1>4, NoMiddleware
  <2>2. Publish(snapshot, in) = Outcome("ok", <<>>)
    BY <1>4 DEF Publish
  <2> QED BY <1>2, <1>4, <2>1, <2>2 DEF full, snapshot
<1>5. CASE SyncOnly(snapshot) /\ ~(~Found(snapshot, EventType) /\ snapshot.globals = <<>>)
  <2>1. /\ ~SomeAsync(snapshot.globals) /\ ~SomeAsync(slot.middlewares)
        /\ slot.asyncListeners = <<>>
    BY <1>1, <1>5 DEF SyncOnly, SnapshotOK
  <2>2. /\ InterceptSync(snapshot.globals, in.verdict, EventType) = global
        /\ InterceptSync(slot.middlewares, in.verdict, EventType) = typed
    BY <1>1, <2>1, SyncIntercept DEF SnapshotOK
  <2>3. Publish(snapshot, in) = DispatchSyncOnly(snapshot, in)
    BY <1>5 DEF Publish
  <2>4. DispatchSyncOnly(snapshot, in)
          = IF ~global.ok THEN Outcome("rejected", global.trace)
            ELSE IF ~Found(snapshot, EventType) THEN Outcome("ok", global.trace)
            ELSE IF ~typed.ok THEN Outcome("rejected", global.trace \o typed.trace)
            ELSE Outcome("ok", global.trace \o typed.trace \o run)
    BY <2>2 DEF DispatchSyncOnly, run
  <2> QED BY <1>2, <1>3, <2>1, <2>3, <2>4 DEF full, snapshot
<1>6. CASE ~SyncOnly(snapshot) /\ ~(~Found(snapshot, EventType) /\ snapshot.globals = <<>>)
  <2>1. Publish(snapshot, in) = PublishErased(snapshot, in)
    BY <1>6 DEF Publish
  <2>2. CASE snapshot.globals = <<>> /\ slot.middlewares = <<>>
    <3>1. Found(snapshot, EventType)
      BY <1>6, <2>2
    <3>2. PublishErased(snapshot, in) = Outcome("ok", dispatched)
      BY <2>2, <3>1 DEF PublishErased, dispatched
    <3>3. global = [ok |-> TRUE, trace |-> <<>>] /\ typed = [ok |-> TRUE, trace |-> <<>>]
      BY <2>2, NoMiddleware
    <3>4. <<>> \o <<>> = <<>> /\ <<>> \o dispatched = dispatched
      BY <1>3, ConcatEmptySeq, EmptySeq DEF Traces
    <3>5. full = Outcome("ok", dispatched)
      BY <1>2, <3>1, <3>3, <3>4
    <3> QED BY <2>1, <3>2, <3>5 DEF full, snapshot
  <2>3. CASE ~(snapshot.globals = <<>> /\ slot.middlewares = <<>>)
    BY <2>1, <2>3 DEF PublishErased, full, snapshot
  <2> QED BY <2>2, <2>3
<1> QED
  BY <1>4, <1>5, <1>6

-----------------------------------------------------------------------------
(* The full path is the plain pipeline                                     *)

\* Two Vecs of middlewares, one after the other.
LEMMA ConcatMws ==
  ASSUME NEW G \in Mws, NEW M \in Mws
  PROVE  /\ G \o M \in Mws /\ Len(G) \in Nat /\ Len(M) \in Nat
         /\ Len(G \o M) = Len(G) + Len(M)
         /\ \A i \in 1 .. Len(G) : (G \o M)[i] = G[i]
         /\ \A i \in 1 .. Len(M) : (G \o M)[Len(G) + i] = M[i]
<1> DEFINE GM == G \o M
           g == Len(G)
           m == Len(M)
<1>1. /\ GM \in Mws /\ Len(GM) = g + m /\ g \in Nat /\ m \in Nat
      /\ \A i \in 1 .. g + m : GM[i] = IF i <= g THEN G[i] ELSE M[i - g]
  BY ConcatProperties, LenProperties DEF Mws
<1> HIDE DEF GM, g, m
<1>2. ASSUME NEW i \in 1 .. m PROVE GM[g + i] = M[i]
  <2>1. g + i \in 1 .. g + m /\ ~(g + i <= g) /\ (g + i) - g = i
    BY <1>1
  <2> QED BY <1>1, <2>1
<1>3. \A i \in 1 .. g : GM[i] = G[i]
  BY <1>1
<1> QED
  BY <1>1, <1>2, <1>3 DEF GM, g, m

\* The first that does not accept among both is the first of the one that has
\* one, and the second is only asked where the first has none.
LEMMA PassedConcat ==
  ASSUME NEW G \in Mws, NEW M \in Mws, NEW verdict
  PROVE  /\ Blocks(G, verdict) => /\ Blocks(G \o M, verdict)
                                  /\ Passed(G \o M, verdict) = Passed(G, verdict)
         /\ ~Blocks(G, verdict) =>
              /\ Blocks(G \o M, verdict) <=> Blocks(M, verdict)
              /\ Passed(G \o M, verdict) = Len(G) + Passed(M, verdict)
<1> DEFINE GM == G \o M
           g == Len(G)
           m == Len(M)
           Bad(mws, i) == verdict[mws[i].id] # "accept"
<1>1. /\ GM \in Mws /\ g \in Nat /\ m \in Nat /\ Len(GM) = g + m
      /\ \A i \in 1 .. g : GM[i] = G[i]
      /\ \A i \in 1 .. m : GM[g + i] = M[i]
  BY ConcatMws
<1>2. /\ Blocks(G, verdict) <=> \E i \in 1 .. g : Bad(G, i)
      /\ Blocks(M, verdict) <=> \E i \in 1 .. m : Bad(M, i)
  BY MwsHaveIds DEF Blocks, HasIds
<1> HIDE DEF GM
<1>3. Blocks(GM, verdict) <=> \E i \in 1 .. g + m : Bad(GM, i)
  BY <1>1, MwsHaveIds DEF Blocks, HasIds
<1>4. /\ Blocks(G, verdict) =>
           /\ Passed(G, verdict) \in 1 .. g /\ Bad(G, Passed(G, verdict))
           /\ \A i \in 1 .. g : Bad(G, i) => Passed(G, verdict) <= i
      /\ Blocks(M, verdict) =>
           /\ Passed(M, verdict) \in 1 .. m /\ Bad(M, Passed(M, verdict))
           /\ \A i \in 1 .. m : Bad(M, i) => Passed(M, verdict) <= i
      /\ ~Blocks(M, verdict) => Passed(M, verdict) = m
  BY PassedUpTo
<1>5. /\ Blocks(GM, verdict) =>
           /\ Passed(GM, verdict) \in 1 .. g + m /\ Bad(GM, Passed(GM, verdict))
           /\ \A i \in 1 .. g + m : Bad(GM, i) => Passed(GM, verdict) <= i
      /\ ~Blocks(GM, verdict) => Passed(GM, verdict) = g + m
  BY <1>1, PassedUpTo
<1>6. /\ \A i \in 1 .. g : i \in 1 .. g + m /\ (Bad(GM, i) <=> Bad(G, i))
      /\ \A i \in 1 .. m : g + i \in 1 .. g + m /\ (Bad(GM, g + i) <=> Bad(M, i))
  BY <1>1
<1>7. \A i \in 1 .. g + m : i \in 1 .. g \/ (i - g \in 1 .. m /\ g + (i - g) = i)
  BY <1>1
<1> HIDE DEF Bad, g, m
<1> DEFINE pg == Passed(G, verdict)
           pm == Passed(M, verdict)
           p == Passed(GM, verdict)
<1> HIDE DEF pg, pm, p
<1>8. CASE Blocks(G, verdict)
  <2>1. pg \in 1 .. g /\ pg \in 1 .. g + m /\ Bad(GM, pg)
    BY <1>4, <1>6, <1>8 DEF pg
  <2>2. Blocks(GM, verdict)
    BY <1>3, <2>1
  <2>3. p \in 1 .. g + m /\ Bad(GM, p) /\ p <= pg
    BY <1>5, <2>1, <2>2 DEF p
  <2>4. p \in 1 .. g
    BY <1>1, <2>1, <2>3
  <2>5. pg <= p
    BY <1>4, <1>6, <1>8, <2>3, <2>4 DEF pg
  <2>6. p = pg
    BY <1>1, <2>1, <2>3, <2>4, <2>5
  <2> QED BY <1>8, <2>2, <2>6 DEF p, pg, GM
<1>9. CASE ~Blocks(G, verdict)
  <2>1. \A i \in 1 .. g : ~Bad(GM, i)
    BY <1>2, <1>6, <1>9
  <2>2. CASE Blocks(M, verdict)
    <3>1. pm \in 1 .. m /\ g + pm \in 1 .. g + m /\ Bad(GM, g + pm)
      BY <1>4, <1>6, <2>2 DEF pm
    <3>2. Blocks(GM, verdict)
      BY <1>3, <3>1
    <3>3. p \in 1 .. g + m /\ Bad(GM, p) /\ p <= g + pm
      BY <1>5, <3>1, <3>2 DEF p
    <3>4. p - g \in 1 .. m /\ g + (p - g) = p
      BY <1>7, <2>1, <3>3
    <3>5. Bad(M, p - g)
      BY <1>6, <3>3, <3>4
    <3>6. pm <= p - g
      BY <1>4, <2>2, <3>4, <3>5 DEF pm
    <3>7. p = g + pm
      BY <1>1, <3>1, <3>3, <3>4, <3>6
    <3> QED BY <1>9, <2>2, <3>2, <3>7 DEF p, pm, GM, g
  <2>3. CASE ~Blocks(M, verdict)
    <3>1. \A i \in 1 .. g + m : ~Bad(GM, i)
      BY <1>2, <1>6, <1>7, <2>1, <2>3
    <3>2. ~Blocks(GM, verdict)
      BY <1>3, <3>1
    <3>3. p = g + m /\ pm = m
      BY <1>4, <1>5, <2>3, <3>2 DEF p, pm
    <3> QED BY <1>9, <2>3, <3>2, <3>3 DEF p, pm, GM, g
  <2> QED BY <2>2, <2>3
<1> QED
  BY <1>8, <1>9

\* To ask two Vecs one after the other is to ask them as one.
LEMMA InterceptConcat ==
  ASSUME NEW G \in Mws, NEW M \in Mws, NEW verdict, NEW type \in {EventType, DeadLetter}
  PROVE  Intercept(G \o M, verdict, type)
           = IF ~Intercept(G, verdict, type).ok THEN Intercept(G, verdict, type)
             ELSE [ok |-> Intercept(M, verdict, type).ok,
                   trace |-> Intercept(G, verdict, type).trace
                               \o Intercept(M, verdict, type).trace]
<1> DEFINE GM == G \o M
           g == Len(G)
           m == Len(M)
           pg == Passed(G, verdict)
           pm == Passed(M, verdict)
           first == Steps(G, pg, type)
           second == Steps(M, pm, type)
<1>1. /\ GM \in Mws /\ g \in Nat /\ m \in Nat /\ Len(GM) = g + m
      /\ \A i \in 1 .. g : GM[i] = G[i]
      /\ \A i \in 1 .. m : GM[g + i] = M[i]
  BY ConcatMws
<1>2. pg \in 0 .. g /\ pm \in 0 .. m /\ (~Blocks(G, verdict) => pg = g)
  BY PassedUpTo
<1>3. /\ Blocks(G, verdict) => Blocks(GM, verdict) /\ Passed(GM, verdict) = pg
      /\ ~Blocks(G, verdict) => /\ Blocks(GM, verdict) <=> Blocks(M, verdict)
                                /\ Passed(GM, verdict) = g + pm
  BY PassedConcat
<1>4. /\ first \in Traces /\ Len(first) = pg
      /\ \A i \in 1 .. pg : first[i] = <<"mw", type, G[i].id>>
      /\ second \in Traces /\ Len(second) = pm
      /\ \A i \in 1 .. pm : second[i] = <<"mw", type, M[i].id>>
  BY <1>2, StepsTrace
<1> HIDE DEF GM, g, m, pg, pm, first, second
<1>5. ASSUME NEW n \in 0 .. g + m
      PROVE  /\ Steps(GM, n, type) \in Traces /\ Len(Steps(GM, n, type)) = n
             /\ \A i \in 1 .. n : Steps(GM, n, type)[i] = <<"mw", type, GM[i].id>>
  BY <1>1, StepsTrace
<1>6. CASE Blocks(G, verdict)
  <2>1. pg \in 0 .. g + m /\ pg \in Nat /\ \A i \in 1 .. pg : i \in 1 .. g
    BY <1>1, <1>2
  <2>2. \A i \in 1 .. pg : Steps(GM, pg, type)[i] = first[i]
    BY <1>1, <1>4, <1>5, <2>1
  <2>3. Steps(GM, pg, type) \in Traces /\ Len(Steps(GM, pg, type)) = pg
    BY <1>5, <2>1
  <2>4. Steps(GM, pg, type) = first
    BY <1>4, <2>2, <2>3, SeqEqual DEF Traces
  <2> QED BY <1>3, <1>6, <2>4 DEF Intercept, GM, first, pg
<1>7. CASE ~Blocks(G, verdict)
  <2>1. g + pm \in 0 .. g + m /\ g + pm \in Nat /\ pm \in Nat /\ pg = g
    BY <1>1, <1>2, <1>7
  <2> DEFINE all == Steps(GM, g + pm, type)
             two == first \o second
  <2>2. /\ all \in Traces /\ Len(all) = g + pm
        /\ \A i \in 1 .. g + pm : all[i] = <<"mw", type, GM[i].id>>
    BY <1>5, <2>1
  <2>3. /\ two \in Traces /\ Len(two) = g + pm
        /\ \A i \in 1 .. g + pm : two[i] = IF i <= g THEN first[i] ELSE second[i - g]
    <3>1. first \in Seq(TraceSteps) /\ second \in Seq(TraceSteps)
      BY <1>4 DEF Traces
    <3>2. /\ two \in Seq(TraceSteps) /\ Len(two) = Len(first) + Len(second)
          /\ \A i \in 1 .. Len(first) + Len(second) :
               two[i] = IF i <= Len(first) THEN first[i] ELSE second[i - Len(first)]
      BY <3>1, ConcatProperties
    <3>3. Len(first) = g /\ Len(second) = pm
      BY <1>4, <2>1
    <3> HIDE DEF two
    <3> QED BY <3>2, <3>3 DEF Traces
  <2> HIDE DEF all, two
  <2>4. ASSUME NEW i \in 1 .. g + pm PROVE all[i] = two[i]
    <3>1. CASE i <= g
      <4>1. i \in 1 .. g /\ i \in 1 .. pg
        BY <1>1, <2>1, <3>1
      <4> QED BY <1>1, <1>4, <2>2, <2>3, <3>1, <4>1
    <3>2. CASE ~(i <= g)
      <4>1. i - g \in 1 .. pm /\ i - g \in 1 .. m /\ g + (i - g) = i
        BY <1>1, <1>2, <2>1, <3>2
      <4> DEFINE j == i - g
      <4>2. two[i] = second[j]
        BY <2>3, <3>2
      <4> HIDE DEF j
      <4>3. second[j] = <<"mw", type, M[j].id>> /\ GM[g + j] = M[j] /\ g + j = i
        BY <1>1, <1>4, <4>1 DEF j
      <4>4. all[i] = <<"mw", type, GM[i].id>>
        BY <2>2
      <4> QED BY <4>2, <4>3, <4>4
    <3> QED BY <3>1, <3>2
  <2>5. all = two
    BY <2>2, <2>3, <2>4, SeqEqual DEF Traces
  <2> QED BY <1>3, <1>7, <2>5 DEF Intercept, GM, first, second, all, two, pg, pm
<1> QED
  BY <1>6, <1>7

\* Nothing is sorted to nothing.
LEMMA SortedNothing ==
  /\ Sorted({}, ByPriority) = <<>>
  /\ Sorted({}, ByRegistration) = <<>>
<1>1. Cardinality({}) = 0 /\ 1 .. 0 = {}
  BY FS_EmptySet
<1>2. SetToSeqs({}) \subseteq Seq({})
  <2> SUFFICES ASSUME NEW f \in SetToSeqs({}) PROVE f \in Seq({})
    OBVIOUS
  <2>1. f \in [1 .. 0 -> {}]
    BY <1>1 DEF SetToSeqs
  <2> QED BY <2>1
<1>3. \A f \in SetToSeqs({}) : f = <<>>
  <2> SUFFICES ASSUME NEW f \in SetToSeqs({}) PROVE f = <<>>
    OBVIOUS
  <2>1. f \in Seq({})
    BY <1>2
  <2>2. Len(f) = 0
    BY <2>1, LenProperties, ElementOfSeq
  <2> QED BY <2>1, <2>2, EmptySeq
<1>4. <<>> \in SetToSeqs({})
  <2>1. <<>> \in [1 .. 0 -> {}]
    BY <1>1
  <2> QED BY <1>1, <2>1 DEF SetToSeqs
<1> QED
  BY <1>3, <1>4 DEF Sorted

(* What a registry has for the event, slot or no slot.                     *)
RegistrySlot(reg) == IF EventType \in DOMAIN reg.slots THEN reg.slots[EventType] ELSE EmptySlot(0)

\* The snapshot has the same, in order.
LEMMA SlotsAgree ==
  ASSUME NEW reg, ProperRegistry(reg)
  PROVE  LET slot == SlotOf(RegistrySnapshotOf(reg), EventType)
             had == RegistrySlot(reg)
         IN /\ slot.middlewares = had.middlewares
            /\ slot.syncListeners = Sorted(OfKind(had.listeners, "sync"), ByPriority)
            /\ slot.asyncListeners = Sorted(OfKind(had.listeners, "async"), ByRegistration)
<1> DEFINE slot == SlotOf(RegistrySnapshotOf(reg), EventType)
           had == RegistrySlot(reg)
<1>1. CASE EventType \in DOMAIN reg.slots
  <2>1. had = reg.slots[EventType]
    BY <1>1 DEF RegistrySlot
  <2>2. /\ slot.middlewares = reg.slots[EventType].middlewares
        /\ slot.syncListeners
             = Sorted(OfKind(reg.slots[EventType].listeners, "sync"), ByPriority)
        /\ slot.asyncListeners
             = Sorted(OfKind(reg.slots[EventType].listeners, "async"), ByRegistration)
    BY <1>1, SlotFound
  <2> HIDE DEF had, slot
  <2> QED BY <2>1, <2>2 DEF had, slot
<1>2. CASE EventType \notin DOMAIN reg.slots
  <2>1. had.middlewares = <<>> /\ had.listeners = {}
    BY <1>2 DEF RegistrySlot, EmptySlot
  <2>2. slot.middlewares = <<>> /\ slot.syncListeners = <<>> /\ slot.asyncListeners = <<>>
    BY <1>2, SlotFound DEF NoSlot
  <2> HIDE DEF had, slot
  <2>3. OfKind(had.listeners, "sync") = {} /\ OfKind(had.listeners, "async") = {}
    BY <2>1 DEF OfKind
  <2> QED BY <2>1, <2>2, <2>3, SortedNothing DEF had, slot
<1> QED
  BY <1>1, <1>2

\* The plain pipeline in the terms of the code: both lists of middlewares as one.
LEMMA ReferenceIs ==
  LET reg == input.registry
      slot == RegistrySlot(reg)
      asked == Intercept(reg.globals \o slot.middlewares, input.verdict, EventType)
      spawned == Tagged("spawn", Sorted(OfKind(slot.listeners, "async"), ByRegistration))
      run == Tagged("run", Sorted(OfKind(slot.listeners, "sync"), ByPriority))
  IN Reference = IF asked.ok THEN Outcome("ok", asked.trace \o spawned \o run)
                 ELSE Outcome("rejected", asked.trace)
<1> DEFINE slot == RegistrySlot(input.registry)
           mws == input.registry.globals \o slot.middlewares
           blocked == {i \in DOMAIN mws : input.verdict[mws[i].id] # "accept"}
           upTo == IF blocked = {} THEN Len(mws) ELSE Min(blocked)
           trace == [i \in 1 .. upTo |-> <<"mw", EventType, mws[i].id>>]
           async == Sorted({l \in slot.listeners : l.kind = "async"}, LAMBDA a, b : a.id < b.id)
           sync == Sorted({l \in slot.listeners : l.kind = "sync"},
                     LAMBDA a, b : a.priority > b.priority
                                   \/ (a.priority = b.priority /\ a.id < b.id))
           asked == Intercept(mws, input.verdict, EventType)
<1>1. Reference = IF blocked = {} THEN Outcome("ok", trace \o Tagged("spawn", async) \o Tagged("run", sync))
                  ELSE Outcome("rejected", trace)
  BY DEF Reference, RegistrySlot
<1>2. async = Sorted(OfKind(slot.listeners, "async"), ByRegistration)
  BY DEF Sorted, OfKind, ByRegistration
<1>3. sync = Sorted(OfKind(slot.listeners, "sync"), ByPriority)
  BY DEF Sorted, OfKind, ByPriority
<1> HIDE DEF async, sync, mws
<1>4. asked.ok <=> blocked = {}
  BY DEF Intercept, Blocks
<1>5. Passed(mws, input.verdict) = upTo
  BY DEF Passed, Min
<1>6. asked.trace = trace
  BY <1>5 DEF Intercept, Steps
<1> HIDE DEF blocked, trace, asked
<1>7. Reference = IF asked.ok THEN Outcome("ok", asked.trace \o Tagged("spawn", async) \o Tagged("run", sync))
                  ELSE Outcome("rejected", asked.trace)
  BY <1>1, <1>4, <1>6
<1> QED
  BY <1>2, <1>3, <1>7 DEF asked, mws

\* The full path does what the plain pipeline does, dead letters apart.
LEMMA FullIsPlain ==
  ASSUME ProperRegistry(input.registry)
  PROVE  LET full == DispatchWithSnapshot(RegistrySnapshotOf(input.registry), input)
         IN full.result = Reference.result /\ EventSteps(full.trace) = Reference.trace
<1> DEFINE reg == input.registry
           snapshot == RegistrySnapshotOf(reg)
           slot == SlotOf(snapshot, EventType)
           G == snapshot.globals
           M == slot.middlewares
           global == Intercept(G, input.verdict, EventType)
           typed == Intercept(M, input.verdict, EventType)
           both == Intercept(G \o M, input.verdict, EventType)
           g == global.trace
           t == typed.trace
           dispatched == DispatchSlot(snapshot, slot, input)
           spawned == Tagged("spawn", slot.asyncListeners)
           run == Tagged("run", slot.syncListeners)
           full == DispatchWithSnapshot(snapshot, input)
<1>1. SnapshotOK(snapshot)
  BY SnapshotIsOK
<1>2. G = reg.globals /\ G \in Mws /\ M \in Mws
  BY <1>1 DEF SnapshotOK, RegistrySnapshotOf
<1>3. Reference = IF both.ok THEN Outcome("ok", both.trace \o spawned \o run)
                  ELSE Outcome("rejected", both.trace)
  BY <1>2, SlotsAgree, ReferenceIs
<1>4. full = IF ~global.ok THEN Outcome("rejected", g)
             ELSE IF ~Found(snapshot, EventType) THEN Outcome("ok", g)
             ELSE IF ~typed.ok THEN Outcome("rejected", g \o t)
             ELSE Outcome("ok", g \o t \o dispatched)
  BY DEF DispatchWithSnapshot
<1>5. /\ ~global.ok => ~both.ok /\ both.trace = g
      /\ global.ok => (both.ok <=> typed.ok) /\ both.trace = g \o t
  <2>1. G \in Mws /\ M \in Mws /\ EventType \in {EventType, DeadLetter}
    BY <1>2
  <2>2. both = IF ~global.ok THEN global ELSE [ok |-> typed.ok, trace |-> g \o t]
    <3> HIDE DEF G, M
    <3> QED BY <2>1, InterceptConcat
  <2> HIDE DEF global, typed, both
  <2> QED BY <2>1, <2>2
<1>6. g \in Traces /\ EventSteps(g) = g /\ t \in Traces /\ EventSteps(t) = t
  BY <1>2, InterceptTrace
<1>7. dispatched \in Traces /\ EventSteps(dispatched) = spawned \o run
  BY <1>1, SlotTrace
<1>8. spawned \in Traces /\ run \in Traces
  BY <1>1, TaggedTrace DEF SnapshotOK
<1>9. ~Found(snapshot, EventType) =>
        typed.ok /\ t = <<>> /\ spawned = <<>> /\ run = <<>>
  <2> SUFFICES ASSUME ~Found(snapshot, EventType)
               PROVE  typed.ok /\ t = <<>> /\ spawned = <<>> /\ run = <<>>
    OBVIOUS
  <2>1. M = <<>> /\ slot.asyncListeners = <<>> /\ slot.syncListeners = <<>>
    BY SlotFound DEF NoSlot
  <2>2. typed.ok /\ t = <<>>
    BY <2>1, NoMiddleware
  <2>3. Tagged("spawn", <<>>) = <<>> /\ Tagged("run", <<>>) = <<>>
    <3>1. HasIds(<<>>)
      BY DEF HasIds
    <3>2. ASSUME NEW tag \in {"spawn", "run", "letter"} PROVE Tagged(tag, <<>>) = <<>>
      BY <3>1, TaggedTrace, EmptySeq DEF Traces
    <3> QED BY <3>2
  <2> QED BY <2>1, <2>2, <2>3
<1> HIDE DEF full, both, global, typed, g, t, dispatched, spawned, run
<1>10. g \o t \in Traces /\ EventSteps(g \o t) = g \o t
  BY <1>6, ConcatEvents
<1>11. EventSteps(g \o t \o dispatched) = (g \o t) \o (spawned \o run)
  BY <1>7, <1>10, ConcatEvents
<1>12. (g \o t) \o (spawned \o run) = ((g \o t) \o spawned) \o run
  <2> DEFINE gt == g \o t
  <2>1. gt \in Seq(TraceSteps) /\ spawned \in Seq(TraceSteps) /\ run \in Seq(TraceSteps)
    BY <1>8, <1>10 DEF Traces
  <2> HIDE DEF gt
  <2>2. (gt \o spawned) \o run = gt \o (spawned \o run)
    BY <2>1, ConcatAssociative
  <2> QED BY <2>2 DEF gt
<1>13. CASE ~global.ok
  <2>1. full = Outcome("rejected", g) /\ Reference = Outcome("rejected", g)
    BY <1>3, <1>4, <1>5, <1>13
  <2> QED BY <1>6, <2>1 DEF Outcome, full
<1>14. CASE global.ok /\ ~Found(snapshot, EventType)
  <2>1. ((g \o <<>>) \o <<>>) \o <<>> = g
    BY <1>6, ConcatEmptySeq DEF Traces
  <2>2. full = Outcome("ok", g) /\ Reference = Outcome("ok", g)
    BY <1>3, <1>4, <1>5, <1>9, <1>14, <2>1
  <2> QED BY <1>6, <2>2 DEF Outcome, full
<1>15. CASE global.ok /\ Found(snapshot, EventType) /\ ~typed.ok
  <2>1. full = Outcome("rejected", g \o t) /\ Reference = Outcome("rejected", g \o t)
    BY <1>3, <1>4, <1>5, <1>15
  <2> QED BY <1>10, <2>1 DEF Outcome, full
<1>16. CASE global.ok /\ Found(snapshot, EventType) /\ typed.ok
  <2>1. /\ full = Outcome("ok", g \o t \o dispatched)
        /\ Reference = Outcome("ok", g \o t \o spawned \o run)
    BY <1>3, <1>4, <1>5, <1>16
  <2> QED BY <1>11, <1>12, <2>1 DEF Outcome, full
<1> QED
  BY <1>13, <1>14, <1>15, <1>16

-----------------------------------------------------------------------------
(* Dead letters                                                            *)

\* What is not in a trace does not occur in it.
LEMMA NoLetter ==
  ASSUME NEW trace, \A i \in DOMAIN trace : trace[i][1] # "letter", NEW id
  PROVE  Occurrences(<<"letter", id>>, trace) = 0
<1>1. {i \in DOMAIN trace : trace[i] = <<"letter", id>>} = {}
  OBVIOUS
<1> QED
  BY <1>1, FS_EmptySet DEF Occurrences

\* A step occurs in two traces together as often as in the one and in the other.
LEMMA ConcatOccurrences ==
  ASSUME NEW s \in Traces, NEW t \in Traces, NEW step
  PROVE  /\ Occurrences(step, s \o t) = Occurrences(step, s) + Occurrences(step, t)
         /\ Occurrences(step, s) \in Nat
<1> DEFINE m == Len(s)
           n == Len(t)
           u == s \o t
           A == {i \in 1 .. m : s[i] = step}
           B == {i \in 1 .. n : t[i] = step}
           C == {i \in 1 .. m + n : u[i] = step}
           D == {i \in m + 1 .. m + n : u[i] = step}
<1>1. /\ m \in Nat /\ n \in Nat /\ DOMAIN s = 1 .. m /\ DOMAIN t = 1 .. n
      /\ u \in Seq(TraceSteps) /\ Len(u) = m + n
      /\ \A i \in 1 .. m + n : u[i] = IF i <= m THEN s[i] ELSE t[i - m]
  BY ConcatProperties, LenProperties DEF Traces
<1>2. DOMAIN u = 1 .. m + n
  BY <1>1, LenProperties
<1> HIDE DEF m, n, u
<1>3. IsFiniteSet(A) /\ IsFiniteSet(B) /\ IsFiniteSet(D)
  <2>1. IsFiniteSet(1 .. m) /\ IsFiniteSet(1 .. n) /\ IsFiniteSet(m + 1 .. m + n)
    BY <1>1, FS_Interval
  <2>2. A \subseteq 1 .. m /\ B \subseteq 1 .. n /\ D \subseteq m + 1 .. m + n
    OBVIOUS
  <2> QED BY <2>1, <2>2, FS_Subset
<1>4. C = A \cup D /\ A \cap D = {}
  BY <1>1
<1>5. Cardinality(D) = Cardinality(B)
  <2> DEFINE f == [i \in B |-> i + m]
  <2>1. \A i \in B : f[i] \in D /\ f[i] = i + m
    <3> SUFFICES ASSUME NEW i \in B PROVE i + m \in D
      OBVIOUS
    <3>1. i \in 1 .. n /\ t[i] = step
      OBVIOUS
    <3>2. i + m \in m + 1 .. m + n /\ i + m \in 1 .. m + n /\ ~(i + m <= m) /\ (i + m) - m = i
      BY <1>1, <3>1
    <3>3. u[i + m] = t[i]
      BY <1>1, <3>2
    <3> QED BY <3>1, <3>2, <3>3
  <2>2. \A j \in D : j - m \in B /\ (j - m) + m = j
    <3> SUFFICES ASSUME NEW j \in D PROVE j - m \in B /\ (j - m) + m = j
      OBVIOUS
    <3>1. j \in m + 1 .. m + n /\ u[j] = step
      OBVIOUS
    <3>2. j - m \in 1 .. n /\ j \in 1 .. m + n /\ ~(j <= m) /\ (j - m) + m = j
      BY <1>1, <3>1
    <3>3. u[j] = t[j - m]
      BY <1>1, <3>2
    <3> QED BY <3>1, <3>2, <3>3
  <2>3. \A i, j \in B : i + m = j + m => i = j
    BY <1>1
  <2>4. f \in [B -> D]
    BY <2>1
  <2> HIDE DEF B, D
  <2>5. \A i, j \in B : f[i] = f[j] => i = j
    BY <2>1, <2>3
  <2>6. \A j \in D : \E i \in B : f[i] = j
    BY <2>1, <2>2
  <2> HIDE DEF f
  <2>7. f \in Bijection(B, D)
    BY <2>4, <2>5, <2>6 DEF Bijection, Injection, Surjection, IsInjective
  <2> QED BY <1>3, <2>7, FS_Bijection DEF ExistsBijection
<1>6. /\ Occurrences(step, u) = Cardinality(C)
      /\ Occurrences(step, s) = Cardinality(A) /\ Occurrences(step, t) = Cardinality(B)
  BY <1>1, <1>2 DEF Occurrences
<1> HIDE DEF A, B, C, D
<1>7. Cardinality(A) \in Nat /\ Cardinality(D) \in Nat
  BY <1>3, FS_CardinalityType
<1>8. Cardinality(C) = Cardinality(A) + Cardinality(D)
  <2>1. Cardinality(A \cup D) = Cardinality(A) + Cardinality(D) - Cardinality(A \cap D)
    BY <1>3, FS_Union
  <2>2. Cardinality(A \cap D) = 0
    BY <1>4, FS_EmptySet
  <2> QED BY <1>4, <1>7, <2>1, <2>2
<1> QED
  BY <1>5, <1>6, <1>7, <1>8 DEF u

\* A listener in a Vec that lists it gets its letter once.
LEMMA LetterOnce ==
  ASSUME NEW S, ListenersOK(S), NEW seq, Lists(seq, S), NEW l \in S
  PROVE  Occurrences(<<"letter", l.id>>, Tagged("letter", seq)) = 1
<1> DEFINE tagged == Tagged("letter", seq)
           at == {j \in DOMAIN tagged : tagged[j] = <<"letter", l.id>>}
<1>1. PICK i \in DOMAIN seq : seq[i] = l
  BY DEF Lists
<1>2. ASSUME NEW j \in DOMAIN seq, seq[j].id = l.id PROVE j = i
  <2>1. seq[j] \in S
    BY DEF Lists
  <2>2. seq[j] = l
    BY <1>2, <2>1 DEF ListenersOK
  <2> QED BY <1>1, <2>2 DEF Lists
<1>3. DOMAIN tagged = DOMAIN seq /\ \A j \in DOMAIN seq : tagged[j] = <<"letter", seq[j].id>>
  BY DEF Tagged
<1> HIDE DEF tagged
<1>4. at = {i}
  BY <1>1, <1>2, <1>3
<1> QED
  BY <1>4, FS_Singleton DEF Occurrences, tagged

(* Nothing stops a dead letter.                                            *)
Passes(snapshot, verdict) ==
  ~Blocks(snapshot.globals, verdict) /\ ~Blocks(SlotOf(snapshot, DeadLetter).middlewares, verdict)

\* A dead letter that nothing stops reaches every dead-letter listener once, one
\* that is stopped none of them.
LEMMA LetterDelivered ==
  ASSUME NEW reg, ProperRegistry(reg), NEW verdict, NEW l \in reg.deadLetters
  PROVE  Occurrences(<<"letter", l.id>>, DeliverDeadLetter(RegistrySnapshotOf(reg), verdict))
           = IF Passes(RegistrySnapshotOf(reg), verdict) THEN 1 ELSE 0
<1> DEFINE snapshot == RegistrySnapshotOf(reg)
           G == snapshot.globals
           M == SlotOf(snapshot, DeadLetter).middlewares
           global == Intercept(G, verdict, DeadLetter)
           typed == Intercept(M, verdict, DeadLetter)
           letters == Tagged("letter", snapshot.deadLetters)
           g == global.trace
           t == typed.trace
           step == <<"letter", l.id>>
<1>1. G \in Mws /\ M \in Mws /\ HasIds(snapshot.deadLetters)
  BY SnapshotIsOK DEF SnapshotOK
<1>2. /\ DeliverDeadLetter(snapshot, verdict)
           = IF ~global.ok THEN g ELSE IF ~typed.ok THEN g \o t ELSE g \o t \o letters
      /\ Passes(snapshot, verdict) <=> global.ok /\ typed.ok
  BY DEF DeliverDeadLetter, Tagged, Passes, Intercept
<1>3. g \in Traces /\ t \in Traces /\ letters \in Traces
  BY <1>1, InterceptTrace, TaggedTrace
<1>4. Occurrences(step, letters) = 1
  BY LetterOnce DEF ProperRegistry, RegistrySnapshotOf
<1> HIDE DEF letters, snapshot
<1>5. ASSUME NEW mws \in Mws PROVE Occurrences(step, Intercept(mws, verdict, DeadLetter).trace) = 0
  <2> DEFINE trace == Intercept(mws, verdict, DeadLetter).trace
             n == Passed(mws, verdict)
  <2>1. n \in 0 .. Len(mws)
    BY PassedUpTo
  <2>2. trace = Steps(mws, n, DeadLetter)
    BY DEF Intercept
  <2>3. \A i \in DOMAIN trace : trace[i][1] = "mw"
    BY <2>2 DEF Steps
  <2> HIDE DEF trace
  <2> QED BY <2>3, NoLetter DEF trace
<1>6. Occurrences(step, g) = 0 /\ Occurrences(step, t) = 0
  BY <1>1, <1>5
<1> HIDE DEF step, g, t, global, typed
<1>7. Occurrences(step, g \o t) = 0 /\ g \o t \in Traces
  BY <1>3, <1>6, ConcatOccurrences, ConcatProperties DEF Traces
<1>8. Occurrences(step, g \o t \o letters) = 1
  BY <1>3, <1>4, <1>7, ConcatOccurrences
<1> QED
  BY <1>2, <1>6, <1>7, <1>8 DEF snapshot, step

(* The first n listeners of which a failure makes a dead letter.           *)
Owed(listeners, in, n) == {i \in 1 .. n : listeners[i].id \in in.fails \ in.quiet}

\* The letters that follow one listener.
LEMMA OneRunLetters ==
  ASSUME NEW reg, ProperRegistry(reg), NEW in, NEW l \in reg.deadLetters,
         NEW r, r.id \in Nat
  PROVE  LET snapshot == RegistrySnapshotOf(reg)
             trace == OneRun(snapshot, r, in)
         IN /\ trace \in Traces
            /\ Occurrences(<<"letter", l.id>>, trace)
                 = IF Passes(snapshot, in.letterVerdict) /\ r.id \in in.fails \ in.quiet
                   THEN 1 ELSE 0
<1> DEFINE snapshot == RegistrySnapshotOf(reg)
           first == <<<<"run", r.id>>>>
           rest == IF r.id \in in.fails \ in.quiet
                   THEN DeliverDeadLetter(snapshot, in.letterVerdict) ELSE <<>>
           step == <<"letter", l.id>>
<1>1. first \in Traces /\ Occurrences(step, first) = 0
  <2>1. <<"run", r.id>> \in TraceSteps
    BY StepKinds
  <2>2. first \in Traces /\ \A i \in DOMAIN first : first[i][1] = "run"
    BY <2>1 DEF Traces
  <2> HIDE DEF first
  <2> QED BY <2>2, NoLetter
<1>2. <<>> \in Traces /\ Occurrences(step, <<>>) = 0
  <2>1. <<>> \in Traces /\ \A i \in DOMAIN <<>> : <<>>[i][1] # "letter"
    BY DEF Traces
  <2> QED BY <2>1, NoLetter
<1>3. /\ DeliverDeadLetter(snapshot, in.letterVerdict) \in Traces
      /\ Occurrences(step, DeliverDeadLetter(snapshot, in.letterVerdict))
           = IF Passes(snapshot, in.letterVerdict) THEN 1 ELSE 0
  BY SnapshotIsOK, LettersTrace, LetterDelivered
<1>4. rest \in Traces
  BY <1>2, <1>3
<1>5. Occurrences(step, rest)
        = IF Passes(snapshot, in.letterVerdict) /\ r.id \in in.fails \ in.quiet THEN 1 ELSE 0
  BY <1>2, <1>3
<1>6. OneRun(snapshot, r, in) = first \o rest
  BY DEF OneRun
<1> HIDE DEF first, rest, step, snapshot
<1>7. first \o rest \in Traces
  BY <1>1, <1>4, ConcatProperties DEF Traces
<1>8. Occurrences(step, first \o rest) = 0 + Occurrences(step, rest)
  BY <1>1, <1>4, ConcatOccurrences
<1>9. Occurrences(step, first \o rest) = Occurrences(step, rest)
  BY <1>5, <1>8
<1> QED
  BY <1>5, <1>6, <1>7, <1>9 DEF step, snapshot

\* The letters that follow a list of listeners.
LEMMA RunSyncLetters ==
  ASSUME NEW reg, ProperRegistry(reg), NEW in, NEW l \in reg.deadLetters,
         NEW listeners, HasIds(listeners)
  PROVE  LET snapshot == RegistrySnapshotOf(reg)
             trace == RunSync(snapshot, listeners, in)
         IN /\ trace \in Traces
            /\ Occurrences(<<"letter", l.id>>, trace)
                 = IF Passes(snapshot, in.letterVerdict)
                   THEN Cardinality(Owed(listeners, in, Len(listeners))) ELSE 0
<1> DEFINE snapshot == RegistrySnapshotOf(reg)
           k == Len(listeners)
           runs == [i \in DOMAIN listeners |-> OneRun(snapshot, listeners[i], in)]
           step == <<"letter", l.id>>
           passes == Passes(snapshot, in.letterVerdict)
           O(n) == Owed(listeners, in, n)
           Due(n) == IF passes THEN Cardinality(O(n)) ELSE 0
<1>1. /\ k \in Nat /\ DOMAIN listeners = 1 .. k
      /\ \A i \in 1 .. k : listeners[i].id \in Nat
  BY DEF HasIds
<1>2. ASSUME NEW i \in 1 .. k
      PROVE  /\ runs[i] \in Traces
             /\ Occurrences(step, runs[i])
                  = IF passes /\ listeners[i].id \in in.fails \ in.quiet THEN 1 ELSE 0
  <2>1. runs[i] = OneRun(snapshot, listeners[i], in)
    BY <1>1
  <2> QED BY <1>1, <2>1, OneRunLetters
<1>3. runs \in Seq(Traces) /\ Len(runs) = k
  <2>1. runs \in [1 .. k -> Traces]
    BY <1>1, <1>2
  <2> HIDE DEF runs, k
  <2> QED BY <1>1, <2>1
<1>4. RunSync(snapshot, listeners, in) = FlattenSeq(runs)
  BY RunSyncIsRuns
<1> HIDE DEF runs, k, passes, step
<1>5. PICK f : FlatBy(f, runs, k) /\ FlattenSeq(runs) = f[k]
  BY <1>3, FlattenBy
<1>6. Due(0) = 0
  <2>1. O(0) = {}
    BY DEF Owed
  <2> QED BY <2>1, FS_EmptySet
<1>7. ASSUME NEW n \in 0 .. k - 1
      PROVE  Due(n + 1) = Due(n) + Occurrences(step, runs[n + 1])
  <2>1. n \in Nat /\ n + 1 \in 1 .. k
    BY <1>1
  <2>2. IsFiniteSet(O(n)) /\ n + 1 \notin O(n)
    <3>1. O(n) \subseteq 1 .. n
      BY DEF Owed
    <3>2. IsFiniteSet(1 .. n)
      BY <2>1, FS_Interval
    <3>3. n + 1 \notin 1 .. n
      BY <2>1
    <3> HIDE DEF O
    <3> QED BY <3>1, <3>2, <3>3, FS_Subset
  <2>3. O(n + 1) = IF listeners[n + 1].id \in in.fails \ in.quiet
                   THEN O(n) \cup {n + 1} ELSE O(n)
    BY <2>1 DEF Owed
  <2>4. /\ Cardinality(O(n) \cup {n + 1}) = Cardinality(O(n)) + 1
        /\ Cardinality(O(n)) \in Nat
    BY <2>2, FS_AddElement, FS_CardinalityType
  <2>5. Occurrences(step, runs[n + 1])
          = IF passes /\ listeners[n + 1].id \in in.fails \ in.quiet THEN 1 ELSE 0
    BY <1>2, <2>1
  <2> HIDE DEF O
  <2> QED BY <2>3, <2>4, <2>5
<1> HIDE DEF Due
<1> DEFINE T == {n \in 0 .. k : Occurrences(step, f[n]) = Due(n)}
<1>8. 0 \in T
  <2>1. f[0] = <<>>
    BY <1>5 DEF FlatBy
  <2>2. Occurrences(step, <<>>) = 0
    BY NoLetter DEF step
  <2>3. 0 \in 0 .. k /\ Occurrences(step, f[0]) = Due(0)
    BY <1>1, <1>6, <2>1, <2>2
  <2> QED BY <2>3
<1>9. ASSUME NEW n \in 0 .. k - 1, n \in T PROVE n + 1 \in T
  <2>1. n + 1 \in 0 .. k /\ n + 1 \in 1 .. k /\ (n + 1) - 1 = n /\ n \in 0 .. k
    BY <1>1
  <2>2. f[n + 1] = f[n] \o runs[n + 1] /\ f[n] \in Traces
    BY <1>5, <2>1 DEF FlatBy
  <2>3. Occurrences(step, f[n + 1]) = Occurrences(step, f[n]) + Occurrences(step, runs[n + 1])
    BY <1>2, <2>1, <2>2, ConcatOccurrences
  <2>4. Occurrences(step, f[n + 1]) = Due(n + 1)
    BY <1>7, <1>9, <2>3
  <2> QED BY <2>1, <2>4
<1> HIDE DEF T
<1>10. k \in T /\ k \in 0 .. k
  <2>1. \A n \in 0 .. k : n \in T
    BY <1>1, <1>8, <1>9, UpTo
  <2> QED BY <1>1, <2>1
<1>11. f[k] \in Traces /\ Occurrences(step, f[k]) = Due(k)
  BY <1>5, <1>10 DEF T, FlatBy
<1> QED
  BY <1>4, <1>5, <1>11 DEF Due, step, passes, k

\* What is in two Vecs together is in the one or in the other.
LEMMA ConcatMembers ==
  ASSUME NEW S, NEW s \in Seq(S), NEW t \in Seq(S)
  PROVE  ToSet(s \o t) = ToSet(s) \cup ToSet(t)
<1> DEFINE m == Len(s)
           n == Len(t)
           u == s \o t
<1>1. /\ m \in Nat /\ n \in Nat /\ DOMAIN s = 1 .. m /\ DOMAIN t = 1 .. n
      /\ u \in Seq(S) /\ Len(u) = m + n
      /\ \A i \in 1 .. m + n : u[i] = IF i <= m THEN s[i] ELSE t[i - m]
  BY ConcatProperties, LenProperties
<1>2. DOMAIN u = 1 .. m + n
  BY <1>1, LenProperties
<1> HIDE DEF m, n, u
<1>3. ASSUME NEW i \in 1 .. m PROVE i \in 1 .. m + n /\ u[i] = s[i]
  BY <1>1
<1>4. ASSUME NEW i \in 1 .. n PROVE m + i \in 1 .. m + n /\ u[m + i] = t[i]
  <2>1. m + i \in 1 .. m + n /\ ~(m + i <= m) /\ (m + i) - m = i
    BY <1>1
  <2> QED BY <1>1, <2>1
<1>5. ASSUME NEW i \in 1 .. m + n
      PROVE  (\E j \in 1 .. m : u[i] = s[j]) \/ (\E j \in 1 .. n : u[i] = t[j])
  <2>1. CASE i <= m
    BY <1>1, <2>1
  <2>2. CASE ~(i <= m)
    <3>1. i - m \in 1 .. n
      BY <1>1, <2>2
    <3> QED BY <1>1, <2>2, <3>1
  <2> QED BY <2>1, <2>2
<1>6. /\ ToSet(u) = {u[i] : i \in 1 .. m + n}
      /\ ToSet(s) = {s[i] : i \in 1 .. m} /\ ToSet(t) = {t[i] : i \in 1 .. n}
  BY <1>1, <1>2 DEF ToSet
<1>7. {u[i] : i \in 1 .. m + n} = {s[i] : i \in 1 .. m} \cup {t[i] : i \in 1 .. n}
  BY <1>3, <1>4, <1>5
<1> QED
  BY <1>6, <1>7 DEF u

(* The sync listeners that a trace runs.                                   *)
RunIn(trace) == {step[2] : step \in {s \in ToSet(trace) : s[1] = "run"}}

\* Those of two traces together.
LEMMA ConcatRuns ==
  ASSUME NEW s \in Traces, NEW t \in Traces
  PROVE  RunIn(s \o t) = RunIn(s) \cup RunIn(t)
<1>1. ToSet(s \o t) = ToSet(s) \cup ToSet(t)
  BY ConcatMembers DEF Traces
<1> QED
  BY <1>1 DEF RunIn

\* Those of middlewares and of spawned listeners: none; those of a list of sync
\* listeners: its ids.
LEMMA RunsOfParts ==
  /\ \A mws, verdict, type : RunIn(Intercept(mws, verdict, type).trace) = {}
  /\ \A seq : RunIn(Tagged("spawn", seq)) = {}
  /\ \A seq : RunIn(Tagged("run", seq)) = {seq[i].id : i \in DOMAIN seq}
<1>1. ASSUME NEW mws, NEW verdict, NEW type
      PROVE  RunIn(Intercept(mws, verdict, type).trace) = {}
  <2> DEFINE trace == Intercept(mws, verdict, type).trace
  <2>1. trace = Steps(mws, Passed(mws, verdict), type)
    BY DEF Intercept
  <2>2. \A i \in DOMAIN trace : trace[i][1] = "mw"
    BY <2>1 DEF Steps
  <2> HIDE DEF trace
  <2>3. RunIn(trace) = {}
    BY <2>2 DEF RunIn, ToSet
  <2> QED BY <2>3 DEF trace
<1>2. ASSUME NEW seq PROVE RunIn(Tagged("spawn", seq)) = {}
  BY DEF RunIn, ToSet, Tagged
<1>3. ASSUME NEW seq PROVE RunIn(Tagged("run", seq)) = {seq[i].id : i \in DOMAIN seq}
  <2>1. ToSet(Tagged("run", seq)) = {<<"run", seq[i].id>> : i \in DOMAIN seq}
    BY DEF ToSet, Tagged
  <2>2. \A i \in DOMAIN seq : <<"run", seq[i].id>>[1] = "run" /\ <<"run", seq[i].id>>[2] = seq[i].id
    OBVIOUS
  <2>3. {s \in ToSet(Tagged("run", seq)) : s[1] = "run"} = ToSet(Tagged("run", seq))
    BY <2>1, <2>2
  <2>4. ASSUME NEW id
        PROVE  (\E step \in ToSet(Tagged("run", seq)) : id = step[2])
                 <=> \E i \in DOMAIN seq : id = seq[i].id
    BY <2>1, <2>2
  <2>5. RunIn(Tagged("run", seq)) = {step[2] : step \in ToSet(Tagged("run", seq))}
    BY <2>3 DEF RunIn
  <2> HIDE DEF Tagged
  <2> QED BY <2>4, <2>5
<1> QED
  BY <1>1, <1>2, <1>3

\* Of a list of listeners as many owe a dead letter as have ids that fail.
LEMMA OwedAreFailed ==
  ASSUME NEW S, ListenersOK(S), NEW seq, Lists(seq, S), NEW in
  PROVE  Cardinality(Owed(seq, in, Len(seq)))
           = Cardinality(({seq[i].id : i \in DOMAIN seq} \cap in.fails) \ in.quiet)
<1> DEFINE k == Len(seq)
           A == Owed(seq, in, k)
           B == ({seq[i].id : i \in DOMAIN seq} \cap in.fails) \ in.quiet
           f == [i \in A |-> seq[i].id]
<1>1. k \in Nat /\ DOMAIN seq = 1 .. k
  BY ListedHaveIds DEF HasIds
<1>2. \A i, j \in 1 .. k : seq[i].id = seq[j].id => i = j
  BY <1>1 DEF Lists, ListenersOK
<1>3. IsFiniteSet(A)
  <2>1. IsFiniteSet(1 .. k) /\ A \subseteq 1 .. k
    BY <1>1, FS_Interval DEF Owed
  <2> QED BY <2>1, FS_Subset
<1>4. \A i \in A : i \in 1 .. k /\ seq[i].id \in B
  BY <1>1 DEF Owed
<1>5. \A id \in B : \E i \in A : seq[i].id = id
  BY <1>1 DEF Owed
<1> HIDE DEF A, B, k
<1>6. f \in [A -> B]
  BY <1>4
<1>7. \A i, j \in A : f[i] = f[j] => i = j
  BY <1>2, <1>4
<1>8. \A id \in B : \E i \in A : f[i] = id
  BY <1>5
<1> HIDE DEF f
<1>9. f \in Bijection(A, B)
  BY <1>6, <1>7, <1>8 DEF Bijection, Injection, Surjection, IsInjective
<1>10. Cardinality(B) = Cardinality(A)
  BY <1>3, <1>9, FS_Bijection DEF ExistsBijection
<1> QED
  BY <1>10 DEF A, B, k

\* The lanes of a slot make a letter for every sync listener that owes one.
LEMMA SlotLetters ==
  ASSUME NEW reg, ProperRegistry(reg), EventType \in DOMAIN reg.slots, NEW in,
         NEW l \in reg.deadLetters
  PROVE  LET snapshot == RegistrySnapshotOf(reg)
             slot == SlotOf(snapshot, EventType)
             trace == DispatchSlot(snapshot, slot, in)
         IN Occurrences(<<"letter", l.id>>, trace)
              = IF Passes(snapshot, in.letterVerdict)
                THEN Cardinality((RunIn(Tagged("run", slot.syncListeners)) \cap in.fails) \ in.quiet)
                ELSE 0
<1> DEFINE snapshot == RegistrySnapshotOf(reg)
           slot == SlotOf(snapshot, EventType)
           sync == slot.syncListeners
           spawn == Tagged("spawn", slot.asyncListeners)
           run == RunSync(snapshot, sync, in)
           step == <<"letter", l.id>>
<1>1. HasIds(slot.asyncListeners) /\ HasIds(sync)
  BY SnapshotIsOK DEF SnapshotOK
<1>2. DispatchSlot(snapshot, slot, in) = spawn \o run
  BY DEF DispatchSlot, SpawnAsync, Tagged
<1>3. spawn \in Traces /\ Occurrences(step, spawn) = 0
  <2>1. \A i \in DOMAIN spawn : spawn[i][1] # "letter"
    BY DEF Tagged
  <2> QED BY <1>1, <2>1, TaggedTrace, NoLetter
<1>4. /\ run \in Traces
      /\ Occurrences(step, run) = IF Passes(snapshot, in.letterVerdict)
                                  THEN Cardinality(Owed(sync, in, Len(sync))) ELSE 0
  BY <1>1, RunSyncLetters
<1>5. Cardinality(Owed(sync, in, Len(sync)))
        = Cardinality(({sync[i].id : i \in DOMAIN sync} \cap in.fails) \ in.quiet)
  <2> DEFINE S == OfKind(reg.slots[EventType].listeners, "sync")
  <2>1. sync = Sorted(S, ByPriority)
    BY SlotFound
  <2>2. ListenersOK(S) /\ Lists(Sorted(S, ByPriority), S)
    BY KindOK DEF ProperRegistry
  <2> HIDE DEF S, sync
  <2> QED BY <2>1, <2>2, OwedAreFailed
<1>6. RunIn(Tagged("run", sync)) = {sync[i].id : i \in DOMAIN sync}
  BY RunsOfParts
<1> HIDE DEF spawn, run, step, sync, snapshot
<1>7. Occurrences(step, spawn \o run) = 0 + Occurrences(step, run) /\ Occurrences(step, run) \in Nat
  BY <1>3, <1>4, ConcatOccurrences
<1>8. Occurrences(step, spawn \o run) = Occurrences(step, run)
  BY <1>7
<1> QED
  BY <1>2, <1>4, <1>5, <1>6, <1>8 DEF step, snapshot, sync

\* The full path makes a letter for every sync listener that the plain pipeline
\* runs and that fails and wants it known.
LEMMA FullLetters ==
  ASSUME ProperRegistry(input.registry), NEW l \in input.registry.deadLetters
  PROVE  LET snapshot == RegistrySnapshotOf(input.registry)
             full == DispatchWithSnapshot(snapshot, input)
         IN Occurrences(<<"letter", l.id>>, full.trace)
              = IF Passes(snapshot, input.letterVerdict)
                THEN Cardinality((RunIn(Reference.trace) \cap input.fails) \ input.quiet)
                ELSE 0
<1> DEFINE snapshot == RegistrySnapshotOf(input.registry)
           slot == SlotOf(snapshot, EventType)
           global == Intercept(snapshot.globals, input.verdict, EventType)
           typed == Intercept(slot.middlewares, input.verdict, EventType)
           g == global.trace
           t == typed.trace
           dispatched == DispatchSlot(snapshot, slot, input)
           spawned == Tagged("spawn", slot.asyncListeners)
           run == Tagged("run", slot.syncListeners)
           full == DispatchWithSnapshot(snapshot, input)
           step == <<"letter", l.id>>
           passes == Passes(snapshot, input.letterVerdict)
           Failed(ids) == (ids \cap input.fails) \ input.quiet
<1>1. SnapshotOK(snapshot)
  BY SnapshotIsOK
<1>2. full.trace = IF ~global.ok THEN g
                   ELSE IF ~Found(snapshot, EventType) THEN g
                   ELSE IF ~typed.ok THEN g \o t
                   ELSE g \o t \o dispatched
  BY DEF DispatchWithSnapshot, Outcome
<1>3. Reference.trace = EventSteps(full.trace)
  BY FullIsPlain
<1>4. g \in Traces /\ EventSteps(g) = g /\ t \in Traces /\ EventSteps(t) = t
  BY <1>1, InterceptTrace DEF SnapshotOK
<1>5. dispatched \in Traces /\ EventSteps(dispatched) = spawned \o run
  BY <1>1, SlotTrace
<1>6. spawned \in Traces /\ run \in Traces
  BY <1>1, TaggedTrace DEF SnapshotOK
<1>7. RunIn(g) = {} /\ RunIn(t) = {} /\ RunIn(spawned) = {}
  BY RunsOfParts
<1>8. Occurrences(step, g) = 0 /\ Occurrences(step, t) = 0
  <2>1. ASSUME NEW mws, NEW verdict PROVE Occurrences(step, Intercept(mws, verdict, EventType).trace) = 0
    <3> DEFINE trace == Intercept(mws, verdict, EventType).trace
    <3>1. \A i \in DOMAIN trace : trace[i][1] # "letter"
      BY DEF Intercept, Steps
    <3> HIDE DEF trace
    <3> QED BY <3>1, NoLetter DEF trace
  <2> QED BY <2>1
<1>9. Found(snapshot, EventType) =>
        Occurrences(step, dispatched) = IF passes THEN Cardinality(Failed(RunIn(run))) ELSE 0
  <2>1. Found(snapshot, EventType) <=> EventType \in DOMAIN input.registry.slots
    BY SlotFound
  <2> QED BY <2>1, SlotLetters
<1>10. Cardinality(Failed({})) = 0
  <2>1. Failed({}) = {}
    OBVIOUS
  <2> QED BY <2>1, FS_EmptySet
<1> HIDE DEF full, global, typed, g, t, dispatched, spawned, run, passes, step, Failed, snapshot
<1> DEFINE gt == g \o t
<1>11. /\ gt \in Traces /\ EventSteps(gt) = gt
       /\ RunIn(gt) = {} /\ Occurrences(step, gt) = 0
  <2>1. gt \in Traces
    BY <1>4, ConcatProperties DEF Traces
  <2>2. EventSteps(gt) = gt
    BY <1>4, ConcatEvents
  <2>3. RunIn(gt) = RunIn(g) \cup RunIn(t)
    BY <1>4, ConcatRuns
  <2>4. Occurrences(step, gt) = 0
    BY <1>4, <1>8, ConcatOccurrences
  <2> QED BY <1>7, <2>1, <2>2, <2>3, <2>4
<1>12. CASE full.trace = g \/ full.trace = gt
  BY <1>3, <1>4, <1>7, <1>8, <1>10, <1>11, <1>12 DEF Failed, full, passes, step, snapshot
<1>13. CASE Found(snapshot, EventType) /\ full.trace = gt \o dispatched
  <2> HIDE DEF gt
  <2>1. Reference.trace = gt \o (spawned \o run)
    BY <1>3, <1>5, <1>11, <1>13, ConcatEvents
  <2>2. spawned \o run \in Traces /\ RunIn(spawned \o run) = RunIn(spawned) \cup RunIn(run)
    <3>1. spawned \o run \in Traces
      BY <1>6, ConcatProperties DEF Traces
    <3>2. RunIn(spawned \o run) = RunIn(spawned) \cup RunIn(run)
      BY <1>6, ConcatRuns
    <3> QED BY <3>1, <3>2
  <2>3. RunIn(Reference.trace) = RunIn(run)
    <3> DEFINE rest == spawned \o run
    <3>1. rest \in Traces /\ RunIn(rest) = RunIn(spawned) \cup RunIn(run)
      BY <2>2
    <3> HIDE DEF rest
    <3>2. RunIn(gt \o rest) = RunIn(gt) \cup RunIn(rest)
      BY <1>11, <3>1, ConcatRuns
    <3> QED BY <1>7, <1>11, <2>1, <3>1, <3>2 DEF rest
  <2>4. Occurrences(step, full.trace) = 0 + Occurrences(step, dispatched)
    BY <1>5, <1>11, <1>13, ConcatOccurrences
  <2>5. Occurrences(step, dispatched) \in Nat
    BY <1>5, ConcatOccurrences
  <2>6. Occurrences(step, full.trace)
          = IF passes THEN Cardinality(Failed(RunIn(Reference.trace))) ELSE 0
    BY <1>9, <1>13, <2>3, <2>4, <2>5
  <2> QED BY <2>6 DEF Failed, full, passes, step, snapshot
<1> QED
  BY <1>2, <1>12, <1>13

\* The property's way to say that nothing stops a dead letter.
LEMMA PassesIs ==
  ASSUME NEW reg, ProperRegistry(reg), NEW verdict
  PROVE  LET typed == IF DeadLetter \in DOMAIN reg.slots THEN reg.slots[DeadLetter].middlewares
                      ELSE <<>>
         IN Passes(RegistrySnapshotOf(reg), verdict)
              <=> \A mw \in ToSet(reg.globals \o typed) : verdict[mw.id] = "accept"
<1> DEFINE snapshot == RegistrySnapshotOf(reg)
           M == SlotOf(snapshot, DeadLetter).middlewares
           typed == IF DeadLetter \in DOMAIN reg.slots THEN reg.slots[DeadLetter].middlewares
                    ELSE <<>>
<1>1. M = typed
  <2>1. DeadLetter \notin DOMAIN reg.slots => M = <<>>
    BY SlotFound DEF NoSlot
  <2>2. DeadLetter \in DOMAIN reg.slots => M = reg.slots[DeadLetter].middlewares
    BY SlotFound
  <2> QED BY <2>1, <2>2
<1>2. snapshot.globals = reg.globals /\ reg.globals \in Mws /\ M \in Mws
  BY SnapshotIsOK DEF SnapshotOK, RegistrySnapshotOf
<1> HIDE DEF snapshot, typed
<1>3. ToSet(reg.globals \o typed) = ToSet(reg.globals) \cup ToSet(typed)
  BY <1>1, <1>2, ConcatMembers DEF Mws
<1>4. Passes(snapshot, verdict)
        <=> /\ \A mw \in ToSet(reg.globals) : verdict[mw.id] = "accept"
            /\ \A mw \in ToSet(typed) : verdict[mw.id] = "accept"
  BY <1>1, <1>2 DEF Passes, Blocks, ToSet
<1> QED
  BY <1>3, <1>4 DEF snapshot, typed

-----------------------------------------------------------------------------
(* The publish call                                                        *)

(* A publish that is done has done what Publish says.                      *)
Published ==
  /\ input \in Inputs
  /\ done => outcome = Publish(RegistrySnapshotOf(input.registry), input)

\* Always.
LEMMA PublishedHolds == Spec => []Published
<1>1. Init => Published
  BY DEF Init, Published
<1>2. Published /\ [Next]_vars => Published'
  BY DEF Published, Next, PublishCall, vars
<1> QED
  BY <1>1, <1>2, PTL DEF Spec

\* Whichever path publish takes, for any registry that calls can make, any
\* verdicts of the middlewares and any failures, the event meets the middlewares,
\* is spawned and is run as in the plain pipeline, and the result is the same.
THEOREM PathsAgreeHolds == Spec => []PathsAgree
<1>1. Published => PathsAgree
  <2> SUFFICES ASSUME Published, done PROVE PathsAgree
    BY DEF PathsAgree
  <2>1. ProperRegistry(input.registry)
    BY InputsAssumption DEF Published
  <2>2. outcome = DispatchWithSnapshot(RegistrySnapshotOf(input.registry), input)
    BY <2>1, FastPathsAreFull DEF Published
  <2> QED BY <2>1, <2>2, FullIsPlain DEF PathsAgree
<1> QED
  BY <1>1, PublishedHolds, PTL

\* Every dead-letter listener gets a letter for every sync listener that ran,
\* failed and has dead letters on, however many these are, and none at all when a
\* middleware stops the dead letter or the event.
THEOREM LettersFollow == Spec => []LettersFollowFailures
<1>1. Published => LettersFollowFailures
  <2> SUFFICES ASSUME Published, done PROVE LettersFollowFailures
    BY DEF LettersFollowFailures
  <2>1. ProperRegistry(input.registry)
    BY InputsAssumption DEF Published
  <2>2. outcome = DispatchWithSnapshot(RegistrySnapshotOf(input.registry), input)
    BY <2>1, FastPathsAreFull DEF Published
  <2>3. ASSUME NEW l \in input.registry.deadLetters
        PROVE  Occurrences(<<"letter", l.id>>, outcome.trace)
                 = IF Passes(RegistrySnapshotOf(input.registry), input.letterVerdict)
                   THEN Cardinality((RunIn(Reference.trace) \cap input.fails) \ input.quiet)
                   ELSE 0
    BY <2>1, <2>2, FullLetters
  <2> QED BY <2>1, <2>3, PassesIs DEF LettersFollowFailures, RunIn
<1> QED
  BY <1>1, PublishedHolds, PTL
=============================================================================
