----------------------------- MODULE MCPipeline -----------------------------
(* The instance of Pipeline that TLC checks: every registry with up to two *)
(* global and two typed middlewares, a middleware on dead letters, and     *)
(* sync, async and dead-letter listeners, with every verdict and failure.  *)
EXTENDS Pipeline

CONSTANT E

Kinds == {"sync", "async"}

\* The kinds of at most n middlewares, in order.
KindSeqs(n) == UNION {[1 .. k -> Kinds] : k \in 0 .. n}

Globals(kinds) ==
  FoldLeft(LAMBDA reg, i : AddGlobalMiddleware(reg, Middleware(i, kinds[i])),
           NewRegistry, [i \in DOMAIN kinds |-> i])

AddTyped(reg, type, first, kinds) ==
  FoldLeft(LAMBDA r, i : AddTypedMiddleware(r, type, Middleware(first + i, kinds[i])),
           reg, [i \in DOMAIN kinds |-> i])

\* No listener, each kind alone, an order turned by priority, ties, and both kinds.
ListenerChoices ==
  {{},
   {Listener(8, "async", 0)},
   {Listener(6, "sync", 0)},
   {Listener(6, "sync", 0), Listener(7, "sync", 1)},
   {Listener(6, "sync", 0), Listener(7, "sync", 0), Listener(8, "async", 0)},
   {Listener(6, "sync", 0), Listener(8, "async", 0), Listener(9, "async", 0)}}

AddAll(reg, type, listeners) ==
  FoldLeft(LAMBDA r, l : AddListener(r, type, l), reg, SetToSeq(listeners))

Registries ==
  {AddAll(AddAll(AddTyped(AddTyped(Globals(g), E, 2, t), DeadLetter, 4, d), E, ls),
          DeadLetter, dls) :
     g \in KindSeqs(2), t \in KindSeqs(2), d \in KindSeqs(1),
     ls \in ListenerChoices, dls \in {{}, {Listener(10, "sync", 0)}}}

\* Ids 1 and 2 are global, 3 and 4 typed, 5 is on dead letters.
Reject(ids) == [i \in 1 .. 5 |-> IF i \in ids THEN "reject" ELSE "accept"]

Verdicts == {Reject(ids) : ids \in {r \in SUBSET (1 .. 4) : Cardinality(r) <= 2}}

LetterVerdicts == {Reject({}), Reject({2}), Reject({5})}

MCInputs ==
  [registry : Registries, verdict : Verdicts, letterVerdict : LetterVerdicts,
   fails : SUBSET {6, 7}, quiet : {{}, {7}}]
=============================================================================
