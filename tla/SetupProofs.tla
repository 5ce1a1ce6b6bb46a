----------------------------- MODULE SetupProofs -----------------------------
(***************************************************************************)
(* Proofs about what is put around the bus.  Of BusBuilder, for any        *)
(* functions and attributes: both macro crates agree, and a bus that is    *)
(* handed over has every listener as it was written.  Of TestBus, for any  *)
(* number of captures and events: a buffer misses nothing and has nothing  *)
(* twice.                                                                  *)
(***************************************************************************)
EXTENDS TestBus, BusBuilder, SequenceTheorems, TLAPS

-----------------------------------------------------------------------------
(* Test utilities                                                          *)

CaptureStates == {"idle", "insert", "subscribe", "ok", "failed"}

TypeOK ==
  /\ current \in Captures \cup {NoBuffer}
  /\ handlers \in SUBSET Captures
  /\ content \in [Captures -> [Events -> Nat]]
  /\ pc \in [Captures -> CaptureStates]
  /\ publishing \in [Events -> {"new", "running", "done"}]
  /\ todo \in [Events -> SUBSET Captures]
  /\ due \in SUBSET Events

(* A handler that an event has still to run has not seen it, and a buffer  *)
(* has one handler, which runs once for an event.                          *)
AtMostOnce ==
  \A b \in Captures, e \in Events :
    /\ content[b][e] <= 1
    /\ publishing[e] = "new" \/ b \in todo[e] => content[b][e] = 0
    /\ publishing[e] # "running" => todo[e] = {}

(* The buffer in the map is that of a capture which has inserted it, and   *)
(* has a handler if that capture returned.                                 *)
CurrentBegun ==
  /\ current = NoBuffer => \A c \in Captures : pc[c] \in {"idle", "insert"}
  /\ current # NoBuffer => /\ pc[current] \in {"subscribe", "ok", "failed"}
                           /\ pc[current] = "ok" => current \in handlers

(* Once the captures are quiet the buffer in the map is the last: each     *)
(* later capture finds it.  An event that is due is in it or on its way.   *)
QuietForGood ==
  due # {} =>
    /\ Unreturned = {} /\ current # NoBuffer
    /\ \A e \in due : /\ publishing[e] # "new"
                      /\ current \notin todo[e] => content[current][e] = 1

IInv == TypeOK /\ AtMostOnce /\ CurrentBegun /\ QuietForGood

\* Nothing is captured or published at first.
LEMMA InitInv == Init => IInv
BY CapturesAssumption DEF Init, IInv, TypeOK, CaptureStates, AtMostOnce, CurrentBegun, QuietForGood

\* Every step of capture keeps IInv.
LEMMA CaptureKeeps ==
  ASSUME IInv, NEW c \in Captures, Capture(c)
  PROVE  IInv'
<1> USE CapturesAssumption DEF IInv, CaptureStates, Goto, captureVars, eventVars, Capture
<1>1. TypeOK'
  BY DEF TypeOK, Check, Insert, Subscribe, Abandon
<1>2. AtMostOnce'
  BY DEF AtMostOnce
<1>3. CurrentBegun'
  BY DEF TypeOK, CurrentBegun, Check, Insert, Subscribe, Abandon
<1>4. QuietForGood'
  <2> SUFFICES ASSUME due # {} PROVE QuietForGood'
    BY DEF QuietForGood
  <2>1. Unreturned = {} /\ current # NoBuffer
    BY DEF QuietForGood
  <2>2. pc[c] \notin {"insert", "subscribe"}
    BY <2>1 DEF Unreturned
  <2>3. Check(c)
    BY <2>2 DEF Insert, Subscribe, Abandon
  <2>4. Unreturned' = {}
    BY <2>1, <2>3 DEF TypeOK, Check, Unreturned
  <2> QED BY <2>1, <2>3, <2>4 DEF QuietForGood, Check
<1> QED
  BY <1>1, <1>2, <1>3, <1>4

\* Every step of publish keeps IInv.
LEMMA PublishKeeps ==
  ASSUME IInv, NEW e \in Events, Publish(e)
  PROVE  IInv'
<1> USE CapturesAssumption DEF IInv, CaptureStates, captureVars, Publish
<1>1. TypeOK'
  <2>1. CASE PublishStart(e) \/ PublishEnd(e)
    BY <2>1 DEF TypeOK, PublishStart, PublishEnd
  <2>2. ASSUME NEW b \in Captures, Handle(e, b) PROVE TypeOK'
    <3>1. content' \in [Captures -> [Events -> Nat]]
      BY <2>2 DEF TypeOK, Handle
    <3> QED BY <2>2, <3>1 DEF TypeOK, Handle
  <2> QED BY <2>1, <2>2
<1>2. AtMostOnce'
  BY DEF TypeOK, AtMostOnce, PublishStart, PublishEnd, Handle
<1>3. CurrentBegun'
  BY DEF CurrentBegun
<1>4. Unreturned' = Unreturned
  BY DEF Unreturned
<1>5. CASE PublishStart(e)
  <2>1. ASSUME Unreturned = {}, Returned # {} PROVE current # NoBuffer /\ current \in handlers
    BY <2>1 DEF Unreturned, Returned, TypeOK, CurrentBegun
  <2>2. due' # {} => Unreturned = {} /\ current # NoBuffer
    BY <1>5, <2>1 DEF PublishStart, QuietForGood
  <2>3. ASSUME NEW d \in due'
        PROVE  /\ publishing'[d] # "new"
               /\ current \notin todo'[d] => content'[current][d] = 1
    <3>1. CASE d \in due /\ d # e
      BY <1>5, <3>1 DEF PublishStart, QuietForGood, TypeOK
    <3>2. CASE d = e
      BY <1>5, <2>1, <2>3, <3>2 DEF PublishStart, QuietForGood, TypeOK
    <3> QED BY <1>5, <2>3, <3>1, <3>2 DEF PublishStart
  <2> QED BY <1>1, <1>2, <1>3, <1>4, <2>2, <2>3 DEF QuietForGood
<1>6. CASE PublishEnd(e)
  BY <1>1, <1>2, <1>3, <1>4, <1>6 DEF PublishEnd, QuietForGood, TypeOK
<1>7. ASSUME NEW b \in Captures, Handle(e, b) PROVE IInv'
  <2>1. content[b][e] = 0
    BY <1>7 DEF Handle, AtMostOnce
  <2>2. QuietForGood'
    BY <1>4, <1>7, <2>1 DEF Handle, QuietForGood, TypeOK
  <2> QED BY <1>1, <1>2, <1>3, <2>2
<1> QED
  BY <1>5, <1>6, <1>7

\* IInv is invariant.
LEMMA Invariance == Spec => []IInv
<1>1. IInv /\ [Next]_vars => IInv'
  <2> SUFFICES ASSUME IInv, [Next]_vars PROVE IInv'
    OBVIOUS
  <2>1. CASE Stop \/ UNCHANGED vars
    BY <2>1 DEF Stop, vars, captureVars, eventVars, IInv, TypeOK, AtMostOnce, CurrentBegun,
       QuietForGood, Unreturned
  <2> QED BY <2>1, CaptureKeeps, PublishKeeps DEF Next
<1> QED
  BY <1>1, InitInv, PTL DEF Spec

-----------------------------------------------------------------------------
(* Theorems *)

\* However captures race, published returns no event twice.
THEOREM NoDuplicates == Spec => []NeverTwice
<1>1. IInv => NeverTwice
  BY DEF IInv, TypeOK, AtMostOnce, NeverTwice, Captured
<1> QED
  BY <1>1, Invariance, PTL

\* What is published after every capture has returned is captured for good.
THEOREM Complete == Spec => []CompleteOnceQuiet
<1>1. IInv => CompleteOnceQuiet
  BY DEF IInv, TypeOK, AtMostOnce, QuietForGood, CompleteOnceQuiet, Captured
<1> QED
  BY <1>1, Invariance, PTL

-----------------------------------------------------------------------------
(* Builder and macros                                                      *)

(* The attributes are options of what the parser takes.                    *)
Options == {<<>>} \cup UNION {Literals[k] : k \in Keys}

AttributesParsed ==
  /\ own \in [f : Functions, a : [Keys -> Options]]
  /\ Declared(own)

(* What macros and compiler let through, and the listeners it makes.       *)
Accepted   == {d \in {own} \cup Companions : Declared(d) /\ Accepts(d)}
Registered == {ListenerOf(Registration(d)) : d \in Accepted}
Supplied(d) == \A i \in DOMAIN Wrappers(d.f) : Wrappers(d.f)[i].type \in supplied

Collected ==
  /\ eventHandlers \in Seq(Accepted) /\ deadLetterHandlers \in Seq(Accepted)
  /\ ~plugin =>
       /\ \A i \in 1 .. Len(eventHandlers) : ~ForDeadLetters(eventHandlers[i])
       /\ \A i \in 1 .. Len(deadLetterHandlers) : ForDeadLetters(deadLetterHandlers[i])
  /\ stage = "attributes" => eventHandlers = <<>> /\ deadLetterHandlers = <<>>

(* The bus has the first of the declared listeners, the queue the others.  *)
BusAndQueue ==
  /\ limit # <<0>>
  /\ queue \in Seq(Accepted) /\ bus \in Seq(Registered)
  /\ Len(bus) + Len(queue) = Len(Order)
  /\ \A i \in 1 .. Len(queue) : queue[i] = Order[Len(bus) + i]
  /\ \A i \in 1 .. Len(bus), d \in Accepted :
       d = Order[i] => bus[i] = ListenerOf(Registration(d)) /\ Supplied(d)

BuilderInv ==
  /\ plugin \in BOOLEAN
  /\ stage \in {"attributes", "rejected", "collecting", "registering", "built", "failed"}
  /\ AttributesParsed /\ Collected
  /\ stage \in {"attributes", "rejected", "collecting"} => bus = <<>> /\ visible = FALSE
  /\ stage \in {"registering", "built"} => BusAndQueue
  /\ stage = "built" => queue = <<>>
  /\ stage = "failed" => 
       limit = <<0>> \/ \E i \in 1 .. Len(Order), d \in Accepted : d = Order[i] /\ ~Supplied(d)
  /\ visible /\ ~plugin => stage = "built"

\* The macros agree on every declaration whose attributes the parser takes.
LEMMA SameRules ==
  ASSUME NEW f, NEW a, f.async \in BOOLEAN,
         a.retry_strategy \in {<<>>, <<"fixed">>, <<"exponential">>, <<"exponential_jitter">>},
         \A i \in DOMAIN f.rest : f.rest[i].pattern = "tuple" \/ f.rest[i].kind = "bus"
  PROVE  ExpandEventListener(f, a) <=> ExpandHandler(f, a) \/ ExpandDeadLetterHandler(f, a)
<1>1. ParseStateParams(f) <=> ParseDepParams(f)
  BY DEF ParseStateParams, ParseDepParams
<1>2. HasRetryStrategyAttrs(a) => HasSubscriptionPolicy(a)
  BY DEF HasRetryStrategyAttrs, HasSubscriptionPolicy, PolicyKeys
<1>3. IsSome(a.retries) => HasSubscriptionPolicy(a)
  BY DEF HasSubscriptionPolicy, PolicyKeys
<1>4. IsSome(a.priority) => HasSubscriptionPolicy(a)
  BY DEF HasSubscriptionPolicy, PolicyKeys
<1>5. IsSome(a.retry_base_ms) \/ IsSome(a.retry_max_ms) \/ IsSome(a.retry_strategy)
        => HasRetryStrategyAttrs(a)
  BY DEF HasRetryStrategyAttrs, StrategyKeys
<1>6. a.retry_strategy # <<>> <=> IsSome(a.retry_strategy)
  BY DEF IsSome
<1>7. <<>> # <<"fixed">> /\ <<>> # <<"exponential">> /\ <<>> # <<"exponential_jitter">>
  OBVIOUS
<1> HIDE DEF IsSome, HasRetryStrategyAttrs, HasSubscriptionPolicy
<1>8. CASE f.first = "DeadLetter"
  BY <1>1, <1>2, <1>3, <1>4, <1>5, <1>6, <1>7, <1>8
     DEF ExpandEventListener, ExpandHandler, ExpandDeadLetterHandler
<1>9. CASE f.first # "DeadLetter"
  BY <1>1, <1>2, <1>3, <1>4, <1>5, <1>6, <1>7, <1>9
     DEF ExpandEventListener, ExpandHandler, ExpandDeadLetterHandler
<1> QED BY <1>8, <1>9

\* gen_subscription_policy of both crates gives the same policy where a delay that the
\* strategy needs is there.
LEMMA SamePolicy ==
  ASSUME NEW f, NEW a,
         a.retry_strategy \in {<<>>, <<"fixed">>, <<"exponential">>, <<"exponential_jitter">>},
         ExpandHandler(f, a)
  PROVE  ListenerPolicy(f, a) = HandlerPolicy(f, a)
<1>1. a.retry_strategy = <<"fixed">> => a.retry_base_ms # <<>>
  BY DEF ExpandHandler, IsSome
<1>2. a.retry_strategy \in {<<"exponential">>, <<"exponential_jitter">>}
        => a.retry_base_ms # <<>> /\ a.retry_max_ms # <<>>
  BY DEF ExpandHandler, IsSome
<1>3. ListenerStrategy(a) = HandlerStrategy(a)
  <2>1. CASE a.retry_strategy = <<>>
    BY <2>1 DEF ListenerStrategy, HandlerStrategy
  <2>2. CASE a.retry_strategy = <<"fixed">>
    BY <2>2, <1>1 DEF ListenerStrategy, HandlerStrategy, UnwrapOr, IsSome
  <2>3. CASE a.retry_strategy \in {<<"exponential">>, <<"exponential_jitter">>}
    BY <2>3, <1>2 DEF ListenerStrategy, HandlerStrategy, UnwrapOr, IsSome
  <2> QED BY <2>1, <2>2, <2>3
<1> QED BY <1>3 DEF ListenerPolicy, HandlerPolicy

LEMMA SameRegistration ==
  ASSUME NEW f, NEW a, f.async \in BOOLEAN,
         a.retry_strategy \in {<<>>, <<"fixed">>, <<"exponential">>, <<"exponential_jitter">>}
  PROVE  /\ ~(ExpandHandler(f, a) /\ ExpandDeadLetterHandler(f, a))
         /\ ExpandHandler(f, a) => ListenerRegistrar(f, a) = HandlerDescriptor(f, a)
         /\ ExpandDeadLetterHandler(f, a) => ListenerRegistrar(f, a) = DeadLetterDescriptor(f, a)
<1>1. ~(ExpandHandler(f, a) /\ ExpandDeadLetterHandler(f, a))
  BY DEF ExpandHandler, ExpandDeadLetterHandler
<1>2. ASSUME ExpandHandler(f, a) PROVE ListenerRegistrar(f, a) = HandlerDescriptor(f, a)
  <2>1. f.first # "DeadLetter"
    BY <1>2 DEF ExpandHandler
  <2>2. ListenerPolicy(f, a) = HandlerPolicy(f, a)
    BY <1>2, SamePolicy
  <2> QED BY <2>1, <2>2 DEF ListenerRegistrar, HandlerDescriptor
<1>3. ASSUME ExpandDeadLetterHandler(f, a) PROVE ListenerRegistrar(f, a) = DeadLetterDescriptor(f, a)
  <2>1. f.first = "DeadLetter" /\ f.async = FALSE
    BY <1>3 DEF ExpandDeadLetterHandler
  <2> QED BY <2>1 DEF ListenerRegistrar, DeadLetterDescriptor
<1> QED BY <1>1, <1>2, <1>3

(* The strategy that InForce asks for.                                     *)
StrategyOf(a) ==
  CASE a.retry_strategy = <<>> -> <<>>
    [] a.retry_strategy = <<"fixed">> -> a.retry_strategy \o a.retry_base_ms
    [] OTHER -> a.retry_strategy \o a.retry_base_ms \o a.retry_max_ms

\* Two or three options that are there are a tuple.
LEMMA Joined ==
  ASSUME NEW w, NEW x, NEW y
  PROVE  <<w>> \o <<x>> = <<w, x>> /\ <<w>> \o <<x>> \o <<y>> = <<w, x, y>>
<1>1. <<w>> \o <<x>> = <<w, x>>
  <2> DEFINE c == <<w>> \o <<x>>
  <2>1. /\ <<w>> \in Seq({w, x}) /\ <<x>> \in Seq({w, x}) /\ <<w, x>> \in Seq({w, x})
        /\ Len(<<w>>) = 1 /\ Len(<<x>>) = 1 /\ Len(<<w, x>>) = 2
    OBVIOUS
  <2>2. /\ c \in Seq({w, x}) /\ Len(c) = 2
        /\ \A i \in 1 .. 2 : c[i] = IF i <= 1 THEN <<w>>[i] ELSE <<x>>[i - 1]
    BY <2>1, ConcatProperties
  <2>3. c[1] = w /\ c[2] = x
    BY <2>2
  <2> HIDE DEF c
  <2>4. \A i \in 1 .. Len(c) : c[i] = <<w, x>>[i]
    BY <2>2, <2>3
  <2> QED BY <2>1, <2>2, <2>4, SeqEqual DEF c
<1>2. <<w, x>> \o <<y>> = <<w, x, y>>
  <2> DEFINE c == <<w, x>> \o <<y>>
             T == {w, x, y}
  <2>1. /\ <<w, x>> \in Seq(T) /\ <<y>> \in Seq(T) /\ <<w, x, y>> \in Seq(T)
        /\ Len(<<w, x>>) = 2 /\ Len(<<y>>) = 1 /\ Len(<<w, x, y>>) = 3
    OBVIOUS
  <2> HIDE DEF T
  <2>2. /\ c \in Seq(T) /\ Len(c) = 3
        /\ \A i \in 1 .. 3 : c[i] = IF i <= 2 THEN <<w, x>>[i] ELSE <<y>>[i - 2]
    BY <2>1, ConcatProperties
  <2>3. c[1] = w /\ c[2] = x /\ c[3] = y
    BY <2>2
  <2> HIDE DEF c
  <2>4. \A i \in 1 .. Len(c) : c[i] = <<w, x, y>>[i]
    BY <2>2, <2>3
  <2> QED BY <2>1, <2>2, <2>4, SeqEqual DEF c
<1> QED BY <1>1, <1>2

\* The strategy is made of the attributes that were written.
LEMMA StrategyWritten ==
  ASSUME NEW f, NEW a,
         a.retry_strategy \in {<<>>, <<"fixed">>, <<"exponential">>, <<"exponential_jitter">>},
         a.retry_base_ms = <<>> \/ a.retry_base_ms = <<a.retry_base_ms[1]>>,
         a.retry_max_ms = <<>> \/ a.retry_max_ms = <<a.retry_max_ms[1]>>,
         ExpandEventListener(f, a) \/ ExpandHandler(f, a)
  PROVE  ListenerStrategy(a) = StrategyOf(a)
<1>1. a.retry_strategy = <<"fixed">> => a.retry_base_ms # <<>>
  BY DEF ExpandHandler, ExpandEventListener, IsSome
<1>2. a.retry_strategy \in {<<"exponential">>, <<"exponential_jitter">>}
        => a.retry_base_ms # <<>> /\ a.retry_max_ms # <<>>
  BY DEF ExpandHandler, ExpandEventListener, IsSome
<1>3. CASE a.retry_strategy = <<>>
  <2>1. <<>> # <<"fixed">>
    OBVIOUS
  <2> QED BY <1>3, <2>1, Zenon DEF ListenerStrategy, StrategyOf
<1>4. CASE a.retry_strategy = <<"fixed">>
  <2>1. ListenerStrategy(a) = <<"fixed", a.retry_base_ms[1]>>
    BY <1>1, <1>4 DEF ListenerStrategy, UnwrapOr, IsSome
  <2>2. a.retry_strategy \o a.retry_base_ms = <<"fixed", a.retry_base_ms[1]>>
    BY <1>1, <1>4, Joined, Zenon
  <2>3. a.retry_strategy # <<>>
    BY <1>4
  <2> QED BY <1>4, <2>1, <2>2, <2>3, Zenon DEF StrategyOf
<1>5. CASE a.retry_strategy \in {<<"exponential">>, <<"exponential_jitter">>}
  <2>1. ListenerStrategy(a) = <<a.retry_strategy[1], a.retry_base_ms[1], a.retry_max_ms[1]>>
    BY <1>2, <1>5 DEF ListenerStrategy, UnwrapOr, IsSome
  <2>2. a.retry_strategy \o a.retry_base_ms \o a.retry_max_ms =
          <<a.retry_strategy[1], a.retry_base_ms[1], a.retry_max_ms[1]>>
    <3> DEFINE w == a.retry_strategy[1]
               x == a.retry_base_ms[1]
               y == a.retry_max_ms[1]
    <3>1. a.retry_strategy = <<w>>
      BY <1>5
    <3>2. a.retry_base_ms = <<x>> /\ a.retry_max_ms = <<y>>
      BY <1>2, <1>5
    <3> HIDE DEF w, x, y
    <3>3. <<w>> \o <<x>> \o <<y>> = <<w, x, y>>
      BY Joined
    <3>4. a.retry_strategy \o a.retry_base_ms \o a.retry_max_ms = <<w, x, y>>
      BY <3>1, <3>2, <3>3, Zenon
    <3> QED BY <3>4 DEF w, x, y
  <2>3. a.retry_strategy # <<>> /\ a.retry_strategy # <<"fixed">>
    BY <1>5
  <2> QED BY <2>1, <2>2, <2>3, Zenon DEF StrategyOf
<1> QED BY <1>3, <1>4, <1>5

\* A declaration that was accepted gets the listener that its attributes ask for.
LEMMA ListenerAsWritten ==
  ASSUME plugin \in BOOLEAN, NEW d \in Accepted
  PROVE  /\ InForce(d, ListenerOf(Registration(d)))
         /\ ~plugin => (ForDeadLetters(d) <=> ListenerOf(Registration(d)).event = "DeadLetter")
         /\ Registration(d).needs = Wrappers(d.f)
<1> DEFINE reg == Registration(d)
           listener == ListenerOf(reg)
<1>1. Declared(d) /\ Accepts(d)
  BY DEF Accepted
<1>2. d.f.async \in BOOLEAN
  BY <1>1 DEF Declared
<1>3. \A k \in Keys : d.a[k] = <<>> \/ d.a[k] = <<d.a[k][1]>>
  BY <1>1, DeclarationsAssumption DEF Declared
<1>4. /\ d.a.retry_strategy \in {<<>>, <<"fixed">>, <<"exponential">>, <<"exponential_jitter">>}
      /\ d.a.dead_letter \in {<<>>, <<TRUE>>, <<FALSE>>}
      /\ d.a.retry_base_ms = <<>> \/ d.a.retry_base_ms = <<d.a.retry_base_ms[1]>>
      /\ d.a.retry_max_ms = <<>> \/ d.a.retry_max_ms = <<d.a.retry_max_ms[1]>>
  BY <1>1, <1>3, DeclarationsAssumption DEF Declared, Keys, PolicyKeys, StrategyKeys
<1>5. CASE d.f.first = "DeadLetter"
  <2>1. d.f.async = FALSE
    BY <1>1, <1>2, <1>5 DEF Accepts, ExpandEventListener, ExpandHandler, ExpandDeadLetterHandler
  <2>2. ~ExpandHandler(d.f, d.a)
    BY <1>5 DEF ExpandHandler
  <2>3. /\ reg.call = "subscribe_dead_letters" /\ reg.event = "DeadLetter"
        /\ reg.async = FALSE /\ reg.needs = Wrappers(d.f)
    <3>1. CASE plugin
      BY <3>1, <1>5, <2>1 DEF Registration, ListenerRegistrar
    <3>2. CASE ~plugin
      BY <3>2, <2>2 DEF Registration, DeadLetterDescriptor
    <3> QED BY <3>1, <3>2
  <2>4. PolicyOf(reg) = [priority |-> 0, dead_letter |-> FALSE]
    BY <2>3 DEF PolicyOf
  <2>5. listener.event = "DeadLetter" /\ listener.async = FALSE /\ listener.policy.dead_letter = FALSE
    BY <2>3, <2>4 DEF ListenerOf
  <2> QED BY <2>3, <2>5 DEF InForce, ForDeadLetters
<1>6. CASE d.f.first # "DeadLetter"
  <2>1. IF plugin THEN ExpandEventListener(d.f, d.a) ELSE ExpandHandler(d.f, d.a)
    BY <1>1, <1>6 DEF Accepts, ExpandDeadLetterHandler
  <2> DEFINE written == HasSubscriptionPolicy(d.a)
  <2>2. /\ reg.call = (IF written THEN "subscribe_with_policy" ELSE "subscribe")
        /\ reg.event = d.f.first /\ reg.async = d.f.async /\ reg.needs = Wrappers(d.f)
        /\ written => reg.policy[1] = (IF plugin THEN ListenerPolicy(d.f, d.a) ELSE HandlerPolicy(d.f, d.a))
    <3>1. CASE plugin
      BY <3>1, <1>6 DEF Registration, ListenerRegistrar
    <3>2. CASE ~plugin
      BY <3>2, <2>1 DEF Registration, HandlerDescriptor
    <3> QED BY <3>1, <3>2
  <2>3. /\ listener.event = d.f.first /\ listener.async = d.f.async
        /\ listener.policy = PolicyOf(reg)
    BY <2>2 DEF ListenerOf
  <2>4. ~written => listener.policy = IF d.f.async THEN defaults.policy ELSE defaults.sync_policy
    BY <2>2, <2>3 DEF PolicyOf
  <2>5. written => listener.policy = IF plugin THEN ListenerPolicy(d.f, d.a) ELSE HandlerPolicy(d.f, d.a)
    BY <2>2, <2>3 DEF PolicyOf
  <2>6. UnwrapOr(d.a.dead_letter, TRUE) = (d.a.dead_letter # <<FALSE>>)
    <3>1. CASE d.a.dead_letter = <<>>
      <4>1. UnwrapOr(d.a.dead_letter, TRUE) = TRUE
        BY <3>1, Zenon DEF UnwrapOr, IsSome
      <4>2. <<>> # <<FALSE>>
        OBVIOUS
      <4> QED BY <3>1, <4>1, <4>2, Zenon
    <3>2. ASSUME NEW b \in BOOLEAN, d.a.dead_letter = <<b>>
          PROVE  UnwrapOr(d.a.dead_letter, TRUE) = (d.a.dead_letter # <<FALSE>>)
      <4>1. <<b>> # <<>> /\ <<b>>[1] = b /\ (<<b>> = <<FALSE>> <=> ~b)
        OBVIOUS
      <4>2. UnwrapOr(<<b>>, TRUE) = b
        BY <4>1, Zenon DEF UnwrapOr, IsSome
      <4> QED BY <3>2, <4>1, <4>2, Zenon
    <3> QED BY <1>4, <3>1, <3>2, Zenon
  <2> HIDE DEF listener
  <2>7. written => listener.policy = ListenerPolicy(d.f, d.a)
    <3>1. ASSUME ~plugin PROVE ListenerPolicy(d.f, d.a) = HandlerPolicy(d.f, d.a)
      BY <2>1, <3>1, <1>4, SamePolicy
    <3> QED BY <2>5, <3>1
  <2>8. written /\ ~d.f.async =>
          /\ listener.policy.priority = UnwrapOr(d.a.priority, 0)
          /\ listener.policy.dead_letter = UnwrapOr(d.a.dead_letter, TRUE)
    <3> HIDE DEF written
    <3> DEFINE q == UnwrapOr(d.a.priority, 0)
               b == UnwrapOr(d.a.dead_letter, TRUE)
    <3>1. ~d.f.async => ListenerPolicy(d.f, d.a) = [priority |-> q, dead_letter |-> b]
      BY Zenon DEF ListenerPolicy
    <3> HIDE DEF q, b
    <3>2. written /\ ~d.f.async => listener.policy.priority = q /\ listener.policy.dead_letter = b
      BY <2>7, <3>1
    <3> QED BY <3>2 DEF q, b
  <2>9. written /\ d.f.async =>
          /\ listener.policy.max_retries = UnwrapOr(d.a.retries, 0)
          /\ listener.policy.retry_strategy = ListenerStrategy(d.a)
          /\ listener.policy.dead_letter = UnwrapOr(d.a.dead_letter, TRUE)
    <3> HIDE DEF written
    <3> DEFINE n == UnwrapOr(d.a.retries, 0)
               s == ListenerStrategy(d.a)
               b == UnwrapOr(d.a.dead_letter, TRUE)
    <3>1. d.f.async => ListenerPolicy(d.f, d.a) =
                         [max_retries |-> n, retry_strategy |-> s, dead_letter |-> b]
      BY Zenon DEF ListenerPolicy
    <3> HIDE DEF n, s, b
    <3>2. written /\ d.f.async =>
            /\ listener.policy.max_retries = n /\ listener.policy.retry_strategy = s
            /\ listener.policy.dead_letter = b
      BY <2>7, <3>1
    <3> QED BY <3>2 DEF n, s, b
  <2>10. ListenerStrategy(d.a) = StrategyOf(d.a)
    <3>1. ExpandEventListener(d.f, d.a) \/ ExpandHandler(d.f, d.a)
      BY <2>1
    <3> QED BY <3>1, <1>4, StrategyWritten
  <2>11. written =>
           /\ listener.policy.dead_letter = (d.a.dead_letter # <<FALSE>>)
           /\ ~d.f.async => listener.policy.priority = UnwrapOr(d.a.priority, 0)
           /\ d.f.async => /\ listener.policy.max_retries = UnwrapOr(d.a.retries, 0)
                           /\ listener.policy.retry_strategy = StrategyOf(d.a)
    <3>1. written => listener.policy.dead_letter = UnwrapOr(d.a.dead_letter, TRUE)
      BY <2>8, <2>9
    <3> QED BY <3>1, <2>6, <2>8, <2>9, <2>10, Zenon
  <2>12. listener.event # "DeadLetter" /\ listener.async = d.f.async
    BY <2>3, <1>6
  <2>13. InForce(d, listener)
    BY <2>4, <2>11, <2>12, Zenon DEF InForce, StrategyOf
  <2>14. ~ForDeadLetters(d)
    BY <2>2 DEF ForDeadLetters
  <2> QED BY <2>2, <2>12, <2>13, <2>14 DEF listener
<1> HIDE DEF reg, listener
<1> QED BY <1>5, <1>6

LEMMA OrderProperties ==
  ASSUME Collected
  PROVE  /\ Order \in Seq(Accepted)
         /\ Len(Order) = Len(eventHandlers) + Len(deadLetterHandlers)
         /\ \A i \in 1 .. Len(Order) :
              Order[i] = IF i <= Len(eventHandlers) THEN eventHandlers[i]
                         ELSE deadLetterHandlers[i - Len(eventHandlers)]
BY ConcatProperties DEF Collected, Order

\* What is accepted does not change any more once the attributes are parsed.
LEMMA AcceptedStays ==
  ASSUME UNCHANGED <<plugin, own>>
  PROVE  Accepted' = Accepted
<1>1. \A d : Accepts(d)' <=> Accepts(d)
  BY DEF Accepts
<1> QED BY <1>1 DEF Accepted

LEMMA BuilderStart == BuilderInit => BuilderInv
<1> SUFFICES ASSUME BuilderInit PROVE BuilderInv
  OBVIOUS
<1> USE DEF BuilderInit
<1>1. own \in [f : Functions, a : [Keys -> Options]]
  <2>1. own.f \in Functions /\ own.a = [k \in Keys |-> <<>>] /\ own = [f |-> own.f, a |-> own.a]
    OBVIOUS
  <2>2. own.a \in [Keys -> Options]
    BY <2>1 DEF Options
  <2> QED BY <2>1, <2>2
<1>2. Declared(own)
  BY DeclarationsAssumption DEF Declared
<1>3. eventHandlers = <<>> /\ deadLetterHandlers = <<>> /\ queue = <<>> /\ bus = <<>>
  OBVIOUS
<1>4. Collected
  BY <1>3 DEF Collected
<1> QED BY <1>1, <1>2, <1>4 DEF BuilderInv, AttributesParsed

\* An attribute that is parsed is one of those the parser takes.
LEMMA PairParsed ==
  ASSUME BuilderInv, NEW k \in Keys, NEW literal \in Literals[k],
         HandlerAttrs(k, literal) \/ ListenerAttrs(k, literal)
  PROVE  BuilderInv'
<1>1. /\ stage = "attributes" /\ stage' \in {"attributes", "rejected"}
      /\ own' = own \/ own' = [own EXCEPT !.a[k] = literal]
      /\ UNCHANGED <<plugin, eventHandlers, deadLetterHandlers, limit, defaults, supplied, queue, bus, visible>>
  BY DEF HandlerAttrs, ListenerAttrs, setVars
<1>2. AttributesParsed'
  <2>1. CASE own' = own
    BY <2>1 DEF BuilderInv, AttributesParsed, Declared
  <2>2. CASE own' = [own EXCEPT !.a[k] = literal]
    <3>1. own \in [f : Functions, a : [Keys -> Options]] /\ Declared(own)
      BY DEF BuilderInv, AttributesParsed
    <3>2. literal \in Options
      BY DEF Options
    <3>3. own'.f = own.f /\ own'.a = [own.a EXCEPT ![k] = literal]
      BY <2>2, <3>1
    <3>4. own' \in [f : Functions, a : [Keys -> Options]]
      BY <2>2, <3>1, <3>2
    <3>5. \A j \in Keys : own'.a[j] = IF j = k THEN literal ELSE own.a[j]
      BY <3>1, <3>3
    <3>6. \A j \in Keys : own'.a[j] = <<>> \/ own'.a[j] \in Literals[j]
      BY <3>1, <3>5 DEF Declared
    <3> QED BY <3>1, <3>3, <3>4, <3>6 DEF AttributesParsed, Declared
  <2> QED BY <1>1, <2>1, <2>2
<1>3. eventHandlers = <<>> /\ deadLetterHandlers = <<>> /\ bus = <<>> /\ visible = FALSE /\ plugin \in BOOLEAN
  BY <1>1 DEF BuilderInv, Collected
<1>4. Collected'
  <2>1. eventHandlers' = <<>> /\ deadLetterHandlers' = <<>>
    BY <1>1, <1>3
  <2> QED BY <2>1 DEF Collected
<1> QED BY <1>1, <1>2, <1>3, <1>4 DEF BuilderInv

LEMMA OnlyStage ==
  ASSUME BuilderInv, UNCHANGED <<plugin, own, eventHandlers, deadLetterHandlers>>, stage' # "attributes"
  PROVE  AttributesParsed' /\ Collected' /\ Accepted' = Accepted /\ Order' = Order /\ plugin' \in BOOLEAN
<1>1. Accepted' = Accepted
  BY AcceptedStays
<1>2. \A d : ForDeadLetters(d)' <=> ForDeadLetters(d)
  BY DEF ForDeadLetters, Registration
<1> QED BY <1>1, <1>2 DEF BuilderInv, AttributesParsed, Declared, Collected, Order

LEMMA ExpandKeeps == BuilderInv /\ Expand => BuilderInv'
<1> SUFFICES ASSUME BuilderInv, Expand PROVE BuilderInv'
  OBVIOUS
<1>1. /\ stage = "attributes" /\ stage' \in {"collecting", "rejected"}
      /\ UNCHANGED <<plugin, own, eventHandlers, deadLetterHandlers, bus, visible>>
  BY DEF Expand, declVars, setVars
<1> QED BY <1>1, OnlyStage DEF BuilderInv

LEMMA AddKeeps ==
  ASSUME BuilderInv, NEW d \in {own} \cup Companions, Add(d)
  PROVE  BuilderInv'
<1>1. /\ stage = "collecting" /\ stage' = "collecting" /\ Accepts(d)
      /\ UNCHANGED <<plugin, own, limit, defaults, supplied, queue, bus, visible>>
  BY DEF Add, setVars
<1>2. Declared(d)
  BY DeclarationsAssumption DEF BuilderInv, AttributesParsed
<1>3. d \in Accepted
  BY <1>1, <1>2 DEF Accepted
<1>4. Accepted' = Accepted /\ AttributesParsed'
  BY <1>1, AcceptedStays DEF BuilderInv, AttributesParsed, Declared
<1>5. \A e : ForDeadLetters(e)' <=> ForDeadLetters(e)
  BY <1>1 DEF ForDeadLetters, Registration
<1>6. eventHandlers \in Seq(Accepted) /\ deadLetterHandlers \in Seq(Accepted)
  BY DEF BuilderInv, Collected
<1>7. /\ eventHandlers' \in Seq(Accepted) /\ deadLetterHandlers' \in Seq(Accepted)
      /\ ~plugin =>
           /\ \A i \in 1 .. Len(eventHandlers') : ~ForDeadLetters(eventHandlers'[i])
           /\ \A i \in 1 .. Len(deadLetterHandlers') : ForDeadLetters(deadLetterHandlers'[i])
  <2>1. CASE ~plugin /\ ForDeadLetters(d)
    <3>1. deadLetterHandlers' = Append(deadLetterHandlers, d) /\ eventHandlers' = eventHandlers
      BY <2>1 DEF Add
    <3>2. /\ deadLetterHandlers' \in Seq(Accepted) /\ Len(deadLetterHandlers') = Len(deadLetterHandlers) + 1
          /\ \A i \in 1 .. Len(deadLetterHandlers') :
               deadLetterHandlers'[i] = IF i <= Len(deadLetterHandlers) THEN deadLetterHandlers[i] ELSE d
      BY <1>3, <1>6, <3>1
    <3> QED BY <1>6, <2>1, <3>1, <3>2 DEF BuilderInv, Collected
  <2>2. CASE ~(~plugin /\ ForDeadLetters(d))
    <3>1. eventHandlers' = Append(eventHandlers, d) /\ deadLetterHandlers' = deadLetterHandlers
      BY <2>2 DEF Add
    <3>2. /\ eventHandlers' \in Seq(Accepted) /\ Len(eventHandlers') = Len(eventHandlers) + 1
          /\ \A i \in 1 .. Len(eventHandlers') :
               eventHandlers'[i] = IF i <= Len(eventHandlers) THEN eventHandlers[i] ELSE d
      BY <1>3, <1>6, <3>1
    <3> QED BY <1>6, <2>2, <3>1, <3>2 DEF BuilderInv, Collected
  <2> QED BY <2>1, <2>2
<1>8. Collected'
  BY <1>1, <1>4, <1>5, <1>7 DEF Collected
<1> QED BY <1>1, <1>4, <1>8 DEF BuilderInv

LEMMA BuildKeeps ==
  ASSUME BuilderInv, NEW max, NEW defs, NEW types, Build(max, defs, types)
  PROVE  BuilderInv'
<1>1. /\ stage = "collecting" /\ stage' \in {"failed", "registering"}
      /\ UNCHANGED <<plugin, own, eventHandlers, deadLetterHandlers, bus>>
      /\ limit' = max /\ bus = <<>> /\ visible = FALSE
  BY DEF Build, declVars, BuilderInv
<1>2. AttributesParsed' /\ Collected' /\ Accepted' = Accepted /\ Order' = Order /\ plugin' \in BOOLEAN
  BY <1>1, OnlyStage
<1>3. CASE max = <<0>>
  <2>1. stage' = "failed" /\ visible' = FALSE /\ limit' = <<0>>
    BY <1>1, <1>3 DEF Build
  <2> QED BY <1>1, <1>2, <2>1 DEF BuilderInv
<1>4. CASE max # <<0>>
  <2>1. stage' = "registering" /\ visible' = plugin /\ limit' # <<0>> /\ queue' = Order /\ bus' = <<>>
    BY <1>1, <1>4 DEF Build
  <2>2. Order \in Seq(Accepted)
    BY OrderProperties DEF BuilderInv
  <2>3. BusAndQueue'
    <3>1. Len(bus') = 0 /\ bus' \in Seq(Registered') /\ Len(Order) \in Nat
      BY <2>1, <2>2
    <3> QED BY <1>2, <2>1, <2>2, <3>1 DEF BusAndQueue
  <2> QED BY <1>1, <1>2, <2>1, <2>3 DEF BuilderInv
<1> QED BY <1>3, <1>4

LEMMA RegisterKeeps == BuilderInv /\ Register => BuilderInv'
<1> SUFFICES ASSUME BuilderInv, Register PROVE BuilderInv'
  OBVIOUS
<1> DEFINE d == Head(queue)
           missing == \E i \in DOMAIN Registration(d).needs :
                        Registration(d).needs[i].type \notin supplied
<1>1. /\ stage = "registering" /\ queue # <<>>
      /\ UNCHANGED <<plugin, own, eventHandlers, deadLetterHandlers, limit, defaults, supplied, visible>>
      /\ IF missing THEN stage' = "failed" /\ UNCHANGED <<queue, bus>>
         ELSE /\ bus' = Append(bus, ListenerOf(Registration(d)))
              /\ queue' = Tail(queue)
              /\ stage' = stage
  BY DEF Register, declVars, setVars
<1>2. BusAndQueue /\ plugin \in BOOLEAN /\ (visible => plugin)
  BY <1>1 DEF BuilderInv
<1>3. queue \in Seq(Accepted) /\ bus \in Seq(Registered) /\ Len(bus) \in Nat /\ Len(queue) \in Nat
  BY <1>2 DEF BusAndQueue
<1>4. d \in Accepted /\ d = queue[1] /\ Len(queue) >= 1
  BY <1>1, <1>3
<1>5. Order[Len(bus) + 1] = d /\ Len(bus) + 1 \in 1 .. Len(Order)
  BY <1>2, <1>3, <1>4 DEF BusAndQueue
<1>6. missing <=> ~Supplied(d)
  BY <1>2, <1>4, ListenerAsWritten DEF Supplied
<1> HIDE DEF missing, d
<1>7. AttributesParsed' /\ Collected' /\ Accepted' = Accepted /\ Order' = Order /\ plugin' \in BOOLEAN
  BY <1>1, OnlyStage
<1>8. \A e : Supplied(e)' <=> Supplied(e)
  BY <1>1 DEF Supplied
<1>9. CASE missing
  <2>1. \E i \in 1 .. Len(Order), e \in Accepted : e = Order[i] /\ ~Supplied(e)
    BY <1>4, <1>5, <1>6, <1>9
  <2>2. (\E i \in 1 .. Len(Order), e \in Accepted : e = Order[i] /\ ~Supplied(e))'
    BY <2>1, <1>7, <1>8
  <2> QED BY <1>1, <1>2, <1>7, <1>9, <2>2 DEF BuilderInv
<1>10. CASE ~missing
  <2> DEFINE listener == ListenerOf(Registration(d))
  <2>1. bus' = Append(bus, listener) /\ queue' = Tail(queue) /\ stage' = "registering"
    BY <1>1, <1>10
  <2>2. \A e : ListenerOf(Registration(e))' = ListenerOf(Registration(e))
    BY <1>1 DEF ListenerOf, PolicyOf, Registration
  <2>3. Registered' = Registered
    BY <1>7, <2>2 DEF Registered
  <2>4. listener \in Registered
    BY <1>4 DEF Registered
  <2> HIDE DEF listener
  <2>5. /\ bus' \in Seq(Registered) /\ Len(bus') = Len(bus) + 1
        /\ \A i \in 1 .. Len(bus') : bus'[i] = IF i <= Len(bus) THEN bus[i] ELSE listener
    BY <1>3, <2>1, <2>4
  <2>6. /\ queue' \in Seq(Accepted) /\ Len(queue') = Len(queue) - 1
        /\ \A i \in 1 .. Len(queue') : queue'[i] = queue[i + 1]
    BY <1>3, <1>4, <2>1
  <2>7. Len(bus') + Len(queue') = Len(Order)
    <3>1. Len(bus) + Len(queue) = Len(Order)
      BY <1>2 DEF BusAndQueue
    <3>2. /\ Len(bus') = Len(bus) + 1 /\ Len(queue') = Len(queue) - 1
          /\ Len(bus) \in Nat /\ Len(queue) \in Nat
      BY <1>3, <2>5, <2>6
    <3> QED BY <3>1, <3>2
  <2>8. \A i \in 1 .. Len(queue') : queue'[i] = Order[Len(bus') + i]
    BY <1>2, <1>3, <2>5, <2>6 DEF BusAndQueue
  <2>9. ASSUME NEW i \in 1 .. Len(bus'), NEW e \in Accepted, e = Order[i]
        PROVE  bus'[i] = ListenerOf(Registration(e)) /\ Supplied(e)
    <3>1. CASE i <= Len(bus)
      <4>1. i \in 1 .. Len(bus) /\ bus'[i] = bus[i]
        BY <1>3, <2>5, <3>1
      <4> QED BY <1>2, <2>9, <4>1 DEF BusAndQueue
    <3>2. CASE i = Len(bus) + 1
      BY <1>3, <1>5, <1>6, <1>10, <2>5, <2>9, <3>2 DEF listener
    <3> QED BY <1>3, <2>5, <3>1, <3>2
  <2>10. (\A i \in 1 .. Len(bus), e \in Accepted :
            e = Order[i] => bus[i] = ListenerOf(Registration(e)) /\ Supplied(e))'
    BY <1>7, <1>8, <2>2, <2>9
  <2>11. limit' # <<0>>
    BY <1>1, <1>2 DEF BusAndQueue
  <2>12. BusAndQueue'
    BY <1>7, <2>3, <2>5, <2>6, <2>7, <2>8, <2>10, <2>11 DEF BusAndQueue
  <2> QED BY <1>1, <1>2, <1>7, <2>1, <2>12 DEF BuilderInv
<1> QED BY <1>9, <1>10

LEMMA BusStays ==
  ASSUME BusAndQueue,
         UNCHANGED <<plugin, own, eventHandlers, deadLetterHandlers, limit, defaults, supplied, queue, bus>>
  PROVE  BusAndQueue'
<1>1. Accepted' = Accepted /\ Order' = Order
  BY AcceptedStays DEF Order
<1>2. \A e : ListenerOf(Registration(e))' = ListenerOf(Registration(e))
  BY DEF ListenerOf, PolicyOf, Registration
<1>3. \A e : Supplied(e)' <=> Supplied(e)
  BY DEF Supplied
<1>4. Registered' = Registered
  BY <1>1, <1>2 DEF Registered
<1> QED BY <1>1, <1>2, <1>3, <1>4 DEF BusAndQueue

LEMMA ReturnKeeps == BuilderInv /\ Return => BuilderInv'
<1> SUFFICES ASSUME BuilderInv, Return PROVE BuilderInv'
  OBVIOUS
<1>1. /\ stage = "registering" /\ stage' = "built" /\ queue = <<>>
      /\ UNCHANGED <<plugin, own, eventHandlers, deadLetterHandlers, limit, defaults, supplied, queue, bus>>
  BY DEF Return, declVars, setVars
<1>2. AttributesParsed' /\ Collected' /\ Accepted' = Accepted /\ Order' = Order /\ plugin' \in BOOLEAN
  BY <1>1, OnlyStage
<1>3. BusAndQueue'
  BY <1>1, <1>2, BusStays DEF BuilderInv
<1> QED BY <1>1, <1>2, <1>3 DEF BuilderInv

LEMMA BuilderStutters == BuilderInv /\ UNCHANGED builderVars => BuilderInv'
<1> SUFFICES ASSUME BuilderInv, UNCHANGED builderVars PROVE BuilderInv'
  OBVIOUS
<1>1. UNCHANGED <<plugin, own, eventHandlers, deadLetterHandlers, limit, defaults, supplied, queue, bus, stage, visible>>
  BY DEF builderVars, declVars, setVars
<1>2. AttributesParsed' /\ Accepted' = Accepted /\ Order' = Order
  BY <1>1, AcceptedStays DEF BuilderInv, AttributesParsed, Declared, Order
<1>3. \A d : ForDeadLetters(d)' <=> ForDeadLetters(d)
  BY <1>1 DEF ForDeadLetters, Registration
<1>4. Collected'
  BY <1>1, <1>2, <1>3 DEF BuilderInv, Collected
<1>5. BusAndQueue => BusAndQueue'
  BY <1>1, BusStays
<1>6. \A e : Supplied(e)' <=> Supplied(e)
  BY <1>1 DEF Supplied
<1> QED BY <1>1, <1>2, <1>4, <1>5, <1>6 DEF BuilderInv

\* What was written, what was collected and what is registered are in order in every state.
THEOREM BuilderBooks == BuilderSpec => []BuilderInv
<1>1. BuilderInv /\ [BuilderNext]_builderVars => BuilderInv'
  <2> SUFFICES ASSUME BuilderInv, [BuilderNext]_builderVars PROVE BuilderInv'
    OBVIOUS
  <2>1. ASSUME NEW k \in Keys, NEW literal \in Literals[k],
               HandlerAttrs(k, literal) \/ ListenerAttrs(k, literal)
        PROVE  BuilderInv'
    BY <2>1, PairParsed
  <2>2. CASE Expand
    BY <2>2, ExpandKeeps
  <2>3. ASSUME NEW d \in {own} \cup Companions, Add(d) PROVE BuilderInv'
    BY <2>3, AddKeeps
  <2>4. ASSUME NEW max \in Limits, NEW defs \in Defaults, NEW types \in SUBSET Types,
               Build(max, defs, types)
        PROVE  BuilderInv'
    BY <2>4, BuildKeeps
  <2>5. CASE Register
    BY <2>5, RegisterKeeps
  <2>6. CASE Return
    BY <2>6, ReturnKeeps
  <2>7. CASE UNCHANGED builderVars
    BY <2>7, BuilderStutters
  <2> QED BY <2>1, <2>2, <2>3, <2>4, <2>5, <2>6, <2>7 DEF BuilderNext
<1> QED BY <1>1, BuilderStart, PTL DEF BuilderSpec

\* MacrosAgree, of the two macro crates: whatever function and attributes are written,
\* in the syntax both take, they accept the same and register the same.
THEOREM MacrosAgreeHolds == BuilderSpec => []MacrosAgree
<1>1. BuilderInv => MacrosAgree
  <2> SUFFICES ASSUME BuilderInv PROVE MacrosAgree
    OBVIOUS
  <2> DEFINE f == own.f
             a == own.a
  <2>1. f.async \in BOOLEAN
    BY DEF BuilderInv, AttributesParsed, Declared
  <2>2. a.retry_strategy \in {<<>>, <<"fixed">>, <<"exponential">>, <<"exponential_jitter">>}
    BY DeclarationsAssumption DEF BuilderInv, AttributesParsed, Declared, Keys, PolicyKeys, StrategyKeys
  <2> HIDE DEF f, a
  <2>3. /\ ~(ExpandHandler(f, a) /\ ExpandDeadLetterHandler(f, a))
        /\ ExpandHandler(f, a) => ListenerRegistrar(f, a) = HandlerDescriptor(f, a)
        /\ ExpandDeadLetterHandler(f, a) => ListenerRegistrar(f, a) = DeadLetterDescriptor(f, a)
    BY <2>1, <2>2, SameRegistration
  <2>4. (\A i \in DOMAIN f.rest : f.rest[i].pattern = "tuple" \/ f.rest[i].kind = "bus") =>
          (ExpandEventListener(f, a) <=> ExpandHandler(f, a) \/ ExpandDeadLetterHandler(f, a))
    BY <2>1, <2>2, SameRules
  <2> QED BY <2>3, <2>4 DEF MacrosAgree, f, a
<1> QED BY <1>1, BuilderBooks, PTL

\* BuildAsWritten, of build and the plugin: a bus that is handed over has every listener
\* that was collected, in order and with the policy that was written; otherwise a limit
\* of zero or a missing dependency is why.
THEOREM BuildsAsWritten == BuilderSpec => []BuildAsWritten
<1>1. BuilderInv => BuildAsWritten
  <2> SUFFICES ASSUME BuilderInv PROVE BuildAsWritten
    OBVIOUS
  <2>1. plugin \in BOOLEAN /\ Collected
    BY DEF BuilderInv
  <2>2. /\ Order \in Seq(Accepted) /\ Len(Order) \in Nat /\ DOMAIN Order = 1 .. Len(Order)
        /\ Len(Order) = Len(eventHandlers) + Len(deadLetterHandlers)
        /\ Len(eventHandlers) \in Nat /\ Len(deadLetterHandlers) \in Nat
        /\ \A i \in 1 .. Len(Order) :
             /\ Order[i] \in Accepted
             /\ Order[i] = IF i <= Len(eventHandlers) THEN eventHandlers[i]
                           ELSE deadLetterHandlers[i - Len(eventHandlers)]
    <3>1. Order \in Seq(Accepted)
      BY <2>1, OrderProperties
    <3>2. Len(eventHandlers) \in Nat /\ Len(deadLetterHandlers) \in Nat
      BY <2>1 DEF Collected
    <3> QED BY <2>1, <3>1, <3>2, OrderProperties
  <2>3. \A d : (\A p \in ToSet(Wrappers(d.f)) : p.type \in supplied) <=> Supplied(d)
    BY DEF ToSet, Supplied
  <2>4. ASSUME stage = "built"
        PROVE  /\ DOMAIN bus = DOMAIN Order /\ Len(bus) = Len(Order) /\ limit # <<0>>
               /\ \A i \in DOMAIN Order :
                    bus[i] = ListenerOf(Registration(Order[i])) /\ Supplied(Order[i])
    <3>1. BusAndQueue /\ queue = <<>>
      BY <2>4 DEF BuilderInv
    <3>2. bus \in Seq(Registered) /\ Len(bus) + Len(queue) = Len(Order) /\ limit # <<0>>
      BY <3>1 DEF BusAndQueue
    <3>3. Len(queue) = 0 /\ Len(bus) \in Nat /\ DOMAIN bus = 1 .. Len(bus)
      BY <3>1, <3>2
    <3>4. Len(bus) = Len(Order)
      BY <2>2, <3>2, <3>3
    <3>5. ASSUME NEW i \in DOMAIN Order
          PROVE  bus[i] = ListenerOf(Registration(Order[i])) /\ Supplied(Order[i])
      BY <2>2, <3>1, <3>4 DEF BusAndQueue
    <3> QED BY <2>2, <3>2, <3>3, <3>4, <3>5
  <2>5. ASSUME stage = "built", NEW i \in DOMAIN bus PROVE InForce(Order[i], bus[i])
    BY <2>1, <2>2, <2>4, <2>5, ListenerAsWritten
  <2>6. ASSUME stage = "built", ~plugin, NEW i \in DOMAIN bus, NEW j \in DOMAIN bus, i < j,
               bus[i].event = "DeadLetter"
        PROVE  bus[j].event = "DeadLetter"
    <3>1. i \in 1 .. Len(Order) /\ j \in 1 .. Len(Order)
      BY <2>2, <2>4, <2>6
    <3>2. ForDeadLetters(Order[i])
      BY <2>1, <2>2, <2>4, <2>6, <3>1, ListenerAsWritten
    <3>3. i > Len(eventHandlers)
      BY <2>1, <2>2, <2>6, <3>1, <3>2 DEF Collected
    <3>4. ForDeadLetters(Order[j])
      <4>1. j > Len(eventHandlers) /\ j - Len(eventHandlers) \in 1 .. Len(deadLetterHandlers)
        BY <2>2, <2>6, <3>1, <3>3
      <4> QED BY <2>1, <2>2, <2>6, <3>1, <4>1 DEF Collected
    <3> QED BY <2>1, <2>2, <2>4, <2>6, <3>1, <3>4, ListenerAsWritten
  <2>7. ASSUME stage = "failed"
        PROVE  limit = <<0>> \/ \E i \in DOMAIN Order : ~Supplied(Order[i])
    <3>1. limit = <<0>> \/ \E i \in 1 .. Len(Order), d \in Accepted : d = Order[i] /\ ~Supplied(d)
      BY <2>7 DEF BuilderInv
    <3> QED BY <2>2, <3>1
  <2>8. stage \in {"built", "failed"} =>
          (stage = "built" <=> limit # <<0>> /\ \A i \in DOMAIN Order : Supplied(Order[i]))
    BY <2>4, <2>7
  <2>9. stage \in {"built", "failed"} =>
          (stage = "built" <=> /\ limit # <<0>>
                               /\ \A i \in DOMAIN Order :
                                    \A p \in ToSet(Wrappers(Order[i].f)) : p.type \in supplied)
    <3> HIDE DEF Supplied
    <3> QED BY <2>3, <2>8
  <2>10. visible /\ ~plugin => stage = "built"
    BY DEF BuilderInv
  <2> QED BY <2>4, <2>5, <2>6, <2>9, <2>10 DEF BuildAsWritten
<1> QED BY <1>1, BuilderBooks, PTL
=============================================================================
