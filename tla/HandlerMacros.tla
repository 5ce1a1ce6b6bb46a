--------------------------- MODULE HandlerMacros ---------------------------
(***************************************************************************)
(* The attribute macros #[handler] and #[dead_letter_handler] (jaeb-macros)*)
(* and #[event_listener] (summer-jaeb-macros) as functions of a signature  *)
(* f and parsed attributes a: whether they accept, and the registration    *)
(* that the code they generate performs.  The two crates are separate code *)
(* and are translated separately.  An Option is <<>> or <<value>>.         *)
(*                                                                         *)
(* A signature has: async; first, the first parameter ("missing", "self",  *)
(* "value", or the type a shared reference points to); rest, the other     *)
(* parameters, in order; result; name.  A parameter has: kind ("bus" for   *)
(* &EventBus, "wrapper" for Dep<T> or Component<T>, "other"), the pattern  *)
(* ("tuple" for Dep(x) or Component(x), "ident" for x, "foreign" for a     *)
(* tuple struct of another name), and the type T.                          *)
(***************************************************************************)
EXTENDS Integers, Sequences, SequencesExt

IsSome(option) == option # <<>>
UnwrapOr(option, default) == IF IsSome(option) THEN option[1] ELSE default

StrategyKeys == {"retry_strategy", "retry_base_ms", "retry_max_ms"}
PolicyKeys == StrategyKeys \cup {"retries", "dead_letter", "priority"}
Keys == PolicyKeys \cup {"name"}

HasSubscriptionPolicy(a) == \E k \in PolicyKeys : IsSome(a[k])
HasRetryStrategyAttrs(a) == \E k \in StrategyKeys : IsSome(a[k])

Bus == [kind |-> "bus", pattern |-> "ident", type |-> "EventBus"]
HasBus(f) == \E i \in DOMAIN f.rest : f.rest[i].kind = "bus"
Wrappers(f) == SelectSeq(f.rest, LAMBDA p : p.kind = "wrapper")

\* None for name = "", the function's own name without the attribute.
NameOf(f, a) == IF a.name = <<"">> THEN <<>> ELSE <<UnwrapOr(a.name, f.name)>>

-----------------------------------------------------------------------------
(* jaeb-macros *)

ParseDepParams(f) ==
  \A i \in DOMAIN f.rest :
    \/ f.rest[i].kind = "bus"
    \/ f.rest[i].kind = "wrapper" /\ f.rest[i].pattern \in {"tuple", "ident"}

\* What expand_handler does not reject.
ExpandHandler(f, a) ==
  /\ f.first \notin {"self", "missing"}
  /\ f.result = "HandlerResult"
  /\ f.first # "value"
  /\ f.first # "DeadLetter"
  /\ ParseDepParams(f)
  /\ IsSome(a.retry_base_ms) \/ IsSome(a.retry_max_ms) => IsSome(a.retry_strategy)
  /\ a.retry_strategy \in {<<"exponential">>, <<"exponential_jitter">>} =>
       IsSome(a.retry_base_ms) /\ IsSome(a.retry_max_ms)
  /\ a.retry_strategy = <<"fixed">> => IsSome(a.retry_base_ms)
  /\ HasRetryStrategyAttrs(a) => IsSome(a.retries)
  /\ ~f.async => ~IsSome(a.retries) /\ ~HasRetryStrategyAttrs(a)
  /\ f.async => ~IsSome(a.priority)

ExpandDeadLetterHandler(f, a) ==
  /\ f.first \notin {"self", "missing"}
  /\ f.result = "HandlerResult"
  /\ ~f.async
  /\ ~HasSubscriptionPolicy(a)
  /\ f.first = "DeadLetter"
  /\ ParseDepParams(f)
  /\ ~HasBus(f)

\* expect() on a missing delay: the index is outside the domain of <<>>.
HandlerStrategy(a) ==
  CASE a.retry_strategy = <<>> -> <<>>
    [] a.retry_strategy = <<"fixed">> -> <<"fixed", a.retry_base_ms[1]>>
    [] OTHER -> <<a.retry_strategy[1], a.retry_base_ms[1], a.retry_max_ms[1]>>

\* gen_subscription_policy: setters chained on the default of the policy's type.
HandlerPolicy(f, a) ==
  IF f.async
  THEN [max_retries |-> UnwrapOr(a.retries, 0),
        retry_strategy |-> HandlerStrategy(a),
        dead_letter |-> UnwrapOr(a.dead_letter, TRUE)]
  ELSE [priority |-> UnwrapOr(a.priority, 0),
        dead_letter |-> UnwrapOr(a.dead_letter, TRUE)]

HandlerDescriptor(f, a) ==
  [call |-> IF HasSubscriptionPolicy(a) THEN "subscribe_with_policy" ELSE "subscribe",
   policy |-> IF HasSubscriptionPolicy(a) THEN <<HandlerPolicy(f, a)>> ELSE <<>>,
   event |-> f.first, async |-> f.async, needs |-> Wrappers(f), name |-> NameOf(f, a)]

DeadLetterDescriptor(f, a) ==
  [call |-> "subscribe_dead_letters", policy |-> <<>>,
   event |-> "DeadLetter", async |-> FALSE, needs |-> Wrappers(f), name |-> NameOf(f, a)]

\* The wrapper's function gets the dependencies and then the bus.
HandlerArguments(f) == Wrappers(f) \o IF HasBus(f) THEN <<Bus>> ELSE <<>>

-----------------------------------------------------------------------------
(* summer-jaeb-macros *)

\* Any tuple struct pattern with one binding will do.
ParseStateParams(f) ==
  \A i \in DOMAIN f.rest :
    \/ f.rest[i].kind = "bus"
    \/ f.rest[i].kind = "wrapper" /\ f.rest[i].pattern \in {"tuple", "foreign"}

ExpandEventListenerUnpaired(f, a) ==
  /\ f.first \in {"Event", "DeadLetter"} /\ f.result = "HandlerResult" /\ ParseStateParams(f)
  /\ f.first = "DeadLetter" => ~f.async /\ ~HasSubscriptionPolicy(a) /\ ~HasBus(f)
  /\ IsSome(a.retry_base_ms) \/ IsSome(a.retry_max_ms) => IsSome(a.retry_strategy)
  /\ IsSome(a.retry_strategy) => IsSome(a.retry_base_ms)
  /\ HasRetryStrategyAttrs(a) => IsSome(a.retries)
  /\ ~f.async => ~IsSome(a.retries)
  /\ f.async => ~IsSome(a.priority)

\* What expand_event_listener does not reject.
ExpandEventListener(f, a) ==
  /\ f.first \notin {"self", "missing"}
  /\ f.result = "HandlerResult"
  /\ f.first # "value"
  /\ f.first = "DeadLetter" => ~f.async
  /\ f.first = "DeadLetter" => ~HasSubscriptionPolicy(a)
  /\ ParseStateParams(f)
  /\ f.first = "DeadLetter" => ~HasBus(f)
  /\ IsSome(a.retry_base_ms) \/ IsSome(a.retry_max_ms) => IsSome(a.retry_strategy)
  /\ a.retry_strategy \in {<<"exponential">>, <<"exponential_jitter">>} =>
       IsSome(a.retry_base_ms) /\ IsSome(a.retry_max_ms)
  /\ a.retry_strategy = <<"fixed">> => IsSome(a.retry_base_ms)
  /\ HasRetryStrategyAttrs(a) => IsSome(a.retries)
  /\ ~f.async => ~(IsSome(a.retries) \/ HasRetryStrategyAttrs(a))
  /\ f.async => ~IsSome(a.priority)

\* A missing delay would be zero.
ListenerStrategy(a) ==
  LET base == UnwrapOr(a.retry_base_ms, 0)
  IN CASE a.retry_strategy = <<>> -> <<>>
       [] a.retry_strategy = <<"fixed">> -> <<"fixed", base>>
       [] OTHER -> <<a.retry_strategy[1], base, UnwrapOr(a.retry_max_ms, 0)>>

ListenerPolicy(f, a) ==
  LET deadLetter == UnwrapOr(a.dead_letter, TRUE)
  IN IF f.async
     THEN [max_retries |-> UnwrapOr(a.retries, 0), retry_strategy |-> ListenerStrategy(a), dead_letter |-> deadLetter]
     ELSE [priority |-> UnwrapOr(a.priority, 0), dead_letter |-> deadLetter]

\* gen_subscribe_call, in the registrar's register.
ListenerRegistrar(f, a) ==
  LET call == IF f.first = "DeadLetter" THEN "subscribe_dead_letters"
              ELSE IF HasSubscriptionPolicy(a) THEN "subscribe_with_policy" ELSE "subscribe"
  IN [call |-> call,
      policy |-> IF call = "subscribe_with_policy" THEN <<ListenerPolicy(f, a)>> ELSE <<>>,
      event |-> f.first, async |-> f.async, needs |-> Wrappers(f), name |-> NameOf(f, a)]

ListenerArguments(f) == Wrappers(f) \o IF HasBus(f) THEN <<Bus>> ELSE <<>>
=============================================================================
