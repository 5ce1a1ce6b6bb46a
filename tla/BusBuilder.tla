----------------------------- MODULE BusBuilder -----------------------------
(***************************************************************************)
(* From a function with an attribute to a bus with listeners: the pairs of *)
(* the attribute are parsed one by one, the macro expands, the compiler    *)
(* checks what it generated, and either EventBusBuilder::build or the      *)
(* SummerJaeb plugin registers what was collected, one await at a time.    *)
(* The builder's setters only store: their last values are parameters of   *)
(* Build.  Component and dependency values are left out, their types kept. *)
(***************************************************************************)
EXTENDS HandlerMacros

CONSTANTS
  Functions,     \* the signatures a programmer may write
  Literals,      \* for each key, the values the parser takes
  Companions,    \* declarations [f, a] that are registered beside the one under way
  Limits,        \* Option values of max_concurrent_async
  Defaults,      \* SubscriptionDefaults: [policy, sync_policy]
  Types,         \* types of dependencies or components
  MaxListeners   \* bound: how many registrations are collected

ASSUME BoundAssumption == MaxListeners \in Nat

Declared(d) ==
  /\ d.f.async \in BOOLEAN
  /\ \A k \in Keys : d.a[k] = <<>> \/ d.a[k] \in Literals[k]

ASSUME DeclarationsAssumption ==
  /\ \A f \in Functions : f.async \in BOOLEAN
  /\ \A k \in Keys : \A literal \in Literals[k] : literal = <<>> \/ literal = <<literal[1]>>
  /\ Literals["dead_letter"] \subseteq {<<>>, <<TRUE>>, <<FALSE>>}
  /\ Literals["retry_strategy"] \subseteq
       {<<>>, <<"fixed">>, <<"exponential">>, <<"exponential_jitter">>}
  /\ \A d \in Companions : Declared(d)

VARIABLES
  plugin,    \* TRUE: summer-jaeb; FALSE: jaeb's macros and the builder
  own,       \* the declaration under way: a signature f and attributes a
  stage,     \* how far it is
  eventHandlers,  \* collected by .handler(), or by the plugin's inventory
  deadLetterHandlers,   \* collected by .dead_letter()
  queue,     \* declarations build has still to register, in the order of build
  limit, defaults, supplied,   \* what Build was given
  bus,       \* the registered listeners, in order
  visible    \* the application has the bus

declVars    == <<plugin, own, eventHandlers, deadLetterHandlers>>
setVars     == <<limit, defaults, supplied>>
builderVars == <<declVars, setVars, stage, queue, bus, visible>>

BuilderInit ==
  /\ plugin \in BOOLEAN
  /\ own \in [f : Functions, a : {[k \in Keys |-> <<>>]}]
  /\ stage = "attributes"
  /\ eventHandlers = <<>> /\ deadLetterHandlers = <<>>
  /\ queue = <<>> /\ bus = <<>>
  /\ limit = <<>> /\ defaults \in Defaults /\ supplied = {}
  /\ visible = FALSE

-----------------------------------------------------------------------------
(* Compile time *)

\* One `key = value` pair of #[handler]; <<>> stands for a value of another kind.
\* A pair that repeats a key, or has such a value, rejects the whole attribute.
HandlerAttrs(k, literal) ==
  /\ stage = "attributes" /\ ~plugin
  /\ IF IsSome(own.a[k]) \/ literal = <<>>
     THEN stage' = "rejected" /\ UNCHANGED own
     ELSE own' = [own EXCEPT !.a[k] = literal] /\ UNCHANGED stage
  /\ UNCHANGED <<plugin, eventHandlers, deadLetterHandlers, setVars, queue, bus, visible>>

\* The same of #[event_listener], which has a parser of its own.
ListenerAttrs(k, literal) ==
  /\ stage = "attributes" /\ plugin
  /\ IF IsSome(own.a[k]) \/ literal = <<>>
     THEN stage' = "rejected" /\ UNCHANGED own
     ELSE own' = [own EXCEPT !.a[k] = literal] /\ UNCHANGED stage
  /\ UNCHANGED <<plugin, eventHandlers, deadLetterHandlers, setVars, queue, bus, visible>>

\* What rustc asks of the generated call.
Typechecks(f, arguments) ==
  /\ Len(arguments) = Len(f.rest)
  /\ \A i \in DOMAIN f.rest :
       /\ f.rest[i].pattern # "foreign"
       /\ arguments[i].kind = f.rest[i].kind /\ arguments[i].type = f.rest[i].type

\* #[event_listener], or whichever of #[handler] and #[dead_letter_handler] fits.
Accepts(d) ==
  IF plugin
  THEN ExpandEventListener(d.f, d.a) /\ Typechecks(d.f, ListenerArguments(d.f))
  ELSE /\ ExpandHandler(d.f, d.a) \/ ExpandDeadLetterHandler(d.f, d.a)
       /\ Typechecks(d.f, HandlerArguments(d.f))

Registration(d) ==
  CASE plugin -> ListenerRegistrar(d.f, d.a)
    [] ~plugin /\ ExpandHandler(d.f, d.a) -> HandlerDescriptor(d.f, d.a)
    [] OTHER -> DeadLetterDescriptor(d.f, d.a)

Expand ==
  /\ stage = "attributes"
  /\ stage' = IF Accepts(own) THEN "collecting" ELSE "rejected"
  /\ UNCHANGED <<declVars, setVars, queue, bus, visible>>

ForDeadLetters(d) == Registration(d).call = "subscribe_dead_letters"

\* .handler(), .dead_letter(), or one entry of the inventory, whose listeners stay
\* in the order in which they come.
Add(d) ==
  /\ stage = "collecting" /\ Accepts(d)
  /\ Len(eventHandlers) + Len(deadLetterHandlers) < MaxListeners
  /\ IF ~plugin /\ ForDeadLetters(d)
     THEN deadLetterHandlers' = Append(deadLetterHandlers, d) /\ UNCHANGED eventHandlers
     ELSE eventHandlers' = Append(eventHandlers, d) /\ UNCHANGED deadLetterHandlers
  /\ UNCHANGED <<plugin, own, setVars, stage, queue, bus, visible>>

-----------------------------------------------------------------------------
(* Run time *)

\* build goes through one list and then the other.
Order == eventHandlers \o deadLetterHandlers

\* The plugin hands the bus to the application before anything is registered.
Build(max, defs, types) ==
  /\ stage = "collecting"
  /\ limit' = max /\ defaults' = defs /\ supplied' = types
  /\ IF max = <<0>>
     THEN stage' = "failed" /\ UNCHANGED <<queue, visible>>
     ELSE /\ stage' = "registering"
          /\ queue' = Order
          /\ visible' = plugin
  /\ UNCHANGED <<declVars, bus>>

\* subscribe, subscribe_with_policy and subscribe_dead_letters differ in the policy.
PolicyOf(reg) ==
  CASE reg.call = "subscribe_with_policy" -> reg.policy[1]
    [] reg.call = "subscribe_dead_letters" -> [priority |-> 0, dead_letter |-> FALSE]
    [] OTHER -> IF reg.async THEN defaults.policy ELSE defaults.sync_policy

ListenerOf(reg) ==
  [event |-> reg.event, async |-> reg.async, name |-> reg.name, policy |-> PolicyOf(reg)]

RegisterPastMissing ==
  /\ stage = "registering" /\ queue # <<>>
  /\ LET reg == Registration(Head(queue))
     IN bus' = IF \A i \in DOMAIN reg.needs : reg.needs[i].type \in supplied
               THEN Append(bus, ListenerOf(reg)) ELSE bus
  /\ queue' = Tail(queue)
  /\ UNCHANGED <<declVars, setVars, stage, visible>>

\* A missing dependency is an Err of build and a panic of the plugin.
Register ==
  /\ stage = "registering" /\ queue # <<>>
  /\ LET reg == Registration(Head(queue))
     IN IF \E i \in DOMAIN reg.needs : reg.needs[i].type \notin supplied
        THEN stage' = "failed" /\ UNCHANGED <<queue, bus>>
        ELSE /\ bus' = Append(bus, ListenerOf(reg))
             /\ queue' = Tail(queue)
             /\ UNCHANGED stage
  /\ UNCHANGED <<declVars, setVars, visible>>

Return ==
  /\ stage = "registering" /\ queue = <<>>
  /\ stage' = "built"
  /\ visible' = TRUE
  /\ UNCHANGED <<declVars, setVars, queue, bus>>

BuilderNext ==
  \/ \E k \in Keys : \E literal \in Literals[k] : HandlerAttrs(k, literal) \/ ListenerAttrs(k, literal)
  \/ Expand
  \/ \E d \in {own} \cup Companions : Add(d)
  \/ \E max \in Limits, defs \in Defaults, types \in SUBSET Types : Build(max, defs, types)
  \/ Register
  \/ Return

BuilderSpec == BuilderInit /\ [][BuilderNext]_builderVars

-----------------------------------------------------------------------------
(* Properties *)

\* A written attribute is in force, an unwritten one leaves the default: that
\* of the policy's type if another attribute is written, that of the bus if none.
InForce(d, listener) ==
  LET a == d.a
      fallback == IF listener.async THEN defaults.policy ELSE defaults.sync_policy
  IN IF listener.event = "DeadLetter"
     THEN ~listener.async /\ ~listener.policy.dead_letter
     ELSE /\ ~HasSubscriptionPolicy(a) => listener.policy = fallback
          /\ HasSubscriptionPolicy(a) =>
               /\ listener.policy.dead_letter = (a.dead_letter # <<FALSE>>)
               /\ ~listener.async => listener.policy.priority = UnwrapOr(a.priority, 0)
               /\ listener.async =>
                    /\ listener.policy.max_retries = UnwrapOr(a.retries, 0)
                    /\ listener.policy.retry_strategy =
                         CASE a.retry_strategy = <<>> -> <<>>
                           [] a.retry_strategy = <<"fixed">> -> a.retry_strategy \o a.retry_base_ms
                           [] OTHER -> a.retry_strategy \o a.retry_base_ms \o a.retry_max_ms

\* build and the plugin end with a bus that has every declared listener, in the
\* documented order and with the policy its attributes say, or they fail, and
\* they fail only for a limit of zero or a dependency that was not supplied; the
\* builder shows nobody a bus that is not complete
\* (bus/builder.rs build, summer-jaeb Plugin::build, subscribe.rs).
BuildAsWritten ==
  /\ stage = "built" =>
       /\ Len(bus) = Len(Order)
       /\ \A i \in DOMAIN bus : InForce(Order[i], bus[i])
       /\ ~plugin => \A i, j \in DOMAIN bus :
            i < j /\ bus[i].event = "DeadLetter" => bus[j].event = "DeadLetter"
  /\ stage \in {"built", "failed"} =>
       (stage = "built" <=> /\ limit # <<0>>
                         /\ \A i \in DOMAIN Order :
                              \A p \in ToSet(Wrappers(Order[i].f)) : p.type \in supplied)
  /\ visible /\ ~plugin => stage = "built"

\* For a function written in the syntax both crates take, #[event_listener]
\* accepts what #[handler] and #[dead_letter_handler] accept between them, and
\* its registrar subscribes with the same call, policy, name and dependencies;
\* and no function is both (expand_handler, expand_dead_letter_handler,
\* expand_event_listener and the two gen_subscription_policy).
MacrosAgree ==
  LET f == own.f
      a == own.a
      accepted == ExpandHandler(f, a) \/ ExpandDeadLetterHandler(f, a)
  IN /\ ~(ExpandHandler(f, a) /\ ExpandDeadLetterHandler(f, a))
     /\ (\A i \in DOMAIN f.rest : f.rest[i].pattern = "tuple" \/ f.rest[i].kind = "bus") =>
          /\ ExpandEventListener(f, a) <=> accepted
          /\ accepted =>
               ListenerRegistrar(f, a) = IF ExpandHandler(f, a) THEN HandlerDescriptor(f, a)
                                         ELSE DeadLetterDescriptor(f, a)
=============================================================================
