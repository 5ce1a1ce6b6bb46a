---------------------------- MODULE MCBusBuilder ----------------------------
(* The instance of BusBuilder that TLC checks: every signature with up to two
   further parameters that matters, and every combination of attributes. *)
EXTENDS BusBuilder

Wrapper(pattern, type) == [kind |-> "wrapper", pattern |-> pattern, type |-> type]
Other == [kind |-> "other", pattern |-> "ident", type |-> "T"]
Signature(async, first, rest, result) ==
  [async |-> async, first |-> first, rest |-> rest, result |-> result, name |-> "fn"]

Rests ==
  {<<>>, <<Bus>>, <<Wrapper("tuple", "A")>>, <<Wrapper("tuple", "A"), Bus>>, <<Bus, Wrapper("tuple", "A")>>}

MCFunctions ==
  [async : BOOLEAN, first : {"Event", "DeadLetter"}, rest : Rests, result : {"HandlerResult"}, name : {"fn"}]
  \cup {Signature(FALSE, first, <<>>, "HandlerResult") : first \in {"missing", "self", "value"}}
  \cup {Signature(TRUE, "Event", <<>>, result) : result \in {"none", "other"}}
  \cup {Signature(FALSE, "Event", <<p>>, "HandlerResult") :
          p \in {Wrapper("ident", "A"), Wrapper("foreign", "A"), Other}}
  \cup {Signature(FALSE, "DeadLetter", <<Bus, Bus>>, "HandlerResult")}

MCLiterals ==
  [k \in Keys |->
     {<<>>} \cup
     CASE k = "retries" -> {<<3>>}
       [] k = "retry_strategy" -> {<<"fixed">>, <<"exponential">>, <<"exponential_jitter">>}
       [] k = "retry_base_ms" -> {<<50>>}
       [] k = "retry_max_ms" -> {<<5000>>}
       [] k = "dead_letter" -> {<<TRUE>>, <<FALSE>>}
       [] k = "priority" -> {<<7>>}
       [] k = "name" -> {<<"">>}]

NoAttributes == [k \in Keys |-> <<>>]

MCCompanions ==
  {[f |-> Signature(FALSE, "DeadLetter", <<>>, "HandlerResult"), a |-> NoAttributes],
   [f |-> Signature(TRUE, "Event", <<Wrapper("tuple", "B")>>, "HandlerResult"), a |-> NoAttributes]}

MCLimits == {<<>>, <<0>>}
MCDefaults ==
  {[policy |-> [max_retries |-> 1, retry_strategy |-> <<>>, dead_letter |-> FALSE],
    sync_policy |-> [priority |-> 2, dead_letter |-> FALSE]]}
MCTypes == {"A", "B"}
=============================================================================
