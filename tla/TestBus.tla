------------------------------ MODULE TestBus ------------------------------
(***************************************************************************)
(* TestBus::capture and published for one event type: capture looks for a  *)
(* buffer under the map's mutex, releases it, inserts a new buffer under   *)
(* the mutex, releases it, and awaits the subscription of a sync handler   *)
(* that pushes into that buffer.  Events are published through the bus     *)
(* meanwhile, and a shutdown may make the subscription fail.               *)
(***************************************************************************)
EXTENDS Integers, FiniteSets

CONSTANTS
  Captures,   \* calls of capture::<E>; each has a buffer of its own
  NoBuffer,   \* no buffer is in the map
  Events      \* calls of publish

ASSUME CapturesAssumption == IsFiniteSet(Captures) /\ NoBuffer \notin Captures

VARIABLES
  current,    \* the buffer that the map holds for E
  handlers,   \* the buffers that have a subscribed handler
  content,    \* each buffer: how often it holds each event
  pc,         \* where each capture is
  publishing, \* each event: "new", "running" or "done"
  todo,       \* the handlers an event has still to run
  due,        \* history: events published when every capture begun had returned Ok
  stopped     \* the bus was shut down

captureVars == <<current, handlers, pc>>
eventVars   == <<content, publishing, todo, due>>
vars        == <<captureVars, eventVars, stopped>>

Init ==
  /\ current = NoBuffer
  /\ handlers = {}
  /\ content = [b \in Captures |-> [e \in Events |-> 0]]
  /\ pc = [c \in Captures |-> "idle"]
  /\ publishing = [e \in Events |-> "new"]
  /\ todo = [e \in Events |-> {}]
  /\ due = {}
  /\ stopped = FALSE

Goto(c, state) == pc' = [pc EXCEPT ![c] = state]

CheckForgotten(c) ==
  /\ pc[c] = "idle"
  /\ Goto(c, "insert")
  /\ UNCHANGED <<current, handlers>>

\* The first critical section: an Ok at once if the type has a buffer.
Check(c) ==
  /\ pc[c] = "idle"
  /\ Goto(c, IF current = NoBuffer THEN "insert" ELSE "ok")
  /\ UNCHANGED <<current, handlers>>

\* The second one.  HashMap::insert replaces what is there.
Insert(c) ==
  /\ pc[c] = "insert"
  /\ current' = c
  /\ Goto(c, "subscribe")
  /\ UNCHANGED handlers

\* subscribe_with_policy(...).await?; the buffer stays when it fails.
Subscribe(c) ==
  /\ pc[c] = "subscribe"
  /\ IF stopped
     THEN Goto(c, "failed") /\ UNCHANGED handlers
     ELSE Goto(c, "ok") /\ handlers' = handlers \cup {c}
  /\ UNCHANGED current

\* The capture future is dropped while it awaits the subscription.
Abandon(c) ==
  /\ pc[c] = "subscribe"
  /\ Goto(c, "failed")
  /\ UNCHANGED <<current, handlers>>

Unreturned == {c \in Captures : pc[c] \in {"insert", "subscribe", "failed"}}
Returned   == {c \in Captures : pc[c] = "ok"}

PublishStart(e) ==
  /\ publishing[e] = "new"
  /\ ~stopped
  /\ publishing' = [publishing EXCEPT ![e] = "running"]
  /\ todo' = [todo EXCEPT ![e] = handlers]
  /\ due' = IF Unreturned = {} /\ Returned # {} THEN due \cup {e} ELSE due
  /\ UNCHANGED content

HandleIntoCurrent(e, b) ==
  /\ publishing[e] = "running"
  /\ b \in todo[e]
  /\ content' = [content EXCEPT ![current][e] = @ + 1]
  /\ todo' = [todo EXCEPT ![e] = @ \ {b}]
  /\ UNCHANGED <<publishing, due>>

\* CaptureHandler::handle pushes into the buffer it was made with.
Handle(e, b) ==
  /\ publishing[e] = "running"
  /\ b \in todo[e]
  /\ content' = [content EXCEPT ![b][e] = @ + 1]
  /\ todo' = [todo EXCEPT ![e] = @ \ {b}]
  /\ UNCHANGED <<publishing, due>>

PublishEnd(e) ==
  /\ publishing[e] = "running"
  /\ todo[e] = {}
  /\ publishing' = [publishing EXCEPT ![e] = "done"]
  /\ UNCHANGED <<content, todo, due>>

Stop == ~stopped /\ stopped' = TRUE /\ UNCHANGED <<captureVars, eventVars>>

Capture(c) ==
  /\ Check(c) \/ Insert(c) \/ Subscribe(c) \/ Abandon(c)
  /\ UNCHANGED <<eventVars, stopped>>

Publish(e) ==
  /\ PublishStart(e) \/ PublishEnd(e) \/ \E b \in Captures : Handle(e, b)
  /\ UNCHANGED <<captureVars, stopped>>

Next ==
  \/ \E c \in Captures : Capture(c)
  \/ \E e \in Events : Publish(e)
  \/ Stop

Spec == Init /\ [][Next]_vars

-----------------------------------------------------------------------------
(* Properties *)

\* What published::<E>() returns, as how often it holds each event.
Captured(e) == IF current = NoBuffer THEN 0 ELSE content[current][e]

\* Even when captures race and several handlers are subscribed, published
\* never returns an event twice, so that assert_count is not too high.
NeverTwice == \A e \in Events : Captured(e) <= 1

\* An event that was published when every capture begun so far had returned
\* with Ok, at least one, is there when publish has returned, and stays there.
CompleteOnceQuiet == \A e \in due : publishing[e] = "done" => Captured(e) = 1

=============================================================================
