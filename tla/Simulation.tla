----------------------------- MODULE Simulation -----------------------------
(***************************************************************************)
(* One simulation of the jaeb-visualizer example.  A task publishes events *)
(* of every type, tick by tick, until a duration is over or enough of them *)
(* were processed, waits for the rest, says so and shuts the bus down.     *)
(* The listeners, and the listener of dead letters, report what they do    *)
(* over an unbounded channel to a collector, whose counters are shown and, *)
(* in part, read back by the publisher.  When it is done the user may      *)
(* leave it for the next one; q, which ends the program, is a behaviour    *)
(* cut short.  The sampler, which only adds the growth of the counters to  *)
(* the charts and copies the bus's statistics, is left out.                *)
(*                                                                         *)
(* Rates and patterns decide only how many events a tick publishes, which  *)
(* is left open; latencies and the shape of the charts are left out.  The  *)
(* bus is what AsyncListener, SyncLane and BusShutdown say of it: an async *)
(* listener makes attempts until it succeeds or has no retry left, sync    *)
(* listeners run inside publish, a timed-out shutdown aborts the tasks.    *)
(***************************************************************************)
EXTENDS Integers, Sequences, FiniteSets, FiniteSetsExt, SequencesExt

CONSTANTS
  Configs,    \* configurations: event types, listeners, target, timeout
  NoTarget,   \* the target when the simulation stops after a duration
  MaxEvents,  \* bound: events published in a simulation
  MaxPerTick  \* bound: events of one type published in a tick

ASSUME ConfigsAssumption ==
  /\ \A c \in Configs :
       c.listeners \in Seq([mode : {"sync", "async"}, type : Nat, retries : Nat,
                           deadLetter : BOOLEAN])
  /\ MaxEvents \in Nat

VARIABLES
  config,
  simPc,       \* the simulation task
  seq,         \* events begun
  batch,       \* the types of the events still to publish in this tick
  todo,        \* sync listeners still to run for the event at hand
  tasks,       \* async deliveries: where they are, and retries left
  channel,     \* events on their way to the collector
  collector,   \* is this task there?
  viz,         \* VisualizationState
  closer,      \* which shutdown closed the bus
  left,        \* the user has given up this simulation
  truth        \* history: what really happened

simVars == <<config, simPc, seq, batch, todo, tasks, channel,
             collector, viz, closer, left, truth>>

publisherVars == <<simPc, seq, batch, todo>>

Listeners == DOMAIN config.listeners
Types     == 1 .. config.types
Stopped   == closer # "nobody"

Nobody == [l \in Listeners |-> 0]
IsDone(d) == tasks[d].pc \in {"none", "finished"}
InFlightAsync == {d \in DOMAIN tasks : ~IsDone(d)}

SimInit ==
  /\ config \in Configs
  /\ simPc = "ticking"
  /\ seq = 0 /\ batch = <<>> /\ todo = {}
  /\ tasks = [d \in (1 .. MaxEvents) \X Listeners |-> [pc |-> "none", retries |-> 0]]
  /\ channel = <<>> /\ collector = TRUE
  /\ viz = [published |-> 0, handled |-> Nobody, failed |-> Nobody, inFlight |-> Nobody,
            letters |-> 0, processed |-> 0,
            draining |-> FALSE, done |-> FALSE]
  /\ closer = "nobody" /\ left = FALSE
  /\ truth = [published |-> 0, handled |-> Nobody, failed |-> Nobody, letters |-> 0,
              cut |-> Nobody, begun |-> 0]

Message(kind, l) == [kind |-> kind, listener |-> l]

\* tx.send: lost once the collector has dropped the receiver.
Send(messages) == channel' = IF collector THEN channel \o messages ELSE channel

Count(what, l) == truth' = [truth EXCEPT ![what][l] = @ + 1]

-----------------------------------------------------------------------------
(* The simulation task *)

GoTo(pc) == simPc' = pc

EnoughProcessed == config.target # NoTarget /\ viz.processed >= config.target

\* The duration is over at some tick, at the latest when the bound is reached.
StopPublishing ==
  /\ simPc = "ticking"
  /\ config.target = NoTarget \/ EnoughProcessed
  /\ GoTo("draining")
  /\ UNCHANGED <<config, seq, batch, todo, tasks, channel,
                 collector, viz, closer, left, truth>>

\* What a tick may publish: the types in order, each as often as its rate and
\* its pattern want.
Batches ==
  {FlattenSeq([t \in Types |-> [i \in 1 .. often[t] |-> t]]) :
     often \in [Types -> 0 .. MaxPerTick]} \ {<<>>}

Tick ==
  /\ simPc = "ticking"
  /\ ~EnoughProcessed
  /\ batch' \in {b \in Batches : seq + Len(b) <= MaxEvents}
  /\ GoTo("batch")
  /\ UNCHANGED <<config, seq, todo, tasks, channel,
                 collector, viz, closer, left, truth>>

\* The listeners that do more than return at once for this type of event.
Answering(mode, t) ==
  {l \in Listeners :
     config.listeners[l].mode = mode /\ config.listeners[l].type = t}

\* publish spawns the async lane; the bus is open as long as the task publishes.
PublishEvent ==
  /\ simPc = "batch"
  /\ seq' = seq + 1
  /\ batch' = Tail(batch)
  /\ tasks' = [d \in DOMAIN tasks |->
                 IF d[1] = seq' /\ d[2] \in Answering("async", Head(batch))
                 THEN [pc |-> "waiting", retries |-> config.listeners[d[2]].retries]
                 ELSE tasks[d]]
  /\ truth' = [truth EXCEPT !.begun = @ + Cardinality(Answering("async", Head(batch)))]
  /\ todo' = Answering("sync", Head(batch))
  /\ GoTo("publishing")
  /\ UNCHANGED <<config, channel, collector, viz, closer, left>>

\* Sync listeners run in the order of their registration.
Turn(l) == l \in todo /\ \A m \in todo : l <= m

\* A sync listener runs inside publish; its thread sleeps between its reports.
StartSync(l) ==
  /\ simPc = "publishing" /\ Turn(l)
  /\ Send(<<Message("started", l)>>)
  /\ truth' = [truth EXCEPT !.begun = @ + 1]
  /\ GoTo("handling")
  /\ UNCHANGED <<config, seq, batch, todo, tasks, collector,
                 viz, closer, left>>

EndSync(l) ==
  /\ simPc = "handling" /\ Turn(l)
  /\ \/ /\ Send(<<Message("completed", l)>>)
        /\ Count("handled", l)
        /\ todo' = todo \ {l}
        /\ GoTo("publishing")
     \/ /\ Send(<<Message("failed", l)>>)
        /\ Count("failed", l)
        /\ IF config.listeners[l].deadLetter
           THEN GoTo("letter") /\ UNCHANGED todo
           ELSE GoTo("publishing") /\ todo' = todo \ {l}
  /\ UNCHANGED <<config, seq, batch, tasks, collector,
                 viz, closer, left>>

SyncLetter(l) ==
  /\ simPc = "letter" /\ Turn(l)
  /\ Send(<<Message("letter", l)>>)
  /\ truth' = [truth EXCEPT !.letters = @ + 1]
  /\ todo' = todo \ {l}
  /\ GoTo("publishing")
  /\ UNCHANGED <<config, seq, batch, tasks, collector,
                 viz, closer, left>>

\* Published is sent after publish has returned, behind its listeners' reports.
EndPublish ==
  /\ simPc = "publishing" /\ todo = {}
  /\ Send(<<Message("published", 0)>>)
  /\ truth' = [truth EXCEPT !.published = @ + 1]
  /\ GoTo(IF batch = <<>> THEN "ticking" ELSE "batch")
  /\ UNCHANGED <<config, seq, batch, todo, tasks, collector,
                 viz, closer, left>>

FinishedUndrained ==
  /\ simPc = "draining"
  /\ IF config.target = NoTarget THEN TRUE ELSE EnoughProcessed
  /\ Send(<<[kind |-> "stopped", total |-> truth.published], Message("done", 0)>>)
  /\ GoTo("closing")
  /\ UNCHANGED <<config, seq, batch, todo, tasks, collector,
                 viz, closer, left, truth>>

\* After a duration the bus must have no async task left.
Finished ==
  /\ simPc = "draining"
  /\ IF config.target = NoTarget THEN InFlightAsync = {} ELSE EnoughProcessed
  /\ Send(<<[kind |-> "stopped", total |-> truth.published], Message("done", 0)>>)
  /\ GoTo("closing")
  /\ UNCHANGED <<config, seq, batch, todo, tasks, collector,
                 viz, closer, left, truth>>

\* bus.shutdown(): only the call that closes the bus waits for its tasks.
CloseBus ==
  /\ simPc = "closing"
  /\ closer' = IF Stopped THEN closer ELSE "simulation"
  /\ GoTo(IF Stopped THEN "ended" ELSE "shutdown")
  /\ UNCHANGED <<config, seq, batch, todo, tasks, channel,
                 collector, viz, left, truth>>

\* The tasks have finished, or the deadline has passed and they are aborted.
Aborted(d) == [tasks[d] EXCEPT !.pc = IF IsDone(d) THEN @ ELSE "finished"]

AbortAll ==
  /\ tasks' = [d \in DOMAIN tasks |-> Aborted(d)]
  /\ truth' = [truth EXCEPT !.cut = [l \in Listeners |->
                 @[l] + Cardinality({d \in DOMAIN tasks : d[2] = l /\ tasks[d].pc = "handling"})]]

ShutdownReturns ==
  /\ simPc = "shutdown"
  /\ IF InFlightAsync = {} THEN UNCHANGED <<tasks, truth>> ELSE AbortAll
  /\ GoTo("ended")
  /\ UNCHANGED <<config, seq, batch, todo, channel, collector,
                 viz, closer, left>>

SimTask ==
  \/ StopPublishing \/ Tick \/ PublishEvent
  \/ \E l \in Listeners : StartSync(l) \/ EndSync(l) \/ SyncLetter(l)
  \/ EndPublish \/ Finished \/ CloseBus \/ ShutdownReturns

-----------------------------------------------------------------------------
(* An async delivery: d is the number of the event and the listener *)

Set(d, pc) == tasks' = [tasks EXCEPT ![d].pc = pc]

TaskUnchanged == UNCHANGED <<config, publisherVars, collector, viz, closer, left>>

Begin(d) ==
  /\ tasks[d].pc = "waiting"
  /\ Send(<<Message("started", d[2])>>)
  /\ Set(d, "handling")
  /\ TaskUnchanged /\ UNCHANGED truth

Complete(d) ==
  /\ tasks[d].pc = "handling"
  /\ Send(<<Message("completed", d[2])>>)
  /\ Count("handled", d[2])
  /\ Set(d, "finished")
  /\ TaskUnchanged

AfterFailureSilent(d) ==
  tasks' = [tasks EXCEPT ![d] =
    IF @.retries > 0 THEN [pc |-> "waiting", retries |-> @.retries - 1]
    ELSE [@ EXCEPT !.pc = "finished"]]

\* The next attempt, or the dead letter, or the end.
AfterFailure(d) ==
  tasks' = [tasks EXCEPT ![d] =
    IF @.retries > 0 THEN [pc |-> "waiting", retries |-> @.retries - 1]
    ELSE [@ EXCEPT !.pc = IF config.listeners[d[2]].deadLetter
                          THEN "letter" ELSE "finished"]]

Fail(d) ==
  /\ tasks[d].pc = "handling"
  /\ Send(<<Message("failed", d[2])>>)
  /\ Count("failed", d[2])
  /\ AfterFailure(d)
  /\ TaskUnchanged

\* The handler is dropped in its sleep: nothing is reported.
TimeOut(d) ==
  /\ tasks[d].pc = "handling" /\ config.timeout
  /\ Count("cut", d[2])
  /\ AfterFailure(d)
  /\ TaskUnchanged /\ UNCHANGED channel

Letter(d) ==
  /\ tasks[d].pc = "letter"
  /\ Send(<<Message("letter", d[2])>>)
  /\ truth' = [truth EXCEPT !.letters = @ + 1]
  /\ Set(d, "finished")
  /\ TaskUnchanged

Delivery(d) == Begin(d) \/ Complete(d) \/ Fail(d) \/ TimeOut(d) \/ Letter(d)

-----------------------------------------------------------------------------
(* The collector and the user *)

Larger(a, b) == IF a > b THEN a ELSE b

LetterCountedAsEnd(l) ==
  [viz EXCEPT !.letters = @ + 1, !.processed = @ + 1, !.inFlight[l] = @ - 1]

LetterCounted(l) == [viz EXCEPT !.letters = @ + 1, !.processed = @ + 1]

\* run_collector: the counters after one message.
Counted(m) ==
  CASE m.kind = "published" -> [viz EXCEPT !.published = @ + 1]
    [] m.kind = "started" -> [viz EXCEPT !.inFlight[m.listener] = @ + 1]
    [] m.kind = "completed" ->
         [viz EXCEPT !.handled[m.listener] = @ + 1, !.inFlight[m.listener] = @ - 1,
                     !.processed = @ + 1]
    [] m.kind = "failed" ->
         [viz EXCEPT !.failed[m.listener] = @ + 1, !.inFlight[m.listener] = @ - 1]
    [] m.kind = "letter" -> LetterCounted(m.listener)
    [] m.kind = "stopped" ->
         [viz EXCEPT !.published = Larger(m.total, @), !.draining = TRUE]
    [] m.kind = "done" -> [viz EXCEPT !.done = TRUE]

CollectOn ==
  /\ collector /\ channel # <<>>
  /\ viz' = Counted(Head(channel))
  /\ channel' = Tail(channel)
  /\ UNCHANGED <<config, publisherVars, tasks, collector, closer, left, truth>>

\* After SimulationDone the collector ends; what is in the channel is dropped.
Collect ==
  /\ collector /\ channel # <<>>
  /\ viz' = Counted(Head(channel))
  /\ collector' = ~viz'.done
  /\ channel' = IF collector' THEN Tail(channel) ELSE <<>>
  /\ UNCHANGED <<config, publisherVars, tasks, closer, left, truth>>

\* SimHandle::stop, for r and c once the simulation is done.
Leave ==
  /\ viz.done /\ ~left
  /\ left' = TRUE
  /\ UNCHANGED <<config, publisherVars, tasks, channel, collector, viz, closer, truth>>

\* The shutdown that stop spawns runs on its own.
LeaveCloses ==
  /\ left /\ ~Stopped
  /\ closer' = "user"
  /\ UNCHANGED <<config, publisherVars, tasks, channel, collector, viz, left, truth>>

LeaveAborts ==
  /\ closer = "user"
  /\ InFlightAsync # {}
  /\ AbortAll
  /\ UNCHANGED <<config, publisherVars, channel, collector, viz, closer, left>>

\* The simulation task is aborted at its next await; the collector has ended.
Kill ==
  /\ left /\ simPc \in {"closing", "shutdown"}
  /\ GoTo("aborted")
  /\ UNCHANGED <<config, seq, batch, todo, tasks, channel, collector, viz, closer, left, truth>>

SimNext ==
  \/ SimTask
  \/ \E d \in DOMAIN tasks : Delivery(d)
  \/ Collect
  \/ Leave \/ LeaveCloses \/ LeaveAborts \/ Kill

SimSpec == SimInit /\ [][SimNext]_simVars

\* Tasks are polled, handlers end, ticks come, and the collector is scheduled.
SimFairSpec ==
  /\ SimSpec
  /\ WF_simVars(SimTask) /\ WF_simVars(Collect)
  /\ \A d \in (1 .. MaxEvents) \X UNION {DOMAIN c.listeners : c \in Configs} :
       WF_simVars(d \in DOMAIN tasks /\ Delivery(d))

-----------------------------------------------------------------------------
(* Properties *)

\* What is shown makes sense at any moment, with every order of the reports: no
\* gauge of running handlers is negative, and a delivery is processed at most once,
\* with however many attempts, as the target counts deliveries.
MetricsSound ==
  /\ \A l \in Listeners : viz.inFlight[l] >= 0
  /\ viz.processed <= truth.begun

\* A simulation that ran for a duration has drained the bus before it says that it
\* is done: the frozen counters are what happened, and a gauge that is not zero
\* then is the number of attempts that a timeout or an abort cut short.
FinalCountsExact ==
  viz.done /\ config.target = NoTarget =>
    /\ viz.published = truth.published
    /\ viz.handled = truth.handled
    /\ viz.failed = truth.failed
    /\ viz.letters = truth.letters
    /\ viz.inFlight = truth.cut

\* The number of published events, which the final total overwrites, never falls:
\* the sampler's unsigned subtraction relies on it.  No counter changes once the
\* simulation is done, though handlers of one with a target may still run and report.
GrowThenFreeze ==
  [][/\ viz'.published >= viz.published
     /\ viz.done => viz' = viz]_simVars

\* A simulation whose every event is answered is done in the end.
SimulationFinishes == <>viz.done
=============================================================================
