---------------------------- MODULE BusShutdown ----------------------------
(***************************************************************************)
(* EventBus::shutdown end to end: the gate of DispatchGate in front of the *)
(* tasks of TaskTracker.  A publish call spawns tasks only while it holds  *)
(* its guard; the shutdown call that closed the gate waits for it to drain *)
(* and then shuts the tracker down, or, when the gate timed out, tells the *)
(* tracker to reject new tasks and shuts it down with a zero timeout.      *)
(***************************************************************************)
EXTENDS Integers, FiniteSets

CONSTANTS
  Publishers,   \* the callers of publish
  Shutters,     \* the callers of shutdown
  CountMask,    \* DISPATCH_COUNT_MASK
  NoOwner,      \* the lock of the tracker's map is free
  MaxTasks      \* bound of the model: how many tasks are ever spawned

ASSUME ShutdownAssumption ==
  /\ IsFiniteSet(Publishers) /\ NoOwner \notin Publishers
  /\ CountMask \in Nat \ {0}
  /\ MaxTasks \in Nat

VARIABLES
  timed, word, pubPc, pubSeen, shutPc, shutSeen, waiter,
  inFlight, rejecting, mapOwner, handles, nextId, task, aborted,
  spPc, spId, sdPc, sdWaiter, toAbort

Gate == INSTANCE DispatchGate

\* from_config tracks abort handles exactly when there is a shutdown_timeout.
Tracker == INSTANCE TaskTracker WITH Spawners <- Publishers, tracked <- timed

gateVars == <<timed, word, pubPc, pubSeen, shutPc, shutSeen, waiter>>

trackerVars == <<inFlight, rejecting, mapOwner, handles, nextId, task, aborted,
                 spPc, spId, sdPc, sdWaiter, toAbort>>

vars == <<gateVars, trackerVars>>

Init == Gate!Init /\ Tracker!Init

-----------------------------------------------------------------------------
(* publish: begin_dispatch, spawn for each async listener, drop the guard *)

Admit(p) ==
  /\ Gate!BeginLoad(p) \/ Gate!Enter(p) \/ Gate!EnterRetry(p) \/ Gate!NotifyDrained(p)
  /\ UNCHANGED trackerVars

SpawnListener(p) ==
  /\ pubPc[p] = "inside"
  /\ Tracker!SpawnCall(p)
  /\ UNCHANGED gateVars

SpawnStep(p) == Tracker!Spawn(p) /\ UNCHANGED gateVars

LeaveWhileSpawning(p) == Gate!Leave(p) /\ UNCHANGED trackerVars

\* spawn_tracked has no await: the guard is dropped before or after it.
Leave(p) ==
  /\ spPc[p] \in {"idle", "rejected"}
  /\ Gate!Leave(p)
  /\ UNCHANGED trackerVars

Publish(p) == Admit(p) \/ SpawnListener(p) \/ SpawnStep(p) \/ Leave(p)

Listener(t) == Tracker!Run(t) /\ UNCHANGED gateVars

-----------------------------------------------------------------------------
(* shutdown *)

CloseGate(s) == Gate!Shutdown(s) /\ UNCHANGED trackerVars

RejectNewTasks(s) ==
  /\ shutPc[s] = "expired"
  /\ ~rejecting
  /\ Tracker!RejectNewTasks
  /\ UNCHANGED gateVars

SkipTracker(s) ==
  /\ shutPc[s] = "drained" \/ (shutPc[s] = "expired" /\ rejecting)
  /\ sdPc = "idle"
  /\ sdPc' = "clean"
  /\ UNCHANGED <<gateVars, inFlight, rejecting, mapOwner, handles, nextId, task, aborted,
                 spPc, spId, sdWaiter, toAbort>>

TrackerShutdown(s) ==
  /\ shutPc[s] = "drained" \/ (shutPc[s] = "expired" /\ rejecting)
  /\ Tracker!ShutdownCall
  /\ UNCHANGED gateVars

AwaitTasks == Tracker!AwaitTasks /\ UNCHANGED gateVars

Cancel == Tracker!CancelShutdown /\ UNCHANGED gateVars

Shutdown(s) == CloseGate(s) \/ RejectNewTasks(s) \/ TrackerShutdown(s)

Settled ==
  /\ \A p \in Publishers : pubPc[p] \in {"refused", "panicked"}
  /\ \A s \in Shutters : shutPc[s] \in {"noop", "drained", "expired", "cancelled"}
  /\ sdPc \in {"idle", "clean", "gave_up", "cancelled"}
  /\ sdPc = "idle" => \A s \in Shutters : shutPc[s] \in {"noop", "cancelled"}
  /\ \A t \in Tracker!Tasks : Tracker!Over(t)
  /\ UNCHANGED vars

Next ==
  \/ \E p \in Publishers : Publish(p)
  \/ \E t \in Tracker!Tasks : Listener(t)
  \/ \E s \in Shutters : Shutdown(s)
  \/ AwaitTasks
  \/ Cancel
  \/ Settled

Spec == Init /\ [][Next]_vars

-----------------------------------------------------------------------------
(* Fairness.  Threads that are between two atomic operations go on, and     *)
(* timers fire.  That handlers, and with them publish calls and tasks, come *)
(* to an end is assumed only where there is no shutdown_timeout.            *)

FairSpec ==
  /\ Spec
  /\ \A p \in Publishers :
       /\ WF_vars(SpawnStep(p))
       /\ WF_vars(Leave(p) /\ ~timed)
       /\ WF_vars(Gate!NotifyDrained(p) /\ UNCHANGED trackerVars)
  /\ \A t \in Tracker!Tasks :
       /\ WF_vars(Tracker!Finish(t) /\ ~timed /\ UNCHANGED gateVars)
       /\ WF_vars(Tracker!Exit(t) /\ UNCHANGED gateVars)
  /\ \A s \in Shutters :
       WF_vars(\/ Gate!AwaitDrain(s) /\ UNCHANGED trackerVars
               \/ RejectNewTasks(s)
               \/ TrackerShutdown(s))
  /\ WF_vars(AwaitTasks)

-----------------------------------------------------------------------------
(* Properties *)

Drained(s) == shutPc[s] = "drained" /\ sdPc = "clean"

\* shutdown returned Err(ShutdownTimeout).
TimedOut ==
  \/ sdPc = "gave_up"
  \/ sdPc = "clean" /\ \E s \in Shutters : shutPc[s] = "expired"

\* What the tracker keeps of a task goes with the task: in_flight is the number of
\* spawned tasks, and counts for ever the ones that were aborted or panicked; a
\* task that finished before its handle was recorded leaves none in the map.
TasksAccounted == Tracker!CountIsTasks /\ Tracker!NoLeakedHandle

\* A timeout of the tracker leaves no task unaborted and lets none be added.
GaveUpAbortsAll == Tracker!GaveUpAbortsAll

\* The tracker never sleeps with nothing in flight and no wake-up on its way.
NoLostWakeup == Tracker!NoLostWakeup

\* What the caller of an effective shutdown may rely on.  After Ok the bus is
\* silent: no publish call inside, no task running, none about to be spawned.  After
\* a timeout at most one task was not told to stop: the map lock lets a single
\* spawn_tracked call be past its check of rejecting_new_tasks.
QuietOnReturn ==
  /\ (\E s \in Shutters : Drained(s)) =>
       /\ Gate!Holders = {}
       /\ Tracker!Running = {}
       /\ \A p \in Publishers : spPc[p] \in {"idle", "rejected"}
  /\ TimedOut =>
       Cardinality((Tracker!Running \ aborted)
                   \cup {p \in Publishers : spPc[p] \in {"cleared", "counted"}}) <= 1

\* "Remaining async tasks are aborted": when shutdown has reported
\* ShutdownTimeout, no task runs that was not told to stop.
TimeoutAbortsAll == TimedOut => Tracker!Running \subseteq aborted

\* shutdown returns: because handlers end or, with a shutdown_timeout, whatever
\* the handlers do.  Without one, a single task that panicked keeps it waiting
\* for ever: it is counted, and nobody counts it down.
ShutdownReturns ==
  \A s \in Shutters :
    shutPc[s] \in Gate!CloserStates
      ~> \/ shutPc[s] = "cancelled" \/ sdPc \in {"clean", "gave_up", "cancelled"}
         \/ ~timed /\ \E t \in Tracker!Tasks : task[t] = "panicked"

-----------------------------------------------------------------------------
(* The abstract promise *)

Phase ==
  IF ~Gate!Closed(word) THEN "open"
  ELSE IF \E s \in Shutters : Drained(s) THEN "ok"
  ELSE IF \/ TimedOut \/ sdPc = "cancelled"
          \/ \E s \in Shutters : shutPc[s] = "cancelled" THEN "early"
  ELSE "closing"

Promise == INSTANCE Quiescence WITH
  Tasks <- Tracker!Tasks, phase <- Phase, calls <- Gate!Holders, tasks <- Tracker!Running

\* Gate and tracker together implement Quiescence.
ImplementsQuiescence == Promise!Spec
=============================================================================
