---------------------------- MODULE TaskTracker ----------------------------
(***************************************************************************)
(* AsyncTaskTracker: the counter of async listener tasks, the map of their *)
(* abort handles, and the shutdown that waits for the tasks and aborts     *)
(* what a timeout leaves behind.  spawn_tracked holds the map lock from    *)
(* its check of `rejecting_new_tasks` to the insertion of the handle; the  *)
(* other users of the map hold it for one operation, so only spawners ever *)
(* appear as owners.  Without a shutdown_timeout there is no map at all.   *)
(* BusShutdown puts the tracker behind the dispatch gate and checks both.  *)
(***************************************************************************)
EXTENDS Integers, FiniteSets

CONSTANTS
  Spawners,   \* the dispatches that call spawn_tracked
  NoOwner,    \* the map lock is free
  MaxTasks    \* bound of the model: how many tasks are ever spawned

Tasks == 1 .. MaxTasks

VARIABLES
  tracked,    \* is there a `tasks` map, that is, a shutdown_timeout?
  inFlight,   \* in_flight
  rejecting,  \* rejecting_new_tasks
  mapOwner,   \* who holds the lock of `tasks`
  handles,    \* the ids with an abort handle in `tasks`
  nextId,     \* next_id
  task,       \* where each spawned task is
  aborted,    \* the tasks whose abort handle was used
  spPc,       \* where each spawn_tracked call is
  spId,       \* the id it drew
  sdPc,       \* where shutdown is
  sdWaiter,   \* its Notified future
  toAbort     \* the handles it drained from the map and has still to use

spawnVars == <<spPc, spId, nextId>>
downVars  == <<sdPc, sdWaiter, toAbort>>
vars      == <<tracked, inFlight, rejecting, mapOwner, handles, task, aborted, spawnVars, downVars>>

TaskStates == {"unborn", "running", "removing", "removing_last", "notify", "done",
               "cancelled", "panicked"}
SpawnStates == {"idle", "locked", "cleared", "counted", "started", "rejected"}
DownStates == {"idle", "arm", "check", "wait", "timed_out", "collect", "abort",
               "clean", "gave_up", "cancelled"}

Init ==
  /\ tracked \in BOOLEAN
  /\ inFlight = 0
  /\ rejecting = FALSE
  /\ mapOwner = NoOwner
  /\ handles = {}
  /\ nextId = 1
  /\ task = [t \in Tasks |-> "unborn"]
  /\ aborted = {}
  /\ spPc = [p \in Spawners |-> "idle"]
  /\ spId = [p \in Spawners |-> 0]
  /\ sdPc = "idle"
  /\ sdWaiter = "none"
  /\ toAbort = {}

\* Bound of the model: every spawn_tracked call under way can still draw an id.
Room == nextId + Cardinality({p \in Spawners : spPc[p] # "idle"}) <= MaxTasks

-----------------------------------------------------------------------------
(* spawn_tracked *)

Advance(p, pc) == spPc' = [spPc EXCEPT ![p] = pc]

SpawnCallUnlocked(p) ==
  /\ spPc[p] = "idle"
  /\ Room
  /\ UNCHANGED mapOwner
  /\ Advance(p, "locked")
  /\ UNCHANGED <<tracked, inFlight, rejecting, handles, task, aborted, spId, nextId, downVars>>

\* let mut guard = tasks.lock(): nothing to lock when handles are not tracked.
SpawnCall(p) ==
  /\ spPc[p] = "idle"
  /\ Room
  /\ IF tracked THEN mapOwner = NoOwner /\ mapOwner' = p ELSE UNCHANGED mapOwner
  /\ Advance(p, "locked")
  /\ UNCHANGED <<tracked, inFlight, rejecting, handles, task, aborted, spId, nextId, downVars>>

\* The check of rejecting_new_tasks; the early return drops the lock.
SpawnCheck(p) ==
  /\ spPc[p] = "locked"
  /\ IF rejecting
     THEN Advance(p, "rejected") /\ mapOwner' = NoOwner
     ELSE Advance(p, "cleared") /\ UNCHANGED mapOwner
  /\ UNCHANGED <<tracked, inFlight, rejecting, handles, task, aborted, spId, nextId, downVars>>

SpawnCount(p) ==
  /\ spPc[p] = "cleared"
  /\ inFlight' = inFlight + 1
  /\ spId' = [spId EXCEPT ![p] = nextId]
  /\ nextId' = nextId + 1
  /\ Advance(p, "counted")
  /\ UNCHANGED <<tracked, rejecting, mapOwner, handles, task, aborted, downVars>>

\* tokio::spawn: from here on the task runs, before its handle is recorded.
SpawnStart(p) ==
  /\ spPc[p] = "counted"
  /\ task' = [task EXCEPT ![spId[p]] = "running"]
  /\ Advance(p, IF tracked THEN "started" ELSE "idle")
  /\ UNCHANGED <<tracked, inFlight, rejecting, mapOwner, handles, aborted, spId, nextId, downVars>>

\* guard.insert, and the lock is dropped on return.
SpawnInsert(p) ==
  /\ spPc[p] = "started"
  /\ handles' = handles \cup {spId[p]}
  /\ mapOwner' = NoOwner
  /\ Advance(p, "idle")
  /\ UNCHANGED <<tracked, inFlight, rejecting, task, aborted, spId, nextId, downVars>>

Spawn(p) == SpawnCheck(p) \/ SpawnCount(p) \/ SpawnStart(p) \/ SpawnInsert(p)

-----------------------------------------------------------------------------
(* The spawned task and finish_task *)

Become(t, state) == task' = [task EXCEPT ![t] = state]

NotifyWaiters == sdWaiter' = IF sdWaiter = "armed" THEN "notified" ELSE sdWaiter

FinishLastMissed(t) ==
  /\ task[t] = "running"
  /\ inFlight' = inFlight - 1
  /\ Become(t, IF inFlight' = 1 THEN "removing_last" ELSE "removing")
  /\ UNCHANGED <<tracked, rejecting, mapOwner, handles, aborted, spawnVars, downVars>>

\* The future completed: fetch_sub, remembering whether it was the last.
Finish(t) ==
  /\ task[t] = "running"
  /\ inFlight' = inFlight - 1
  /\ Become(t, IF inFlight = 1 THEN "removing_last" ELSE "removing")
  /\ UNCHANGED <<tracked, rejecting, mapOwner, handles, aborted, spawnVars, downVars>>

\* remove_abort_handle: the lock is taken for this one operation.
RemoveHandle(t) ==
  /\ task[t] \in {"removing", "removing_last"}
  /\ IF tracked THEN mapOwner = NoOwner /\ handles' = handles \ {t} ELSE UNCHANGED handles
  /\ Become(t, IF task[t] = "removing_last" THEN "notify" ELSE "done")
  /\ UNCHANGED <<tracked, inFlight, rejecting, mapOwner, aborted, spawnVars, downVars>>

NotifyIdle(t) ==
  /\ task[t] = "notify"
  /\ Become(t, "done")
  /\ NotifyWaiters
  /\ UNCHANGED <<tracked, inFlight, rejecting, mapOwner, handles, aborted, spawnVars, sdPc, toAbort>>

\* An aborted task is dropped at an await point and never reaches finish_task;
\* until then it goes on, and may even complete.
Cancelled(t) ==
  /\ task[t] = "running"
  /\ t \in aborted
  /\ Become(t, "cancelled")
  /\ UNCHANGED <<tracked, inFlight, rejecting, mapOwner, handles, aborted, spawnVars, downVars>>

\* The future panics outside the catch of its handler, as the jitter of a retry
\* delay can (types.rs:97): the task unwinds past finish_task.
Panic(t) ==
  /\ task[t] = "running"
  /\ Become(t, "panicked")
  /\ UNCHANGED <<tracked, inFlight, rejecting, mapOwner, handles, aborted, spawnVars, downVars>>

Exit(t) == RemoveHandle(t) \/ NotifyIdle(t)

Run(t) == Finish(t) \/ Exit(t) \/ Cancelled(t) \/ Panic(t)

-----------------------------------------------------------------------------
(* reject_new_tasks and shutdown *)

Proceed(pc) == sdPc' = pc

\* Called by EventBus::shutdown, before shutdown, when the gate did not drain.
RejectNewTasks ==
  /\ sdPc = "idle"
  /\ rejecting' = TRUE
  /\ UNCHANGED <<tracked, inFlight, mapOwner, handles, task, aborted, spawnVars, downVars>>

ShutdownCall ==
  /\ sdPc = "idle"
  /\ Proceed(IF inFlight = 0 THEN "clean" ELSE "arm")
  /\ UNCHANGED <<tracked, inFlight, rejecting, mapOwner, handles, task, aborted, spawnVars, sdWaiter, toAbort>>

Arm ==
  /\ sdPc = "arm"
  /\ sdWaiter' = "armed"
  /\ Proceed("check")
  /\ UNCHANGED <<tracked, inFlight, rejecting, mapOwner, handles, task, aborted, spawnVars, toAbort>>

CheckThenArm ==
  /\ sdPc = "check"
  /\ CASE sdWaiter = "none" -> Proceed("wait") /\ sdWaiter' = "armed"
       [] inFlight = 0      -> Proceed("clean") /\ sdWaiter' = "none"
       [] OTHER             -> UNCHANGED sdPc /\ sdWaiter' = "none"
  /\ UNCHANGED <<tracked, inFlight, rejecting, mapOwner, handles, task, aborted, spawnVars, toAbort>>

Check ==
  /\ sdPc = "check"
  /\ IF inFlight = 0
     THEN Proceed("clean") /\ sdWaiter' = "none"
     ELSE Proceed("wait") /\ UNCHANGED sdWaiter
  /\ UNCHANGED <<tracked, inFlight, rejecting, mapOwner, handles, task, aborted, spawnVars, toAbort>>

Wake ==
  /\ sdPc = "wait"
  /\ sdWaiter = "notified"
  /\ sdWaiter' = "none"
  /\ Proceed("arm")
  /\ UNCHANGED <<tracked, inFlight, rejecting, mapOwner, handles, task, aborted, spawnVars, toAbort>>

\* The timer fires; a zero timeout fires on the first poll that has to wait.
Expire ==
  /\ tracked
  /\ sdPc = "wait"
  /\ sdWaiter = "armed"
  /\ sdWaiter' = "none"
  /\ Proceed("timed_out")
  /\ UNCHANGED <<tracked, inFlight, rejecting, mapOwner, handles, task, aborted, spawnVars, toAbort>>

\* self.reject_new_tasks()
RejectRest ==
  /\ sdPc = "timed_out"
  /\ rejecting' = TRUE
  /\ Proceed("collect")
  /\ UNCHANGED <<tracked, inFlight, mapOwner, handles, task, aborted, spawnVars, sdWaiter, toAbort>>

CollectUnlocked ==
  /\ sdPc = "collect"
  /\ toAbort' = handles
  /\ handles' = {}
  /\ Proceed("abort")
  /\ UNCHANGED <<tracked, inFlight, rejecting, mapOwner, task, aborted, spawnVars, sdWaiter>>

\* guard.drain() under the lock, released before the handles are used.
Collect ==
  /\ sdPc = "collect"
  /\ mapOwner = NoOwner
  /\ toAbort' = handles
  /\ handles' = {}
  /\ Proceed("abort")
  /\ UNCHANGED <<tracked, inFlight, rejecting, mapOwner, task, aborted, spawnVars, sdWaiter>>

AbortOne(t) ==
  /\ sdPc = "abort"
  /\ t \in toAbort
  /\ toAbort' = toAbort \ {t}
  /\ aborted' = aborted \cup {t}
  /\ UNCHANGED <<tracked, inFlight, rejecting, mapOwner, handles, task, spawnVars, sdPc, sdWaiter>>

GiveUp ==
  /\ sdPc = "abort"
  /\ toAbort = {}
  /\ Proceed("gave_up")
  /\ UNCHANGED <<tracked, inFlight, rejecting, mapOwner, handles, task, aborted, spawnVars, sdWaiter, toAbort>>

\* The caller drops the shutdown future at its await point.
CancelShutdown ==
  /\ sdPc = "wait"
  /\ sdWaiter' = "none"
  /\ Proceed("cancelled")
  /\ UNCHANGED <<tracked, inFlight, rejecting, mapOwner, handles, task, aborted, spawnVars, toAbort>>

AwaitTasks ==
  \/ Arm \/ Check \/ Wake \/ Expire \/ RejectRest \/ Collect \/ GiveUp
  \/ \E t \in Tasks : AbortOne(t)

-----------------------------------------------------------------------------

Over(t) == task[t] \in {"unborn", "done", "cancelled", "panicked"}

\* Nothing is left to do, at least not within the bound on tasks.
Settled ==
  /\ sdPc \in {"clean", "gave_up", "cancelled"}
  /\ \A p \in Spawners : spPc[p] \in {"idle", "rejected"}
  /\ \A t \in Tasks : Over(t)
  /\ UNCHANGED vars

Next ==
  \/ \E p \in Spawners : SpawnCall(p) \/ Spawn(p)
  \/ \E t \in Tasks : Run(t)
  \/ RejectNewTasks \/ ShutdownCall \/ AwaitTasks \/ CancelShutdown
  \/ Settled

Spec == Init /\ [][Next]_vars

-----------------------------------------------------------------------------
(* Properties *)

TypeOK ==
  /\ inFlight \in Nat
  /\ rejecting \in BOOLEAN
  /\ mapOwner \in Spawners \cup {NoOwner}
  /\ handles \subseteq Tasks
  /\ nextId \in Nat
  /\ task \in [Tasks -> TaskStates]
  /\ aborted \subseteq Tasks
  /\ spPc \in [Spawners -> SpawnStates]
  /\ spId \in [Spawners -> Tasks \cup {0}]
  /\ sdPc \in DownStates
  /\ sdWaiter \in {"none", "armed", "notified"}
  /\ toAbort \subseteq Tasks

Spawning == {spId[p] : p \in {q \in Spawners : spPc[q] = "counted"}}
Lost     == {t \in Tasks : task[t] \in {"cancelled", "panicked"}}
Running  == {t \in Tasks : task[t] = "running"}

\* in_flight counts the tasks that run or are about to, and for ever the ones
\* that were aborted or panicked, because those never reach finish_task.
CountIsTasks == inFlight = Cardinality(Spawning \cup Running \cup Lost)

\* The handle of a task that went through finish_task is not left in the map:
\* the lock makes the insertion come before the removal, however fast the task.
NoLeakedHandle ==
  \A t \in Tasks : task[t] \in {"notify", "done"} => t \notin handles

\* A timeout leaves no task behind: when shutdown reports it, every task that
\* still runs was told to stop, and no spawn_tracked call can add another.
GaveUpAbortsAll ==
  sdPc = "gave_up" =>
    /\ Running \subseteq aborted
    /\ \A p \in Spawners : spPc[p] \notin {"cleared", "counted", "started"}

\* If nothing is in flight while shutdown sleeps unnotified, the task that
\* counted down to zero is still on its way to notify_waiters.
NoLostWakeup ==
  sdPc = "wait" /\ sdWaiter = "armed" /\ inFlight = 0
    => \E t \in Tasks : task[t] \in {"removing_last", "notify"}
=============================================================================
