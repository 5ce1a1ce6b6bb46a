-------------------------- MODULE TaskTrackerProofs --------------------------
(***************************************************************************)
(* Proofs about TaskTracker, for any number of dispatches and tasks.  The  *)
(* invariant is built around the lock of the map: it names the one         *)
(* dispatch that may be between its check of rejecting_new_tasks and the   *)
(* insertion of its handle, and follows every running task to the place    *)
(* where its abort handle is.  BusShutdownProofs cites the result.         *)
(***************************************************************************)
EXTENDS TaskTracker, FiniteSetTheorems, TLAPS

Assumptions ==
  /\ IsFiniteSet(Spawners)
  /\ NoOwner \notin Spawners
  /\ MaxTasks \in Nat

Entering == {p \in Spawners : spPc[p] \in {"locked", "cleared"}}

(* Every spawn_tracked call under way will find an id within the bound.    *)
RoomKept == nextId + Cardinality(Entering) <= MaxTasks + 1

(* Ids are drawn once: what is not drawn is unborn, and what is drawn is   *)
(* unborn until the one call that drew it starts it.                       *)
IdsFresh ==
  /\ nextId >= 1
  /\ \A t \in Tasks : t >= nextId => task[t] = "unborn"
  /\ \A p \in Spawners :
       spPc[p] \in {"counted", "started"} => spId[p] \in Tasks /\ spId[p] < nextId
  /\ \A p \in Spawners : spPc[p] = "counted" => task[spId[p]] = "unborn"
  /\ \A p, q \in Spawners :
       spPc[p] = "counted" /\ spPc[q] = "counted" /\ spId[p] = spId[q] => p = q

(* The lock of the map is held by whoever is inside spawn_tracked.         *)
LockHeld ==
  /\ tracked => \A p \in Spawners :
       mapOwner = p <=> spPc[p] \in {"locked", "cleared", "counted", "started"}
  /\ ~tracked => /\ handles = {} /\ mapOwner = NoOwner
                 /\ \A p \in Spawners : spPc[p] # "started"

(* While the lock is held the handle of a started task is still to come,   *)
(* so the task cannot have removed it.                                     *)
HandleAwaited ==
  \A p \in Spawners : spPc[p] = "started" => task[spId[p]] \notin {"unborn", "notify", "done"}

(* Where the abort handle of a running task is.                            *)
HandleFound ==
  tracked => \A t \in Running :
    \/ t \in handles \cup toAbort \cup aborted
    \/ \E p \in Spawners : spPc[p] = "started" /\ spId[p] = t

(* A shutdown that collects the handles rejects new tasks; once it has got *)
(* the lock, nobody is past the check and no handle is added.              *)
Collecting ==
  /\ sdPc \in {"timed_out", "collect", "abort", "gave_up"} => tracked
  /\ sdPc \in {"collect", "abort", "gave_up"} => rejecting
  /\ sdPc \in {"abort", "gave_up"} =>
       /\ handles = {}
       /\ \A p \in Spawners : spPc[p] \notin {"cleared", "counted", "started"}
  /\ sdPc # "abort" => toAbort = {}

IInv ==
  /\ TypeOK /\ RoomKept /\ IdsFresh /\ LockHeld /\ HandleAwaited /\ HandleFound /\ Collecting
  /\ CountIsTasks /\ NoLeakedHandle /\ NoLostWakeup

\* What in_flight counts.
Counted == Spawning \cup Running \cup Lost

\* A task more or less in a set of tasks is one more or less in its count.
LEMMA TasksChange ==
  ASSUME Assumptions, NEW S \in SUBSET Tasks, NEW t \in Tasks
  PROVE  /\ Cardinality(S) \in Nat
         /\ t \notin S => Cardinality(S \cup {t}) = Cardinality(S) + 1
         /\ t \in S => /\ Cardinality(S) > 0
                       /\ Cardinality(S \ {t}) = Cardinality(S) - 1
<1>1. IsFiniteSet(Tasks)
  BY FS_Interval DEF Tasks, Assumptions
<1>2. IsFiniteSet(S)
  BY <1>1, FS_Subset
<1>3. t \in S => Cardinality(S) > 0
  BY <1>2, FS_EmptySet, FS_CardinalityType
<1> QED
  BY <1>2, <1>3, FS_AddElement, FS_RemoveElement, FS_CardinalityType

\* A dispatch more or less, likewise.
LEMMA SpawnersChange ==
  ASSUME Assumptions, NEW S \in SUBSET Spawners, NEW p \in Spawners
  PROVE  /\ Cardinality(S) \in Nat
         /\ p \notin S => Cardinality(S \cup {p}) = Cardinality(S) + 1
         /\ p \in S => /\ Cardinality(S) > 0
                       /\ Cardinality(S \ {p}) = Cardinality(S) - 1
<1>1. IsFiniteSet(S)
  BY FS_Subset DEF Assumptions
<1>2. p \in S => Cardinality(S) > 0
  BY <1>1, FS_EmptySet, FS_CardinalityType
<1> QED
  BY <1>1, <1>2, FS_AddElement, FS_RemoveElement, FS_CardinalityType

\* In the initial state there is no task and no call.
LEMMA InitInv == ASSUME Assumptions, Init PROVE IInv
<1> USE DEF Init, Assumptions
<1>1. TypeOK
  BY DEF TypeOK, TaskStates, SpawnStates, DownStates, Tasks
<1>2. RoomKept
  <2>1. Entering = {} BY DEF Entering
  <2> QED BY <2>1, FS_EmptySet DEF RoomKept
<1>3. CountIsTasks
  <2>1. Spawning \cup Running \cup Lost = {} BY DEF Spawning, Running, Lost
  <2> QED BY <2>1, FS_EmptySet DEF CountIsTasks
<1>4. IdsFresh /\ LockHeld /\ HandleAwaited /\ HandleFound /\ Collecting
  BY DEF IdsFresh, LockHeld, HandleAwaited, HandleFound, Running, Collecting
<1>5. NoLeakedHandle /\ NoLostWakeup
  BY DEF NoLeakedHandle, NoLostWakeup
<1> QED
  BY <1>1, <1>2, <1>3, <1>4, <1>5 DEF IInv

\* The counter under one step, from what the step does to the counted tasks.
LEMMA CountStep ==
  ASSUME Assumptions, IInv, NEW t \in Tasks,
         \/ t \notin Counted /\ Counted' = Counted \cup {t} /\ inFlight' = inFlight + 1
         \/ t \in Counted /\ Counted' = Counted \ {t} /\ inFlight' = inFlight - 1
  PROVE  CountIsTasks' /\ inFlight' \in Nat
<1>1. Counted \in SUBSET Tasks
  BY DEF Counted, Spawning, Running, Lost, IInv, IdsFresh
<1>2. inFlight = Cardinality(Counted)
  BY DEF IInv, CountIsTasks, Counted
<1>3. inFlight' = Cardinality(Counted') /\ inFlight' \in Nat
  <2>1. /\ Cardinality(Counted) \in Nat
        /\ t \notin Counted => Cardinality(Counted \cup {t}) = Cardinality(Counted) + 1
        /\ t \in Counted => /\ Cardinality(Counted) > 0
                            /\ Cardinality(Counted \ {t}) = Cardinality(Counted) - 1
    BY <1>1, TasksChange
  <2>2. CASE t \notin Counted /\ Counted' = Counted \cup {t} /\ inFlight' = inFlight + 1
    BY <1>2, <2>1, <2>2
  <2>3. CASE t \in Counted /\ Counted' = Counted \ {t} /\ inFlight' = inFlight - 1
    BY <1>2, <2>1, <2>3
  <2> QED BY <2>2, <2>3
<1> QED
  BY <1>3 DEF CountIsTasks, Counted

\* Every step of spawn_tracked keeps IInv.
LEMMA SpawnKeeps ==
  ASSUME Assumptions, IInv, NEW p \in Spawners, SpawnCall(p) \/ Spawn(p)
  PROVE  IInv'
<1> USE DEF TypeOK, Advance, downVars, SpawnStates
<1>1. NoOwner \notin Spawners /\ MaxTasks \in Nat
  BY DEF Assumptions
<1>2. TypeOK BY DEF IInv
<1>3. CASE SpawnCall(p)
  <2> USE <1>2, <1>3 DEF SpawnCall
  <2>1. TypeOK' OBVIOUS
  <2>2. RoomKept'
    <3> DEFINE Busy == {q \in Spawners : spPc[q] # "idle"}
    <3>1. Entering' = Entering \cup {p} /\ p \notin Entering /\ Entering \subseteq Busy
      BY DEF Entering
    <3>2. Entering \in SUBSET Spawners /\ Busy \in SUBSET Spawners
      BY DEF Entering
    <3>3. Cardinality(Entering) <= Cardinality(Busy)
      BY <3>1, <3>2, FS_Subset DEF Assumptions
    <3>4. Cardinality(Entering') = Cardinality(Entering) + 1
      BY <3>1, <3>2, SpawnersChange
    <3>5. Cardinality(Entering) \in Nat /\ Cardinality(Busy) \in Nat
      BY <3>2, SpawnersChange
    <3> QED BY <1>1, <3>3, <3>4, <3>5 DEF RoomKept, Room
  <2>3. IdsFresh' /\ HandleAwaited' BY DEF IInv, IdsFresh, HandleAwaited
  <2>4. LockHeld' BY <1>1 DEF IInv, LockHeld
  <2>5. Spawning' = Spawning /\ Running' = Running /\ Lost' = Lost
    BY DEF Spawning, Running, Lost
  <2>6. HandleFound' BY <2>5 DEF IInv, HandleFound
  <2>7. Collecting' BY DEF IInv, Collecting
  <2>8. CountIsTasks' BY <2>5 DEF IInv, CountIsTasks
  <2>9. NoLeakedHandle' /\ NoLostWakeup' BY DEF IInv, NoLeakedHandle, NoLostWakeup
  <2> QED BY <2>1, <2>2, <2>3, <2>4, <2>6, <2>7, <2>8, <2>9 DEF IInv
<1>4. CASE SpawnCheck(p)
  <2> USE <1>2, <1>4 DEF SpawnCheck
  <2>1. TypeOK' OBVIOUS
  <2>2. RoomKept'
    <3>1. Entering' = Entering \/ Entering' = Entering \ {p} BY DEF Entering
    <3>2. p \in Entering /\ Entering \in SUBSET Spawners BY DEF Entering
    <3>3. Cardinality(Entering') <= Cardinality(Entering) /\ Cardinality(Entering') \in Nat
          /\ Cardinality(Entering) \in Nat
      <4>1. /\ Cardinality(Entering) \in Nat
            /\ Cardinality(Entering) > 0
            /\ Cardinality(Entering \ {p}) = Cardinality(Entering) - 1
        BY <3>2, SpawnersChange
      <4> QED BY <3>1, <4>1
    <3> QED BY <1>1, <3>3 DEF RoomKept, IInv
  <2>3. IdsFresh' /\ HandleAwaited' BY DEF IInv, IdsFresh, HandleAwaited
  <2>4. LockHeld' BY <1>1 DEF IInv, LockHeld
  <2>5. Spawning' = Spawning /\ Running' = Running /\ Lost' = Lost
    BY DEF Spawning, Running, Lost
  <2>6. HandleFound' BY <2>5 DEF IInv, HandleFound
  <2>7. Collecting' BY DEF IInv, Collecting
  <2>8. CountIsTasks' BY <2>5 DEF IInv, CountIsTasks
  <2>9. NoLeakedHandle' /\ NoLostWakeup' BY DEF IInv, NoLeakedHandle, NoLostWakeup
  <2> QED BY <2>1, <2>2, <2>3, <2>4, <2>6, <2>7, <2>8, <2>9 DEF IInv
<1>5. CASE SpawnCount(p)
  <2> USE <1>2, <1>5 DEF SpawnCount
  <2>1. /\ p \in Entering /\ Entering' = Entering \ {p}
        /\ Entering \in SUBSET Spawners
    BY DEF Entering
  <2>2. /\ Cardinality(Entering) > 0 /\ Cardinality(Entering) \in Nat
        /\ Cardinality(Entering') = Cardinality(Entering) - 1
    BY <2>1, SpawnersChange
  <2>3. RoomKept' BY <1>1, <2>2 DEF RoomKept, IInv
  <2>4. nextId \in Tasks BY <1>1, <2>2 DEF Tasks, IInv, RoomKept, IdsFresh
  <2>5. task[nextId] = "unborn" BY <2>4 DEF IInv, IdsFresh
  <2>6. IdsFresh' BY <2>4, <2>5 DEF IInv, IdsFresh, Tasks
  <2>7. LockHeld' BY DEF IInv, LockHeld
  <2>8. Running' = Running /\ Lost' = Lost BY DEF Running, Lost
  <2>9. Spawning' = Spawning \cup {nextId} /\ nextId \notin Counted
    BY <2>4, <2>5 DEF Spawning, Counted, Running, Lost, IInv, IdsFresh, Tasks
  <2>10. CountIsTasks' /\ inFlight' \in Nat
    BY <2>4, <2>8, <2>9, CountStep DEF Counted
  <2>11. TypeOK' BY <2>4, <2>10
  <2>12. HandleAwaited' BY DEF IInv, HandleAwaited
  <2>13. HandleFound' BY <2>8 DEF IInv, HandleFound
  <2>14. Collecting' BY DEF IInv, Collecting
  <2>15. NoLeakedHandle' /\ NoLostWakeup' BY DEF IInv, NoLeakedHandle, NoLostWakeup
  <2> QED BY <2>3, <2>6, <2>7, <2>10, <2>11, <2>12, <2>13, <2>14, <2>15 DEF IInv
<1>6. CASE SpawnStart(p)
  <2> USE <1>2, <1>6 DEF SpawnStart, TaskStates
  <2>1. spId[p] \in Tasks /\ spId[p] < nextId /\ task[spId[p]] = "unborn"
    BY DEF IInv, IdsFresh
  <2>2. TypeOK' OBVIOUS
  <2>3. RoomKept'
    <3>1. Entering' = Entering BY DEF Entering
    <3> QED BY <3>1 DEF RoomKept, IInv
  <2>4. IdsFresh' BY <2>1 DEF IInv, IdsFresh, Tasks
  <2>5. LockHeld' BY DEF IInv, LockHeld
  <2>6. HandleAwaited'
    BY <2>1 DEF IInv, HandleAwaited
  <2>7. Running' = Running \cup {spId[p]} /\ Lost' = Lost BY <2>1 DEF Running, Lost
  <2>8. Spawning' \cup {spId[p]} = Spawning
    BY DEF Spawning
  <2>9. CountIsTasks'
    <3>1. (Spawning \cup Running \cup Lost)' = Spawning \cup Running \cup Lost
      BY <2>7, <2>8
    <3> QED BY <3>1 DEF IInv, CountIsTasks
  <2>10. HandleFound' BY <2>7 DEF IInv, HandleFound
  <2>11. Collecting' BY DEF IInv, Collecting
  <2>12. NoLeakedHandle' BY <2>1 DEF IInv, NoLeakedHandle
  <2>13. NoLostWakeup' BY <2>1 DEF IInv, NoLostWakeup
  <2> QED BY <2>2, <2>3, <2>4, <2>5, <2>6, <2>9, <2>10, <2>11, <2>12, <2>13 DEF IInv
<1>7. CASE SpawnInsert(p)
  <2> USE <1>2, <1>7 DEF SpawnInsert
  <2>1. spId[p] \in Tasks /\ task[spId[p]] \notin {"unborn", "notify", "done"}
    BY DEF IInv, IdsFresh, HandleAwaited
  <2>2. TypeOK' BY <2>1
  <2>3. RoomKept'
    <3>1. Entering' = Entering BY DEF Entering
    <3> QED BY <3>1 DEF RoomKept, IInv
  <2>4. IdsFresh' /\ HandleAwaited' BY DEF IInv, IdsFresh, HandleAwaited
  <2>5. LockHeld' BY <1>1 DEF IInv, LockHeld
  <2>6. Spawning' = Spawning /\ Running' = Running /\ Lost' = Lost
    BY DEF Spawning, Running, Lost
  <2>7. CountIsTasks' BY <2>6 DEF IInv, CountIsTasks
  <2>8. HandleFound' BY <2>6 DEF IInv, HandleFound
  <2>9. Collecting' BY DEF IInv, Collecting
  <2>10. NoLeakedHandle' BY <2>1 DEF IInv, NoLeakedHandle
  <2>11. NoLostWakeup' BY DEF IInv, NoLostWakeup
  <2> QED BY <2>2, <2>3, <2>4, <2>5, <2>7, <2>8, <2>9, <2>10, <2>11 DEF IInv
<1> QED
  BY <1>3, <1>4, <1>5, <1>6, <1>7 DEF Spawn

\* Every step of a task and of finish_task keeps IInv.
LEMMA RunKeeps ==
  ASSUME Assumptions, IInv, NEW t \in Tasks, Run(t)
  PROVE  IInv'
<1> USE DEF TypeOK, Become, spawnVars, downVars, TaskStates
<1>1. TypeOK BY DEF IInv
<1>2. spPc' = spPc /\ spId' = spId /\ nextId' = nextId /\ mapOwner' = mapOwner
      /\ rejecting' = rejecting /\ tracked' = tracked
  BY DEF Run, Finish, Exit, RemoveHandle, NotifyIdle, Cancelled, Panic
<1>3. RoomKept'
  <2>1. Entering' = Entering BY <1>2 DEF Entering
  <2> QED BY <1>2, <2>1 DEF RoomKept, IInv
<1>4. Spawning' = Spawning BY <1>2 DEF Spawning
<1>5. task[t] # "unborn" => \A p \in Spawners : spPc[p] = "counted" => spId[p] # t
  BY DEF IInv, IdsFresh
<1>6. CASE Finish(t)
  <2> USE <1>1, <1>6 DEF Finish
  <2>1. t \in Counted /\ Running' = Running \ {t} /\ Lost' = Lost
    BY DEF Counted, Running, Lost
  <2>2. t \notin Spawning /\ t \notin Lost
    BY <1>5 DEF Spawning, Lost
  <2>3. Counted' = Counted \ {t} BY <1>4, <2>1, <2>2 DEF Counted
  <2>4. CountIsTasks' /\ inFlight' \in Nat BY <2>1, <2>3, CountStep
  <2>5. TypeOK' BY <2>4
  <2>6. IdsFresh' BY <1>2, <1>5 DEF IInv, IdsFresh
  <2>7. LockHeld' BY <1>2 DEF IInv, LockHeld
  <2>8. HandleAwaited' BY <1>2 DEF IInv, HandleAwaited
  <2>9. HandleFound' BY <1>2, <2>1 DEF IInv, HandleFound
  <2>10. Collecting' BY <1>2 DEF IInv, Collecting
  <2>11. NoLeakedHandle' BY DEF IInv, NoLeakedHandle
  <2>12. NoLostWakeup' BY DEF IInv, NoLostWakeup
  <2> QED BY <1>3, <2>4, <2>5, <2>6, <2>7, <2>8, <2>9, <2>10, <2>11, <2>12 DEF IInv
<1>7. CASE RemoveHandle(t)
  <2> USE <1>1, <1>7 DEF RemoveHandle
  <2>1. Running' = Running /\ Lost' = Lost BY DEF Running, Lost
  <2>2. CountIsTasks' BY <1>4, <2>1 DEF IInv, CountIsTasks
  <2>3. TypeOK' OBVIOUS
  <2>4. IdsFresh' BY <1>2, <1>5 DEF IInv, IdsFresh
  <2>5. LockHeld' BY <1>2 DEF IInv, LockHeld
  <2>6. \A p \in Spawners : spPc[p] # "started"
    BY DEF IInv, LockHeld, Assumptions
  <2>7. HandleAwaited' BY <1>2, <2>6 DEF HandleAwaited
  <2>8. t \notin Running BY DEF Running
  <2>9. HandleFound' BY <1>2, <2>1, <2>8 DEF IInv, HandleFound
  <2>10. Collecting' BY <1>2 DEF IInv, Collecting
  <2>11. NoLeakedHandle' BY DEF IInv, NoLeakedHandle, LockHeld
  <2>12. NoLostWakeup' BY DEF IInv, NoLostWakeup
  <2> QED BY <1>3, <2>2, <2>3, <2>4, <2>5, <2>7, <2>9, <2>10, <2>11, <2>12 DEF IInv
<1>8. CASE NotifyIdle(t)
  <2> USE <1>1, <1>8 DEF NotifyIdle, NotifyWaiters
  <2>1. Running' = Running /\ Lost' = Lost BY DEF Running, Lost
  <2>2. CountIsTasks' BY <1>4, <2>1 DEF IInv, CountIsTasks
  <2>3. TypeOK' OBVIOUS
  <2>4. IdsFresh' BY <1>2, <1>5 DEF IInv, IdsFresh
  <2>5. LockHeld' BY <1>2 DEF IInv, LockHeld
  <2>6. HandleAwaited' BY <1>2 DEF IInv, HandleAwaited
  <2>7. HandleFound' BY <1>2, <2>1 DEF IInv, HandleFound
  <2>8. Collecting' BY <1>2 DEF IInv, Collecting
  <2>9. NoLeakedHandle' BY DEF IInv, NoLeakedHandle
  <2>10. NoLostWakeup' BY DEF NoLostWakeup
  <2> QED BY <1>3, <2>2, <2>3, <2>4, <2>5, <2>6, <2>7, <2>8, <2>9, <2>10 DEF IInv
<1>9. CASE Cancelled(t) \/ Panic(t)
  <2> USE <1>1, <1>9 DEF Cancelled, Panic
  <2>1. Running' = Running \ {t} /\ Lost' = Lost \cup {t} /\ t \in Running
    BY DEF Running, Lost
  <2>2. CountIsTasks'
    <3>1. (Spawning \cup Running \cup Lost)' = Spawning \cup Running \cup Lost
      BY <1>4, <2>1
    <3> QED BY <3>1 DEF IInv, CountIsTasks
  <2>3. TypeOK' OBVIOUS
  <2>4. IdsFresh' BY <1>2, <1>5 DEF IInv, IdsFresh
  <2>5. LockHeld' BY <1>2 DEF IInv, LockHeld
  <2>6. HandleAwaited'
    <3>1. task'[t] \notin {"unborn", "notify", "done"} /\ \A u \in Tasks \ {t} : task'[u] = task[u]
      OBVIOUS
    <3> QED BY <1>2, <3>1 DEF IInv, HandleAwaited, IdsFresh
  <2>7. HandleFound' BY <1>2, <2>1 DEF IInv, HandleFound
  <2>8. Collecting' BY <1>2 DEF IInv, Collecting
  <2>9. NoLeakedHandle' BY DEF IInv, NoLeakedHandle
  <2>10. NoLostWakeup' BY DEF IInv, NoLostWakeup
  <2> QED BY <1>3, <2>2, <2>3, <2>4, <2>5, <2>6, <2>7, <2>8, <2>9, <2>10 DEF IInv
<1> QED
  BY <1>6, <1>7, <1>8, <1>9 DEF Run, Exit

DownStep == RejectNewTasks \/ ShutdownCall \/ AwaitTasks \/ CancelShutdown

\* Every step of reject_new_tasks and shutdown keeps IInv.
LEMMA DownKeeps == ASSUME Assumptions, IInv, DownStep PROVE IInv'
<1> USE DEF TypeOK, Proceed, spawnVars, downVars, DownStates
<1>1. TypeOK BY DEF IInv
<1>2. /\ spPc' = spPc /\ spId' = spId /\ nextId' = nextId /\ mapOwner' = mapOwner
      /\ task' = task /\ inFlight' = inFlight /\ tracked' = tracked
  BY DEF DownStep, RejectNewTasks, ShutdownCall, AwaitTasks, CancelShutdown, Arm, Check, Wake,
         Expire, RejectRest, Collect, AbortOne, GiveUp
<1>3. RoomKept'
  <2>1. Entering' = Entering BY <1>2 DEF Entering
  <2> QED BY <1>2, <2>1 DEF RoomKept, IInv
<1>4. Running' = Running /\ CountIsTasks'
  <2>1. Spawning' = Spawning /\ Running' = Running /\ Lost' = Lost
    BY <1>2 DEF Spawning, Running, Lost
  <2> QED BY <1>2, <2>1 DEF IInv, CountIsTasks
<1>5. IdsFresh' /\ HandleAwaited' BY <1>2 DEF IInv, IdsFresh, HandleAwaited
<1>6. CASE \/ RejectNewTasks \/ ShutdownCall \/ Arm \/ Check \/ Wake \/ Expire
           \/ RejectRest \/ GiveUp \/ CancelShutdown
  <2> USE <1>1, <1>2, <1>6 DEF RejectNewTasks, ShutdownCall, Arm, Check, Wake, Expire, RejectRest,
          GiveUp, CancelShutdown
  <2>1. TypeOK' OBVIOUS
  <2>2. handles' = handles /\ toAbort' = toAbort /\ aborted' = aborted OBVIOUS
  <2>3. LockHeld' BY <2>2 DEF IInv, LockHeld
  <2>4. HandleFound' BY <1>4, <2>2 DEF IInv, HandleFound
  <2>5. Collecting' BY DEF IInv, Collecting
  <2>6. NoLeakedHandle' BY <2>2 DEF IInv, NoLeakedHandle
  <2>7. NoLostWakeup' BY DEF IInv, NoLostWakeup
  <2> QED BY <1>3, <1>4, <1>5, <2>1, <2>3, <2>4, <2>5, <2>6, <2>7 DEF IInv
<1>7. CASE Collect
  <2> USE <1>1, <1>2, <1>7 DEF Collect
  <2>1. tracked BY DEF IInv, Collecting
  <2>2. \A p \in Spawners : spPc[p] \notin {"locked", "cleared", "counted", "started"}
    BY <2>1 DEF IInv, LockHeld, Assumptions
  <2>3. TypeOK' OBVIOUS
  <2>4. LockHeld' BY <2>1 DEF IInv, LockHeld
  <2>5. HandleFound' BY <1>4, <2>2 DEF IInv, HandleFound, Collecting
  <2>6. Collecting' BY <2>2 DEF IInv, Collecting
  <2>7. NoLeakedHandle' /\ NoLostWakeup' BY DEF NoLeakedHandle, NoLostWakeup
  <2> QED BY <1>3, <1>4, <1>5, <2>3, <2>4, <2>5, <2>6, <2>7 DEF IInv
<1>8. ASSUME NEW u \in Tasks, AbortOne(u) PROVE IInv'
  <2> USE <1>1, <1>2, <1>8 DEF AbortOne
  <2>1. TypeOK' OBVIOUS
  <2>2. LockHeld' BY DEF IInv, LockHeld
  <2>3. HandleFound' BY <1>4 DEF IInv, HandleFound
  <2>4. Collecting' BY DEF IInv, Collecting
  <2>5. NoLeakedHandle' /\ NoLostWakeup' BY DEF IInv, NoLeakedHandle, NoLostWakeup
  <2> QED BY <1>3, <1>4, <1>5, <2>1, <2>2, <2>3, <2>4, <2>5 DEF IInv
<1> QED
  BY <1>6, <1>7, <1>8 DEF DownStep, AwaitTasks

\* So does every step of the tracker.
LEMMA StepInv == ASSUME Assumptions, IInv, [Next]_vars PROVE IInv'
<1>1. CASE UNCHANGED vars
  <2> USE <1>1 DEF vars, spawnVars, downVars
  <2>1. Spawning' = Spawning /\ Running' = Running /\ Lost' = Lost /\ Entering' = Entering
    BY DEF Spawning, Running, Lost, Entering
  <2>2. TypeOK' /\ NoLeakedHandle' /\ NoLostWakeup'
    BY DEF IInv, TypeOK, NoLeakedHandle, NoLostWakeup
  <2>3. RoomKept' /\ IdsFresh' /\ HandleAwaited'
    BY <2>1 DEF IInv, RoomKept, IdsFresh, HandleAwaited
  <2>4. LockHeld' /\ HandleFound' /\ Collecting' /\ CountIsTasks'
    BY <2>1 DEF IInv, LockHeld, HandleFound, Collecting, CountIsTasks
  <2> QED BY <2>2, <2>3, <2>4 DEF IInv
<1> QED
  BY <1>1, SpawnKeeps, RunKeeps, DownKeeps DEF Next, DownStep, Settled

-----------------------------------------------------------------------------
(* Theorems *)

\* IInv holds in every reachable state of the tracker, whoever calls it.
THEOREM Invariance == ASSUME Assumptions PROVE Spec => []IInv
<1>1. Init => IInv
  BY InitInv
<1>2. IInv /\ [Next]_vars => IInv'
  BY StepInv
<1> QED
  BY <1>1, <1>2, PTL DEF Spec

\* IInv gives what BusShutdown is checked for: spawn_tracked, finish_task and
\* shutdown keep the counter exact, leave no handle behind, sleep through no
\* last task, and after a timeout nothing runs that was not aborted.
THEOREM TrackerSound ==
  ASSUME Assumptions
  PROVE  Spec => [](CountIsTasks /\ NoLeakedHandle /\ GaveUpAbortsAll /\ NoLostWakeup)
<1>1. IInv => CountIsTasks /\ NoLeakedHandle /\ GaveUpAbortsAll /\ NoLostWakeup
  BY DEF IInv, Collecting, HandleFound, GaveUpAbortsAll
<1> QED
  BY <1>1, Invariance, PTL
=============================================================================
