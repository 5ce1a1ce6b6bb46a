-------------------------- MODULE BusShutdownProofs --------------------------
(***************************************************************************)
(* Proofs about BusShutdown, for any number of publish and shutdown calls  *)
(* and of tasks.  Every step of the bus is a step of the gate or of the    *)
(* tracker and leaves the other alone, so the invariants proved of each    *)
(* hold here; what the two owe to each other is added on top.              *)
(***************************************************************************)
EXTENDS BusShutdown, FiniteSetTheorems, TLAPS

GP == INSTANCE DispatchGateProofs
TP == INSTANCE TaskTrackerProofs WITH Spawners <- Publishers, tracked <- timed

\* Each instance has a copy of the operators on finite sets; they are the same.
LEMMA SameSets ==
  ASSUME NEW S
  PROVE  /\ IsFiniteSet(S) <=> GP!IsFiniteSet(S)
         /\ IsFiniteSet(S) <=> TP!IsFiniteSet(S)
         /\ Gate!Cardinality(S) = Cardinality(S) /\ GP!Cardinality(S) = Cardinality(S)
         /\ Tracker!Cardinality(S) = Cardinality(S) /\ TP!Cardinality(S) = Cardinality(S)
<1>1. IsFiniteSet(S) <=> GP!IsFiniteSet(S)
  BY DEF IsFiniteSet, GP!IsFiniteSet
<1>2. IsFiniteSet(S) <=> TP!IsFiniteSet(S)
  BY DEF IsFiniteSet, TP!IsFiniteSet
<1>3. Gate!Cardinality(S) = Cardinality(S) /\ GP!Cardinality(S) = Cardinality(S)
  BY DEF Cardinality, Gate!Cardinality, GP!Cardinality
<1>4. Tracker!Cardinality(S) = Cardinality(S) /\ TP!Cardinality(S) = Cardinality(S)
  BY DEF Cardinality, Tracker!Cardinality, TP!Cardinality
<1> QED
  BY <1>1, <1>2, <1>3, <1>4

TrackerStep ==
  \/ \E p \in Publishers : Tracker!SpawnCall(p) \/ Tracker!Spawn(p)
  \/ \E t \in Tracker!Tasks : Tracker!Run(t)
  \/ Tracker!RejectNewTasks \/ Tracker!ShutdownCall \/ Tracker!AwaitTasks
  \/ Tracker!CancelShutdown

GateStep ==
  \/ \E p \in Publishers : Gate!Publish(p)
  \/ \E s \in Shutters : Gate!Shutdown(s)

\* A step of the bus is a step of one component and leaves the other alone.
LEMMA StepOfOne ==
  ASSUME [Next]_vars
  PROVE  \/ GateStep /\ UNCHANGED trackerVars
         \/ TrackerStep /\ UNCHANGED gateVars
         \/ UNCHANGED vars
BY DEF Next, vars, Publish, Admit, SpawnListener, SpawnStep, Leave, Listener, Shutdown, CloseGate,
       RejectNewTasks, TrackerShutdown, AwaitTasks, Cancel, Settled, GateStep, TrackerStep,
       Gate!Publish

\* The bus, seen as a gate: only the gate's steps touch its variables.
LEMMA BusIsGate == Spec => GP!Spec
<1>1. Init => GP!Init
  BY DEF Init, Gate!Init, GP!Init
<1>2. [Next]_vars => [GP!Next]_(GP!vars)
  <2> SUFFICES ASSUME [Next]_vars PROVE [GP!Next]_(GP!vars)
    OBVIOUS
  <2>1. UNCHANGED gateVars => UNCHANGED GP!vars
    BY DEF gateVars, GP!vars, GP!pubVars, GP!shutVars
  <2>2. ASSUME NEW p \in Publishers, Gate!Publish(p) PROVE GP!Publish(p)
    BY <2>2 DEF Gate!Publish, GP!Publish, Gate!BeginLoad, GP!BeginLoad, Gate!Enter, GP!Enter,
       Gate!EnterRetry, GP!EnterRetry, Gate!Leave, GP!Leave, Gate!NotifyDrained, GP!NotifyDrained,
       Gate!Advance, GP!Advance, Gate!NotifyWaiters, GP!NotifyWaiters, Gate!shutVars, GP!shutVars,
       Gate!Closed, GP!Closed, Gate!Count, GP!Count, Gate!ClosedBit, GP!ClosedBit,
       Gate!Decrement, GP!Decrement
  <2>3. ASSUME NEW s \in Shutters, Gate!Shutdown(s) PROVE GP!Shutdown(s)
    BY <2>3 DEF Gate!Shutdown, GP!Shutdown, Gate!AwaitDrain, GP!AwaitDrain,
       Gate!CloseLoad, GP!CloseLoad, Gate!Close, GP!Close, Gate!CloseRetry, GP!CloseRetry,
       Gate!Precheck, GP!Precheck, Gate!Arm, GP!Arm, Gate!Check, GP!Check, Gate!Wake, GP!Wake,
       Gate!Expire, GP!Expire, Gate!Cancel, GP!Cancel, Gate!Proceed, GP!Proceed,
       Gate!pubVars, GP!pubVars, Gate!Closed, GP!Closed, Gate!Count, GP!Count,
       Gate!ClosedBit, GP!ClosedBit
  <2>4. UNCHANGED vars => UNCHANGED gateVars
    BY DEF vars
  <2> QED BY <2>1, <2>2, <2>3, <2>4, StepOfOne DEF GateStep, GP!Next
<1> QED
  BY <1>1, <1>2, PTL DEF Spec, GP!Spec

\* The bus, seen as a tracker: the gate decides when, the tracker what.
LEMMA BusIsTracker == Spec => TP!Spec
<1>1. Init => TP!Init
  BY DEF Init, Gate!Init, Tracker!Init, TP!Init, Tracker!Tasks, TP!Tasks
<1>2. [Next]_vars => [TP!Next]_(TP!vars)
  <2> SUFFICES ASSUME [Next]_vars PROVE [TP!Next]_(TP!vars)
    OBVIOUS
  <2> USE DEF Tracker!downVars, TP!downVars, Tracker!spawnVars, TP!spawnVars, Tracker!Advance,
              TP!Advance, Tracker!Become, TP!Become, Tracker!Proceed, TP!Proceed,
              Tracker!Tasks, TP!Tasks
  <2>1. UNCHANGED trackerVars /\ timed' = timed => UNCHANGED TP!vars
    BY DEF trackerVars, TP!vars
  <2>2. GateStep => timed' = timed
    BY DEF GateStep, Gate!Publish, Gate!BeginLoad, Gate!Enter, Gate!EnterRetry, Gate!Leave,
       Gate!NotifyDrained, Gate!Shutdown, Gate!AwaitDrain, Gate!CloseLoad, Gate!Close,
       Gate!CloseRetry, Gate!Precheck, Gate!Arm, Gate!Check, Gate!Wake, Gate!Expire, Gate!Cancel
  <2>3. ASSUME NEW p \in Publishers, Tracker!SpawnCall(p) \/ Tracker!Spawn(p)
        PROVE  TP!SpawnCall(p) \/ TP!Spawn(p)
    <3>1. Tracker!Room <=> TP!Room
      BY SameSets DEF Tracker!Room, TP!Room
    <3> QED
      BY <2>3, <3>1 DEF Tracker!SpawnCall, TP!SpawnCall, Tracker!Spawn, TP!Spawn,
         Tracker!SpawnCheck, TP!SpawnCheck, Tracker!SpawnCount, TP!SpawnCount,
         Tracker!SpawnStart, TP!SpawnStart, Tracker!SpawnInsert, TP!SpawnInsert
  <2>4. ASSUME NEW t \in Tracker!Tasks, Tracker!Run(t) PROVE TP!Run(t)
    BY <2>4 DEF Tracker!Run, TP!Run, Tracker!Finish, TP!Finish, Tracker!Exit, TP!Exit,
       Tracker!RemoveHandle, TP!RemoveHandle, Tracker!NotifyIdle, TP!NotifyIdle,
       Tracker!NotifyWaiters, TP!NotifyWaiters, Tracker!Cancelled, TP!Cancelled,
       Tracker!Panic, TP!Panic
  <2>5. \/ Tracker!RejectNewTasks \/ Tracker!ShutdownCall
        \/ Tracker!AwaitTasks \/ Tracker!CancelShutdown
        => TP!DownStep
    BY DEF TP!DownStep, Tracker!RejectNewTasks, TP!RejectNewTasks,
       Tracker!ShutdownCall, TP!ShutdownCall, Tracker!AwaitTasks, TP!AwaitTasks,
       Tracker!CancelShutdown, TP!CancelShutdown, Tracker!Arm, TP!Arm, Tracker!Check, TP!Check,
       Tracker!Wake, TP!Wake, Tracker!Expire, TP!Expire, Tracker!RejectRest, TP!RejectRest,
       Tracker!Collect, TP!Collect, Tracker!AbortOne, TP!AbortOne, Tracker!GiveUp, TP!GiveUp
  <2>6. UNCHANGED vars => UNCHANGED trackerVars /\ timed' = timed
    BY DEF vars, gateVars
  <2> QED
    BY <2>1, <2>2, <2>3, <2>4, <2>5, <2>6, StepOfOne DEF TrackerStep, TP!Next, TP!DownStep
<1> QED
  BY <1>1, <1>2, PTL DEF Spec, TP!Spec

\* What was proved of the gate and of the tracker holds in the bus.
LEMMA Components == Spec => [](GP!IInv /\ TP!IInv)
<1>1. GP!Spec => []GP!IInv
  <2>1. GP!IsFiniteSet(Publishers) /\ CountMask \in Nat \ {0}
    BY ShutdownAssumption, SameSets
  <2> QED BY <2>1, GP!Invariance
<1>2. TP!Assumptions
  BY ShutdownAssumption, SameSets DEF TP!Assumptions
<1>3. TP!Spec => []TP!IInv
  BY <1>2, TP!Invariance
<1> QED
  BY <1>1, <1>3, BusIsGate, BusIsTracker, PTL

-----------------------------------------------------------------------------
(* What gate and tracker owe to each other                                 *)

Past(p) == spPc[p] \in {"cleared", "counted"}

Alive == Tracker!Running \ aborted

(* Only a publish call inside the gate spawns; the tracker is shut down by *)
(* the call that closed the gate; after a drain nothing is in flight, and  *)
(* after a timeout of the gate the tracker rejects, but for one task.      *)
Bridge ==
  /\ \A p \in Publishers : spPc[p] \notin {"idle", "rejected"} => pubPc[p] = "inside"
  /\ sdPc # "idle" => \E s \in Shutters : shutPc[s] \in {"drained", "expired"}
  /\ \A s \in Shutters : Drained(s) => inFlight = 0
  /\ \A s \in Shutters : shutPc[s] = "expired" =>
       /\ timed
       /\ sdPc # "idle" => rejecting
       /\ sdPc = "clean" => /\ \A t, u \in Alive : t = u
                            /\ Alive # {} => \A p \in Publishers : ~Past(p)

\* The parts of the components' invariants that are used here.
LEMMA Facts ==
  ASSUME GP!IInv, TP!IInv
  PROVE  /\ \A s, t \in Shutters :
              shutPc[s] \in Gate!CloserStates /\ shutPc[t] \in Gate!CloserStates => s = t
         /\ Gate!Closed(word) <=> \E s \in Shutters : shutPc[s] \in Gate!CloserStates
         /\ \A s \in Shutters : shutPc[s] = "drained" => Gate!Holders = {}
         /\ pubPc \in [Publishers -> Gate!PubStates]
         /\ shutPc \in [Shutters -> Gate!ShutStates]
         /\ inFlight = 0 => Tracker!Running = {}
         /\ timed => \A p, q \in Publishers :
              spPc[p] \in {"locked", "cleared", "counted", "started"}
              /\ spPc[q] \in {"locked", "cleared", "counted", "started"} => p = q
         /\ \A p \in Publishers : spPc[p] = "counted" =>
              spId[p] \in Tracker!Tasks /\ task[spId[p]] = "unborn"
         /\ spPc \in [Publishers -> Tracker!SpawnStates]
         /\ task \in [Tracker!Tasks -> Tracker!TaskStates]
<1>1. GP!OneCloser /\ GP!DrainedIsEmpty /\ GP!TypeOK
  BY DEF GP!IInv
<1>2. /\ \A s, t \in Shutters :
           shutPc[s] \in Gate!CloserStates /\ shutPc[t] \in Gate!CloserStates => s = t
      /\ Gate!Closed(word) <=> \E s \in Shutters : shutPc[s] \in Gate!CloserStates
  BY <1>1 DEF GP!OneCloser, GP!Closers, GP!CloserStates, Gate!CloserStates, GP!Closed,
     Gate!Closed, GP!ClosedBit, Gate!ClosedBit
<1>3. \A s \in Shutters : shutPc[s] = "drained" => Gate!Holders = {}
  BY <1>1 DEF GP!DrainedIsEmpty, GP!Holders, Gate!Holders
<1>4. pubPc \in [Publishers -> Gate!PubStates] /\ shutPc \in [Shutters -> Gate!ShutStates]
  BY <1>1 DEF GP!TypeOK, GP!PubStates, Gate!PubStates, GP!ShutStates, Gate!ShutStates,
     GP!CloserStates, Gate!CloserStates
<1>5. TP!TypeOK /\ TP!CountIsTasks /\ TP!LockHeld /\ TP!IdsFresh
  BY DEF TP!IInv
<1>6. inFlight = 0 => Tracker!Running = {}
  <2> DEFINE C == TP!Spawning \cup TP!Running \cup TP!Lost
  <2>1. C \subseteq 1 .. MaxTasks
    BY <1>5 DEF TP!Spawning, TP!Running, TP!Lost, TP!IdsFresh, TP!Tasks
  <2>2. IsFiniteSet(C)
    <3>1. IsFiniteSet(1 .. MaxTasks)
      BY FS_Interval, ShutdownAssumption
    <3> QED BY <2>1, <3>1, FS_Subset
  <2>3. inFlight = Cardinality(C)
    BY <1>5, SameSets DEF TP!CountIsTasks
  <2>4. inFlight = 0 => C = {}
    BY <2>2, <2>3, FS_EmptySet
  <2> QED BY <2>4 DEF TP!Running, Tracker!Running, TP!Tasks, Tracker!Tasks
<1>7. timed => \A p, q \in Publishers :
        spPc[p] \in {"locked", "cleared", "counted", "started"}
        /\ spPc[q] \in {"locked", "cleared", "counted", "started"} => p = q
  BY <1>5 DEF TP!LockHeld
<1>8. \A p \in Publishers : spPc[p] = "counted" =>
        spId[p] \in Tracker!Tasks /\ task[spId[p]] = "unborn"
  BY <1>5 DEF TP!IdsFresh, TP!Tasks, Tracker!Tasks
<1>9. spPc \in [Publishers -> Tracker!SpawnStates] /\ task \in [Tracker!Tasks -> Tracker!TaskStates]
  BY <1>5 DEF TP!TypeOK, TP!SpawnStates, Tracker!SpawnStates, TP!TaskStates,
     Tracker!TaskStates, TP!Tasks, Tracker!Tasks
<1> QED
  BY <1>2, <1>3, <1>4, <1>6, <1>7, <1>8, <1>9

\* In the initial state neither has begun.
LEMMA BridgeInit == Init => Bridge
BY DEF Init, Gate!Init, Tracker!Init, Bridge, Drained

\* Every step of the bus keeps Bridge.
LEMMA BridgeStep ==
  ASSUME GP!IInv, TP!IInv, Bridge, [Next]_vars
  PROVE  Bridge'
<1> USE DEF Bridge, Drained, gateVars, trackerVars, Tracker!downVars, Tracker!spawnVars,
            Gate!pubVars, Gate!shutVars, Gate!PubStates, Gate!ShutStates, Gate!CloserStates,
            Tracker!SpawnStates, Tracker!TaskStates, Gate!Advance, Gate!Proceed,
            Tracker!Advance, Tracker!Become, Tracker!Proceed, Alive, Past, Tracker!Running
<1>1. ASSUME NEW p \in Publishers, Admit(p) \/ Leave(p) PROVE Bridge'
  <2>1. UNCHANGED trackerVars /\ shutPc' = shutPc /\ timed' = timed
    BY <1>1 DEF Admit, Leave, Gate!BeginLoad, Gate!Enter, Gate!EnterRetry, Gate!NotifyDrained,
       Gate!Leave
  <2>2. /\ spPc[p] \in {"idle", "rejected"}
        /\ \A q \in Publishers : q # p => pubPc'[q] = pubPc[q]
    BY <1>1, Facts DEF Admit, Leave, Gate!BeginLoad, Gate!Enter, Gate!EnterRetry,
       Gate!NotifyDrained, Gate!Leave
  <2> QED BY <2>1, <2>2
<1>2. ASSUME NEW p \in Publishers, SpawnListener(p) PROVE Bridge'
  BY <1>2, Facts DEF SpawnListener, Tracker!SpawnCall
<1>3. ASSUME NEW p \in Publishers, SpawnStep(p) PROVE Bridge'
  <2>1. pubPc[p] = "inside" /\ UNCHANGED gateVars
    BY <1>3 DEF SpawnStep, Tracker!Spawn, Tracker!SpawnCheck, Tracker!SpawnCount,
       Tracker!SpawnStart, Tracker!SpawnInsert
  <2>2. \A s \in Shutters : shutPc[s] # "drained"
    BY <2>1, Facts DEF Gate!Holders
  <2>3. CASE Tracker!SpawnCheck(p)
    BY <2>1, <2>2, <2>3, Facts DEF Tracker!SpawnCheck
  <2>4. CASE Tracker!SpawnCount(p)
    BY <2>1, <2>2, <2>4, Facts DEF Tracker!SpawnCount
  <2>5. CASE Tracker!SpawnStart(p)
    <3> USE <2>5 DEF Tracker!SpawnStart
    <3>1. Alive' \subseteq Alive \cup {spId[p]}
      BY Facts
    <3>2. ASSUME NEW s \in Shutters, shutPc[s] = "expired", sdPc = "clean"
          PROVE  /\ \A t, u \in Alive' : t = u
                 /\ \A q \in Publishers : ~Past(q)'
      <4>1. Alive = {}
        BY <3>2
      <4>2. \A q \in Publishers : q # p => ~Past(q)
        BY <3>2, Facts
      <4> QED BY <3>1, <4>1, <4>2, Facts
    <3> QED BY <2>1, <2>2, <3>2, Facts
  <2>6. CASE Tracker!SpawnInsert(p)
    BY <2>1, <2>2, <2>6, Facts DEF Tracker!SpawnInsert
  <2> QED BY <1>3, <2>3, <2>4, <2>5, <2>6 DEF SpawnStep, Tracker!Spawn
<1>4. ASSUME NEW t \in Tracker!Tasks, Listener(t) PROVE Bridge'
  <2>1. /\ UNCHANGED gateVars
        /\ UNCHANGED <<rejecting, aborted, spPc, sdPc>>
    BY <1>4 DEF Listener, Tracker!Run, Tracker!Finish, Tracker!Exit, Tracker!RemoveHandle,
       Tracker!NotifyIdle, Tracker!Cancelled, Tracker!Panic
  <2>2. Alive' \subseteq Alive
    BY <1>4, Facts DEF Listener, Tracker!Run, Tracker!Finish, Tracker!Exit,
       Tracker!RemoveHandle, Tracker!NotifyIdle, Tracker!Cancelled, Tracker!Panic
  <2>3. inFlight = 0 => inFlight' = 0
    BY <1>4, Facts DEF Listener, Tracker!Run, Tracker!Finish, Tracker!Exit,
       Tracker!RemoveHandle, Tracker!NotifyIdle, Tracker!Cancelled, Tracker!Panic
  <2> QED BY <2>1, <2>2, <2>3
<1>5. ASSUME NEW s \in Shutters, CloseGate(s) PROVE Bridge'
  <2>1. /\ UNCHANGED trackerVars /\ timed' = timed
        /\ \A p \in Publishers : pubPc'[p] = pubPc[p]
        /\ \A t \in Shutters : t # s => shutPc'[t] = shutPc[t]
        /\ shutPc[s] \notin {"drained", "expired", "cancelled"}
        /\ shutPc'[s] = "expired" => timed
        /\ shutPc'[s] \in {"drained", "expired"} => shutPc[s] \in Gate!CloserStates
    BY <1>5, Facts DEF CloseGate, Gate!Shutdown, Gate!AwaitDrain, Gate!CloseLoad, Gate!Close,
       Gate!CloseRetry, Gate!Precheck, Gate!Arm, Gate!Check, Gate!Wake, Gate!Expire, Gate!Cancel
  <2>2. shutPc[s] \in Gate!CloserStates => sdPc = "idle"
    BY <2>1, Facts
  <2> QED BY <2>1, <2>2
<1>6. ASSUME NEW s \in Shutters, RejectNewTasks(s) PROVE Bridge'
  BY <1>6 DEF RejectNewTasks, Tracker!RejectNewTasks
<1>7. ASSUME NEW s \in Shutters, TrackerShutdown(s) PROVE Bridge'
  <2> USE <1>7 DEF TrackerShutdown, Tracker!ShutdownCall
  <2>1. \A t \in Shutters : shutPc[t] \in {"drained", "expired"} => t = s
    BY Facts
  <2> QED BY <2>1, Facts
<1>8. CASE AwaitTasks \/ Cancel
  <2>1. /\ UNCHANGED gateVars
        /\ UNCHANGED <<spPc, inFlight, task>>
        /\ sdPc # "idle" /\ sdPc' # "idle"
        /\ rejecting => rejecting'
        /\ sdPc' = "clean" => inFlight = 0
    BY <1>8 DEF AwaitTasks, Cancel, Tracker!AwaitTasks, Tracker!CancelShutdown, Tracker!Arm,
       Tracker!Check, Tracker!Wake, Tracker!Expire, Tracker!RejectRest, Tracker!Collect,
       Tracker!AbortOne, Tracker!GiveUp
  <2>2. sdPc' = "clean" => Alive' = {}
    BY <2>1, Facts
  <2> QED BY <2>1, <2>2
<1>9. CASE UNCHANGED vars
  BY <1>9 DEF vars
<1> QED
  BY <1>1, <1>2, <1>3, <1>4, <1>5, <1>6, <1>7, <1>8, <1>9
     DEF Next, Publish, Shutdown, Settled

\* All three invariants hold together.
LEMMA Invariance == Spec => [](GP!IInv /\ TP!IInv /\ Bridge)
<1>1. GP!IInv /\ TP!IInv /\ Bridge /\ [Next]_vars => Bridge'
  BY BridgeStep
<1> QED
  BY <1>1, BridgeInit, Components, PTL DEF Spec

-----------------------------------------------------------------------------
(* Theorems *)

\* spawn_tracked, finish_task and the abort of tasks keep in_flight exact behind
\* the gate too, and no task that passed finish_task leaves its handle in the map.
THEOREM TasksCorrect == Spec => []TasksAccounted
<1>1. TP!CountIsTasks => Tracker!CountIsTasks
  BY SameSets DEF Tracker!CountIsTasks, TP!CountIsTasks, Tracker!Spawning,
     TP!Spawning, Tracker!Running, TP!Running, Tracker!Lost, TP!Lost, Tracker!Tasks, TP!Tasks
<1>2. TP!IInv => TP!CountIsTasks
  BY DEF TP!IInv
<1>3. TP!IInv => Tracker!NoLeakedHandle
  BY DEF Tracker!NoLeakedHandle, TP!IInv, TP!NoLeakedHandle, Tracker!Tasks, TP!Tasks
<1>4. TP!IInv => TasksAccounted
  BY <1>1, <1>2, <1>3 DEF TasksAccounted
<1> QED
  BY <1>4, Components, PTL

\* When the tracker's shutdown gives up, every task that runs was aborted and
\* no spawn_tracked call can add one.
THEOREM AbortsAll == Spec => []GaveUpAbortsAll
<1>1. TP!IInv => GaveUpAbortsAll
  BY DEF GaveUpAbortsAll, Tracker!GaveUpAbortsAll, TP!IInv, TP!Collecting, TP!HandleFound,
     TP!Running, Tracker!Running, TP!Tasks, Tracker!Tasks
<1> QED
  BY <1>1, Components, PTL

\* The tracker's shutdown sleeps through no last task.
THEOREM WakeupKept == Spec => []NoLostWakeup
<1>1. TP!IInv => NoLostWakeup
  BY DEF NoLostWakeup, Tracker!NoLostWakeup, TP!IInv, TP!NoLostWakeup, Tracker!Tasks, TP!Tasks
<1> QED
  BY <1>1, Components, PTL

\* When EventBus::shutdown returns Ok the bus is silent; when it returns a
\* timeout, all but at most one task have been told to stop.
THEOREM Quiet == Spec => []QuietOnReturn
<1>1. ASSUME GP!IInv, TP!IInv, Bridge PROVE QuietOnReturn
  <2>1. ASSUME NEW s \in Shutters, Drained(s)
        PROVE  /\ Gate!Holders = {} /\ Tracker!Running = {}
               /\ \A p \in Publishers : spPc[p] \in {"idle", "rejected"}
    <3>1. Gate!Holders = {} /\ Tracker!Running = {}
      BY <1>1, <2>1, Facts DEF Bridge, Drained
    <3> QED BY <1>1, <3>1 DEF Bridge, Gate!Holders
  <2> DEFINE P == {p \in Publishers : spPc[p] \in {"cleared", "counted"}}
             R == Tracker!Running \ aborted
  <2>2. ASSUME TimedOut PROVE Cardinality(R \cup P) <= 1
    <3>1. \A x, y \in R \cup P : x = y
      <4>1. CASE sdPc = "gave_up"
        <5>1. R = {} /\ P = {}
          BY <1>1, <4>1 DEF TP!IInv, TP!Collecting, TP!HandleFound, TP!Running,
             Tracker!Running, TP!Tasks, Tracker!Tasks
        <5> QED BY <5>1
      <4>2. ASSUME NEW s \in Shutters, sdPc = "clean", shutPc[s] = "expired"
            PROVE  \A x, y \in R \cup P : x = y
        BY <1>1, <4>2, Facts DEF Bridge, Alive, Past
      <4> QED BY <2>2, <4>1, <4>2 DEF TimedOut
    <3>2. CASE R \cup P = {}
      BY <3>2, FS_EmptySet
    <3>3. CASE R \cup P # {}
      <4>1. PICK x : x \in R \cup P
        BY <3>3
      <4>2. R \cup P = {x}
        BY <3>1, <4>1
      <4>3. Cardinality({x}) = 1
        BY FS_Singleton
      <4> QED BY <4>2, <4>3
    <3> QED BY <3>2, <3>3
  <2> QED BY <2>1, <2>2 DEF QuietOnReturn
<1> QED
  BY <1>1, Invariance, PTL

(* What Phase says, in terms of the closer and of the tracker's shutdown.  *)
PhaseKnown ==
  /\ Gate!Closed(word) <=> \E s \in Shutters : shutPc[s] \in Gate!CloserStates
  /\ ~Gate!Closed(word) => Phase = "open" /\ sdPc = "idle"
  /\ \A s \in Shutters : shutPc[s] \in Gate!CloserStates =>
       /\ shutPc[s] = "drained" /\ sdPc = "clean" => Phase = "ok"
       /\ \/ shutPc[s] = "cancelled" \/ sdPc \in {"gave_up", "cancelled"}
          \/ shutPc[s] = "expired" /\ sdPc = "clean"
          => Phase = "early"
       /\ shutPc[s] # "cancelled" /\ sdPc \notin {"clean", "gave_up", "cancelled"}
          => Phase = "closing"

\* The invariants determine the phase.
LEMMA PhaseIs == ASSUME GP!IInv, TP!IInv, Bridge PROVE PhaseKnown
<1> USE DEF Phase, Drained, TimedOut, Gate!CloserStates
<1>1. ~Gate!Closed(word) => Phase = "open" /\ sdPc = "idle"
  BY Facts DEF Bridge
<1>2. ASSUME NEW s \in Shutters, shutPc[s] \in Gate!CloserStates
      PROVE  /\ Gate!Closed(word)
             /\ \A t \in Shutters : shutPc[t] \in Gate!CloserStates => t = s
  BY <1>2, Facts
<1>3. ASSUME NEW s \in Shutters, shutPc[s] = "drained", sdPc = "clean" PROVE Phase = "ok"
  BY <1>2, <1>3
<1>4. ASSUME NEW s \in Shutters, shutPc[s] \in Gate!CloserStates,
             \/ shutPc[s] = "cancelled" \/ sdPc \in {"gave_up", "cancelled"}
             \/ shutPc[s] = "expired" /\ sdPc = "clean"
      PROVE  Phase = "early"
  BY <1>2, <1>4 DEF Bridge
<1>5. ASSUME NEW s \in Shutters, shutPc[s] \in Gate!CloserStates, shutPc[s] # "cancelled",
             sdPc \notin {"clean", "gave_up", "cancelled"}
      PROVE  Phase = "closing"
  BY <1>2, <1>5
<1> QED
  BY <1>1, <1>3, <1>4, <1>5, Facts DEF PhaseKnown

\* Gate and tracker together keep the abstract promise of shutdown.
THEOREM Refinement == Spec => ImplementsQuiescence
<1>1. Init => Promise!Init
  BY ShutdownAssumption DEF Init, Gate!Init, Tracker!Init, Promise!Init, Phase, Gate!Closed,
     Gate!ClosedBit, Gate!Holders, Tracker!Running
<1>2. GP!IInv /\ TP!IInv /\ Bridge => PhaseKnown
  BY PhaseIs
<1>3. ASSUME GP!IInv, TP!IInv, Bridge, PhaseKnown, PhaseKnown', [Next]_vars
      PROVE  [Promise!Next]_(Promise!vars)
  <2> USE <1>3
  <2> USE DEF Promise!Next, Promise!vars, gateVars, trackerVars, Tracker!downVars,
              Tracker!spawnVars, Gate!pubVars, Gate!shutVars, Gate!CloserStates, Gate!Advance,
              Gate!Proceed, Tracker!Advance, Tracker!Become, Tracker!Proceed
  <2>1. ASSUME NEW p \in Publishers, Admit(p) \/ Leave(p)
        PROVE  [Promise!Next]_(Promise!vars)
    <3>1. Tracker!Running' = Tracker!Running /\ shutPc' = shutPc /\ sdPc' = sdPc
      BY <2>1 DEF Admit, Leave, Gate!BeginLoad, Gate!Enter, Gate!EnterRetry,
         Gate!NotifyDrained, Gate!Leave, Tracker!Running
    <3>2. Gate!Closed(word)' <=> Gate!Closed(word)
      BY <3>1 DEF PhaseKnown
    <3>3. Phase' = Phase
      BY <3>1, <3>2 DEF Phase, Drained, TimedOut
    <3>4. CASE Gate!Enter(p)
      <4>1. Gate!Holders' = Gate!Holders \cup {p} /\ p \notin Gate!Holders
        BY <3>4, Facts DEF Gate!Enter, Gate!Holders
      <4>2. Phase = "open"
        <5>1. ~Gate!Closed(word)
          BY <3>4 DEF Gate!Enter, GP!IInv, GP!SeenWasOpen, GP!Closed, GP!ClosedBit,
             Gate!Closed, Gate!ClosedBit
        <5> QED BY <5>1 DEF PhaseKnown
      <4> QED BY <3>1, <3>3, <4>1, <4>2 DEF Promise!Publish
    <3>5. CASE Gate!Leave(p)
      <4>1. Gate!Holders' = Gate!Holders \ {p} /\ p \in Gate!Holders
        BY <3>5, Facts DEF Gate!Leave, Gate!Holders
      <4> QED BY <3>1, <3>3, <4>1 DEF Promise!Return
    <3>6. CASE Gate!BeginLoad(p) \/ Gate!EnterRetry(p) \/ Gate!NotifyDrained(p)
      <4>1. Gate!Holders' = Gate!Holders
        BY <3>6, Facts DEF Gate!BeginLoad, Gate!EnterRetry, Gate!NotifyDrained, Gate!Holders
      <4> QED BY <3>1, <3>3, <4>1
    <3> QED BY <2>1, <3>4, <3>5, <3>6 DEF Admit, Leave
  <2>2. ASSUME NEW p \in Publishers, SpawnListener(p) \/ SpawnStep(p)
        PROVE  [Promise!Next]_(Promise!vars)
    <3>1. UNCHANGED gateVars /\ sdPc' = sdPc
      BY <2>2 DEF SpawnListener, SpawnStep, Tracker!SpawnCall, Tracker!Spawn,
         Tracker!SpawnCheck, Tracker!SpawnCount, Tracker!SpawnStart, Tracker!SpawnInsert
    <3>2. Gate!Holders' = Gate!Holders /\ Phase' = Phase
      BY <3>1 DEF Gate!Holders, Phase, Drained, TimedOut, Gate!Closed
    <3>3. CASE Tracker!SpawnStart(p)
      <4>1. p \in Gate!Holders
        BY <3>3 DEF Tracker!SpawnStart, Bridge, Gate!Holders
      <4>2. /\ spId[p] \in Tracker!Tasks /\ spId[p] \notin Tracker!Running
            /\ Tracker!Running' = Tracker!Running \cup {spId[p]}
        BY <3>3, Facts DEF Tracker!SpawnStart, Tracker!Running
      <4> QED BY <3>2, <4>1, <4>2 DEF Promise!Fork
    <3>4. CASE ~Tracker!SpawnStart(p)
      <4>1. Tracker!Running' = Tracker!Running
        BY <2>2, <3>4 DEF SpawnListener, SpawnStep, Tracker!SpawnCall, Tracker!Spawn,
           Tracker!SpawnCheck, Tracker!SpawnCount, Tracker!SpawnInsert, Tracker!Running
      <4> QED BY <3>2, <4>1
    <3> QED BY <3>3, <3>4
  <2>3. ASSUME NEW t \in Tracker!Tasks, Listener(t)
        PROVE  [Promise!Next]_(Promise!vars)
    <3>1. UNCHANGED gateVars /\ sdPc' = sdPc
      BY <2>3 DEF Listener, Tracker!Run, Tracker!Finish, Tracker!Exit, Tracker!RemoveHandle,
         Tracker!NotifyIdle, Tracker!Cancelled, Tracker!Panic
    <3>2. Gate!Holders' = Gate!Holders /\ Phase' = Phase
      BY <3>1 DEF Gate!Holders, Phase, Drained, TimedOut, Gate!Closed
    <3>3. \/ Tracker!Running' = Tracker!Running
          \/ t \in Tracker!Running /\ Tracker!Running' = Tracker!Running \ {t}
      BY <2>3, Facts DEF Listener, Tracker!Run, Tracker!Finish, Tracker!Exit,
         Tracker!RemoveHandle, Tracker!NotifyIdle, Tracker!Cancelled, Tracker!Panic, Tracker!Running
    <3> QED BY <3>2, <3>3 DEF Promise!End
  <2>4. ASSUME NEW s \in Shutters, CloseGate(s)
        PROVE  [Promise!Next]_(Promise!vars)
    <3>1. /\ Tracker!Running' = Tracker!Running /\ sdPc' = sdPc
          /\ Gate!Holders' = Gate!Holders
      BY <2>4 DEF CloseGate, Gate!Shutdown, Gate!AwaitDrain, Gate!CloseLoad, Gate!Close,
         Gate!CloseRetry, Gate!Precheck, Gate!Arm, Gate!Check, Gate!Wake, Gate!Expire,
         Gate!Cancel, Tracker!Running, Gate!Holders
    <3>2. CASE Gate!CloseLoad(s) \/ Gate!CloseRetry(s)
      <4>1. Phase' = Phase
        BY <3>1, <3>2, Facts DEF Gate!CloseLoad, Gate!CloseRetry, Phase, Drained, TimedOut,
           Gate!Closed
      <4> QED BY <3>1, <4>1
    <3>3. CASE Gate!Close(s)
      <4>1. ~Gate!Closed(word)
        BY <3>3 DEF Gate!Close, GP!IInv, GP!SeenWasOpen, GP!Closed, GP!ClosedBit,
           Gate!Closed, Gate!ClosedBit
      <4>2. Phase = "open" /\ sdPc = "idle"
        BY <4>1 DEF PhaseKnown
      <4>3. shutPc'[s] = "precheck"
        BY <3>3, Facts DEF Gate!Close
      <4>4. Phase' = "closing"
        BY <3>1, <4>2, <4>3 DEF PhaseKnown
      <4> QED BY <3>1, <4>2, <4>4 DEF Promise!Close
    <3>4. CASE Gate!AwaitDrain(s) \/ Gate!Cancel(s)
      <4>1. /\ shutPc[s] \in {"precheck", "arm", "check", "wait"}
            /\ shutPc'[s] \in Gate!CloserStates
        BY <3>4, Facts DEF Gate!AwaitDrain, Gate!Precheck, Gate!Arm, Gate!Check, Gate!Wake,
           Gate!Expire, Gate!Cancel
      <4>2. sdPc = "idle"
        BY <4>1, Facts DEF Bridge
      <4>3. Phase = "closing"
        BY <4>1, <4>2 DEF PhaseKnown
      <4>4. Phase' \in {"closing", "early"}
        BY <3>1, <4>1, <4>2 DEF PhaseKnown
      <4> QED BY <3>1, <4>3, <4>4 DEF Promise!ReturnEarly
    <3> QED BY <2>4, <3>2, <3>3, <3>4 DEF CloseGate, Gate!Shutdown
  <2>5. ASSUME NEW s \in Shutters, RejectNewTasks(s) \/ TrackerShutdown(s) \/ AwaitTasks \/ Cancel
        PROVE  [Promise!Next]_(Promise!vars)
    <3>1. /\ UNCHANGED gateVars
          /\ task' = task /\ inFlight' = inFlight
          /\ sdPc \notin {"clean", "gave_up", "cancelled"}
          /\ sdPc' \in Tracker!DownStates
          /\ sdPc' = "clean" => inFlight = 0
      BY <2>5 DEF RejectNewTasks, TrackerShutdown, AwaitTasks, Cancel, Tracker!RejectNewTasks,
         Tracker!ShutdownCall, Tracker!AwaitTasks, Tracker!CancelShutdown, Tracker!Arm,
         Tracker!Check, Tracker!Wake, Tracker!Expire, Tracker!RejectRest, Tracker!Collect,
         Tracker!AbortOne, Tracker!GiveUp, Tracker!DownStates
    <3>2. Gate!Holders' = Gate!Holders /\ Tracker!Running' = Tracker!Running
      BY <3>1 DEF Gate!Holders, Tracker!Running
    <3>3. PICK c \in Shutters : shutPc[c] \in {"drained", "expired"}
      BY <2>5 DEF RejectNewTasks, TrackerShutdown, AwaitTasks, Cancel, Tracker!AwaitTasks,
         Tracker!CancelShutdown, Tracker!Arm, Tracker!Check, Tracker!Wake, Tracker!Expire,
         Tracker!RejectRest, Tracker!Collect, Tracker!AbortOne, Tracker!GiveUp, Bridge
    <3>4. Phase = "closing"
      BY <3>1, <3>3 DEF PhaseKnown
    <3>5. shutPc'[c] = shutPc[c]
      BY <3>1
    <3>6. CASE shutPc[c] = "drained" /\ sdPc' = "clean"
      <4>1. Phase' = "ok"
        BY <3>5, <3>6 DEF PhaseKnown
      <4>2. Gate!Holders = {} /\ Tracker!Running = {}
        BY <3>1, <3>6, Facts
      <4> QED BY <3>2, <3>4, <4>1, <4>2 DEF Promise!ReturnOk
    <3>7. CASE ~(shutPc[c] = "drained" /\ sdPc' = "clean")
      <4>1. Phase' \in {"closing", "early"}
        BY <3>3, <3>5, <3>7 DEF PhaseKnown
      <4> QED BY <3>2, <3>4, <4>1 DEF Promise!ReturnEarly
    <3> QED BY <3>6, <3>7
  <2>6. CASE UNCHANGED vars
    BY <2>6 DEF vars, Gate!Holders, Tracker!Running, Phase, Drained, TimedOut, Gate!Closed
  <2>7. AwaitTasks \/ Cancel => \E s \in Shutters : TRUE
    BY DEF AwaitTasks, Cancel, Tracker!AwaitTasks, Tracker!CancelShutdown, Tracker!Arm,
       Tracker!Check, Tracker!Wake, Tracker!Expire, Tracker!RejectRest, Tracker!Collect,
       Tracker!AbortOne, Tracker!GiveUp, Bridge
  <2> QED BY <2>1, <2>2, <2>3, <2>4, <2>5, <2>6, <2>7 DEF Next, Publish, Shutdown, Settled
<1> QED
  BY <1>1, <1>2, <1>3, Invariance, PTL DEF Spec, ImplementsQuiescence, Promise!Spec
=============================================================================
