------------------------- MODULE DispatchGateProofs -------------------------
(***************************************************************************)
(* Proofs about DispatchGate, for any number of publish and shutdown calls *)
(* and any width of the count.                                             *)
(***************************************************************************)
EXTENDS DispatchGate, FiniteSetTheorems, TLAPS

(* A compare-and-swap in flight was prepared from a word that passed the   *)
(* checks: open, and with room in the count.                               *)
SeenWasOpen ==
  /\ \A p \in Publishers :
       pubPc[p] = "cas" => ~Closed(pubSeen[p]) /\ Count(pubSeen[p]) < CountMask
  /\ \A s \in Shutters : shutPc[s] = "cas" => ~Closed(shutSeen[s])

IInv ==
  /\ TypeOK
  /\ SeenWasOpen
  /\ CountIsGuards
  /\ OneCloser
  /\ DrainedIsEmpty
  /\ NoLostWakeup

\* The guards outstanding are finitely many, so they can be counted.
LEMMA HoldersFinite == IsFiniteSet(Holders) /\ Cardinality(Holders) \in Nat
<1>1. Holders \subseteq Publishers
  BY DEF Holders
<1>2. IsFiniteSet(Holders)
  BY <1>1, PublishersAssumption, FS_Subset
<1> QED
  BY <1>2, FS_CardinalityType

\* A guard more or less is a count more or less.
LEMMA HoldersChange ==
  ASSUME NEW p
  PROVE  /\ p \notin Holders => Cardinality(Holders \cup {p}) = Cardinality(Holders) + 1
         /\ p \in Holders => /\ Cardinality(Holders) > 0
                             /\ Cardinality(Holders \ {p}) = Cardinality(Holders) - 1
<1>1. p \in Holders => Cardinality(Holders) > 0
  BY HoldersFinite, FS_EmptySet
<1> QED
  BY <1>1, HoldersFinite, FS_AddElement, FS_RemoveElement

\* In the initial state nobody is anywhere.
LEMMA InitInv == Init => IInv
<1> SUFFICES ASSUME Init PROVE IInv
  OBVIOUS
<1> USE CountMaskAssumption DEF Init, ClosedBit, Closed, Count
<1>1. TypeOK
  BY DEF TypeOK, Words, PubStates, ShutStates, WaiterStates
<1>2. SeenWasOpen
  BY DEF SeenWasOpen
<1>3. CountIsGuards
  <2>1. Holders = {}
    BY DEF Holders
  <2> QED BY <2>1, FS_EmptySet DEF CountIsGuards
<1>4. OneCloser /\ DrainedIsEmpty /\ NoLostWakeup
  BY DEF OneCloser, Closers, CloserStates, DrainedIsEmpty, NoLostWakeup
<1> QED
  BY <1>1, <1>2, <1>3, <1>4 DEF IInv

\* Every step of begin_dispatch, of the guard and of shutdown keeps IInv.
LEMMA StepInv == IInv /\ [Next]_vars => IInv'
<1> SUFFICES ASSUME IInv, [Next]_vars PROVE IInv'
  OBVIOUS
<1> USE CountMaskAssumption
<1> USE DEF IInv, TypeOK, SeenWasOpen, OneCloser, Closers, CloserStates, DrainedIsEmpty,
        NoLostWakeup, Words, ClosedBit, Closed, Count, PubStates, ShutStates, WaiterStates,
        pubVars, shutVars
<1>1. ASSUME NEW p \in Publishers, BeginLoad(p) PROVE IInv'
  <2> USE <1>1 DEF BeginLoad, Advance
  <2>1. TypeOK' OBVIOUS
  <2>2. SeenWasOpen' OBVIOUS
  <2>3. Holders' = Holders BY DEF Holders
  <2>4. CountIsGuards' BY <2>3 DEF CountIsGuards
  <2>5. OneCloser' /\ DrainedIsEmpty' BY <2>3
  <2>6. NoLostWakeup' OBVIOUS
  <2> QED BY <2>1, <2>2, <2>4, <2>5, <2>6
<1>2. ASSUME NEW p \in Publishers, Enter(p) PROVE IInv'
  <2> USE <1>2 DEF Enter, Advance
  <2>1. ~Closed(word) /\ Count(word) < CountMask OBVIOUS
  <2>2. Count(word') = Count(word) + 1 /\ ~Closed(word') BY <2>1
  <2>3. TypeOK' BY <2>1
  <2>4. SeenWasOpen' OBVIOUS
  <2>5. Holders' = Holders \cup {p} /\ p \notin Holders BY DEF Holders
  <2>6. CountIsGuards' BY <2>2, <2>5, HoldersChange DEF CountIsGuards
  <2>7. OneCloser' BY <2>1, <2>2
  <2>8. DrainedIsEmpty' BY <2>1
  <2>9. NoLostWakeup' BY <2>1
  <2> QED BY <2>3, <2>4, <2>6, <2>7, <2>8, <2>9
<1>3. ASSUME NEW p \in Publishers, EnterRetry(p) PROVE IInv'
  <2> USE <1>3 DEF EnterRetry, Advance
  <2>1. TypeOK' /\ SeenWasOpen' OBVIOUS
  <2>2. Holders' = Holders BY DEF Holders
  <2>3. CountIsGuards' BY <2>2 DEF CountIsGuards
  <2>4. OneCloser' /\ DrainedIsEmpty' BY <2>2
  <2>5. NoLostWakeup' OBVIOUS
  <2> QED BY <2>1, <2>3, <2>4, <2>5
<1>4. ASSUME NEW p \in Publishers, Leave(p) PROVE IInv'
  <2> USE <1>4 DEF Leave, Advance, Decrement
  <2>1. Holders' = Holders \ {p} /\ p \in Holders BY DEF Holders
  <2>2. Count(word) > 0 BY <2>1, HoldersChange DEF CountIsGuards
  <2>3. Count(word') = Count(word) - 1 /\ (Closed(word') <=> Closed(word)) BY <2>2
  <2>4. TypeOK' BY <2>2
  <2>5. SeenWasOpen' OBVIOUS
  <2>6. CountIsGuards' BY <2>1, <2>3, HoldersChange DEF CountIsGuards
  <2>7. OneCloser' BY <2>3
  <2>8. DrainedIsEmpty' BY <2>1
  <2>9. NoLostWakeup' BY <2>2, <2>3
  <2> QED BY <2>4, <2>5, <2>6, <2>7, <2>8, <2>9
<1>5. ASSUME NEW p \in Publishers, NotifyDrained(p) PROVE IInv'
  <2> USE <1>5 DEF NotifyDrained, Advance, NotifyWaiters
  <2>1. TypeOK' OBVIOUS
  <2>2. SeenWasOpen' OBVIOUS
  <2>3. Holders' = Holders BY DEF Holders
  <2>4. CountIsGuards' BY <2>3 DEF CountIsGuards
  <2>5. OneCloser' /\ DrainedIsEmpty' BY <2>3
  <2>6. NoLostWakeup' OBVIOUS
  <2> QED BY <2>1, <2>2, <2>4, <2>5, <2>6
<1>6. ASSUME NEW s \in Shutters, Close(s) PROVE IInv'
  <2> USE <1>6 DEF Close, Proceed
  <2>1. ~Closed(word) /\ Closed(word') /\ Count(word') = Count(word) OBVIOUS
  <2>2. TypeOK' BY <2>1
  <2>3. SeenWasOpen' OBVIOUS
  <2>4. Holders' = Holders BY DEF Holders
  <2>5. CountIsGuards' BY <2>1, <2>4 DEF CountIsGuards
  <2>6. Closers = {} BY <2>1
  <2>7. Closers' = {s} BY <2>6
  <2>8. OneCloser' BY <2>1, <2>7
  <2>9. DrainedIsEmpty' BY <2>4
  <2>10. NoLostWakeup' BY <2>6
  <2> QED BY <2>2, <2>3, <2>5, <2>8, <2>9, <2>10
<1>7. ASSUME NEW s \in Shutters, Shutdown(s), ~Close(s) PROVE IInv'
  <2> USE DEF Proceed, Shutdown, AwaitDrain
  <2>1. word' = word /\ pubPc' = pubPc /\ pubSeen' = pubSeen
    BY <1>7 DEF CloseLoad, CloseRetry, Precheck, Arm, Check, Wake, Expire, Cancel
  <2>2. Holders' = Holders BY <2>1 DEF Holders
  <2>3. CountIsGuards' BY <2>1, <2>2 DEF CountIsGuards
  <2>4. CASE CloseLoad(s) BY <2>1, <2>2, <2>3, <2>4 DEF CloseLoad
  <2>5. CASE CloseRetry(s) BY <2>1, <2>2, <2>3, <2>5 DEF CloseRetry
  <2>6. CASE Precheck(s)
    <3>1. Count(word) = 0 => Holders = {}
      BY HoldersFinite, FS_EmptySet DEF CountIsGuards
    <3> QED BY <2>1, <2>2, <2>3, <2>6, <3>1 DEF Precheck
  <2>7. CASE Arm(s) BY <2>1, <2>2, <2>3, <2>7 DEF Arm
  <2>8. CASE Check(s)
    <3>1. Count(word) = 0 => Holders = {}
      BY HoldersFinite, FS_EmptySet DEF CountIsGuards
    <3> QED BY <2>1, <2>2, <2>3, <2>8, <3>1 DEF Check
  <2>9. CASE Wake(s) BY <2>1, <2>2, <2>3, <2>9 DEF Wake
  <2>10. CASE Expire(s) BY <2>1, <2>2, <2>3, <2>10 DEF Expire
  <2>11. CASE Cancel(s) BY <2>1, <2>2, <2>3, <2>11 DEF Cancel
  <2> QED BY <1>7, <2>4, <2>5, <2>6, <2>7, <2>8, <2>9, <2>10, <2>11
<1>8. ASSUME UNCHANGED vars PROVE IInv'
  <2>1. Holders' = Holders BY <1>8 DEF vars, Holders
  <2> QED BY <1>8, <2>1 DEF vars, CountIsGuards
<1> QED
  BY <1>1, <1>2, <1>3, <1>4, <1>5, <1>6, <1>7, <1>8 DEF Next, Publish, Settled

-----------------------------------------------------------------------------
(* Theorems *)

\* IInv holds in every reachable state.
THEOREM Invariance == Spec => []IInv
<1>1. Init => IInv
  BY InitInv
<1>2. IInv /\ [Next]_vars => IInv'
  BY StepInv
<1> QED
  BY <1>1, <1>2, PTL DEF Spec

\* begin_dispatch, close_dispatches and DispatchGuard keep the packed word in
\* its width.
THEOREM TypeCorrect == Spec => []TypeOK
<1>1. IInv => TypeOK
  BY DEF IInv
<1> QED
  BY <1>1, Invariance, PTL

\* dispatches_in_flight is exactly the number of guards that exist.
THEOREM CountCorrect == Spec => []CountIsGuards
<1>1. IInv => CountIsGuards
  BY DEF IInv
<1> QED
  BY <1>1, Invariance, PTL

\* One shutdown call, and only one, is told by close_dispatches to go on.
THEOREM CloserUnique == Spec => []OneCloser
<1>1. IInv => OneCloser
  BY DEF IInv
<1> QED
  BY <1>1, Invariance, PTL

\* When wait_for_dispatches_to_drain reports a drained gate, it is empty.
THEOREM DrainSound == Spec => []DrainedIsEmpty
<1>1. IInv => DrainedIsEmpty
  BY DEF IInv
<1> QED
  BY <1>1, Invariance, PTL

\* The drain never sleeps on an empty gate with no wakeup on its way.
THEOREM WakeupKept == Spec => []NoLostWakeup
<1>1. IInv => NoLostWakeup
  BY DEF IInv
<1> QED
  BY <1>1, Invariance, PTL

\* Nobody passes begin_dispatch once close_dispatches has set the bit.
THEOREM Admission == Spec => ClosedAdmitsNobody
<1>1. IInv /\ [Next]_vars => [Closed(word) => Closed(word') /\ Holders' \subseteq Holders]_vars
  <2> SUFFICES ASSUME IInv, Next, Closed(word)
               PROVE  Closed(word') /\ Holders' \subseteq Holders
    BY DEF vars
  <2> USE CountMaskAssumption
      DEF IInv, TypeOK, SeenWasOpen, Words, ClosedBit, Closed, Count, Holders
  <2>1. ASSUME NEW p \in Publishers, Leave(p)
        PROVE  Closed(word') /\ Holders' \subseteq Holders
    <3>1. Count(word) > 0
      BY <2>1, HoldersChange DEF Leave, CountIsGuards
    <3> QED BY <2>1, <3>1 DEF Leave, Advance, Decrement
  <2>2. ASSUME NEW p \in Publishers, Publish(p), ~Leave(p)
        PROVE  Closed(word') /\ Holders' \subseteq Holders
    BY <2>2 DEF Publish, Advance, BeginLoad, Enter, EnterRetry, NotifyDrained
  <2>3. ASSUME NEW s \in Shutters, Shutdown(s)
        PROVE  Closed(word') /\ Holders' \subseteq Holders
    BY <2>3 DEF Shutdown, AwaitDrain, CloseLoad, Close, CloseRetry, Precheck, Arm, Check,
                Wake, Expire, Cancel, pubVars
  <2>4. CASE Settled
    BY <2>4 DEF Settled, vars, pubVars
  <2> QED BY <2>1, <2>2, <2>3, <2>4 DEF Next
<1> QED
  BY <1>1, Invariance, PTL DEF Spec, ClosedAdmitsNobody

\* The packed word, the loops around it and the Notify implement Lifecycle.
THEOREM Refinement == Spec => ImplementsLifecycle
<1>1. Init => Bus!Init
  BY CountMaskAssumption
     DEF Init, Bus!Init, Closed, ClosedBit, Holders, Outcome
<1>2. IInv /\ [Next]_vars => [Bus!Next]_(Bus!vars)
  <2> SUFFICES ASSUME IInv, [Next]_vars PROVE [Bus!Next]_(Bus!vars)
    OBVIOUS
  <2> USE CountMaskAssumption
      DEF IInv, TypeOK, SeenWasOpen, OneCloser, Closers, CloserStates, Words, ClosedBit,
          Closed, Count, Bus!Next, Bus!vars, Advance, Proceed, pubVars, shutVars
  <2>1. ASSUME NEW p \in Publishers, Publish(p) PROVE [Bus!Next]_(Bus!vars)
    <3>1. Outcome' = Outcome
      BY <2>1 DEF Publish, BeginLoad, Enter, EnterRetry, Leave, NotifyDrained, Outcome
    <3>2. CASE Enter(p)
      <4>1. ~Closed(word) /\ ~Closed(word') /\ Holders' = Holders \cup {p} /\ p \notin Holders
        BY <3>2 DEF Enter, Holders
      <4> QED BY <3>1, <4>1 DEF Bus!Enter
    <3>3. CASE Leave(p)
      <4>1. Holders' = Holders \ {p} /\ p \in Holders
        BY <3>3 DEF Leave, Holders
      <4>2. Count(word) > 0
        BY <4>1, HoldersChange DEF CountIsGuards
      <4>3. Closed(word') <=> Closed(word)
        BY <3>3, <4>2 DEF Leave, Decrement
      <4> QED BY <3>1, <4>1, <4>3 DEF Bus!Leave
    <3>4. CASE BeginLoad(p) \/ EnterRetry(p) \/ NotifyDrained(p)
      <4>1. Holders' = Holders /\ word' = word
        BY <3>4 DEF BeginLoad, EnterRetry, NotifyDrained, Holders
      <4> QED BY <3>1, <4>1
    <3> QED BY <2>1, <3>2, <3>3, <3>4 DEF Publish
  <2>2. ASSUME NEW s \in Shutters, Shutdown(s) PROVE [Bus!Next]_(Bus!vars)
    <3>1. Holders' = Holders
      BY <2>2 DEF Shutdown, AwaitDrain, CloseLoad, Close, CloseRetry, Precheck, Arm, Check,
                  Wake, Expire, Cancel, Holders
    <3>2. CASE Close(s)
      <4>1. ~Closed(word) /\ Closed(word') /\ Closers = {}
        BY <3>2 DEF Close
      <4>2. Outcome = "pending" /\ Outcome' = "pending"
        BY <3>2, <4>1 DEF Close, Outcome
      <4> QED BY <3>1, <4>1, <4>2 DEF Bus!Close
    <3>3. CASE AwaitDrain(s) \/ Cancel(s)
      <4>1. /\ word' = word /\ Closed(word)
            /\ s \in Closers
            /\ shutPc[s] \in {"precheck", "arm", "check", "wait"}
            /\ \A t \in Shutters : t # s => shutPc[t] \notin CloserStates /\ shutPc'[t] = shutPc[t]
        BY <3>3 DEF AwaitDrain, Precheck, Arm, Check, Wake, Expire, Cancel
      <4>2. Outcome = "pending"
        BY <4>1 DEF Outcome
      <4>3. shutPc'[s] = "drained" => Outcome' = "drained" /\ Holders = {}
        <5>1. shutPc'[s] = "drained" => Count(word) = 0
          BY <3>3 DEF AwaitDrain, Precheck, Arm, Check, Wake, Expire, Cancel
        <5> QED BY <5>1, HoldersFinite, FS_EmptySet DEF CountIsGuards, Outcome
      <4>4. shutPc'[s] \in {"expired", "cancelled"} => Outcome' = "gave_up"
        BY <4>1 DEF Outcome
      <4>5. shutPc'[s] \in {"arm", "check", "wait"} => Outcome' = "pending"
        BY <4>1 DEF Outcome
      <4>6. shutPc'[s] \in {"drained", "expired", "cancelled", "arm", "check", "wait"}
        BY <3>3 DEF AwaitDrain, Precheck, Arm, Check, Wake, Expire, Cancel
      <4> QED BY <3>1, <4>1, <4>2, <4>3, <4>4, <4>5, <4>6 DEF Bus!Drained, Bus!GaveUp
    <3>4. CASE CloseLoad(s) \/ CloseRetry(s)
      <4>1. word' = word /\ Outcome' = Outcome
        BY <3>4 DEF CloseLoad, CloseRetry, Outcome
      <4> QED BY <3>1, <4>1
    <3> QED BY <2>2, <3>2, <3>3, <3>4 DEF Shutdown
  <2>3. CASE UNCHANGED vars
    BY <2>3 DEF vars, Holders, Outcome
  <2> QED BY <2>1, <2>2, <2>3 DEF Next, Settled
<1> QED
  BY <1>1, <1>2, Invariance, PTL DEF Spec, ImplementsLifecycle, Bus!Spec
=============================================================================
