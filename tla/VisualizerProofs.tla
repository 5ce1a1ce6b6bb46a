-------------------------- MODULE VisualizerProofs --------------------------
(***************************************************************************)
(* Proofs about the visualizer example, for any limits of its lists, any   *)
(* configurations and any number of events.  Of ConfigForm: the positions  *)
(* that the form keeps stay positions of its lists.  Of Simulation: what   *)
(* is shown, with the reports still on their way, is what happened, so no  *)
(* gauge is ever negative and the frozen counters are exact.               *)
(***************************************************************************)
EXTENDS ConfigForm, Simulation, SequenceTheorems, FiniteSetTheorems,
        NaturalsInduction, WellFoundedInduction, TLAPS

-----------------------------------------------------------------------------
(* The form                                                                *)

Names == Texts \cup {DefaultNames[1], DefaultNames[2]}
               \cup {Generated[i] : i \in 1 .. MaxEventTypes}
Patterns == {"Constant", "Burst", "Random"}
EventTypes == [name : Names, pattern : Patterns, interval : Nat]
ListenerEntries == [name : {"", "given"}, type : Nat]

(* Sections that have fields, lists that are lists, and an event type.     *)
FormShape ==
  /\ phase \in {"Config", "Running", "Quit"}
  /\ tab \in {"Bus", "EventTypes", "Listeners", "Publish"}
  /\ eventTypes \in Seq(EventTypes)
  /\ listeners \in Seq(ListenerEntries)
  /\ selType \in Nat /\ selListener \in Nat
  /\ editing \in BOOLEAN

(* PositionsExist with the number of fields written out.                   *)
FieldsExist ==
  /\ field \in 0 .. 7
  /\ tab = "Bus" => field < 3
  /\ tab = "EventTypes" => field < 4
  /\ tab = "Publish" => field < 2

EntriesExist ==
  /\ selType \in Positions(eventTypes)
  /\ listeners # <<>> => selListener \in Positions(listeners)
  /\ \A i \in Positions(listeners) : listeners[i].type \in Positions(eventTypes)

FormInv == FormShape /\ FieldsExist /\ EntriesExist /\ EditsStayPut

\* How many fields a section has.
LEMMA Counts ==
  /\ FieldCount("Bus") = 3 /\ FieldCount("EventTypes") = 4 /\ FieldCount("Publish") = 2
  /\ FieldCount("Listeners") \in {0, 8}
BY DEF FieldCount

\* What is left of a list when an entry is taken out.
LEMMA Removal ==
  ASSUME NEW S, NEW s \in Seq(S), NEW i \in Positions(s)
  PROVE  /\ RemoveAt(s, i) \in Seq(S)
         /\ Len(RemoveAt(s, i)) = Len(s) - 1
         /\ \A j \in Positions(RemoveAt(s, i)) :
              RemoveAt(s, i)[j] = IF j < i THEN s[j] ELSE s[j + 1]
<1> DEFINE a == SubSeq(s, 1, i - 1)
           b == SubSeq(s, i + 1, Len(s))
<1>1. Len(s) \in Nat /\ i \in 1 .. Len(s) /\ \A j \in 1 .. Len(s) : s[j] \in S
  BY LenProperties DEF Positions
<1>2. /\ a \in Seq(S) /\ Len(a) = i - 1
      /\ \A j \in 1 .. i - 1 : a[j] = s[j]
  <2>1. 1 \in Int /\ i - 1 \in Int /\ \A j \in 1 .. i - 1 : s[j] \in S
    BY <1>1
  <2>2. /\ a \in Seq(S) /\ Len(a) = IF 1 <= i - 1 THEN i - 1 - 1 + 1 ELSE 0
        /\ \A j \in 1 .. i - 1 - 1 + 1 : a[j] = s[1 + j - 1]
    BY <2>1, SubSeqProperties
  <2> HIDE DEF a
  <2> QED BY <1>1, <2>2
<1>3. /\ b \in Seq(S) /\ Len(b) = Len(s) - i
      /\ \A j \in 1 .. Len(s) - i : b[j] = s[i + j]
  <2>1. i + 1 \in Int /\ Len(s) \in Int /\ \A j \in i + 1 .. Len(s) : s[j] \in S
    BY <1>1
  <2>2. /\ b \in Seq(S) /\ Len(b) = IF i + 1 <= Len(s) THEN Len(s) - (i + 1) + 1 ELSE 0
        /\ \A j \in 1 .. Len(s) - (i + 1) + 1 : b[j] = s[i + 1 + j - 1]
    BY <2>1, SubSeqProperties
  <2> HIDE DEF b
  <2> QED BY <1>1, <2>2
<1>4. RemoveAt(s, i) = a \o b
  BY DEF RemoveAt
<1> HIDE DEF a, b
<1>5. /\ a \o b \in Seq(S)
      /\ Len(a \o b) = Len(s) - 1
      /\ \A j \in 1 .. Len(s) - 1 : (a \o b)[j] = IF j <= i - 1 THEN a[j] ELSE b[j - (i - 1)]
  <2>1. /\ a \o b \in Seq(S)
        /\ Len(a \o b) = Len(a) + Len(b)
        /\ \A j \in 1 .. Len(a) + Len(b) :
             (a \o b)[j] = IF j <= Len(a) THEN a[j] ELSE b[j - Len(a)]
    BY <1>2, <1>3, ConcatProperties
  <2>2. Len(a) + Len(b) = Len(s) - 1
    BY <1>1, <1>2, <1>3
  <2> QED BY <1>2, <2>1, <2>2
<1>6. \A j \in 1 .. Len(s) - 1 : (a \o b)[j] = IF j < i THEN s[j] ELSE s[j + 1]
  <2> TAKE j \in 1 .. Len(s) - 1
  <2>1. CASE j < i
    BY <1>1, <1>2, <1>5, <2>1
  <2>2. CASE ~(j < i)
    <3>1. j - (i - 1) \in 1 .. Len(s) - i /\ i + (j - (i - 1)) = j + 1
      BY <1>1, <2>2
    <3>2. b[j - (i - 1)] = s[i + (j - (i - 1))]
      BY <1>3, <3>1
    <3> QED BY <1>1, <1>5, <2>2, <3>1, <3>2
  <2> QED BY <2>1, <2>2
<1> QED
  BY <1>4, <1>5, <1>6 DEF Positions

\* The form starts in order.
LEMMA FormInit == Init => FormInv
<1> SUFFICES ASSUME Init PROVE FormInv
  OBVIOUS
<1>1. NewEventType(DefaultNames[1]) \in EventTypes /\ NewEventType(DefaultNames[2]) \in EventTypes
  BY DEF NewEventType, EventTypes, Names, Patterns
<1>2. NewListener \in ListenerEntries /\ [NewListener EXCEPT !.type = 2] \in ListenerEntries
  BY DEF NewListener, ListenerEntries
<1>3. eventTypes \in Seq(EventTypes) /\ Len(eventTypes) = 2
  BY <1>1 DEF Init
<1>4. /\ listeners \in Seq(ListenerEntries) /\ Len(listeners) = 2
      /\ \A i \in Positions(listeners) : listeners[i].type \in {1, 2}
  BY <1>2 DEF Init, NewListener, Positions
<1>5. FormShape
  BY <1>3, <1>4 DEF Init, FormShape
<1>6. EntriesExist
  BY <1>3, <1>4 DEF Init, EntriesExist, Positions
<1>7. FieldsExist /\ EditsStayPut
  BY DEF Init, FieldsExist, EditsStayPut
<1> QED
  BY <1>5, <1>6, <1>7 DEF FormInv

\* A key that leaves the lists, and the entries selected, as they are.
LEMMA ListsSame ==
  ASSUME FormInv, UNCHANGED <<phase, eventTypes, listeners, selType, selListener>>,
         editing' = FALSE, tab' \in {"Bus", "EventTypes", "Listeners", "Publish"},
         FieldsExist'
  PROVE  FormInv'
<1>1. FormShape'
  BY DEF FormInv, FormShape
<1>2. EntriesExist'
  BY DEF FormInv, EntriesExist, Positions
<1>3. EditsStayPut'
  BY DEF EditsStayPut
<1> QED
  BY <1>1, <1>2, <1>3 DEF FormInv

\* Keys that only move.
LEMMA MovesKeep ==
  ASSUME FormInv,
         PressTab \/ PressUp \/ PressDown \/ PressEsc
           \/ SelectEventType \/ SelectListener \/ StartEdit
  PROVE  FormInv'
<1> USE DEF FormInv, FormShape, FieldsExist, EntriesExist, EditsStayPut, Positions, OnForm,
            Lists, cursor, StopEditing
<1>1. CASE PressTab
  <2>1. tab' \in {"Bus", "EventTypes", "Listeners", "Publish"}
    <3>1. \A n \in 1 .. 4 : Tabs[n] \in {"Bus", "EventTypes", "Listeners", "Publish"}
      BY DEF Tabs
    <3>2. TabIndex \in 1 .. 4
      <4>1. \E i \in Positions(Tabs) : Tabs[i] = tab
        <5>1. /\ Tabs[1] = "Bus" /\ Tabs[2] = "EventTypes" /\ Tabs[3] = "Listeners"
              /\ Tabs[4] = "Publish" /\ Len(Tabs) = 4
          BY DEF Tabs
        <5> QED BY <5>1
      <4>2. Len(Tabs) = 4
        BY DEF Tabs
      <4> QED BY <4>1, <4>2 DEF TabIndex
    <3>3. PICK step \in {1, 3} : tab' = Tabs[((TabIndex - 1 + step) % 4) + 1]
      <4>1. Len(Tabs) = 4
        BY DEF Tabs
      <4> QED BY <1>1, <4>1 DEF PressTab
    <3>4. ((TabIndex - 1 + step) % 4) + 1 \in 1 .. 4
      BY <3>2
    <3> QED BY <3>1, <3>3, <3>4
  <2>2. field' = 0 /\ UNCHANGED <<phase, eventTypes, listeners, selType, selListener>>
        /\ editing' = FALSE
    BY <1>1 DEF PressTab
  <2>3. FieldsExist'
    BY <2>2
  <2> QED BY <2>1, <2>2, <2>3, ListsSame
<1>2. CASE PressUp
  <2>1. FieldsExist' /\ UNCHANGED <<phase, eventTypes, listeners, selType, selListener, tab>>
        /\ editing' = FALSE
    BY <1>2 DEF PressUp
  <2> QED BY <2>1, ListsSame
<1>3. CASE PressDown
  <2>1. field + 1 < FieldCount(tab) =>
          /\ field + 1 \in 0 .. 7
          /\ tab = "Bus" => field + 1 < 3
          /\ tab = "EventTypes" => field + 1 < 4
          /\ tab = "Publish" => field + 1 < 2
    BY Counts
  <2>2. field' = field \/ (field + 1 < FieldCount(tab) /\ field' = field + 1)
    BY <1>3 DEF PressDown
  <2>3. UNCHANGED <<phase, tab, eventTypes, listeners, selType, selListener>>
        /\ editing' = FALSE
    BY <1>3 DEF PressDown
  <2>4. FieldsExist'
    BY <2>1, <2>2, <2>3
  <2> QED BY <2>3, <2>4, ListsSame
<1>4. CASE PressEsc
  BY <1>4 DEF PressEsc
<1>5. CASE SelectEventType \/ SelectListener
  BY <1>5, LenProperties DEF SelectEventType, SelectListener, Neighbours
<1>6. CASE StartEdit
  BY <1>6 DEF StartEdit, TextFields
<1> QED
  BY <1>1, <1>2, <1>3, <1>4, <1>5, <1>6

\* New entries are selected.
LEMMA AddsKeep ==
  ASSUME FormInv, AddEventType \/ AddListener
  PROVE  FormInv'
<1> USE DEF FormInv, FormShape, FieldsExist, EntriesExist, EditsStayPut, Positions, OnForm
<1>0. Len(eventTypes) \in Nat /\ Len(listeners) \in Nat /\ 1 <= Len(eventTypes)
  BY LenProperties
<1>1. CASE AddEventType
  <2> DEFINE e == NewEventType(Generated[Len(eventTypes) + 1])
  <2>1. e \in EventTypes
    <3>1. Len(eventTypes) + 1 \in 1 .. MaxEventTypes
      BY <1>0, <1>1, FormAssumption DEF AddEventType
    <3>2. Generated[Len(eventTypes) + 1] \in Names
      BY <3>1 DEF Names
    <3> QED BY <3>2 DEF NewEventType, EventTypes, Patterns
  <2>2. eventTypes' = Append(eventTypes, e)
    BY <1>1 DEF AddEventType
  <2> HIDE DEF e
  <2>3. eventTypes' \in Seq(EventTypes) /\ Len(eventTypes') = Len(eventTypes) + 1
    BY <2>1, <2>2, AppendProperties
  <2> QED BY <1>0, <1>1, <2>3 DEF AddEventType
<1>2. CASE AddListener
  <2>1. NewListener \in ListenerEntries /\ NewListener.type = 1
    BY DEF NewListener, ListenerEntries
  <2>2. /\ listeners' \in Seq(ListenerEntries)
        /\ Len(listeners') = Len(listeners) + 1
        /\ \A i \in 1 .. Len(listeners) : listeners'[i] = listeners[i]
        /\ listeners'[Len(listeners) + 1].type = 1
    BY <1>2, <2>1, AppendProperties DEF AddListener
  <2>3. ASSUME NEW i \in 1 .. Len(listeners')
        PROVE  listeners'[i].type \in 1 .. Len(eventTypes)
    <3>1. i \in 1 .. Len(listeners) \/ i = Len(listeners) + 1
      BY <1>0, <2>2
    <3>2. 1 \in 1 .. Len(eventTypes)
      BY <1>0
    <3> QED BY <1>0, <2>2, <3>1, <3>2
  <2> QED BY <1>0, <1>2, <2>2, <2>3 DEF AddListener
<1> QED
  BY <1>1, <1>2

\* What a listener points to after an event type is gone is there.
LEMMA RetargetInRange ==
  ASSUME NEW n \in Nat, 1 < n, NEW type \in 1 .. n, NEW gone \in 1 .. n
  PROVE  Retarget(type, gone) \in 1 .. n - 1
BY DEF Retarget

\* Deleted entries take the positions after them along.
LEMMA DeletesKeep ==
  ASSUME FormInv, DeleteListener \/ DeleteEventType
  PROVE  FormInv'
<1> USE DEF FormInv, FormShape, FieldsExist, EntriesExist, EditsStayPut, Positions, OnForm
<1>0. Len(eventTypes) \in Nat /\ Len(listeners) \in Nat
  BY LenProperties
<1>1. CASE DeleteListener
  <2>1. /\ listeners' = RemoveAt(listeners, selListener)
        /\ selListener \in 1 .. Len(listeners)
        /\ UNCHANGED <<phase, eventTypes, tab, field, selType, editing>>
        /\ ~editing
        /\ tab = "Listeners"
    BY <1>1 DEF DeleteListener
  <2>2. /\ listeners' \in Seq(ListenerEntries)
        /\ Len(listeners') = Len(listeners) - 1
        /\ \A j \in 1 .. Len(listeners') :
             listeners'[j] = IF j < selListener THEN listeners[j] ELSE listeners[j + 1]
    BY <2>1, Removal
  <2>3. \A j \in 1 .. Len(listeners') : listeners'[j].type \in 1 .. Len(eventTypes)
    BY <1>0, <2>1, <2>2
  <2>4. selListener' \in Nat /\ (listeners' # <<>> => selListener' \in 1 .. Len(listeners'))
    <3>1. listeners' # <<>> => Len(listeners') # 0
      BY <2>2, EmptySeq
    <3> QED BY <1>0, <1>1, <2>1, <2>2, <3>1 DEF DeleteListener
  <2> QED BY <2>1, <2>2, <2>3, <2>4
<1>2. CASE DeleteEventType
  <2>1. /\ eventTypes' = RemoveAt(eventTypes, selType)
        /\ 1 < Len(eventTypes)
        /\ selType \in 1 .. Len(eventTypes)
        /\ UNCHANGED <<phase, tab, selListener, editing>>
        /\ ~editing
        /\ tab = "EventTypes"
    BY <1>2 DEF DeleteEventType
  <2>2. eventTypes' \in Seq(EventTypes) /\ Len(eventTypes') = Len(eventTypes) - 1
    BY <2>1, Removal
  <2>3. listeners' = [i \in 1 .. Len(listeners) |->
                        [listeners[i] EXCEPT !.type = Retarget(@, selType)]]
    BY <1>2 DEF DeleteEventType
  <2>4. ASSUME NEW i \in 1 .. Len(listeners)
        PROVE  /\ listeners'[i] \in ListenerEntries
               /\ listeners'[i].type \in 1 .. Len(eventTypes')
    <3>1. listeners[i] \in ListenerEntries
      BY LenProperties
    <3>2. listeners[i].type \in 1 .. Len(eventTypes)
      OBVIOUS
    <3>3. Retarget(listeners[i].type, selType) \in 1 .. Len(eventTypes) - 1
      BY <1>0, <2>1, <3>2, RetargetInRange
    <3>4. listeners'[i] = [listeners[i] EXCEPT !.type = Retarget(listeners[i].type, selType)]
      BY <2>3
    <3> DEFINE x == Retarget(listeners[i].type, selType)
    <3> HIDE DEF x
    <3>5. x \in Nat /\ x \in 1 .. Len(eventTypes')
      BY <1>0, <2>2, <3>3 DEF x
    <3>6. listeners'[i] = [listeners[i] EXCEPT !.type = x]
      BY <3>4 DEF x
    <3> QED BY <3>1, <3>5, <3>6 DEF ListenerEntries
  <2>5. listeners' \in Seq(ListenerEntries) /\ Len(listeners') = Len(listeners)
    BY <1>0, <2>3, <2>4
  <2>6. selType' \in 1 .. Len(eventTypes') /\ field' \in 0 .. 3
    BY <1>0, <1>2, <2>1, <2>2 DEF DeleteEventType
  <2>7. listeners' # <<>> => listeners # <<>>
    <3>1. listeners = <<>> => Len(listeners) = 0
      OBVIOUS
    <3> QED BY <2>5, <3>1, EmptySeq
  <2> QED BY <1>0, <2>1, <2>2, <2>4, <2>5, <2>6, <2>7
<1> QED
  BY <1>1, <1>2
\* A changed field keeps its entry in the list, and what the entry points to.
LEMMA EntriesKeep ==
  ASSUME FormInv,
         eventTypes' \in Seq(EventTypes), Len(eventTypes') = Len(eventTypes),
         listeners' \in Seq(ListenerEntries), Len(listeners') = Len(listeners),
         \A i \in Positions(listeners) : listeners'[i].type \in Positions(eventTypes),
         UNCHANGED <<phase, cursor>>, editing' = FALSE
  PROVE  FormInv'
<1>1. FormShape'
  BY DEF FormInv, FormShape, cursor
<1>2. listeners' # <<>> => listeners # <<>>
  <2>1. listeners = <<>> => Len(listeners) = 0
    OBVIOUS
  <2> QED BY <2>1, EmptySeq
<1>3. EntriesExist'
  BY <1>2 DEF FormInv, EntriesExist, Positions, cursor
<1>4. FieldsExist' /\ EditsStayPut'
  BY DEF FormInv, FieldsExist, EditsStayPut, cursor
<1> QED
  BY <1>1, <1>3, <1>4 DEF FormInv

\* An entry of a list in place of another.
LEMMA Replaced ==
  ASSUME NEW S, NEW s \in Seq(S), NEW i \in Positions(s), NEW x \in S
  PROVE  /\ [s EXCEPT ![i] = x] \in Seq(S)
         /\ Len([s EXCEPT ![i] = x]) = Len(s)
         /\ \A j \in Positions(s) : [s EXCEPT ![i] = x][j] = IF j = i THEN x ELSE s[j]
BY ExceptSeq, LenProperties DEF Positions

\* The choice after the last is the first.
LEMMA CycledInRange ==
  ASSUME NEW n \in Nat \ {0}, NEW m \in Nat
  PROVE  (m % n) + 1 \in 1 .. n
OBVIOUS

\* A text that is committed, and a choice that is cycled.
LEMMA ChangesKeep ==
  ASSUME FormInv, CommitEdit \/ CycleField
  PROVE  FormInv' /\ Len(eventTypes') = Len(eventTypes)
<1>1. UNCHANGED <<phase, cursor>> /\ editing' = FALSE
  BY DEF CommitEdit, CycleField, OnForm, StopEditing, FormInv, FormShape
<1>2. /\ eventTypes \in Seq(EventTypes) /\ selType \in Positions(eventTypes)
      /\ listeners \in Seq(ListenerEntries)
      /\ listeners # <<>> => selListener \in Positions(listeners)
      /\ \A i \in Positions(listeners) : listeners[i].type \in Positions(eventTypes)
      /\ Len(eventTypes) \in Nat /\ 1 <= Len(eventTypes)
  BY LenProperties DEF FormInv, FormShape, EntriesExist, Positions
<1>3. eventTypes[selType] \in EventTypes
  BY <1>2, LenProperties DEF Positions
<1>4. ASSUME NEW x \in EventTypes, eventTypes' = [eventTypes EXCEPT ![selType] = x],
             UNCHANGED listeners
      PROVE  FormInv' /\ Len(eventTypes') = Len(eventTypes)
  BY <1>1, <1>2, <1>4, Replaced, EntriesKeep
<1>5. ASSUME NEW x \in ListenerEntries, x.type \in Positions(eventTypes), listeners # <<>>,
             listeners' = [listeners EXCEPT ![selListener] = x], UNCHANGED eventTypes
      PROVE  FormInv' /\ Len(eventTypes') = Len(eventTypes)
  <2>1. /\ listeners' \in Seq(ListenerEntries) /\ Len(listeners') = Len(listeners)
        /\ \A j \in Positions(listeners) :
             listeners'[j] = IF j = selListener THEN x ELSE listeners[j]
    BY <1>2, <1>5, Replaced
  <2>2. \A i \in Positions(listeners) : listeners'[i].type \in Positions(eventTypes)
    BY <1>2, <1>5, <2>1
  <2>3. eventTypes' \in Seq(EventTypes) /\ Len(eventTypes') = Len(eventTypes)
    BY <1>2, <1>5
  <2> QED BY <1>1, <2>1, <2>2, <2>3, EntriesKeep
<1>6. ASSUME UNCHANGED Lists PROVE FormInv' /\ Len(eventTypes') = Len(eventTypes)
  BY <1>1, <1>2, <1>6, EntriesKeep DEF Lists
<1>7. ASSUME CommitEdit PROVE FormInv' /\ Len(eventTypes') = Len(eventTypes)
  <2>1. CASE UNCHANGED <<Lists, stop>>
    BY <1>6, <2>1
  <2>2. ASSUME NEW text \in Texts, eventTypes' = [eventTypes EXCEPT ![selType].name = text],
               UNCHANGED listeners
        PROVE  FormInv' /\ Len(eventTypes') = Len(eventTypes)
    <3> DEFINE x == [eventTypes[selType] EXCEPT !.name = text]
    <3>1. x \in EventTypes
      BY <1>3 DEF EventTypes, Names
    <3>2. eventTypes' = [eventTypes EXCEPT ![selType] = x]
      BY <2>2
    <3> QED BY <1>4, <2>2, <3>1, <3>2
  <2>3. ASSUME NEW n \in {0, 1}, eventTypes' = [eventTypes EXCEPT ![selType].interval = n],
               UNCHANGED listeners
        PROVE  FormInv' /\ Len(eventTypes') = Len(eventTypes)
    <3> DEFINE x == [eventTypes[selType] EXCEPT !.interval = n]
    <3>1. x \in EventTypes
      BY <1>3 DEF EventTypes
    <3>2. eventTypes' = [eventTypes EXCEPT ![selType] = x]
      BY <2>3
    <3> QED BY <1>4, <2>3, <3>1, <3>2
  <2>4. ASSUME tab = "Listeners", NEW text \in {"", "given"},
               listeners' = [listeners EXCEPT ![selListener].name = text], UNCHANGED eventTypes
        PROVE  FormInv' /\ Len(eventTypes') = Len(eventTypes)
    <3> DEFINE x == [listeners[selListener] EXCEPT !.name = text]
    <3>1. listeners # <<>>
      BY <1>7, <2>4 DEF CommitEdit, FormInv, EditsStayPut, TextFields
    <3>2. listeners[selListener] \in ListenerEntries
      BY <1>2, <3>1, LenProperties DEF Positions
    <3>3. x \in ListenerEntries /\ x.type \in Positions(eventTypes)
      BY <1>2, <3>1, <3>2 DEF ListenerEntries
    <3>4. listeners' = [listeners EXCEPT ![selListener] = x]
      BY <2>4
    <3> QED BY <1>5, <2>4, <3>1, <3>3, <3>4
  <2>5. CASE UNCHANGED Lists
    BY <1>6, <2>5
  <2> QED BY <1>7, <2>1, <2>2, <2>3, <2>4, <2>5 DEF CommitEdit, Committed
<1>8. ASSUME CycleField PROVE FormInv' /\ Len(eventTypes') = Len(eventTypes)
  <2>1. ASSUME eventTypes' = CycledEventType, UNCHANGED listeners
        PROVE  FormInv' /\ Len(eventTypes') = Len(eventTypes)
    <3> DEFINE x == [eventTypes[selType] EXCEPT !.pattern = NextPattern[@]]
    <3>1. x \in EventTypes
      BY <1>3 DEF EventTypes, Patterns, NextPattern
    <3>2. eventTypes' = [eventTypes EXCEPT ![selType] = x]
      BY <2>1 DEF CycledEventType
    <3> QED BY <1>4, <2>1, <3>1, <3>2
  <2>2. ASSUME listeners # <<>>, listeners' = CycledListener, UNCHANGED eventTypes
        PROVE  FormInv' /\ Len(eventTypes') = Len(eventTypes)
    <3> DEFINE t == (listeners[selListener].type % Len(eventTypes)) + 1
               x == [listeners[selListener] EXCEPT !.type = t]
    <3>1. listeners[selListener] \in ListenerEntries
      BY <1>2, <2>2, LenProperties DEF Positions
    <3>2. t \in 1 .. Len(eventTypes)
      <4>1. listeners[selListener].type \in Nat
        BY <3>1 DEF ListenerEntries
      <4>2. Len(eventTypes) \in Nat \ {0}
        BY <1>2
      <4> QED BY <4>1, <4>2, CycledInRange
    <3>3. listeners' = [listeners EXCEPT ![selListener] = x]
      BY <2>2 DEF CycledListener
    <3> HIDE DEF t
    <3>4. x \in ListenerEntries /\ x.type = t
      <4>1. t \in Nat
        BY <1>2, <3>2
      <4> QED BY <3>1, <4>1 DEF ListenerEntries
    <3>5. x.type \in Positions(eventTypes)
      BY <3>2, <3>4 DEF Positions
    <3> QED BY <1>5, <2>2, <3>3, <3>4, <3>5
  <2>3. CASE UNCHANGED Lists
    BY <1>6, <2>3
  <2> QED BY <1>8, <2>1, <2>2, <2>3 DEF CycleField
<1> QED
  BY <1>7, <1>8

\* The application around the form.
LEMMA ApplicationKeeps ==
  ASSUME FormInv, Start \/ SimulationEnds \/ Again \/ Quit \/ UNCHANGED vars
  PROVE  FormInv'
<1>1. CASE Start
  <2>1. /\ UNCHANGED Lists
        /\ phase' = "Running" /\ tab' = "Bus" /\ field' = 0
        /\ selType' = 1 /\ selListener' = 1 /\ editing' = FALSE
        /\ Len(eventTypes) >= 1 /\ Len(listeners) >= 1
    BY <1>1 DEF Start, FreshCursor, StopEditing, Validate
  <2>2. FormShape'
    BY <2>1 DEF FormInv, FormShape, Lists
  <2>3. EntriesExist'
    BY <2>1, LenProperties DEF FormInv, FormShape, EntriesExist, Positions, Lists
  <2>4. FieldsExist' /\ EditsStayPut'
    BY <2>1 DEF FieldsExist, EditsStayPut
  <2> QED BY <2>2, <2>3, <2>4 DEF FormInv
<1>2. CASE SimulationEnds \/ Again \/ Quit
  <2>1. UNCHANGED <<Lists, cursor, editing>> /\ ~editing
    BY <1>2 DEF SimulationEnds, Again, Quit, FormInv, FormShape, EditsStayPut
  <2>2. FormShape'
    BY <1>2, <2>1 DEF SimulationEnds, Again, Quit, FormInv, FormShape, Lists, cursor
  <2>3. EntriesExist'
    BY <2>1 DEF FormInv, EntriesExist, Positions, Lists, cursor
  <2>4. FieldsExist' /\ EditsStayPut'
    BY <2>1 DEF FormInv, FieldsExist, EditsStayPut, cursor
  <2> QED BY <2>2, <2>3, <2>4 DEF FormInv
<1>3. CASE UNCHANGED vars
  <2>1. FormShape'
    BY <1>3 DEF vars, cursor, FormInv, FormShape
  <2>2. EntriesExist'
    BY <1>3 DEF vars, cursor, FormInv, EntriesExist, Positions
  <2>3. FieldsExist'
    BY <1>3 DEF vars, cursor, FormInv, FieldsExist
  <2>4. EditsStayPut'
    BY <1>3 DEF vars, cursor, FormInv, EditsStayPut, TextFields
  <2> QED BY <2>1, <2>2, <2>3, <2>4 DEF FormInv
<1> QED
  BY <1>1, <1>2, <1>3

\* Every key, and the end of a simulation, leaves the form in order.
LEMMA FormStep == FormInv /\ [Next]_vars => FormInv'
BY MovesKeep, AddsKeep, DeletesKeep, ChangesKeep, ApplicationKeeps DEF Next

\* The selected entries, the selected field and every listener's event type exist.
THEOREM PositionsHold == Spec => []PositionsExist
<1>1. FormInv => PositionsExist
  BY Counts DEF FormInv, FormShape, FieldsExist, EntriesExist, PositionsExist
<1> QED
  BY <1>1, FormInit, FormStep, PTL DEF Spec

\* A text is committed to the field in which it was begun.
THEOREM EditsHold == Spec => []EditsStayPut
<1>1. FormInv => EditsStayPut
  BY DEF FormInv
<1> QED
  BY <1>1, FormInit, FormStep, PTL DEF Spec

\* When an event type is deleted the listeners of the others keep theirs.
THEOREM TargetsKept == Spec => DeletionKeepsTargets
<1>1. ASSUME FormInv, [Next]_vars
      PROVE  [Len(eventTypes') < Len(eventTypes) =>
                /\ Len(listeners') = Len(listeners)
                /\ \A i \in Positions(listeners) :
                     \/ listeners[i].type = selType
                     \/ /\ listeners'[i].type \in Positions(eventTypes')
                        /\ Target(i)' = Target(i)]_vars
  <2> SUFFICES ASSUME Len(eventTypes') < Len(eventTypes)
               PROVE  /\ Len(listeners') = Len(listeners)
                      /\ \A i \in Positions(listeners) :
                           listeners[i].type # selType =>
                             /\ listeners'[i].type \in Positions(eventTypes')
                             /\ eventTypes'[listeners'[i].type] = eventTypes[listeners[i].type]
    BY DEF Target
  <2>1. DeleteEventType
    <3>1. Len(eventTypes) \in Nat /\ (AddEventType => Len(eventTypes') = Len(eventTypes) + 1)
      BY <1>1, LenProperties DEF FormInv, FormShape, AddEventType
    <3>2. CommitEdit \/ CycleField => Len(eventTypes') = Len(eventTypes)
      BY <1>1, ChangesKeep
    <3>3. PressTab \/ PressUp \/ PressDown \/ PressEsc \/ SelectEventType \/ SelectListener
            \/ AddListener \/ DeleteListener \/ StartEdit \/ Start \/ SimulationEnds \/ Again
            \/ Quit \/ UNCHANGED vars => eventTypes' = eventTypes
      BY DEF PressTab, PressUp, PressDown, PressEsc, SelectEventType, SelectListener,
         AddListener, DeleteListener, StartEdit, Start, SimulationEnds, Again, Quit, vars, Lists
    <3> QED BY <1>1, <3>1, <3>2, <3>3 DEF Next
  <2>2. /\ eventTypes \in Seq(EventTypes) /\ selType \in 1 .. Len(eventTypes)
        /\ Len(eventTypes) \in Nat /\ Len(listeners) \in Nat
        /\ \A i \in 1 .. Len(listeners) : /\ listeners[i].type \in 1 .. Len(eventTypes)
                                          /\ "type" \in DOMAIN listeners[i]
    <3>1. eventTypes \in Seq(EventTypes) /\ listeners \in Seq(ListenerEntries)
      BY <1>1 DEF FormInv, FormShape
    <3>2. /\ selType \in 1 .. Len(eventTypes)
          /\ \A i \in 1 .. Len(listeners) : listeners[i].type \in 1 .. Len(eventTypes)
      BY <1>1 DEF FormInv, EntriesExist, Positions
    <3>3. \A i \in 1 .. Len(listeners) : listeners[i] \in ListenerEntries
      BY <3>1, LenProperties
    <3> QED BY <3>1, <3>2, <3>3, LenProperties DEF ListenerEntries
  <2>3. /\ Len(eventTypes') = Len(eventTypes) - 1
        /\ \A j \in 1 .. Len(eventTypes) - 1 :
             eventTypes'[j] = IF j < selType THEN eventTypes[j] ELSE eventTypes[j + 1]
    BY <2>1, <2>2, Removal DEF DeleteEventType, Positions
  <2>4. listeners' = [i \in 1 .. Len(listeners) |->
                        [listeners[i] EXCEPT !.type = Retarget(@, selType)]]
    BY <2>1 DEF DeleteEventType, Positions
  <2>5. ASSUME NEW i \in 1 .. Len(listeners), listeners[i].type # selType
        PROVE  /\ listeners'[i].type \in 1 .. Len(eventTypes) - 1
               /\ eventTypes'[listeners'[i].type] = eventTypes[listeners[i].type]
    <3> DEFINE t == listeners[i].type
    <3>1. listeners'[i].type = IF t > selType THEN t - 1 ELSE t
      BY <2>2, <2>4, <2>5 DEF Retarget
    <3>2. t \in 1 .. Len(eventTypes)
      BY <2>2
    <3> HIDE DEF t
    <3>3. listeners[i].type = t /\ t # selType
      BY <2>5 DEF t
    <3>4. CASE t > selType
      <4>1. listeners'[i].type = t - 1 /\ t - 1 \in 1 .. Len(eventTypes) - 1 /\ ~(t - 1 < selType)
        BY <2>2, <3>1, <3>2, <3>3, <3>4
      <4>2. eventTypes'[t - 1] = eventTypes[t - 1 + 1] /\ t - 1 + 1 = t
        BY <2>3, <3>2, <4>1
      <4> QED BY <3>3, <4>1, <4>2
    <3>5. CASE t < selType
      <4>1. listeners'[i].type = t /\ t \in 1 .. Len(eventTypes) - 1
        BY <2>2, <3>1, <3>2, <3>3, <3>5
      <4>2. eventTypes'[t] = eventTypes[t]
        BY <2>3, <3>5, <4>1
      <4> QED BY <3>3, <4>1, <4>2
    <3> QED BY <2>2, <3>2, <3>3, <3>4, <3>5
  <2>6. Len(listeners') = Len(listeners)
    BY <2>2, <2>4
  <2> QED BY <2>3, <2>5, <2>6 DEF Positions
<1> QED
  BY <1>1, FormInit, FormStep, PTL DEF Spec, DeletionKeepsTargets

-----------------------------------------------------------------------------
(* The counters of a simulation                                            *)

Deliveries == (1 .. MaxEvents) \X Listeners
TaskStates == {"none", "waiting", "handling", "letter", "finished"}
Over       == simPc \in {"closing", "shutdown", "ended", "aborted"}

Reports(kind) == [kind : {kind}, listener : Listeners]
Publications  == {Message("published", 0)}
Endings       == Reports("completed") \cup Reports("letter")

Messages ==
  Reports("started") \cup Reports("completed") \cup Reports("failed") \cup Reports("letter")
    \cup Publications \cup {Message("done", 0)} \cup [kind : {"stopped"}, total : Nat]

Counters ==
  [published : Nat, handled : [Listeners -> Nat], failed : [Listeners -> Nat],
   inFlight : [Listeners -> Int], letters : Nat, processed : Nat,
   draining : BOOLEAN, done : BOOLEAN]

History ==
  [published : Nat, handled : [Listeners -> Nat], failed : [Listeners -> Nat],
   letters : Nat, cut : [Listeners -> Nat], begun : Nat]

SimShape ==
  /\ config \in Configs
  /\ simPc \in {"ticking", "batch", "publishing", "handling", "letter", "draining",
                "closing", "shutdown", "ended", "aborted"}
  /\ seq \in Nat /\ todo \in SUBSET Listeners
  /\ tasks \in [Deliveries -> [pc : TaskStates, retries : Nat]]
  /\ channel \in Seq(Messages) /\ collector \in BOOLEAN
  /\ viz \in Counters /\ truth \in History

(* No delivery of an event that is yet to be published, none at all once a *)
(* simulation that ran for a duration is over.                             *)
DeliveriesBegun ==
  /\ \A d \in Deliveries : d[1] > seq => tasks[d].pc = "none"
  /\ Over /\ config.target = NoTarget => InFlightAsync = {}

(* The messages about the end come from a simulation that is over, after   *)
(* everything it published; the collector ends with the last of them.      *)
EndAnnounced ==
  /\ collector <=> ~viz.done
  /\ ~collector => Over /\ channel = <<>>
  /\ \A i \in DOMAIN channel :
       /\ channel[i].kind \in {"stopped", "done"} => Over
       /\ channel[i].kind = "done" /\ config.target = NoTarget => i = Len(channel)
       /\ channel[i].kind = "stopped" =>
            /\ channel[i].total = truth.published
            /\ \A j \in DOMAIN channel : j > i => channel[j] \notin Publications

(* Is x in M, and is m a report of one of these kinds about l?             *)
In(x, M) == IF x \in M THEN 1 ELSE 0
Told(m, kinds, l) == IF m.kind \in kinds /\ m.listener = l THEN 1 ELSE 0

(* How many of the first k messages of c are among M.                      *)
CountIn(c, k, M) == Cardinality({i \in 1 .. k : c[i] \in M})
Queued(c, M)     == CountIn(c, Len(c), M)

Handling(l) == Cardinality({d \in Deliveries : d[2] = l /\ tasks[d].pc = "handling"})

(* What is shown, and what is still on its way, is what happened.  c: the  *)
(* channel; v: what is shown; t: what happened; h: handlers at work.       *)
Balanced(c, v, t, h) ==
  /\ v.published + Queued(c, Publications) = t.published
  /\ v.letters + Queued(c, Reports("letter")) = t.letters
  /\ \A l \in Listeners :
       /\ v.handled[l] + Queued(c, {Message("completed", l)}) = t.handled[l]
       /\ v.failed[l] + Queued(c, {Message("failed", l)}) = t.failed[l]
       /\ v.inFlight[l] + Queued(c, {Message("started", l)}) =
            t.cut[l] + h[l] + Queued(c, {Message("completed", l), Message("failed", l)})

SyncAtWork(l) == IF simPc = "handling" /\ Turn(l) THEN 1 ELSE 0

AtWork == [l \in Listeners |-> Handling(l) + SyncAtWork(l)]

CountsBalance == collector \/ config.target = NoTarget => Balanced(channel, viz, truth, AtWork)

(* However far the collector gets, it has seen no end before its start.    *)
NeverNegative(c, v) ==
  \A l \in Listeners, k \in 0 .. Len(c) :
    CountIn(c, k, {Message("completed", l), Message("failed", l)})
      <= v.inFlight[l] + CountIn(c, k, {Message("started", l)})

StartsComeFirst == NeverNegative(channel, viz)

(* A delivery is at work, or its end is on its way, or was counted.        *)
EndsOnce ==
  viz.processed + Queued(channel, Endings) + Cardinality(InFlightAsync)
    + In(simPc, {"handling", "letter"}) <= truth.begun

SimInv ==
  /\ SimShape /\ DeliveriesBegun /\ EndAnnounced
  /\ CountsBalance /\ StartsComeFirst /\ EndsOnce

-----------------------------------------------------------------------------
(* Counting                                                                *)

\* A set of natural numbers that is not empty has a least element.
LEMMA LeastOf ==
  ASSUME NEW T \in SUBSET Nat, T # {}
  PROVE  \E x \in T : \A y \in T : x <= y
<1>1. PICK x \in T : \A y \in T : <<y, x>> \notin OpToRel(<, Nat)
  BY WFMin, NatLessThanWellFounded, Zenon
<1>2. \A y \in T : ~(y < x)
  BY <1>1, Zenon DEF OpToRel
<1>3. \A y \in T : x <= y
  BY <1>2
<1> QED
  BY <1>3

\* An induction up to n, as a set that has every number up to n.
LEMMA UpToAll ==
  ASSUME NEW n \in Nat, NEW T, 0 \in T, \A i \in 0 .. n - 1 : i \in T => i + 1 \in T
  PROVE  \A i \in 0 .. n : i \in T
<1> DEFINE Bad == {i \in 0 .. n : i \notin T}
<1>1. SUFFICES ASSUME Bad # {} PROVE FALSE
  OBVIOUS
<1>2. PICK i \in Bad : \A j \in Bad : i <= j
  <2>1. Bad \in SUBSET Nat
    OBVIOUS
  <2> HIDE DEF Bad
  <2> QED BY <1>1, <2>1, LeastOf
<1>3. i \in 0 .. n /\ i \notin T /\ i # 0
  OBVIOUS
<1>4. i - 1 \in 0 .. n - 1 /\ i - 1 \in 0 .. n /\ ~(i <= i - 1) /\ (i - 1) + 1 = i
  BY <1>3
<1>5. i - 1 \in T
  BY <1>2, <1>4
<1> QED
  BY <1>3, <1>4, <1>5

\* Counts are numbers, and nothing is counted among no messages.
LEMMA CountType ==
  ASSUME NEW c, NEW k \in Nat, NEW M
  PROVE  /\ CountIn(c, k, M) \in Nat /\ CountIn(c, 0, M) = 0
         /\ IsFiniteSet({i \in 1 .. k : c[i] \in M})
<1>1. IsFiniteSet(1 .. k)
  BY FS_Interval
<1>2. IsFiniteSet({i \in 1 .. k : c[i] \in M})
  BY <1>1, FS_Subset
<1>3. {i \in 1 .. 0 : c[i] \in M} = {}
  OBVIOUS
<1> QED
  BY <1>2, <1>3, FS_CardinalityType, FS_EmptySet DEF CountIn

\* A set that differs from another in no more than one element.
LEMMA OneMore ==
  ASSUME NEW S, IsFiniteSet(S), NEW T, NEW e, T \ {e} = S \ {e}
  PROVE  /\ IsFiniteSet(T) /\ Cardinality(T) \in Nat /\ Cardinality(S) \in Nat
         /\ Cardinality(T) + In(e, S) = Cardinality(S) + In(e, T)
<1> DEFINE R == S \ {e}
<1>1. IsFiniteSet(R) /\ e \notin R
  BY FS_RemoveElement
<1>2. IsFiniteSet(R \cup {e}) /\ Cardinality(R \cup {e}) = Cardinality(R) + 1
  BY <1>1, FS_AddElement
<1>3. (e \in S => S = R \cup {e}) /\ (e \notin S => S = R)
  OBVIOUS
<1>4. (e \in T => T = R \cup {e}) /\ (e \notin T => T = R)
  OBVIOUS
<1>5. Cardinality(R) \in Nat
  BY <1>1, FS_CardinalityType
<1> HIDE DEF R
<1>6. Cardinality(S) = Cardinality(R) + In(e, S)
  BY <1>2, <1>3, <1>5 DEF In
<1>7. Cardinality(T) = Cardinality(R) + In(e, T) /\ IsFiniteSet(T)
  <2>1. CASE e \in T
    BY <1>2, <1>4, <2>1 DEF In
  <2>2. CASE e \notin T
    <3>1. T = R
      BY <1>4, <2>2
    <3> QED BY <1>1, <1>5, <2>2, <3>1 DEF In
  <2> QED BY <2>1, <2>2
<1>8. In(e, S) \in Nat /\ In(e, T) \in Nat
  BY DEF In
<1> QED
  BY <1>5, <1>6, <1>7, <1>8

\* One more message is looked at.
LEMMA CountNext ==
  ASSUME NEW c, NEW k \in Nat, NEW M
  PROVE  CountIn(c, k + 1, M) = CountIn(c, k, M) + In(c[k + 1], M)
<1> DEFINE S == {i \in 1 .. k : c[i] \in M}
           T == {i \in 1 .. k + 1 : c[i] \in M}
<1>1. IsFiniteSet(S)
  BY CountType
<1>2. T \ {k + 1} = S \ {k + 1}
  OBVIOUS
<1>3. k + 1 \notin S /\ (k + 1 \in T <=> c[k + 1] \in M)
  OBVIOUS
<1> HIDE DEF S, T
<1>4. /\ Cardinality(T) + In(k + 1, S) = Cardinality(S) + In(k + 1, T)
      /\ Cardinality(T) \in Nat
  BY <1>1, <1>2, OneMore
<1>5. In(k + 1, S) = 0 /\ In(k + 1, T) = In(c[k + 1], M)
  BY <1>3 DEF In
<1>6. Cardinality(T) = Cardinality(S) + In(c[k + 1], M)
  BY <1>4, <1>5
<1> QED
  BY <1>6 DEF S, T, CountIn

\* send: what was in the channel stays, and one message more is in it.
LEMMA CountAppend ==
  ASSUME NEW c \in Seq(Messages), NEW m \in Messages
  PROVE  /\ Append(c, m) \in Seq(Messages) /\ Len(Append(c, m)) = Len(c) + 1
         /\ Append(c, m) # <<>>
         /\ \A i \in 1 .. Len(c) : Append(c, m)[i] = c[i]
         /\ Append(c, m)[Len(c) + 1] = m
         /\ \A M : \A k \in 0 .. Len(c) : CountIn(Append(c, m), k, M) = CountIn(c, k, M)
         /\ \A M : Queued(Append(c, m), M) = Queued(c, M) + In(m, M)
<1> DEFINE d == Append(c, m)
           n == Len(c)
<1>1. /\ d \in Seq(Messages) /\ Len(d) = n + 1 /\ n \in Nat
      /\ \A i \in 1 .. n : d[i] = c[i]
      /\ d[n + 1] = m /\ d # <<>>
  BY AppendProperties, LenProperties
<1> HIDE DEF d, n
<1>2. ASSUME NEW M, NEW k \in 0 .. n PROVE CountIn(d, k, M) = CountIn(c, k, M)
  <2>1. \A i \in 1 .. k : d[i] = c[i]
    BY <1>1
  <2>2. {i \in 1 .. k : d[i] \in M} = {i \in 1 .. k : c[i] \in M}
    BY <2>1
  <2> QED BY <2>2 DEF CountIn
<1>3. ASSUME NEW M PROVE CountIn(d, n + 1, M) = CountIn(c, n, M) + In(m, M)
  <2>1. n \in 0 .. n
    BY <1>1
  <2> QED BY <1>1, <1>2, <2>1, CountNext
<1> QED
  BY <1>1, <1>2, <1>3 DEF d, n, Queued

\* recv: the messages behind the first.
LEMMA CountTail ==
  ASSUME NEW c \in Seq(Messages), c # <<>>
  PROVE  /\ Tail(c) \in Seq(Messages) /\ Len(Tail(c)) = Len(c) - 1
         /\ Len(c) \in Nat \ {0} /\ Head(c) = c[1] /\ Head(c) \in Messages
         /\ \A i \in 1 .. Len(c) - 1 : Tail(c)[i] = c[i + 1]
         /\ \A M : \A k \in 0 .. Len(c) - 1 :
              CountIn(c, k + 1, M) = CountIn(Tail(c), k, M) + In(Head(c), M)
         /\ \A M : Queued(c, M) = Queued(Tail(c), M) + In(Head(c), M)
<1> DEFINE d == Tail(c)
           n == Len(c)
           m == Head(c)
<1>1. /\ d \in Seq(Messages) /\ Len(d) = n - 1 /\ n \in Nat \ {0}
      /\ \A i \in 1 .. n - 1 : d[i] = c[i + 1]
      /\ m = c[1] /\ m \in Messages
  BY HeadTailProperties, LenProperties, EmptySeq, ElementOfSeq
<1> HIDE DEF d, n, m
<1>2. ASSUME NEW M PROVE \A k \in 0 .. n - 1 : CountIn(c, k + 1, M) = CountIn(d, k, M) + In(m, M)
  <2> DEFINE T == {k \in 0 .. n - 1 : CountIn(c, k + 1, M) = CountIn(d, k, M) + In(m, M)}
  <2>0. In(m, M) \in Nat
    BY DEF In
  <2>1. 0 \in T
    <3>1. CountIn(c, 0, M) = 0 /\ CountIn(d, 0, M) = 0
      BY CountType
    <3>2. CountIn(c, 0 + 1, M) = CountIn(c, 0, M) + In(c[0 + 1], M)
      BY CountNext
    <3>3. c[0 + 1] = m
      BY <1>1
    <3>4. CountIn(c, 0 + 1, M) = CountIn(d, 0, M) + In(m, M)
      BY <3>1, <3>2, <3>3
    <3> QED BY <1>1, <3>4
  <2>2. ASSUME NEW k \in 0 .. (n - 1) - 1, k \in T PROVE k + 1 \in T
    <3>1. /\ k \in Nat /\ k + 1 \in Nat /\ k + 1 \in 0 .. n - 1 /\ k + 1 \in 1 .. n - 1
      BY <1>1
    <3>2. /\ CountIn(c, (k + 1) + 1, M) = CountIn(c, k + 1, M) + In(c[(k + 1) + 1], M)
          /\ CountIn(d, k + 1, M) = CountIn(d, k, M) + In(d[k + 1], M)
      BY <3>1, CountNext
    <3>3. d[k + 1] = c[(k + 1) + 1]
      BY <1>1, <3>1
    <3>4. CountIn(c, k + 1, M) = CountIn(d, k, M) + In(m, M)
      BY <2>2
    <3>5. CountIn(d, k, M) \in Nat /\ In(d[k + 1], M) \in Nat
      BY <3>1, CountType DEF In
    <3>6. CountIn(c, (k + 1) + 1, M) = CountIn(d, k + 1, M) + In(m, M)
      BY <2>0, <3>2, <3>3, <3>4, <3>5
    <3> QED BY <3>1, <3>6
  <2> HIDE DEF T
  <2>3. n - 1 \in Nat
    BY <1>1
  <2>4. \A k \in 0 .. n - 1 : k \in T
    BY <2>1, <2>2, <2>3, UpToAll
  <2> QED BY <2>4 DEF T
<1>3. ASSUME NEW M PROVE CountIn(c, n, M) = CountIn(d, n - 1, M) + In(m, M)
  <2>1. n - 1 \in 0 .. n - 1 /\ (n - 1) + 1 = n
    BY <1>1
  <2> QED BY <1>2, <2>1
<1> QED
  BY <1>1, <1>2, <1>3 DEF d, n, m, Queued

-----------------------------------------------------------------------------
(* The shape of a simulation                                               *)

\* There are finitely many listeners and deliveries.
LEMMA FiniteDeliveries ==
  ASSUME config \in Configs
  PROVE  /\ IsFiniteSet(Listeners) /\ IsFiniteSet(Deliveries)
         /\ 0 \notin Listeners /\ Listeners \subseteq Nat
         /\ \A l \in Listeners : /\ config.listeners[l].retries \in Nat
                                 /\ config.listeners[l].deadLetter \in BOOLEAN
<1> DEFINE L == [mode : {"sync", "async"}, type : Nat, retries : Nat, deadLetter : BOOLEAN]
<1>1. config.listeners \in Seq(L)
  BY ConfigsAssumption
<1> HIDE DEF L
<1>2. /\ Listeners = 1 .. Len(config.listeners) /\ Len(config.listeners) \in Nat
      /\ \A l \in Listeners : config.listeners[l] \in L
  BY <1>1, LenProperties, ElementOfSeq DEF Listeners
<1>3. IsFiniteSet(Listeners) /\ IsFiniteSet(1 .. MaxEvents)
  BY <1>2, ConfigsAssumption, FS_Interval
<1>4. IsFiniteSet(Deliveries)
  BY <1>3, FS_Product DEF Deliveries
<1>5. \A l \in L : l.retries \in Nat /\ l.deadLetter \in BOOLEAN
  BY DEF L
<1> QED
  BY <1>2, <1>3, <1>4, <1>5

\* The messages that a step may send.
LEMMA KindsOfMessages ==
  /\ Message("published", 0) \in Messages /\ Message("done", 0) \in Messages
  /\ \A n \in Nat : [kind |-> "stopped", total |-> n] \in Messages
  /\ \A l \in Listeners : /\ Message("started", l) \in Messages
                          /\ Message("completed", l) \in Messages
                          /\ Message("failed", l) \in Messages
                          /\ Message("letter", l) \in Messages
BY DEF Messages, Message, Reports, Publications

\* send of one message and of two.
LEMMA Sending ==
  ASSUME channel \in Seq(Messages), NEW m \in Messages, NEW n \in Messages
  PROVE  /\ Send(<<m>>) => channel' = IF collector THEN Append(channel, m) ELSE channel
         /\ Send(<<m, n>>) => channel' = IF collector THEN Append(Append(channel, m), n) ELSE channel
         /\ Send(<<m>>) \/ Send(<<m, n>>) => channel' \in Seq(Messages)
<1>1. /\ Append(channel, m) \in Seq(Messages)
      /\ Append(Append(channel, m), n) \in Seq(Messages)
  BY AppendProperties
<1>2. channel \o <<m>> = Append(channel, m)
  BY AppendIsConcat
<1>3. channel \o <<m, n>> = Append(Append(channel, m), n)
  <2>1. <<m, n>> = <<m>> \o <<n>>
    <3>1. <<m>> \in Seq(Messages) /\ <<n>> \in Seq(Messages) /\ <<m, n>> \in Seq(Messages)
      OBVIOUS
    <3>2. Append(<<m>>, n) = <<m>> \o <<n>>
      BY <3>1, AppendIsConcat
    <3>3. /\ Append(<<m>>, n) \in Seq(Messages) /\ Len(Append(<<m>>, n)) = 2
          /\ Append(<<m>>, n)[1] = m /\ Append(<<m>>, n)[2] = n
      BY <3>1, AppendProperties
    <3>4. Append(<<m>>, n) = <<m, n>>
      <4> DEFINE s == Append(<<m>>, n)
                 t == <<m, n>>
      <4>1. Len(t) = 2 /\ t[1] = m /\ t[2] = n /\ t \in Seq(Messages)
        BY <3>1
      <4> HIDE DEF s, t
      <4>2. Len(s) = Len(t) /\ \A i \in 1 .. Len(s) : s[i] = t[i]
        BY <3>3, <4>1 DEF s
      <4>3. s = t
        BY <3>3, <4>1, <4>2, SeqEqual DEF s
      <4> QED BY <4>3 DEF s, t
    <3> QED BY <3>2, <3>4
  <2>2. Append(Append(channel, m), n) = (channel \o <<m>>) \o <<n>>
    BY <1>1, <1>2, AppendIsConcat
  <2>3. (channel \o <<m>>) \o <<n>> = channel \o (<<m>> \o <<n>>)
    BY ConcatAssociative
  <2> QED BY <2>1, <2>2, <2>3
<1> QED
  BY <1>1, <1>2, <1>3 DEF Send

\* Every simulation starts in shape, and with nothing to count.
LEMMA InitShape == SimInit => SimShape
<1> SUFFICES ASSUME SimInit PROVE SimShape
  OBVIOUS
<1>1. channel \in Seq(Messages) /\ todo \in SUBSET Listeners
  BY DEF SimInit
<1>2. tasks \in [Deliveries -> [pc : TaskStates, retries : Nat]]
  BY DEF SimInit, Deliveries, TaskStates
<1>3. Nobody \in [Listeners -> Nat] /\ Nobody \in [Listeners -> Int]
  BY DEF Nobody
<1>4. viz \in Counters /\ truth \in History
  BY <1>3 DEF SimInit, Counters, History
<1> QED
  BY <1>1, <1>2, <1>4 DEF SimInit, SimShape

\* The counter of a listener that something happened to.
LEMMA Raise ==
  ASSUME NEW f \in [Listeners -> Nat], NEW l
  PROVE  /\ [f EXCEPT ![l] = @ + 1] \in [Listeners -> Nat]
         /\ \A x \in Listeners : [f EXCEPT ![l] = @ + 1][x] = f[x] + In(x, {l})
<1> DEFINE g == [f EXCEPT ![l] = @ + 1]
<1>1. ASSUME NEW x \in Listeners PROVE g[x] = f[x] + In(x, {l}) /\ g[x] \in Nat
  <2>1. CASE x = l
    BY <2>1 DEF In
  <2>2. CASE x # l
    BY <2>2 DEF In
  <2> QED BY <2>1, <2>2
<1>2. DOMAIN g = Listeners /\ g = [x \in Listeners |-> g[x]]
  OBVIOUS
<1> HIDE DEF g
<1>3. g \in [Listeners -> Nat]
  BY <1>1, <1>2
<1> QED
  BY <1>1, <1>3 DEF g

\* What a step may make of the history, whatever listener it is about.
LEMMA Recorded ==
  ASSUME truth \in History
  PROVE  /\ [truth EXCEPT !.letters = @ + 1] \in History
         /\ [truth EXCEPT !.published = @ + 1] \in History
         /\ \A n \in Nat : [truth EXCEPT !.begun = @ + n] \in History
<1>1. /\ truth.letters + 1 \in Nat /\ truth.published + 1 \in Nat
      /\ \A n \in Nat : truth.begun + n \in Nat
  BY DEF History
<1>2. \A n \in Nat : /\ [truth EXCEPT !.letters = n] \in History
                     /\ [truth EXCEPT !.published = n] \in History
                     /\ [truth EXCEPT !.begun = n] \in History
  BY DEF History
<1> QED
  BY <1>1, <1>2

\* The same of a listener's entries.
LEMMA Recording ==
  ASSUME truth \in History, NEW l \in Listeners
  PROVE  /\ [truth EXCEPT !.handled[l] = @ + 1] \in History
         /\ [truth EXCEPT !.failed[l] = @ + 1] \in History
         /\ [truth EXCEPT !.cut[l] = @ + 1] \in History
         /\ \A f \in [Listeners -> Nat] : [truth EXCEPT !.cut = f] \in History
<1>1. /\ [truth.handled EXCEPT ![l] = @ + 1] \in [Listeners -> Nat]
      /\ [truth.failed EXCEPT ![l] = @ + 1] \in [Listeners -> Nat]
      /\ [truth.cut EXCEPT ![l] = @ + 1] \in [Listeners -> Nat]
  BY Raise DEF History
<1>2. \A f \in [Listeners -> Nat] : /\ [truth EXCEPT !.handled = f] \in History
                                       /\ [truth EXCEPT !.failed = f] \in History
                                       /\ [truth EXCEPT !.cut = f] \in History
  BY DEF History
<1> QED
  BY <1>1, <1>2

\* The types of the state depend on the configuration, which stays.
LEMMA StaysShaped ==
  ASSUME SimShape, config' = config,
         simPc' \in {"ticking", "batch", "publishing", "handling", "letter", "draining",
                     "closing", "shutdown", "ended", "aborted"},
         seq' \in Nat, todo' \in SUBSET Listeners,
         tasks' \in [Deliveries -> [pc : TaskStates, retries : Nat]],
         channel' \in Seq(Messages), collector' \in BOOLEAN,
         viz' \in Counters, truth' \in History
  PROVE  SimShape'
<1>1. Listeners' = Listeners
  BY DEF Listeners
<1>2. Deliveries' = Deliveries /\ Messages' = Messages /\ Counters' = Counters /\ History' = History
  BY <1>1 DEF Deliveries, Messages, Reports, Counters, History
<1>3. config' \in Configs
  BY DEF SimShape
<1> QED
  BY <1>1, <1>2, <1>3 DEF SimShape

\* Shutdown records what it cuts short.
LEMMA AbortKeepsTypes ==
  ASSUME SimShape, AbortAll
  PROVE  /\ tasks' \in [Deliveries -> [pc : TaskStates, retries : Nat]]
         /\ truth' \in History
         /\ \A d \in Deliveries : tasks'[d].pc = IF IsDone(d) THEN tasks[d].pc ELSE "finished"
         /\ \A l \in Listeners : truth'.cut[l] = truth.cut[l] + Handling(l) /\ Handling(l) \in Nat
         /\ truth' = [truth EXCEPT !.cut = truth'.cut]
<1>1. /\ DOMAIN tasks = Deliveries /\ \A d \in Deliveries : tasks[d] \in [pc : TaskStates, retries : Nat]
      /\ truth \in History
  BY DEF SimShape
<1>2. ASSUME NEW d \in Deliveries
      PROVE  /\ Aborted(d) \in [pc : TaskStates, retries : Nat]
             /\ Aborted(d).pc = IF IsDone(d) THEN tasks[d].pc ELSE "finished"
  BY <1>1 DEF Aborted, TaskStates
<1>3. tasks' = [d \in Deliveries |-> Aborted(d)]
  BY <1>1 DEF AbortAll
<1>4. ASSUME NEW l \in Listeners
      PROVE  /\ Cardinality({d \in DOMAIN tasks : d[2] = l /\ tasks[d].pc = "handling"}) = Handling(l)
             /\ Handling(l) \in Nat
  <2>1. IsFiniteSet({d \in Deliveries : d[2] = l /\ tasks[d].pc = "handling"})
    BY FiniteDeliveries, FS_Subset DEF SimShape
  <2> QED BY <1>1, <2>1, FS_CardinalityType DEF Handling
<1> DEFINE f == [l \in Listeners |-> truth.cut[l] + Handling(l)]
<1>5. truth' = [truth EXCEPT !.cut = f]
  BY <1>4 DEF AbortAll
<1>6. f \in [Listeners -> Nat]
  <2>1. truth.cut \in [Listeners -> Nat]
    BY <1>1 DEF History
  <2>2. ASSUME NEW l \in Listeners PROVE truth.cut[l] + Handling(l) \in Nat
    <3>1. truth.cut[l] \in Nat
      BY <2>1
    <3>2. Handling(l) \in Nat
      BY <1>4
    <3> QED BY <3>1, <3>2
  <2> QED BY <2>2
<1> HIDE DEF f
<1>7. truth' \in History /\ truth'.cut = f
  BY <1>1, <1>5, <1>6 DEF History
<1>8. \A l \in Listeners : f[l] = truth.cut[l] + Handling(l)
  BY DEF f
<1> QED
  BY <1>2, <1>3, <1>4, <1>5, <1>7, <1>8

\* Every step of the task keeps the shape.
LEMMA TaskKeepsShape ==
  ASSUME SimShape, SimTask
  PROVE  SimShape'
<1> USE DEF GoTo
<1>0. /\ config \in Configs /\ channel \in Seq(Messages) /\ collector \in BOOLEAN
      /\ truth \in History /\ viz \in Counters /\ truth.published \in Nat
      /\ todo \in SUBSET Listeners /\ seq \in Nat
      /\ tasks \in [Deliveries -> [pc : TaskStates, retries : Nat]]
      /\ simPc \in {"ticking", "batch", "publishing", "handling", "letter", "draining",
                    "closing", "shutdown", "ended", "aborted"}
  BY DEF SimShape, History
<1>m. /\ Message("published", 0) \in Messages /\ Message("done", 0) \in Messages
      /\ [kind |-> "stopped", total |-> truth.published] \in Messages
      /\ \A l \in Listeners : /\ Message("started", l) \in Messages
                              /\ Message("completed", l) \in Messages
                              /\ Message("failed", l) \in Messages
                              /\ Message("letter", l) \in Messages
  BY <1>0, KindsOfMessages
<1>1. CASE StopPublishing
  BY <1>0, <1>1, StaysShaped DEF StopPublishing
<1>2. CASE Tick
  BY <1>0, <1>2, StaysShaped DEF Tick
<1>3. CASE PublishEvent
  <2> DEFINE found(mode) == Answering(mode, Head(batch))
  <2>1. found("async") \in SUBSET Listeners /\ found("sync") \in SUBSET Listeners
    BY DEF Answering
  <2>2. Cardinality(found("async")) \in Nat
    BY <1>0, <2>1, FiniteDeliveries, FS_Subset, FS_CardinalityType
  <2>3. ASSUME NEW d \in Deliveries, d[2] \in found("async")
        PROVE  [pc |-> "waiting", retries |-> config.listeners[d[2]].retries]
                 \in [pc : TaskStates, retries : Nat]
    BY <1>0, <2>1, <2>3, FiniteDeliveries DEF TaskStates
  <2>4. /\ tasks' = [d \in DOMAIN tasks |->
                       IF d[1] = seq' /\ d[2] \in found("async")
                       THEN [pc |-> "waiting", retries |-> config.listeners[d[2]].retries]
                       ELSE tasks[d]]
        /\ truth' = [truth EXCEPT !.begun = @ + Cardinality(found("async"))]
        /\ todo' = found("sync") /\ seq' = seq + 1 /\ simPc' = "publishing"
        /\ UNCHANGED <<config, channel, collector, viz>>
    BY <1>3 DEF PublishEvent
  <2> HIDE DEF found
  <2>5. tasks' \in [Deliveries -> [pc : TaskStates, retries : Nat]]
    BY <1>0, <2>3, <2>4
  <2>6. truth' \in History
    <3>1. [truth EXCEPT !.begun = @ + Cardinality(found("async"))] \in History
      BY <1>0, <2>2, Recorded
    <3> QED BY <2>4, <3>1
  <2> QED BY <1>0, <2>1, <2>4, <2>5, <2>6, StaysShaped
<1>4. ASSUME NEW l \in Listeners, StartSync(l) \/ EndSync(l) PROVE SimShape'
  <2>1. channel' \in Seq(Messages)
    BY <1>0, <1>4, <1>m, Sending DEF StartSync, EndSync
  <2>2. truth' \in History
    BY <1>0, <1>4, Recorded, Recording DEF StartSync, EndSync, Count
  <2>3. /\ simPc' \in {"publishing", "handling", "letter"} /\ todo' \in SUBSET Listeners
        /\ UNCHANGED <<config, seq, tasks, collector, viz>>
    BY <1>0, <1>4 DEF StartSync, EndSync
  <2> QED BY <1>0, <2>1, <2>2, <2>3, StaysShaped
<1>5. ASSUME NEW l \in Listeners, SyncLetter(l) PROVE SimShape'
  <2>1. channel' \in Seq(Messages)
    BY <1>0, <1>5, <1>m, Sending DEF SyncLetter
  <2>2. truth' \in History
    BY <1>0, <1>5, Recorded DEF SyncLetter
  <2>3. /\ simPc' = "publishing" /\ todo' \in SUBSET Listeners
        /\ UNCHANGED <<config, seq, tasks, collector, viz>>
    BY <1>0, <1>5 DEF SyncLetter
  <2> QED BY <1>0, <2>1, <2>2, <2>3, StaysShaped
<1>6. CASE EndPublish
  <2>1. channel' \in Seq(Messages)
    BY <1>0, <1>6, <1>m, Sending DEF EndPublish
  <2>2. truth' \in History
    BY <1>0, <1>6, Recorded DEF EndPublish
  <2>3. simPc' \in {"ticking", "batch"} /\ UNCHANGED <<config, seq, todo, tasks, collector, viz>>
    BY <1>6 DEF EndPublish
  <2> QED BY <1>0, <2>1, <2>2, <2>3, StaysShaped
<1>7. CASE Finished
  <2>1. channel' \in Seq(Messages)
    BY <1>0, <1>7, <1>m, Sending DEF Finished
  <2>2. simPc' = "closing" /\ UNCHANGED <<config, seq, todo, tasks, collector, viz, truth>>
    BY <1>7 DEF Finished
  <2> QED BY <1>0, <2>1, <2>2, StaysShaped
<1>8. CASE CloseBus
  BY <1>0, <1>8, StaysShaped DEF CloseBus
<1>9. CASE ShutdownReturns
  <2>1. /\ tasks' \in [Deliveries -> [pc : TaskStates, retries : Nat]]
        /\ truth' \in History
    BY <1>0, <1>9, AbortKeepsTypes DEF ShutdownReturns
  <2> QED BY <1>0, <1>9, <2>1, StaysShaped DEF ShutdownReturns
<1> QED
  BY <1>1, <1>2, <1>3, <1>4, <1>5, <1>6, <1>7, <1>8, <1>9 DEF SimTask

\* Every step of a delivery keeps the shape.
LEMMA DeliveryKeepsShape ==
  ASSUME SimShape, NEW d \in Deliveries, Delivery(d)
  PROVE  SimShape'
<1> DEFINE l == d[2]
           State == [pc : TaskStates, retries : Nat]
<1>1. /\ config \in Configs /\ channel \in Seq(Messages) /\ collector \in BOOLEAN
      /\ truth \in History /\ viz \in Counters /\ todo \in SUBSET Listeners /\ seq \in Nat
      /\ tasks \in [Deliveries -> State] /\ tasks[d] \in State
      /\ simPc \in {"ticking", "batch", "publishing", "handling", "letter", "draining",
                    "closing", "shutdown", "ended", "aborted"}
  BY DEF SimShape
<1>2. l \in Listeners
  BY DEF Deliveries
<1>3. /\ Message("started", l) \in Messages /\ Message("completed", l) \in Messages
      /\ Message("failed", l) \in Messages /\ Message("letter", l) \in Messages
  BY <1>2, KindsOfMessages
<1>4. \A pc \in TaskStates :
        /\ [tasks[d] EXCEPT !.pc = pc] \in State
        /\ \A n \in Nat : [pc |-> pc, retries |-> n] \in State
  BY <1>1
<1>5. \A r \in State : [tasks EXCEPT ![d] = r] \in [Deliveries -> State]
  BY <1>1
<1>6. /\ tasks[d].retries \in Nat
      /\ tasks[d].retries > 0 => tasks[d].retries - 1 \in Nat
  BY <1>1
<1>7. \A pc \in TaskStates : Set(d, pc) => tasks' \in [Deliveries -> State]
  BY <1>1, <1>4, <1>5 DEF Set
<1>8. AfterFailure(d) => tasks' \in [Deliveries -> State]
  <2>1. {"waiting", "letter", "finished"} \subseteq TaskStates
    BY DEF TaskStates
  <2> QED BY <1>1, <1>4, <1>5, <1>6, <2>1 DEF AfterFailure
<1>9. tasks' \in [Deliveries -> State]
  <2>1. "handling" \in TaskStates /\ "finished" \in TaskStates
    BY DEF TaskStates
  <2> QED BY <1>7, <1>8, <2>1 DEF Delivery, Begin, Complete, Fail, TimeOut, Letter
<1>10. channel' \in Seq(Messages)
  BY <1>1, <1>3, Sending DEF Delivery, Begin, Complete, Fail, TimeOut, Letter
<1>11. truth' \in History
  BY <1>1, <1>2, Recording, Recorded DEF Delivery, Begin, Complete, Fail, TimeOut, Letter, Count
<1>12. UNCHANGED <<config, simPc, seq, todo, collector, viz>>
  BY DEF Delivery, Begin, Complete, Fail, TimeOut, Letter, TaskUnchanged, publisherVars
<1> QED
  BY <1>1, <1>9, <1>10, <1>11, <1>12, StaysShaped

\* A message is known by its kind and its listener.
LEMMA KindTells ==
  ASSUME NEW m \in Messages
  PROVE  /\ m \in Publications <=> m.kind = "published"
         /\ m = Message("done", 0) <=> m.kind = "done"
         /\ m.kind = "stopped" => m.total \in Nat
         /\ m \in Reports("letter") <=> m.kind = "letter"
         /\ m \in Endings <=> m.kind \in {"completed", "letter"}
         /\ m.kind \in {"started", "completed", "failed", "letter"} => m.listener \in Listeners
         /\ m.kind \in {"published", "done", "stopped", "started", "completed", "failed", "letter"}
         /\ \A l \in Listeners :
              /\ m = Message("started", l) <=> m.kind = "started" /\ m.listener = l
              /\ m = Message("completed", l) <=> m.kind = "completed" /\ m.listener = l
              /\ m = Message("failed", l) <=> m.kind = "failed" /\ m.listener = l
              /\ m = Message("letter", l) <=> m.kind = "letter" /\ m.listener = l
BY DEF Messages, Message, Reports, Publications, Endings

\* A gauge that one more handler, or one less, is counted in.
LEMMA Moved ==
  ASSUME NEW f \in [Listeners -> Int], NEW l \in Listeners
  PROVE  /\ [f EXCEPT ![l] = @ + 1] \in [Listeners -> Int]
         /\ [f EXCEPT ![l] = @ - 1] \in [Listeners -> Int]
         /\ \A x \in Listeners : /\ [f EXCEPT ![l] = @ + 1][x] = f[x] + In(x, {l})
                                 /\ [f EXCEPT ![l] = @ - 1][x] = f[x] - In(x, {l})
<1> DEFINE g == [f EXCEPT ![l] = @ + 1]
           h == [f EXCEPT ![l] = @ - 1]
<1>1. ASSUME NEW x \in Listeners
      PROVE  g[x] = f[x] + In(x, {l}) /\ g[x] \in Int /\ h[x] = f[x] - In(x, {l}) /\ h[x] \in Int
  <2>1. CASE x = l
    BY <2>1 DEF In
  <2>2. CASE x # l
    BY <2>2 DEF In
  <2> QED BY <2>1, <2>2
<1>2. g = [x \in Listeners |-> g[x]] /\ h = [x \in Listeners |-> h[x]]
  OBVIOUS
<1> HIDE DEF g, h
<1>3. g \in [Listeners -> Int] /\ h \in [Listeners -> Int]
  BY <1>1, <1>2
<1> QED
  BY <1>1, <1>3 DEF g, h

\* What the collector makes of the counters, message by message.
LEMMA CountedFields ==
  ASSUME viz \in Counters, NEW m \in Messages
  PROVE  /\ Counted(m) \in Counters
         /\ m.kind \notin {"published", "stopped"} => Counted(m).published = viz.published
         /\ m.kind = "published" => Counted(m).published = viz.published + 1
         /\ m.kind = "stopped" => Counted(m).published = Larger(m.total, viz.published)
         /\ Counted(m).letters = viz.letters + In(m.kind, {"letter"})
         /\ Counted(m).processed = viz.processed + In(m.kind, {"completed", "letter"})
         /\ Counted(m).done <=> viz.done \/ m.kind = "done"
         /\ \A l \in Listeners :
              /\ Counted(m).handled[l] = viz.handled[l] + Told(m, {"completed"}, l)
              /\ Counted(m).failed[l] = viz.failed[l] + Told(m, {"failed"}, l)
              /\ Counted(m).inFlight[l] = viz.inFlight[l] + Told(m, {"started"}, l)
                   - Told(m, {"completed", "failed"}, l)
<1> DEFINE v == Counted(m)
           x == m.listener
           up == [viz.inFlight EXCEPT ![x] = @ + 1]
           down == [viz.inFlight EXCEPT ![x] = @ - 1]
           handled == [viz.handled EXCEPT ![x] = @ + 1]
           failed == [viz.failed EXCEPT ![x] = @ + 1]
           oneMore(n) == n + 1
<1>1. /\ viz.published \in Nat /\ viz.letters \in Nat /\ viz.processed \in Nat
      /\ viz.done \in BOOLEAN /\ viz.draining \in BOOLEAN
      /\ viz.handled \in [Listeners -> Nat] /\ viz.failed \in [Listeners -> Nat]
      /\ viz.inFlight \in [Listeners -> Int]
  BY DEF Counters
<1>2. /\ oneMore(viz.letters) \in Nat /\ oneMore(viz.processed) \in Nat
      /\ oneMore(viz.published) \in Nat
  BY <1>1
<1>3. /\ \A l \in Listeners : viz.handled[l] \in Nat /\ viz.failed[l] \in Nat /\ viz.inFlight[l] \in Int
      /\ \A n \in Int : n + 0 = n /\ n - 0 = n
  BY <1>1
<1>4. /\ handled \in [Listeners -> Nat] /\ failed \in [Listeners -> Nat]
      /\ \A l \in Listeners : handled[l] = viz.handled[l] + In(l, {x})
                              /\ failed[l] = viz.failed[l] + In(l, {x})
  BY <1>1, Raise
<1>5. x \in Listeners =>
        /\ up \in [Listeners -> Int] /\ down \in [Listeners -> Int]
        /\ \A l \in Listeners : up[l] = viz.inFlight[l] + In(l, {x})
                                /\ down[l] = viz.inFlight[l] - In(l, {x})
  BY <1>1, Moved
<1> HIDE DEF up, down, handled, failed, oneMore
<1>10. CASE m.kind = "published"
  <2>2. v = [viz EXCEPT !.published = oneMore(viz.published)]
    BY <1>10 DEF Counted, oneMore
  <2>3. /\ v \in Counters
        /\ v.published = oneMore(viz.published)
        /\ v.letters = viz.letters
        /\ v.processed = viz.processed
        /\ v.done = viz.done
        /\ v.handled = viz.handled
        /\ v.failed = viz.failed
        /\ v.inFlight = viz.inFlight
    BY <1>1, <1>2, <2>2 DEF Counters
  <2> QED BY <1>1, <1>3, <1>2, <1>10, <2>3 DEF In, Told, oneMore
<1>11. CASE m.kind = "done"
  <2>2. v = [viz EXCEPT !.done = TRUE]
    BY <1>11 DEF Counted
  <2>3. /\ v \in Counters
        /\ v.published = viz.published
        /\ v.letters = viz.letters
        /\ v.processed = viz.processed
        /\ v.done = TRUE
        /\ v.handled = viz.handled
        /\ v.failed = viz.failed
        /\ v.inFlight = viz.inFlight
    BY <1>1, <2>2 DEF Counters
  <2> QED BY <1>1, <1>3, <1>11, <2>3 DEF In, Told
<1>12. CASE m.kind = "stopped"
  <2>1. Larger(m.total, viz.published) \in Nat
    BY <1>1, <1>12, KindTells DEF Larger
  <2>2. v = [viz EXCEPT !.published = Larger(m.total, viz.published), !.draining = TRUE]
    BY <1>12 DEF Counted
  <2>3. /\ v \in Counters
        /\ v.published = Larger(m.total, viz.published)
        /\ v.letters = viz.letters
        /\ v.processed = viz.processed
        /\ v.done = viz.done
        /\ v.handled = viz.handled
        /\ v.failed = viz.failed
        /\ v.inFlight = viz.inFlight
    BY <1>1, <2>1, <2>2 DEF Counters
  <2> QED BY <1>1, <1>3, <2>1, <1>12, <2>3 DEF In, Told
<1>13. CASE m.kind = "started"
  <2>1. x \in Listeners
    BY <1>13, KindTells
  <2>2. v = [viz EXCEPT !.inFlight = up]
    BY <1>13 DEF Counted, up
  <2>3. /\ v \in Counters
        /\ v.published = viz.published
        /\ v.letters = viz.letters
        /\ v.processed = viz.processed
        /\ v.done = viz.done
        /\ v.handled = viz.handled
        /\ v.failed = viz.failed
        /\ v.inFlight = up
    BY <1>1, <1>5, <2>1, <2>2 DEF Counters
  <2> QED BY <1>1, <1>3, <1>5, <2>1, <1>13, <2>3 DEF In, Told
<1>14. CASE m.kind = "completed"
  <2>1. x \in Listeners
    BY <1>14, KindTells
  <2>2. v = [viz EXCEPT !.handled = handled, !.inFlight = down, !.processed = oneMore(viz.processed)]
    BY <1>14 DEF Counted, down, handled, oneMore
  <2>3. /\ v \in Counters
        /\ v.published = viz.published
        /\ v.letters = viz.letters
        /\ v.processed = oneMore(viz.processed)
        /\ v.done = viz.done
        /\ v.handled = handled
        /\ v.failed = viz.failed
        /\ v.inFlight = down
    BY <1>1, <1>2, <1>4, <1>5, <2>1, <2>2 DEF Counters
  <2> QED BY <1>1, <1>3, <1>2, <1>4, <1>5, <2>1, <1>14, <2>3 DEF In, Told, oneMore
<1>15. CASE m.kind = "failed"
  <2>1. x \in Listeners
    BY <1>15, KindTells
  <2>2. v = [viz EXCEPT !.failed = failed, !.inFlight = down]
    BY <1>15 DEF Counted, down, failed
  <2>3. /\ v \in Counters
        /\ v.published = viz.published
        /\ v.letters = viz.letters
        /\ v.processed = viz.processed
        /\ v.done = viz.done
        /\ v.handled = viz.handled
        /\ v.failed = failed
        /\ v.inFlight = down
    BY <1>1, <1>4, <1>5, <2>1, <2>2 DEF Counters
  <2> QED BY <1>1, <1>3, <1>4, <1>5, <2>1, <1>15, <2>3 DEF In, Told
<1>16. CASE m.kind = "letter"
  <2>2. v = [viz EXCEPT !.letters = oneMore(viz.letters), !.processed = oneMore(viz.processed)]
    BY <1>16 DEF Counted, LetterCounted, oneMore
  <2>3. /\ v \in Counters
        /\ v.published = viz.published
        /\ v.letters = oneMore(viz.letters)
        /\ v.processed = oneMore(viz.processed)
        /\ v.done = viz.done
        /\ v.handled = viz.handled
        /\ v.failed = viz.failed
        /\ v.inFlight = viz.inFlight
    BY <1>1, <1>2, <2>2 DEF Counters
  <2> QED BY <1>1, <1>3, <1>2, <1>16, <2>3 DEF In, Told, oneMore
<1> QED
  BY <1>10, <1>11, <1>12, <1>13, <1>14, <1>15, <1>16, KindTells

\* Every step keeps the shape.
LEMMA StepKeepsShape ==
  ASSUME SimShape, [SimNext]_simVars
  PROVE  SimShape'
<1>1. /\ config \in Configs /\ channel \in Seq(Messages) /\ collector \in BOOLEAN
      /\ truth \in History /\ viz \in Counters /\ todo \in SUBSET Listeners /\ seq \in Nat
      /\ tasks \in [Deliveries -> [pc : TaskStates, retries : Nat]] /\ DOMAIN tasks = Deliveries
      /\ simPc \in {"ticking", "batch", "publishing", "handling", "letter", "draining",
                    "closing", "shutdown", "ended", "aborted"}
  BY DEF SimShape
<1>2. ASSUME UNCHANGED <<config, seq, todo>>,
             simPc' \in {simPc, "aborted"}, channel' \in Seq(Messages), collector' \in BOOLEAN,
             viz' \in Counters, tasks' \in [Deliveries -> [pc : TaskStates, retries : Nat]],
             truth' \in History
      PROVE  SimShape'
  BY <1>1, <1>2, StaysShaped
<1>3. CASE Collect
  <2>1. Head(channel) \in Messages /\ Tail(channel) \in Seq(Messages)
    BY <1>1, <1>3, CountTail DEF Collect
  <2>2. viz' \in Counters
    BY <1>1, <1>3, <2>1, CountedFields DEF Collect
  <2>3. channel' \in Seq(Messages) /\ collector' \in BOOLEAN
    BY <1>3, <2>1 DEF Collect
  <2> QED BY <1>1, <1>2, <1>3, <2>2, <2>3 DEF Collect, publisherVars
<1>4. CASE Leave
  BY <1>1, <1>2, <1>4 DEF Leave, publisherVars
<1>5. CASE LeaveCloses
  BY <1>1, <1>2, <1>5 DEF LeaveCloses, publisherVars
<1>6. CASE LeaveAborts
  <2>1. AbortAll
    BY <1>6 DEF LeaveAborts
  <2> QED BY <1>1, <1>2, <1>6, <2>1, AbortKeepsTypes DEF LeaveAborts, publisherVars
<1>7. CASE Kill
  BY <1>1, <1>2, <1>7 DEF Kill, GoTo
<1>8. CASE UNCHANGED simVars
  BY <1>1, <1>2, <1>8 DEF simVars
<1> QED
  BY <1>1, <1>3, <1>4, <1>5, <1>6, <1>7, <1>8, TaskKeepsShape, DeliveryKeepsShape DEF SimNext

-----------------------------------------------------------------------------
(* When deliveries begin, and when all of them have ended                  *)

\* A delivery that takes a step is at work.
LEMMA DeliveryAtWork ==
  ASSUME SimShape, NEW d \in Deliveries, Delivery(d)
  PROVE  /\ d \in InFlightAsync
         /\ \A x \in Deliveries \ {d} : tasks'[x] = tasks[x]
         /\ tasks'[d].pc # "none"
         /\ UNCHANGED <<config, simPc, seq, todo, collector, viz>>
<1>1. DOMAIN tasks = Deliveries /\ tasks[d] \in [pc : TaskStates, retries : Nat]
  BY DEF SimShape
<1>2. tasks[d].pc \in {"waiting", "handling", "letter"}
  BY DEF Delivery, Begin, Complete, Fail, TimeOut, Letter
<1>3. \A x \in Deliveries \ {d} : tasks'[x] = tasks[x]
  BY <1>1 DEF Delivery, Begin, Complete, Fail, TimeOut, Letter, Set, AfterFailure
<1>4. tasks'[d].pc # "none"
  BY <1>1 DEF Delivery, Begin, Complete, Fail, TimeOut, Letter, Set, AfterFailure
<1>5. UNCHANGED <<config, simPc, seq, todo, collector, viz>>
  BY DEF Delivery, Begin, Complete, Fail, TimeOut, Letter, TaskUnchanged, publisherVars
<1> QED
  BY <1>1, <1>2, <1>3, <1>4, <1>5 DEF InFlightAsync, IsDone

\* No delivery begins before its event, or after the end.
LEMMA StepKeepsBegun ==
  ASSUME SimShape, DeliveriesBegun, [SimNext]_simVars
  PROVE  DeliveriesBegun'
<1>1. DOMAIN tasks = Deliveries /\ seq \in Nat
  BY DEF SimShape
<1>2. config' = config /\ Listeners' = Listeners /\ Deliveries' = Deliveries
  <2>1. config' = config
    BY DEF SimNext, SimTask, StopPublishing, Tick, PublishEvent, StartSync, EndSync, SyncLetter,
         EndPublish, Finished, CloseBus, ShutdownReturns, Delivery, Begin, Complete, Fail, TimeOut, Letter,
           TaskUnchanged, Collect, Leave, LeaveCloses, LeaveAborts, Kill, simVars
  <2> QED BY <2>1 DEF Listeners, Deliveries
<1>3. DOMAIN tasks' = Deliveries
  BY <1>2, StepKeepsShape DEF SimShape
<1>4. ASSUME seq' = seq, \A d \in Deliveries : tasks[d].pc = "none" => tasks'[d].pc = "none",
             Over' => \/ Over /\ \A d \in Deliveries : IsDone(d) => tasks'[d].pc = tasks[d].pc
                      \/ config.target = NoTarget => InFlightAsync' = {}
      PROVE  DeliveriesBegun'
  <2>1. \A d \in Deliveries : d[1] > seq' => tasks'[d].pc = "none"
    BY <1>4 DEF DeliveriesBegun
  <2>2. ASSUME Over, config.target = NoTarget,
               \A d \in Deliveries : IsDone(d) => tasks'[d].pc = tasks[d].pc
        PROVE  InFlightAsync' = {}
    BY <1>1, <1>3, <2>2 DEF DeliveriesBegun, InFlightAsync, IsDone
  <2> QED BY <1>2, <1>4, <2>1, <2>2 DEF DeliveriesBegun
<1>5. CASE PublishEvent
  <2>1. seq' = seq + 1 /\ simPc' = "publishing"
    BY <1>5 DEF PublishEvent, GoTo
  <2>2. ASSUME NEW d \in Deliveries, d[1] > seq' PROVE tasks'[d].pc = "none"
    <3>1. tasks'[d] = tasks[d] /\ d[1] > seq
      <4>1. d[1] \in Int
        BY DEF Deliveries
      <4>2. d[1] # seq' /\ d[1] > seq
        BY <1>1, <2>1, <2>2, <4>1
      <4> QED BY <1>1, <1>5, <4>2 DEF PublishEvent
    <3> QED BY <3>1 DEF DeliveriesBegun
  <2> QED BY <1>2, <2>1, <2>2 DEF DeliveriesBegun, Over
<1>6. CASE StopPublishing \/ Tick \/ EndPublish \/ CloseBus \/ Collect
             \/ Leave \/ LeaveCloses \/ Kill \/ UNCHANGED simVars
  <2>1. tasks' = tasks /\ seq' = seq /\ (Over' => Over)
    BY <1>6 DEF StopPublishing, Tick, EndPublish, CloseBus, Collect, Leave, LeaveCloses, Kill,
                simVars, publisherVars, GoTo, Over
  <2> QED BY <1>4, <2>1
<1>7. ASSUME NEW l \in Listeners, StartSync(l) \/ EndSync(l) \/ SyncLetter(l)
      PROVE  DeliveriesBegun'
  <2>1. tasks' = tasks /\ seq' = seq /\ ~Over'
    BY <1>7 DEF StartSync, EndSync, SyncLetter, GoTo, Over
  <2> QED BY <1>4, <2>1
<1>8. CASE Finished
  <2>1. tasks' = tasks /\ seq' = seq /\ (config.target = NoTarget => InFlightAsync = {})
    BY <1>8 DEF Finished
  <2>2. InFlightAsync' = InFlightAsync
    BY <2>1 DEF InFlightAsync, IsDone
  <2> QED BY <1>4, <2>1, <2>2
<1>9. ASSUME AbortAll, seq' = seq, Over' => Over PROVE DeliveriesBegun'
  BY <1>4, <1>9, AbortKeepsTypes DEF IsDone
<1>10. CASE ShutdownReturns \/ LeaveAborts
  <2>1. seq' = seq /\ (Over' => Over)
    BY <1>10 DEF ShutdownReturns, LeaveAborts, publisherVars, GoTo, Over
  <2>2. AbortAll \/ UNCHANGED tasks
    BY <1>10 DEF ShutdownReturns, LeaveAborts
  <2> QED BY <1>4, <1>9, <2>1, <2>2
<1>11. ASSUME NEW d \in Deliveries, Delivery(d) PROVE DeliveriesBegun'
  <2>1. /\ ~IsDone(d) /\ seq' = seq /\ simPc' = simPc
        /\ \A x \in Deliveries \ {d} : tasks'[x] = tasks[x]
    BY <1>11, DeliveryAtWork DEF InFlightAsync
  <2>2. \A x \in Deliveries : IsDone(x) => tasks'[x] = tasks[x]
    BY <2>1
  <2>3. tasks[d].pc # "none"
    BY <2>1 DEF IsDone
  <2> QED BY <1>4, <2>1, <2>2, <2>3 DEF Over
<1> QED
  BY <1>1, <1>5, <1>6, <1>7, <1>8, <1>10, <1>11 DEF SimNext, SimTask

-----------------------------------------------------------------------------
(* The messages about the end                                              *)

\* There is no message about the end in c.
Plain(c) == \A i \in 1 .. Len(c) : c[i].kind \notin {"stopped", "done"}

\* It stays so when another message is sent.
LEMMA PlainAppend ==
  ASSUME NEW c \in Seq(Messages), NEW m \in Messages, m.kind \notin {"stopped", "done"}, Plain(c)
  PROVE  Append(c, m) \in Seq(Messages) /\ Plain(Append(c, m))
<1> DEFINE d == Append(c, m)
<1>1. /\ d \in Seq(Messages) /\ Len(d) = Len(c) + 1 /\ Len(c) \in Nat
      /\ \A i \in 1 .. Len(c) : d[i] = c[i]
      /\ d[Len(c) + 1] = m
  BY CountAppend, LenProperties
<1> HIDE DEF d
<1>2. \A i \in 1 .. Len(d) : i \in 1 .. Len(c) \/ i = Len(c) + 1
  BY <1>1
<1> QED
  BY <1>1, <1>2 DEF Plain, d

\* The kinds of messages.
LEMMA Kinds ==
  /\ Message("published", 0).kind = "published" /\ Message("done", 0).kind = "done"
  /\ \A n : [kind |-> "stopped", total |-> n].kind = "stopped"
  /\ \A l : /\ Message("started", l).kind = "started" /\ Message("completed", l).kind = "completed"
            /\ Message("failed", l).kind = "failed" /\ Message("letter", l).kind = "letter"
  /\ \A l : /\ Message("started", l) \notin Publications /\ Message("completed", l) \notin Publications
            /\ Message("failed", l) \notin Publications /\ Message("letter", l) \notin Publications
  /\ Message("done", 0) \notin Publications
BY DEF Message, Publications

\* Before the end the collector is there and no end is announced.
LEMMA NotOverYet ==
  ASSUME SimShape
  PROVE  /\ EndAnnounced /\ ~Over => collector /\ ~viz.done /\ Plain(channel)
         /\ collector /\ ~viz.done /\ Plain(channel) => EndAnnounced
<1>1. DOMAIN channel = 1 .. Len(channel)
  BY LenProperties DEF SimShape
<1> QED
  BY <1>1 DEF EndAnnounced, Plain

\* What a delivery sends.
LEMMA DeliverySends ==
  ASSUME SimShape, NEW d \in Deliveries, Delivery(d)
  PROVE  /\ \/ channel' = channel
            \/ /\ collector
               /\ \E kind \in {"started", "completed", "failed", "letter"} :
                    channel' = Append(channel, Message(kind, d[2]))
         /\ truth'.published = truth.published
<1>1. d[2] \in Listeners /\ channel \in Seq(Messages) /\ truth \in History
  BY DEF Deliveries, SimShape
<1>2. /\ Message("started", d[2]) \in Messages /\ Message("completed", d[2]) \in Messages
      /\ Message("failed", d[2]) \in Messages /\ Message("letter", d[2]) \in Messages
  BY <1>1, KindsOfMessages
<1>3. \A m \in Messages : Send(<<m>>) => channel' = IF collector THEN Append(channel, m) ELSE channel
  BY <1>1, Sending
<1>4. truth'.published = truth.published
  BY <1>1 DEF Delivery, Begin, Complete, Fail, TimeOut, Letter, Count, History
<1> QED
  BY <1>2, <1>3, <1>4 DEF Delivery, Begin, Complete, Fail, TimeOut, Letter

\* The end is announced once everything that was published has been reported.
LEMMA StepKeepsAnnounced ==
  ASSUME SimShape, DeliveriesBegun, EndAnnounced, [SimNext]_simVars
  PROVE  EndAnnounced'
<1>1. /\ channel \in Seq(Messages) /\ SimShape' /\ viz \in Counters
      /\ Len(channel) \in Nat /\ DOMAIN channel = 1 .. Len(channel)
      /\ collector \in BOOLEAN /\ truth \in History /\ viz.done \in BOOLEAN
  BY StepKeepsShape, LenProperties DEF SimShape, Counters
<1>2. ASSUME UNCHANGED <<config, channel, collector, viz>>, truth'.published = truth.published,
             Over => Over'
      PROVE  EndAnnounced'
  BY <1>2 DEF EndAnnounced
<1>3. ASSUME ~Over, UNCHANGED <<config, collector, viz>>, Plain(channel')
      PROVE  EndAnnounced'
  <2>1. collector' /\ ~viz'.done
    BY <1>3, NotOverYet
  <2>2. DOMAIN channel' = 1 .. Len(channel')
    BY <1>1, LenProperties DEF SimShape
  <2> QED BY <1>3, <2>1, <2>2 DEF EndAnnounced, Plain
<1>4. ~Over => Plain(channel) /\ collector
  BY NotOverYet
<1>5. CASE StopPublishing \/ Tick \/ PublishEvent
  <2>1. ~Over /\ UNCHANGED <<config, collector, viz, channel>>
    BY <1>5 DEF StopPublishing, Tick, PublishEvent, Over
  <2> QED BY <1>3, <1>4, <2>1
<1>6. ASSUME NEW l \in Listeners, StartSync(l) \/ EndSync(l) PROVE EndAnnounced'
  <2>1. ~Over /\ UNCHANGED <<config, collector, viz>>
    BY <1>6 DEF StartSync, EndSync, Over
  <2>2. PICK kind \in {"started", "completed", "failed"} : Send(<<Message(kind, l)>>)
    BY <1>6 DEF StartSync, EndSync
  <2>3. Message(kind, l) \in Messages /\ Message(kind, l).kind \notin {"stopped", "done"}
    BY KindsOfMessages, Kinds
  <2>4. Plain(channel')
    BY <1>1, <1>4, <2>1, <2>2, <2>3, Sending, PlainAppend
  <2> QED BY <1>3, <2>1, <2>4
<1>7. ASSUME NEW l \in Listeners, SyncLetter(l) PROVE EndAnnounced'
  <2>1. ~Over /\ UNCHANGED <<config, collector, viz>> /\ Send(<<Message("letter", l)>>)
    BY <1>7 DEF SyncLetter, Over
  <2>2. Message("letter", l) \in Messages /\ Message("letter", l).kind = "letter"
    BY KindsOfMessages, Kinds
  <2>3. Plain(channel')
    BY <1>1, <1>4, <2>1, <2>2, Sending, PlainAppend
  <2> QED BY <1>3, <2>1, <2>3
<1>8. CASE EndPublish
  <2>1. ~Over /\ UNCHANGED <<config, collector, viz>> /\ Send(<<Message("published", 0)>>)
    BY <1>8 DEF EndPublish, Over
  <2>2. Message("published", 0) \in Messages /\ Message("published", 0).kind = "published"
    BY KindsOfMessages, Kinds
  <2>3. Plain(channel')
    BY <1>1, <1>4, <2>1, <2>2, Sending, PlainAppend
  <2> QED BY <1>3, <2>1, <2>3
<1>9. CASE Finished
  <2> DEFINE a == [kind |-> "stopped", total |-> truth.published]
             b == Message("done", 0)
             n == Len(channel)
  <2>1. /\ ~Over /\ Over' /\ UNCHANGED <<config, collector, viz, truth>> /\ Send(<<a, b>>)
    BY <1>9 DEF Finished, Over, GoTo
  <2>2. /\ a \in Messages /\ b \in Messages /\ a.kind = "stopped" /\ b.kind = "done"
        /\ a.total = truth.published /\ b \notin Publications
    <3>1. truth.published \in Nat
      BY <1>1 DEF History
    <3> QED BY <3>1, KindsOfMessages, Kinds
  <2> HIDE DEF a, b
  <2>3. channel' = Append(Append(channel, a), b)
    BY <1>1, <1>4, <2>1, <2>2, Sending
  <2>4. /\ Append(channel, a) \in Seq(Messages) /\ Len(Append(channel, a)) = n + 1
        /\ \A i \in 1 .. n : Append(channel, a)[i] = channel[i]
        /\ Append(channel, a)[n + 1] = a
    BY <1>1, <2>2, CountAppend
  <2>5. /\ Len(channel') = (n + 1) + 1
        /\ \A i \in 1 .. n + 1 : channel'[i] = Append(channel, a)[i]
        /\ channel'[(n + 1) + 1] = b
    BY <2>2, <2>3, <2>4, CountAppend
  <2>6. DOMAIN channel' = 1 .. Len(channel')
    BY <1>1, LenProperties DEF SimShape
  <2>7. /\ \A i \in 1 .. n : channel'[i] = channel[i]
        /\ channel'[n + 1] = a /\ channel'[n + 2] = b /\ Len(channel') = n + 2
    BY <1>1, <2>4, <2>5
  <2>8. \A i \in DOMAIN channel' : i \in 1 .. n \/ i = n + 1 \/ i = n + 2
    BY <1>1, <2>6, <2>7
  <2>9. \A i \in 1 .. n : channel[i].kind \notin {"stopped", "done"}
    BY <1>4, <2>1 DEF Plain
  <2>10. collector' /\ ~viz'.done
    BY <2>1, NotOverYet
  <2>11. ASSUME NEW i \in DOMAIN channel'
         PROVE  /\ channel'[i].kind = "done" => i = Len(channel')
                /\ channel'[i].kind = "stopped" =>
                     /\ channel'[i].total = truth'.published
                     /\ \A j \in DOMAIN channel' : j > i => channel'[j] \notin Publications
    <3>1. CASE i \in 1 .. n
      BY <2>7, <2>9, <3>1
    <3>2. CASE i = n + 1
      <4>1. \A j \in DOMAIN channel' : j > i => j = n + 2
        BY <1>1, <2>8, <3>2
      <4> QED BY <2>1, <2>2, <2>7, <3>2, <4>1
    <3>3. CASE i = n + 2
      BY <2>2, <2>7, <3>3
    <3> QED BY <2>8, <3>1, <3>2, <3>3
  <2> QED BY <2>1, <2>10, <2>11 DEF EndAnnounced
<1>10. CASE CloseBus \/ Leave \/ LeaveCloses \/ Kill \/ UNCHANGED simVars
  <2>1. UNCHANGED <<config, channel, collector, viz, truth>> /\ (Over => Over')
    BY <1>10 DEF CloseBus, Leave, LeaveCloses, Kill, simVars, publisherVars, GoTo, Over
  <2> QED BY <1>2, <2>1
<1>11. CASE ShutdownReturns \/ LeaveAborts
  <2>1. UNCHANGED <<config, channel, collector, viz>> /\ (Over => Over')
    BY <1>11 DEF ShutdownReturns, LeaveAborts, publisherVars, GoTo, Over
  <2>2. truth'.published = truth.published
    <3>1. AbortAll \/ UNCHANGED truth
      BY <1>11 DEF ShutdownReturns, LeaveAborts
    <3> QED BY <1>1, <3>1 DEF AbortAll, History
  <2> QED BY <1>2, <2>1, <2>2
<1>12. ASSUME NEW d \in Deliveries, Delivery(d) PROVE EndAnnounced'
  <2>1. UNCHANGED <<config, simPc, collector, viz>> /\ truth'.published = truth.published
    BY <1>12, DeliveryAtWork, DeliverySends
  <2>2. CASE channel' = channel
    BY <1>2, <2>1, <2>2 DEF Over
  <2>3. ASSUME NEW kind \in {"started", "completed", "failed", "letter"}, collector,
               channel' = Append(channel, Message(kind, d[2]))
        PROVE  EndAnnounced'
    <3> DEFINE m == Message(kind, d[2])
               n == Len(channel)
    <3>1. m \in Messages /\ m.kind = kind /\ m \notin Publications
      <4>1. d[2] \in Listeners
        BY DEF Deliveries
      <4> QED BY <2>3, <4>1, KindsOfMessages, Kinds
    <3>2. CASE ~Over
      BY <1>1, <1>3, <1>4, <2>1, <2>3, <3>1, <3>2, PlainAppend
    <3>3. CASE Over
      <4>1. config.target # NoTarget
        BY <1>12, <3>3, DeliveryAtWork DEF DeliveriesBegun
      <4> HIDE DEF m
      <4>2. /\ Len(channel') = n + 1 /\ \A i \in 1 .. n : channel'[i] = channel[i]
            /\ channel'[n + 1] = m
        BY <1>1, <2>3, <3>1, CountAppend DEF m
      <4>3. DOMAIN channel' = 1 .. Len(channel')
        BY <1>1, LenProperties DEF SimShape
      <4>4. \A i \in DOMAIN channel' : i \in DOMAIN channel \/ i = n + 1
        BY <1>1, <4>2, <4>3
      <4>5. ASSUME NEW i \in DOMAIN channel', channel'[i].kind = "stopped"
            PROVE  /\ channel'[i].total = truth'.published
                   /\ \A j \in DOMAIN channel' : j > i => channel'[j] \notin Publications
        <5>1. i \in DOMAIN channel /\ channel'[i] = channel[i]
          BY <1>1, <2>3, <3>1, <4>2, <4>4, <4>5
        <5> QED BY <1>1, <2>1, <3>1, <4>2, <4>4, <4>5, <5>1 DEF EndAnnounced
      <4>6. collector' /\ (collector' <=> ~viz'.done)
        BY <2>1, <2>3 DEF EndAnnounced
      <4>7. Over' /\ config'.target # NoTarget
        BY <2>1, <3>3, <4>1 DEF Over
      <4> QED BY <4>5, <4>6, <4>7 DEF EndAnnounced
    <3> QED BY <3>2, <3>3
  <2> QED BY <1>12, <2>2, <2>3, DeliverySends
<1>13. CASE Collect
  <2> DEFINE m == Head(channel)
             n == Len(channel)
  <2>1. /\ collector /\ channel # <<>> /\ viz' = Counted(m)
        /\ collector' = ~viz'.done
        /\ channel' = IF collector' THEN Tail(channel) ELSE <<>>
        /\ UNCHANGED <<config, simPc, truth>>
    BY <1>13 DEF Collect, publisherVars
  <2>2. /\ n \in Nat \ {0} /\ Len(Tail(channel)) = n - 1 /\ m = channel[1] /\ m \in Messages
        /\ \A i \in 1 .. n - 1 : Tail(channel)[i] = channel[i + 1]
        /\ Tail(channel) \in Seq(Messages)
    BY <1>1, <2>1, CountTail
  <2> HIDE DEF m
  <2>3. viz'.done <=> m.kind = "done"
    <3>1. ~viz.done
      BY <2>1 DEF EndAnnounced
    <3>2. Counted(m).done <=> viz.done \/ m.kind = "done"
      BY <1>1, <2>2, CountedFields
    <3> QED BY <2>1, <3>1, <3>2
  <2>4. collector' <=> ~viz'.done
    BY <2>1
  <2>5. CASE m.kind = "done"
    <3>1. Over
      BY <1>1, <2>2, <2>5 DEF EndAnnounced
    <3>2. ~collector' /\ viz'.done
      BY <2>1, <2>3, <2>5
    <3>3. channel' = <<>>
      BY <2>1, <3>2
    <3> QED BY <2>1, <3>1, <3>2, <3>3 DEF EndAnnounced, Over
  <2>6. CASE m.kind # "done"
    <3>1. collector' /\ ~viz'.done
      BY <2>1, <2>3, <2>6
    <3>2. channel' = Tail(channel)
      BY <2>1, <3>1
    <3>3. DOMAIN channel' = 1 .. n - 1
      BY <2>2, <3>2, LenProperties
    <3>4. \A i \in DOMAIN channel' : channel'[i] = channel[i + 1] /\ i + 1 \in DOMAIN channel
      BY <1>1, <2>2, <3>2, <3>3
    <3>5. ASSUME NEW i \in DOMAIN channel'
          PROVE  /\ channel'[i].kind \in {"stopped", "done"} => Over'
                 /\ channel'[i].kind = "done" /\ config'.target = NoTarget => i = Len(channel')
                 /\ channel'[i].kind = "stopped" =>
                      /\ channel'[i].total = truth'.published
                      /\ \A j \in DOMAIN channel' : j > i => channel'[j] \notin Publications
      <4>1. channel'[i].kind \in {"stopped", "done"} => Over'
        BY <2>1, <3>4 DEF EndAnnounced, Over
      <4>2. channel'[i].kind = "done" /\ config'.target = NoTarget => i = Len(channel')
        <5>1. channel[i + 1].kind = "done" /\ config.target = NoTarget => i + 1 = n
          BY <3>4 DEF EndAnnounced
        <5> QED BY <2>1, <2>2, <3>2, <3>3, <3>4, <5>1
      <4>3. ASSUME channel'[i].kind = "stopped"
            PROVE  /\ channel'[i].total = truth'.published
                   /\ \A j \in DOMAIN channel' : j > i => channel'[j] \notin Publications
        <5>1. channel[i + 1].kind = "stopped" /\ i + 1 \in DOMAIN channel
          BY <3>4, <4>3
        <5>2. \A j \in DOMAIN channel' : j > i => j + 1 > i + 1 /\ j + 1 \in DOMAIN channel
          BY <1>1, <2>2, <3>3
        <5> QED BY <2>1, <3>4, <5>1, <5>2 DEF EndAnnounced
      <4> QED BY <4>1, <4>2, <4>3
    <3> QED BY <3>1, <3>5 DEF EndAnnounced
  <2> QED BY <2>5, <2>6
<1> QED
  <2>1. DOMAIN tasks = Deliveries
    BY DEF SimShape
  <2> QED BY <2>1, <1>5, <1>6, <1>7, <1>8, <1>9, <1>10, <1>11, <1>12, <1>13 DEF SimNext, SimTask

-----------------------------------------------------------------------------
(* The balance of the counters                                             *)

\* What each message is counted as.
LEMMA Marks ==
  ASSUME NEW m \in Messages
  PROVE  /\ In(m, Publications) = In(m.kind, {"published"})
         /\ In(m, Reports("letter")) = In(m.kind, {"letter"})
         /\ In(m, Endings) = In(m.kind, {"completed", "letter"})
         /\ \A l \in Listeners :
              /\ In(m, {Message("started", l)}) = Told(m, {"started"}, l)
              /\ In(m, {Message("completed", l)}) = Told(m, {"completed"}, l)
              /\ In(m, {Message("failed", l)}) = Told(m, {"failed"}, l)
              /\ In(m, {Message("completed", l), Message("failed", l)})
                   = Told(m, {"completed", "failed"}, l)
<1>1. \A l \in Listeners :
        /\ m \in {Message("started", l)} <=> m.kind = "started" /\ l = m.listener
        /\ m \in {Message("completed", l)} <=> m.kind = "completed" /\ l = m.listener
        /\ m \in {Message("failed", l)} <=> m.kind = "failed" /\ l = m.listener
        /\ m \in {Message("completed", l), Message("failed", l)}
             <=> m.kind \in {"completed", "failed"} /\ l = m.listener
  BY KindTells
<1> QED
  BY <1>1, KindTells DEF In, Told

\* The numbers in the balance are numbers.
LEMMA Numbers ==
  ASSUME NEW c \in Seq(Messages), NEW v \in Counters, NEW t \in History
  PROVE  /\ \A M : Queued(c, M) \in Nat
         /\ v.published \in Nat /\ v.letters \in Nat /\ v.processed \in Nat
         /\ t.published \in Nat /\ t.letters \in Nat /\ t.begun \in Nat
         /\ \A l \in Listeners :
              /\ v.handled[l] \in Nat /\ v.failed[l] \in Nat /\ v.inFlight[l] \in Int
              /\ t.handled[l] \in Nat /\ t.failed[l] \in Nat /\ t.cut[l] \in Nat
         /\ \A x, M : In(x, M) \in Nat
<1>1. \A M : Queued(c, M) \in Nat
  BY LenProperties, CountType DEF Queued
<1> QED
  BY <1>1 DEF Counters, History, In

\* A message that says what happened keeps the balance.
LEMMA BalanceSent ==
  ASSUME NEW c \in Seq(Messages), NEW m \in Messages, NEW v \in Counters,
         NEW t \in History, NEW u \in History,
         NEW h \in [Listeners -> Nat], NEW k \in [Listeners -> Nat],
         Balanced(c, v, t, h),
         u.published = t.published + In(m.kind, {"published"}),
         u.letters = t.letters + In(m.kind, {"letter"}),
         \A l \in Listeners :
           /\ u.handled[l] = t.handled[l] + Told(m, {"completed"}, l)
           /\ u.failed[l] = t.failed[l] + Told(m, {"failed"}, l)
           /\ u.cut[l] + k[l] + Told(m, {"completed", "failed"}, l)
                = t.cut[l] + h[l] + Told(m, {"started"}, l)
  PROVE  Balanced(Append(c, m), v, u, k)
<1> DEFINE d == Append(c, m)
<1>1. d \in Seq(Messages) /\ \A M : Queued(d, M) = Queued(c, M) + In(m, M)
  BY CountAppend
<1> HIDE DEF d
<1>2. v.published + Queued(d, Publications) = u.published
  <2>1. /\ Queued(d, Publications) = Queued(c, Publications) + In(m.kind, {"published"})
        /\ v.published + Queued(c, Publications) = t.published
    BY <1>1, Marks DEF Balanced
  <2>2. /\ Queued(c, Publications) \in Nat /\ In(m.kind, {"published"}) \in Nat
        /\ v.published \in Nat
    BY Numbers
  <2> QED BY <2>1, <2>2
<1>3. v.letters + Queued(d, Reports("letter")) = u.letters
  <2>1. /\ Queued(d, Reports("letter")) = Queued(c, Reports("letter")) + In(m.kind, {"letter"})
        /\ v.letters + Queued(c, Reports("letter")) = t.letters
    BY <1>1, Marks DEF Balanced
  <2>2. /\ Queued(c, Reports("letter")) \in Nat /\ In(m.kind, {"letter"}) \in Nat
        /\ v.letters \in Nat
    BY Numbers
  <2> QED BY <2>1, <2>2
<1>4. ASSUME NEW l \in Listeners
      PROVE  /\ v.handled[l] + Queued(d, {Message("completed", l)}) = u.handled[l]
             /\ v.failed[l] + Queued(d, {Message("failed", l)}) = u.failed[l]
             /\ v.inFlight[l] + Queued(d, {Message("started", l)}) =
                  u.cut[l] + k[l] + Queued(d, {Message("completed", l), Message("failed", l)})
  <2> DEFINE S == {Message("started", l)}
             C == {Message("completed", l)}
             F == {Message("failed", l)}
             E == {Message("completed", l), Message("failed", l)}
             one(M) == In(m, M)
  <2>1. /\ v.handled[l] + Queued(c, C) = t.handled[l]
        /\ v.failed[l] + Queued(c, F) = t.failed[l]
        /\ v.inFlight[l] + Queued(c, S) = t.cut[l] + h[l] + Queued(c, E)
    BY DEF Balanced
  <2>2. /\ one(S) = Told(m, {"started"}, l)
        /\ one(C) = Told(m, {"completed"}, l)
        /\ one(F) = Told(m, {"failed"}, l)
        /\ one(E) = Told(m, {"completed", "failed"}, l)
    BY Marks
  <2> HIDE DEF S, C, F, E, one
  <2>3. /\ Queued(d, S) = Queued(c, S) + one(S) /\ Queued(d, C) = Queued(c, C) + one(C)
        /\ Queued(d, F) = Queued(c, F) + one(F) /\ Queued(d, E) = Queued(c, E) + one(E)
    BY <1>1 DEF one
  <2>4. /\ Queued(c, S) \in Nat /\ Queued(c, C) \in Nat /\ Queued(c, F) \in Nat /\ Queued(c, E) \in Nat
        /\ one(S) \in Nat /\ one(C) \in Nat /\ one(F) \in Nat /\ one(E) \in Nat
        /\ v.handled[l] \in Nat /\ v.failed[l] \in Nat /\ v.inFlight[l] \in Int
        /\ t.handled[l] \in Nat /\ t.failed[l] \in Nat /\ t.cut[l] \in Nat /\ u.cut[l] \in Nat
        /\ h[l] \in Nat /\ k[l] \in Nat
    BY Numbers DEF one
  <2>5. /\ u.handled[l] = t.handled[l] + one(C)
        /\ u.failed[l] = t.failed[l] + one(F)
        /\ u.cut[l] + k[l] + one(E) = t.cut[l] + h[l] + one(S)
    BY <2>2
  <2>6. v.handled[l] + Queued(d, C) = u.handled[l]
    <3>1. v.handled[l] + Queued(c, C) = t.handled[l]
      BY <2>1
    <3>2. Queued(d, C) = Queued(c, C) + one(C) /\ u.handled[l] = t.handled[l] + one(C)
      BY <2>3, <2>5
    <3>3. v.handled[l] \in Nat /\ Queued(c, C) \in Nat /\ one(C) \in Nat
      BY <2>4
    <3> QED BY <3>1, <3>2, <3>3
  <2>7. v.failed[l] + Queued(d, F) = u.failed[l]
    <3>1. v.failed[l] + Queued(c, F) = t.failed[l]
      BY <2>1
    <3>2. Queued(d, F) = Queued(c, F) + one(F) /\ u.failed[l] = t.failed[l] + one(F)
      BY <2>3, <2>5
    <3>3. v.failed[l] \in Nat /\ Queued(c, F) \in Nat /\ one(F) \in Nat
      BY <2>4
    <3> QED BY <3>1, <3>2, <3>3
  <2>8. v.inFlight[l] + Queued(d, S) = u.cut[l] + k[l] + Queued(d, E)
    <3>1. v.inFlight[l] + Queued(c, S) = t.cut[l] + h[l] + Queued(c, E)
      BY <2>1
    <3>2. /\ Queued(d, S) = Queued(c, S) + one(S) /\ Queued(d, E) = Queued(c, E) + one(E)
          /\ u.cut[l] + k[l] + one(E) = t.cut[l] + h[l] + one(S)
      BY <2>3, <2>5
    <3>3. /\ v.inFlight[l] \in Int /\ Queued(c, S) \in Nat /\ Queued(c, E) \in Nat
          /\ one(S) \in Nat /\ one(E) \in Nat /\ t.cut[l] \in Nat /\ h[l] \in Nat
          /\ u.cut[l] \in Nat /\ k[l] \in Nat
      BY <2>4
    <3> DEFINE g == v.inFlight[l]
               s == Queued(c, S)
               e == Queued(c, E)
               x == one(S)
               y == one(E)
               a == t.cut[l]
               b == h[l]
               aa == u.cut[l]
               bb == k[l]
    <3>4. /\ g \in Int /\ s \in Nat /\ e \in Nat /\ x \in Nat /\ y \in Nat
          /\ a \in Nat /\ b \in Nat /\ aa \in Nat /\ bb \in Nat
      BY <3>3
    <3>5. g + s = a + b + e /\ aa + bb + y = a + b + x
      BY <3>1, <3>2
    <3> HIDE DEF g, s, e, x, y, a, b, aa, bb
    <3>6. g + (s + x) = aa + bb + (e + y)
      BY <3>4, <3>5
    <3> QED BY <3>2, <3>6 DEF g, s, e, x, y, aa, bb
  <2> QED BY <2>6, <2>7, <2>8 DEF S, C, F, E
<1> QED
  BY <1>2, <1>3, <1>4 DEF Balanced, d

\* The balance says that after the last message no gauge is negative.
LEMMA PrefixSent ==
  ASSUME NEW c \in Seq(Messages), NEW m \in Messages, NEW v \in Counters,
         NEW u \in History, NEW k \in [Listeners -> Nat],
         NeverNegative(c, v), Balanced(Append(c, m), v, u, k)
  PROVE  NeverNegative(Append(c, m), v)
<1> DEFINE d == Append(c, m)
           n == Len(c)
<1>1. /\ d \in Seq(Messages) /\ Len(d) = n + 1 /\ n \in Nat
      /\ \A M : \A i \in 0 .. n : CountIn(d, i, M) = CountIn(c, i, M)
  BY CountAppend, LenProperties
<1> HIDE DEF d, n
<1>2. ASSUME NEW l \in Listeners, NEW i \in 0 .. Len(d)
      PROVE  CountIn(d, i, {Message("completed", l), Message("failed", l)})
               <= v.inFlight[l] + CountIn(d, i, {Message("started", l)})
  <2> DEFINE S == {Message("started", l)}
             E == {Message("completed", l), Message("failed", l)}
  <2>1. CASE i \in 0 .. n
    <3>1. CountIn(c, i, E) <= v.inFlight[l] + CountIn(c, i, S)
      BY <2>1 DEF NeverNegative, n
    <3>2. CountIn(d, i, E) = CountIn(c, i, E) /\ CountIn(d, i, S) = CountIn(c, i, S)
      BY <1>1, <2>1
    <3> QED BY <3>1, <3>2
  <2>2. CASE i = n + 1
    <3>1. v.inFlight[l] + Queued(d, S) = u.cut[l] + k[l] + Queued(d, E)
      BY DEF Balanced, d
    <3>2. Queued(d, S) = CountIn(d, i, S) /\ Queued(d, E) = CountIn(d, i, E)
      BY <1>1, <2>2 DEF Queued
    <3>3. Queued(d, E) \in Nat /\ Queued(d, S) \in Nat /\ v.inFlight[l] \in Int
      BY <1>1, Numbers
    <3>4. u.cut[l] \in Nat /\ k[l] \in Nat
      BY DEF History
    <3> DEFINE g == v.inFlight[l]
               a == u.cut[l]
               b == k[l]
               x == CountIn(d, i, S)
               y == CountIn(d, i, E)
    <3>5. g \in Int /\ x \in Nat /\ y \in Nat /\ a \in Nat /\ b \in Nat /\ g + x = a + b + y
      BY <3>1, <3>2, <3>3, <3>4
    <3> HIDE DEF g, a, b, x, y
    <3>6. y <= g + x
      BY <3>5
    <3> QED BY <3>6 DEF g, x, y
  <2> QED BY <1>1, <2>1, <2>2
<1> QED
  BY <1>2 DEF NeverNegative, d

\* A message that was counted is no longer on its way.
LEMMA BalanceCounted ==
  ASSUME viz \in Counters, NEW c \in Seq(Messages), c # <<>>,
         NEW t \in History, NEW h \in [Listeners -> Nat],
         Balanced(c, viz, t, h),
         Head(c).kind = "stopped" => Head(c).total = t.published /\ Queued(c, Publications) = 0
  PROVE  Balanced(Tail(c), Counted(Head(c)), t, h)
<1> DEFINE d == Tail(c)
           m == Head(c)
           v == Counted(m)
<1>1. /\ d \in Seq(Messages) /\ m \in Messages
      /\ \A M : Queued(c, M) = Queued(d, M) + In(m, M)
  BY CountTail
<1>2. /\ v \in Counters
      /\ m.kind \notin {"published", "stopped"} => v.published = viz.published
      /\ m.kind = "published" => v.published = viz.published + 1
      /\ m.kind = "stopped" => v.published = Larger(m.total, viz.published)
      /\ v.letters = viz.letters + In(m.kind, {"letter"})
      /\ \A l \in Listeners :
           /\ v.handled[l] = viz.handled[l] + Told(m, {"completed"}, l)
           /\ v.failed[l] = viz.failed[l] + Told(m, {"failed"}, l)
           /\ v.inFlight[l] = viz.inFlight[l] + Told(m, {"started"}, l)
                - Told(m, {"completed", "failed"}, l)
  BY <1>1, CountedFields
<1>3. m.kind = "stopped" => m.total = t.published /\ Queued(c, Publications) = 0
  OBVIOUS
<1> HIDE DEF d, m, v
<1>4. v.published + Queued(d, Publications) = t.published
  <2>1. /\ Queued(c, Publications) = Queued(d, Publications) + In(m.kind, {"published"})
        /\ viz.published + Queued(c, Publications) = t.published
        /\ Queued(c, Publications) \in Nat /\ Queued(d, Publications) \in Nat
        /\ viz.published \in Nat /\ t.published \in Nat
    BY <1>1, Marks, Numbers DEF Balanced
  <2>2. CASE m.kind = "published"
    <3>1. v.published = viz.published + 1 /\ Queued(c, Publications) = Queued(d, Publications) + 1
      BY <1>2, <2>1, <2>2 DEF In
    <3> QED BY <2>1, <3>1
  <2>3. CASE m.kind = "stopped"
    <3>1. Queued(c, Publications) = Queued(d, Publications) + 0 /\ Queued(c, Publications) = 0
      BY <1>3, <2>1, <2>3 DEF In
    <3>2. viz.published = t.published /\ Queued(d, Publications) = 0
      BY <2>1, <3>1
    <3>3. v.published = t.published
      BY <1>2, <1>3, <2>1, <2>3, <3>2 DEF Larger
    <3> QED BY <2>1, <3>2, <3>3
  <2>4. CASE m.kind \notin {"published", "stopped"}
    BY <1>2, <2>1, <2>4 DEF In
  <2> QED BY <2>2, <2>3, <2>4
<1>5. v.letters + Queued(d, Reports("letter")) = t.letters
  <2>1. /\ Queued(c, Reports("letter")) = Queued(d, Reports("letter")) + In(m.kind, {"letter"})
        /\ viz.letters + Queued(c, Reports("letter")) = t.letters
        /\ Queued(d, Reports("letter")) \in Nat /\ In(m.kind, {"letter"}) \in Nat
        /\ viz.letters \in Nat
    BY <1>1, Marks, Numbers DEF Balanced
  <2> QED BY <1>2, <2>1
<1>6. ASSUME NEW l \in Listeners
      PROVE  /\ v.handled[l] + Queued(d, {Message("completed", l)}) = t.handled[l]
             /\ v.failed[l] + Queued(d, {Message("failed", l)}) = t.failed[l]
             /\ v.inFlight[l] + Queued(d, {Message("started", l)}) =
                  t.cut[l] + h[l] + Queued(d, {Message("completed", l), Message("failed", l)})
  <2> DEFINE S == {Message("started", l)}
             C == {Message("completed", l)}
             F == {Message("failed", l)}
             E == {Message("completed", l), Message("failed", l)}
             one(M) == In(m, M)
  <2>1. /\ viz.handled[l] + Queued(c, C) = t.handled[l]
        /\ viz.failed[l] + Queued(c, F) = t.failed[l]
        /\ viz.inFlight[l] + Queued(c, S) = t.cut[l] + h[l] + Queued(c, E)
    BY DEF Balanced
  <2>2. /\ one(S) = Told(m, {"started"}, l)
        /\ one(C) = Told(m, {"completed"}, l)
        /\ one(F) = Told(m, {"failed"}, l)
        /\ one(E) = Told(m, {"completed", "failed"}, l)
    BY <1>1, Marks
  <2> HIDE DEF S, C, F, E, one
  <2>3. /\ Queued(c, S) = Queued(d, S) + one(S) /\ Queued(c, C) = Queued(d, C) + one(C)
        /\ Queued(c, F) = Queued(d, F) + one(F) /\ Queued(c, E) = Queued(d, E) + one(E)
    BY <1>1 DEF one
  <2>4. /\ Queued(d, S) \in Nat /\ Queued(d, C) \in Nat /\ Queued(d, F) \in Nat /\ Queued(d, E) \in Nat
        /\ one(S) \in Nat /\ one(C) \in Nat /\ one(F) \in Nat /\ one(E) \in Nat
        /\ viz.handled[l] \in Nat /\ viz.failed[l] \in Nat /\ viz.inFlight[l] \in Int
        /\ t.handled[l] \in Nat /\ t.failed[l] \in Nat /\ t.cut[l] \in Nat /\ h[l] \in Nat
    BY <1>1, Numbers DEF one
  <2>5. /\ v.handled[l] = viz.handled[l] + one(C)
        /\ v.failed[l] = viz.failed[l] + one(F)
        /\ v.inFlight[l] = viz.inFlight[l] + one(S) - one(E)
    BY <1>2, <2>2
  <2>6. v.handled[l] + Queued(d, C) = t.handled[l]
    <3>1. viz.handled[l] + Queued(c, C) = t.handled[l]
      BY <2>1
    <3>2. Queued(c, C) = Queued(d, C) + one(C) /\ v.handled[l] = viz.handled[l] + one(C)
      BY <2>3, <2>5
    <3>3. viz.handled[l] \in Nat /\ Queued(d, C) \in Nat /\ one(C) \in Nat
      BY <2>4
    <3> QED BY <3>1, <3>2, <3>3
  <2>7. v.failed[l] + Queued(d, F) = t.failed[l]
    <3>1. viz.failed[l] + Queued(c, F) = t.failed[l]
      BY <2>1
    <3>2. Queued(c, F) = Queued(d, F) + one(F) /\ v.failed[l] = viz.failed[l] + one(F)
      BY <2>3, <2>5
    <3>3. viz.failed[l] \in Nat /\ Queued(d, F) \in Nat /\ one(F) \in Nat
      BY <2>4
    <3> QED BY <3>1, <3>2, <3>3
  <2>8. v.inFlight[l] + Queued(d, S) = t.cut[l] + h[l] + Queued(d, E)
    <3>1. viz.inFlight[l] + Queued(c, S) = t.cut[l] + h[l] + Queued(c, E)
      BY <2>1
    <3>2. /\ Queued(c, S) = Queued(d, S) + one(S) /\ Queued(c, E) = Queued(d, E) + one(E)
          /\ v.inFlight[l] = viz.inFlight[l] + one(S) - one(E)
      BY <2>3, <2>5
    <3>3. /\ viz.inFlight[l] \in Int /\ Queued(d, S) \in Nat /\ Queued(d, E) \in Nat
          /\ one(S) \in Nat /\ one(E) \in Nat /\ t.cut[l] \in Nat /\ h[l] \in Nat
      BY <2>4
    <3> DEFINE g == viz.inFlight[l]
               s == Queued(d, S)
               e == Queued(d, E)
               x == one(S)
               y == one(E)
               a == t.cut[l]
               b == h[l]
    <3>4. /\ g \in Int /\ s \in Nat /\ e \in Nat /\ x \in Nat /\ y \in Nat
          /\ a \in Nat /\ b \in Nat
      BY <3>3
    <3>5. g + (s + x) = a + b + (e + y)
      BY <3>1, <3>2
    <3> HIDE DEF g, s, e, x, y, a, b
    <3>6. (g + x - y) + s = a + b + e
      BY <3>4, <3>5
    <3> QED BY <3>2, <3>6 DEF g, s, e, x, y, a, b
  <2> QED BY <2>6, <2>7, <2>8 DEF S, C, F, E
<1> QED
  BY <1>4, <1>5, <1>6 DEF Balanced, d, m, v

\* What holds of every prefix of the channel holds of those behind the first message.
LEMMA PrefixCounted ==
  ASSUME viz \in Counters, NEW c \in Seq(Messages), c # <<>>, NeverNegative(c, viz)
  PROVE  NeverNegative(Tail(c), Counted(Head(c)))
<1> DEFINE d == Tail(c)
           m == Head(c)
           v == Counted(m)
           n == Len(c)
<1>1. /\ d \in Seq(Messages) /\ m \in Messages /\ n \in Nat \ {0} /\ Len(d) = n - 1
      /\ \A M : \A i \in 0 .. n - 1 : CountIn(c, i + 1, M) = CountIn(d, i, M) + In(m, M)
  BY CountTail
<1>2. \A l \in Listeners :
        v.inFlight[l] = viz.inFlight[l] + Told(m, {"started"}, l)
                          - Told(m, {"completed", "failed"}, l)
  BY <1>1, CountedFields
<1> HIDE DEF d, m, v
<1>3. ASSUME NEW l \in Listeners, NEW i \in 0 .. Len(d)
      PROVE  CountIn(d, i, {Message("completed", l), Message("failed", l)})
               <= v.inFlight[l] + CountIn(d, i, {Message("started", l)})
  <2> DEFINE S == {Message("started", l)}
             E == {Message("completed", l), Message("failed", l)}
  <2>1. i + 1 \in 0 .. n /\ i \in 0 .. n - 1 /\ i \in Nat
    BY <1>1
  <2>2. CountIn(c, i + 1, E) <= viz.inFlight[l] + CountIn(c, i + 1, S)
    BY <2>1 DEF NeverNegative
  <2>3. v.inFlight[l] = viz.inFlight[l] + In(m, S) - In(m, E)
    BY <1>1, <1>2, Marks
  <2> HIDE DEF S, E
  <2>4. /\ CountIn(c, i + 1, S) = CountIn(d, i, S) + In(m, S)
        /\ CountIn(c, i + 1, E) = CountIn(d, i, E) + In(m, E)
    BY <1>1, <2>1
  <2>5. /\ CountIn(d, i, S) \in Nat /\ CountIn(d, i, E) \in Nat
        /\ In(m, S) \in Nat /\ In(m, E) \in Nat
    BY <2>1, CountType DEF In
  <2>6. viz.inFlight[l] \in Int
    BY DEF Counters
  <2>7. CountIn(d, i, E) <= v.inFlight[l] + CountIn(d, i, S)
    BY <2>2, <2>3, <2>4, <2>5, <2>6
  <2> QED BY <2>7 DEF S, E
<1> QED
  BY <1>3 DEF NeverNegative, d, m, v

-----------------------------------------------------------------------------
(* What a step does to the numbers in the balance                          *)

Bit(x, y) == In(x, {y})

\* The sync listener at work stays, or there is none before and after.
SameTurn ==
  UNCHANGED <<simPc, todo>> \/ (simPc # "handling" /\ simPc' # "handling")

LEMMA SyncStays ==
  ASSUME SameTurn
  PROVE  \A l \in Listeners : SyncAtWork(l)' = SyncAtWork(l) /\ SyncAtWork(l) \in Nat
BY DEF SameTurn, SyncAtWork, Turn

\* The handlers at work and the deliveries at work, when one delivery takes a step.
LEMMA OneDelivery ==
  ASSUME SimShape, config' = config, SameTurn,
         tasks' \in [Deliveries -> [pc : TaskStates, retries : Nat]],
         NEW d \in Deliveries, \A x \in Deliveries \ {d} : tasks'[x] = tasks[x]
  PROVE  /\ AtWork \in [Listeners -> Nat] /\ AtWork' \in [Listeners -> Nat]
         /\ \A l \in Listeners :
              AtWork'[l] + Bit(<<tasks[d].pc, d[2]>>, <<"handling", l>>)
                = AtWork[l] + Bit(<<tasks'[d].pc, d[2]>>, <<"handling", l>>)
         /\ Cardinality(InFlightAsync') + In(d, InFlightAsync)
              = Cardinality(InFlightAsync) + In(d, InFlightAsync')
         /\ Cardinality(InFlightAsync) \in Nat /\ Cardinality(InFlightAsync') \in Nat
<1> DEFINE Old(l) == {x \in Deliveries : x[2] = l /\ tasks[x].pc = "handling"}
           New(l) == {x \in Deliveries : x[2] = l /\ tasks'[x].pc = "handling"}
<1>1. /\ DOMAIN tasks = Deliveries /\ DOMAIN tasks' = Deliveries
      /\ IsFiniteSet(Deliveries)
  BY FiniteDeliveries DEF SimShape
<1>2. Listeners' = Listeners /\ Deliveries' = Deliveries
  BY DEF Listeners, Deliveries
<1>s. \A l \in Listeners : SyncAtWork(l)' = SyncAtWork(l) /\ SyncAtWork(l) \in Nat
  BY SyncStays
<1>3. AtWork = [l \in Listeners |-> Cardinality(Old(l)) + SyncAtWork(l)]
  BY DEF AtWork, Handling
<1>4. AtWork' = [l \in Listeners |-> Cardinality(New(l)) + SyncAtWork(l)]
  <2>1. AtWork' = [l \in Listeners |-> Cardinality(New(l)) + SyncAtWork(l)']
    BY <1>2 DEF AtWork, Handling
  <2> QED BY <1>s, <2>1
<1>5. ASSUME NEW l \in Listeners
      PROVE  /\ Cardinality(New(l)) + In(d, Old(l)) = Cardinality(Old(l)) + In(d, New(l))
             /\ Cardinality(New(l)) \in Nat /\ Cardinality(Old(l)) \in Nat
  <2>1. IsFiniteSet(Old(l))
    BY <1>1, FS_Subset
  <2>2. New(l) \ {d} = Old(l) \ {d}
    OBVIOUS
  <2> HIDE DEF Old, New
  <2> QED BY <2>1, <2>2, OneMore
<1>6. ASSUME NEW l \in Listeners
      PROVE  /\ In(d, Old(l)) = Bit(<<tasks[d].pc, d[2]>>, <<"handling", l>>)
             /\ In(d, New(l)) = Bit(<<tasks'[d].pc, d[2]>>, <<"handling", l>>)
  BY DEF In, Bit
<1>7. /\ Cardinality(InFlightAsync') + In(d, InFlightAsync)
              = Cardinality(InFlightAsync) + In(d, InFlightAsync')
      /\ Cardinality(InFlightAsync) \in Nat /\ Cardinality(InFlightAsync') \in Nat
  <2>1. IsFiniteSet(InFlightAsync)
    BY <1>1, FS_Subset DEF InFlightAsync
  <2>2. InFlightAsync' \ {d} = InFlightAsync \ {d}
    BY <1>1 DEF InFlightAsync, IsDone
  <2> QED BY <2>1, <2>2, OneMore
<1> HIDE DEF Old, New
<1>8. ASSUME NEW l \in Listeners
      PROVE  /\ AtWork[l] \in Nat /\ AtWork'[l] \in Nat
             /\ AtWork'[l] + Bit(<<tasks[d].pc, d[2]>>, <<"handling", l>>)
                  = AtWork[l] + Bit(<<tasks'[d].pc, d[2]>>, <<"handling", l>>)
  <2> DEFINE a == Cardinality(Old(l))
             b == Cardinality(New(l))
             i == In(d, Old(l))
             j == In(d, New(l))
             n == SyncAtWork(l)
  <2>1. AtWork[l] = a + n /\ AtWork'[l] = b + n /\ a \in Nat /\ b \in Nat /\ n \in Nat
    BY <1>s, <1>3, <1>4, <1>5
  <2>2. b + i = a + j /\ i \in Nat /\ j \in Nat
    BY <1>5 DEF In
  <2>3. /\ i = Bit(<<tasks[d].pc, d[2]>>, <<"handling", l>>)
        /\ j = Bit(<<tasks'[d].pc, d[2]>>, <<"handling", l>>)
    BY <1>6
  <2> HIDE DEF a, b, i, j, n
  <2>4. (b + n) + i = (a + n) + j /\ a + n \in Nat /\ b + n \in Nat
    BY <2>1, <2>2
  <2> QED BY <2>1, <2>3, <2>4
<1>9. AtWork \in [Listeners -> Nat] /\ AtWork' \in [Listeners -> Nat]
  BY <1>3, <1>4, <1>8
<1> QED
  BY <1>7, <1>8, <1>9

\* One more of what is recorded about a listener.
Rises(u, what, l) ==
  /\ u \in History /\ u.published = truth.published /\ u.letters = truth.letters
  /\ \A x \in Listeners :
       /\ u.handled[x] = truth.handled[x] + Bit(<<what, l>>, <<"completed", x>>)
       /\ u.failed[x] = truth.failed[x] + Bit(<<what, l>>, <<"failed", x>>)
       /\ u.cut[x] = truth.cut[x] + Bit(<<what, l>>, <<"cut", x>>)

LEMMA Rising ==
  ASSUME truth \in History, NEW l \in Listeners
  PROVE  /\ Rises([truth EXCEPT !.handled[l] = @ + 1], "completed", l)
         /\ Rises([truth EXCEPT !.failed[l] = @ + 1], "failed", l)
         /\ Rises([truth EXCEPT !.cut[l] = @ + 1], "cut", l)
<1>1. \A f \in [Listeners -> Nat] : \A x \in Listeners :
        [f EXCEPT ![l] = @ + 1][x] = f[x] + Bit(l, x)
  <2>1. \A f \in [Listeners -> Nat] : \A x \in Listeners :
          [f EXCEPT ![l] = @ + 1][x] = f[x] + In(x, {l})
    BY Raise
  <2>2. \A x : In(x, {l}) = Bit(l, x)
    BY DEF Bit, In
  <2> QED BY <2>1, <2>2
<1>2. \A x : /\ Bit(<<"completed", l>>, <<"completed", x>>) = Bit(l, x)
             /\ Bit(<<"completed", l>>, <<"failed", x>>) = 0 /\ Bit(<<"completed", l>>, <<"cut", x>>) = 0
             /\ Bit(<<"failed", l>>, <<"failed", x>>) = Bit(l, x)
             /\ Bit(<<"failed", l>>, <<"completed", x>>) = 0 /\ Bit(<<"failed", l>>, <<"cut", x>>) = 0
             /\ Bit(<<"cut", l>>, <<"cut", x>>) = Bit(l, x)
             /\ Bit(<<"cut", l>>, <<"completed", x>>) = 0 /\ Bit(<<"cut", l>>, <<"failed", x>>) = 0
  BY DEF Bit, In
<1>3. /\ truth.handled \in [Listeners -> Nat] /\ truth.failed \in [Listeners -> Nat]
      /\ truth.cut \in [Listeners -> Nat]
      /\ \A x \in Listeners : /\ truth.handled[x] + 0 = truth.handled[x]
                              /\ truth.failed[x] + 0 = truth.failed[x]
                              /\ truth.cut[x] + 0 = truth.cut[x]
  BY DEF History
<1>4. ASSUME NEW u \in History,
             u.handled = [truth.handled EXCEPT ![l] = @ + 1],
             u.failed = truth.failed, u.cut = truth.cut,
             u.published = truth.published, u.letters = truth.letters
      PROVE  Rises(u, "completed", l)
  BY <1>1, <1>2, <1>3, <1>4 DEF Rises
<1>5. ASSUME NEW u \in History,
             u.failed = [truth.failed EXCEPT ![l] = @ + 1],
             u.handled = truth.handled, u.cut = truth.cut,
             u.published = truth.published, u.letters = truth.letters
      PROVE  Rises(u, "failed", l)
  BY <1>1, <1>2, <1>3, <1>5 DEF Rises
<1>6. ASSUME NEW u \in History,
             u.cut = [truth.cut EXCEPT ![l] = @ + 1],
             u.handled = truth.handled, u.failed = truth.failed,
             u.published = truth.published, u.letters = truth.letters
      PROVE  Rises(u, "cut", l)
  BY <1>1, <1>2, <1>3, <1>6 DEF Rises
<1>7. Rises([truth EXCEPT !.handled[l] = @ + 1], "completed", l)
  <2> DEFINE u == [truth EXCEPT !.handled[l] = @ + 1]
  <2>1. /\ u.handled = [truth.handled EXCEPT ![l] = @ + 1]
        /\ u.failed = truth.failed /\ u.cut = truth.cut
        /\ u.published = truth.published /\ u.letters = truth.letters
    BY DEF History
  <2>2. u \in History
    BY Recording
  <2> HIDE DEF u
  <2>3. Rises(u, "completed", l)
    BY <1>4, <2>1, <2>2
  <2> QED BY <2>3 DEF u
<1>8. Rises([truth EXCEPT !.failed[l] = @ + 1], "failed", l)
  <2> DEFINE u == [truth EXCEPT !.failed[l] = @ + 1]
  <2>1. /\ u.failed = [truth.failed EXCEPT ![l] = @ + 1]
        /\ u.handled = truth.handled /\ u.cut = truth.cut
        /\ u.published = truth.published /\ u.letters = truth.letters
    BY DEF History
  <2>2. u \in History
    BY Recording
  <2> HIDE DEF u
  <2>3. Rises(u, "failed", l)
    BY <1>5, <2>1, <2>2
  <2> QED BY <2>3 DEF u
<1>9. Rises([truth EXCEPT !.cut[l] = @ + 1], "cut", l)
  <2> DEFINE u == [truth EXCEPT !.cut[l] = @ + 1]
  <2>1. /\ u.cut = [truth.cut EXCEPT ![l] = @ + 1]
        /\ u.handled = truth.handled /\ u.failed = truth.failed
        /\ u.published = truth.published /\ u.letters = truth.letters
    BY DEF History
  <2>2. u \in History
    BY Recording
  <2> HIDE DEF u
  <2>3. Rises(u, "cut", l)
    BY <1>6, <2>1, <2>2
  <2> QED BY <2>3 DEF u
<1> QED
  BY <1>7, <1>8, <1>9

-----------------------------------------------------------------------------
(* The balance, step by step                                               *)

Sound(c, v, t, h) == Balanced(c, v, t, h) /\ NeverNegative(c, v)

\* A message that says what happened.
LEMMA SoundSent ==
  ASSUME NEW c \in Seq(Messages), NEW m \in Messages, NEW v \in Counters,
         NEW t \in History, NEW u \in History,
         NEW h \in [Listeners -> Nat], NEW k \in [Listeners -> Nat],
         Sound(c, v, t, h),
         u.published = t.published + In(m.kind, {"published"}),
         u.letters = t.letters + In(m.kind, {"letter"}),
         \A l \in Listeners :
           /\ u.handled[l] = t.handled[l] + Told(m, {"completed"}, l)
           /\ u.failed[l] = t.failed[l] + Told(m, {"failed"}, l)
           /\ u.cut[l] + k[l] + Told(m, {"completed", "failed"}, l)
                = t.cut[l] + h[l] + Told(m, {"started"}, l)
  PROVE  Sound(Append(c, m), v, u, k)
<1>1. Balanced(Append(c, m), v, u, k)
  BY BalanceSent DEF Sound
<1> QED
  BY <1>1, PrefixSent DEF Sound

\* What was cut short moves from the handlers at work to the history.
LEMMA SoundStays ==
  ASSUME NEW c, NEW v, NEW t, NEW u, NEW h, NEW k,
         Sound(c, v, t, h), u.published = t.published, u.letters = t.letters,
         \A l \in Listeners :
           /\ u.handled[l] = t.handled[l] /\ u.failed[l] = t.failed[l]
           /\ u.cut[l] + k[l] = t.cut[l] + h[l]
  PROVE  Sound(c, v, u, k)
BY DEF Sound, Balanced

\* A handler that starts is at work, one that ends no longer is.
Moves(kind, was, is) ==
  \/ kind = "started" /\ was # "handling" /\ is = "handling"
  \/ kind \in {"completed", "failed"} /\ was = "handling" /\ is # "handling"
  \/ kind = "letter" /\ was # "handling" /\ is # "handling"

\* A report of l: what is recorded of it, u after t, and who is at work, k after h.
Reported(kind, l, t, u, h, k, was, is) ==
  /\ Moves(kind, was, is)
  /\ u.published = t.published /\ u.letters = t.letters + Bit(kind, "letter")
  /\ \A x \in Listeners :
       /\ u.handled[x] = t.handled[x] + Bit(<<kind, l>>, <<"completed", x>>)
       /\ u.failed[x] = t.failed[x] + Bit(<<kind, l>>, <<"failed", x>>)
       /\ u.cut[x] = t.cut[x]
       /\ k[x] + Bit(<<was, l>>, <<"handling", x>>) = h[x] + Bit(<<is, l>>, <<"handling", x>>)

\* A listener's report of something that was recorded.
LEMMA SoundReport ==
  ASSUME NEW c \in Seq(Messages), NEW v \in Counters, NEW t \in History, NEW u \in History,
         NEW h \in [Listeners -> Nat], NEW k \in [Listeners -> Nat], NEW l \in Listeners,
         NEW kind \in {"started", "completed", "failed", "letter"}, NEW was, NEW is,
         Sound(c, v, t, h), Reported(kind, l, t, u, h, k, was, is)
  PROVE  Sound(Append(c, Message(kind, l)), v, u, k)
<1>0. /\ Moves(kind, was, is)
      /\ u.published = t.published /\ u.letters = t.letters + Bit(kind, "letter")
      /\ \A x \in Listeners :
           /\ u.handled[x] = t.handled[x] + Bit(<<kind, l>>, <<"completed", x>>)
           /\ u.failed[x] = t.failed[x] + Bit(<<kind, l>>, <<"failed", x>>)
           /\ u.cut[x] = t.cut[x]
           /\ k[x] + Bit(<<was, l>>, <<"handling", x>>) = h[x] + Bit(<<is, l>>, <<"handling", x>>)
  BY DEF Reported
<1> DEFINE m == Message(kind, l)
<1>1. m \in Messages /\ m.kind = kind /\ m.listener = l
  BY DEF Messages, Reports, Message
<1> HIDE DEF m
<1>2. /\ u.published = t.published + In(m.kind, {"published"})
      /\ u.letters = t.letters + In(m.kind, {"letter"})
  <2>1. In(m.kind, {"published"}) = 0 /\ In(m.kind, {"letter"}) = Bit(kind, "letter")
    BY <1>1 DEF In, Bit
  <2>2. t.published \in Nat
    BY DEF History
  <2> QED BY <1>0, <2>1, <2>2
<1>3. ASSUME NEW x \in Listeners
      PROVE  /\ u.handled[x] = t.handled[x] + Told(m, {"completed"}, x)
             /\ u.failed[x] = t.failed[x] + Told(m, {"failed"}, x)
  <2>1. /\ Told(m, {"completed"}, x) = Bit(<<kind, l>>, <<"completed", x>>)
        /\ Told(m, {"failed"}, x) = Bit(<<kind, l>>, <<"failed", x>>)
    BY <1>1 DEF Told, Bit, In
  <2> QED BY <1>0, <2>1
<1>4. ASSUME NEW x \in Listeners
      PROVE  u.cut[x] + k[x] + Told(m, {"completed", "failed"}, x)
                = t.cut[x] + h[x] + Told(m, {"started"}, x)
  <2>1. u.cut[x] = t.cut[x] /\ t.cut[x] \in Nat /\ k[x] \in Nat /\ h[x] \in Nat
    BY <1>0 DEF History
  <2>2. k[x] + Bit(<<was, l>>, <<"handling", x>>) = h[x] + Bit(<<is, l>>, <<"handling", x>>)
    BY <1>0
  <2>3. CASE kind = "started"
    <3>1. /\ Bit(<<was, l>>, <<"handling", x>>) = 0
          /\ Bit(<<is, l>>, <<"handling", x>>) = Told(m, {"started"}, x)
          /\ Told(m, {"completed", "failed"}, x) = 0 /\ Told(m, {"started"}, x) \in Nat
      BY <1>0, <1>1, <2>3 DEF Moves, Bit, In, Told
    <3> QED BY <2>1, <2>2, <3>1
  <2>4. CASE kind \in {"completed", "failed"}
    <3>1. /\ Bit(<<was, l>>, <<"handling", x>>) = Told(m, {"completed", "failed"}, x)
          /\ Bit(<<is, l>>, <<"handling", x>>) = 0
          /\ Told(m, {"started"}, x) = 0 /\ Told(m, {"completed", "failed"}, x) \in Nat
      BY <1>0, <1>1, <2>4 DEF Moves, Bit, In, Told
    <3> QED BY <2>1, <2>2, <3>1
  <2>5. CASE kind = "letter"
    <3>1. /\ Bit(<<was, l>>, <<"handling", x>>) = 0 /\ Bit(<<is, l>>, <<"handling", x>>) = 0
          /\ Told(m, {"started"}, x) = 0 /\ Told(m, {"completed", "failed"}, x) = 0
      BY <1>0, <1>1, <2>5 DEF Moves, Bit, In, Told
    <3> QED BY <2>1, <2>2, <3>1
  <2> QED BY <2>3, <2>4, <2>5
<1>5. Sound(Append(c, m), v, u, k)
  BY <1>1, <1>2, <1>3, <1>4, SoundSent
<1> QED
  BY <1>5 DEF m

\* A delivery tells what it does, and what it does not tell is cut short.
LEMMA DeliverySound ==
  ASSUME SimShape, collector, Sound(channel, viz, truth, AtWork),
         NEW d \in Deliveries, Delivery(d)
  PROVE  Sound(channel', viz, truth', AtWork')
<1> DEFINE l == d[2]
           was == tasks[d].pc
           is == tasks'[d].pc
<1>1. /\ channel \in Seq(Messages) /\ viz \in Counters /\ truth \in History
      /\ tasks[d] \in [pc : TaskStates, retries : Nat] /\ DOMAIN tasks = Deliveries
      /\ l \in Listeners /\ truth' \in History
      /\ config' = config /\ tasks' \in [Deliveries -> [pc : TaskStates, retries : Nat]]
  <2>1. SimShape'
    BY DeliveryKeepsShape
  <2>2. config' = config /\ Listeners' = Listeners /\ Deliveries' = Deliveries
    BY DeliveryAtWork DEF Listeners, Deliveries
  <2>3. History' = History
    BY <2>2 DEF History
  <2> QED BY <2>1, <2>2, <2>3 DEF SimShape, Deliveries
<1>2. /\ AtWork \in [Listeners -> Nat] /\ AtWork' \in [Listeners -> Nat]
      /\ \A x \in Listeners :
           AtWork'[x] + Bit(<<was, l>>, <<"handling", x>>)
             = AtWork[x] + Bit(<<is, l>>, <<"handling", x>>)
  BY <1>1, OneDelivery, DeliveryAtWork DEF SameTurn
<1>3. /\ truth.letters \in Nat
      /\ \A x \in Listeners : /\ truth.handled[x] \in Nat /\ truth.failed[x] \in Nat
                              /\ truth.cut[x] \in Nat
                              /\ truth.handled[x] + 0 = truth.handled[x]
                              /\ truth.failed[x] + 0 = truth.failed[x]
                              /\ truth.cut[x] + 0 = truth.cut[x]
  <2>1. /\ truth.letters \in Nat
        /\ \A x \in Listeners : /\ truth.handled[x] \in Nat /\ truth.failed[x] \in Nat
                                /\ truth.cut[x] \in Nat
    BY <1>1 DEF History
  <2>2. \A n \in Nat : n + 0 = n
    OBVIOUS
  <2> QED BY <2>1, <2>2
<1>4. \A kind, other, x : kind # other => Bit(<<kind, l>>, <<other, x>>) = 0
  BY DEF Bit, In
<1>5. ASSUME NEW kind \in {"started", "completed", "failed", "letter"},
             Send(<<Message(kind, l)>>), Moves(kind, was, is),
             truth'.published = truth.published,
             truth'.letters = truth.letters + Bit(kind, "letter"),
             \A x \in Listeners :
               /\ truth'.handled[x] = truth.handled[x] + Bit(<<kind, l>>, <<"completed", x>>)
               /\ truth'.failed[x] = truth.failed[x] + Bit(<<kind, l>>, <<"failed", x>>)
               /\ truth'.cut[x] = truth.cut[x]
      PROVE  Sound(channel', viz, truth', AtWork')
  <2>1. channel' = Append(channel, Message(kind, l))
    <3>1. Message(kind, l) \in Messages
      BY <1>1 DEF Messages, Reports, Message
    <3> QED BY <1>1, <1>5, <3>1, Sending
  <2> DEFINE u == truth'
             k == AtWork'
             h == AtWork
  <2>2. Reported(kind, l, truth, u, h, k, was, is)
    BY <1>2, <1>5 DEF Reported
  <2>3. /\ channel \in Seq(Messages) /\ viz \in Counters /\ truth \in History /\ u \in History
        /\ h \in [Listeners -> Nat] /\ k \in [Listeners -> Nat] /\ Sound(channel, viz, truth, h)
        /\ l \in Listeners
    BY <1>1, <1>2
  <2> HIDE DEF l, was, is, u, k, h
  <2>4. Sound(Append(channel, Message(kind, l)), viz, u, k)
    BY <2>2, <2>3, SoundReport
  <2> QED BY <2>1, <2>4 DEF u, k
<1>6. ASSUME NEW what \in {"completed", "failed"}, Rises(truth', what, l)
      PROVE  /\ truth'.published = truth.published /\ truth'.letters = truth.letters + Bit(what, "letter")
             /\ \A x \in Listeners :
                  /\ truth'.handled[x] = truth.handled[x] + Bit(<<what, l>>, <<"completed", x>>)
                  /\ truth'.failed[x] = truth.failed[x] + Bit(<<what, l>>, <<"failed", x>>)
                  /\ truth'.cut[x] = truth.cut[x]
  <2>1. Bit(what, "letter") = 0 /\ truth.letters + 0 = truth.letters
    BY <1>3 DEF Bit, In
  <2>2. ASSUME NEW x \in Listeners
        PROVE  /\ truth'.handled[x] = truth.handled[x] + Bit(<<what, l>>, <<"completed", x>>)
               /\ truth'.failed[x] = truth.failed[x] + Bit(<<what, l>>, <<"failed", x>>)
               /\ truth'.cut[x] = truth.cut[x]
    <3>1. Bit(<<what, l>>, <<"cut", x>>) = 0
      BY <1>4
    <3>2. truth'.cut[x] = truth.cut[x] + Bit(<<what, l>>, <<"cut", x>>)
      BY <1>6 DEF Rises
    <3>3. truth'.cut[x] = truth.cut[x]
      BY <1>3, <3>1, <3>2
    <3> QED BY <1>6, <3>3 DEF Rises
  <2> QED BY <1>6, <2>1, <2>2 DEF Rises
<1>7. AfterFailure(d) => is \in {"waiting", "letter", "finished"}
  BY <1>1 DEF AfterFailure
<1>8. CASE Begin(d)
  <2>1. Send(<<Message("started", l)>>) /\ truth' = truth /\ Moves("started", was, is)
    BY <1>1, <1>8 DEF Begin, Set, Moves
  <2>2. Bit("started", "letter") = 0
    BY DEF Bit, In
  <2>3. \A x \in Listeners :
               /\ truth'.handled[x] = truth.handled[x] + Bit(<<"started", l>>, <<"completed", x>>)
               /\ truth'.failed[x] = truth.failed[x] + Bit(<<"started", l>>, <<"failed", x>>)
               /\ truth'.cut[x] = truth.cut[x]
    BY <1>3, <1>4, <2>1
  <2> QED BY <1>3, <1>5, <2>1, <2>2, <2>3
<1>9. CASE Complete(d)
  <2>1. Send(<<Message("completed", l)>>) /\ Moves("completed", was, is)
    BY <1>1, <1>9 DEF Complete, Set, Moves
  <2>2. Rises(truth', "completed", l)
    BY <1>1, <1>9, Rising DEF Complete, Count
  <2> QED BY <1>5, <1>6, <2>1, <2>2
<1>10. CASE Fail(d)
  <2>1. Send(<<Message("failed", l)>>) /\ Moves("failed", was, is)
    BY <1>1, <1>7, <1>10 DEF Fail, Moves
  <2>2. Rises(truth', "failed", l)
    BY <1>1, <1>10, Rising DEF Fail, Count
  <2> QED BY <1>5, <1>6, <2>1, <2>2
<1>11. CASE TimeOut(d)
  <2>1. /\ channel' = channel /\ Rises(truth', "cut", l)
        /\ was = "handling" /\ is # "handling"
    BY <1>1, <1>7, <1>11, Rising DEF TimeOut, Count
  <2>2. ASSUME NEW x \in Listeners PROVE truth'.cut[x] + AtWork'[x] = truth.cut[x] + AtWork[x]
    <3>1. truth'.cut[x] = truth.cut[x] + Bit(<<"cut", l>>, <<"cut", x>>)
      BY <2>1 DEF Rises
    <3>2. AtWork'[x] + Bit(<<was, l>>, <<"handling", x>>)
            = AtWork[x] + Bit(<<is, l>>, <<"handling", x>>)
      BY <1>2
    <3>3. /\ Bit(<<is, l>>, <<"handling", x>>) = 0
          /\ Bit(<<"cut", l>>, <<"cut", x>>) = Bit(<<was, l>>, <<"handling", x>>)
          /\ Bit(<<was, l>>, <<"handling", x>>) \in Nat
      BY <2>1 DEF Bit, In
    <3>4. AtWork'[x] \in Nat /\ AtWork[x] \in Nat /\ truth.cut[x] \in Nat
      BY <1>2, <1>3
    <3> HIDE DEF was, is, l
    <3> QED BY <3>1, <3>2, <3>3, <3>4
  <2>3. /\ truth'.published = truth.published /\ truth'.letters = truth.letters
        /\ \A x \in Listeners : truth'.handled[x] = truth.handled[x] /\ truth'.failed[x] = truth.failed[x]
    <3>1. ASSUME NEW x \in Listeners
          PROVE  truth'.handled[x] = truth.handled[x] /\ truth'.failed[x] = truth.failed[x]
      <4>1. Bit(<<"cut", l>>, <<"completed", x>>) = 0 /\ Bit(<<"cut", l>>, <<"failed", x>>) = 0
        BY <1>4
      <4>2. /\ truth'.handled[x] = truth.handled[x] + Bit(<<"cut", l>>, <<"completed", x>>)
            /\ truth'.failed[x] = truth.failed[x] + Bit(<<"cut", l>>, <<"failed", x>>)
        BY <2>1 DEF Rises
      <4> QED BY <1>3, <4>1, <4>2
    <3> QED BY <2>1, <3>1 DEF Rises
  <2>4. Sound(channel, viz, truth', AtWork')
    BY <2>2, <2>3, SoundStays
  <2> QED BY <2>1, <2>4
<1>12. CASE Letter(d)
  <2>1. /\ Send(<<Message("letter", l)>>) /\ truth' = [truth EXCEPT !.letters = @ + 1]
        /\ Moves("letter", was, is)
    BY <1>1, <1>12 DEF Letter, Set, Moves
  <2>2. Bit("letter", "letter") = 1
    BY DEF Bit, In
  <2>3. /\ truth'.handled = truth.handled /\ truth'.failed = truth.failed
        /\ truth'.cut = truth.cut /\ truth'.published = truth.published
        /\ truth'.letters = truth.letters + 1
    BY <1>1, <2>1 DEF History
  <2>4. \A x \in Listeners :
               /\ truth'.handled[x] = truth.handled[x] + Bit(<<"letter", l>>, <<"completed", x>>)
               /\ truth'.failed[x] = truth.failed[x] + Bit(<<"letter", l>>, <<"failed", x>>)
               /\ truth'.cut[x] = truth.cut[x]
    BY <1>3, <1>4, <2>3
  <2> QED BY <1>5, <2>1, <2>2, <2>3, <2>4
<1> QED
  BY <1>8, <1>9, <1>10, <1>11, <1>12 DEF Delivery

\* Nobody's work begins or ends in a step that leaves the deliveries alone.
LEMMA SameWork ==
  ASSUME SimShape, config' = config, tasks' = tasks, SameTurn
  PROVE  AtWork' = AtWork /\ AtWork \in [Listeners -> Nat] /\ InFlightAsync' = InFlightAsync
<1>1. Listeners' = Listeners /\ Deliveries' = Deliveries
  BY DEF Listeners, Deliveries
<1>2. AtWork' = AtWork
  <2>1. \A l \in Listeners : Handling(l)' = Handling(l) /\ SyncAtWork(l)' = SyncAtWork(l)
    BY <1>1, SyncStays DEF Handling
  <2> QED BY <1>1, <2>1 DEF AtWork
<1>3. ASSUME NEW l \in Listeners PROVE Handling(l) + SyncAtWork(l) \in Nat
  <2>1. IsFiniteSet({d \in Deliveries : d[2] = l /\ tasks[d].pc = "handling"})
    BY FiniteDeliveries, FS_Subset DEF SimShape
  <2>2. Handling(l) \in Nat
    BY <2>1, FS_CardinalityType DEF Handling
  <2>3. SyncAtWork(l) \in Nat
    BY SyncStays
  <2> QED BY <2>2, <2>3
<1>4. AtWork \in [Listeners -> Nat]
  BY <1>3 DEF AtWork
<1> QED
  BY <1>2, <1>4 DEF InFlightAsync, IsDone

\* The deliveries of an event that is published now were not there before.
LEMMA PublishSound ==
  ASSUME SimShape, DeliveriesBegun, Sound(channel, viz, truth, AtWork), PublishEvent
  PROVE  Sound(channel', viz, truth', AtWork')
<1>1. /\ DOMAIN tasks = Deliveries /\ truth \in History /\ seq \in Nat
      /\ config' = config /\ channel' = channel /\ seq' = seq + 1
      /\ truth' = [truth EXCEPT !.begun = @ + Cardinality(Answering("async", Head(batch)))]
  BY DEF SimShape, PublishEvent
<1>2. Listeners' = Listeners /\ Deliveries' = Deliveries
  BY <1>1 DEF Listeners, Deliveries
<1>3. ASSUME NEW d \in Deliveries PROVE tasks'[d].pc = "handling" <=> tasks[d].pc = "handling"
  <2>1. CASE d[1] = seq' /\ d[2] \in Answering("async", Head(batch))
    <3>1. tasks'[d].pc = "waiting"
      BY <1>1, <2>1 DEF PublishEvent
    <3>2. tasks[d].pc = "none"
      BY <1>1, <2>1 DEF DeliveriesBegun
    <3> QED BY <3>1, <3>2
  <2>2. CASE ~(d[1] = seq' /\ d[2] \in Answering("async", Head(batch)))
    BY <1>1, <2>2 DEF PublishEvent
  <2> QED BY <2>1, <2>2
<1>4. \A l : Handling(l)' = Handling(l)
  <2> SUFFICES ASSUME NEW l PROVE Handling(l)' = Handling(l)
    OBVIOUS
  <2>1. {d \in Deliveries : d[2] = l /\ tasks'[d].pc = "handling"}
          = {d \in Deliveries : d[2] = l /\ tasks[d].pc = "handling"}
    BY <1>3
  <2> QED BY <1>2, <2>1 DEF Handling
<1>5. AtWork' = AtWork
  <2>1. \A l \in Listeners : SyncAtWork(l)' = SyncAtWork(l)
    BY SyncStays DEF SameTurn, PublishEvent, GoTo
  <2> QED BY <1>2, <1>4, <2>1 DEF AtWork
<1>6. /\ truth'.published = truth.published /\ truth'.letters = truth.letters
      /\ truth'.handled = truth.handled /\ truth'.failed = truth.failed /\ truth'.cut = truth.cut
  BY <1>1 DEF History
<1>7. Sound(channel, viz, truth', AtWork)
  <2> DEFINE u == truth'
             h == AtWork
  <2>1. /\ Sound(channel, viz, truth, h)
        /\ u.published = truth.published /\ u.letters = truth.letters
        /\ \A l \in Listeners : /\ u.handled[l] = truth.handled[l] /\ u.failed[l] = truth.failed[l]
                                /\ u.cut[l] + h[l] = truth.cut[l] + h[l]
    BY <1>6
  <2> HIDE DEF u, h
  <2>2. Sound(channel, viz, u, h)
    BY <2>1, SoundStays
  <2> QED BY <2>2 DEF u, h
<1> QED
  BY <1>1, <1>5, <1>7

\* A sync listener is at work between its two reports.
SyncMoves(l, was, is) ==
  \/ StartSync(l) /\ was = "waiting" /\ is = "handling"
  \/ EndSync(l) /\ was = "handling" /\ is = "finished"

LEMMA SyncWork ==
  ASSUME SimShape, NEW l \in Listeners, NEW was, NEW is, SyncMoves(l, was, is)
  PROVE  /\ AtWork \in [Listeners -> Nat] /\ AtWork' \in [Listeners -> Nat]
         /\ \A x \in Listeners :
              AtWork'[x] + Bit(<<was, l>>, <<"handling", x>>)
                = AtWork[x] + Bit(<<is, l>>, <<"handling", x>>)
<1>1. /\ config' = config /\ tasks' = tasks /\ Turn(l) /\ config \in Configs
      /\ StartSync(l) => simPc = "publishing" /\ simPc' = "handling" /\ todo' = todo
      /\ EndSync(l) => simPc = "handling" /\ simPc' # "handling"
  BY DEF SimShape, SyncMoves, StartSync, EndSync, GoTo
<1>2. Listeners' = Listeners /\ Deliveries' = Deliveries /\ Listeners \subseteq Nat
  BY <1>1, FiniteDeliveries DEF Listeners, Deliveries
<1>3. ASSUME NEW x \in Listeners
      PROVE  /\ Handling(x)' = Handling(x) /\ Handling(x) \in Nat
             /\ SyncAtWork(x) = Bit(<<was, l>>, <<"handling", x>>)
             /\ SyncAtWork(x)' = Bit(<<is, l>>, <<"handling", x>>)
  <2>1. Handling(x)' = Handling(x)
    BY <1>1, <1>2 DEF Handling
  <2>2. Handling(x) \in Nat
    <3>1. IsFiniteSet({d \in Deliveries : d[2] = x /\ tasks[d].pc = "handling"})
      BY FiniteDeliveries, FS_Subset DEF SimShape
    <3> QED BY <3>1, FS_CardinalityType DEF Handling
  <2>3. Turn(x) <=> x = l
    BY <1>1, <1>2 DEF Turn
  <2>4. StartSync(l) => (Turn(x)' <=> x = l)
    BY <1>1, <2>3 DEF Turn
  <2> QED BY <1>1, <2>1, <2>2, <2>3, <2>4 DEF SyncMoves, SyncAtWork, Bit, In
<1>4. \A x \in Listeners : /\ AtWork[x] = Handling(x) + Bit(<<was, l>>, <<"handling", x>>)
                           /\ AtWork'[x] = Handling(x) + Bit(<<is, l>>, <<"handling", x>>)
  BY <1>2, <1>3 DEF AtWork
<1>5. ASSUME NEW x \in Listeners
      PROVE  /\ AtWork[x] \in Nat /\ AtWork'[x] \in Nat
             /\ AtWork'[x] + Bit(<<was, l>>, <<"handling", x>>)
                  = AtWork[x] + Bit(<<is, l>>, <<"handling", x>>)
  <2> DEFINE n == Handling(x)
             i == Bit(<<was, l>>, <<"handling", x>>)
             j == Bit(<<is, l>>, <<"handling", x>>)
  <2>1. n \in Nat /\ i \in Nat /\ j \in Nat /\ AtWork[x] = n + i /\ AtWork'[x] = n + j
    BY <1>3, <1>4 DEF Bit, In
  <2> HIDE DEF n, i, j
  <2> QED BY <2>1 DEF i, j
<1> QED
  BY <1>2, <1>5 DEF AtWork

\* What a sync listener reports, before its work and after it.
LEMMA SyncSound ==
  ASSUME SimShape, collector, Sound(channel, viz, truth, AtWork),
         NEW l \in Listeners, StartSync(l) \/ EndSync(l)
  PROVE  Sound(channel', viz, truth', AtWork')
<1>1. channel \in Seq(Messages) /\ viz \in Counters /\ truth \in History
  BY DEF SimShape
<1>2. /\ \A x \in Listeners : /\ truth.handled[x] \in Nat /\ truth.handled[x] + 0 = truth.handled[x]
                              /\ truth.failed[x] \in Nat /\ truth.failed[x] + 0 = truth.failed[x]
                              /\ truth.cut[x] \in Nat /\ truth.cut[x] + 0 = truth.cut[x]
      /\ truth.letters \in Nat /\ truth.letters + 0 = truth.letters
  <2>1. /\ \A x \in Listeners : truth.handled[x] \in Nat /\ truth.failed[x] \in Nat /\ truth.cut[x] \in Nat
        /\ truth.letters \in Nat
    BY <1>1 DEF History
  <2> QED BY <2>1
<1>3. \A a, b, x : a # b => Bit(<<a, l>>, <<b, x>>) = 0
  BY DEF Bit, In
<1>4. PICK kind \in {"started", "completed", "failed"}, was \in {"waiting", "handling"},
           is \in {"handling", "finished"} :
        /\ Send(<<Message(kind, l)>>) /\ Moves(kind, was, is)
        /\ \/ StartSync(l) /\ kind = "started" /\ was = "waiting" /\ is = "handling"
           \/ EndSync(l) /\ Rises(truth', kind, l) /\ was = "handling" /\ is = "finished"
  <2>1. CASE StartSync(l)
    BY <2>1 DEF StartSync, Moves
  <2>2. CASE EndSync(l)
    <3>1. PICK kind \in {"completed", "failed"} : Send(<<Message(kind, l)>>) /\ Rises(truth', kind, l)
      BY <1>1, <2>2, Rising DEF EndSync, Count
    <3>2. Moves(kind, "handling", "finished")
      BY DEF Moves
    <3> QED BY <2>2, <3>1, <3>2
  <2> QED BY <2>1, <2>2
<1>5. /\ truth' \in History /\ truth'.published = truth.published /\ truth'.letters = truth.letters
      /\ \A x \in Listeners :
           /\ truth'.handled[x] = truth.handled[x] + Bit(<<kind, l>>, <<"completed", x>>)
           /\ truth'.failed[x] = truth.failed[x] + Bit(<<kind, l>>, <<"failed", x>>)
           /\ truth'.cut[x] = truth.cut[x]
  <2>1. CASE StartSync(l) /\ kind = "started"
    <3>1. truth' = [truth EXCEPT !.begun = @ + 1] /\ truth' \in History
      BY <1>1, <2>1, Recorded DEF StartSync
    <3>2. /\ truth'.published = truth.published /\ truth'.letters = truth.letters
          /\ truth'.handled = truth.handled /\ truth'.failed = truth.failed /\ truth'.cut = truth.cut
      BY <1>1, <3>1 DEF History
    <3> QED BY <1>2, <1>3, <2>1, <3>1, <3>2
  <2>2. CASE kind \in {"completed", "failed"} /\ Rises(truth', kind, l)
    <3>1. ASSUME NEW x \in Listeners PROVE truth'.cut[x] = truth.cut[x]
      <4>1. truth'.cut[x] = truth.cut[x] + Bit(<<kind, l>>, <<"cut", x>>)
        BY <2>2 DEF Rises
      <4>2. Bit(<<kind, l>>, <<"cut", x>>) = 0
        BY <1>3, <2>2
      <4> QED BY <1>2, <4>1, <4>2
    <3> QED BY <2>2, <3>1 DEF Rises
  <2> QED BY <1>4, <2>1, <2>2 DEF Moves
<1>6. /\ AtWork \in [Listeners -> Nat] /\ AtWork' \in [Listeners -> Nat]
      /\ \A x \in Listeners :
           AtWork'[x] + Bit(<<was, l>>, <<"handling", x>>)
             = AtWork[x] + Bit(<<is, l>>, <<"handling", x>>)
  <2>1. SyncMoves(l, was, is)
    BY <1>4 DEF SyncMoves
  <2> QED BY <2>1, SyncWork
<1> DEFINE h == AtWork
           k == AtWork'
           u == truth'
<1>7. channel' = Append(channel, Message(kind, l))
  BY <1>1, <1>4, KindsOfMessages, Sending
<1>8. Sound(channel, viz, truth, h)
  OBVIOUS
<1>9. Bit(kind, "letter") = 0
  BY DEF Bit, In
<1> HIDE DEF h, k, u
<1>10. Reported(kind, l, truth, u, h, k, was, is)
  BY <1>2, <1>4, <1>5, <1>6, <1>9 DEF Reported, u, h, k
<1>11. Sound(Append(channel, Message(kind, l)), viz, u, k)
  <2>1. kind \in {"started", "completed", "failed", "letter"} /\ u \in History
    BY <1>5 DEF u
  <2>2. h \in [Listeners -> Nat] /\ k \in [Listeners -> Nat]
    BY <1>6 DEF h, k
  <2> QED BY <1>1, <1>8, <1>10, <2>1, <2>2, SoundReport
<1> QED
  BY <1>7, <1>11 DEF u, k

\* A dead letter of a sync listener.
LEMMA SyncLetterSound ==
  ASSUME SimShape, collector, Sound(channel, viz, truth, AtWork),
         NEW l \in Listeners, SyncLetter(l)
  PROVE  Sound(channel', viz, truth', AtWork')
<1> DEFINE h == AtWork
           u == truth'
<1>1. /\ channel \in Seq(Messages) /\ viz \in Counters /\ truth \in History
      /\ h \in [Listeners -> Nat] /\ AtWork' = h
  BY SameWork DEF SimShape, SyncLetter, SameTurn, GoTo
<1>2. channel' = Append(channel, Message("letter", l))
  BY <1>1, KindsOfMessages, Sending DEF SyncLetter
<1>3. u = [truth EXCEPT !.letters = @ + 1] /\ u \in History
  BY <1>1, Recorded DEF SyncLetter
<1>4. /\ u.published = truth.published /\ u.letters = truth.letters + 1
      /\ u.handled = truth.handled /\ u.failed = truth.failed /\ u.cut = truth.cut
  BY <1>1, <1>3 DEF History
<1>5. Reported("letter", l, truth, u, h, h, "letter", "letter")
  <2>1. Moves("letter", "letter", "letter") /\ Bit("letter", "letter") = 1
    BY DEF Moves, Bit, In
  <2>2. \A x : /\ Bit(<<"letter", l>>, <<"completed", x>>) = 0
               /\ Bit(<<"letter", l>>, <<"failed", x>>) = 0
    BY DEF Bit, In
  <2>3. \A x \in Listeners : /\ truth.handled[x] + 0 = truth.handled[x]
                             /\ truth.failed[x] + 0 = truth.failed[x]
    <3>1. \A x \in Listeners : truth.handled[x] \in Nat /\ truth.failed[x] \in Nat
      BY <1>1 DEF History
    <3> QED BY <3>1
  <2> HIDE DEF h, u
  <2> QED BY <1>4, <2>1, <2>2, <2>3 DEF Reported
<1>6. Sound(channel, viz, truth, h)
  OBVIOUS
<1> HIDE DEF h, u
<1>7. Sound(Append(channel, Message("letter", l)), viz, u, h)
  BY <1>1, <1>3, <1>5, <1>6, SoundReport
<1> QED
  BY <1>1, <1>2, <1>7 DEF u

\* A message that no listener reported.
LEMMA SoundAnnounced ==
  ASSUME NEW c \in Seq(Messages), NEW m \in Messages, NEW v \in Counters,
         NEW t \in History, NEW u \in History, NEW h \in [Listeners -> Nat],
         Sound(c, v, t, h), m.kind \in {"published", "stopped", "done"},
         u.published = t.published + Bit(m.kind, "published"), u.letters = t.letters,
         u.handled = t.handled, u.failed = t.failed, u.cut = t.cut
  PROVE  Sound(Append(c, m), v, u, h)
<1>1. /\ In(m.kind, {"published"}) = Bit(m.kind, "published") /\ In(m.kind, {"letter"}) = 0
      /\ \A x : /\ Told(m, {"completed"}, x) = 0 /\ Told(m, {"failed"}, x) = 0
                /\ Told(m, {"started"}, x) = 0 /\ Told(m, {"completed", "failed"}, x) = 0
  BY DEF In, Bit, Told
<1>2. /\ t.letters \in Nat
      /\ \A x \in Listeners : /\ t.handled[x] \in Nat /\ t.failed[x] \in Nat
                              /\ t.cut[x] + h[x] \in Nat
  <2>1. /\ t.letters \in Nat
        /\ \A x \in Listeners : /\ t.handled[x] \in Nat /\ t.failed[x] \in Nat
                                /\ t.cut[x] \in Nat /\ h[x] \in Nat
    BY DEF History
  <2> QED BY <2>1
<1>3. /\ u.published = t.published + In(m.kind, {"published"})
      /\ u.letters = t.letters + In(m.kind, {"letter"})
      /\ \A x \in Listeners :
           /\ u.handled[x] = t.handled[x] + Told(m, {"completed"}, x)
           /\ u.failed[x] = t.failed[x] + Told(m, {"failed"}, x)
           /\ u.cut[x] + h[x] + Told(m, {"completed", "failed"}, x)
                = t.cut[x] + h[x] + Told(m, {"started"}, x)
  BY <1>1, <1>2
<1> QED
  BY <1>3, SoundSent

\* publish has returned: an event more is published.
LEMMA EndPublishSound ==
  ASSUME SimShape, collector, Sound(channel, viz, truth, AtWork), EndPublish
  PROVE  Sound(channel', viz, truth', AtWork')
<1> DEFINE h == AtWork
           u == truth'
           m == Message("published", 0)
<1>1. /\ channel \in Seq(Messages) /\ viz \in Counters /\ truth \in History
      /\ h \in [Listeners -> Nat] /\ AtWork' = h
  BY SameWork DEF SimShape, EndPublish, SameTurn, GoTo
<1>2. /\ m \in Messages /\ channel' = Append(channel, m) /\ m.kind = "published"
  BY <1>1, KindsOfMessages, Kinds, Sending DEF EndPublish
<1>3. u = [truth EXCEPT !.published = @ + 1] /\ u \in History
  BY <1>1, Recorded DEF EndPublish
<1>4. /\ u.published = truth.published + 1 /\ u.letters = truth.letters
      /\ u.handled = truth.handled /\ u.failed = truth.failed /\ u.cut = truth.cut
  BY <1>1, <1>3 DEF History
<1>5. Bit(m.kind, "published") = 1
  BY <1>2 DEF Bit, In
<1>6. Sound(channel, viz, truth, h)
  OBVIOUS
<1> HIDE DEF h, u, m
<1>7. Sound(Append(channel, m), viz, u, h)
  BY <1>1, <1>2, <1>3, <1>4, <1>5, <1>6, SoundAnnounced
<1> QED
  BY <1>1, <1>2, <1>7 DEF u

\* The end is announced.
LEMMA FinishedSound ==
  ASSUME SimShape, collector, Sound(channel, viz, truth, AtWork), Finished
  PROVE  Sound(channel', viz, truth', AtWork')
<1> DEFINE h == AtWork
           m == [kind |-> "stopped", total |-> truth.published]
           n == Message("done", 0)
           c == Append(channel, m)
<1>1. /\ channel \in Seq(Messages) /\ viz \in Counters /\ truth \in History
      /\ h \in [Listeners -> Nat] /\ AtWork' = h /\ truth' = truth
  BY SameWork DEF SimShape, Finished, SameTurn, GoTo
<1>2. truth.published \in Nat /\ truth.published + 0 = truth.published
  <2>1. truth.published \in Nat
    BY <1>1 DEF History
  <2> QED BY <2>1
<1>3. /\ m \in Messages /\ n \in Messages /\ m.kind = "stopped" /\ n.kind = "done"
  BY <1>2, KindsOfMessages, Kinds
<1>4. channel' = Append(c, n) /\ c \in Seq(Messages)
  BY <1>1, <1>3, Sending, CountAppend DEF Finished
<1>5. Bit(m.kind, "published") = 0 /\ Bit(n.kind, "published") = 0
  BY <1>3 DEF Bit, In
<1>6. Sound(channel, viz, truth, h)
  OBVIOUS
<1> HIDE DEF h, m, n
<1>7. Sound(c, viz, truth, h)
  BY <1>1, <1>2, <1>3, <1>5, <1>6, SoundAnnounced
<1> HIDE DEF c
<1>8. Sound(Append(c, n), viz, truth, h)
  BY <1>1, <1>2, <1>3, <1>4, <1>5, <1>7, SoundAnnounced
<1> QED
  BY <1>1, <1>4, <1>8

\* A shutdown that runs out of time: what was at work is cut short.
LEMMA AbortSound ==
  ASSUME SimShape, Sound(channel, viz, truth, AtWork), AbortAll, SameTurn,
         config' = config, channel' = channel
  PROVE  Sound(channel', viz, truth', AtWork')
<1> DEFINE h == AtWork
           u == truth'
           k == AtWork'
<1>1. Listeners' = Listeners /\ Deliveries' = Deliveries
  BY DEF Listeners, Deliveries
<1>2. /\ \A d \in Deliveries : tasks'[d].pc = IF IsDone(d) THEN tasks[d].pc ELSE "finished"
      /\ \A l \in Listeners : u.cut[l] = truth.cut[l] + Handling(l) /\ Handling(l) \in Nat
      /\ u = [truth EXCEPT !.cut = u.cut]
  BY AbortKeepsTypes
<1>3. ASSUME NEW l \in Listeners PROVE u.cut[l] + k[l] = truth.cut[l] + h[l]
  <2>1. \A d \in Deliveries : tasks'[d].pc # "handling"
    BY <1>2 DEF IsDone
  <2>2. {d \in Deliveries : d[2] = l /\ tasks'[d].pc = "handling"} = {}
    BY <2>1
  <2>3. Handling(l)' = 0
    BY <1>1, <2>2, FS_EmptySet DEF Handling
  <2>4. SyncAtWork(l)' = SyncAtWork(l) /\ SyncAtWork(l) \in Nat
    BY SyncStays
  <2>5. h[l] = Handling(l) + SyncAtWork(l) /\ k[l] = 0 + SyncAtWork(l)
    BY <1>1, <2>3, <2>4 DEF AtWork
  <2>6. truth.cut[l] \in Nat
    BY DEF SimShape, History
  <2> HIDE DEF h, k, u
  <2> QED BY <1>2, <2>4, <2>5, <2>6
<1>4. /\ u.published = truth.published /\ u.letters = truth.letters
      /\ u.handled = truth.handled /\ u.failed = truth.failed
  <2>1. truth \in History
    BY DEF SimShape
  <2> QED BY <1>2, <2>1 DEF History
<1>5. Sound(channel, viz, truth, h)
  OBVIOUS
<1> HIDE DEF h, k, u
<1>6. Sound(channel, viz, u, k)
  BY <1>3, <1>4, <1>5, SoundStays
<1> QED
  BY <1>6 DEF u, k

\* The collector counts a message; with the last one it is the only one there.
LEMMA CollectSound ==
  ASSUME SimShape, EndAnnounced, Sound(channel, viz, truth, AtWork), Collect
  PROVE  /\ NeverNegative(channel', viz')
         /\ collector' \/ config.target = NoTarget => Sound(channel', viz', truth', AtWork')
<1> DEFINE h == AtWork
           m == Head(channel)
           n == Len(channel)
           d == Tail(channel)
<1>1. /\ channel \in Seq(Messages) /\ viz \in Counters /\ truth \in History /\ viz.done \in BOOLEAN
      /\ h \in [Listeners -> Nat] /\ AtWork' = h /\ truth' = truth
      /\ channel # <<>> /\ viz' = Counted(m) /\ ~viz.done
  BY SameWork DEF SimShape, Collect, publisherVars, EndAnnounced, Counters, SameTurn
<1>2. /\ d \in Seq(Messages) /\ Len(d) = n - 1 /\ n \in Nat \ {0} /\ DOMAIN channel = 1 .. n
      /\ m = channel[1] /\ m \in Messages
  BY <1>1, CountTail, LenProperties
<1>3. m.kind = "stopped" => m.total = truth.published /\ Queued(channel, Publications) = 0
  <2> SUFFICES ASSUME m.kind = "stopped" PROVE m.total = truth.published /\ Queued(channel, Publications) = 0
    OBVIOUS
  <2>1. /\ m.total = truth.published
        /\ \A j \in 1 .. n : j > 1 => channel[j] \notin Publications
    BY <1>2 DEF EndAnnounced
  <2>2. m \notin Publications
    BY <1>2, KindTells
  <2>3. \A j \in 1 .. n : j # 1 => j > 1
    BY <1>2
  <2>4. {i \in 1 .. n : channel[i] \in Publications} = {}
    BY <1>2, <2>1, <2>2, <2>3
  <2> QED BY <2>1, <2>4, FS_EmptySet DEF Queued, CountIn
<1>4. Sound(d, viz', truth, h)
  <2>1. Balanced(channel, viz, truth, h) /\ NeverNegative(channel, viz)
    BY DEF Sound
  <2> HIDE DEF h
  <2>2. Balanced(d, Counted(m), truth, h)
    BY <1>1, <1>3, <2>1, BalanceCounted
  <2>3. NeverNegative(d, Counted(m))
    BY <1>1, <2>1, PrefixCounted
  <2> QED BY <1>1, <2>2, <2>3 DEF Sound
<1>5. viz'.done <=> m.kind = "done"
  BY <1>1, <1>2, CountedFields
<1>6. CASE collector'
  <2>1. channel' = d
    BY <1>6 DEF Collect
  <2>2. Sound(channel', viz', truth', AtWork')
    BY <1>1, <1>4, <2>1
  <2> QED BY <2>2 DEF Sound
<1>7. CASE ~collector'
  <2>1. channel' = <<>> /\ m.kind = "done"
    BY <1>5, <1>7 DEF Collect
  <2>2. NeverNegative(<<>>, viz')
    <3>1. Listeners' = Listeners
      BY DEF Listeners, Collect
    <3>2. ASSUME NEW l \in Listeners, NEW k \in 0 .. Len(<<>>)
          PROVE  CountIn(<<>>, k, {Message("completed", l), Message("failed", l)})
                   <= viz'.inFlight[l] + CountIn(<<>>, k, {Message("started", l)})
      <4>1. k = 0
        OBVIOUS
      <4>2. \A c, M : CountIn(c, 0, M) = 0
        BY CountType
      <4>3. 0 \in 0 .. Len(d)
        BY <1>2
      <4>4. CountIn(d, 0, {Message("completed", l), Message("failed", l)})
              <= viz'.inFlight[l] + CountIn(d, 0, {Message("started", l)})
        BY <1>4, <4>3 DEF Sound, NeverNegative
      <4> QED BY <4>1, <4>2, <4>4
    <3> QED BY <3>2 DEF NeverNegative
  <2>3. config.target = NoTarget => d = <<>>
    <3>1. config.target = NoTarget => n = 1
      BY <1>2, <2>1 DEF EndAnnounced
    <3> HIDE DEF d, n
    <3>2. config.target = NoTarget => Len(d) = 0
      BY <1>2, <3>1
    <3> QED BY <1>2, <3>2, EmptySeq
  <2>4. config.target = NoTarget => channel' = d
    BY <2>1, <2>3
  <2> HIDE DEF d
  <2>5. config.target = NoTarget => Sound(channel', viz', truth', AtWork')
    BY <1>1, <1>4, <2>4
  <2> QED BY <1>7, <2>1, <2>2, <2>5
<1> QED
  BY <1>6, <1>7

\* Every step keeps what is shown in balance with what happened.
LEMMA StepKeepsBalance ==
  ASSUME SimShape, DeliveriesBegun, EndAnnounced, CountsBalance, StartsComeFirst,
         [SimNext]_simVars
  PROVE  CountsBalance' /\ StartsComeFirst'
<1>1. DOMAIN tasks = Deliveries /\ collector \in BOOLEAN
  BY DEF SimShape
<1>2. config' = config
  BY DEF SimNext, SimTask, StopPublishing, Tick, PublishEvent, StartSync, EndSync, SyncLetter,
         EndPublish, Finished, CloseBus, ShutdownReturns, Delivery, Begin, Complete, Fail, TimeOut, Letter,
         TaskUnchanged, Collect, Leave, LeaveCloses, LeaveAborts, Kill, simVars
<1>3. Listeners' = Listeners /\ Reports("letter")' = Reports("letter")
  BY <1>2 DEF Listeners, Reports
<1>4. ASSUME Sound(channel', viz', truth', AtWork') PROVE CountsBalance' /\ StartsComeFirst'
  <2>1. Balanced(channel, viz, truth, AtWork)'
    BY <1>3, <1>4 DEF Sound, Balanced
  <2>2. NeverNegative(channel, viz)'
    BY <1>3, <1>4 DEF Sound, NeverNegative
  <2> QED BY <2>1, <2>2 DEF CountsBalance, StartsComeFirst
<1>5. collector \/ config.target = NoTarget => Sound(channel, viz, truth, AtWork)
  BY DEF CountsBalance, StartsComeFirst, Sound
<1>6. CASE UNCHANGED <<tasks, channel, viz, collector, truth>> /\ SameTurn
  <2>1. AtWork' = AtWork
    BY <1>2, <1>6, SameWork
  <2>2. collector' \/ config'.target = NoTarget => Sound(channel', viz', truth', AtWork')
    BY <1>2, <1>5, <1>6, <2>1
  <2>3. StartsComeFirst'
    BY <1>3, <1>6 DEF StartsComeFirst, NeverNegative
  <2>4. CASE collector' \/ config'.target = NoTarget
    BY <1>4, <2>2, <2>4
  <2>5. CASE ~(collector' \/ config'.target = NoTarget)
    BY <2>3, <2>5 DEF CountsBalance
  <2> QED BY <2>4, <2>5
<1>7. CASE Collect
  <2>1. Sound(channel, viz, truth, AtWork)
    BY <1>5, <1>7 DEF Collect
  <2>2. /\ NeverNegative(channel', viz')
        /\ collector' \/ config.target = NoTarget => Sound(channel', viz', truth', AtWork')
    BY <1>7, <2>1, CollectSound
  <2>3. StartsComeFirst'
    BY <1>3, <2>2 DEF StartsComeFirst, NeverNegative
  <2>4. CASE collector' \/ config.target = NoTarget
    BY <1>4, <2>2, <2>4
  <2>5. CASE ~(collector' \/ config.target = NoTarget)
    BY <1>2, <2>3, <2>5 DEF CountsBalance
  <2> QED BY <2>4, <2>5
<1>8. CASE ~collector
  <2>1. Over /\ (config.target = NoTarget => InFlightAsync = {})
    BY <1>8 DEF EndAnnounced, DeliveriesBegun
  <2>2. UNCHANGED <<channel, viz, collector>>
    BY <1>8, <2>1 DEF SimNext, SimTask, StopPublishing, Tick, PublishEvent, StartSync, EndSync, SyncLetter,
         EndPublish, Finished, CloseBus, ShutdownReturns, Delivery, Begin, Complete, Fail, TimeOut,
         Letter, TaskUnchanged, Collect, Leave, LeaveCloses, LeaveAborts, Kill, simVars, Send
  <2>3. CASE config.target = NoTarget
    <3>1. \A d \in Deliveries : ~Delivery(d)
      BY <2>1, <2>3, DeliveryAtWork
    <3>2. UNCHANGED <<tasks, truth>> /\ SameTurn
      BY <1>1, <1>8, <2>1, <2>3, <3>1 DEF SimNext, SimTask, StopPublishing, Tick, PublishEvent,
           StartSync, EndSync, SyncLetter, EndPublish, Finished, CloseBus, ShutdownReturns, Collect,
           Leave, LeaveCloses, LeaveAborts, Kill, simVars, Over, SameTurn, GoTo, publisherVars
    <3> QED BY <1>6, <2>2, <3>2
  <2>4. CASE config.target # NoTarget
    BY <1>2, <1>3, <1>8, <2>2, <2>4 DEF CountsBalance, StartsComeFirst, NeverNegative
  <2> QED BY <2>3, <2>4
<1>9. CASE collector
  <2>1. Sound(channel, viz, truth, AtWork)
    BY <1>5, <1>9
  <2>2. CASE PublishEvent
    <3>1. Sound(channel', viz', truth', AtWork')
      BY <2>1, <2>2, PublishSound DEF PublishEvent
    <3> QED BY <1>4, <3>1
  <2>3. ASSUME NEW l \in Listeners, StartSync(l) \/ EndSync(l) \/ SyncLetter(l)
        PROVE  CountsBalance' /\ StartsComeFirst'
    <3>1. viz' = viz
      BY <2>3 DEF StartSync, EndSync, SyncLetter
    <3>2. Sound(channel', viz', truth', AtWork')
      BY <1>9, <2>1, <2>3, <3>1, SyncSound, SyncLetterSound
    <3> QED BY <1>4, <3>2
  <2>4. CASE EndPublish \/ Finished
    <3>1. viz' = viz
      BY <2>4 DEF EndPublish, Finished
    <3>2. Sound(channel', viz', truth', AtWork')
      BY <1>9, <2>1, <2>4, <3>1, EndPublishSound, FinishedSound
    <3> QED BY <1>4, <3>2
  <2>5. ASSUME AbortAll, channel' = channel, viz' = viz, SameTurn
        PROVE  CountsBalance' /\ StartsComeFirst'
    <3>1. Sound(channel', viz', truth', AtWork')
      BY <1>2, <2>1, <2>5, AbortSound
    <3> QED BY <1>4, <3>1
  <2>6. CASE ShutdownReturns
    <3>1. /\ AbortAll \/ UNCHANGED <<tasks, truth>>
          /\ UNCHANGED <<channel, viz, collector>> /\ SameTurn
      BY <2>6 DEF ShutdownReturns, SameTurn, GoTo
    <3> QED BY <1>6, <2>5, <3>1
  <2>7. CASE LeaveAborts
    <3>1. AbortAll /\ channel' = channel /\ viz' = viz /\ SameTurn
      BY <2>7 DEF LeaveAborts, SameTurn, publisherVars
    <3> QED BY <2>5, <3>1
  <2>8. ASSUME NEW d \in Deliveries, Delivery(d) PROVE CountsBalance' /\ StartsComeFirst'
    <3>1. viz' = viz
      BY <2>8, DeliveryAtWork
    <3>2. Sound(channel', viz', truth', AtWork')
      BY <1>9, <2>1, <2>8, <3>1, DeliverySound
    <3> QED BY <1>4, <3>2
  <2>9. CASE StopPublishing \/ Tick \/ CloseBus \/ Leave \/ LeaveCloses \/ Kill \/ UNCHANGED simVars
    <3>1. UNCHANGED <<tasks, channel, viz, collector, truth>> /\ SameTurn
      BY <2>9 DEF StopPublishing, Tick, CloseBus, Leave, LeaveCloses, Kill, simVars, SameTurn,
                  GoTo, publisherVars
    <3> QED BY <1>6, <3>1
  <2> QED
    BY <1>1, <1>7, <2>2, <2>3, <2>4, <2>6, <2>7, <2>8, <2>9 DEF SimNext, SimTask
<1> QED
  BY <1>1, <1>8, <1>9

-----------------------------------------------------------------------------
(* A delivery is counted once                                              *)

\* What a message adds to the ends on their way.
LEMMA EndsSent ==
  ASSUME NEW c \in Seq(Messages), NEW m \in Messages
  PROVE  Queued(Append(c, m), Endings) = Queued(c, Endings) + In(m.kind, {"completed", "letter"})
<1>1. Queued(Append(c, m), Endings) = Queued(c, Endings) + In(m, Endings)
  BY CountAppend
<1>2. In(m, Endings) = In(m.kind, {"completed", "letter"})
  BY Marks
<1> QED BY <1>1, <1>2

\* Nothing is processed twice, with a collector or without.
LEMMA StepKeepsEndsOnce ==
  ASSUME SimShape, DeliveriesBegun, EndAnnounced, EndsOnce, [SimNext]_simVars
  PROVE  EndsOnce'
<1> DEFINE q == Queued(channel, Endings)
           w == Cardinality(InFlightAsync)
           p == In(simPc, {"handling", "letter"})
<1>1. /\ DOMAIN tasks = Deliveries /\ collector \in BOOLEAN /\ channel \in Seq(Messages)
      /\ viz \in Counters /\ truth \in History /\ config \in Configs
      /\ IsFiniteSet(Deliveries) /\ seq \in Nat
  BY FiniteDeliveries DEF SimShape
<1>2. /\ viz.processed \in Nat /\ truth.begun \in Nat /\ q \in Nat /\ p \in Nat
  BY <1>1, Numbers
<1>3. IsFiniteSet(InFlightAsync) /\ w \in Nat
  <2>1. IsFiniteSet(InFlightAsync)
    BY <1>1, FS_Subset DEF InFlightAsync
  <2> QED BY <2>1, FS_CardinalityType
<1>4. config' = config /\ Listeners' = Listeners /\ Deliveries' = Deliveries /\ Endings' = Endings
  <2>1. config' = config
    BY DEF SimNext, SimTask, StopPublishing, Tick, PublishEvent, StartSync, EndSync, SyncLetter,
         EndPublish, Finished, CloseBus, ShutdownReturns, Delivery, Begin, Complete, Fail, TimeOut, Letter,
         TaskUnchanged, Collect, Leave, LeaveCloses, LeaveAborts, Kill, simVars
  <2> QED BY <2>1 DEF Listeners, Deliveries, Endings, Reports
<1>5. viz.processed + q + w + p <= truth.begun
  BY DEF EndsOnce
<1>6. EndsOnce' <=> viz'.processed + Queued(channel', Endings) + Cardinality(InFlightAsync')
                      + In(simPc', {"handling", "letter"}) <= truth'.begun
  BY <1>4, Zenon DEF EndsOnce
<1> DEFINE pp == In(simPc', {"handling", "letter"})
           qq == Queued(channel', Endings)
           ww == Cardinality(InFlightAsync')
<1>7. ASSUME viz' = viz, truth'.begun \in Nat, qq \in Nat, ww \in Nat, pp \in Nat,
             qq + ww + pp + truth.begun <= q + w + p + truth'.begun
      PROVE  EndsOnce'
  <2> DEFINE b == truth.begun
             bb == truth'.begun
             v == viz.processed
  <2>1. /\ v \in Nat /\ b \in Nat /\ bb \in Nat /\ q \in Nat /\ qq \in Nat /\ w \in Nat /\ ww \in Nat
        /\ p \in Nat /\ pp \in Nat
        /\ qq + ww + pp + b <= q + w + p + bb /\ v + q + w + p <= b
    BY <1>2, <1>3, <1>5, <1>7
  <2> HIDE DEF v, b, bb, q, qq, w, ww, p, pp
  <2>2. v + qq + ww + pp <= bb
    BY <2>1
  <2> QED BY <1>6, <1>7, <2>2 DEF v, qq, ww, pp, bb
<1>8. /\ channel' = channel => qq = q
      /\ \A m \in Messages :
           /\ Send(<<m>>) => qq \in {q, q + In(m.kind, {"completed", "letter"})}
           /\ \A n \in Messages :
                Send(<<m, n>>) => qq \in {q, q + In(m.kind, {"completed", "letter"})
                                             + In(n.kind, {"completed", "letter"})}
  <2>1. ASSUME NEW m \in Messages, Send(<<m>>)
        PROVE  qq \in {q, q + In(m.kind, {"completed", "letter"})}
    BY <1>1, <2>1, Sending, EndsSent
  <2>2. ASSUME NEW m \in Messages, NEW n \in Messages, Send(<<m, n>>)
        PROVE  qq \in {q, q + In(m.kind, {"completed", "letter"}) + In(n.kind, {"completed", "letter"})}
    <3>1. Append(channel, m) \in Seq(Messages)
      BY <1>1, CountAppend
    <3>2. /\ Queued(Append(channel, m), Endings) = q + In(m.kind, {"completed", "letter"})
          /\ Queued(Append(Append(channel, m), n), Endings)
               = Queued(Append(channel, m), Endings) + In(n.kind, {"completed", "letter"})
      BY <1>1, <3>1, EndsSent
    <3>3. channel' \in {channel, Append(Append(channel, m), n)}
      BY <1>1, <2>2, Sending
    <3> QED BY <3>2, <3>3
  <2> QED BY <2>1, <2>2
<1>9. /\ \A l : /\ In(Message("started", l).kind, {"completed", "letter"}) = 0
               /\ In(Message("failed", l).kind, {"completed", "letter"}) = 0
               /\ In(Message("completed", l).kind, {"completed", "letter"}) = 1
               /\ In(Message("letter", l).kind, {"completed", "letter"}) = 1
      /\ In(Message("published", 0).kind, {"completed", "letter"}) = 0
      /\ In(Message("done", 0).kind, {"completed", "letter"}) = 0
      /\ \A x : In([kind |-> "stopped", total |-> x].kind, {"completed", "letter"}) = 0
  BY DEF In, Message
<1>10. /\ pp = IF simPc' \in {"handling", "letter"} THEN 1 ELSE 0
       /\ p = IF simPc \in {"handling", "letter"} THEN 1 ELSE 0
  BY DEF In
<1>11. tasks' = tasks => ww = w
  BY DEF InFlightAsync, IsDone
<1>12. CASE StopPublishing \/ Tick \/ CloseBus \/ Leave \/ LeaveCloses \/ Kill \/ UNCHANGED simVars
  <2>1. UNCHANGED <<viz, channel, tasks, truth>> /\ pp = p
    BY <1>10, <1>12 DEF StopPublishing, Tick, CloseBus, Leave, LeaveCloses, Kill, simVars, publisherVars, GoTo
  <2>2. qq = q /\ ww = w
    BY <1>8, <1>11, <2>1
  <2> QED BY <1>2, <1>3, <1>7, <2>1, <2>2
<1>13. CASE PublishEvent
  <2> DEFINE A == Answering("async", Head(batch))
             N == {seq'} \X A
  <2>1. /\ UNCHANGED <<viz, channel>> /\ simPc' = "publishing" /\ simPc = "batch"
        /\ truth' = [truth EXCEPT !.begun = @ + Cardinality(A)]
        /\ tasks' = [d \in DOMAIN tasks |->
                 IF d[1] = seq' /\ d[2] \in A
                 THEN [pc |-> "waiting", retries |-> config.listeners[d[2]].retries]
                 ELSE tasks[d]]
    BY <1>13 DEF PublishEvent, GoTo
  <2>2. IsFiniteSet(A)
    <3>1. IsFiniteSet(Listeners) /\ A \subseteq Listeners
      BY <1>1, FiniteDeliveries DEF Answering
    <3> QED BY <3>1, FS_Subset
  <2> HIDE DEF A
  <2>3. IsFiniteSet({seq'}) /\ Cardinality({seq'}) = 1
    BY FS_Singleton
  <2>4. Cardinality(A) \in Nat
    BY <2>2, FS_CardinalityType
  <2>5. IsFiniteSet(N) /\ Cardinality(N) = Cardinality({seq'}) * Cardinality(A)
    BY <2>2, <2>3, FS_Product
  <2>6. Cardinality(N) = Cardinality(A)
    BY <2>3, <2>4, <2>5
  <2>7. InFlightAsync' \subseteq InFlightAsync \cup N
    <3> SUFFICES ASSUME NEW d \in InFlightAsync', d \notin N PROVE d \in InFlightAsync
      OBVIOUS
    <3>1. d \in Deliveries /\ ~(d[1] = seq' /\ d[2] \in A)
      <4>1. d \in Deliveries
        BY <1>1, <2>1 DEF InFlightAsync
      <4> QED BY <4>1 DEF Deliveries
    <3>2. tasks'[d] = tasks[d]
      BY <1>1, <2>1, <3>1
    <3> QED BY <1>1, <3>1, <3>2 DEF InFlightAsync, IsDone
  <2> HIDE DEF N
  <2>8. /\ IsFiniteSet(InFlightAsync \cup N)
        /\ Cardinality(InFlightAsync \cup N)
             = w + Cardinality(N) - Cardinality(InFlightAsync \cap N)
        /\ Cardinality(InFlightAsync \cap N) \in Nat
    <3>1. /\ IsFiniteSet(InFlightAsync \cup N)
          /\ Cardinality(InFlightAsync \cup N)
               = w + Cardinality(N) - Cardinality(InFlightAsync \cap N)
      BY <1>3, <2>5, FS_Union
    <3>2. IsFiniteSet(InFlightAsync \cap N)
      BY <1>3, FS_Intersection
    <3> QED BY <3>1, <3>2, FS_CardinalityType
  <2>9. ww \in Nat /\ ww <= Cardinality(InFlightAsync \cup N)
    <3>1. IsFiniteSet(InFlightAsync') /\ ww <= Cardinality(InFlightAsync \cup N)
      BY <2>7, <2>8, FS_Subset
    <3> QED BY <3>1, FS_CardinalityType
  <2>10. truth'.begun = truth.begun + Cardinality(A)
    BY <1>1, <2>1 DEF History
  <2>11. qq = q /\ pp = 0 /\ p = 0
    BY <1>8, <1>10, <2>1
  <2>12. ww <= w + Cardinality(A)
    <3> HIDE DEF w, ww
    <3> QED BY <1>3, <2>4, <2>6, <2>8, <2>9
  <2>13. truth'.begun \in Nat
    BY <1>2, <2>4, <2>10
  <2>14. qq + ww + pp + truth.begun <= q + w + p + truth'.begun
    <3> HIDE DEF w, ww, p, pp, q, qq
    <3> QED BY <1>2, <1>3, <2>4, <2>9, <2>10, <2>11, <2>12
  <2> QED BY <1>2, <1>7, <2>1, <2>9, <2>11, <2>13, <2>14
<1>14. ASSUME NEW l \in Listeners, StartSync(l) \/ EndSync(l) PROVE EndsOnce'
  <2>1. /\ viz' = viz /\ tasks' = tasks
        /\ Message("started", l) \in Messages /\ Message("completed", l) \in Messages
        /\ Message("failed", l) \in Messages
    BY <1>14, KindsOfMessages DEF StartSync, EndSync
  <2>2. CASE StartSync(l)
    <3>1. simPc = "publishing" /\ simPc' = "handling" /\ Send(<<Message("started", l)>>)
      BY <2>2 DEF StartSync, GoTo
    <3>2. truth'.begun = truth.begun + 1
      BY <1>1, <2>2 DEF StartSync, History
    <3>3. qq \in {q, q + 0} /\ pp = 1 /\ p = 0 /\ ww = w
      BY <1>8, <1>9, <1>10, <1>11, <2>1, <3>1
    <3>4. /\ truth'.begun \in Nat /\ qq \in Nat /\ ww \in Nat /\ pp \in Nat
          /\ qq + ww + pp + truth.begun <= q + w + p + truth'.begun
      <4> HIDE DEF w, ww, p, pp, q, qq
      <4> QED BY <1>2, <1>3, <3>2, <3>3
    <3> QED BY <1>7, <2>1, <3>4
  <2>3. CASE EndSync(l)
    <3>1. /\ simPc = "handling"
          /\ \/ Send(<<Message("completed", l)>>) /\ simPc' = "publishing"
             \/ Send(<<Message("failed", l)>>) /\ simPc' \in {"publishing", "letter"}
      BY <2>3 DEF EndSync, GoTo
    <3>2. truth'.begun = truth.begun
      BY <1>1, <2>3 DEF EndSync, Count, History
    <3>3. /\ \/ qq \in {q, q + 1} /\ pp = 0
             \/ qq \in {q, q + 0} /\ pp \in {0, 1}
          /\ p = 1 /\ ww = w
      BY <1>8, <1>9, <1>10, <1>11, <2>1, <3>1
    <3>4. /\ truth'.begun \in Nat /\ qq \in Nat /\ ww \in Nat /\ pp \in Nat
          /\ qq + ww + pp + truth.begun <= q + w + p + truth'.begun
      <4> HIDE DEF w, ww, p, pp, q, qq
      <4> QED BY <1>2, <1>3, <3>2, <3>3
    <3> QED BY <1>7, <2>1, <3>4
  <2> QED BY <1>14, <2>2, <2>3
<1>15. ASSUME NEW l \in Listeners, SyncLetter(l) PROVE EndsOnce'
  <2>1. /\ viz' = viz /\ tasks' = tasks /\ simPc = "letter" /\ simPc' = "publishing"
        /\ Message("letter", l) \in Messages
        /\ Send(<<Message("letter", l)>>)
    BY <1>15, KindsOfMessages DEF SyncLetter, GoTo
  <2>2. truth'.begun = truth.begun
    BY <1>1, <1>15 DEF SyncLetter, History
  <2>3. qq \in {q, q + 1} /\ pp = 0 /\ p = 1 /\ ww = w
    BY <1>8, <1>9, <1>10, <1>11, <2>1
  <2>4. /\ truth'.begun \in Nat /\ qq \in Nat /\ ww \in Nat /\ pp \in Nat
        /\ qq + ww + pp + truth.begun <= q + w + p + truth'.begun
    <3> HIDE DEF w, ww, p, pp, q, qq
    <3> QED BY <1>2, <1>3, <2>2, <2>3
  <2> QED BY <1>7, <2>1, <2>4
<1>16. CASE EndPublish \/ Finished
  <2>1. /\ viz' = viz /\ tasks' = tasks /\ pp = 0 /\ p = 0
        /\ truth'.begun = truth.begun
    BY <1>1, <1>10, <1>16 DEF EndPublish, Finished, GoTo, History
  <2>2. qq = q
    <3>1. CASE EndPublish
      <4>1. Send(<<Message("published", 0)>>) /\ Message("published", 0) \in Messages
        BY <3>1, KindsOfMessages DEF EndPublish
      <4>2. qq \in {q, q + 0}
        BY <1>8, <1>9, <4>1
      <4> QED BY <1>2, <4>2
    <3>2. CASE Finished
      <4> DEFINE m == [kind |-> "stopped", total |-> truth.published]
                 n == Message("done", 0)
      <4>1. truth.published \in Nat
        BY <1>1 DEF History
      <4>2. /\ Send(<<m, n>>) /\ m \in Messages /\ n \in Messages
            /\ In(m.kind, {"completed", "letter"}) = 0 /\ In(n.kind, {"completed", "letter"}) = 0
        BY <1>9, <3>2, <4>1, KindsOfMessages DEF Finished
      <4> HIDE DEF m, n
      <4>3. qq \in {q, q + 0 + 0}
        BY <1>8, <4>2
      <4> QED BY <1>2, <4>3
    <3> QED BY <1>16, <3>1, <3>2
  <2>3. ww = w
    BY <1>11, <2>1
  <2> QED BY <1>2, <1>3, <1>7, <2>1, <2>2, <2>3
<1>17. CASE ShutdownReturns \/ LeaveAborts
  <2>1. /\ viz' = viz /\ channel' = channel /\ pp = p
        /\ AbortAll \/ UNCHANGED <<tasks, truth>>
    BY <1>10, <1>17 DEF ShutdownReturns, LeaveAborts, GoTo, publisherVars
  <2>2. truth'.begun = truth.begun
    BY <1>1, <2>1 DEF AbortAll, History
  <2>3. qq = q /\ pp = p
    BY <1>8, <2>1
  <2>4. ww \in Nat /\ ww <= w
    <3>1. CASE UNCHANGED tasks
      BY <1>3, <1>11, <3>1
    <3>2. CASE AbortAll
      <4>1. DOMAIN tasks' = Deliveries
        BY <1>1, <3>2 DEF AbortAll
      <4>2. InFlightAsync' \subseteq InFlightAsync
        BY <1>1, <3>2, <4>1, AbortKeepsTypes DEF InFlightAsync, IsDone
      <4>3. IsFiniteSet(InFlightAsync') /\ ww <= w
        BY <1>3, <4>2, FS_Subset
      <4> QED BY <4>3, FS_CardinalityType
    <3> QED BY <2>1, <3>1, <3>2
  <2>5. qq + ww + pp + truth.begun <= q + w + p + truth'.begun
    <3> HIDE DEF w, ww, p, pp, q, qq
    <3> QED BY <1>2, <1>3, <2>2, <2>3, <2>4
  <2> QED BY <1>2, <1>7, <2>1, <2>2, <2>3, <2>4, <2>5
<1>18. ASSUME NEW d \in Deliveries, Delivery(d) PROVE EndsOnce'
  <2>1. /\ viz' = viz /\ simPc' = simPc /\ d[2] \in Listeners
        /\ tasks[d] \in [pc : TaskStates, retries : Nat] /\ DOMAIN tasks' = Deliveries
    BY <1>1, <1>4, <1>18, DeliveryAtWork, DeliveryKeepsShape DEF Deliveries, SimShape
  <2>2. truth'.begun = truth.begun
    BY <1>1, <1>18 DEF Delivery, Begin, Complete, Fail, TimeOut, Letter, Count, History
  <2>3. /\ ww + 1 = w + In(d, InFlightAsync') /\ ww \in Nat /\ In(d, InFlightAsync') \in {0, 1}
    <3>1. ww + In(d, InFlightAsync) = w + In(d, InFlightAsync') /\ ww \in Nat
      BY <1>4, <1>18, DeliveryAtWork, DeliveryKeepsShape, OneDelivery DEF SimShape, SameTurn
    <3>2. In(d, InFlightAsync) = 1 /\ In(d, InFlightAsync') \in {0, 1}
      BY <1>18, DeliveryAtWork DEF In
    <3> QED BY <3>1, <3>2
  <2>4. \/ qq = q
        \/ qq = q + 1 /\ In(d, InFlightAsync') = 0
    <3>1. /\ Message("started", d[2]) \in Messages /\ Message("completed", d[2]) \in Messages
          /\ Message("failed", d[2]) \in Messages /\ Message("letter", d[2]) \in Messages
      BY <2>1, KindsOfMessages
    <3>2. tasks'[d].pc = "finished" => In(d, InFlightAsync') = 0
      BY DEF In, InFlightAsync, IsDone
    <3>3. CASE Begin(d) \/ Fail(d)
      <4>1. qq \in {q, q + 0}
        BY <1>8, <1>9, <3>1, <3>3 DEF Begin, Fail
      <4>2. q + 0 = q
        BY <1>2
      <4> HIDE DEF q, qq
      <4> QED BY <4>1, <4>2
    <3>4. CASE Complete(d) \/ Letter(d)
      <4>1. tasks'[d].pc = "finished"
        BY <1>1, <2>1, <3>4 DEF Complete, Letter, Set
      <4>2. qq \in {q, q + 1}
        BY <1>8, <1>9, <3>1, <3>4 DEF Complete, Letter
      <4> QED BY <3>2, <4>1, <4>2
    <3>5. CASE TimeOut(d)
      <4>1. channel' = channel
        BY <3>5 DEF TimeOut
      <4> HIDE DEF q, qq
      <4> QED BY <1>8, <4>1
    <3> QED BY <1>18, <3>3, <3>4, <3>5 DEF Delivery
  <2>5. pp = p
    BY <2>1
  <2>6. /\ truth'.begun \in Nat /\ qq \in Nat /\ ww \in Nat /\ pp \in Nat
        /\ qq + ww + pp + truth.begun <= q + w + p + truth'.begun
    <3> DEFINE i == In(d, InFlightAsync')
    <3> HIDE DEF w, ww, p, pp, q, qq, i
    <3>1. ww + 1 = w + i /\ i \in {0, 1} /\ (qq = q \/ (qq = q + 1 /\ i = 0))
      BY <2>3, <2>4 DEF i
    <3> QED BY <1>2, <1>3, <2>2, <2>3, <2>5, <3>1
  <2> QED BY <1>7, <2>1, <2>6
<1>19. CASE Collect
  <2> DEFINE m == Head(channel)
             one == In(m.kind, {"completed", "letter"})
             rest == Queued(Tail(channel), Endings)
  <2>1. /\ channel # <<>> /\ viz' = Counted(m) /\ tasks' = tasks /\ simPc' = simPc /\ truth' = truth
        /\ channel' \in {Tail(channel), <<>>}
    BY <1>19 DEF Collect, publisherVars
  <2>2. /\ m \in Messages /\ q = rest + In(m, Endings) /\ Tail(channel) \in Seq(Messages)
    BY <1>1, <2>1, CountTail
  <2>3. In(m, Endings) = one /\ one \in Nat /\ rest \in Nat
    BY <1>1, <2>2, Marks, Numbers
  <2>4. viz'.processed = viz.processed + one
    BY <1>1, <2>1, <2>2, CountedFields
  <2>5. Queued(<<>>, Endings) = 0
    BY CountType DEF Queued
  <2>6. qq \in Nat /\ qq <= rest
    <3>1. qq = rest \/ qq = 0
      BY <2>1, <2>5
    <3> HIDE DEF qq, rest
    <3> QED BY <2>3, <3>1
  <2>7. pp = p /\ ww = w
    BY <1>11, <2>1
  <2> DEFINE v == viz.processed
             b == truth.begun
  <2>8. v + q + w + p <= b /\ v \in Nat /\ b \in Nat /\ q = rest + one
    BY <1>2, <1>5, <2>2, <2>3
  <2> HIDE DEF q, qq, w, ww, p, pp, one, rest, v, b
  <2>9. (v + one) + qq + ww + pp <= b
    BY <1>2, <1>3, <2>3, <2>6, <2>7, <2>8
  <2> QED BY <1>6, <2>1, <2>4, <2>9 DEF qq, ww, pp, v, b
<1> QED
  BY <1>1, <1>12, <1>13, <1>14, <1>15, <1>16, <1>17, <1>18, <1>19 DEF SimNext, SimTask

-----------------------------------------------------------------------------
(* Theorems                                                                *)

\* A simulation starts with every counter at 0 and nothing on its way.
LEMMA InitInv == SimInit => SimInv
<1> SUFFICES ASSUME SimInit PROVE SimInv
  OBVIOUS
<1>1. SimShape
  BY InitShape
<1>2. /\ channel = <<>> /\ collector = TRUE /\ simPc = "ticking" /\ viz.done = FALSE
      /\ viz.published = 0 /\ viz.letters = 0 /\ viz.processed = 0
      /\ truth.published = 0 /\ truth.letters = 0 /\ truth.begun = 0
      /\ viz.handled = Nobody /\ viz.failed = Nobody /\ viz.inFlight = Nobody
      /\ truth.handled = Nobody /\ truth.failed = Nobody /\ truth.cut = Nobody
      /\ \A d \in Deliveries : tasks[d].pc = "none"
      /\ DOMAIN tasks = Deliveries
  BY DEF SimInit, Deliveries
<1>3. \A l \in Listeners : Nobody[l] = 0
  BY DEF Nobody
<1>4. InFlightAsync = {}
  BY <1>2 DEF InFlightAsync, IsDone
<1>5. \A M : Queued(channel, M) = 0
  BY <1>2, CountType DEF Queued
<1>6. \A l \in Listeners : AtWork[l] = 0
  <2> SUFFICES ASSUME NEW l \in Listeners PROVE AtWork[l] = 0
    OBVIOUS
  <2>1. {d \in Deliveries : d[2] = l /\ tasks[d].pc = "handling"} = {}
    BY <1>2
  <2>2. Handling(l) = 0 /\ SyncAtWork(l) = 0
    BY <1>2, <2>1, FS_EmptySet DEF Handling, SyncAtWork
  <2> QED BY <2>2 DEF AtWork
<1>7. DeliveriesBegun
  BY <1>2, <1>4 DEF DeliveriesBegun
<1>8. EndAnnounced
  BY <1>2 DEF EndAnnounced
<1>9. CountsBalance
  BY <1>2, <1>3, <1>5, <1>6 DEF CountsBalance, Balanced
<1>10. StartsComeFirst
  <2>1. \A M : \A k \in 0 .. Len(channel) : CountIn(channel, k, M) = 0
    <3>1. \A k \in 0 .. Len(channel) : k = 0
      BY <1>2
    <3> QED BY <3>1, CountType
  <2> QED BY <1>2, <1>3, <2>1 DEF StartsComeFirst, NeverNegative
<1>11. EndsOnce
  BY <1>2, <1>4, <1>5, FS_EmptySet DEF EndsOnce, In
<1> QED
  BY <1>1, <1>7, <1>8, <1>9, <1>10, <1>11 DEF SimInv

\* The books of a simulation are in order in every state: every number shown, with the
\* reports still on their way, is what happened, whatever the order of the reports.
THEOREM BooksOfSimulation == SimSpec => []SimInv
<1>1. ASSUME SimInv, [SimNext]_simVars PROVE SimInv'
  BY <1>1, StepKeepsShape, StepKeepsBegun, StepKeepsAnnounced, StepKeepsBalance, StepKeepsEndsOnce
     DEF SimInv
<1> QED
  BY <1>1, InitInv, PTL DEF SimSpec

\* MetricsSound, of update_from_event: no gauge is ever negative, and no delivery is
\* processed twice, for every configuration and number of events.
THEOREM MetricsAreSound == SimSpec => []MetricsSound
<1>1. ASSUME SimInv PROVE MetricsSound
  <2>1. /\ viz \in Counters /\ truth \in History /\ channel \in Seq(Messages) /\ Len(channel) \in Nat
    BY <1>1, LenProperties DEF SimInv, SimShape
  <2>2. ASSUME NEW l \in Listeners PROVE viz.inFlight[l] >= 0
    <3>1. 0 \in 0 .. Len(channel)
      BY <2>1
    <3>2. CountIn(channel, 0, {Message("completed", l), Message("failed", l)})
            <= viz.inFlight[l] + CountIn(channel, 0, {Message("started", l)})
      BY <1>1, <3>1 DEF SimInv, StartsComeFirst, NeverNegative
    <3>3. \A M : CountIn(channel, 0, M) = 0
      BY CountType
    <3>4. viz.inFlight[l] \in Int
      BY <2>1 DEF Counters
    <3> QED BY <3>2, <3>3, <3>4
  <2>3. viz.processed <= truth.begun
    <3> DEFINE q == Queued(channel, Endings)
               w == Cardinality(InFlightAsync)
               p == In(simPc, {"handling", "letter"})
               v == viz.processed
               b == truth.begun
    <3>1. v \in Nat /\ b \in Nat /\ q \in Nat /\ p \in Nat
      BY <2>1, Numbers
    <3>2. w \in Nat
      <4>1. IsFiniteSet(InFlightAsync)
        BY <1>1, FiniteDeliveries, FS_Subset DEF SimInv, SimShape, InFlightAsync
      <4> QED BY <4>1, FS_CardinalityType
    <3>3. v + q + w + p <= b
      BY <1>1 DEF SimInv, EndsOnce
    <3> HIDE DEF q, w, p, v, b
    <3>4. v <= b
      BY <3>1, <3>2, <3>3
    <3> QED BY <3>4 DEF v, b
  <2> QED BY <2>2, <2>3 DEF MetricsSound
<1> QED
  BY <1>1, BooksOfSimulation, PTL

\* FinalCountsExact, of the frozen dashboard: after a duration every report was counted
\* before the end was, so that what is shown is what happened.
THEOREM FrozenCountsAreExact == SimSpec => []FinalCountsExact
<1>1. ASSUME SimInv PROVE FinalCountsExact
  <2> SUFFICES ASSUME viz.done, config.target = NoTarget
               PROVE  /\ viz.published = truth.published /\ viz.handled = truth.handled
                      /\ viz.failed = truth.failed /\ viz.letters = truth.letters
                      /\ viz.inFlight = truth.cut
    BY DEF FinalCountsExact
  <2>1. /\ viz \in Counters /\ truth \in History /\ DOMAIN tasks = Deliveries
    BY <1>1 DEF SimInv, SimShape
  <2>2. channel = <<>> /\ InFlightAsync = {} /\ Over
    BY <1>1 DEF SimInv, EndAnnounced, DeliveriesBegun
  <2>3. Balanced(channel, viz, truth, AtWork)
    BY <1>1 DEF SimInv, CountsBalance
  <2>4. \A M : Queued(channel, M) = 0
    BY <2>2, CountType DEF Queued
  <2>5. \A l \in Listeners : AtWork[l] = 0
    <3> SUFFICES ASSUME NEW l \in Listeners PROVE AtWork[l] = 0
      OBVIOUS
    <3>1. {d \in Deliveries : d[2] = l /\ tasks[d].pc = "handling"} = {}
      BY <2>1, <2>2 DEF InFlightAsync, IsDone
    <3>2. Handling(l) = 0 /\ SyncAtWork(l) = 0
      BY <2>2, <3>1, FS_EmptySet DEF Handling, SyncAtWork, Over
    <3> QED BY <3>2 DEF AtWork
  <2>6. /\ viz.published \in Nat /\ viz.letters \in Nat
        /\ viz.handled \in [Listeners -> Nat] /\ viz.failed \in [Listeners -> Nat]
        /\ viz.inFlight \in [Listeners -> Int]
        /\ truth.handled \in [Listeners -> Nat] /\ truth.failed \in [Listeners -> Nat]
        /\ truth.cut \in [Listeners -> Nat]
    BY <2>1 DEF Counters, History
  <2>7. viz.published = truth.published /\ viz.letters = truth.letters
    BY <2>3, <2>4, <2>6 DEF Balanced
  <2>8. ASSUME NEW l \in Listeners
        PROVE  /\ viz.handled[l] = truth.handled[l] /\ viz.failed[l] = truth.failed[l]
               /\ viz.inFlight[l] = truth.cut[l]
    <3>1. /\ viz.handled[l] + 0 = truth.handled[l] /\ viz.failed[l] + 0 = truth.failed[l]
          /\ viz.inFlight[l] + 0 = truth.cut[l] + 0 + 0
      BY <2>3, <2>4, <2>5 DEF Balanced
    <3>2. /\ viz.handled[l] \in Nat /\ viz.failed[l] \in Nat /\ viz.inFlight[l] \in Int
          /\ truth.cut[l] \in Nat
      BY <2>6
    <3> QED BY <3>1, <3>2
  <2>9. viz.handled = truth.handled
    BY <2>6, <2>8
  <2>10. viz.failed = truth.failed
    BY <2>6, <2>8
  <2>11. viz.inFlight = truth.cut
    BY <2>6, <2>8
  <2> QED BY <2>7, <2>9, <2>10, <2>11
<1> QED
  BY <1>1, BooksOfSimulation, PTL

\* GrowThenFreeze, of the frozen state: the number of published events never falls, and
\* no counter changes once the simulation is done.
THEOREM CountersGrowThenFreeze == SimSpec => GrowThenFreeze
<1>1. ASSUME SimInv, [SimNext]_simVars
      PROVE  [viz'.published >= viz.published /\ (viz.done => viz' = viz)]_simVars
  <2>1. viz \in Counters /\ channel \in Seq(Messages) /\ viz.published \in Nat
    BY <1>1 DEF SimInv, SimShape, Counters
  <2>2. CASE viz' = viz
    BY <2>1, <2>2
  <2>3. CASE Collect
    <3> DEFINE m == Head(channel)
    <3>1. collector /\ channel # <<>> /\ viz' = Counted(m)
      BY <2>3 DEF Collect
    <3>2. m \in Messages
      BY <2>1, <3>1, CountTail
    <3>3. ~viz.done
      BY <1>1, <3>1 DEF SimInv, EndAnnounced
    <3> HIDE DEF m
    <3>4. /\ m.kind \notin {"published", "stopped"} => viz'.published = viz.published
          /\ m.kind = "published" => viz'.published = viz.published + 1
          /\ m.kind = "stopped" => viz'.published = Larger(m.total, viz.published) /\ m.total \in Nat
      BY <2>1, <3>1, <3>2, CountedFields, KindTells
    <3>5. viz'.published >= viz.published
      BY <2>1, <3>4 DEF Larger
    <3> QED BY <3>3, <3>5
  <2>4. Collect \/ viz' = viz
    <3>1. \A d \in DOMAIN tasks : Delivery(d) => viz' = viz
      BY DEF Delivery, Begin, Complete, Fail, TimeOut, Letter, TaskUnchanged
    <3> QED
      BY <1>1, <3>1 DEF SimNext, SimTask, StopPublishing, Tick, PublishEvent, StartSync, EndSync, SyncLetter,
         EndPublish, Finished, CloseBus, ShutdownReturns, Leave, LeaveCloses, LeaveAborts, Kill, simVars
  <2> QED BY <2>2, <2>3, <2>4
<1> QED
  BY <1>1, BooksOfSimulation, PTL DEF SimSpec, GrowThenFreeze
=============================================================================
