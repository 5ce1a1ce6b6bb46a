----------------------------- MODULE ConfigForm -----------------------------
(***************************************************************************)
(* The screens of the jaeb-visualizer example: the form in which a         *)
(* simulation is configured, key by key, and the application around it,    *)
(* which starts a simulation from the form and comes back to it.           *)
(*                                                                         *)
(* The form's lists are edited through positions: a listener names its     *)
(* event type by position, the cursor names a field of the selected entry. *)
(* Positions of entries count from 1 here and from 0 in the code; fields   *)
(* have the numbers of the code.  Of the values only those that validate   *)
(* may refuse are kept.  Rates are not among them: what is typed is cut to *)
(* the range that validate asks for, or is no number and passes.  The text *)
(* being typed is chosen when it is committed.                             *)
(***************************************************************************)
EXTENDS Naturals, Sequences, SequencesExt

CONSTANTS
  MaxEventTypes,  \* 8 in the code
  MaxListeners,   \* 6 in the code
  Texts,          \* names that can be typed, trimmed and in lower case
  Blank,          \* the empty name
  DefaultNames,   \* the names of the two default event types
  Generated,      \* the name a new event type gets from its number
  MaxEdits        \* bound: changes of a field in a behaviour

ASSUME FormAssumption ==
  /\ MaxEventTypes \in Nat \ {0}
  /\ MaxListeners \in Nat \ {0}
  /\ MaxEdits \in Nat

VARIABLES
  phase,         \* AppPhase
  simDone,       \* while running: the simulation has ended
  eventTypes, listeners, stop,   \* SimConfig
  tab, field,    \* active_tab, field_idx
  selType, selListener,          \* selected_event_type, selected_listener
  editing,
  editAt,        \* history: while editing, the cursor when it began
  edits          \* counter for MaxEdits

cursor == <<tab, field, selType, selListener>>
vars == <<phase, simDone, eventTypes, listeners, stop, cursor, editing, editAt, edits>>

Tabs == <<"Bus", "EventTypes", "Listeners", "Publish">>

NewEventType(name) == [name |-> name, pattern |-> "Constant", interval |-> 1]
NewListener == [name |-> "given", type |-> 1]

StopEditing == editing' = FALSE /\ editAt' = <<>>

\* ConfigState::from_config puts the cursor back to the start.
FreshCursor ==
  /\ tab' = "Bus" /\ field' = 0 /\ selType' = 1 /\ selListener' = 1
  /\ StopEditing

\* SimConfig::default: two event types and a listener for each.
Init ==
  /\ phase = "Config" /\ simDone = FALSE
  /\ eventTypes = <<NewEventType(DefaultNames[1]), NewEventType(DefaultNames[2])>>
  /\ listeners = <<NewListener, [NewListener EXCEPT !.type = 2]>>
  /\ stop = [kind |-> "Duration", value |-> 1]
  /\ tab = "Bus" /\ field = 0 /\ selType = 1 /\ selListener = 1
  /\ editing = FALSE /\ editAt = <<>> /\ edits = 0

-----------------------------------------------------------------------------
(* validate *)

Positions(s) == 1 .. Len(s)

EventTypeValid(i) ==
  /\ eventTypes[i].name # Blank
  /\ \A j \in Positions(eventTypes) : eventTypes[j].name = eventTypes[i].name => j = i
  /\ ~(eventTypes[i].pattern = "Burst" /\ eventTypes[i].interval = 0)

ListenerValid(l) == l.name # "" /\ l.type <= Len(eventTypes)

Validate ==
  /\ Len(eventTypes) \in 1 .. MaxEventTypes
  /\ \A i \in Positions(eventTypes) : EventTypeValid(i)
  /\ Len(listeners) \in 1 .. MaxListeners
  /\ \A i \in Positions(listeners) : ListenerValid(listeners[i])
  /\ stop.value # 0

-----------------------------------------------------------------------------
(* The form *)

OnForm == phase = "Config" /\ UNCHANGED <<phase, simDone>>
Lists  == <<eventTypes, listeners>>

\* field_count
FieldCount(t) ==
  CASE t = "Bus" -> 3
    [] t = "EventTypes" -> 4
    [] t = "Listeners" -> IF listeners = <<>> THEN 0 ELSE 8
    [] t = "Publish" -> 2

TabIndex == CHOOSE i \in Positions(Tabs) : Tabs[i] = tab

\* Tab goes to the next section and, with shift, to the one before.
PressTab ==
  /\ OnForm
  /\ \E step \in {1, Len(Tabs) - 1} : tab' = Tabs[((TabIndex - 1 + step) % Len(Tabs)) + 1]
  /\ field' = 0
  /\ StopEditing
  /\ UNCHANGED <<Lists, stop, selType, selListener, edits>>

PressUp ==
  /\ OnForm
  /\ field' = IF field > 0 THEN field - 1 ELSE field
  /\ StopEditing
  /\ UNCHANGED <<Lists, stop, tab, selType, selListener, edits>>

PressDownEditing ==
  /\ OnForm
  /\ field' = IF field + 1 < FieldCount(tab) THEN field + 1 ELSE field
  /\ UNCHANGED <<Lists, stop, tab, selType, selListener, editing, editAt, edits>>

PressDown ==
  /\ OnForm
  /\ field' = IF field + 1 < FieldCount(tab) THEN field + 1 ELSE field
  /\ StopEditing
  /\ UNCHANGED <<Lists, stop, tab, selType, selListener, edits>>

PressEsc ==
  /\ OnForm
  /\ StopEditing
  /\ UNCHANGED <<Lists, stop, cursor, edits>>

\* Left and right choose the entry to work on.
Neighbours(i, s) == {j \in {i - 1, i + 1} : j \in Positions(s)}

SelectEventType ==
  /\ OnForm /\ ~editing /\ tab = "EventTypes"
  /\ selType' \in Neighbours(selType, eventTypes)
  /\ UNCHANGED <<Lists, stop, tab, field, selListener, editing, editAt, edits>>

SelectListener ==
  /\ OnForm /\ ~editing /\ tab = "Listeners"
  /\ selListener' \in Neighbours(selListener, listeners)
  /\ UNCHANGED <<Lists, stop, tab, field, selType, editing, editAt, edits>>

AddEventType ==
  /\ OnForm /\ ~editing /\ tab = "EventTypes"
  /\ Len(eventTypes) < MaxEventTypes
  /\ eventTypes' = Append(eventTypes, NewEventType(Generated[Len(eventTypes) + 1]))
  /\ selType' = Len(eventTypes')
  /\ field' = 0
  /\ UNCHANGED <<listeners, stop, tab, selListener, editing, editAt, edits>>

AddListener ==
  /\ OnForm /\ ~editing /\ tab = "Listeners"
  /\ Len(listeners) < MaxListeners
  /\ listeners' = Append(listeners, NewListener)
  /\ selListener' = Len(listeners')
  /\ field' = 0
  /\ UNCHANGED <<eventTypes, stop, tab, selType, editing, editAt, edits>>

DeleteListenerUnclamped ==
  /\ OnForm /\ ~editing /\ tab = "Listeners"
  /\ listeners # <<>>
  /\ listeners' = RemoveAt(listeners, selListener)
  /\ UNCHANGED <<eventTypes, stop, cursor, editing, editAt, edits>>

DeleteListener ==
  /\ OnForm /\ ~editing /\ tab = "Listeners"
  /\ listeners # <<>>
  /\ listeners' = RemoveAt(listeners, selListener)
  /\ selListener' = IF selListener > 1 /\ selListener > Len(listeners')
                    THEN Len(listeners') ELSE selListener
  /\ UNCHANGED <<eventTypes, stop, tab, field, selType, editing, editAt, edits>>

RetargetUnshifted(type, removed) == IF type = removed THEN 1 ELSE type

\* Where a listener points after the event type at position removed is gone.
Retarget(type, removed) ==
  IF type = removed THEN 1 ELSE IF type > removed THEN type - 1 ELSE type

DeleteEventType ==
  /\ OnForm /\ ~editing /\ tab = "EventTypes"
  /\ Len(eventTypes) > 1
  /\ eventTypes' = RemoveAt(eventTypes, selType)
  /\ listeners' = [i \in Positions(listeners) |->
                     [listeners[i] EXCEPT !.type = Retarget(@, selType)]]
  /\ selType' = IF selType > Len(eventTypes') THEN Len(eventTypes') ELSE selType
  /\ field' = IF field > 3 THEN 3 ELSE field
  /\ UNCHANGED <<stop, tab, selListener, editing, editAt, edits>>

\* The fields in which Enter opens the text of the field.
TextFields(t) ==
  CASE t = "Bus" -> {0, 1, 2}
    [] t = "EventTypes" -> {0, 1, 3}
    [] t = "Listeners" -> IF listeners = <<>> THEN {} ELSE {0, 3, 4, 5}
    [] t = "Publish" -> {1}

StartEdit ==
  /\ OnForm /\ ~editing
  /\ field \in TextFields(tab)
  /\ editing' = TRUE
  /\ editAt' = cursor
  /\ UNCHANGED <<Lists, stop, cursor, edits>>

\* What the text of the field may become; a text that does not parse, and a
\* field that is not kept here, leave everything as it is.
Committed ==
  \/ UNCHANGED <<Lists, stop>>
  \/ /\ tab = "EventTypes" /\ field = 0
     /\ \E text \in Texts : eventTypes' = [eventTypes EXCEPT ![selType].name = text]
     /\ UNCHANGED <<listeners, stop>>
  \/ /\ tab = "EventTypes" /\ field = 3
     /\ \E n \in {0, 1} : eventTypes' = [eventTypes EXCEPT ![selType].interval = n]
     /\ UNCHANGED <<listeners, stop>>
  \/ /\ tab = "Listeners" /\ field = 0
     /\ \E text \in {"", "given"} : listeners' = [listeners EXCEPT ![selListener].name = text]
     /\ UNCHANGED <<eventTypes, stop>>
  \/ /\ tab = "Publish" /\ field = 1
     /\ \E n \in {0, 1} : stop' = [stop EXCEPT !.value = n]
     /\ UNCHANGED Lists

CommitEdit ==
  /\ OnForm /\ editing
  /\ Committed
  /\ edits' = IF UNCHANGED <<Lists, stop>> THEN edits ELSE edits + 1
  /\ edits' <= MaxEdits
  /\ StopEditing
  /\ UNCHANGED cursor

NextPattern == [Constant |-> "Burst", Burst |-> "Random", Random |-> "Constant"]

CycledEventType == [eventTypes EXCEPT ![selType].pattern = NextPattern[@]]
CycledListener  == [listeners EXCEPT ![selListener].type = (@ % Len(eventTypes)) + 1]

\* cycle_enum_field, from Space or from Enter on such a field.
CycleField ==
  /\ OnForm /\ ~editing
  /\ edits < MaxEdits
  /\ edits' = edits + 1
  /\ \/ /\ tab = "EventTypes" /\ field = 2
        /\ eventTypes' = CycledEventType
        /\ UNCHANGED <<listeners, stop>>
     \/ /\ tab = "Listeners" /\ field = 1 /\ listeners # <<>>
        /\ listeners' = CycledListener
        /\ UNCHANGED <<eventTypes, stop>>
     \/ /\ tab = "Publish" /\ field = 0
        /\ stop' = [kind |-> IF stop.kind = "Duration" THEN "TotalEvents" ELSE "Duration",
                    value |-> 1]
        /\ UNCHANGED Lists
  /\ UNCHANGED <<cursor, editing, editAt>>

-----------------------------------------------------------------------------
(* The application *)

\* The form is given up; the simulation keeps its configuration.
Start ==
  /\ phase = "Config" /\ ~editing
  /\ Validate
  /\ phase' = "Running"
  /\ FreshCursor
  /\ UNCHANGED <<simDone, Lists, stop, edits>>

SimulationEnds ==
  /\ phase = "Running"
  /\ simDone' = TRUE
  /\ UNCHANGED <<phase, Lists, stop, cursor, editing, editAt, edits>>

\* r runs the same configuration again, c goes back to the form with it.
Again ==
  /\ phase = "Running" /\ simDone
  /\ phase' \in {"Running", "Config"}
  /\ simDone' = FALSE
  /\ UNCHANGED <<Lists, stop, cursor, editing, editAt, edits>>

\* While a field is edited, q is a letter like the others.
Quit ==
  /\ phase = "Running" \/ (phase = "Config" /\ ~editing)
  /\ phase' = "Quit"
  /\ UNCHANGED <<simDone, Lists, stop, cursor, editing, editAt, edits>>

Next ==
  \/ PressTab \/ PressUp \/ PressDown \/ PressEsc
  \/ SelectEventType \/ SelectListener
  \/ AddEventType \/ AddListener \/ DeleteListener \/ DeleteEventType
  \/ StartEdit \/ CommitEdit \/ CycleField
  \/ Start \/ SimulationEnds \/ Again \/ Quit

Spec == Init /\ [][Next]_vars

-----------------------------------------------------------------------------
(* Properties *)

\* Whatever was added, deleted and selected, in which order ever: the selected
\* entries exist, so that neither a key nor the drawing of the form indexes
\* past the end of a list; the cursor is on a field of its section; and every
\* listener points to an event type there is, also before validate is asked.
PositionsExist ==
  /\ selType \in Positions(eventTypes)
  /\ listeners # <<>> => selListener \in Positions(listeners)
  /\ field \in 0 .. 7
  /\ tab # "Listeners" => field < FieldCount(tab)
  /\ \A i \in Positions(listeners) : listeners[i].type \in Positions(eventTypes)

\* A text is committed to the field in which it was begun: as long as a field is
\* edited the cursor stays on it, and it is a field that holds a text.
EditsStayPut ==
  editing => /\ phase = "Config"
             /\ editAt = cursor
             /\ field \in TextFields(tab)

\* What a listener of position i listens to.
Target(i) == eventTypes[listeners[i].type]

\* When an event type is deleted, the listeners of the others keep theirs,
\* although its position changes; nobody is left out or added.
DeletionKeepsTargets ==
  [][Len(eventTypes') < Len(eventTypes) =>
       /\ Len(listeners') = Len(listeners)
       /\ \A i \in Positions(listeners) :
            \/ listeners[i].type = selType
            \/ /\ listeners'[i].type \in Positions(eventTypes')
               /\ Target(i)' = Target(i)]_vars
=============================================================================
