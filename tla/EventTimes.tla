----------------------------- MODULE EventTimes -----------------------------
(***************************************************************************)
(* modules/calendar/frontend/src/components/EventModal.jsx: the start and  *)
(* the end of an event.  The backend keeps instants, the inputs hold local *)
(* times as text without a zone: of a day and an hour, or of a day alone   *)
(* for an event that takes the whole day.  JavaScript reads the first as a *)
(* local time and the second as midnight in UTC.                           *)
(***************************************************************************)
EXTENDS Integers

CONSTANTS
  None,
  Hours,    \* how many a day has
  MaxOffset,  \* of a zone, in hours ahead of UTC or behind it
  MaxDay    \* bound: days that users enter, from 0; one more on either side

VARIABLES
  offset,   \* the browser's, fixed
  event,    \* the event as the backend keeps it; None before it is created
  form,     \* the dialog's allDay, start and end; None when it is closed
  entered   \* history: the start as the user last saw or entered it in full

vars == <<offset, event, form, entered>>

Day == -1 .. MaxDay + 1
Hour == 0 .. Hours - 1
Event == [start : Int, end : Int, allDay : BOOLEAN]
Value == [day : Day, hour : Hour \cup {None}]

toLocalDateTimeValue(t) == [day |-> (t + offset) \div Hours, hour |-> (t + offset) % Hours]

\* slice(0, 10)
DateOf(v) == [v EXCEPT !.hour = None]
toLocalDateValue(t) == DateOf(toLocalDateTimeValue(t))

\* new Date(v)
NewDate(v) == IF v.hour = None THEN v.day * Hours ELSE v.day * Hours + v.hour - offset

Form(allDay, start, end) ==
  LET text(t) == IF allDay THEN toLocalDateValue(t) ELSE toLocalDateTimeValue(t)
  IN  [allDay |-> allDay, start |-> text(start), end |-> text(end)]

Init ==
  /\ offset \in -MaxOffset .. MaxOffset
  /\ event = None /\ form = None /\ entered = None

\* A new event starts at the next hour, at any time of day, and ends one later.
New ==
  /\ form = None /\ event = None
  /\ \E t \in 0 .. MaxDay * Hours - 1 :
       /\ form' = Form(FALSE, t, t + 1)
       /\ entered' = toLocalDateTimeValue(t)
  /\ UNCHANGED <<offset, event>>

Open ==
  /\ form = None /\ event # None
  /\ form' = Form(event.allDay, event.start, event.end)
  /\ entered' = toLocalDateTimeValue(event.start)
  /\ UNCHANGED <<offset, event>>

Close ==
  /\ form # None
  /\ form' = None
  /\ UNCHANGED <<offset, event, entered>>

toggleAllDay ==
  /\ form # None
  /\ LET checked == ~form.allDay
         other(v) == IF checked THEN DateOf(v) ELSE toLocalDateTimeValue(NewDate(v))
     IN  /\ form' = [allDay |-> checked, start |-> other(form.start), end |-> other(form.end)]
         /\ form'.start.day \in Day /\ form'.end.day \in Day
  /\ UNCHANGED <<offset, event, entered>>

\* The inputs are of type date or datetime-local.
Type ==
  /\ form # None
  /\ \E day \in 0 .. MaxDay, hour \in Hour :
       LET v == [day |-> day, hour |-> IF form.allDay THEN None ELSE hour]
       IN  \/ /\ form' = [form EXCEPT !.start = v]
              /\ entered' = [day |-> day, hour |-> IF form.allDay THEN entered.hour ELSE hour]
           \/ form' = [form EXCEPT !.end = v] /\ UNCHANGED entered
  /\ UNCHANGED <<offset, event>>

\* submit; an end before the start is an error, and the dialog stays open.
Submit ==
  /\ form # None
  /\ LET at(v, hour) == NewDate(IF form.allDay THEN [v EXCEPT !.hour = hour] ELSE v)
         start == at(form.start, 0)
         end == at(form.end, Hours - 1)
     IN  /\ end >= start
         /\ event' = [start |-> start, end |-> end, allDay |-> form.allDay]
         /\ form' = None
  /\ UNCHANGED <<offset, entered>>

Next == New \/ Open \/ Close \/ toggleAllDay \/ Type \/ Submit

Spec == Init /\ [][Next]_vars

-----------------------------------------------------------------------------
TypeOK ==
  /\ event \in Event \cup {None}
  /\ form # None => form.start \in Value /\ form.end \in Value

\* toggleAllDay's comment says that it reformats the values entered instead of
\* losing them (EventModal.jsx:83-84): with the box unchecked the start is the one
\* that was entered, also after the box was checked and unchecked.
EnteredIsKept == form # None /\ ~form.allDay => form.start = entered
=============================================================================
