----------------------------- MODULE EventPages -----------------------------
(***************************************************************************)
(* modules/calendar/frontend/src/components: EventsPage, the list, and     *)
(* EventModal, the dialog that creates or edits one event and invites its  *)
(* attendees.  The dialog takes its texts from the list and fetches only   *)
(* owner and attendees.  A link ?event= opens the dialog of an event once  *)
(* the event has been fetched, and the user may have opened another one by *)
(* then: the dialog then keeps its texts and its id, and its event prop    *)
(* becomes the linked event.  rows gives for each event its texts (of      *)
(* which event they are), its owner and its attendees; a deleted event is  *)
(* None.                                                                   *)
(***************************************************************************)
EXTENDS Calls

CONSTANTS
  Event, Me,
  Person         \* the other users

Row == [texts : Event, owner : {Me} \cup Person, attendees : SUBSET Person]
Summaries == UNION { [E -> [texts : Event, owner : {Me} \cup Person]] : E \in SUBSET Event }

\* How often each person is in the dialog's list of attendees.
Counts == [Person -> Nat]

\* event is the prop, id is currentId; ready: there is a title, and the end is
\* not before the start.
Modal == [event : Event \cup {None}, id : Event \cup {None}, texts : Event \cup {None},
          owner : {Me, None} \cup Person, attendees : Counts, people : BOOLEAN,
          ready : BOOLEAN, saving : BOOLEAN]

\* twice has the events that the list shows two times; me is whether the user's
\* own name has been answered.
State == [events : Summaries, twice : SUBSET Event, modal : Modal \cup {None}, me : BOOLEAN]

Request(c) ==
  \/ IsCall(c, "load", {None}, Summaries)
  \/ IsCall(c, "link", Event, [texts : Event, owner : {Me} \cup Person])
  \/ IsCall(c, "get", Event, [owner : {Me} \cup Person, attendees : SUBSET Person])
  \/ IsCall(c, "create", {None}, Event)
  \/ IsCall(c, "update", [id : Event, texts : Event], {Done})
  \/ IsCall(c, "delete", Event, {Done})
  \/ IsCall(c, "invite", [id : Event, who : Person], {Done})
  \/ IsCall(c, "uninvite", [id : Event, who : Person], {Done})

ModalOps == {"get", "create", "update", "delete", "invite", "uninvite"}

Handled(i) == net' = Others(i)

There == { e \in DOMAIN rows : rows[e] # None }
Summary(e) == [texts |-> rows[e].texts, owner |-> rows[e].owner]
Listed == [e \in There |-> Summary(e)]

Blank == [event |-> None, id |-> None, texts |-> None, owner |-> None, attendees |-> [p \in Person |-> 0],
          people |-> FALSE, ready |-> FALSE, saving |-> FALSE]
Dialog(e, row) ==
  [Blank EXCEPT !.event = e, !.id = e, !.texts = row.texts, !.owner = row.owner, !.ready = TRUE]

\* The events are those this user owns or is invited to.
Init ==
  /\ rows \in UNION { [E -> [texts : Event, owner : {Me} \cup Person, attendees : {{}}]] :
                        E \in SUBSET Event }
  /\ \A e \in DOMAIN rows : rows[e].texts = e
  /\ page = [events |-> <<>>, twice |-> {}, modal |-> None, me |-> FALSE]
  /\ \E link \in {<<>>} \cup { <<Call("link", e)>> : e \in Event } :
       net = <<Call("load", None)>> \o link
  /\ lag = FALSE

Load(i) ==
  /\ Answered(i, "load")
  /\ page' = IF net[i].ans = Failed THEN page
             ELSE [page EXCEPT !.events = net[i].ans, !.twice = {}]
  /\ lag' = (lag \/ net[i].ans # Listed)
  /\ Handled(i)
  /\ UNCHANGED rows

\* App's api.me() is answered.
MeKnown ==
  /\ ~page.me
  /\ page' = [page EXCEPT !.me = TRUE]
  /\ UNCHANGED <<rows, net, lag>>

-----------------------------------------------------------------------------
(* The dialog is opened and closed.                                        *)

OpenEvent ==
  /\ page.modal = None
  /\ \E e \in DOMAIN page.events : /\ page' = [page EXCEPT !.modal = Dialog(e, page.events[e])]
                                   /\ Send("get", e)
  /\ UNCHANGED <<rows, lag>>

\* The deep link's event arrives.  An open dialog only changes its event prop,
\* and fetches owner and attendees if that is another one than before.
Linked(i) ==
  /\ Answered(i, "link")
  /\ LET e == net[i].arg
         row == net[i].ans
     IN  IF row = Failed \/ (page.modal # None /\ page.modal.event = e)
           THEN Handled(i) /\ UNCHANGED <<page, lag>>
           ELSE /\ page' = IF page.modal = None THEN [page EXCEPT !.modal = Dialog(e, row)]
                                                ELSE [page EXCEPT !.modal.event = e]
                /\ lag' = (lag \/ page.modal # None)
                /\ net' = Append(Others(i), Call("get", e))
  /\ UNCHANGED rows

NewEvent ==
  /\ page.modal = None
  /\ page' = [page EXCEPT !.modal = Blank]
  /\ UNCHANGED <<rows, net, lag>>

CloseModal ==
  /\ page.modal # None
  /\ page' = [page EXCEPT !.modal = None]
  /\ net' = Unmounted(net, ModalOps)
  /\ UNCHANGED <<rows, lag>>

\* getEvent: owner and attendees, whatever the dialog's id is by now, and over
\* what has been invited meanwhile.
Got(i) ==
  /\ Answered(i, "get")
  /\ LET full == net[i].ans
     IN  IF net[i].gone \/ full = Failed
           THEN UNCHANGED page /\ lag' = (lag \/ full = Failed)
           ELSE /\ page' = [page EXCEPT
                     !.modal.owner = full.owner,
                     !.modal.attendees = [p \in Person |-> IF p \in full.attendees THEN 1 ELSE 0]]
                /\ lag' = (lag \/ page.modal.id # net[i].arg \/ net[i].arg \notin There
                               \/ full.attendees # rows[net[i].arg].attendees)
  /\ Handled(i)
  /\ UNCHANGED rows

-----------------------------------------------------------------------------
(* Saving and deleting, for the owner.                                     *)

IsOwner == page.modal # None /\ (page.modal.id = None \/ (page.me /\ page.modal.owner = Me))

\* All fields are disabled for others.
EditForm ==
  /\ IsOwner
  /\ page' = [page EXCEPT !.modal.ready = ~@]
  /\ UNCHANGED <<rows, net, lag>>

Submit ==
  /\ IsOwner /\ page.modal.ready /\ ~page.modal.saving
  /\ page' = [page EXCEPT !.modal.saving = TRUE]
  /\ IF page.modal.id # None
       THEN Send("update", [id |-> page.modal.id, texts |-> page.modal.texts])
       ELSE Send("create", None)
  /\ UNCHANGED <<rows, lag>>

\* onSaved also closes the dialog that is open by now.
Saved(i) ==
  /\ Answered(i, "update")
  /\ LET in == net[i].arg
         saved == [texts |-> in.texts, owner |-> Me]
     IN  IF net[i].ans = Failed
           THEN /\ page' = IF net[i].gone THEN page ELSE [page EXCEPT !.modal.saving = FALSE]
                /\ Handled(i)
                /\ UNCHANGED lag
           ELSE /\ page' = [page EXCEPT
                     !.events = [e \in DOMAIN @ \cup {in.id} |-> IF e = in.id THEN saved ELSE @[e]],
                     !.modal = None]
                /\ net' = Unmounted(Others(i), ModalOps)
                /\ lag' = (lag \/ in.id \notin There)
  /\ UNCHANGED rows

\* The dialog stays open, now for the event it created, which is added to the
\* list without a look whether the list has it by now.
Created(i) ==
  /\ Answered(i, "create")
  /\ LET id == net[i].ans
         saved == [texts |-> id, owner |-> Me]
         stays == IF net[i].gone THEN page.modal ELSE [page.modal EXCEPT !.saving = FALSE]
     IN  page' = IF id = Failed THEN [page EXCEPT !.modal = stays]
                 ELSE [page EXCEPT
                        !.events = [e \in DOMAIN @ \cup {id} |-> IF e = id THEN saved ELSE @[e]],
                        !.twice = @ \cup (DOMAIN page.events \cap {id}),
                        !.modal = IF net[i].gone THEN stays
                                  ELSE [stays EXCEPT !.id = id, !.texts = id, !.owner = Me,
                                                     !.attendees = [p \in Person |-> 0]]]
  /\ lag' = (lag \/ net[i].ans \notin There \cup {Failed}
                 \/ net[i].ans \in DOMAIN page.events)
  /\ Handled(i)
  /\ UNCHANGED rows

Remove ==
  /\ IsOwner /\ page.modal.id # None
  /\ Send("delete", page.modal.id)
  /\ UNCHANGED <<rows, page, lag>>

Deleted(i) ==
  /\ Answered(i, "delete")
  /\ IF net[i].ans = Failed
       THEN Handled(i) /\ UNCHANGED page
       ELSE /\ page' = [page EXCEPT
                 !.events = [e \in DOMAIN @ \ {net[i].arg} |-> @[e]],
                 !.twice = @ \ {net[i].arg}, !.modal = None]
            /\ net' = Unmounted(Others(i), ModalOps)
  /\ UNCHANGED <<rows, lag>>

-----------------------------------------------------------------------------
(* Attendees.                                                              *)

\* The list of users to invite from is answered.
PeopleKnown ==
  /\ page.modal # None /\ ~page.modal.people
  /\ page' = [page EXCEPT !.modal.people = TRUE]
  /\ UNCHANGED <<rows, net, lag>>

\* UserPicker suggests the users that match what is typed, without the owner
\* and those already in the list.
Pickable(p) ==
  /\ page.modal.people
  /\ p # page.modal.owner /\ page.modal.attendees[p] = 0

Invite ==
  /\ IsOwner /\ page.modal.id # None
  /\ \E p \in Person : Pickable(p) /\ Send("invite", [id |-> page.modal.id, who |-> p])
  /\ UNCHANGED <<rows, page, lag>>

\* The opposite for the same person is under way too, and may have been
\* executed in the other order.
Crossed(i) ==
  \E j \in DOMAIN net : /\ {net[i].op, net[j].op} = {"invite", "uninvite"}
                        /\ net[i].arg = net[j].arg

Invited(i) ==
  /\ Answered(i, "invite")
  /\ page' = IF net[i].ans = Failed \/ net[i].gone THEN page
             ELSE [page EXCEPT !.modal.attendees[net[i].arg.who] = @ + 1]
  /\ lag' = (lag \/ net[i].gone \/ Crossed(i))
  /\ Handled(i)
  /\ UNCHANGED rows

RemoveAttendee ==
  /\ IsOwner /\ page.modal.id # None
  /\ \E p \in Person : /\ page.modal.attendees[p] > 0
                       /\ Send("uninvite", [id |-> page.modal.id, who |-> p])
  /\ UNCHANGED <<rows, page, lag>>

AttendeeRemoved(i) ==
  /\ Answered(i, "uninvite")
  /\ page' = IF net[i].ans = Failed \/ net[i].gone THEN page
             ELSE [page EXCEPT !.modal.attendees[net[i].arg.who] = 0]
  /\ lag' = (lag \/ net[i].gone \/ Crossed(i))
  /\ Handled(i)
  /\ UNCHANGED rows

-----------------------------------------------------------------------------
(* The backend.  Only an event's owner may change it.                      *)

Owned(e) == e \in There /\ rows[e].owner = Me

ServeEvent(i) ==
  /\ Sent(i, "link") \/ Sent(i, "get")
  /\ LET e == net[i].arg
         op == net[i].op
     IN  IF e \in There
           THEN ServeRead(i, op, IF op = "link" THEN Summary(e)
                                 ELSE [owner |-> rows[e].owner, attendees |-> rows[e].attendees])
           ELSE ServeRefusal(i, op)

ServeCreate(i) ==
  /\ Sent(i, "create")
  /\ \E e \in Event \ DOMAIN rows :
       ServeWrite(i, "create",
                  [d \in DOMAIN rows \cup {e} |->
                     IF d = e THEN [texts |-> e, owner |-> Me, attendees |-> {}] ELSE rows[d]], e)

\* Inviting a person twice is accepted, as is removing one who is not there.
ServeChange(i) ==
  /\ Sent(i, "update") \/ Sent(i, "invite") \/ Sent(i, "uninvite")
  /\ LET in == net[i].arg
         op == net[i].op
     IN  IF ~Owned(in.id) THEN ServeRefusal(i, op)
         ELSE \/ /\ op = "update"
                 /\ ServeWrite(i, op, [rows EXCEPT ![in.id].texts = in.texts], Done)
              \/ /\ op = "invite"
                 /\ ServeWrite(i, op, [rows EXCEPT ![in.id].attendees = @ \cup {in.who}], Done)
              \/ /\ op = "uninvite"
                 /\ ServeWrite(i, op, [rows EXCEPT ![in.id].attendees = @ \ {in.who}], Done)

ServeDelete(i) ==
  /\ Sent(i, "delete")
  /\ IF Owned(net[i].arg)
       THEN ServeWrite(i, "delete", [rows EXCEPT ![net[i].arg] = None], Done)
       ELSE ServeRefusal(i, "delete")

\* Another user deletes an event, or withdraws the invitation to it.
Elsewhere == \E e \in There : rows[e].owner # Me /\ Foreign([rows EXCEPT ![e] = None])

Next ==
  \/ MeKnown \/ OpenEvent \/ NewEvent \/ CloseModal \/ EditForm \/ Submit \/ Remove
  \/ PeopleKnown \/ Invite \/ RemoveAttendee \/ Elsewhere
  \/ \E i \in DOMAIN net :
       \/ Load(i) \/ Linked(i) \/ Got(i) \/ Saved(i) \/ Created(i) \/ Deleted(i)
       \/ Invited(i) \/ AttendeeRemoved(i)
       \/ ServeRead(i, "load", Listed) \/ ServeEvent(i)
       \/ ServeCreate(i) \/ ServeChange(i) \/ ServeDelete(i)

-----------------------------------------------------------------------------
TypeOK ==
  /\ page \in State
  /\ \A e \in There : rows[e] \in Row
  /\ Len(net) <= MaxCalls /\ \A i \in DOMAIN net : Request(net[i])
  /\ lag \in BOOLEAN

\* An event is never given the texts of another one, whichever dialogs are
\* opened and closed, and whatever links arrive, while answers are under way.
TextsAreTheirs == \A e \in There : rows[e].texts = e

\* When nothing is under way the list, patched in place after every write,
\* shows the events there are, each once, and an event's dialog its attendees.
\* Unless somebody else withdrew an event, an answer was lost, late, or came for a
\* dialog that was closed, a link moved an open dialog to its event, an invitation
\* crossed its withdrawal, or the list was fetched with an event whose creation
\* was answered only afterwards: that one stays in the list twice.
ListIsCurrent ==
  Quiet /\ ~lag =>
    /\ page.events = Listed /\ page.twice = {}
    /\ page.modal # None /\ page.modal.id # None =>
         \A p \in Person :
           page.modal.attendees[p] > 0 <=> p \in rows[page.modal.id].attendees
=============================================================================
