----------------------------- MODULE MembersPage ----------------------------
(***************************************************************************)
(* modules/kanban/frontend/src/components: Members.jsx, the dialog with a  *)
(* board's members, and UserPicker.jsx, from which its owner invites.      *)
(* rows is the set of members, without the owner.                          *)
(***************************************************************************)
EXTENDS Calls

CONSTANT User   \* the directory

\* The dialog is open (None: closed); isOwner is the board page's.
Panel == [members : SUBSET User, allUsers : SUBSET User, error : BOOLEAN]
State == [panel : Panel \cup {None}, isOwner : BOOLEAN]

Request(c) ==
  \/ IsCall(c, "load", {None}, SUBSET User)
  \/ IsCall(c, "users", {None}, {User})
  \/ IsCall(c, "invite", User, {Done})
  \/ IsCall(c, "remove", User, {Done})

PanelOps == {"load", "users", "invite", "remove"}

Init ==
  /\ rows \in SUBSET User
  /\ page \in [panel : {None}, isOwner : BOOLEAN]
  /\ net = <<>>
  /\ lag = FALSE

\* showMembers
OpenPanel ==
  /\ page.panel = None
  /\ Len(net) < MaxCalls
  /\ page' = [page EXCEPT !.panel = [members |-> {}, allUsers |-> {}, error |-> FALSE]]
  /\ net' = net \o <<Call("load", None), Call("users", None)>>
  /\ UNCHANGED <<rows, lag>>

ClosePanel ==
  /\ page.panel # None
  /\ page' = [page EXCEPT !.panel = None]
  /\ net' = Unmounted(net, PanelOps)
  /\ UNCHANGED <<rows, lag>>

Load(i) ==
  /\ Answered(i, "load")
  /\ page' = IF net[i].gone THEN page
             ELSE IF net[i].ans = Failed THEN [page EXCEPT !.panel.error = TRUE]
                                         ELSE [page EXCEPT !.panel.members = net[i].ans]
  /\ lag' = IF net[i].gone THEN lag ELSE LagAfterLoad(i)
  /\ Take(i)
  /\ UNCHANGED rows

LoadUsers(i) ==
  /\ Answered(i, "users")
  /\ page' = IF net[i].gone \/ net[i].ans = Failed THEN page
             ELSE [page EXCEPT !.panel.allUsers = net[i].ans]
  /\ Take(i)
  /\ UNCHANGED <<rows, lag>>

-----------------------------------------------------------------------------
\* The picker offers everybody but the members.
Pickable == page.panel.allUsers \ page.panel.members

Invite ==
  /\ page.panel # None /\ page.isOwner
  /\ \E u \in Pickable : Send("invite", u)
  /\ page' = [page EXCEPT !.panel.error = FALSE]
  /\ UNCHANGED <<rows, lag>>

Remove ==
  /\ page.panel # None /\ page.isOwner
  /\ \E u \in page.panel.members : Send("remove", u)
  /\ UNCHANGED <<rows, page, lag>>

Changed(i) ==
  /\ Answered(i, "invite") \/ Answered(i, "remove")
  /\ IF net[i].ans = Failed
       THEN /\ page' = IF net[i].gone THEN page ELSE [page EXCEPT !.panel.error = TRUE]
            /\ Take(i)
       ELSE /\ UNCHANGED page
            /\ net' = Append(Rest(i), [Call("load", None) EXCEPT !.gone = net[i].gone])
  /\ lag' = (lag \/ net[i].gone)
  /\ UNCHANGED rows

-----------------------------------------------------------------------------
(* The backend (module KanbanStore has its statements).                    *)

ServeInvite(i) ==
  /\ Sent(i, "invite")
  /\ ServeWrite(i, "invite", rows \cup {net[i].arg}, Done)

ServeRemove(i) ==
  /\ Sent(i, "remove")
  /\ ServeWrite(i, "remove", rows \ {net[i].arg}, Done)

\* The owner in another tab.
Elsewhere == \E u \in User : Foreign(rows \cup {u}) \/ Foreign(rows \ {u})

Next ==
  \/ OpenPanel \/ ClosePanel \/ Invite \/ Remove \/ Elsewhere
  \/ \E i \in DOMAIN net :
       \/ Load(i) \/ LoadUsers(i) \/ Changed(i)
       \/ ServeRead(i, "load", rows) \/ ServeRead(i, "users", User)
       \/ ServeInvite(i) \/ ServeRemove(i)

-----------------------------------------------------------------------------
TypeOK ==
  /\ page \in State
  /\ rows \subseteq User
  /\ \A i \in DOMAIN net : Request(net[i])
  /\ lag \in BOOLEAN

\* When nothing is under way the dialog shows the members there are, but for
\* changes by others, by a dialog that was closed, and lost or late answers.
MembersAreCurrent == Quiet /\ ~lag /\ page.panel # None => page.panel.members = rows
=============================================================================
