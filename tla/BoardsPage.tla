----------------------------- MODULE BoardsPage -----------------------------
(***************************************************************************)
(* modules/kanban/frontend/src: App, which shows the list of boards or one *)
(* board, and components/BoardList.jsx, the list with the form that        *)
(* creates a board.  The list leaves the page when a board is opened, and  *)
(* starts anew when the user comes back.  rows is the set of the user's    *)
(* boards; the page of one board is module BoardPage.                      *)
(***************************************************************************)
EXTENDS Calls

CONSTANT Board

State == [boards : SUBSET Board, error : BOOLEAN, name : BOOLEAN, open : Board \cup {None}]

Request(c) ==
  \/ IsCall(c, "load", {None}, SUBSET Board)
  \/ IsCall(c, "create", {None}, Board)
  \/ IsCall(c, "remove", Board, {Done})

\* The list as it starts; open is the board in App.
Fresh(open) == [boards |-> {}, error |-> FALSE, name |-> FALSE, open |-> open]
ListOps == {"load", "create", "remove"}

\* With ?board= in the address a board is open from the start.
Init ==
  /\ rows \in SUBSET Board
  /\ \/ page = Fresh(None) /\ net = <<Call("load", None)>>
     \/ page \in { Fresh(b) : b \in rows } /\ net = <<>>
  /\ lag = FALSE

Load(i) ==
  /\ Answered(i, "load")
  /\ page' = IF net[i].gone THEN page
             ELSE IF net[i].ans = Failed THEN [page EXCEPT !.error = TRUE]
                                         ELSE [page EXCEPT !.boards = net[i].ans]
  /\ lag' = IF net[i].gone THEN lag ELSE LagAfterLoad(i)
  /\ Take(i)
  /\ UNCHANGED rows

\* onOpen
Open ==
  /\ page.open = None
  /\ \E b \in page.boards : page' = Fresh(b)
  /\ net' = Unmounted(net, ListOps)
  /\ UNCHANGED <<rows, lag>>

\* onBack
Back ==
  /\ page.open # None
  /\ page' = Fresh(None)
  /\ Send("load", None)
  /\ UNCHANGED <<rows, lag>>

-----------------------------------------------------------------------------
TypeForm ==
  /\ page.open = None
  /\ page' = [page EXCEPT !.name = TRUE]
  /\ UNCHANGED <<rows, net, lag>>

Submit ==
  /\ page.open = None /\ page.name
  /\ page' = [page EXCEPT !.error = FALSE]
  /\ Send("create", None)
  /\ UNCHANGED <<rows, lag>>

\* The new board is opened, also when the user has gone to another one by then;
\* the list is fetched for nobody.
Created(i) ==
  /\ Answered(i, "create")
  /\ IF net[i].ans = Failed
       THEN /\ page' = IF net[i].gone THEN page ELSE [page EXCEPT !.error = TRUE]
            /\ Take(i)
       ELSE /\ page' = Fresh(net[i].ans)
            /\ net' = Unmounted(Append(Rest(i), Call("load", None)), ListOps)
  /\ UNCHANGED <<rows, lag>>

Remove ==
  /\ page.open = None
  /\ \E b \in page.boards : Send("remove", b)
  /\ UNCHANGED <<rows, page, lag>>

Removed(i) ==
  /\ Answered(i, "remove")
  /\ IF net[i].ans = Failed THEN Take(i)
     ELSE net' = Append(Rest(i), [Call("load", None) EXCEPT !.gone = net[i].gone])
  /\ lag' = (lag \/ net[i].gone)
  /\ UNCHANGED <<rows, page>>

-----------------------------------------------------------------------------
(* The backend (module KanbanStore has its statements).                    *)

ServeCreate(i) ==
  /\ Sent(i, "create")
  /\ \E b \in Board \ rows : ServeWrite(i, "create", rows \cup {b}, b)

\* Only the owner may: a refusal is possible for any board.
ServeRemove(i) ==
  /\ Sent(i, "remove")
  /\ \/ ServeRefusal(i, "remove")
     \/ net[i].arg \in rows /\ ServeWrite(i, "remove", rows \ {net[i].arg}, Done)

\* Somebody makes the user a member of a board, or no longer.
Elsewhere == \E b \in Board : Foreign(rows \cup {b}) \/ Foreign(rows \ {b})

Next ==
  \/ Open \/ Back \/ TypeForm \/ Submit \/ Remove \/ Elsewhere
  \/ \E i \in DOMAIN net :
       \/ Load(i) \/ Created(i) \/ Removed(i)
       \/ ServeRead(i, "load", rows) \/ ServeCreate(i) \/ ServeRemove(i)

-----------------------------------------------------------------------------
TypeOK ==
  /\ page \in State
  /\ rows \subseteq Board
  /\ Len(net) <= MaxCalls + 1 /\ \A i \in DOMAIN net : Request(net[i])
  /\ lag \in BOOLEAN

\* When nothing is under way and the list is on the page it shows the boards
\* there are, whatever was created and opened meanwhile; but for changes by
\* others, deletions asked for before it was left, and lost or late answers.
BoardsAreCurrent == Quiet /\ ~lag /\ page.open = None => page.boards = rows
=============================================================================
