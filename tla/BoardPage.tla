----------------------------- MODULE BoardPage ------------------------------
(***************************************************************************)
(* modules/kanban/frontend/src/components/Board.jsx, the page of one       *)
(* board, and backend/hub.go, which tells the pages that show it of every  *)
(* change.  The page fetches the whole board when it opens, when an event  *)
(* arrives and after its own writes.  Its socket reconnects 2 seconds      *)
(* after it closed, without fetching what was missed.  rows is the board   *)
(* as a version, the name of one of its columns, and whether the hub has   *)
(* this page's connection.  Dragging is module DropPage, the card dialog   *)
(* CardDialog, the panel of members MembersPage.                           *)
(***************************************************************************)
EXTENDS Calls

CONSTANTS
  Name,        \* names of the column
  MaxChanges,  \* bound: changes of the board by others
  MaxTouches   \* bound: what the user does, but for typing

Board == [version : Nat, name : Name]

\* sock: the state of the WebSocket, waiting for the timer after it closed, or
\* left with the page; live is sock = "open".  lane: what is in the column's
\* input, which is mounted with the first board and keeps a state of its own.
\* History: what was last typed in it; what else the user did.
State == [board : Board \cup {None}, error : BOOLEAN,
          sock : {"connecting", "open", "waiting", "left"},
          lane : Name \cup {None}, typed : Name \cup {None}, touches : 0 .. MaxTouches]

\* A write is a rename, with the new name, or, for None, any other.  The backend
\* tells the hub of it after its commit, and answers then; "foreign" is another
\* user's.
Request(c) ==
  \/ IsCall(c, "load", {None}, Board)
  \/ IsCall(c, "write", Name \cup {None}, {Done})
  \/ IsCall(c, "delete", {None}, {Done})
  \/ IsCall(c, "written", Name \cup {None}, {}) \/ IsCall(c, "deleted", {None}, {})
  \/ IsCall(c, "foreign", {None}, {})
  \/ IsCall(c, "event", {None}, {Done})

Shown(r) == [version |-> r.version, name |-> r.name]

Fresh(touches) == [board |-> None, error |-> FALSE, sock |-> "connecting", lane |-> None,
                   typed |-> None, touches |-> touches]

Init ==
  /\ rows \in [version : {0}, name : Name, conn : {FALSE}, there : {TRUE}]
  /\ page = Fresh(0)
  /\ net = <<Call("load", None)>>
  /\ lag = FALSE

\* Faulty: the input follows the board.
Load_Refills(i) ==
  /\ Answered(i, "load")
  /\ LET board == net[i].ans
         older(j) == /\ net[j].op = "load" /\ ~net[j].gone
                     /\ net[j].ans \notin {Shown(rows), Waiting, Failed}
     IN  IF net[i].gone THEN UNCHANGED <<page, lag>>
         ELSE IF board = Failed
           THEN /\ page' = [page EXCEPT !.error = TRUE, !.lane = None]
                /\ lag' = TRUE
           ELSE /\ page' = [page EXCEPT
                     !.board = board, !.lane = IF ~page.error THEN board.name ELSE @]
                /\ lag' = IF board = Shown(rows)
                            THEN page.error \/ (lag /\ \E j \in DOMAIN net : older(j))
                            ELSE lag \/ net[i].late
  /\ Take(i)
  /\ UNCHANGED rows

\* load().  An error replaces the board for good, whatever is answered later.
Load(i) ==
  /\ Answered(i, "load")
  /\ LET board == net[i].ans
         older(j) == /\ net[j].op = "load" /\ ~net[j].gone
                     /\ net[j].ans \notin {Shown(rows), Waiting, Failed}
     IN  IF net[i].gone THEN UNCHANGED <<page, lag>>
         ELSE IF board = Failed
           THEN /\ page' = [page EXCEPT !.error = TRUE, !.lane = None]
                /\ lag' = TRUE
           ELSE /\ page' = [page EXCEPT
                     !.board = board, !.lane = IF @ = None /\ ~page.error THEN board.name ELSE @]
                /\ lag' = IF board = Shown(rows)
                            THEN page.error \/ (lag /\ \E j \in DOMAIN net : older(j))
                            ELSE lag \/ net[i].late
  /\ Take(i)
  /\ UNCHANGED rows

\* App: the list takes the place of the board, and the socket is closed.  What
\* the page asked to be written is written.
Ops == {"load", "write", "written", "delete", "deleted", "event"}

Leaving(calls) ==
  /\ page' = [Fresh(page.touches) EXCEPT !.sock = "left"]
  /\ rows' = [rows EXCEPT !.conn = FALSE]
  /\ net' = Unmounted(calls, Ops)
  /\ lag' = TRUE

Back == page.sock # "left" /\ Leaving(net)

Reopen ==
  /\ page.sock = "left" /\ page.touches < MaxTouches
  /\ page' = Fresh(page.touches + 1)
  /\ Send("load", None)
  /\ lag' = FALSE
  /\ UNCHANGED rows

-----------------------------------------------------------------------------
(* The socket.                                                             *)

Opened ==
  /\ page.sock = "connecting"
  /\ page' = [page EXCEPT !.sock = "open"]
  /\ UNCHANGED <<rows, net, lag>>

\* hub.register, after the upgrade: the page may have seen its socket open by then.
Register ==
  /\ page.sock \in {"connecting", "open"} /\ ~rows.conn
  /\ rows' = [rows EXCEPT !.conn = TRUE]
  /\ UNCHANGED <<page, net, lag>>

\* onclose, for whatever reason; what was under way on the socket is lost.
Close ==
  /\ page.sock \in {"connecting", "open"}
  /\ page' = [page EXCEPT !.sock = "waiting"]
  /\ rows' = [rows EXCEPT !.conn = FALSE]
  /\ net' = Unmounted(net, {"event"})
  /\ lag' = (lag \/ net' # net)

Reconnect ==
  /\ page.sock = "waiting"
  /\ page' = [page EXCEPT !.sock = "connecting"]
  /\ UNCHANGED <<rows, net, lag>>

\* Faulty: an event is no reason to fetch while another fetch is under way.
Event_Busy(i) ==
  /\ Answered(i, "event")
  /\ IF net[i].gone \/ \E j \in DOMAIN net : net[j].op = "load"
       THEN Take(i) ELSE TakeAndSend(i, "load", None)
  /\ UNCHANGED <<rows, page, lag>>

\* onmessage
Event(i) ==
  /\ Answered(i, "event")
  /\ IF net[i].gone THEN Take(i) ELSE TakeAndSend(i, "load", None)
  /\ UNCHANGED <<rows, page, lag>>

-----------------------------------------------------------------------------
(* What the user does with a board on the page.                            *)

There == page.board # None /\ ~page.error
Touched == [page EXCEPT !.touches = @ + 1]

\* addColumn, addCard, removeColumn; the card dialog's onChanged and onDeleted.
Write ==
  /\ There /\ page.touches < MaxTouches
  /\ page' = Touched
  /\ Send("write", None)
  /\ UNCHANGED <<rows, lag>>

LaneType ==
  /\ There
  /\ \E n \in Name : page' = [page EXCEPT !.lane = n, !.typed = n]
  /\ UNCHANGED <<rows, net, lag>>

\* saveName, whenever the input is left.
SaveName ==
  /\ There /\ page.touches < MaxTouches
  /\ page.lane # page.board.name
  /\ page' = Touched
  /\ Send("write", page.lane)
  /\ UNCHANGED <<rows, lag>>

\* deleteBoard, for the owner.
DeleteBoard ==
  /\ There /\ page.touches < MaxTouches
  /\ page' = Touched
  /\ Send("delete", None)
  /\ UNCHANGED <<rows, lag>>

\* After a failure nothing happens, and the page does not say so.
Written(i) ==
  /\ Answered(i, "write")
  /\ IF net[i].ans = Failed \/ net[i].gone THEN Take(i) ELSE TakeAndSend(i, "load", None)
  /\ UNCHANGED <<rows, page, lag>>

Deleted(i) ==
  /\ Answered(i, "delete")
  /\ IF net[i].ans = Failed \/ net[i].gone THEN Take(i) /\ UNCHANGED <<rows, page, lag>>
                                           ELSE Leaving(Rest(i))

-----------------------------------------------------------------------------
(* The backend.  Another user's change may commit, and the hub be told of  *)
(* it, at any time.                                                        *)

Changed(name) == [rows EXCEPT !.version = @ + 1, !.name = name]

ServeLoad(i) ==
  IF rows.there THEN ServeRead(i, "load", Shown(rows)) ELSE ServeRefusal(i, "load")

\* The store's transaction, if the board is there and the write valid.
Commit(i) ==
  /\ Sent(i, "write")
  /\ \/ /\ rows.there
        /\ rows' = Changed(IF net[i].arg = None THEN rows.name ELSE net[i].arg)
        /\ net' = [net EXCEPT ![i].op = "written"]
     \/ Reply(i, Failed) /\ UNCHANGED rows
  /\ UNCHANGED <<page, lag>>

Delete(i) ==
  /\ Sent(i, "delete")
  /\ \/ /\ rows.there
        /\ rows' = [rows EXCEPT !.version = @ + 1, !.there = FALSE]
        /\ net' = [net EXCEPT ![i].op = "deleted"]
     \/ Reply(i, Failed) /\ UNCHANGED rows
  /\ UNCHANGED <<page, lag>>

Elsewhere ==
  /\ rows.there /\ rows.version < MaxChanges
  /\ \E n \in Name : rows' = Changed(n)
  /\ Send("foreign", None)
  /\ UNCHANGED <<page, lag>>

\* hub.broadcast, to the connections registered at this moment.  Nothing orders
\* the writes to one connection, of broadcasts and its pings, and an event that
\* meets another write may be lost.  The answer of the page's own write follows,
\* and may be lost.
Broadcast(i) ==
  /\ Sent(i, "written") \/ Sent(i, "deleted") \/ Sent(i, "foreign")
  /\ \E told \in {FALSE, rows.conn} :
       LET event == IF told THEN <<[Call("event", None) EXCEPT !.ans = Done]>> ELSE <<>>
           op == IF net[i].op = "written" THEN "write" ELSE "delete"
       IN  IF net[i].op = "foreign"
             THEN net' = Rest(i) \o event /\ lag' = (lag \/ ~told)
             ELSE \E ans \in {Done, Failed} :
                    /\ net' = [net EXCEPT ![i].op = op, ![i].ans = ans] \o event
                    /\ lag' = (lag \/ (~told /\ (ans = Failed \/ net[i].gone)))
  /\ UNCHANGED <<rows, page>>

Handle(i) == Load(i) \/ Event(i) \/ Written(i) \/ Deleted(i)
Serve(i) == ServeLoad(i) \/ Commit(i) \/ Delete(i) \/ Broadcast(i)

Next ==
  \/ Back \/ Reopen \/ Opened \/ Register \/ Close \/ Reconnect
  \/ Write \/ LaneType \/ SaveName \/ DeleteBoard \/ Elsewhere
  \/ \E i \in DOMAIN net : Handle(i) \/ Serve(i)

Spec == Init /\ [][Next]_state

-----------------------------------------------------------------------------
TypeOK ==
  /\ page \in State
  /\ rows \in [version : Nat, name : Name, conn : BOOLEAN, there : BOOLEAN]
  /\ \A i \in DOMAIN net : Request(net[i])
  /\ lag \in BOOLEAN

\* What was typed in the column's input is still in it, whatever boards the page
\* has fetched since; unless an error replaced all of them.  (Nor does the input
\* show another user's rename: leaving it then writes the old name back.)
TypingIsKept == page.typed # None /\ ~page.error => page.lane = page.typed
=============================================================================
