-------------------------------- MODULE Bell --------------------------------
(***************************************************************************)
(* components/NotificationBell.jsx, the bell in every module's header: the *)
(* number of unread notifications, fetched when the page opens and every   *)
(* POLL_MS, and a panel with the newest.  rows gives for each notification *)
(* in the order they came, whether it is read.  Between two polls the bell *)
(* counts on its own, whatever came in meanwhile and whether or not its    *)
(* requests succeed.  Following a link leaves the page.                    *)
(***************************************************************************)
EXTENDS Calls, Integers

CONSTANTS
  PanelSize,  \* limit=8
  MaxNotes,   \* bound: notifications ever received
  MaxTouches  \* bound: what the user does in a behaviour

Note == 1 .. MaxNotes
Item == [id : Note, read : BOOLEAN]

\* touches counts what the user did.
State == [open : BOOLEAN, items : Seq(Item), unread : Nat, touches : 0 .. MaxTouches]

Answer == [count : Nat, items : Seq(Item)]

Request(c) ==
  \/ IsCall(c, "count", {None}, Answer)
  \/ IsCall(c, "items", {None}, Answer)
  \/ IsCall(c, "read", Note, {Done})
  \/ IsCall(c, "readAll", {None}, {Done})

Unread == Len(SelectSeq(rows, LAMBDA read : ~read))

Init ==
  /\ rows \in UNION { [1 .. n -> {FALSE}] : n \in 0 .. MaxNotes }
  /\ page = [open |-> FALSE, items |-> <<>>, unread |-> 0, touches |-> 0]
  /\ net = <<Call("count", None)>>
  /\ lag = FALSE

\* setInterval: at any time, also while an earlier poll is unanswered.
Poll ==
  /\ Send("count", None)
  /\ UNCHANGED <<rows, page, lag>>

\* Faulty: only the first count is taken.
Counted_Once(i) ==
  /\ Answered(i, "count")
  /\ page' = [page EXCEPT !.unread = IF net[i].ans = Failed \/ @ > 0 THEN @ ELSE net[i].ans.count]
  /\ Take(i)
  /\ UNCHANGED <<rows, lag>>

Counted(i) ==
  /\ Answered(i, "count")
  /\ page' = [page EXCEPT !.unread = IF net[i].ans = Failed THEN @ ELSE net[i].ans.count]
  /\ Take(i)
  /\ UNCHANGED <<rows, lag>>

-----------------------------------------------------------------------------
Touch(p) == p.touches < MaxTouches /\ page' = [p EXCEPT !.touches = @ + 1]

\* Opening the panel fetches it.
OpenPanel ==
  /\ ~page.open
  /\ Touch([page EXCEPT !.open = TRUE])
  /\ Send("items", None)
  /\ UNCHANGED <<rows, lag>>

\* The bell again, or a click anywhere else.
ClosePanel ==
  /\ page.open
  /\ page' = [page EXCEPT !.open = FALSE]
  /\ UNCHANGED <<rows, net, lag>>

Listed(i) ==
  /\ Answered(i, "items")
  /\ page' = [page EXCEPT !.items = IF net[i].ans = Failed THEN @ ELSE net[i].ans.items]
  /\ Take(i)
  /\ UNCHANGED <<rows, lag>>

OpenItem ==
  /\ page.open
  /\ \E k \in DOMAIN page.items :
       /\ ~page.items[k].read
       /\ Touch(page)
       /\ Send("read", page.items[k].id)
  /\ UNCHANGED <<rows, lag>>

\* One less, once more for every click on it before the answer came.
Opened(i) ==
  /\ Answered(i, "read")
  /\ page' = [page EXCEPT
       !.items = [k \in DOMAIN @ |-> IF @[k].id = net[i].arg THEN [@[k] EXCEPT !.read = TRUE]
                                                             ELSE @[k]],
       !.unread = IF @ > 0 THEN @ - 1 ELSE 0]
  /\ Take(i)
  /\ UNCHANGED <<rows, lag>>

MarkAllRead ==
  /\ page.open /\ page.unread > 0
  /\ Touch(page)
  /\ Send("readAll", None)
  /\ UNCHANGED <<rows, lag>>

AllMarked(i) ==
  /\ Answered(i, "readAll")
  /\ page' = [page EXCEPT !.items = [k \in DOMAIN @ |-> [@[k] EXCEPT !.read = TRUE]],
                          !.unread = 0]
  /\ Take(i)
  /\ UNCHANGED <<rows, lag>>

-----------------------------------------------------------------------------
(* The backend.                                                            *)

\* UnreadCount; List with the newest PanelSize.
Count == [count |-> Unread, items |-> <<>>]

Newest ==
  LET n == IF Len(rows) < PanelSize THEN Len(rows) ELSE PanelSize
  IN  [count |-> 0,
       items |-> [k \in 1 .. n |-> [id |-> Len(rows) + 1 - k, read |-> rows[Len(rows) + 1 - k]]]]

ServeCount(i) == ServeRead(i, "count", Count)
ServeItems(i) == ServeRead(i, "items", Newest)

ServeOpen(i) ==
  /\ Sent(i, "read")
  /\ ServeWrite(i, "read", [rows EXCEPT ![net[i].arg] = TRUE], Done)

ServeAll(i) ==
  /\ Sent(i, "readAll")
  /\ ServeWrite(i, "readAll", [k \in DOMAIN rows |-> TRUE], Done)

Notify ==
  /\ Len(rows) < MaxNotes
  /\ rows' = Append(rows, FALSE)
  /\ UNCHANGED <<page, net, lag>>

Handle(i) == Counted(i) \/ Listed(i) \/ Opened(i) \/ AllMarked(i)
Serve(i) == ServeCount(i) \/ ServeItems(i) \/ ServeOpen(i) \/ ServeAll(i)

Next ==
  \/ Poll \/ OpenPanel \/ ClosePanel \/ OpenItem \/ MarkAllRead \/ Notify
  \/ \E i \in DOMAIN net : Handle(i) \/ Serve(i)

-----------------------------------------------------------------------------
\* A poll that is not answered with an error.
PollAnswered ==
  \E i \in DOMAIN net : Sent(i, "count") /\ Reply(i, Count) /\ UNCHANGED <<rows, page, lag>>

TypeOK ==
  /\ page \in State
  /\ rows \in Seq(BOOLEAN) /\ Len(rows) <= MaxNotes
  /\ Len(net) <= MaxCalls /\ \A i \in DOMAIN net : Request(net[i])
  /\ lag \in BOOLEAN
=============================================================================
