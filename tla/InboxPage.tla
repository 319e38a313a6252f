----------------------------- MODULE InboxPage ------------------------------
(***************************************************************************)
(* modules/notifications/frontend/src/components/NotificationsPage.jsx:    *)
(* the inbox, page by page.  rows gives for each notification, in the      *)
(* order they came, whether it is read; the list is newest first.          *)
(* Following a notification's link leaves the page and is no step of it.   *)
(***************************************************************************)
EXTENDS Calls, Integers

CONSTANTS
  PageSize,  \* PAGE_SIZE
  MaxNotes,  \* bound: notifications ever received
  MaxShown   \* bound: notifications on the page when more are asked for

Note == 1 .. MaxNotes
Item == [id : Note, read : BOOLEAN]

State == [items : Seq(Item), offset : Nat, hasMore : BOOLEAN, loading : BOOLEAN]

Request(c) ==
  \/ IsCall(c, "list", Nat, Seq(Item))
  \/ IsCall(c, "read", Note, {Done})
  \/ IsCall(c, "readAll", {None}, {Done})

Init ==
  /\ rows \in UNION { [1 .. n -> {FALSE}] : n \in 0 .. MaxNotes }
  /\ page = [items |-> <<>>, offset |-> 0, hasMore |-> TRUE, loading |-> TRUE]
  /\ net = <<Call("list", 0)>>
  /\ lag = FALSE

LoadMore ==
  /\ page.hasMore /\ ~page.loading /\ Len(page.items) <= MaxShown
  /\ page' = [page EXCEPT !.loading = TRUE]
  /\ Send("list", page.offset)
  /\ UNCHANGED <<rows, lag>>

\* Faulty: the offset counts one notification twice.
Loaded_Skip(i) ==
  /\ Answered(i, "list")
  /\ LET ans == net[i].ans
     IN  page' = IF ans = Failed THEN [page EXCEPT !.loading = FALSE]
                 ELSE [items   |-> IF net[i].arg = 0 THEN ans ELSE page.items \o ans,
                       hasMore |-> Len(ans) = PageSize,
                       offset  |-> net[i].arg + Len(ans) + 1,
                       loading |-> FALSE]
  /\ Take(i)
  /\ UNCHANGED <<rows, lag>>

Loaded(i) ==
  /\ Answered(i, "list")
  /\ LET ans == net[i].ans
     IN  page' = IF ans = Failed THEN [page EXCEPT !.loading = FALSE]
                 ELSE [items   |-> IF net[i].arg = 0 THEN ans ELSE page.items \o ans,
                       hasMore |-> Len(ans) = PageSize,
                       offset  |-> net[i].arg + Len(ans),
                       loading |-> FALSE]
  /\ Take(i)
  /\ UNCHANGED <<rows, lag>>

OpenItem ==
  /\ \E k \in DOMAIN page.items : ~page.items[k].read /\ Send("read", page.items[k].id)
  /\ UNCHANGED <<rows, page, lag>>

\* Whether it failed or not, the notification is shown as read.
Opened(i) ==
  /\ Answered(i, "read")
  /\ page' = [page EXCEPT !.items =
                [k \in DOMAIN @ |-> IF @[k].id = net[i].arg THEN [@[k] EXCEPT !.read = TRUE]
                                                           ELSE @[k]]]
  /\ lag' = (lag \/ net[i].ans = Failed)
  /\ Take(i)
  /\ UNCHANGED rows

MarkAllRead ==
  /\ Send("readAll", None)
  /\ UNCHANGED <<rows, page, lag>>

\* Whatever is on the page by now is shown as read.
AllMarked(i) ==
  /\ Answered(i, "readAll")
  /\ page' = [page EXCEPT !.items = [k \in DOMAIN @ |-> [@[k] EXCEPT !.read = TRUE]]]
  /\ lag' = (lag \/ net[i].ans = Failed)
  /\ Take(i)
  /\ UNCHANGED rows

-----------------------------------------------------------------------------
\* List: newest first, LIMIT and OFFSET.
Window(offset) ==
  LET left == Len(rows) - offset
  IN  [k \in 1 .. (IF left < PageSize THEN left ELSE PageSize) |->
         LET id == Len(rows) + 1 - offset - k IN [id |-> id, read |-> rows[id]]]

ServeList(i) == Sent(i, "list") /\ ServeRead(i, "list", Window(net[i].arg))

ServeOpen(i) ==
  /\ Sent(i, "read")
  /\ ServeWrite(i, "read", [rows EXCEPT ![net[i].arg] = TRUE], Done)

ServeAll(i) ==
  /\ Sent(i, "readAll")
  /\ ServeWrite(i, "readAll", [k \in DOMAIN rows |-> TRUE], Done)

\* A module sends a notification.
Notify ==
  /\ Len(rows) < MaxNotes
  /\ rows' = Append(rows, FALSE)
  /\ UNCHANGED <<page, net, lag>>

Next ==
  \/ LoadMore \/ OpenItem \/ MarkAllRead \/ Notify
  \/ \E i \in DOMAIN net :
       \/ Loaded(i) \/ Opened(i) \/ AllMarked(i)
       \/ ServeList(i) \/ ServeOpen(i) \/ ServeAll(i)

-----------------------------------------------------------------------------
TypeOK ==
  /\ page \in State
  /\ rows \in Seq(BOOLEAN) /\ Len(rows) <= MaxNotes
  /\ Len(net) <= MaxCalls /\ \A i \in DOMAIN net : Request(net[i])
  /\ lag \in BOOLEAN

\* However the inbox grows while it is read page by page, the page shows every
\* notification between the newest and the oldest that it shows; and when it
\* says that there are no more, the oldest is the first one ever received.
NoGaps ==
  /\ \A k \in 1 .. Len(page.items) - 1 : page.items[k + 1].id >= page.items[k].id - 1
  /\ page.items # <<>> /\ ~page.hasMore => page.items[Len(page.items)].id = 1
=============================================================================
