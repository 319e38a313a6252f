--------------------------- MODULE BroadcastsPage ---------------------------
(***************************************************************************)
(* modules/chat/frontend/src/components: the broadcasts of ChatPage and    *)
(* BroadcastsPanel, where administrators write them.  The panel is fetched *)
(* each time it is opened; a broadcast that is pushed is put in front, and *)
(* the megaphone in the sidebar gets a dot.  rows is the number of         *)
(* broadcasts; they are numbered in the order they were written.           *)
(***************************************************************************)
EXTENDS Calls

CONSTANTS
  Limit,     \* how many broadcasts the backend lists at most (50)
  MaxNews    \* bound: broadcasts ever written

News == 1 .. MaxNews

\* pushed is history: the broadcasts that reached the page over the socket.
State == [isAdmin : BOOLEAN, view : BOOLEAN, broadcasts : Seq(News), hasNew : BOOLEAN,
          sending : BOOLEAN, online : BOOLEAN, pushed : SUBSET News]

Request(c) ==
  \/ IsCall(c, "isAdmin", {None}, BOOLEAN)
  \/ IsCall(c, "list", {None}, Seq(News))
  \/ IsCall(c, "create", {None}, {Done})
  \/ IsCall(c, "event", News, {Done})

Init ==
  /\ rows \in 0 .. 1
  /\ page = [isAdmin |-> FALSE, view |-> FALSE, broadcasts |-> <<>>, hasNew |-> FALSE,
             sending |-> FALSE, online |-> FALSE, pushed |-> {}]
  /\ net = <<Call("isAdmin", None)>>
  /\ lag = FALSE

Answer(i) ==
  /\ Answered(i, "isAdmin")
  /\ page' = [page EXCEPT !.isAdmin = net[i].ans = TRUE]
  /\ Take(i)
  /\ UNCHANGED <<rows, lag>>

\* Also when the panel is open already: it is fetched again.
OpenBroadcasts ==
  /\ page' = [page EXCEPT !.view = TRUE, !.hasNew = FALSE]
  /\ Send("list", None)
  /\ UNCHANGED <<rows, lag>>

\* A conversation is opened, or Back.
CloseBroadcasts ==
  /\ page.view
  /\ page' = [page EXCEPT !.view = FALSE, !.sending = FALSE]
  /\ net' = Unmounted(net, {"create"})
  /\ UNCHANGED <<rows, lag>>

\* The list replaces what was pushed since it was read.
Listed(i) ==
  /\ Answered(i, "list")
  /\ page' = IF net[i].ans = Failed THEN page ELSE [page EXCEPT !.broadcasts = net[i].ans]
  /\ lag' = (lag \/ net[i].late \/ net[i].ans = Failed)
  /\ Take(i)
  /\ UNCHANGED rows

Submit ==
  /\ page.view /\ page.isAdmin /\ ~page.sending
  /\ page' = [page EXCEPT !.sending = TRUE]
  /\ Send("create", None)
  /\ UNCHANGED <<rows, lag>>

\* The author sees the broadcast when it is pushed.
Submitted(i) ==
  /\ Answered(i, "create")
  /\ page' = IF net[i].gone THEN page ELSE [page EXCEPT !.sending = FALSE]
  /\ Take(i)
  /\ UNCHANGED <<rows, lag>>

Connect ==
  /\ ~page.online
  /\ page' = [page EXCEPT !.online = TRUE]
  /\ UNCHANGED <<rows, net, lag>>

Break ==
  /\ page.online
  /\ page' = [page EXCEPT !.online = FALSE]
  /\ net' = SelectSeq(net, LAMBDA c : c.op # "event")
  /\ UNCHANGED <<rows, lag>>

\* Put in front, also when the list that was fetched has it already: it is then
\* shown twice until the panel is opened again.
Event(i) ==
  /\ Sent(i, "event")
  /\ \A j \in 1 .. i - 1 : net[j].op # "event"
  /\ page' = [page EXCEPT !.broadcasts = <<net[i].arg>> \o @, !.hasNew = TRUE,
                          !.pushed = @ \cup {net[i].arg}]
  /\ Take(i)
  /\ UNCHANGED <<rows, lag>>

-----------------------------------------------------------------------------
(* The backend: newest first; createBroadcast writes and pushes to all.    *)

ServeAdmin(i) == \E admin \in BOOLEAN : ServeRead(i, "isAdmin", admin)
ServeList(i) ==
  ServeRead(i, "list", [k \in 1 .. (IF rows > Limit THEN Limit ELSE rows) |-> rows + 1 - k])

\* A push may be lost, where it meets another write to the connection.
Pushes == {<<>>} \cup { <<Call("event", b)>> : b \in { n \in {rows + 1} : page.online } }

ServeCreate(i) ==
  /\ Sent(i, "create")
  /\ \/ /\ rows < MaxNews
        /\ rows' = rows + 1
        /\ \E ans \in {Done, Failed}, push \in Pushes :
             net' = [net EXCEPT ![i].ans = ans] \o push
     \/ UNCHANGED rows /\ Reply(i, Failed)
  /\ UNCHANGED <<page, lag>>

\* Another administrator writes one.
Elsewhere ==
  /\ rows < MaxNews
  /\ rows' = rows + 1
  /\ \E push \in Pushes : net' = net \o push
  /\ UNCHANGED <<page, lag>>

Next ==
  \/ OpenBroadcasts \/ CloseBroadcasts \/ Submit \/ Connect \/ Break \/ Elsewhere
  \/ \E i \in DOMAIN net :
       \/ Answer(i) \/ Listed(i) \/ Submitted(i) \/ Event(i)
       \/ ServeAdmin(i) \/ ServeList(i) \/ ServeCreate(i)

-----------------------------------------------------------------------------
TypeOK ==
  /\ page \in State
  /\ rows \in 0 .. MaxNews
  /\ \A i \in DOMAIN net : Request(net[i])
  /\ lag \in BOOLEAN

\* Of the broadcasts that reached the page, those that the backend would list are
\* in the panel or the dot is there, also when a list that was read before a push
\* takes it out of the panel again; but for a list that failed, that is under
\* way, or that a later one has overtaken.
NothingIsMissed ==
  ~lag /\ (\A i \in DOMAIN net : net[i].op # "list") =>
    \A b \in page.pushed :
      page.hasNew \/ b + Limit <= rows
        \/ \E k \in DOMAIN page.broadcasts : page.broadcasts[k] = b
=============================================================================
