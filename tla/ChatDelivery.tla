---------------------------- MODULE ChatDelivery ----------------------------
(***************************************************************************)
(* modules/chat/backend/hub.go and notifyNewMessage (handlers.go): a new   *)
(* message is pushed over the WebSocket connections its two users have     *)
(* open, and becomes a notification for a recipient who has none.          *)
(*                                                                         *)
(* send copies the set of connections under the mutex and writes to them   *)
(* without it, and isOnline looks at the set a third time: connections     *)
(* come and go between these steps.  Nothing orders the writes to one      *)
(* connection either: those of several requests and of the connection's    *)
(* own ping goroutine may overlap, which gorilla/websocket does not allow. *)
(* They share a buffer, so one may be sent in place of the other, and a    *)
(* write that finds another under way panics.                              *)
(***************************************************************************)
EXTENDS Naturals, FiniteSets

CONSTANTS
  Peer,  \* users of the chat
  Conn,  \* WebSocket connections, each opened once
  Msg,   \* messages, each with the request that sends it
  Ping,  \* a connection's ping goroutine, which writes to it as well
  Nobody,  \* "nobody yet"
  MaxLoad  \* bound: connections opened and messages sent, together

ASSUME DeliveryConstants == Nobody \notin Peer /\ Ping \notin Msg /\ MaxLoad \in Nat

VARIABLES
  link,       \* a connection's state, as the network has it
  owner,      \* the user who opened it
  conns,      \* the hub's map: user -> registered connections
  post,       \* the request of each message
  busy,       \* who is inside WriteMessage on each connection
  met,        \* who met another writer there: pings, while they are at it;
              \* history for messages
  got,        \* what each connection's client has received
  inbox,      \* messages with a row in notifications.inbox
  companion,  \* history: the recipient's connections that were registered
              \* and alive all the time since the message was stored
  absent      \* history: messages whose recipient never was registered since

deliveryVars == <<link, owner, conns, post, busy, met, got, inbox, companion, absent>>

\* upgraded: the handshake is answered, register is next; gone: the client
\* is unreachable, the server does not know yet; closed: unregistered.
Link == {"unused", "upgraded", "open", "gone", "closed"}

\* unsent, then the steps of notifyNewMessage, then how the request ended.
Stage == {"unsent", "other", "toOther", "toSelf", "notify", "done", "dropped"}

Post == [at : Stage, from : Peer \cup {Nobody}, to : Peer \cup {Nobody},
         left : SUBSET Conn]

Unsent == [at |-> "unsent", from |-> Nobody, to |-> Nobody, left |-> {}]

Writer == Msg \cup {Ping}

writes == <<busy, met>>

\* The bound: several connections or several messages, not all at once.
RoomForMore ==
  Cardinality({ c \in Conn : link[c] # "unused" })
    + Cardinality({ m \in Msg : post[m].at # "unsent" }) < MaxLoad

IsOnline(u) == conns[u] # {}

-----------------------------------------------------------------------------
DeliveryInit ==
  /\ link = [c \in Conn |-> "unused"]
  /\ owner = [c \in Conn |-> Nobody]
  /\ conns = [u \in Peer |-> {}]
  /\ post = [m \in Msg |-> Unsent]
  /\ busy = [c \in Conn |-> {}]
  /\ met = [c \in Conn |-> {}]
  /\ got = [c \in Conn |-> {}]
  /\ inbox = {}
  /\ companion = [m \in Msg |-> {}]
  /\ absent = {}

\* A request writes to one connection at a time.
Writing(m) == \E c \in Conn : m \in busy[c]

\* A writer enters WriteMessage.
Enter(w, c) ==
  /\ busy' = [busy EXCEPT ![c] = @ \cup {w}]
  /\ met' = IF busy[c] = {} THEN met ELSE [met EXCEPT ![c] = @ \cup busy[c] \cup {w}]

Leaves(w, c) == busy' = [busy EXCEPT ![c] = @ \ {w}]

-----------------------------------------------------------------------------
(* serveWS: a connection's life.                                           *)

Upgrade(c, u) ==
  /\ link[c] = "unused" /\ RoomForMore
  /\ link' = [link EXCEPT ![c] = "upgraded"]
  /\ owner' = [owner EXCEPT ![c] = u]
  /\ UNCHANGED <<conns, post, writes, got, inbox>>

Register(c) ==
  /\ link[c] = "upgraded"
  /\ link' = [link EXCEPT ![c] = "open"]
  /\ conns' = [conns EXCEPT ![owner[c]] = @ \cup {c}]
  /\ UNCHANGED <<owner, post, writes, got, inbox>>

\* The tab is closed, the network fails, or a write to it fails for good.
Leave(c) ==
  /\ link[c] = "open"
  /\ link' = [link EXCEPT ![c] = "gone"]
  /\ UNCHANGED <<owner, conns, post, writes, got, inbox>>

\* Faulty: the read loop ends, and the connection stays in the map.
Unregister_Forgets(c) ==
  /\ link[c] = "gone"
  /\ link' = [link EXCEPT ![c] = "closed"]
  /\ UNCHANGED <<owner, conns, post, writes, got, inbox>>

\* The read loop ends, at the latest at the read deadline no pong extends.
Unregister(c) ==
  /\ link[c] = "gone"
  /\ link' = [link EXCEPT ![c] = "closed"]
  /\ conns' = [conns EXCEPT ![owner[c]] = @ \ {c}]
  /\ UNCHANGED <<owner, post, writes, got, inbox>>

-----------------------------------------------------------------------------
(* sendMessage, once the row is stored, and notifyNewMessage.              *)

Store(m, u, v) ==
  /\ post[m].at = "unsent" /\ RoomForMore
  /\ u # v
  /\ post' = [post EXCEPT ![m] = [at |-> "other", from |-> u, to |-> v, left |-> {}]]
  /\ UNCHANGED <<link, owner, conns, writes, got, inbox>>

\* send copies the connections of the recipient,
SnapshotOther(m) ==
  /\ post[m].at = "other"
  /\ post' = [post EXCEPT ![m].at = "toOther", ![m].left = conns[post[m].to]]
  /\ UNCHANGED <<link, owner, conns, writes, got, inbox>>

\* then writes to them one by one.
BeginWrite(m, c) ==
  /\ post[m].at \in {"toOther", "toSelf"}
  /\ ~Writing(m)
  /\ c \in post[m].left
  /\ post' = [post EXCEPT ![m].left = @ \ {c}]
  /\ Enter(m, c)
  /\ UNCHANGED <<link, owner, conns, got, inbox>>

\* Faulty: no write deadline, so the write waits for the client.
EndWrite_Waits(m, c) ==
  /\ m \in busy[c]
  /\ link[c] = "open"
  /\ Leaves(m, c)
  /\ got' = [got EXCEPT ![c] = @ \cup {m}]
  /\ UNCHANGED <<link, owner, conns, post, met, inbox>>

\* What is written to a connection that is gone is lost, and an error is only
\* logged.  A write that met another may have sent the other's bytes.
EndWrite(m, c) ==
  /\ m \in busy[c]
  /\ Leaves(m, c)
  /\ \/ link[c] = "open" /\ got' = [got EXCEPT ![c] = @ \cup {m}]
     \/ (link[c] # "open" \/ m \in met[c]) /\ UNCHANGED got
  /\ UNCHANGED <<link, owner, conns, post, met, inbox>>

\* "concurrent write to websocket connection": net/http recovers the panic and
\* drops the request, with the writes and the notification it had before it.
WritePanics(m, c) ==
  /\ m \in busy[c] \cap met[c]
  /\ Leaves(m, c)
  /\ post' = [post EXCEPT ![m].at = "dropped", ![m].left = {}]
  /\ UNCHANGED <<link, owner, conns, met, got, inbox>>

\* The ping goroutine writes every 30 s while serveWS runs.
BeginPing(c) ==
  /\ link[c] \in {"open", "gone"}
  /\ Ping \notin busy[c]
  /\ Enter(Ping, c)
  /\ UNCHANGED <<link, owner, conns, post, got, inbox>>

EndPing(c) ==
  /\ Ping \in busy[c]
  /\ Leaves(Ping, c)
  /\ met' = [met EXCEPT ![c] = @ \ {Ping}]
  /\ UNCHANGED <<link, owner, conns, post, got, inbox>>

\* Faulty: gives up on the remaining connections.
SnapshotSelf_Early(m) ==
  /\ post[m].at = "toOther" /\ ~Writing(m)
  /\ post' = [post EXCEPT ![m].at = "toSelf", ![m].left = conns[post[m].from]]
  /\ UNCHANGED <<link, owner, conns, writes, got, inbox>>

\* The second send, to the sender's own tabs.
SnapshotSelf(m) ==
  /\ post[m].at = "toOther"
  /\ post[m].left = {} /\ ~Writing(m)
  /\ post' = [post EXCEPT ![m].at = "toSelf", ![m].left = conns[post[m].from]]
  /\ UNCHANGED <<link, owner, conns, writes, got, inbox>>

\* Faulty: looks at the sender's connections.
CheckOnline_Sender(m) ==
  /\ post[m].at = "toSelf"
  /\ post[m].left = {} /\ ~Writing(m)
  /\ post' = [post EXCEPT ![m].at = IF IsOnline(post[m].from) THEN "done" ELSE "notify"]
  /\ UNCHANGED <<link, owner, conns, writes, got, inbox>>

\* isOnline: with a connection there is no notification.
CheckOnline(m) ==
  /\ post[m].at = "toSelf"
  /\ post[m].left = {} /\ ~Writing(m)
  /\ post' = [post EXCEPT ![m].at = IF IsOnline(post[m].to) THEN "done" ELSE "notify"]
  /\ UNCHANGED <<link, owner, conns, writes, got, inbox>>

\* One INSERT into the notifications module's table.
Notify(m) ==
  /\ post[m].at = "notify"
  /\ inbox' = inbox \cup {m}
  /\ post' = [post EXCEPT ![m].at = "done"]
  /\ UNCHANGED <<link, owner, conns, got, writes>>

\* A query of notifyNewMessage or the INSERT fails: the message is stored,
\* and nobody is told.
Drop(m) ==
  /\ post[m].at \in {"other", "notify"}
  /\ post' = [post EXCEPT ![m].at = "dropped"]
  /\ UNCHANGED <<link, owner, conns, writes, got, inbox>>

\* The backend restarts: every connection and every request in flight ends.
RestartHub ==
  /\ link' = [c \in Conn |-> IF link[c] = "unused" THEN "unused" ELSE "closed"]
  /\ conns' = [u \in Peer |-> {}]
  /\ post' = [m \in Msg |->
                IF post[m].at \in {"unsent", "done"} THEN post[m]
                ELSE [post[m] EXCEPT !.at = "dropped", !.left = {}]]
  /\ busy' = [c \in Conn |-> {}]
  /\ met' = [c \in Conn |-> met[c] \ {Ping}]
  /\ UNCHANGED <<owner, got, inbox>>

\* Nobody recovers a panic of the ping goroutine: it ends the process.
PingPanics(c) == Ping \in busy[c] \cap met[c] /\ RestartHub

-----------------------------------------------------------------------------
ServeTab(c) ==
  \/ \E u \in Peer : Upgrade(c, u)
  \/ Register(c) \/ Leave(c) \/ Unregister(c)
  \/ BeginPing(c) \/ EndPing(c) \/ PingPanics(c)

Deliver(m) ==
  \/ SnapshotOther(m)
  \/ \E c \in Conn : BeginWrite(m, c) \/ EndWrite(m, c) \/ WritePanics(m, c)
  \/ SnapshotSelf(m)
  \/ CheckOnline(m)
  \/ Notify(m)

PostMessage(m) == (\E u, v \in Peer : Store(m, u, v)) \/ Deliver(m) \/ Drop(m)

\* The recipient's connections that are registered and whose client is there.
Alive(m) == { c \in conns[post[m].to] : link[c] = "open" }

\* The histories start when a message is stored and then only shrink.
Watch ==
  /\ companion' = [m \in Msg |->
       IF post'[m].at = "unsent" THEN {}
       ELSE IF post[m].at = "unsent" THEN Alive(m)'
       ELSE companion[m] \cap Alive(m)']
  /\ absent' = { m \in Msg :
       /\ post'[m].at # "unsent"
       /\ post[m].at = "unsent" \/ m \in absent
       /\ conns'[post'[m].to] = {} }

DeliveryNext ==
  /\ (\E c \in Conn : ServeTab(c)) \/ (\E m \in Msg : PostMessage(m)) \/ RestartHub
  /\ Watch

\* Handlers run on: writes have a deadline of 5 s, reads one of 60 s.
Fairness ==
  /\ \A c \in Conn : WF_deliveryVars(Register(c) /\ Watch) /\ WF_deliveryVars(Unregister(c) /\ Watch)
  /\ \A m \in Msg : WF_deliveryVars(Deliver(m) /\ Watch)

DeliverySpec == DeliveryInit /\ [][DeliveryNext]_deliveryVars /\ Fairness

-----------------------------------------------------------------------------
(* Properties                                                              *)

\* The map, the requests and the histories are well-formed.
DeliveryTypeOK ==
  /\ link \in [Conn -> Link]
  /\ owner \in [Conn -> Peer \cup {Nobody}]
  /\ conns \in [Peer -> SUBSET Conn]
  /\ post \in [Msg -> Post]
  /\ busy \in [Conn -> SUBSET Writer]
  /\ met \in [Conn -> SUBSET Writer]
  /\ got \in [Conn -> SUBSET Msg]
  /\ inbox \in SUBSET Msg
  /\ companion \in [Msg -> SUBSET Conn]
  /\ absent \in SUBSET Msg

\* The hub's map is exact: it holds a user's own connections, those that were
\* registered and have not been unregistered, however the two interleave with
\* sends and restarts.
MapIsExact ==
  \A u \in Peer : conns[u] = { c \in Conn : owner[c] = u /\ link[c] \in {"open", "gone"} }

\* A tab of the recipient that was connected from before the message was
\* stored until its request ended has received it, whatever happened to the
\* other tabs meanwhile, unless another write met this one on that very tab's
\* connection.
ConnectedTabsHear ==
  \A m \in Msg : post[m].at = "done" => \A c \in companion[m] : m \in got[c] \cup met[c]

\* What hub.go:52-57 says of a recipient with a connection, "if they're online
\* they'll get it live over this same socket", of every tab that was connected
\* all the time: false, where two writes to one connection overlap.
OnlineHearLive ==
  \A m \in Msg : post[m].at = "done" => \A c \in companion[m] : m \in got[c]

\* A recipient who had no connection all that time has a notification.
AbsentAreNotified ==
  \A m \in absent : post[m].at = "done" => m \in inbox

\* A client that has vanished without a close frame does not pass for online
\* for ever: its connection leaves the map, and notifications resume.
GoneAreForgotten ==
  \A c \in Conn : link[c] = "gone" ~> \A u \in Peer : c \notin conns[u]

\* The sender gets an answer, however many of the connections written to have
\* died under the request.
SendsFinish ==
  \A m \in Msg : post[m].at # "unsent" ~> post[m].at \in {"done", "dropped"}
=============================================================================
