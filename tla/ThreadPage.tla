----------------------------- MODULE ThreadPage -----------------------------
(***************************************************************************)
(* modules/chat/frontend/src/components: the messages in ChatPage, and     *)
(* MessageThread, which shows those of one conversation.  The thread is    *)
(* fetched when a conversation is opened; from then on messages are added  *)
(* as they come over the socket, or as answers to what was sent here.  The *)
(* backend pushes a message to its sender too, before it answers.  rows    *)
(* has all messages, in the order they were written; the place of one is   *)
(* its id.  The sidebar with the list of conversations and what is unread  *)
(* in them is module ConversationsPage.                                     *)
(***************************************************************************)
EXTENDS Calls, FiniteSets

CONSTANTS
  Conv,     \* conversations, one with each friend
  Limit,    \* how many messages the backend answers at most (50)
  MaxMsgs   \* bound: messages ever written

Id == 1 .. MaxMsgs

\* view is FALSE when the broadcasts are shown instead; online: the socket is
\* registered.
State == [selected : Conv \cup {None}, view : BOOLEAN,
          messages : Seq(Id), online : BOOLEAN]

Request(c) ==
  \/ IsCall(c, "list", Conv, Seq(Id))
  \/ IsCall(c, "mark", Conv, {Done})
  \/ IsCall(c, "send", Conv, Id)
  \/ IsCall(c, "upload", Conv, Id)
  \/ IsCall(c, "event", Id, {Done})

MessagesOf(c) == SelectSeq([k \in 1 .. Len(rows) |-> k], LAMBDA k : rows[k] = c)
Elements(s) == { s[k] : k \in DOMAIN s }
Newest(s) == IF Len(s) > Limit THEN SubSeq(s, Len(s) - Limit + 1, Len(s)) ELSE s

Init ==
  /\ rows = <<>>
  /\ page = [selected |-> None, view |-> TRUE, messages |-> <<>>,
             online |-> FALSE]
  /\ net = <<>>
  /\ lag = FALSE

Handled(i) == net' = Others(i)

\* selectedConversationRef
Open == IF page.view THEN page.selected ELSE None

-----------------------------------------------------------------------------
(* Opening a conversation: its messages are fetched, then marked read.     *)

OpenConversation ==
  /\ \E c \in Conv : /\ page' = [page EXCEPT !.view = TRUE, !.selected = c]
                    /\ Send("list", c)
  /\ UNCHANGED <<rows, lag>>

\* An answer that comes late fills the thread of whatever is open by now.
\* Messages that came meanwhile and are not in the answer are gone again.
ListMessages(i) ==
  /\ Answered(i, "list")
  /\ LET c == net[i].arg
         list == net[i].ans
         newer == { k \in Elements(MessagesOf(c)) : \A j \in Elements(list) : k > j }
         coming == { net[j].arg : j \in { k \in DOMAIN net : net[k].op = "event" } }
     IN  IF list = Failed
           THEN /\ page' = [page EXCEPT !.messages = <<>>]
                /\ lag' = TRUE
                /\ Handled(i)
           ELSE /\ page' = [page EXCEPT !.messages = list]
                /\ lag' = (c # page.selected
                             \/ ~(newer \subseteq coming))
                /\ net' = Others(i) \o <<Call("mark", c)>>
  /\ UNCHANGED rows

\* An error here empties the thread that was fetched.
Marked(i) ==
  /\ Answered(i, "mark")
  /\ IF net[i].ans = Failed
       THEN /\ page' = [page EXCEPT !.messages = <<>>]
            /\ lag' = TRUE
       ELSE UNCHANGED <<page, lag>>
  /\ Handled(i)
  /\ UNCHANGED rows

\* The button of small screens.
Back ==
  /\ page.selected # None \/ ~page.view
  /\ page' = [page EXCEPT !.selected = None, !.view = TRUE]
  /\ UNCHANGED <<rows, net, lag>>

\* MessageThread leaves the page.
OpenBroadcasts ==
  /\ page.view
  /\ page' = [page EXCEPT !.view = FALSE]
  /\ net' = Unmounted(net, {"upload"})
  /\ UNCHANGED <<rows, lag>>

-----------------------------------------------------------------------------
(* Sending.                                                                *)

Uploading == \E i \in DOMAIN net : net[i].op = "upload" /\ ~net[i].gone

Compose ==
  /\ Open # None /\ ~Uploading
  /\ Send("send", page.selected) \/ Send("upload", page.selected)
  /\ UNCHANGED <<rows, page, lag>>

Added(messages, id) ==
  IF id \in Elements(messages) THEN messages ELSE Append(messages, id)

\* Faulty: as it was before the fix that the comment in the code tells of.
Composed_Doubled(i) ==
  /\ Answered(i, "send") \/ Answered(i, "upload")
  /\ LET c == net[i].arg
         id == net[i].ans
     IN  IF id = Failed
           THEN UNCHANGED <<page, lag>>
           ELSE /\ page' = [page EXCEPT !.messages = Append(@, id)]
                /\ lag' = (lag \/ c # page.selected)
  /\ Handled(i)
  /\ UNCHANGED rows

\* The answer is added to the thread that is open by now, once.
Composed(i) ==
  /\ Answered(i, "send") \/ Answered(i, "upload")
  /\ LET c == net[i].arg
         id == net[i].ans
     IN  IF id = Failed
           THEN UNCHANGED <<page, lag>>
           ELSE /\ page' = [page EXCEPT !.messages = Added(@, id)]
                /\ lag' = (lag \/ c # page.selected)
  /\ Handled(i)
  /\ UNCHANGED rows

-----------------------------------------------------------------------------
(* The socket.  Frames of one connection arrive in order; those on the way *)
(* when it breaks are lost, and what was missed is not fetched afterwards. *)

Connect ==
  /\ ~page.online
  /\ page' = [page EXCEPT !.online = TRUE]
  /\ UNCHANGED <<rows, net, lag>>

Break ==
  /\ page.online
  /\ page' = [page EXCEPT !.online = FALSE]
  /\ net' = SelectSeq(net, LAMBDA c : c.op # "event")
  /\ lag' = (lag \/ net' # net)
  /\ UNCHANGED rows

Event(i) ==
  /\ Sent(i, "event")
  /\ \A j \in 1 .. i - 1 : net[j].op # "event"
  /\ LET id == net[i].arg
     IN  page' = IF rows[id] # Open THEN page
                 ELSE [page EXCEPT !.messages = Added(@, id)]
  /\ Handled(i)
  /\ UNCHANGED <<rows, lag>>

-----------------------------------------------------------------------------
(* The backend.  A message is written, pushed, and then answered.  A push  *)
(* may be lost, where it meets another write to the connection (module     *)
(* ChatDelivery).                                                          *)

Pushed(told) == IF told THEN <<Call("event", Len(rows) + 1)>> ELSE <<>>

ServeList(i) == Sent(i, "list") /\ ServeRead(i, "list", Newest(MessagesOf(net[i].arg)))

ServeMark(i) == Sent(i, "mark") /\ ServeRead(i, "mark", Done)

\* The answer can be lost.  An upload that fails on the disk has written its
\* message and pushes nothing.
ServeMessage(i) ==
  /\ Sent(i, "send") \/ Sent(i, "upload")
  /\ \/ /\ Len(rows) < MaxMsgs
        /\ rows' = Append(rows, net[i].arg)
        /\ \E ans \in {Len(rows) + 1, Failed}, told \in {FALSE, page.online} :
             /\ net' = [net EXCEPT ![i].ans = ans] \o Pushed(told)
             /\ lag' = (lag \/ ~told)
     \/ /\ net[i].op = "upload" /\ Len(rows) < MaxMsgs
        /\ rows' = Append(rows, net[i].arg)
        /\ Reply(i, Failed)
        /\ lag' = TRUE
     \/ UNCHANGED <<rows, lag>> /\ Reply(i, Failed)
  /\ UNCHANGED page

\* A friend writes, or this user does in another tab.
Elsewhere ==
  /\ Len(rows) < MaxMsgs
  /\ \E c \in Conv : rows' = Append(rows, c)
  /\ \E told \in {FALSE, page.online} : /\ net' = net \o Pushed(told)
                                        /\ lag' = (lag \/ ~told)
  /\ UNCHANGED page

Next ==
  \/ OpenConversation \/ Back \/ OpenBroadcasts \/ Compose
  \/ Connect \/ Break \/ Elsewhere
  \/ \E i \in DOMAIN net :
       \/ ListMessages(i) \/ Marked(i) \/ Composed(i) \/ Event(i)
       \/ ServeList(i) \/ ServeMark(i) \/ ServeMessage(i)

-----------------------------------------------------------------------------
TypeOK ==
  /\ page \in State
  /\ rows \in Seq(Conv) /\ Len(rows) <= MaxMsgs
  /\ \A i \in DOMAIN net : Request(net[i])
  /\ lag \in BOOLEAN

\* A message is in the thread once, whether the push or the answer comes first.
NoDoubles == Cardinality(Elements(page.messages)) = Len(page.messages)

\* When nothing is under way the open thread shows messages of its conversation
\* only, with all that are newer than the oldest it shows, and at least as many as
\* the backend lists; but for the reasons lag records: a push was lost, a request
\* failed, the user changed to another conversation while one was under way, or
\* the list that was fetched is older than a message already shown.
ThreadIsComplete ==
  Quiet /\ ~lag /\ Open # None =>
    LET shown == Elements(page.messages)
        there == Elements(MessagesOf(Open))
    IN  /\ shown \subseteq there
        /\ \A k \in there : (\E j \in shown : j < k) => k \in shown
        /\ Elements(Newest(MessagesOf(Open))) \subseteq shown
=============================================================================
