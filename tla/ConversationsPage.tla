-------------------------- MODULE ConversationsPage -------------------------
(***************************************************************************)
(* modules/chat/frontend/src/components: the list of conversations in      *)
(* ChatPage and ConversationSidebar, below it the friends without one, and *)
(* the conversation that is selected.  rows is the set of friends with     *)
(* whom there is a conversation.  The friends themselves are in module     *)
(* FriendsPage, the messages in ThreadPage; the order of the list and the  *)
(* numbers of unread messages are left out.                                *)
(***************************************************************************)
EXTENDS Calls

CONSTANT User   \* friends

State == [convs : SUBSET User, selected : User \cup {None}, online : BOOLEAN]

\* An event carries a message's conversation, or None for a friend event.
Request(c) ==
  \/ IsCall(c, "convs", {None}, SUBSET User)
  \/ IsCall(c, "start", User, {Done})
  \/ IsCall(c, "event", User \cup {None}, {Done})

refreshConversations == <<Call("convs", None)>>

Init ==
  /\ rows \in SUBSET User
  /\ page = [convs |-> {}, selected |-> None, online |-> FALSE]
  /\ net = refreshConversations
  /\ lag = FALSE

\* Something under way will have the list fetched again, once it shows now.
Coming(i, now) ==
  \E j \in DOMAIN net \ {i} :
    \/ net[j].op = "convs"
    \/ net[j].op = "start" /\ net[j].ans = Done
    \/ net[j].op = "event" /\ net[j].arg \notin now

Loaded(i) ==
  /\ Answered(i, "convs")
  /\ LET now == IF net[i].ans = Failed THEN page.convs ELSE net[i].ans
     IN  /\ page' = [page EXCEPT !.convs = now]
         /\ lag' = (lag \/ (now # rows /\ ~Coming(i, now)))
  /\ net' = Others(i)
  /\ UNCHANGED rows

OpenConversation ==
  /\ \E u \in page.convs : page' = [page EXCEPT !.selected = u]
  /\ UNCHANGED <<rows, net, lag>>

Back ==
  /\ page.selected # None
  /\ page' = [page EXCEPT !.selected = None]
  /\ UNCHANGED <<rows, net, lag>>

\* A friend who is not in the list of conversations.
StartConversation ==
  /\ \E u \in User \ page.convs : Send("start", u)
  /\ UNCHANGED <<rows, page, lag>>

\* It is in the list at once, and the list is fetched all the same: an older
\* answer under way may take it out again.
Started(i) ==
  /\ Answered(i, "start")
  /\ IF net[i].ans = Failed
       THEN net' = Others(i) /\ UNCHANGED page
       ELSE /\ page' = [page EXCEPT !.convs = @ \cup {net[i].arg}, !.selected = net[i].arg]
            /\ net' = Others(i) \o refreshConversations
  /\ UNCHANGED <<rows, lag>>

Connect ==
  /\ ~page.online
  /\ page' = [page EXCEPT !.online = TRUE]
  /\ UNCHANGED <<rows, net, lag>>

Break ==
  /\ page.online
  /\ page' = [page EXCEPT !.online = FALSE]
  /\ net' = SelectSeq(net, LAMBDA c : c.op # "event")
  /\ lag' = (lag \/ net' # net)
  /\ UNCHANGED rows

Event(i) ==
  /\ Sent(i, "event")
  /\ net' = Others(i) \o (IF net[i].arg \in page.convs THEN <<>> ELSE refreshConversations)
  /\ UNCHANGED <<rows, page, lag>>

-----------------------------------------------------------------------------
(* The backend.                                                            *)

ServeConvs(i) == ServeRead(i, "convs", rows)

\* GetOrCreateConversation, or a refusal to someone who is no friend any more.
ServeStart(i) ==
  /\ Sent(i, "start")
  /\ ServeWrite(i, "start", rows \cup {net[i].arg}, Done) \/ ServeRefusal(i, "start")

\* A friend writes, in a conversation that may be new; or there is a new friend.
\* Nothing is pushed when a friend opens a conversation and does not write, and a
\* push may be lost, where it meets another write to the connection.
OtherWrites ==
  /\ Len(net) <= MaxCalls
  /\ \E u \in User \cup {None} :
       /\ rows' = rows \cup ({u} \ {None})
       /\ \E told \in {FALSE, page.online} :
            /\ net' = net \o (IF told THEN <<Call("event", u)>> ELSE <<>>)
            /\ lag' = (lag \/ ~told)
  /\ UNCHANGED page

OtherStarts == \E u \in User : Foreign(rows \cup {u})

Next ==
  \/ OpenConversation \/ Back \/ StartConversation \/ Connect \/ Break
  \/ OtherWrites \/ OtherStarts
  \/ \E i \in DOMAIN net :
       \/ Loaded(i) \/ Started(i) \/ Event(i) \/ ServeConvs(i) \/ ServeStart(i)

-----------------------------------------------------------------------------
TypeOK ==
  /\ page \in State
  /\ rows \subseteq User
  /\ \A i \in DOMAIN net : Request(net[i])
  /\ lag \in BOOLEAN

\* When nothing is under way the sidebar lists the conversations there are, the
\* one whose thread is open among them, but for what is told to nobody and for
\* pushes and answers that were lost or came too late.
ConversationsAreListed ==
  Quiet /\ ~lag => page.convs = rows /\ page.selected \in page.convs \cup {None}
=============================================================================
