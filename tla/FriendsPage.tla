----------------------------- MODULE FriendsPage ----------------------------
(***************************************************************************)
(* modules/chat/frontend/src/components: ChatPage's friends and pending    *)
(* requests, as ConversationSidebar shows them.  They are two requests,    *)
(* sent together when something happened that may have changed them.       *)
(* rows has for each other user the status of the friend request that      *)
(* either of the two has sent the other.                                   *)
(***************************************************************************)
EXTENDS Calls

CONSTANT User   \* the other users

Status == {None, "pending", "accepted", "declined"}
Relation == [mine : Status, theirs : Status]

Lists == {"friends", "requests"}
Pending == SUBSET (User \X {"incoming", "outgoing"})

\* online: the socket is registered at the backend.
State == [friends : SUBSET User, requests : Pending, online : BOOLEAN]

Request(c) ==
  \/ IsCall(c, "friends", {None}, SUBSET User)
  \/ IsCall(c, "requests", {None}, Pending)
  \/ \E op \in {"ask", "accept", "decline"} : IsCall(c, op, User, {Done})
  \/ IsCall(c, "event", {None}, {Done})

AreFriends(u) == rows[u].mine = "accepted" \/ rows[u].theirs = "accepted"

Listing(list) ==
  CASE list = "friends" -> { u \in User : AreFriends(u) }
    [] list = "requests" -> { u \in User : rows[u].theirs = "pending" } \X {"incoming"}
                              \cup { u \in User : rows[u].mine = "pending" } \X {"outgoing"}

refreshFriends == <<Call("friends", None), Call("requests", None)>>

Init ==
  /\ rows \in [User -> [mine : {None, "accepted"}, theirs : {None, "pending"}]]
  /\ page = [friends |-> {}, requests |-> {}, online |-> FALSE]
  /\ net = refreshFriends
  /\ lag = FALSE

\* Something under way will have the list fetched again.
Coming(i, list) ==
  \E j \in DOMAIN net \ {i} :
    \/ net[j].op \in {list, "ask", "event"}
    \/ net[j].op \in {"accept", "decline"} /\ net[j].ans = Done

\* One of the two answers.
Loaded(i, list) ==
  /\ Answered(i, list)
  /\ page' = IF net[i].ans = Failed THEN page ELSE [page EXCEPT ![list] = net[i].ans]
  /\ lag' = (lag \/ (page'[list] # Listing(list) /\ ~Coming(i, list)))
  /\ net' = Others(i)
  /\ UNCHANGED rows

-----------------------------------------------------------------------------
(* What the user does.                                                     *)

\* UserPicker offers as new friends those in neither list.
Pickable == User \ (page.friends \cup { r[1] : r \in page.requests })

AddFriend ==
  /\ \E u \in Pickable : Send("ask", u)
  /\ UNCHANGED <<rows, page, lag>>

\* Faulty: what was written although the answer is an error is not fetched.
Asked_Checked(i) ==
  /\ Answered(i, "ask")
  /\ net' = Others(i) \o (IF net[i].ans = Failed THEN <<>> ELSE refreshFriends)
  /\ UNCHANGED <<rows, page, lag>>

Asked(i) ==
  /\ Answered(i, "ask")
  /\ net' = Others(i) \o refreshFriends
  /\ UNCHANGED <<rows, page, lag>>

AcceptRequest ==
  /\ \E u \in User : <<u, "incoming">> \in page.requests /\ Send("accept", u)
  /\ UNCHANGED <<rows, page, lag>>

DeclineRequest ==
  /\ \E u \in User : <<u, "incoming">> \in page.requests /\ Send("decline", u)
  /\ UNCHANGED <<rows, page, lag>>

Replied(i) ==
  /\ Answered(i, "accept") \/ Answered(i, "decline")
  /\ net' = Others(i) \o (IF net[i].ans = Failed THEN <<>> ELSE refreshFriends)
  /\ UNCHANGED <<rows, page, lag>>

-----------------------------------------------------------------------------
(* The socket.                                                             *)

Connect ==
  /\ ~page.online
  /\ page' = [page EXCEPT !.online = TRUE]
  /\ UNCHANGED <<rows, net, lag>>

Break ==
  /\ page.online
  /\ page' = [page EXCEPT !.online = FALSE]
  /\ net' = SelectSeq(net, LAMBDA c : c.op # "event")
  /\ lag' = (lag \/ net' # net)
  /\ UNCHANGED rows

\* friend_request or friend_accepted.
Event(i) ==
  /\ Sent(i, "event")
  /\ net' = Others(i) \o refreshFriends
  /\ UNCHANGED <<rows, page, lag>>

-----------------------------------------------------------------------------
(* The backend (module ChatFriends has its statements).  The rows change,  *)
(* those who should know are told, and then the answer is written.         *)

ServeLists(i) == \E list \in Lists : ServeRead(i, list, Listing(list))

\* A push may be lost, where it meets another write to the connection.
Pushed(told) == IF told THEN <<Call("event", None)>> ELSE <<>>

\* An executed request, whose answer may be lost; told is whether this user is
\* told of it.  After an ask everything is fetched whatever the answer is.
Executed(i, newRows, told) ==
  /\ rows' = newRows
  /\ \E ans \in {Done, Failed}, pushed \in {FALSE, told} :
       /\ net' = [net EXCEPT ![i].ans = ans] \o Pushed(pushed)
       /\ lag' = (lag \/ (ans = Failed /\ net[i].op # "ask"))
  /\ UNCHANGED page

ServeAsk(i) ==
  /\ Sent(i, "ask")
  /\ LET u == net[i].arg
     IN  IF rows[u].theirs = "pending"
           THEN Executed(i, [rows EXCEPT ![u].theirs = "accepted"], page.online)
           ELSE Executed(i, [rows EXCEPT ![u].mine = "pending"], FALSE)

\* Only a pending request can be accepted or declined.
ServeAccept(i) ==
  /\ Sent(i, "accept")
  /\ IF rows[net[i].arg].theirs = "pending"
       THEN Executed(i, [rows EXCEPT ![net[i].arg].theirs = "accepted"], page.online)
       ELSE ServeRefusal(i, "accept")

ServeDecline(i) ==
  /\ Sent(i, "decline")
  /\ IF rows[net[i].arg].theirs = "pending"
       THEN Executed(i, [rows EXCEPT ![net[i].arg].theirs = "declined"], FALSE)
       ELSE ServeRefusal(i, "decline")

\* The other user does something, and this one is told.
Told(newRows) ==
  /\ Len(net) <= MaxCalls
  /\ rows' = newRows
  /\ \E told \in {FALSE, page.online} : /\ net' = net \o Pushed(told)
                                        /\ lag' = (lag \/ ~told)
  /\ UNCHANGED page

OtherAsks ==
  \E u \in User :
    Told(IF rows[u].mine = "pending" THEN [rows EXCEPT ![u].mine = "accepted"]
                                     ELSE [rows EXCEPT ![u].theirs = "pending"])

OtherAccepts ==
  \E u \in User : rows[u].mine = "pending" /\ Told([rows EXCEPT ![u].mine = "accepted"])

\* Declining is told to nobody.
OtherDeclines ==
  \E u \in User : rows[u].mine = "pending" /\ Foreign([rows EXCEPT ![u].mine = "declined"])

Next ==
  \/ AddFriend \/ AcceptRequest \/ DeclineRequest \/ Connect \/ Break
  \/ OtherAsks \/ OtherAccepts \/ OtherDeclines
  \/ \E i \in DOMAIN net :
       \/ \E list \in Lists : Loaded(i, list)
       \/ Asked(i) \/ Replied(i) \/ Event(i)
       \/ ServeLists(i) \/ ServeAsk(i) \/ ServeAccept(i) \/ ServeDecline(i)

-----------------------------------------------------------------------------
TypeOK ==
  /\ page \in State
  /\ rows \in [User -> Relation]
  /\ \A i \in DOMAIN net : Request(net[i])
  /\ lag \in BOOLEAN

\* When nothing is under way the sidebar shows the friends and requests there
\* are, but for a decline, which is told to nobody, and for pushes and answers
\* that were lost or came too late.
FriendsAreCurrent ==
  Quiet /\ ~lag => \A list \in Lists : page[list] = Listing(list)
=============================================================================
