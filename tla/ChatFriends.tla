---------------------------- MODULE ChatFriends ----------------------------
(***************************************************************************)
(* modules/chat/backend: friend requests, the conversations they allow and *)
(* the messages in them (store.go and the handlers that call it).          *)
(*                                                                         *)
(* As in every backend here a request is a few SQL statements, each        *)
(* committed on its own: the status of a friend request is read by one     *)
(* statement and written by a later one, and the friendship that allows a  *)
(* conversation is checked before the conversation is looked up and        *)
(* created.                                                                *)
(***************************************************************************)
EXTENDS Tables, Integers, FiniteSets

CONSTANTS
  Person,   \* users; ids are compared as text, here as numbers
  Handler,  \* the backend's handlers: how many HTTP requests may be in flight at once
  Nil       \* "no such field" in a request

ASSUME ChatConstants == Person \subseteq Int /\ Nil \notin Person

VARIABLES
  requests,       \* table friend_requests: <<from_user_id, to_user_id>> -> status
  conversations,  \* table conversations: <<user_a_id, user_b_id>> -> who has written
  handler,        \* the requests in flight
  asked,          \* history: <<u, v>> when u has asked v, or answered yes to v
  befriended      \* history: {u, v} when u and v have been friends

tables == <<requests, conversations>>
friendsVars == <<tables, handler, asked, befriended>>

Status == {"pending", "accepted", "declined"}
Pair   == Person \X Person

\* The UNIQUE key of both tables stands for the id: rows are never deleted,
\* and neither table ever has two rows with one key.
Statement == {"idle", "reverse", "insert", "pending", "update",
              "friends", "find", "create"}

Handling == [at : Statement, user : Person \cup {Nil}, other : Person \cup {Nil},
             request : Pair \cup {Nil}]

Resting == [at |-> "idle", user |-> Nil, other |-> Nil, request |-> Nil]

HasStatus(p, s) == p \in DOMAIN requests /\ requests[p] = s

\* AreFriends: an accepted request, in either direction.
Friends(u, v) == HasStatus(<<u, v>>, "accepted") \/ HasStatus(<<v, u>>, "accepted")

\* Faulty: the key depends on who asks.
ConversationKey_AsGiven(u, v) == <<u, v>>

\* conversationKey: one key for the pair, whoever asks.
ConversationKey(u, v) == IF u < v THEN <<u, v>> ELSE <<v, u>>

-----------------------------------------------------------------------------
FriendsInit ==
  /\ requests = [p \in {} |-> "pending"]
  /\ conversations = [p \in {} |-> {}]
  /\ handler = [r \in Handler |-> Resting]
  /\ asked = {}
  /\ befriended = {}

Goto(r, statement) == handler' = [handler EXCEPT ![r].at = statement]

Finish(r) == handler' = [handler EXCEPT ![r] = Resting]

Begin(r, statement, u, v, p) ==
  /\ handler[r].at = "idle"
  /\ handler' = [handler EXCEPT ![r] = [at |-> statement, user |-> u, other |-> v, request |-> p]]

-----------------------------------------------------------------------------
(* SendFriendRequest                                                       *)

\* The username resolves to a user; asking oneself is a conflict.
SendFriendRequest(r) ==
  /\ \E u, v \in Person :
       /\ u # v
       /\ Begin(r, "reverse", u, v, Nil)
       /\ asked' = asked \cup {<<u, v>>}
  /\ UNCHANGED tables

\* A pending request the other way is accepted instead: AcceptFriendRequest
\* follows, which reads that request once more.
FindReverse(r) ==
  /\ handler[r].at = "reverse"
  /\ LET reverse == <<handler[r].other, handler[r].user>> IN
       handler' = IF HasStatus(reverse, "pending")
                THEN [handler EXCEPT ![r].at = "pending", ![r].request = reverse]
                ELSE [handler EXCEPT ![r].at = "insert"]
  /\ UNCHANGED <<tables, asked>>

\* INSERT ... ON CONFLICT DO UPDATE SET status = 'pending', whatever it was.
InsertRequest(r) ==
  /\ handler[r].at = "insert"
  /\ requests' = WithRow(requests, <<handler[r].user, handler[r].other>>, "pending")
  /\ Finish(r)
  /\ UNCHANGED <<conversations, asked>>

-----------------------------------------------------------------------------
(* AcceptFriendRequest, DeclineFriendRequest                               *)

AcceptFriendRequest(r) ==
  /\ \E u \in Person, p \in DOMAIN requests :
       /\ Begin(r, "pending", u, p[1], p)
       /\ asked' = asked \cup {<<u, p[1]>>}
  /\ UNCHANGED tables

\* Faulty: whoever asks may accept.
RequirePending_AnyCaller(r) ==
  /\ handler[r].at = "pending"
  /\ IF HasStatus(handler[r].request, "pending")
       THEN Goto(r, "update")
       ELSE Finish(r)
  /\ UNCHANGED <<tables, asked>>

\* The request must be pending, and the caller its recipient.
RequirePending(r) ==
  /\ handler[r].at = "pending"
  /\ IF HasStatus(handler[r].request, "pending") /\ handler[r].request[2] = handler[r].user
       THEN Goto(r, "update")
       ELSE Finish(r)
  /\ UNCHANGED <<tables, asked>>

\* UPDATE ... WHERE id = $1: the status it read is not a condition.
UpdateAccepted(r) ==
  /\ handler[r].at = "update"
  /\ requests' = [requests EXCEPT ![handler[r].request] = "accepted"]
  /\ Finish(r)
  /\ UNCHANGED <<conversations, asked>>

\* One UPDATE with all its conditions in the WHERE clause.
DeclineFriendRequest(r) ==
  /\ handler[r].at = "idle"
  /\ \E p \in DOMAIN requests :
       /\ requests[p] = "pending"
       /\ requests' = [requests EXCEPT ![p] = "declined"]
  /\ UNCHANGED <<conversations, handler, asked>>

-----------------------------------------------------------------------------
(* Conversations and messages                                              *)

StartConversation(r) ==
  /\ \E u, v \in Person : Begin(r, "friends", u, v, Nil)
  /\ UNCHANGED <<tables, asked>>

\* Faulty: a request that was sent is taken for a friendship.
RequireFriends_Asked(r) ==
  /\ handler[r].at = "friends"
  /\ IF <<handler[r].user, handler[r].other>> \in DOMAIN requests
       THEN Goto(r, "find")
       ELSE Finish(r)
  /\ UNCHANGED <<tables, asked>>

RequireFriends(r) ==
  /\ handler[r].at = "friends"
  /\ IF Friends(handler[r].user, handler[r].other) THEN Goto(r, "find") ELSE Finish(r)
  /\ UNCHANGED <<tables, asked>>

\* GetOrCreateConversation, its SELECT
FindConversation(r) ==
  /\ handler[r].at = "find"
  /\ IF ConversationKey(handler[r].user, handler[r].other) \in DOMAIN conversations
       THEN Finish(r)
       ELSE Goto(r, "create")
  /\ UNCHANGED <<tables, asked>>

\* and its INSERT, which settles for the row another request has inserted.
CreateConversation(r) ==
  /\ handler[r].at = "create"
  /\ LET key == ConversationKey(handler[r].user, handler[r].other) IN
       conversations' = IF key \in DOMAIN conversations THEN conversations
                        ELSE WithRow(conversations, key, {})
  /\ Finish(r)
  /\ UNCHANGED <<requests, asked>>

\* SendMessage and CreateAttachmentMessage: conversationOtherUser, then an
\* INSERT.  A conversation's participants never change, so the check cannot
\* go stale and the two statements are one step.
SendMessage(r) ==
  /\ handler[r].at = "idle"
  /\ \E u \in Person, c \in DOMAIN conversations :
       /\ u \in {c[1], c[2]}
       /\ conversations' = [conversations EXCEPT ![c] = @ \cup {u}]
  /\ UNCHANGED <<requests, handler, asked>>

\* A statement fails, or the backend goes down under the request.
FailStatement(r) ==
  /\ handler[r].at # "idle"
  /\ Finish(r)
  /\ UNCHANGED <<tables, asked>>

-----------------------------------------------------------------------------
Step(r) ==
  \/ SendFriendRequest(r) \/ FindReverse(r) \/ InsertRequest(r)
  \/ AcceptFriendRequest(r) \/ RequirePending(r) \/ UpdateAccepted(r)
  \/ DeclineFriendRequest(r)
  \/ StartConversation(r) \/ RequireFriends(r) \/ FindConversation(r)
  \/ CreateConversation(r) \/ SendMessage(r)
  \/ FailStatement(r)

\* The history of friendships follows the table.
Observe ==
  befriended' = befriended \cup { {p[1], p[2]} :
                  p \in { q \in DOMAIN requests' : requests'[q] = "accepted" } }

FriendsNext == (\E r \in Handler : Step(r)) /\ Observe

FriendsSpec == FriendsInit /\ [][FriendsNext]_friendsVars

-----------------------------------------------------------------------------
(* Properties                                                              *)

\* The tables and the requests hold what their columns and fields declare.
FriendsTypeOK ==
  /\ requests \in TablesOf(Pair, Status)
  /\ conversations \in TablesOf(Pair, SUBSET Person)
  /\ handler \in [Handler -> Handling]
  /\ asked \in SUBSET Pair
  /\ befriended \in SUBSET SUBSET Person

\* Nobody becomes a friend of somebody they did not ask or say yes to.  The
\* status is read and written by different statements, and a request the
\* other way turns a new request into an answer: an accepted request still
\* has both users behind it, even when it was declined in between.
FriendshipIsMutual ==
  \A p \in DOMAIN requests : requests[p] = "accepted" =>
    <<p[1], p[2]>> \in asked /\ <<p[2], p[1]>> \in asked

\* A conversation exists, and is written in, only between two users who have
\* been friends, although the friendship may have lapsed between the check
\* and the INSERT.
OnlyFriendsTalk ==
  \A c \in DOMAIN conversations :
    /\ {c[1], c[2]} \in befriended
    /\ conversations[c] \subseteq {c[1], c[2]}

\* Two users starting a conversation with each other at the same moment end
\* up in the same one: no pair of users has two.
OneConversationPerPair ==
  \A c, d \in DOMAIN conversations : {c[1], c[2]} = {d[1], d[2]} => c = d

\* Only a new request of the same sender reopens an accepted request; nothing
\* else takes a friendship away, a decline that arrives late included.
OnlySenderReopens ==
  [][\A p \in DOMAIN requests :
       requests[p] = "accepted" /\ requests'[p] # "accepted" =>
         \E r \in Handler : /\ handler[r].at = "insert" /\ handler'[r].at = "idle"
                        /\ <<handler[r].user, handler[r].other>> = p]_friendsVars

\* "Once accepted, either user messaging the other is allowed": the check
\* that allows it does not fail for users who have been friends
\* (modules/chat/backend/migrate.go:17); nothing ends a friendship.
FriendsStayFriends ==
  \A u, v \in Person : {u, v} \in befriended => Friends(u, v)
=============================================================================
