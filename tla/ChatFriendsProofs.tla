------------------------- MODULE ChatFriendsProofs -------------------------
(***************************************************************************)
(* Proofs about ChatFriends, for any set of users and any number of        *)
(* concurrent requests.  Backed says what stands behind each statement a   *)
(* request is about to execute; all of it is history, so no other request  *)
(* can take it away.                                                       *)
(***************************************************************************)
EXTENDS ChatFriends, TLAPS

\* What is known of a request at each of its statements.
Backed(q) ==
  /\ q.at \in {"reverse", "insert", "friends", "find", "create"} =>
       q.user \in Person /\ q.other \in Person
  /\ q.at \in {"reverse", "insert"} => <<q.user, q.other>> \in asked
  /\ q.at \in {"pending", "update"} => q.request \in DOMAIN requests
  /\ q.at = "pending" => <<q.user, q.request[1]>> \in asked
  /\ q.at = "update" => <<q.request[2], q.request[1]>> \in asked
  /\ q.at \in {"find", "create"} => {q.user, q.other} \in befriended

\* A friend request was asked by its sender, and an accepted one is history.
RowsBacked ==
  /\ DOMAIN requests \subseteq asked
  /\ \A p \in DOMAIN requests : requests[p] = "accepted" => {p[1], p[2]} \in befriended
  /\ \A c \in DOMAIN conversations : c = ConversationKey(c[1], c[2])

Inv == /\ FriendsTypeOK
       /\ FriendshipIsMutual
       /\ OnlyFriendsTalk
       /\ RowsBacked
       /\ \A r \in Handler : Backed(handler[r])

LEMMA TableFacts ==
  ASSUME FriendsTypeOK
  PROVE  /\ DOMAIN requests \subseteq Pair /\ requests \in [DOMAIN requests -> Status]
         /\ DOMAIN conversations \subseteq Pair
         /\ conversations \in [DOMAIN conversations -> SUBSET Person]
BY DEF FriendsTypeOK, TablesOf

LEMMA IdleFacts == Resting \in Handling /\ Resting.at = "idle"
BY DEF Resting, Handling, Statement

\* What every step does: it writes at most one request of the table, moves at
\* most one request in flight, and adds to what it has asked.
LEMMA RequestsChange ==
  ASSUME Inv, NEW r \in Handler, Step(r), Observe
  PROVE  /\ asked \subseteq asked' /\ befriended \subseteq befriended'
         /\ DOMAIN requests \subseteq DOMAIN requests'
         /\ \A p \in Handler \ {r} : handler'[p] = handler[p]
<1>1. befriended \subseteq befriended'
  BY DEF Observe
<1>2. \A p \in Handler \ {r} : handler'[p] = handler[p]
  BY DEF Inv, FriendsTypeOK, Step, SendFriendRequest, FindReverse, InsertRequest,
         AcceptFriendRequest, RequirePending, UpdateAccepted, DeclineFriendRequest,
         StartConversation, RequireFriends, FindConversation, CreateConversation,
         SendMessage, FailStatement, Begin, Goto, Finish
<1>3. asked \subseteq asked'
  BY DEF Step, SendFriendRequest, FindReverse, InsertRequest,
         AcceptFriendRequest, RequirePending, UpdateAccepted, DeclineFriendRequest,
         StartConversation, RequireFriends, FindConversation, CreateConversation,
         SendMessage, FailStatement
<1>4. DOMAIN requests \subseteq DOMAIN requests'
  BY DEF Step, SendFriendRequest, FindReverse, InsertRequest,
         AcceptFriendRequest, RequirePending, UpdateAccepted, DeclineFriendRequest,
         StartConversation, RequireFriends, FindConversation, CreateConversation,
         SendMessage, FailStatement, tables, WithRow
<1> QED
  BY <1>1, <1>2, <1>3, <1>4

\* A request that did not move is backed by as much as before.
LEMMA OthersBacked ==
  ASSUME NEW q, Backed(q), asked \subseteq asked', befriended \subseteq befriended',
         DOMAIN requests \subseteq DOMAIN requests'
  PROVE  Backed(q)'
BY DEF Backed

LEMMA ObserveFacts ==
  ASSUME Inv, Observe, requests' \in TablesOf(Pair, Status)
  PROVE  /\ befriended' \in SUBSET SUBSET Person
         /\ \A p \in DOMAIN requests' : requests'[p] = "accepted" => {p[1], p[2]} \in befriended'
<1>1. DOMAIN requests' \subseteq Pair
  BY DEF TablesOf
<1>2. \A p \in DOMAIN requests' : {p[1], p[2]} \in SUBSET Person
  BY <1>1 DEF Pair
<1> QED
  BY <1>2 DEF Inv, FriendsTypeOK, Observe

-----------------------------------------------------------------------------
(* The table of friend requests                                            *)

RequestRowsOK ==
  /\ requests \in TablesOf(Pair, Status)
  /\ asked \in SUBSET Pair
  /\ DOMAIN requests \subseteq asked
  /\ FriendshipIsMutual

LEMMA RequestRowsInv ==
  ASSUME Inv, NEW r \in Handler, Step(r)
  PROVE  RequestRowsOK'
<1>1. /\ requests \in TablesOf(Pair, Status) /\ asked \in SUBSET Pair
      /\ DOMAIN requests \subseteq asked /\ FriendshipIsMutual
      /\ Backed(handler[r])
  BY DEF Inv, FriendsTypeOK, RowsBacked
<1>2. DOMAIN requests \subseteq Pair /\ requests \in [DOMAIN requests -> Status]
  BY <1>1 DEF TablesOf
<1>3. CASE requests' = requests
  <2>1. asked' \in SUBSET Pair /\ asked \subseteq asked'
    BY <1>1, <1>2 DEF Step, SendFriendRequest, FindReverse, InsertRequest,
         AcceptFriendRequest, RequirePending, UpdateAccepted, DeclineFriendRequest,
         StartConversation, RequireFriends, FindConversation, CreateConversation,
         SendMessage, FailStatement, Pair
  <2> QED
    BY <1>1, <1>3, <2>1 DEF RequestRowsOK, FriendshipIsMutual
<1>4. CASE InsertRequest(r)
  <2> DEFINE key == <<handler[r].user, handler[r].other>>
  <2>1. requests' = WithRow(requests, key, "pending") /\ asked' = asked /\ key \in asked
    BY <1>1, <1>4 DEF InsertRequest, Backed
  <2>2. key \in Pair
    BY <1>1, <2>1
  <2> HIDE DEF key
  <2>3. requests' \in TablesOf(Pair, Status)
    BY <1>1, <2>1, <2>2 DEF Status, TablesOf, WithRow
  <2>4. DOMAIN requests' \subseteq asked
    BY <1>1, <2>1 DEF WithRow
  <2>5. FriendshipIsMutual'
    BY <1>1, <2>1 DEF FriendshipIsMutual, WithRow
  <2> QED
    BY <1>1, <2>1, <2>3, <2>4, <2>5 DEF RequestRowsOK
<1>5. ASSUME NEW p \in DOMAIN requests, NEW s \in Status,
             requests' = [requests EXCEPT ![p] = s], asked' = asked,
             s = "accepted" => <<p[2], p[1]>> \in asked
      PROVE  RequestRowsOK'
  <2>1. /\ DOMAIN requests' = DOMAIN requests
        /\ requests'[p] = s
        /\ \A x \in DOMAIN requests : x # p => requests'[x] = requests[x]
        /\ requests' \in [DOMAIN requests -> Status]
    BY <1>2, <1>5
  <2>2. requests' \in TablesOf(Pair, Status)
    BY <1>2, <2>1 DEF TablesOf
  <2>3. p = <<p[1], p[2]>>
    BY <1>2 DEF Pair
  <2>4. FriendshipIsMutual'
    BY <1>1, <1>5, <2>1, <2>3 DEF FriendshipIsMutual
  <2> QED
    BY <1>1, <1>5, <2>1, <2>2, <2>4 DEF RequestRowsOK
<1>6. CASE UpdateAccepted(r)
  <2>1. /\ handler[r].request \in DOMAIN requests
        /\ requests' = [requests EXCEPT ![handler[r].request] = "accepted"]
        /\ asked' = asked
        /\ <<handler[r].request[2], handler[r].request[1]>> \in asked
    BY <1>1, <1>6 DEF UpdateAccepted, Backed
  <2> QED
    BY <1>5, <2>1 DEF Status
<1>7. CASE DeclineFriendRequest(r)
  BY <1>5, <1>7 DEF DeclineFriendRequest, Status
<1> QED
  BY <1>3, <1>4, <1>6, <1>7 DEF Step, SendFriendRequest, FindReverse,
     AcceptFriendRequest, RequirePending, StartConversation, RequireFriends,
     FindConversation, CreateConversation, SendMessage, FailStatement, tables

-----------------------------------------------------------------------------
(* The table of conversations                                              *)

ConversationRowsOK ==
  /\ conversations \in TablesOf(Pair, SUBSET Person)
  /\ OnlyFriendsTalk
  /\ \A c \in DOMAIN conversations : c = ConversationKey(c[1], c[2])

LEMMA KeyFacts ==
  ASSUME NEW u \in Person, NEW v \in Person
  PROVE  LET key == ConversationKey(u, v) IN
           /\ key \in Pair
           /\ {key[1], key[2]} = {u, v}
           /\ key = ConversationKey(key[1], key[2])
BY ChatConstants DEF ConversationKey, Pair

LEMMA ConversationRowsInv ==
  ASSUME Inv, NEW r \in Handler, Step(r), Observe
  PROVE  ConversationRowsOK'
<1>1. ConversationRowsOK /\ Backed(handler[r]) /\ befriended \subseteq befriended'
  BY RequestsChange DEF Inv, FriendsTypeOK, RowsBacked, ConversationRowsOK
<1>2. DOMAIN conversations \subseteq Pair /\ conversations \in [DOMAIN conversations -> SUBSET Person]
  BY TableFacts DEF Inv
<1>3. CASE conversations' = conversations
  BY <1>1, <1>3 DEF ConversationRowsOK, OnlyFriendsTalk
<1>4. CASE CreateConversation(r) /\ conversations' # conversations
  <2> DEFINE u == handler[r].user
             v == handler[r].other
             key == ConversationKey(u, v)
  <2>1. /\ u \in Person /\ v \in Person /\ {u, v} \in befriended
        /\ key \notin DOMAIN conversations
        /\ conversations' = WithRow(conversations, key, {})
    BY <1>1, <1>4 DEF CreateConversation, Backed
  <2>2. /\ key \in Pair /\ {key[1], key[2]} = {u, v}
        /\ key = ConversationKey(key[1], key[2])
    BY <2>1, KeyFacts
  <2>3. {key[1], key[2]} \in befriended'
    BY <1>1, <2>1, <2>2
  <2> HIDE DEF key, u, v
  <2>4. conversations' \in TablesOf(Pair, SUBSET Person)
    BY <1>1, <2>1, <2>2 DEF ConversationRowsOK, TablesOf, WithRow
  <2>5. /\ DOMAIN conversations' = (DOMAIN conversations) \cup {key}
        /\ conversations'[key] = {}
        /\ \A c \in DOMAIN conversations : conversations'[c] = conversations[c]
    BY <2>1 DEF WithRow
  <2>6. OnlyFriendsTalk'
    BY <1>1, <2>3, <2>5 DEF ConversationRowsOK, OnlyFriendsTalk
  <2>7. \A c \in DOMAIN conversations' : c = ConversationKey(c[1], c[2])
    BY <1>1, <2>2, <2>5 DEF ConversationRowsOK
  <2> QED
    BY <2>4, <2>6, <2>7 DEF ConversationRowsOK, ConversationKey
<1>5. CASE SendMessage(r)
  <2>1. PICK u \in Person, c \in DOMAIN conversations :
          /\ u \in {c[1], c[2]}
          /\ conversations' = [conversations EXCEPT ![c] = @ \cup {u}]
    BY <1>5 DEF SendMessage
  <2>2. /\ DOMAIN conversations' = DOMAIN conversations
        /\ conversations' \in [DOMAIN conversations -> SUBSET Person]
        /\ conversations'[c] = conversations[c] \cup {u}
        /\ \A d \in DOMAIN conversations : d # c => conversations'[d] = conversations[d]
    BY <1>2, <2>1
  <2>3. conversations' \in TablesOf(Pair, SUBSET Person)
    BY <1>2, <2>2 DEF TablesOf
  <2>4. OnlyFriendsTalk'
    BY <1>1, <2>1, <2>2 DEF ConversationRowsOK, OnlyFriendsTalk
  <2> QED
    BY <1>1, <2>2, <2>3, <2>4 DEF ConversationRowsOK
<1> QED
  BY <1>3, <1>4, <1>5 DEF Step, SendFriendRequest, FindReverse, InsertRequest,
     AcceptFriendRequest, RequirePending, UpdateAccepted, DeclineFriendRequest,
     StartConversation, RequireFriends, FindConversation, FailStatement, tables

-----------------------------------------------------------------------------
(* The requests in flight                                                  *)

\* Friends by the table are friends by the history, whichever of the two asks.
LEMMA FriendsAreHistory ==
  ASSUME Inv, NEW u \in Person, NEW v \in Person, Friends(u, v)
  PROVE  {u, v} \in befriended
<1>1. \A p \in DOMAIN requests : requests[p] = "accepted" => {p[1], p[2]} \in befriended
  BY DEF Inv, RowsBacked
<1>2. CASE HasStatus(<<u, v>>, "accepted")
  BY <1>1, <1>2 DEF HasStatus
<1>3. CASE HasStatus(<<v, u>>, "accepted")
  <2>1. {v, u} \in befriended
    BY <1>1, <1>3 DEF HasStatus
  <2>2. {v, u} = {u, v}
    OBVIOUS
  <2> QED
    BY <2>1, <2>2
<1> QED
  BY <1>2, <1>3 DEF Friends

LEMMA OwnBacked ==
  ASSUME Inv, NEW r \in Handler, Step(r), Observe
  PROVE  handler'[r] \in Handling /\ Backed(handler[r])'
<1> DEFINE q == handler[r]
<1>1. /\ q \in Handling /\ Backed(q)
      /\ handler \in [Handler -> Handling]
      /\ asked \subseteq asked' /\ befriended \subseteq befriended'
      /\ DOMAIN requests \subseteq DOMAIN requests'
      /\ DOMAIN requests \subseteq Pair
  BY RequestsChange, TableFacts DEF Inv, FriendsTypeOK
<1>2. CASE handler' = handler
  BY <1>1, <1>2, OthersBacked
<1>3. CASE Finish(r)
  <2>1. handler'[r] = Resting
    BY <1>1, <1>3 DEF Finish
  <2> QED
    BY <2>1, IdleFacts DEF Backed
<1>4. ASSUME NEW s \in Statement, Goto(r, s),
             s \in {"insert", "create", "find", "friends"} => q.user \in Person /\ q.other \in Person,
             s = "insert" => <<q.user, q.other>> \in asked,
             s \in {"find", "create"} => {q.user, q.other} \in befriended,
             s = "update" => /\ q.request \in DOMAIN requests
                             /\ <<q.request[2], q.request[1]>> \in asked,
             s \notin {"pending", "reverse"}
      PROVE  handler'[r] \in Handling /\ Backed(handler[r])'
  <2>1. handler'[r] = [q EXCEPT !.at = s]
    BY <1>1, <1>4 DEF Goto
  <2>2. /\ handler'[r].at = s /\ handler'[r].user = q.user /\ handler'[r].other = q.other
        /\ handler'[r].request = q.request /\ handler'[r] \in Handling
    BY <1>1, <2>1 DEF Handling
  <2> QED
    BY <1>1, <1>4, <2>2 DEF Backed
<1>5. CASE SendFriendRequest(r)
  <2>1. PICK u \in Person, v \in Person :
          /\ handler' = [handler EXCEPT ![r] = [at |-> "reverse", user |-> u, other |-> v,
                                        request |-> Nil]]
          /\ asked' = asked \cup {<<u, v>>}
    BY <1>5 DEF SendFriendRequest, Begin
  <2>2. handler'[r] = [at |-> "reverse", user |-> u, other |-> v, request |-> Nil]
    BY <1>1, <2>1
  <2> QED
    BY <2>1, <2>2 DEF Handling, Statement, Backed
<1>6. CASE FindReverse(r) /\ handler'[r].at = "pending"
  <2> DEFINE reverse == <<q.other, q.user>>
  <2>1. /\ q.at = "reverse" /\ HasStatus(reverse, "pending")
        /\ handler' = [handler EXCEPT ![r].at = "pending", ![r].request = reverse]
        /\ q.user \in Person /\ q.other \in Person
    BY <1>1, <1>6 DEF FindReverse, Handling, Backed
  <2>2. handler'[r] = [q EXCEPT !.at = "pending", !.request = reverse]
    BY <1>1, <2>1
  <2>3. /\ handler'[r].at = "pending" /\ handler'[r].user = q.user /\ handler'[r].other = q.other
        /\ handler'[r].request = reverse /\ handler'[r] \in Handling
    BY <1>1, <2>1, <2>2 DEF Handling, Statement, Pair
  <2>4. <<q.user, reverse[1]>> \in asked
    BY <1>1, <2>1 DEF Backed
  <2> QED
    BY <1>1, <2>1, <2>3, <2>4 DEF Backed, HasStatus
<1>7. CASE FindReverse(r) /\ handler'[r].at # "pending"
  <2>1. q.at = "reverse" /\ Goto(r, "insert")
    BY <1>1, <1>7 DEF FindReverse, Goto, Handling
  <2> QED
    BY <1>1, <1>4, <2>1 DEF Backed, Statement
<1>8. CASE AcceptFriendRequest(r)
  <2>1. PICK u \in Person, p \in DOMAIN requests :
          /\ handler' = [handler EXCEPT ![r] = [at |-> "pending", user |-> u, other |-> p[1],
                                        request |-> p]]
          /\ asked' = asked \cup {<<u, p[1]>>}
    BY <1>8 DEF AcceptFriendRequest, Begin
  <2>2. handler'[r] = [at |-> "pending", user |-> u, other |-> p[1], request |-> p]
    BY <1>1, <2>1
  <2>3. p \in Pair /\ p[1] \in Person
    BY <1>1 DEF Pair
  <2>4. handler'[r] \in Handling
    BY <2>2, <2>3 DEF Handling, Statement
  <2> QED
    BY <1>1, <2>1, <2>2, <2>4 DEF Backed
<1>9. CASE RequirePending(r) /\ ~Finish(r)
  <2>1. /\ q.at = "pending" /\ q.request[2] = q.user /\ Goto(r, "update")
    BY <1>9 DEF RequirePending
  <2>2. q.request \in DOMAIN requests /\ <<q.request[2], q.request[1]>> \in asked
    BY <1>1, <2>1 DEF Backed
  <2> QED
    BY <1>4, <2>1, <2>2 DEF Statement
<1>10. CASE StartConversation(r)
  <2>1. PICK u \in Person, v \in Person :
          handler' = [handler EXCEPT ![r] = [at |-> "friends", user |-> u, other |-> v,
                                     request |-> Nil]]
    BY <1>10 DEF StartConversation, Begin
  <2>2. handler'[r] = [at |-> "friends", user |-> u, other |-> v, request |-> Nil]
    BY <1>1, <2>1
  <2> QED
    BY <2>2 DEF Handling, Statement, Backed
<1>11. CASE RequireFriends(r) /\ ~Finish(r)
  <2>1. q.at = "friends" /\ Friends(q.user, q.other) /\ Goto(r, "find")
    BY <1>11 DEF RequireFriends
  <2>2. q.user \in Person /\ q.other \in Person
    BY <1>1, <2>1 DEF Backed
  <2>3. {q.user, q.other} \in befriended
    BY <2>1, <2>2, FriendsAreHistory
  <2> QED
    BY <1>4, <2>1, <2>2, <2>3 DEF Statement
<1>12. CASE FindConversation(r) /\ ~Finish(r)
  <2>1. q.at = "find" /\ Goto(r, "create")
    BY <1>12 DEF FindConversation
  <2> QED
    BY <1>1, <1>4, <2>1 DEF Backed, Statement
<1> QED
  BY <1>2, <1>3, <1>5, <1>6, <1>7, <1>8, <1>9, <1>10, <1>11, <1>12
     DEF Step, InsertRequest, UpdateAccepted, DeclineFriendRequest, CreateConversation,
         SendMessage, FailStatement

-----------------------------------------------------------------------------
LEMMA InvInit == FriendsInit => Inv
<1> SUFFICES ASSUME FriendsInit PROVE Inv
  OBVIOUS
<1>1. /\ DOMAIN requests = {} /\ DOMAIN conversations = {}
      /\ requests \in [{} -> Status] /\ conversations \in [{} -> SUBSET Person]
  BY DEF FriendsInit
<1>2. FriendsTypeOK
  BY <1>1, IdleFacts DEF FriendsInit, FriendsTypeOK, TablesOf
<1>3. FriendshipIsMutual /\ OnlyFriendsTalk /\ RowsBacked
  BY <1>1 DEF FriendshipIsMutual, OnlyFriendsTalk, RowsBacked
<1>4. \A r \in Handler : Backed(handler[r])
  BY IdleFacts DEF FriendsInit, Backed
<1> QED
  BY <1>2, <1>3, <1>4 DEF Inv

LEMMA InvNext == Inv /\ [FriendsNext]_friendsVars => Inv'
<1>1. ASSUME Inv, NEW r \in Handler, Step(r), Observe
      PROVE  Inv'
  <2>1. RequestRowsOK' /\ ConversationRowsOK'
    BY <1>1, RequestRowsInv, ConversationRowsInv
  <2>2. \A p \in Handler : handler'[p] \in Handling /\ Backed(handler[p])'
    <3>1. SUFFICES ASSUME NEW p \in Handler PROVE handler'[p] \in Handling /\ Backed(handler[p])'
      OBVIOUS
    <3>2. CASE p = r
      BY <1>1, <3>2, OwnBacked
    <3>3. CASE p # r
      <4>1. handler'[p] = handler[p] /\ asked \subseteq asked' /\ befriended \subseteq befriended'
            /\ DOMAIN requests \subseteq DOMAIN requests'
        BY <1>1, <3>3, RequestsChange
      <4>2. handler[p] \in Handling /\ Backed(handler[p])
        BY <1>1 DEF Inv, FriendsTypeOK
      <4> QED
        BY <4>1, <4>2, OthersBacked
    <3> QED
      BY <3>2, <3>3
  <2>3. /\ befriended' \in SUBSET SUBSET Person
        /\ \A p \in DOMAIN requests' : requests'[p] = "accepted" => {p[1], p[2]} \in befriended'
    BY <1>1, <2>1, ObserveFacts DEF RequestRowsOK
  <2>4. handler' \in [Handler -> Handling]
    <3>1. handler = [p \in Handler |-> handler[p]]
      BY <1>1 DEF Inv, FriendsTypeOK
    <3>2. handler' = [p \in Handler |-> IF p = r THEN handler'[r] ELSE handler[p]]
      <4>1. CASE handler' = handler
        BY <3>1, <4>1
      <4>2. CASE SendFriendRequest(r) \/ AcceptFriendRequest(r) \/ StartConversation(r)
        BY <3>1, <4>2 DEF SendFriendRequest, AcceptFriendRequest, StartConversation, Begin
      <4>3. CASE FindReverse(r)
        BY <3>1, <4>3 DEF FindReverse
      <4>4. CASE RequirePending(r) \/ RequireFriends(r) \/ FindConversation(r)
        <5>1. Goto(r, "update") \/ Goto(r, "find") \/ Goto(r, "create") \/ Finish(r)
          BY <4>4 DEF RequirePending, RequireFriends, FindConversation
        <5> QED
          BY <3>1, <5>1 DEF Goto, Finish
      <4>5. CASE InsertRequest(r) \/ UpdateAccepted(r) \/ CreateConversation(r) \/ FailStatement(r)
        BY <3>1, <4>5 DEF InsertRequest, UpdateAccepted, CreateConversation, FailStatement, Finish
      <4> QED
        BY <1>1, <4>1, <4>2, <4>3, <4>4, <4>5 DEF Step, DeclineFriendRequest, SendMessage
    <3> QED
      BY <2>2, <3>2
  <2>5. FriendsTypeOK'
    BY <2>1, <2>3, <2>4 DEF FriendsTypeOK, RequestRowsOK, ConversationRowsOK
  <2>6. RowsBacked'
    BY <2>1, <2>3 DEF RowsBacked, RequestRowsOK, ConversationRowsOK
  <2> QED
    BY <2>1, <2>2, <2>5, <2>6 DEF Inv, RequestRowsOK, ConversationRowsOK
<1>2. ASSUME Inv, UNCHANGED friendsVars
      PROVE  Inv'
  BY <1>2 DEF friendsVars, tables, Inv, FriendsTypeOK, FriendshipIsMutual, OnlyFriendsTalk, RowsBacked,
              Backed
<1> QED
  BY <1>1, <1>2 DEF FriendsNext

\* Both users are behind every accepted friend request, whatever interleaving
\* of requests, answers and declines led to it.
THEOREM FriendshipMutual == FriendsSpec => []FriendshipIsMutual
<1>1. Inv => FriendshipIsMutual
  BY DEF Inv
<1> QED
  BY <1>1, InvInit, InvNext, PTL DEF FriendsSpec

\* Conversations, and the messages in them, are between users who have been
\* friends.
THEOREM ConversationsAmongFriends == FriendsSpec => []OnlyFriendsTalk
<1>1. Inv => OnlyFriendsTalk
  BY DEF Inv
<1> QED
  BY <1>1, InvInit, InvNext, PTL DEF FriendsSpec

\* The two users of a conversation have no other one.
THEOREM ConversationsUnique == FriendsSpec => []OneConversationPerPair
<1>1. Inv => OneConversationPerPair
  <2>1. SUFFICES ASSUME Inv, NEW c \in DOMAIN conversations, NEW d \in DOMAIN conversations,
                        {c[1], c[2]} = {d[1], d[2]}
                 PROVE  c = d
    BY DEF OneConversationPerPair
  <2>2. c \in Pair /\ d \in Pair
    BY <2>1, TableFacts DEF Inv
  <2>3. c = ConversationKey(c[1], c[2]) /\ d = ConversationKey(d[1], d[2])
    BY <2>1 DEF Inv, RowsBacked
  <2>4. (c[1] = d[1] /\ c[2] = d[2]) \/ (c[1] = d[2] /\ c[2] = d[1])
    BY <2>1
  <2>5. ConversationKey(c[1], c[2]) = ConversationKey(d[1], d[2])
    <3>1. CASE c[1] = d[1] /\ c[2] = d[2]
      BY <3>1
    <3>2. CASE c[1] = d[2] /\ c[2] = d[1]
      <4>1. c[1] \in Int /\ c[2] \in Int
        BY <2>2, ChatConstants DEF Pair
      <4>2. ConversationKey(c[1], c[2]) = ConversationKey(c[2], c[1])
        BY <4>1 DEF ConversationKey
      <4> QED
        BY <3>2, <4>2
    <3> QED
      BY <2>4, <3>1, <3>2
  <2> QED
    BY <2>3, <2>5
<1> QED
  BY <1>1, InvInit, InvNext, PTL DEF FriendsSpec

\* The tables and the requests under way hold what they declare.
THEOREM TypeCorrect == FriendsSpec => []FriendsTypeOK
<1>1. Inv => FriendsTypeOK
  BY DEF Inv
<1> QED
  BY <1>1, InvInit, InvNext, PTL DEF FriendsSpec

\* An accepted friend request is reopened by a new request of its sender, and
\* by nothing else: not by a decline or an acceptance that arrives late.
THEOREM SenderReopens == FriendsSpec => OnlySenderReopens
<1>1. ASSUME Inv, [FriendsNext]_friendsVars, NEW p \in DOMAIN requests,
             requests[p] = "accepted", requests'[p] # "accepted"
      PROVE  \E r \in Handler : /\ handler[r].at = "insert" /\ handler'[r].at = "idle"
                            /\ <<handler[r].user, handler[r].other>> = p
  <2>1. ASSUME UNCHANGED friendsVars
        PROVE  FALSE
    BY <1>1, <2>1 DEF friendsVars, tables
  <2>2. PICK r \in Handler : Step(r)
    BY <1>1, <2>1 DEF FriendsNext
  <2>3. CASE InsertRequest(r)
    <3>1. handler'[r] = Resting
      BY <1>1, <2>3 DEF InsertRequest, Finish, Inv, FriendsTypeOK
    <3>2. <<handler[r].user, handler[r].other>> = p
      BY <1>1, <2>3 DEF InsertRequest, WithRow
    <3> QED
      BY <2>3, <3>1, <3>2, IdleFacts DEF InsertRequest
  <2>4. CASE UpdateAccepted(r)
    BY <1>1, <2>4 DEF UpdateAccepted
  <2>5. CASE DeclineFriendRequest(r)
    BY <1>1, <2>5 DEF DeclineFriendRequest
  <2>6. CASE requests' = requests
    BY <1>1, <2>6
  <2> QED
    BY <2>2, <2>3, <2>4, <2>5, <2>6
    DEF Step, SendFriendRequest, FindReverse, AcceptFriendRequest, RequirePending,
        StartConversation, RequireFriends, FindConversation, CreateConversation,
        SendMessage, FailStatement, tables
<1>2. Inv /\ [FriendsNext]_friendsVars =>
        [\A p \in DOMAIN requests :
           requests[p] = "accepted" /\ requests'[p] # "accepted" =>
             \E r \in Handler : /\ handler[r].at = "insert" /\ handler'[r].at = "idle"
                            /\ <<handler[r].user, handler[r].other>> = p]_friendsVars
  BY <1>1
<1> QED
  BY <1>2, InvInit, InvNext, PTL DEF FriendsSpec, OnlySenderReopens
=============================================================================
