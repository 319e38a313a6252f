------------------------- MODULE ChatDeliveryProofs -------------------------
(***************************************************************************)
(* What ChatDelivery promises of the hub and of one message, for any       *)
(* number of users, connections and messages.  The hub's map and the three *)
(* looks that a message takes at it are related by what has been written   *)
(* when: a connection that was there all along is still to be written to,  *)
(* or is being written to, or has the message, or met another write of it; *)
(* a recipient without any will be found to have none.                     *)
(***************************************************************************)
EXTENDS ChatDelivery, TLAPS

\* Whoever has a connection has opened it.
Owned == \A c \in Conn : link[c] # "unused" => owner[c] \in Peer

\* What has been written to a connection that was there from the beginning.
Heard(m) ==
  /\ post[m].at # "unsent" =>
       /\ post[m].to \in Peer /\ post[m].from \in Peer
       /\ companion[m] \subseteq Alive(m)
  /\ Writing(m) => post[m].at \in {"toOther", "toSelf"}
  /\ \A c, d \in Conn : m \in busy[c] \cap busy[d] => c = d
  /\ post[m].at = "toOther" =>
       \A c \in companion[m] : c \in post[m].left \/ m \in busy[c] \cup got[c] \cup met[c]
  /\ post[m].at \in {"toSelf", "notify", "done"} => \A c \in companion[m] : m \in got[c] \cup met[c]

\* What has become of a message to somebody who was away all the time.
Away(m) ==
  m \in absent =>
    /\ post[m].at # "unsent" /\ conns[post[m].to] = {}
    /\ post[m].at = "done" => m \in inbox

Inv == /\ DeliveryTypeOK
       /\ Owned
       /\ MapIsExact
       /\ \A m \in Msg : Heard(m) /\ Away(m)

LEMMA InvInit == DeliveryInit => Inv
<1> SUFFICES ASSUME DeliveryInit PROVE Inv
  OBVIOUS
<1>1. DeliveryTypeOK
  BY DEF DeliveryInit, DeliveryTypeOK, Link, Post, Unsent, Stage
<1>2. MapIsExact /\ Owned
  BY DEF DeliveryInit, MapIsExact, Owned
<1>3. \A m \in Msg : Heard(m) /\ Away(m)
  BY DEF DeliveryInit, Heard, Away, Unsent, Writing
<1> QED
  BY <1>1, <1>2, <1>3 DEF Inv

-----------------------------------------------------------------------------
(* Types.                                                                  *)

LEMMA PostFacts ==
  ASSUME DeliveryTypeOK, NEW m \in Msg
  PROVE  /\ post[m] \in Post /\ post[m].at \in Stage
         /\ post[m].from \in Peer \cup {Nobody} /\ post[m].to \in Peer \cup {Nobody}
         /\ post[m].left \in SUBSET Conn
BY DEF DeliveryTypeOK, Post

LEMMA WatchType ==
  ASSUME DeliveryTypeOK, Watch, link' \in [Conn -> Link], conns' \in [Peer -> SUBSET Conn],
         post' \in [Msg -> Post],
         \A m \in Msg : post'[m].at # "unsent" => post'[m].to \in Peer
  PROVE  companion' \in [Msg -> SUBSET Conn] /\ absent' \in SUBSET Msg
<1>1. ASSUME NEW m \in Msg, post'[m].at # "unsent"
      PROVE  Alive(m)' \in SUBSET Conn
  BY <1>1 DEF Alive
<1>2. ASSUME NEW m \in Msg
      PROVE  (IF post'[m].at = "unsent" THEN {}
              ELSE IF post[m].at = "unsent" THEN Alive(m)'
              ELSE companion[m] \cap Alive(m)') \in SUBSET Conn
  BY <1>1, <1>2 DEF DeliveryTypeOK
<1>3. companion' \in [Msg -> SUBSET Conn]
  BY <1>2 DEF Watch
<1>4. absent' \in SUBSET Msg
  BY DEF Watch
<1> QED
  BY <1>3, <1>4

-----------------------------------------------------------------------------
(* The connections.                                                        *)

\* The map stays exact whatever connections do; messages do not touch it.
LEMMA ServeMap ==
  ASSUME Inv, NEW c \in Conn,
         (\E u \in Peer : Upgrade(c, u)) \/ Register(c) \/ Leave(c) \/ Unregister(c)
  PROVE  /\ link' \in [Conn -> Link] /\ owner' \in [Conn -> Peer \cup {Nobody}]
         /\ conns' \in [Peer -> SUBSET Conn]
         /\ Owned' /\ MapIsExact'
         /\ UNCHANGED <<post, writes, got, inbox>>
<1>1. /\ link \in [Conn -> Link] /\ owner \in [Conn -> Peer \cup {Nobody}]
      /\ conns \in [Peer -> SUBSET Conn] /\ Owned /\ MapIsExact
  BY DEF Inv, DeliveryTypeOK
<1>2. ASSUME NEW u \in Peer, Upgrade(c, u)
      PROVE  /\ link' \in [Conn -> Link] /\ owner' \in [Conn -> Peer \cup {Nobody}]
             /\ conns' \in [Peer -> SUBSET Conn] /\ Owned' /\ MapIsExact'
  BY <1>1, <1>2 DEF Upgrade, Link, Owned, MapIsExact
<1>3. CASE Register(c)
  <2>1. owner[c] \in Peer
    BY <1>1, <1>3 DEF Register, Owned
  <2>2. /\ link' = [link EXCEPT ![c] = "open"] /\ owner' = owner
        /\ conns' = [conns EXCEPT ![owner[c]] = conns[owner[c]] \cup {c}]
    BY <1>3 DEF Register
  <2>3. link' \in [Conn -> Link] /\ conns' \in [Peer -> SUBSET Conn] /\ Owned'
    BY <1>1, <2>1, <2>2 DEF Link, Owned
  <2>4. MapIsExact'
    BY <1>1, <1>3, <2>1, <2>2 DEF MapIsExact, Register
  <2> QED
    BY <1>1, <1>3, <2>2, <2>3, <2>4 DEF Register
<1>4. CASE Leave(c)
  BY <1>1, <1>4 DEF Leave, Link, Owned, MapIsExact
<1>5. CASE Unregister(c)
  <2>1. owner[c] \in Peer
    BY <1>1, <1>5 DEF Unregister, Owned
  <2>2. /\ link' = [link EXCEPT ![c] = "closed"] /\ owner' = owner
        /\ conns' = [conns EXCEPT ![owner[c]] = conns[owner[c]] \ {c}]
    BY <1>5 DEF Unregister
  <2>3. link' \in [Conn -> Link] /\ conns' \in [Peer -> SUBSET Conn] /\ Owned'
    BY <1>1, <1>5, <2>1, <2>2 DEF Link, Owned, Unregister
  <2>4. MapIsExact'
    BY <1>1, <1>5, <2>1, <2>2 DEF MapIsExact, Unregister
  <2> QED
    BY <1>1, <1>5, <2>2, <2>3, <2>4 DEF Unregister
<1> QED
  BY <1>2, <1>3, <1>4, <1>5 DEF Upgrade, Register, Leave, Unregister

\* What a write under way becomes, and what it met, is not lost by a step of
\* somebody else.
Kept(m) == \A c \in Conn : /\ m \in busy[c] <=> m \in busy'[c]
                           /\ m \in met[c] => m \in met'[c]
                           /\ got[c] \subseteq got'[c]

\* A message whose request did not move is as before.
LEMMA OthersKept ==
  ASSUME Inv, Watch, NEW m \in Msg, post'[m] = post[m], Kept(m), inbox \subseteq inbox'
  PROVE  Heard(m)' /\ Away(m)'
<1>1. Heard(m) /\ Away(m) /\ companion[m] \in SUBSET Conn
  BY DEF Inv, DeliveryTypeOK
<1>2. post[m].at = "unsent" => companion'[m] = {} /\ m \notin absent'
  BY DEF Watch
<1>3. post[m].at # "unsent" =>
        /\ companion'[m] = companion[m] \cap Alive(m)'
        /\ m \in absent' => m \in absent /\ conns'[post[m].to] = {}
  BY DEF Watch
<1>4. /\ \A c \in companion[m] : m \in busy[c] \cup got[c] \cup met[c] =>
                                 m \in busy'[c] \cup got'[c] \cup met'[c]
      /\ \A c \in companion[m] : m \in got[c] \cup met[c] => m \in got'[c] \cup met'[c]
      /\ Writing(m)' => Writing(m)
      /\ \A c \in Conn : m \in busy'[c] <=> m \in busy[c]
  BY <1>1 DEF Kept, Writing
<1>5. Heard(m)'
  BY <1>1, <1>2, <1>3, <1>4 DEF Heard
<1> QED
  BY <1>1, <1>2, <1>3, <1>5 DEF Away

\* A connection stands or falls; what was there all along is still there.
LEMMA ConnInv ==
  ASSUME Inv, Watch, NEW c \in Conn,
         (\E u \in Peer : Upgrade(c, u)) \/ Register(c) \/ Leave(c) \/ Unregister(c)
  PROVE  Inv'
<1>1. /\ link' \in [Conn -> Link] /\ owner' \in [Conn -> Peer \cup {Nobody}]
      /\ conns' \in [Peer -> SUBSET Conn] /\ Owned' /\ MapIsExact'
      /\ UNCHANGED <<post, writes, got, inbox>>
  BY ServeMap
<1>2. \A m \in Msg : Heard(m)' /\ Away(m)'
  BY <1>1, OthersKept DEF Kept, writes
<1>3. companion' \in [Msg -> SUBSET Conn] /\ absent' \in SUBSET Msg
  BY <1>1, WatchType DEF Inv, DeliveryTypeOK, Heard
<1> QED
  BY <1>1, <1>2, <1>3 DEF Inv, DeliveryTypeOK, writes

\* A ping is none of a message's writes.
LEMMA PingInv ==
  ASSUME Inv, Watch, NEW c \in Conn, BeginPing(c) \/ EndPing(c)
  PROVE  Inv'
<1>1. UNCHANGED <<link, owner, conns, post, got, inbox>>
  BY DEF BeginPing, EndPing
<1>2. /\ busy \in [Conn -> SUBSET Writer] /\ met \in [Conn -> SUBSET Writer] /\ Ping \in Writer
      /\ got \in [Conn -> SUBSET Msg]
  BY DEF Inv, DeliveryTypeOK, Writer
<1>3. /\ busy' \in [Conn -> SUBSET Writer] /\ met' \in [Conn -> SUBSET Writer]
      /\ \A m \in Msg : Kept(m)
  <2>1. CASE BeginPing(c)
    <3>1. /\ busy' = [busy EXCEPT ![c] = busy[c] \cup {Ping}]
          /\ met' = IF busy[c] = {} THEN met
                    ELSE [met EXCEPT ![c] = met[c] \cup busy[c] \cup {Ping}]
      BY <2>1 DEF BeginPing, Enter
    <3>2. \A m \in Msg : m # Ping
      BY DeliveryConstants
    <3>3. busy' \in [Conn -> SUBSET Writer] /\ met' \in [Conn -> SUBSET Writer]
      BY <1>2, <3>1
    <3>4. \A k \in Conn : /\ busy'[k] \subseteq busy[k] \cup {Ping}
                          /\ busy[k] \subseteq busy'[k] /\ met[k] \subseteq met'[k]
      BY <1>2, <3>1
    <3> QED
      BY <1>1, <3>2, <3>3, <3>4 DEF Kept
  <2>2. CASE EndPing(c)
    <3>1. /\ busy' = [busy EXCEPT ![c] = busy[c] \ {Ping}]
          /\ met' = [met EXCEPT ![c] = met[c] \ {Ping}]
      BY <2>2 DEF EndPing, Leaves
    <3>2. \A m \in Msg : m # Ping
      BY DeliveryConstants
    <3> QED
      BY <1>1, <1>2, <3>1, <3>2 DEF Kept
  <2> QED
    BY <2>1, <2>2
<1>4. \A m \in Msg : Heard(m)' /\ Away(m)'
  BY <1>1, <1>3, OthersKept
<1>5. companion' \in [Msg -> SUBSET Conn] /\ absent' \in SUBSET Msg
  BY <1>1, WatchType DEF Inv, DeliveryTypeOK, Heard
<1> QED
  BY <1>1, <1>3, <1>4, <1>5 DEF Inv, DeliveryTypeOK, Owned, MapIsExact

-----------------------------------------------------------------------------
(* The messages.                                                           *)

\* What a step of m's request may do to everything else.
Elsewhere(m) ==
  /\ UNCHANGED <<link, owner, conns>>
  /\ \E p \in Post : post' = [post EXCEPT ![m] = p]
  /\ got' \in [Conn -> SUBSET Msg]
  /\ busy' \in [Conn -> SUBSET Writer] /\ met' \in [Conn -> SUBSET Writer]
  /\ \A k \in Msg \ {m} : Kept(k)
  /\ inbox' \in SUBSET Msg /\ inbox \subseteq inbox'

\* Such a step is right if it is for m.
LEMMA OneMessage ==
  ASSUME Inv, Watch, NEW m \in Msg, Elsewhere(m),
         post'[m].at # "unsent" => post'[m].to \in Peer,
         Heard(m)', Away(m)'
  PROVE  Inv'
<1>1. /\ link' = link /\ owner' = owner /\ conns' = conns
      /\ post' \in [Msg -> Post]
      /\ \A k \in Msg \ {m} : post'[k] = post[k]
  BY DEF Elsewhere, Inv, DeliveryTypeOK
<1>2. \A k \in Msg \ {m} : Heard(k)' /\ Away(k)'
  BY <1>1, OthersKept DEF Elsewhere
<1>3. \A k \in Msg : post'[k].at # "unsent" => post'[k].to \in Peer
  BY <1>1 DEF Inv, Heard
<1>4. companion' \in [Msg -> SUBSET Conn] /\ absent' \in SUBSET Msg
  BY <1>1, <1>3, WatchType DEF Inv, DeliveryTypeOK
<1>5. MapIsExact' /\ Owned'
  BY <1>1 DEF Inv, MapIsExact, Owned
<1> QED
  BY <1>1, <1>2, <1>4, <1>5 DEF Inv, DeliveryTypeOK, Elsewhere

\* Once a message is stored, the histories of its recipient only shrink.
LEMMA HistoriesShrink ==
  ASSUME Inv, Watch, NEW m \in Msg, UNCHANGED <<link, conns>>,
         post[m].at # "unsent", post'[m].at # "unsent", post'[m].to = post[m].to
  PROVE  /\ companion'[m] = companion[m] /\ Alive(m)' = Alive(m)
         /\ companion[m] \subseteq Alive(m) /\ post'[m].to \in Peer
         /\ m \in absent' => m \in absent /\ conns[post[m].to] = {}
<1>1. Alive(m)' = Alive(m)
  BY DEF Alive
<1>2. companion[m] \subseteq Alive(m) /\ post[m].to \in Peer
  BY DEF Inv, Heard
<1>3. companion'[m] = companion[m] \cap Alive(m)'
  BY DEF Watch
<1>4. m \in absent' => m \in absent /\ conns'[post'[m].to] = {}
  BY DEF Watch
<1> QED
  BY <1>1, <1>2, <1>3, <1>4

LEMMA StoreInv ==
  ASSUME Inv, Watch, NEW m \in Msg, NEW u \in Peer, NEW v \in Peer, Store(m, u, v)
  PROVE  Inv'
<1>1. /\ post' = [post EXCEPT ![m] = [at |-> "other", from |-> u, to |-> v, left |-> {}]]
      /\ UNCHANGED <<link, owner, conns, writes, got, inbox>> /\ post[m].at = "unsent"
  BY DEF Store
<1>2. [at |-> "other", from |-> u, to |-> v, left |-> {}] \in Post
  BY DEF Post, Stage
<1>3. Elsewhere(m)
  BY <1>1, <1>2 DEF Elsewhere, Inv, DeliveryTypeOK, Kept, writes
<1>4. post'[m] = [at |-> "other", from |-> u, to |-> v, left |-> {}]
  BY <1>1 DEF Inv, DeliveryTypeOK
<1>5. companion'[m] = Alive(m)'
  BY <1>1, <1>4 DEF Watch
<1>6. ~Writing(m)' /\ \A c \in Conn : m \notin busy'[c]
  BY <1>1 DEF Inv, Heard, Writing, writes
<1>7. Heard(m)'
  BY <1>4, <1>5, <1>6 DEF Heard
<1>8. Away(m)'
  BY <1>4 DEF Away, Watch
<1> QED
  BY <1>3, <1>4, <1>7, <1>8, OneMessage

\* The copy of the map holds whoever was there all along.
LEMMA SnapshotOtherInv ==
  ASSUME Inv, Watch, NEW m \in Msg, SnapshotOther(m)
  PROVE  Inv'
<1>1. /\ post' = [post EXCEPT ![m] = [post[m] EXCEPT !.at = "toOther", !.left = conns[post[m].to]]]
      /\ UNCHANGED <<link, owner, conns, writes, got, inbox>> /\ post[m].at = "other"
  BY PostFacts DEF SnapshotOther, Inv, DeliveryTypeOK
<1>2. post[m] \in Post /\ post[m].to \in Peer /\ post[m].from \in Peer /\ conns[post[m].to] \in SUBSET Conn
  BY <1>1, PostFacts DEF Inv, DeliveryTypeOK, Heard
<1>3. /\ post'[m] \in Post /\ post'[m].at = "toOther" /\ post'[m].left = conns[post[m].to]
      /\ post'[m].to = post[m].to /\ post'[m].from = post[m].from
  BY <1>1, <1>2 DEF Inv, DeliveryTypeOK, Post, Stage
<1>4. Elsewhere(m)
  BY <1>1, <1>3 DEF Elsewhere, Inv, DeliveryTypeOK, Kept, writes
<1>5. /\ companion'[m] = companion[m] /\ Alive(m)' = Alive(m) /\ companion[m] \subseteq Alive(m)
      /\ m \in absent' => m \in absent /\ conns[post[m].to] = {}
  BY <1>1, <1>3, HistoriesShrink
<1>6. ~Writing(m)' /\ \A c \in Conn : m \notin busy'[c]
  BY <1>1 DEF Inv, Heard, Writing, writes
<1>7. Heard(m)'
  BY <1>2, <1>3, <1>5, <1>6 DEF Heard, Alive
<1>8. Away(m)'
  BY <1>1, <1>3, <1>5 DEF Away
<1> QED
  BY <1>2, <1>3, <1>4, <1>7, <1>8, OneMessage

\* A write to a connection that was there all along is begun,
LEMMA BeginWriteInv ==
  ASSUME Inv, Watch, NEW m \in Msg, NEW c \in Conn, BeginWrite(m, c)
  PROVE  Inv'
<1>1. /\ post' = [post EXCEPT ![m] = [post[m] EXCEPT !.left = post[m].left \ {c}]]
      /\ busy' = [busy EXCEPT ![c] = busy[c] \cup {m}]
      /\ met' = IF busy[c] = {} THEN met ELSE [met EXCEPT ![c] = met[c] \cup busy[c] \cup {m}]
      /\ UNCHANGED <<link, owner, conns, got, inbox>> /\ post[m].at \in {"toOther", "toSelf"}
      /\ \A k \in Conn : m \notin busy[k]
  BY PostFacts DEF BeginWrite, Writing, Enter, Inv, DeliveryTypeOK
<1>2. post[m] \in Post /\ post[m].to \in Peer /\ post[m].from \in Peer /\ post[m].left \in SUBSET Conn
  BY <1>1, PostFacts DEF Inv, Heard
<1>3. /\ post'[m] \in Post /\ post'[m].at = post[m].at /\ post'[m].left = post[m].left \ {c}
      /\ post'[m].to = post[m].to /\ post'[m].from = post[m].from
  BY <1>1, <1>2 DEF Inv, DeliveryTypeOK, Post
<1>4. /\ busy \in [Conn -> SUBSET Writer] /\ met \in [Conn -> SUBSET Writer] /\ m \in Writer
      /\ got \in [Conn -> SUBSET Msg]
  BY DEF Inv, DeliveryTypeOK, Writer
<1>5. /\ busy' \in [Conn -> SUBSET Writer] /\ met' \in [Conn -> SUBSET Writer]
      /\ \A k \in Msg \ {m} : Kept(k)
      /\ \A k \in Conn : /\ m \in busy'[k] <=> k = c
                         /\ m \in met[k] => m \in met'[k]
  BY <1>1, <1>4 DEF Kept
<1>6. m \in busy'[c]
  BY <1>1, <1>4
<1>7. Elsewhere(m)
  <2>1. /\ got' \in [Conn -> SUBSET Msg] /\ inbox' \in SUBSET Msg /\ inbox \subseteq inbox'
        /\ UNCHANGED <<link, owner, conns>>
    BY <1>1, <1>4 DEF Inv, DeliveryTypeOK
  <2>2. post' = [post EXCEPT ![m] = post'[m]]
    BY <1>1, <1>3 DEF Inv, DeliveryTypeOK
  <2> QED
    BY <1>3, <1>5, <2>1, <2>2 DEF Elsewhere
<1>8. /\ companion'[m] = companion[m] /\ Alive(m)' = Alive(m) /\ companion[m] \subseteq Alive(m)
      /\ m \in absent' => m \in absent /\ conns[post[m].to] = {}
  BY <1>1, <1>3, HistoriesShrink
<1>9. Heard(m) /\ Away(m) /\ \A k \in companion[m] : k \in Conn
  BY DEF Inv, DeliveryTypeOK
<1>10. Heard(m)'
  <2>1. \A k \in companion[m] : k \in post[m].left \/ m \in busy[k] \cup got[k] \cup met[k] =>
          k \in post'[m].left \/ m \in busy'[k] \cup got'[k] \cup met'[k]
    BY <1>1, <1>3, <1>5, <1>6, <1>9
  <2>2. \A k \in companion[m] : m \in got[k] \cup met[k] => m \in got'[k] \cup met'[k]
    BY <1>1, <1>5, <1>9
  <2> QED
    BY <1>1, <1>2, <1>3, <1>5, <1>8, <1>9, <2>1, <2>2 DEF Heard, Writing
<1>11. Away(m)'
  BY <1>1, <1>3, <1>8, <1>9 DEF Away
<1> QED
  BY <1>2, <1>3, <1>7, <1>10, <1>11, OneMessage

\* and when it ends, the connection has the message or the write met another.
LEMMA EndWriteInv ==
  ASSUME Inv, Watch, NEW m \in Msg, NEW c \in Conn, EndWrite(m, c)
  PROVE  Inv'
<1>1. /\ busy' = [busy EXCEPT ![c] = busy[c] \ {m}] /\ m \in busy[c]
      /\ UNCHANGED <<link, owner, conns, post, met, inbox>>
      /\ \/ link[c] = "open" /\ got' = [got EXCEPT ![c] = got[c] \cup {m}]
         \/ (link[c] # "open" \/ m \in met[c]) /\ got' = got
  BY DEF EndWrite, Leaves
<1>2. /\ busy \in [Conn -> SUBSET Writer] /\ got \in [Conn -> SUBSET Msg]
      /\ met \in [Conn -> SUBSET Writer] /\ post \in [Msg -> Post]
  BY DEF Inv, DeliveryTypeOK
<1>3. /\ busy' \in [Conn -> SUBSET Writer] /\ got' \in [Conn -> SUBSET Msg]
      /\ \A k \in Conn : got[k] \subseteq got'[k]
      /\ \A k \in Conn : m \in busy[k] => m \in busy'[k] \/ k = c
      /\ \A k \in Conn : m \in busy'[k] => m \in busy[k]
      /\ \A k \in Msg \ {m} : \A d \in Conn : k \in busy[d] <=> k \in busy'[d]
      /\ link[c] = "open" => m \in got'[c] \cup met'[c]
  BY <1>1, <1>2
<1>4. Elsewhere(m)
  <2>1. post' = [post EXCEPT ![m] = post[m]] /\ post[m] \in Post
    BY <1>1, <1>2
  <2> QED
    BY <1>1, <1>2, <1>3, <2>1 DEF Elsewhere, Kept, Inv, DeliveryTypeOK
<1>5. Heard(m) /\ Away(m) /\ \A k \in companion[m] : k \in Conn
  BY DEF Inv, DeliveryTypeOK
<1>6. post[m].at # "unsent" /\ (Writing(m)' => Writing(m))
  BY <1>1, <1>3, <1>5 DEF Heard, Writing
<1>7. /\ companion'[m] = companion[m] /\ Alive(m)' = Alive(m) /\ companion[m] \subseteq Alive(m)
      /\ post'[m].to \in Peer
      /\ m \in absent' => m \in absent /\ conns[post[m].to] = {}
  BY <1>1, <1>6, HistoriesShrink
<1>8. \A k \in companion[m] : link[k] = "open"
  BY <1>7 DEF Alive
<1>9. \A k \in companion[m] : m \in busy[k] \cup got[k] \cup met[k] =>
        m \in busy'[k] \cup got'[k] \cup met'[k]
  BY <1>1, <1>3, <1>5, <1>8
<1>10. \A k \in companion[m] : m \in got[k] \cup met[k] => m \in got'[k] \cup met'[k]
  BY <1>1, <1>3, <1>5
<1>11. Heard(m)'
  BY <1>1, <1>3, <1>5, <1>6, <1>7, <1>9, <1>10 DEF Heard
<1>12. Away(m)'
  BY <1>1, <1>5, <1>7 DEF Away
<1> QED
  BY <1>4, <1>7, <1>11, <1>12, OneMessage

\* A panic ends the request.
LEMMA PanicInv ==
  ASSUME Inv, Watch, NEW m \in Msg, NEW c \in Conn, WritePanics(m, c)
  PROVE  Inv'
<1>1. /\ post' = [post EXCEPT ![m] = [post[m] EXCEPT !.at = "dropped", !.left = {}]]
      /\ busy' = [busy EXCEPT ![c] = busy[c] \ {m}]
      /\ UNCHANGED <<link, owner, conns, met, got, inbox>>
      /\ \A d \in Conn \ {c} : m \notin busy[d]
  BY PostFacts DEF Heard, WritePanics, Leaves, Inv, DeliveryTypeOK
<1>2. /\ busy \in [Conn -> SUBSET Writer] /\ post \in [Msg -> Post] /\ post[m] \in Post
      /\ met \in [Conn -> SUBSET Writer] /\ got \in [Conn -> SUBSET Msg] /\ inbox \in SUBSET Msg
  BY PostFacts DEF Inv, DeliveryTypeOK
<1>3. /\ post'[m] \in Post /\ post'[m].at = "dropped"
      /\ post'[m].to = post[m].to /\ post'[m].from = post[m].from
  BY <1>1, <1>2 DEF Post, Stage
<1>4. Elsewhere(m)
  BY <1>1, <1>2, <1>3 DEF Elsewhere, Kept
<1>5. Heard(m) /\ Away(m)
  BY DEF Inv
<1>6. post[m].at # "unsent"
  BY <1>5 DEF Heard, Writing, WritePanics
<1>7. /\ companion'[m] = companion[m] /\ Alive(m)' = Alive(m) /\ companion[m] \subseteq Alive(m)
      /\ post'[m].to \in Peer
      /\ m \in absent' => m \in absent /\ conns[post[m].to] = {}
  BY <1>1, <1>3, <1>6, HistoriesShrink
<1>8. Heard(m)' /\ Away(m)'
  BY <1>1, <1>2, <1>3, <1>5, <1>6, <1>7 DEF Heard, Away, Writing
<1> QED
  BY <1>3, <1>4, <1>7, <1>8, OneMessage

\* The second copy is made, and the map looked at, when nothing is left to write.
LEMMA SnapshotSelfInv ==
  ASSUME Inv, Watch, NEW m \in Msg, SnapshotSelf(m)
  PROVE  Inv'
<1>1. /\ post' = [post EXCEPT ![m] = [post[m] EXCEPT !.at = "toSelf", !.left = conns[post[m].from]]]
      /\ UNCHANGED <<link, owner, conns, writes, got, inbox>> /\ post[m].at = "toOther" /\ post[m].left = {}
      /\ \A c \in Conn : m \notin busy[c]
  BY PostFacts DEF SnapshotSelf, Writing, Inv, DeliveryTypeOK
<1>2. post[m] \in Post /\ post[m].to \in Peer /\ post[m].from \in Peer /\ conns[post[m].from] \in SUBSET Conn
  BY <1>1, PostFacts DEF Inv, DeliveryTypeOK, Heard
<1>3. /\ post'[m] \in Post /\ post'[m].at = "toSelf" /\ post'[m].to = post[m].to /\ post'[m].from = post[m].from
  BY <1>1, <1>2 DEF Inv, DeliveryTypeOK, Post, Stage
<1>4. Elsewhere(m)
  BY <1>1, <1>3 DEF Elsewhere, Inv, DeliveryTypeOK, Kept, writes
<1>5. /\ companion'[m] = companion[m] /\ Alive(m)' = Alive(m) /\ companion[m] \subseteq Alive(m)
      /\ m \in absent' => m \in absent /\ conns[post[m].to] = {}
  BY <1>1, <1>3, HistoriesShrink
<1>6. Heard(m) /\ Away(m) /\ \A c \in companion[m] : c \in Conn
  BY DEF Inv, DeliveryTypeOK
<1>7. ~Writing(m)' /\ \A c \in Conn : m \notin busy'[c]
  BY <1>1 DEF Writing, writes
<1>8. Heard(m)' /\ Away(m)'
  BY <1>1, <1>2, <1>3, <1>5, <1>6, <1>7 DEF Heard, Away, writes
<1> QED
  BY <1>2, <1>3, <1>4, <1>8, OneMessage

\* The rest of the request: the recipient is found to be away, and told.
LEMMA EndInv ==
  ASSUME Inv, Watch, NEW m \in Msg, CheckOnline(m) \/ Notify(m) \/ Drop(m)
  PROVE  Inv'
<1>1. PICK at \in Stage :
        /\ post' = [post EXCEPT ![m] = [post[m] EXCEPT !.at = at]]
        /\ at \in {"notify", "done", "dropped"} /\ ~Writing(m)
        /\ at = "notify" => post[m].at = "toSelf"
        /\ at = "done" => \/ post[m].at = "toSelf" /\ conns[post[m].to] # {}
                          \/ post[m].at = "notify" /\ m \in inbox'
  <2>1. CASE CheckOnline(m)
    BY <2>1, PostFacts DEF CheckOnline, Heard, Inv, DeliveryTypeOK, Stage, IsOnline
  <2>2. CASE Notify(m)
    BY <2>2, PostFacts DEF Notify, Heard, Inv, DeliveryTypeOK, Stage
  <2>3. CASE Drop(m)
    BY <2>3, PostFacts DEF Drop, Heard, Inv, DeliveryTypeOK, Stage
  <2> QED
    BY <2>1, <2>2, <2>3
<1>2. /\ UNCHANGED <<link, owner, conns, writes, got>> /\ inbox' \in SUBSET Msg /\ inbox \subseteq inbox'
      /\ post[m].at # "unsent"
  BY DEF CheckOnline, Notify, Drop, Inv, DeliveryTypeOK
<1>3. post[m] \in Post /\ post[m].to \in Peer /\ post[m].from \in Peer
  BY <1>2, PostFacts DEF Inv, Heard
<1>4. post'[m] \in Post /\ post'[m].at = at /\ post'[m].to = post[m].to /\ post'[m].from = post[m].from
  BY <1>1, <1>3 DEF Inv, DeliveryTypeOK, Post
<1>5. Elsewhere(m)
  BY <1>1, <1>2, <1>4 DEF Elsewhere, Inv, DeliveryTypeOK, Kept, writes
<1>6. /\ companion'[m] = companion[m] /\ Alive(m)' = Alive(m) /\ companion[m] \subseteq Alive(m)
      /\ m \in absent' => m \in absent /\ conns[post[m].to] = {}
  BY <1>1, <1>2, <1>4, HistoriesShrink
<1>7. Heard(m) /\ Away(m)
  BY DEF Inv
<1>8. ~Writing(m)' /\ \A c \in Conn : m \notin busy'[c]
  BY <1>1, <1>2 DEF Writing, writes
<1>9. Heard(m)' /\ Away(m)'
  BY <1>1, <1>2, <1>3, <1>4, <1>6, <1>7, <1>8 DEF Heard, Away, writes
<1> QED
  BY <1>3, <1>4, <1>5, <1>9, OneMessage

-----------------------------------------------------------------------------
\* After a restart nobody is connected, and nobody has been all along.
LEMMA RestartInv ==
  ASSUME Inv, Watch, RestartHub
  PROVE  Inv'
<1>1. /\ link' = [c \in Conn |-> IF link[c] = "unused" THEN "unused" ELSE "closed"]
      /\ conns' = [u \in Peer |-> {}] /\ UNCHANGED <<owner, got, inbox>>
  BY DEF RestartHub
<1>2. link' \in [Conn -> Link] /\ conns' \in [Peer -> SUBSET Conn] /\ MapIsExact' /\ Owned'
  BY <1>1 DEF Link, MapIsExact, Owned, Inv, DeliveryTypeOK
<1>3. ASSUME NEW m \in Msg
      PROVE  /\ post'[m] \in Post /\ post'[m].to = post[m].to /\ post'[m].from = post[m].from
             /\ post'[m].at = IF post[m].at \in {"unsent", "done"} THEN post[m].at ELSE "dropped"
  <2>1. post[m] \in Post
    BY PostFacts DEF Inv
  <2>2. post'[m] = IF post[m].at \in {"unsent", "done"} THEN post[m]
                   ELSE [post[m] EXCEPT !.at = "dropped", !.left = {}]
    BY DEF RestartHub
  <2> QED
    BY <2>1, <2>2 DEF Post, Stage
<1>4. post' \in [Msg -> Post]
  <2>1. post' = [m \in Msg |-> post'[m]]
    BY DEF RestartHub
  <2> QED
    BY <1>3, <2>1
<1>5. \A m \in Msg : post'[m].at # "unsent" => post'[m].to \in Peer /\ post'[m].from \in Peer
  BY <1>3 DEF Inv, Heard
<1>6. companion' \in [Msg -> SUBSET Conn] /\ absent' \in SUBSET Msg
  BY <1>2, <1>4, <1>5, WatchType DEF Inv
<1>7. ASSUME NEW m \in Msg
      PROVE  Heard(m)' /\ Away(m)'
  <2>1. post'[m].at # "unsent" => Alive(m)' = {}
    BY <1>1, <1>5, <1>7 DEF Alive
  <2>2. companion'[m] = {}
    BY <1>3, <1>7, <2>1 DEF Watch
  <2>3. m \in absent' => m \in absent /\ post'[m].at # "unsent" /\ conns'[post'[m].to] = {}
    BY <1>3, <1>7 DEF Watch
  <2>4. Away(m)
    BY <1>7 DEF Inv
  <2>5. Away(m)'
    BY <1>1, <1>3, <1>7, <2>3, <2>4 DEF Away
  <2>6. ~Writing(m)' /\ \A c \in Conn : m \notin busy'[c]
    BY DEF RestartHub, Writing
  <2>7. Heard(m)'
    BY <1>5, <1>7, <2>2, <2>6 DEF Heard
  <2> QED
    BY <2>5, <2>7
<1>8. busy' \in [Conn -> SUBSET Writer] /\ met' \in [Conn -> SUBSET Writer]
  BY DEF RestartHub, Inv, DeliveryTypeOK
<1> QED
  BY <1>1, <1>2, <1>4, <1>6, <1>7, <1>8 DEF Inv, DeliveryTypeOK

LEMMA InvNext == Inv /\ [DeliveryNext]_deliveryVars => Inv'
<1> SUFFICES ASSUME Inv, [DeliveryNext]_deliveryVars PROVE Inv'
  OBVIOUS
<1>1. CASE UNCHANGED deliveryVars
  BY <1>1 DEF deliveryVars, Inv, DeliveryTypeOK, Owned, MapIsExact, Heard, Away, Alive, Writing, writes
<1>2. CASE DeliveryNext
  <2>1. Watch
    BY <1>2 DEF DeliveryNext
  <2>2. CASE \E c \in Conn : ServeTab(c)
    BY <2>1, <2>2, ConnInv, PingInv, RestartInv DEF ServeTab, PingPanics
  <2>3. ASSUME NEW m \in Msg, PostMessage(m)
        PROVE  Inv'
    BY <2>1, <2>3, StoreInv, SnapshotOtherInv, BeginWriteInv, EndWriteInv, PanicInv,
       SnapshotSelfInv, EndInv
       DEF PostMessage, Deliver
  <2>4. CASE RestartHub
    BY <2>1, <2>4, RestartInv
  <2> QED
    BY <1>2, <2>2, <2>3, <2>4 DEF DeliveryNext
<1> QED
  BY <1>1, <1>2

LEMMA Invariance == DeliverySpec => []Inv
BY InvInit, InvNext, PTL DEF DeliverySpec

\* The map, the requests and the histories hold what they declare.
THEOREM TypeCorrect == DeliverySpec => []DeliveryTypeOK
<1>1. Inv => DeliveryTypeOK
  BY DEF Inv
<1> QED
  BY <1>1, Invariance, PTL

\* The hub's map is exact, however many connections come and go.
THEOREM MapExact == DeliverySpec => []MapIsExact
<1>1. Inv => MapIsExact
  BY DEF Inv
<1> QED
  BY <1>1, Invariance, PTL

\* A tab that was connected all along has the message when its sender has the
\* answer.
THEOREM TabsHear == DeliverySpec => []ConnectedTabsHear
<1>1. Inv => ConnectedTabsHear
  BY DEF Inv, Heard, ConnectedTabsHear
<1> QED
  BY <1>1, Invariance, PTL

\* A recipient who was away all along has the notification by then.
THEOREM AbsentNotified == DeliverySpec => []AbsentAreNotified
<1>1. ASSUME Inv, NEW m \in absent, post[m].at = "done"
      PROVE  m \in inbox
  BY <1>1 DEF Inv, DeliveryTypeOK, Away
<1>2. Inv => AbsentAreNotified
  BY <1>1 DEF AbsentAreNotified
<1> QED
  BY <1>2, Invariance, PTL
=============================================================================
