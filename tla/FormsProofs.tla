----------------------------- MODULE FormsProofs -----------------------------
(***************************************************************************)
(* Proofs about the pages, for any values of the constants and any number  *)
(* of requests under way.                                                  *)
(*                                                                         *)
(* The board, of module Live, comes first: a step of the page is a step of *)
(* a live copy, or none of its business; and no fetch overwrites what is   *)
(* being typed.  Both rest on an invariant about the page and every        *)
(* request under way, Known.  What it says of a request depends on its     *)
(* kind, its answer and whether the page that sent it is still open, on    *)
(* nothing else; so a request may be overtaken, and move in the list.      *)
(*                                                                         *)
(* The pages of module Forms follow in the same way, each with an          *)
(* invariant of its own about the rows, the page and every request.  From  *)
(* says which requests there are after a step: some of those before it,    *)
(* and those that it sends.                                                *)
(***************************************************************************)
EXTENDS Forms, TLAPS

-----------------------------------------------------------------------------
(* The board's page.                                                       *)

BoardOp == Kanban!Ops \cup {"foreign"}

BoardCall == [op : BoardOp, arg : Name \cup {None},
              ans : Kanban!Board \cup {Waiting, Failed, Done},
              late : BOOLEAN, gone : BOOLEAN]

BoardState == [board : Kanban!Board \cup {None}, error : BOOLEAN,
            sock : {"connecting", "open", "waiting", "left"},
            lane : Name \cup {None}, typed : Name \cup {None}, touches : Nat]

BoardRows == [version : Nat, name : Name, conn : BOOLEAN, there : BOOLEAN]

\* A board that was read is one there has been, and a page that was left has
\* left its requests behind.
Known(c, p, r) ==
  /\ c.op = "load" /\ c.ans \notin {Waiting, Failed} =>
       c.ans \in Kanban!Board /\ c.ans.version <= r.version
  /\ p.sock = "left" /\ c.op \in Kanban!Ops => c.gone

\* What the page shows is as old as what was read, and its input has what was
\* typed in it.
PageKnown(p, r) ==
  /\ p.board # None => p.board.version <= r.version
  /\ p.typed # None /\ ~p.error => p.lane = p.typed
  /\ p.sock = "left" => p.board = None /\ ~r.conn

NetKnown(s, p, r) ==
  /\ s \in Seq(BoardCall)
  /\ \A i \in DOMAIN s : Known(s[i], p, r)

BoardInv == /\ page \in BoardState /\ rows \in BoardRows /\ lag \in BOOLEAN
       /\ PageKnown(page, rows)
       /\ NetKnown(net, page, rows)

-----------------------------------------------------------------------------
(* What the operators of Calls do to the list of requests.                 *)

LEMMA AppendKnown ==
  ASSUME NEW p, NEW r, NEW s, NetKnown(s, p, r), NEW c \in BoardCall, Known(c, p, r)
  PROVE  NetKnown(Append(s, c), p, r)
<1>1. /\ Append(s, c) \in Seq(BoardCall)
      /\ \A i \in DOMAIN Append(s, c) :
           Append(s, c)[i] = c \/ (i \in DOMAIN s /\ Append(s, c)[i] = s[i])
  BY DEF NetKnown
<1> QED
  BY <1>1 DEF NetKnown

LEMMA RestKnown ==
  ASSUME NEW p, NEW r, NetKnown(net, p, r), NEW i \in DOMAIN net
  PROVE  NetKnown(Kanban!Rest(i), p, r)
<1>1. net \in Seq(BoardCall) /\ i \in 1 .. Len(net) /\ DOMAIN net = 1 .. Len(net)
  BY DEF NetKnown
<1>2. ASSUME NEW j \in 1 .. Len(net) - 1
      PROVE  /\ Kanban!Rest(i)[j] \in BoardCall
             /\ Known(Kanban!Rest(i)[j], p, r)
  <2>1. CASE j >= i
    BY <1>1, <1>2, <2>1 DEF Kanban!Rest, NetKnown
  <2>2. CASE ~(j >= i)
    <3>1. net[j] \in BoardCall /\ Known(net[j], p, r) /\ net[i] \in BoardCall
      BY <1>1, <1>2 DEF NetKnown
    <3>2. Kanban!Rest(i)[j] = [net[j] EXCEPT !.late = net[j].late \/ net[j].op = net[i].op]
      BY <1>1, <1>2, <2>2 DEF Kanban!Rest
    <3>3. DEFINE b == net[j].late \/ net[j].op = net[i].op
    <3>4. b \in BOOLEAN
      OBVIOUS
    <3> HIDE DEF b
    <3>5. Kanban!Rest(i)[j] = [net[j] EXCEPT !.late = b]
      BY <3>2 DEF b
    <3> QED
      BY <3>1, <3>4, <3>5 DEF BoardCall, Known
  <2> QED
    BY <2>1, <2>2
<1>3. Kanban!Rest(i) \in Seq(BoardCall) /\ DOMAIN Kanban!Rest(i) = 1 .. Len(net) - 1
  <2>1. Len(net) - 1 \in Nat
    BY <1>1
  <2>2. Kanban!Rest(i) \in [1 .. Len(net) - 1 -> BoardCall]
    BY <1>2 DEF Kanban!Rest
  <2> QED
    BY <2>1, <2>2
<1> QED
  BY <1>2, <1>3 DEF NetKnown

LEMMA ReplaceKnown ==
  ASSUME NEW p, NEW r, NEW s, NetKnown(s, p, r), NEW i \in DOMAIN s,
         NEW c \in BoardCall, Known(c, p, r)
  PROVE  NetKnown([s EXCEPT ![i] = c], p, r)
<1>1. /\ [s EXCEPT ![i] = c] \in Seq(BoardCall)
      /\ \A j \in DOMAIN [s EXCEPT ![i] = c] :
           j \in DOMAIN s /\ [s EXCEPT ![i] = c][j] = IF j = i THEN c ELSE s[j]
  BY DEF NetKnown
<1> QED
  BY <1>1 DEF NetKnown

\* A page that is left may be followed by any other.
LEMMA UnmountedKnown ==
  ASSUME NEW p, NEW r, NEW s, NetKnown(s, p, r), NEW ops
  PROVE  NetKnown(Kanban!Unmounted(s, ops), p, r)
<1>1. s \in Seq(BoardCall)
  BY DEF NetKnown
<1>2. ASSUME NEW i \in DOMAIN s
      PROVE  Kanban!Unmounted(s, ops)[i] \in BoardCall /\ Known(Kanban!Unmounted(s, ops)[i], p, r)
  <2>1. s[i] \in BoardCall /\ Known(s[i], p, r)
    BY <1>1, <1>2 DEF NetKnown
  <2>2. DEFINE b == s[i].gone \/ s[i].op \in ops
  <2>3. b \in BOOLEAN /\ (s[i].gone => b)
    OBVIOUS
  <2>4. Kanban!Unmounted(s, ops)[i] = [s[i] EXCEPT !.gone = b]
    BY <1>2 DEF Kanban!Unmounted
  <2> HIDE DEF b
  <2> QED
    BY <2>1, <2>3, <2>4 DEF BoardCall, Known
<1>3. Kanban!Unmounted(s, ops) \in Seq(BoardCall) /\ DOMAIN Kanban!Unmounted(s, ops) = DOMAIN s
  <2>1. Len(s) \in Nat /\ DOMAIN s = 1 .. Len(s)
    BY <1>1
  <2>2. Kanban!Unmounted(s, ops) \in [1 .. Len(s) -> BoardCall]
    BY <1>2, <2>1 DEF Kanban!Unmounted
  <2> QED
    BY <2>1, <2>2 DEF Kanban!Unmounted
<1> QED
  BY <1>2, <1>3 DEF NetKnown

LEMMA LeftKnown ==
  ASSUME NEW p, NEW q, NEW r, NEW r2, NEW s, NetKnown(s, p, r), r2.version = r.version
  PROVE  NetKnown(Kanban!Unmounted(s, Kanban!Ops), q, r2)
<1>1. NetKnown(Kanban!Unmounted(s, Kanban!Ops), p, r)
  BY UnmountedKnown
<1>2. \A i \in DOMAIN Kanban!Unmounted(s, Kanban!Ops) :
        Kanban!Unmounted(s, Kanban!Ops)[i].op \in Kanban!Ops => Kanban!Unmounted(s,
           Kanban!Ops)[i].gone
  <2>1. s \in Seq(BoardCall)
    BY DEF NetKnown
  <2>2. SUFFICES ASSUME NEW i \in DOMAIN s, Kanban!Unmounted(s, Kanban!Ops)[i].op \in Kanban!Ops
                 PROVE  Kanban!Unmounted(s, Kanban!Ops)[i].gone
    BY <2>1 DEF Kanban!Unmounted
  <2>3. s[i] \in BoardCall
    BY <2>1, <2>2
  <2>4. DEFINE b == s[i].gone \/ s[i].op \in Kanban!Ops
  <2>5. Kanban!Unmounted(s, Kanban!Ops)[i] = [s[i] EXCEPT !.gone = b]
    BY <2>2 DEF Kanban!Unmounted
  <2>6. Kanban!Unmounted(s, Kanban!Ops)[i].op = s[i].op /\ Kanban!Unmounted(s,
     Kanban!Ops)[i].gone = b
    <3> HIDE DEF b
    <3> QED
      BY <2>3, <2>5 DEF BoardCall
  <2> QED
    BY <2>2, <2>6
<1> QED
  BY <1>1, <1>2 DEF NetKnown, Known, Kanban!Ops

\* While the page stays, the board only moves on.
LEMMA CarriedKnown ==
  ASSUME NEW p, NEW q, NEW r, NEW r2, NEW s, NetKnown(s, p, r),
         r.version \in Nat, r2.version \in Nat, r.version <= r2.version,
         q.sock = "left" => p.sock = "left"
  PROVE  NetKnown(s, q, r2)
<1>1. ASSUME NEW c \in BoardCall, Known(c, p, r)
      PROVE  Known(c, q, r2)
  <2>1. c.ans \in Kanban!Board => c.ans.version \in Nat
    BY DEF Kanban!Board
  <2> QED
    BY <1>1, <2>1 DEF Known
<1> QED
  BY <1>1 DEF NetKnown

\* A request that was just sent has no answer yet.
LEMMA SentKnown ==
  ASSUME NEW p, NEW r, NEW op \in BoardOp, NEW arg \in Name \cup {None},
         p.sock # "left" \/ op \notin Kanban!Ops
  PROVE  Kanban!Call(op, arg) \in BoardCall /\ Known(Kanban!Call(op, arg), p, r)
BY DEF Kanban!Call, BoardCall, Known

LEMMA BoardCallFacts ==
  ASSUME BoardInv, NEW i \in DOMAIN net
  PROVE  net[i] \in BoardCall /\ Known(net[i], page, rows)
BY DEF BoardInv, NetKnown

-----------------------------------------------------------------------------
(* The invariant, action by action.                                        *)

LEMMA BoardInvInit == Kanban!Init => BoardInv
<1> SUFFICES ASSUME Kanban!Init PROVE BoardInv
  OBVIOUS
<1>1. page \in BoardState /\ rows \in BoardRows /\ lag \in BOOLEAN
  <2>1. page \in BoardState /\ lag \in BOOLEAN
    BY DEF Kanban!Init, Kanban!Fresh, BoardState
  <2>2. {0} \subseteq Nat /\ {FALSE} \subseteq BOOLEAN /\ {TRUE} \subseteq BOOLEAN
    OBVIOUS
  <2>3. rows \in BoardRows
    BY <2>2 DEF Kanban!Init, BoardRows
  <2> QED
    BY <2>1, <2>3
<1>2. page.sock # "left"
  BY DEF Kanban!Init, Kanban!Fresh
<1>3. PageKnown(page, rows)
  BY <1>2 DEF Kanban!Init, Kanban!Fresh, PageKnown
<1>4. Kanban!Call("load", None) \in BoardCall /\ Known(Kanban!Call("load", None), page, rows)
  BY <1>2, SentKnown DEF BoardOp, Kanban!Ops
<1>5. NetKnown(net, page, rows)
  BY <1>4 DEF Kanban!Init, NetKnown
<1> QED
  BY <1>1, <1>3, <1>5 DEF BoardInv

LEMMA BoardLoadInv ==
  ASSUME BoardInv, NEW i \in DOMAIN net, Kanban!Load(i)
  PROVE  BoardInv'
<1>1. net[i] \in BoardCall /\ Known(net[i], page,
   rows) /\ page \in BoardState /\ rows \in BoardRows
  BY BoardCallFacts DEF BoardInv
<1>2. rows' = rows /\ net' = Kanban!Rest(i) /\ net[i].op = "load" /\ net[i].ans # Waiting
  BY DEF Kanban!Load, Kanban!Answered, Kanban!Take
<1>3. /\ page' \in BoardState /\ lag' \in BOOLEAN
      /\ page'.sock = page.sock /\ PageKnown(page', rows)
  <2>1. CASE net[i].gone
    BY <1>1, <1>2, <2>1 DEF Kanban!Load, BoardInv
  <2>2. CASE ~net[i].gone /\ net[i].ans = Failed
    <3>1. page' = [page EXCEPT !.error = TRUE, !.lane = None] /\ lag' = TRUE
      BY <2>2 DEF Kanban!Load
    <3> QED
      BY <1>1, <3>1 DEF BoardInv, BoardState, PageKnown
  <2>3. CASE ~net[i].gone /\ net[i].ans # Failed
    <3>1. PICK lane \in Name \cup {None} :
            /\ page' = [page EXCEPT !.board = net[i].ans, !.lane = lane]
            /\ lane = IF page.lane = None /\ ~page.error THEN net[i].ans.name ELSE page.lane
      <4>1. net[i].ans.name \in Name /\ page.lane \in Name \cup {None}
        BY <1>1, <1>2, <2>3 DEF Known, Kanban!Board, BoardState
      <4> QED
        BY <4>1, <2>3 DEF Kanban!Load
    <3>2. lag' \in BOOLEAN
      BY <1>1, <2>3 DEF Kanban!Load, BoardState, BoardCall, BoardInv
    <3>3. /\ net[i].ans \in Kanban!Board /\ net[i].ans.version <= rows.version
          /\ page.sock # "left"
      BY <1>1, <1>2, <2>3 DEF Known, Kanban!Ops
    <3>4. page' \in BoardState
      BY <1>1, <3>1, <3>3 DEF BoardState
    <3>5. /\ page'.board = net[i].ans /\ page'.lane = lane /\ page'.sock = page.sock
          /\ page'.error = page.error /\ page'.typed = page.typed
      BY <1>1, <3>1 DEF BoardState
    <3>6. PageKnown(page, rows)
      BY DEF BoardInv
    <3>7. PageKnown(page', rows)
      BY <1>1, <3>1, <3>3, <3>5, <3>6 DEF PageKnown
    <3> QED
      BY <3>2, <3>4, <3>5, <3>7
  <2> QED
    BY <2>1, <2>2, <2>3
<1>4. NetKnown(net, page', rows)
  BY <1>1, <1>3, CarriedKnown DEF BoardInv, BoardRows
<1>5. NetKnown(Kanban!Rest(i), page', rows)
  BY <1>4, RestKnown
<1> QED
  BY <1>1, <1>2, <1>3, <1>5 DEF BoardInv

LEMMA BoardLeavingInv ==
  ASSUME BoardInv, NEW calls, NetKnown(calls, page, rows), Kanban!Leaving(calls)
  PROVE  BoardInv'
<1>1. page \in BoardState /\ rows \in BoardRows
  BY DEF BoardInv
<1>2. /\ page' \in BoardState /\ page'.sock = "left" /\ page'.board = None /\ page'.typed = None
      /\ rows' = [rows EXCEPT !.conn = FALSE] /\ lag' = TRUE /\ net' = Kanban!Unmounted(calls,
         Kanban!Ops)
  BY <1>1 DEF Kanban!Leaving, Kanban!Fresh, BoardState
<1>3. rows' \in BoardRows /\ rows'.version = rows.version /\ ~rows'.conn
  BY <1>1, <1>2 DEF BoardRows
<1>4. NetKnown(net', page', rows')
  BY <1>2, <1>3, LeftKnown
<1> QED
  BY <1>2, <1>3, <1>4 DEF BoardInv, PageKnown

LEMMA BoardReopenInv ==
  ASSUME BoardInv, Kanban!Reopen
  PROVE  BoardInv'
<1>1. page \in BoardState /\ rows \in BoardRows /\ NetKnown(net, page, rows)
  BY DEF BoardInv
<1>2. /\ page' = Kanban!Fresh(page.touches + 1) /\ page.sock = "left" /\ rows' = rows /\ lag' = FALSE
      /\ net' = Append(net, Kanban!Call("load", None))
  BY DEF Kanban!Reopen, Kanban!Send
<1>3. /\ page' \in BoardState /\ page'.sock # "left" /\ page'.board = None /\ page'.typed = None
  BY <1>1, <1>2 DEF Kanban!Fresh, BoardState
<1>4. NetKnown(net, page', rows)
  <2>1. ASSUME NEW j \in DOMAIN net
        PROVE  Known(net[j], page', rows)
    <3>1. net[j].op \in Kanban!Ops => net[j].gone
      BY <1>1, <1>2, <2>1 DEF NetKnown, Known
    <3> QED
      BY <1>1, <1>3, <2>1, <3>1 DEF NetKnown, Known, Kanban!Ops
  <2> QED
    BY <1>1, <2>1 DEF NetKnown
<1>5. NetKnown(net', page', rows)
  BY <1>2, <1>3, <1>4, SentKnown, AppendKnown DEF BoardOp, Kanban!Ops
<1> QED
  BY <1>1, <1>2, <1>3, <1>5 DEF BoardInv, PageKnown

\* The socket: nothing the page shows, and nothing under way but events.
LEMMA BoardSocketInv ==
  ASSUME BoardInv, Kanban!Opened \/ Kanban!Register \/ Kanban!Close \/ Kanban!Reconnect
  PROVE  BoardInv'
<1>1. /\ page \in BoardState /\ rows \in BoardRows /\ PageKnown(page, rows)
      /\ NetKnown(net, page, rows) /\ lag \in BOOLEAN
  BY DEF BoardInv
<1>2. /\ page.sock # "left"
      /\ \/ page' = page
         \/ \E sock \in {"connecting", "open", "waiting"} : page' = [page EXCEPT !.sock = sock]
      /\ rows' = rows \/ \E conn \in BOOLEAN : rows' = [rows EXCEPT !.conn = conn]
      /\ net' = net \/ net' = Kanban!Unmounted(net, {"event"})
      /\ lag' \in BOOLEAN
  BY <1>1 DEF Kanban!Opened, Kanban!Register, Kanban!Close, Kanban!Reconnect
<1>3. /\ page' \in BoardState /\ page'.sock # "left"
      /\ page'.board = page.board /\ page'.lane = page.lane /\ page'.error = page.error
      /\ page'.typed = page.typed
  BY <1>1, <1>2 DEF BoardState
<1>4. rows' \in BoardRows /\ rows'.version = rows.version
  BY <1>1, <1>2 DEF BoardRows
<1>5. PageKnown(page', rows')
  BY <1>1, <1>3, <1>4 DEF PageKnown
<1>6. NetKnown(net, page', rows')
  <2>1. rows.version \in Nat /\ rows'.version \in Nat /\ rows.version <= rows'.version
    BY <1>1, <1>4 DEF BoardRows
  <2> QED
    BY <1>1, <1>3, <1>4, <2>1, CarriedKnown
<1>7. NetKnown(net', page', rows')
  BY <1>2, <1>6, UnmountedKnown
<1> QED
  BY <1>2, <1>3, <1>4, <1>5, <1>7 DEF BoardInv

LEMMA BoardEventInv ==
  ASSUME BoardInv, NEW i \in DOMAIN net, Kanban!Event(i) \/ Kanban!Written(i)
  PROVE  BoardInv'
<1>1. NetKnown(Kanban!Rest(i), page, rows) /\ net[i] \in BoardCall /\ Known(net[i], page, rows)
  BY RestKnown, BoardCallFacts DEF BoardInv
<1>2. UNCHANGED <<page, rows, lag>> /\ net[i].op \in Kanban!Ops
  BY DEF Kanban!Event, Kanban!Written, Kanban!Answered, Kanban!Ops
<1>3. \/ net' = Kanban!Rest(i)
      \/ net' = Append(Kanban!Rest(i), Kanban!Call("load", None)) /\ ~net[i].gone
  BY DEF Kanban!Event, Kanban!Written, Kanban!Take, Kanban!TakeAndSend
<1>4. ASSUME ~net[i].gone
      PROVE  NetKnown(Append(Kanban!Rest(i), Kanban!Call("load", None)), page, rows)
  <2>1. page.sock # "left"
    BY <1>1, <1>2, <1>4 DEF Known
  <2> QED
    BY <1>1, <2>1, SentKnown, AppendKnown DEF BoardOp, Kanban!Ops
<1> QED
  BY <1>1, <1>2, <1>3, <1>4 DEF BoardInv

LEMMA BoardDeletedInv ==
  ASSUME BoardInv, NEW i \in DOMAIN net, Kanban!Deleted(i)
  PROVE  BoardInv'
<1>1. NetKnown(Kanban!Rest(i), page, rows)
  BY RestKnown DEF BoardInv
<1>2. CASE UNCHANGED <<page, rows, lag>> /\ net' = Kanban!Rest(i)
  BY <1>1, <1>2 DEF BoardInv
<1>3. CASE Kanban!Leaving(Kanban!Rest(i))
  BY <1>1, <1>3, BoardLeavingInv
<1> QED
  BY <1>2, <1>3 DEF Kanban!Deleted, Kanban!Take

\* What the user does.
LEMMA BoardUserInv ==
  ASSUME BoardInv, Kanban!Write \/ Kanban!LaneType \/ Kanban!SaveName \/ Kanban!DeleteBoard
  PROVE  BoardInv'
<1>1. /\ page \in BoardState /\ rows \in BoardRows /\ PageKnown(page, rows)
      /\ NetKnown(net, page, rows) /\ lag \in BOOLEAN
  BY DEF BoardInv
<1>2. /\ rows' = rows /\ lag' = lag
      /\ page.board # None /\ ~page.error /\ page.sock # "left"
  BY <1>1 DEF Kanban!Write, Kanban!LaneType, Kanban!SaveName, Kanban!DeleteBoard, Kanban!There,
     PageKnown
<1>3. CASE Kanban!LaneType
  <2>1. PICK n \in Name : page' = [page EXCEPT !.lane = n, !.typed = n]
    BY <1>3 DEF Kanban!LaneType
  <2>2. /\ page' \in BoardState /\ page'.typed = n /\ page'.sock = page.sock
        /\ page'.board = page.board /\ page'.lane = n
    BY <1>1, <2>1 DEF BoardState
  <2>3. PageKnown(page', rows)
    BY <1>1, <1>2, <2>2 DEF PageKnown
  <2>4. NetKnown(net, page', rows)
    BY <1>1, <2>2, CarriedKnown DEF BoardRows
  <2> QED
    BY <1>1, <1>2, <1>3, <2>2, <2>3, <2>4 DEF BoardInv, Kanban!LaneType
<1>4. CASE Kanban!Write \/ Kanban!SaveName \/ Kanban!DeleteBoard
  <2>1. page' = [page EXCEPT !.touches = page.touches + 1]
    BY <1>4 DEF Kanban!Write, Kanban!SaveName, Kanban!DeleteBoard, Kanban!Touched
  <2>2. /\ page' \in BoardState /\ page'.sock = page.sock /\ page'.typed = page.typed
        /\ page'.board = page.board
        /\ page'.lane = page.lane /\ page'.error = page.error
    BY <1>1, <2>1 DEF BoardState
  <2>3. PageKnown(page', rows)
    BY <1>1, <2>2 DEF PageKnown
  <2>4. NetKnown(net, page', rows)
    BY <1>1, <2>2, CarriedKnown DEF BoardRows
  <2>5. PICK op \in {"write", "delete"}, arg \in Name \cup {None} :
          net' = Append(net, Kanban!Call(op, arg))
    <3>1. CASE Kanban!Write
      BY <3>1 DEF Kanban!Write, Kanban!Send
    <3>2. CASE Kanban!DeleteBoard
      BY <3>2 DEF Kanban!DeleteBoard, Kanban!Send
    <3>3. CASE Kanban!SaveName
      BY <1>1, <3>3 DEF Kanban!SaveName, Kanban!Send, BoardState
    <3> QED
      BY <1>4, <3>1, <3>2, <3>3
  <2>6. Kanban!Call(op, arg) \in BoardCall /\ Known(Kanban!Call(op, arg), page', rows)
    <3>1. op \in BoardOp /\ page'.sock # "left"
      BY <1>2, <2>2, <2>5 DEF BoardOp, Kanban!Ops
    <3> QED
      BY <2>2, <2>5, <3>1, SentKnown
  <2>7. NetKnown(net', page', rows)
    BY <2>4, <2>5, <2>6, AppendKnown
  <2> QED
    BY <1>1, <1>2, <2>2, <2>3, <2>7 DEF BoardInv
<1> QED
  BY <1>3, <1>4

\* The backend moves a request on or answers it, with what there is.
LEMMA AnswerKnown ==
  ASSUME BoardInv, NEW i \in DOMAIN net, NEW op \in BoardOp, NEW ans \in {Kanban!Shown(rows),
     Failed, Done},
         \/ op = "load" /\ net[i].op = "load" /\ ans \in {Kanban!Shown(rows), Failed}
         \/ op \in {"write", "written"} /\ net[i].op \in {"write", "written"}
         \/ op \in {"delete", "deleted"} /\ net[i].op \in {"delete", "deleted"}
  PROVE  NetKnown([net EXCEPT ![i] = [net[i] EXCEPT !.op = op, !.ans = ans]], page, rows)
<1>1. net[i] \in BoardCall /\ Known(net[i], page, rows) /\ rows \in BoardRows
  BY BoardCallFacts DEF BoardInv
<1>2. DEFINE c == [net[i] EXCEPT !.op = op, !.ans = ans]
<1>3. /\ Kanban!Shown(rows) \in Kanban!Board
      /\ Kanban!Shown(rows).version = rows.version
  BY <1>1 DEF Kanban!Shown, Kanban!Board, BoardRows
<1>4. /\ c \in BoardCall /\ c.op = op /\ c.ans = ans
      /\ c.arg = net[i].arg /\ c.gone = net[i].gone
  BY <1>1, <1>3 DEF BoardCall
<1>5. rows.version \in Nat
  BY <1>1 DEF BoardRows
<1> HIDE DEF c
<1>6. Known(c, page, rows)
  BY <1>1, <1>3, <1>4, <1>5 DEF Known, Kanban!Ops
<1>7. NetKnown([net EXCEPT ![i] = c], page, rows)
  BY <1>4, <1>6, ReplaceKnown DEF BoardInv
<1> QED
  BY <1>7 DEF c

\* A change of the board, by a write or by somebody else.
LEMMA ChangedKnown ==
  ASSUME BoardInv, NEW r \in BoardRows, r.version = rows.version + 1, r.conn = rows.conn
  PROVE  PageKnown(page, r) /\ NetKnown(net, page, r)
<1>1. /\ page \in BoardState /\ rows \in BoardRows /\ PageKnown(page, rows)
      /\ NetKnown(net, page, rows)
  BY DEF BoardInv
<1>2. /\ rows.version \in Nat /\ r.version \in Nat /\ rows.version <= r.version
      /\ page.board # None => page.board.version \in Nat
  BY <1>1 DEF BoardRows, BoardState, Kanban!Board
<1>3. NetKnown(net, page, r)
  BY <1>1, <1>2, CarriedKnown
<1>4. PageKnown(page, r)
  BY <1>1, <1>2 DEF PageKnown
<1> QED
  BY <1>3, <1>4

LEMMA ChangedRows ==
  ASSUME BoardInv, NEW n \in Name, rows' = Kanban!Changed(n)
  PROVE  rows' \in BoardRows /\ rows'.version = rows.version + 1 /\ rows'.conn = rows.conn
<1>1. rows \in BoardRows /\ rows.version + 1 \in Nat
  BY DEF BoardInv, BoardRows
<1> QED
  BY <1>1 DEF Kanban!Changed, BoardRows

LEMMA BoardCommitInv ==
  ASSUME BoardInv, NEW i \in DOMAIN net, Kanban!Commit(i)
  PROVE  BoardInv'
<1>1. /\ page \in BoardState /\ rows \in BoardRows /\ lag \in BOOLEAN
      /\ page' = page /\ lag' = lag
      /\ net[i] \in BoardCall /\ Known(net[i], page, rows)
      /\ net[i].op = "write" /\ net[i].ans = Waiting
  BY BoardCallFacts DEF BoardInv, Kanban!Commit, Kanban!Sent
<1>2. CASE Kanban!Reply(i, Failed) /\ UNCHANGED rows
  <2>1. net' = [net EXCEPT ![i] = [net[i] EXCEPT !.op = "write", !.ans = Failed]]
    BY <1>1, <1>2 DEF Kanban!Reply, BoardCall
  <2>2. NetKnown(net', page, rows)
    BY <1>1, <2>1, AnswerKnown DEF BoardOp, Kanban!Ops
  <2> QED
    BY <1>1, <1>2, <2>2 DEF BoardInv
<1>3. CASE ~(Kanban!Reply(i, Failed) /\ UNCHANGED rows)
  <2>1. PICK n \in Name : rows' = Kanban!Changed(n)
    <3>1. DEFINE n == IF net[i].arg = None THEN rows.name ELSE net[i].arg
    <3>2. n \in Name
      BY <1>1 DEF BoardCall, BoardRows
    <3>3. rows' = Kanban!Changed(n)
      BY <1>3 DEF Kanban!Commit
    <3> QED
      BY <3>2, <3>3
  <2>2. /\ rows' \in BoardRows /\ PageKnown(page, rows') /\ NetKnown(net, page, rows')
    BY <2>1, ChangedRows, ChangedKnown
  <2>3. NetKnown(net', page, rows')
    <3>1. net' = [net EXCEPT ![i] = [net[i] EXCEPT !.op = "written"]]
      BY <1>3 DEF Kanban!Commit
    <3>2. net[i] \in BoardCall /\ Known(net[i], page, rows')
      BY <2>2 DEF NetKnown
    <3>3. DEFINE c == [net[i] EXCEPT !.op = "written"]
    <3>4. c \in BoardCall /\ Known(c, page, rows')
      BY <1>1, <3>2 DEF BoardCall, BoardOp, Kanban!Ops, Known
    <3> QED
      BY <2>2, <3>1, <3>4, ReplaceKnown
  <2> QED
    BY <1>1, <2>2, <2>3 DEF BoardInv
<1> QED
  BY <1>2, <1>3

LEMMA BoardDeleteInv ==
  ASSUME BoardInv, NEW i \in DOMAIN net, Kanban!Delete(i)
  PROVE  BoardInv'
<1>1. /\ page \in BoardState /\ rows \in BoardRows /\ lag \in BOOLEAN /\ page' = page /\ lag' = lag
      /\ net[i] \in BoardCall /\ Known(net[i], page, rows) /\ PageKnown(page, rows)
      /\ net[i].op = "delete" /\ net[i].ans = Waiting
  BY BoardCallFacts DEF BoardInv, Kanban!Delete, Kanban!Sent
<1>2. CASE Kanban!Reply(i, Failed) /\ UNCHANGED rows
  <2>1. net' = [net EXCEPT ![i] = [net[i] EXCEPT !.op = "delete", !.ans = Failed]]
    BY <1>1, <1>2 DEF Kanban!Reply, BoardCall
  <2>2. NetKnown(net', page, rows)
    BY <1>1, <2>1, AnswerKnown DEF BoardOp, Kanban!Ops
  <2> QED
    BY <1>1, <1>2, <2>2 DEF BoardInv
<1>3. CASE ~(Kanban!Reply(i, Failed) /\ UNCHANGED rows)
  <2>1. /\ rows' = [rows EXCEPT !.version = rows.version + 1, !.there = FALSE]
        /\ net' = [net EXCEPT ![i] = [net[i] EXCEPT !.op = "deleted"]]
    BY <1>3 DEF Kanban!Delete
  <2>2. /\ rows' \in BoardRows /\ rows'.version = rows.version + 1
        /\ rows'.conn = rows.conn
    <3>1. rows.version + 1 \in Nat
      BY <1>1 DEF BoardRows
    <3> QED
      BY <1>1, <2>1, <3>1 DEF BoardRows
  <2>3. PageKnown(page', rows') /\ NetKnown(net, page', rows')
    BY <1>1, <2>2, ChangedKnown
  <2>4. net[i] \in BoardCall /\ Known(net[i], page', rows')
    BY <2>3 DEF NetKnown
  <2>5. DEFINE c == [net[i] EXCEPT !.op = "deleted"]
  <2>6. c \in BoardCall /\ Known(c, page', rows')
    BY <1>1, <2>4 DEF BoardCall, BoardOp, Kanban!Ops, Known
  <2>7. NetKnown(net', page', rows')
    BY <2>1, <2>3, <2>6, ReplaceKnown
  <2> QED
    BY <1>1, <2>2, <2>3, <2>7 DEF BoardInv
<1> QED
  BY <1>2, <1>3

LEMMA BoardElsewhereInv ==
  ASSUME BoardInv, Kanban!Elsewhere
  PROVE  BoardInv'
<1>1. /\ page \in BoardState /\ lag \in BOOLEAN /\ page' = page /\ lag' = lag
  BY DEF BoardInv, Kanban!Elsewhere
<1>2. PICK n \in Name : rows' = Kanban!Changed(n)
  BY DEF Kanban!Elsewhere
<1>3. rows' \in BoardRows /\ PageKnown(page, rows') /\ NetKnown(net, page, rows')
  BY <1>2, ChangedRows, ChangedKnown
<1>4. Kanban!Call("foreign", None) \in BoardCall /\ Known(Kanban!Call("foreign", None), page,
   rows')
  BY SentKnown DEF BoardOp, Kanban!Ops
<1>5. net' = Append(net, Kanban!Call("foreign", None))
  BY DEF Kanban!Elsewhere, Kanban!Send
<1>6. NetKnown(net', page, rows')
  BY <1>3, <1>4, <1>5, AppendKnown
<1> QED
  BY <1>1, <1>3, <1>6 DEF BoardInv

\* An event goes to a connection, and only a page that is open has one.
LEMMA BoardBroadcastInv ==
  ASSUME BoardInv, NEW i \in DOMAIN net, Kanban!Broadcast(i)
  PROVE  BoardInv'
<1>1. /\ page \in BoardState /\ rows \in BoardRows /\ lag \in BOOLEAN /\ PageKnown(page, rows)
      /\ NetKnown(net, page, rows)
      /\ net[i] \in BoardCall /\ Known(net[i], page, rows)
  BY BoardCallFacts DEF BoardInv
<1>2. page' = page /\ rows' = rows /\ net[i].op \in {"written", "deleted", "foreign"}
  BY DEF Kanban!Broadcast, Kanban!Sent
<1>3. DEFINE e == [Kanban!Call("event", None) EXCEPT !.ans = Done]
             event(told) == IF told THEN <<e>> ELSE <<>>
<1>4. ASSUME NEW s, NetKnown(s, page, rows), NEW told \in {FALSE, rows.conn}
      PROVE  NetKnown(s \o event(told), page, rows)
  <2>1. s \in Seq(BoardCall)
    BY <1>4 DEF NetKnown
  <2>2. CASE ~told
    <3>1. s \o event(told) = s
      BY <2>1, <2>2
    <3> QED
      BY <1>4, <3>1
  <2>3. CASE told
    <3>1. page.sock # "left"
      BY <1>1, <1>4, <2>3 DEF PageKnown
    <3>2. Kanban!Call("event", None) \in BoardCall
      BY SentKnown, <3>1 DEF BoardOp, Kanban!Ops
    <3>3. e \in BoardCall /\ Known(e, page, rows)
      BY <3>1, <3>2 DEF BoardCall, Known, Kanban!Call
    <3> HIDE DEF e
    <3>4. s \o event(told) = Append(s, e)
      BY <2>1, <2>3, <3>3
    <3> QED
      BY <1>4, <3>3, <3>4, AppendKnown
  <2> QED
    BY <2>2, <2>3
<1>5. CASE net[i].op = "foreign"
  <2>1. PICK told \in {FALSE, rows.conn} :
          net' = Kanban!Rest(i) \o event(told) /\ lag' = (lag \/ ~told)
    BY <1>5 DEF Kanban!Broadcast
  <2>2. NetKnown(Kanban!Rest(i), page, rows)
    BY <1>1, RestKnown
  <2>3. NetKnown(net', page, rows)
    BY <1>4, <2>1, <2>2
  <2> QED
    BY <1>1, <1>2, <2>1, <2>3 DEF BoardInv
<1>6. CASE net[i].op # "foreign"
  <2>1. DEFINE op == IF net[i].op = "written" THEN "write" ELSE "delete"
  <2>2. PICK told \in {FALSE, rows.conn}, ans \in {Done, Failed} :
          /\ net' = [net EXCEPT ![i].op = op, ![i].ans = ans] \o event(told)
          /\ lag' = (lag \/ (~told /\ (ans = Failed \/ net[i].gone)))
    BY <1>6 DEF Kanban!Broadcast
  <2>3. [net EXCEPT ![i].op = op, ![i].ans = ans]
          = [net EXCEPT ![i] = [net[i] EXCEPT !.op = op, !.ans = ans]]
    BY <1>1 DEF NetKnown
  <2>4. NetKnown([net EXCEPT ![i] = [net[i] EXCEPT !.op = op, !.ans = ans]], page, rows)
    BY <1>2, <1>6, AnswerKnown DEF BoardOp, Kanban!Ops
  <2>5. NetKnown(net', page, rows)
    BY <1>4, <2>2, <2>3, <2>4
  <2>6. lag' \in BOOLEAN
    BY <2>2
  <2> QED
    BY <1>1, <1>2, <2>5, <2>6 DEF BoardInv
<1> QED
  BY <1>5, <1>6

LEMMA BoardServeLoadInv ==
  ASSUME BoardInv, NEW i \in DOMAIN net, Kanban!ServeLoad(i)
  PROVE  BoardInv'
<1>1. net[i] \in BoardCall
  BY BoardCallFacts
<1>2. /\ net[i].op = "load" /\ UNCHANGED <<rows, page, lag>>
      /\ \E ans \in {Kanban!Shown(rows), Failed} : net' = [net EXCEPT ![i].ans = ans]
  BY DEF Kanban!ServeLoad, Kanban!ServeRead, Kanban!ServeRefusal, Kanban!Sent, Kanban!Reply
<1>3. PICK ans \in {Kanban!Shown(rows), Failed} : net' = [net EXCEPT ![i].ans = ans]
  BY <1>2
<1> DEFINE c == [net[i] EXCEPT !.op = "load", !.ans = ans]
<1>5. c = [net[i] EXCEPT !.ans = ans]
  BY <1>1, <1>2 DEF BoardCall
<1>6. net' = [net EXCEPT ![i] = c]
  <2> HIDE DEF c
  <2> QED
    BY <1>3, <1>5
<1>4. NetKnown(net', page, rows)
  <2> DEFINE op == "load"
  <2>1. op \in BoardOp /\ ans \in {Kanban!Shown(rows), Failed, Done}
    BY <1>3 DEF BoardOp, Kanban!Ops
  <2>2. op = "load" /\ net[i].op = "load" /\ ans \in {Kanban!Shown(rows), Failed}
    BY <1>2, <1>3
  <2>3. net' = [net EXCEPT ![i] = [net[i] EXCEPT !.op = op, !.ans = ans]]
    BY <1>6
  <2> HIDE DEF op
  <2> QED
    BY <2>1, <2>2, <2>3, AnswerKnown
<1> QED
  BY <1>2, <1>4 DEF BoardInv

LEMMA BoardInvNext == BoardInv /\ [Kanban!Next]_state => BoardInv'
<1>1. CASE UNCHANGED state
  BY <1>1 DEF state, BoardInv
<1>2. ASSUME BoardInv, Kanban!Back
      PROVE  BoardInv'
  BY <1>2, BoardLeavingInv DEF Kanban!Back, BoardInv
<1>3. ASSUME BoardInv, NEW i \in DOMAIN net, Kanban!Handle(i) \/ Kanban!Serve(i)
      PROVE  BoardInv'
  BY <1>3, BoardLoadInv, BoardEventInv, BoardDeletedInv, BoardServeLoadInv, BoardCommitInv,
     BoardDeleteInv, BoardBroadcastInv
     DEF Kanban!Handle, Kanban!Serve
<1> QED
  BY <1>1, <1>2, <1>3, BoardReopenInv, BoardSocketInv, BoardUserInv,
     BoardElsewhereInv DEF Kanban!Next

-----------------------------------------------------------------------------
(* Every step of the page is one of a live copy, or none of its business.  *)

OnPage(p) == IF p.board = None THEN None ELSE p.board.version

\* What stays as it is, but for an excuse.
LEMMA MissOrStutter ==
  ASSUME OnBoard, OnBoard', rows'.version = rows.version, page'.board = page.board,
     lag' = lag \/ lag' = TRUE
  PROVE  [Copy!Next]_(Copy!vars)
<1>1. OnPage(page') = OnPage(page)
  BY DEF OnPage
<1>2. CASE lag' = lag
  BY <1>1, <1>2 DEF Copy!vars, OnPage
<1>3. CASE lag' = TRUE
  BY <1>1, <1>3 DEF Copy!Next, Copy!Miss, OnPage
<1> QED
  BY <1>2, <1>3

LEMMA ChangeOfCopy ==
  ASSUME OnBoard, OnBoard', rows'.version = rows.version + 1, page'.board = page.board, lag' = lag
  PROVE  Copy!Next
BY DEF Copy!Next, Copy!Change

LEMMA LeaveOfCopy ==
  ASSUME OnBoard, OnBoard', rows'.version = rows.version, page'.board = None, lag' \in BOOLEAN
  PROVE  Copy!Next
BY DEF Copy!Next, Copy!OpenOrLeave

\* An answer is a version there has been, and ends an excuse only if it is the
\* latest.
LEMMA LoadOfCopy ==
  ASSUME OnBoard, OnBoard', BoardInv, NEW i \in DOMAIN net, Kanban!Load(i)
  PROVE  [Copy!Next]_(Copy!vars)
<1>1. /\ page \in BoardState /\ rows \in BoardRows /\ rows' = rows
      /\ net[i] \in BoardCall /\ Known(net[i], page, rows)
      /\ net[i].op = "load" /\ net[i].ans # Waiting
  BY BoardCallFacts DEF BoardInv, Kanban!Load, Kanban!Answered
<1>2. CASE net[i].gone
  BY <1>1, <1>2, MissOrStutter DEF Kanban!Load
<1>3. CASE ~net[i].gone /\ net[i].ans = Failed
  <2>1. page' = [page EXCEPT !.error = TRUE, !.lane = None] /\ lag' = TRUE
    BY <1>3 DEF Kanban!Load
  <2>2. page'.board = page.board
    BY <1>1, <2>1 DEF BoardState
  <2> QED
    BY <1>1, <2>1, <2>2, MissOrStutter
<1>4. CASE ~net[i].gone /\ net[i].ans # Failed
  <2>1. net[i].ans \in Kanban!Board /\ net[i].ans.version \in Nat /\ net[i].ans.version <= rows.version
    BY <1>1, <1>4 DEF Known, Kanban!Board
  <2>2. page'.board = net[i].ans
    BY <1>1, <1>4 DEF Kanban!Load, BoardState
  <2>3. lag' \in BOOLEAN
    BY BoardLoadInv DEF BoardInv
  <2>4. lag /\ ~lag' => net[i].ans.version = rows.version
    <3>1. net[i].ans # Kanban!Shown(rows) => lag' = (lag \/ net[i].late)
      BY <1>4 DEF Kanban!Load
    <3>2. Kanban!Shown(rows).version = rows.version
      BY DEF Kanban!Shown
    <3> QED
      BY <3>1, <3>2
  <2>5. CASE net[i].ans = None
    BY <1>1, <2>2, <2>3, <2>5, LeaveOfCopy
  <2>6. CASE net[i].ans # None
    <3>1. OnPage(page') = net[i].ans.version /\ rows.version \in Nat
      BY <1>1, <2>2, <2>6 DEF OnPage, BoardRows
    <3>2. OnPage(page') \in 0 .. rows.version /\ (lag /\ ~lag' => OnPage(page') = rows.version)
      BY <2>1, <2>4, <3>1
    <3>3. Copy!Refresh
      BY <1>1, <2>3, <3>2 DEF Copy!Refresh, OnPage
    <3> QED
      BY <3>3 DEF Copy!Next
  <2> QED
    BY <2>5, <2>6
<1> QED
  BY <1>2, <1>3, <1>4

LEMMA LeavingOfCopy ==
  ASSUME OnBoard, OnBoard', BoardInv, NEW calls, Kanban!Leaving(calls)
  PROVE  [Copy!Next]_(Copy!vars)
<1>1. page \in BoardState /\ rows \in BoardRows
  BY DEF BoardInv
<1>2. page'.board = None /\ lag' = TRUE /\ rows'.version = rows.version
  BY <1>1 DEF Kanban!Leaving, Kanban!Fresh, BoardRows
<1> QED
  BY <1>2, LeaveOfCopy

LEMMA ServeOfCopy ==
  ASSUME OnBoard, OnBoard', BoardInv, NEW i \in DOMAIN net, Kanban!Serve(i)
  PROVE  [Copy!Next]_(Copy!vars)
<1>1. page \in BoardState /\ rows \in BoardRows
  BY DEF BoardInv
<1>2. CASE Kanban!ServeLoad(i)
  BY <1>2, MissOrStutter DEF Kanban!ServeLoad, Kanban!ServeRead, Kanban!ServeRefusal
<1>3. CASE Kanban!Commit(i)
  <2>1. CASE UNCHANGED rows
    BY <1>3, <2>1, MissOrStutter DEF Kanban!Commit
  <2>2. CASE ~UNCHANGED rows
    <3>1. (\E n : rows' = Kanban!Changed(n)) /\ page' = page /\ lag' = lag
      BY <1>3, <2>2 DEF Kanban!Commit
    <3>2. rows'.version = rows.version + 1 /\ page'.board = page.board
      BY <1>1, <3>1 DEF Kanban!Changed, BoardRows
    <3> QED
      BY <3>1, <3>2, ChangeOfCopy
  <2> QED
    BY <2>1, <2>2
<1>4. CASE Kanban!Delete(i)
  <2>1. CASE UNCHANGED rows
    BY <1>4, <2>1, MissOrStutter DEF Kanban!Delete
  <2>2. CASE ~UNCHANGED rows
    <3>1. rows' = [rows EXCEPT !.version = rows.version + 1, !.there = FALSE]
      BY <1>4, <2>2 DEF Kanban!Delete
    <3>2. rows'.version = rows.version + 1
      BY <1>1, <3>1 DEF BoardRows
    <3> QED
      BY <1>4, <3>2, ChangeOfCopy DEF Kanban!Delete
  <2> QED
    BY <2>1, <2>2
<1>5. CASE Kanban!Broadcast(i)
  <2>1. UNCHANGED <<rows, page>> /\ \E b \in BOOLEAN : lag' = (lag \/ b)
    BY <1>5 DEF Kanban!Broadcast
  <2>2. lag' = lag \/ lag' = TRUE
    BY <2>1 DEF BoardInv
  <2> QED
    BY <2>1, <2>2, MissOrStutter
<1> QED
  BY <1>2, <1>3, <1>4, <1>5 DEF Kanban!Serve

LEMMA StepOfCopy == OnBoard /\ OnBoard' /\ BoardInv /\ [Kanban!Next]_state => [Copy!Next]_(Copy!vars)
<1> SUFFICES ASSUME OnBoard, OnBoard', BoardInv, [Kanban!Next]_state
             PROVE  [Copy!Next]_(Copy!vars)
  OBVIOUS
<1>1. page \in BoardState /\ rows \in BoardRows
  BY DEF BoardInv
<1>2. CASE UNCHANGED state
  BY <1>2, MissOrStutter DEF state
<1>3. CASE Kanban!Back
  BY <1>3, LeavingOfCopy DEF Kanban!Back
<1>4. CASE Kanban!Reopen
  <2>1. page'.board = None /\ rows'.version = rows.version /\ lag' \in BOOLEAN
    BY <1>4 DEF Kanban!Reopen, Kanban!Fresh
  <2> QED
    BY <2>1, LeaveOfCopy
<1>5. CASE Kanban!Opened \/ Kanban!Register \/ Kanban!Close \/ Kanban!Reconnect
  <2>1. page'.board = page.board
    BY <1>1, <1>5 DEF Kanban!Opened, Kanban!Register, Kanban!Close, Kanban!Reconnect, BoardState
  <2>2. rows'.version = rows.version
    BY <1>1, <1>5 DEF Kanban!Opened, Kanban!Register, Kanban!Close, Kanban!Reconnect, BoardRows
  <2>3. lag' = lag \/ lag' = TRUE
    <3>1. CASE Kanban!Close
      BY <3>1 DEF Kanban!Close, BoardInv
    <3>2. CASE lag' = lag
      BY <3>2
    <3> QED
      BY <1>5, <3>1, <3>2 DEF Kanban!Opened, Kanban!Register, Kanban!Reconnect
  <2> QED
    BY <2>1, <2>2, <2>3, MissOrStutter
<1>6. CASE Kanban!Write \/ Kanban!LaneType \/ Kanban!SaveName \/ Kanban!DeleteBoard
  <2>1. page'.board = page.board /\ rows' = rows /\ lag' = lag
    BY <1>1, <1>6 DEF Kanban!Write, Kanban!LaneType, Kanban!SaveName, Kanban!DeleteBoard,
       Kanban!Touched, BoardState
  <2> QED
    BY <2>1, MissOrStutter
<1>7. CASE Kanban!Elsewhere
  <2>1. (\E n : rows' = Kanban!Changed(n)) /\ page' = page /\ lag' = lag
    BY <1>7 DEF Kanban!Elsewhere
  <2>2. rows'.version = rows.version + 1 /\ page'.board = page.board
    BY <1>1, <2>1 DEF Kanban!Changed, BoardRows
  <2> QED
    BY <2>1, <2>2, ChangeOfCopy
<1>8. ASSUME NEW i \in DOMAIN net, Kanban!Handle(i)
      PROVE  [Copy!Next]_(Copy!vars)
  <2>1. CASE Kanban!Load(i)
    BY <1>8, <2>1, LoadOfCopy
  <2>2. CASE UNCHANGED <<rows, page, lag>>
    BY <2>2, MissOrStutter
  <2>3. CASE Kanban!Leaving(Kanban!Rest(i))
    BY <2>3, LeavingOfCopy
  <2> QED
    BY <1>8, <2>1, <2>2, <2>3 DEF Kanban!Handle, Kanban!Event, Kanban!Written, Kanban!Deleted
<1> QED
  BY <1>2, <1>3, <1>4, <1>5, <1>6, <1>7, <1>8, ServeOfCopy DEF Kanban!Next

-----------------------------------------------------------------------------
(* The theorems of module Live.                                            *)

LiveInv == OnBoard => BoardInv

LEMMA LiveInvInit == Init => LiveInv
BY BoardInvInit DEF Init, LiveInv, OnBoard

LEMMA LiveInvNext == LiveInv /\ [Next]_vars => LiveInv'
<1>1. CASE UNCHANGED vars
  <2>1. UNCHANGED state /\ UNCHANGED tab
    BY <1>1 DEF vars, state
  <2> QED
    BY <2>1, BoardInvNext DEF LiveInv, OnBoard
<1>2. CASE Next
  BY <1>2, BoardInvNext DEF LiveInv, OnBoard, Next
<1> QED
  BY <1>1, <1>2

\* However the events, the fetches and the writes of everybody interleave, what
\* was typed in a column's input is still in it, unless a failed fetch took it
\* off the page.
THEOREM TypingKept == Spec => []TypingIsKept
<1>1. LiveInv => TypingIsKept
  BY DEF LiveInv, BoardInv, PageKnown, TypingIsKept, Kanban!TypingIsKept
<1> QED
  BY <1>1, LiveInvInit, LiveInvNext, PTL DEF Spec

\* The page shows only versions of the board there have been, in whatever order
\* its requests are answered, and stops being excused only with the latest.
THEOREM PageIsACopy == Spec => Copy!Safety
<1>1. Init => Copy!Init
  <2>1. CASE tab = "board" /\ Kanban!Init
    BY <2>1 DEF Kanban!Init, Kanban!Fresh, Copy!Init, OnBoard
  <2>2. CASE tab = "bell"
    BY <2>2 DEF Copy!Init, OnBoard
  <2> QED
    BY <2>1, <2>2 DEF Init
<1>2. LiveInv /\ [Next]_vars => [Copy!Next]_(Copy!vars)
  <2>1. CASE UNCHANGED vars
    BY <2>1 DEF vars, Copy!vars, OnBoard
  <2>2. CASE tab = "bell" /\ Next
    BY <2>2 DEF Next, Copy!vars, OnBoard
  <2>3. CASE tab = "board" /\ Next
    BY <2>3, StepOfCopy DEF Next, LiveInv, OnBoard
  <2>4. Next => tab \in {"board", "bell"}
    BY DEF Next
  <2> QED
    BY <2>1, <2>2, <2>3, <2>4
<1> QED
  BY <1>1, <1>2, LiveInvInit, LiveInvNext, PTL DEF Spec, Copy!Safety

-----------------------------------------------------------------------------
(* What the operators of Calls make of the list of requests, on any page.  *)

\* Requests by what they carry and are answered.
CallOf(Ops, Args, Answers) ==
  [op : Ops, arg : Args, ans : Answers, late : BOOLEAN, gone : BOOLEAN]

\* Where the j-th of the requests was that are left when the i-th is handled.
Before(i, j) == IF j >= i THEN j + 1 ELSE j

LEMMA BeforeFacts ==
  ASSUME NEW n \in Nat, NEW i \in 1 .. n
  PROVE  /\ n - 1 \in Nat
         /\ \A j \in 1 .. n - 1 : Before(i, j) \in (1 .. n) \ {i}
         /\ \A j, k \in 1 .. n - 1 : j < k <=> Before(i, j) < Before(i, k)
BY DEF Before

LEMMA BeforeOnto ==
  ASSUME NEW n \in Nat, NEW i \in 1 .. n, NEW k \in 1 .. n, k # i
  PROVE  \E j \in 1 .. n - 1 : Before(i, j) = k
<1>1. CASE k < i
  BY <1>1 DEF Before
<1>2. CASE k > i
  <2>1. k - 1 \in 1 .. n - 1 /\ Before(i, k - 1) = k
    BY <1>2 DEF Before
  <2> QED
    BY <2>1
<1> QED
  BY <1>1, <1>2

\* The requests left are those that were there, in their order; one that was sent
\* before the i-th and is of its kind is late from now on.
LEMMA RestFacts ==
  ASSUME NEW Ops, NEW Args, NEW Answers, net \in Seq(CallOf(Ops, Args, Answers)), NEW i \in DOMAIN net
  PROVE  /\ DOMAIN Rest(i) = 1 .. Len(net) - 1 /\ Rest(i) \in Seq(CallOf(Ops, Args, Answers))
         /\ \A j \in 1 .. Len(net) - 1 :
              LET c == Rest(i)[j]  d == net[Before(i, j)]
              IN  /\ c \in CallOf(Ops, Args, Answers)
                  /\ c.op = d.op /\ c.arg = d.arg /\ c.ans = d.ans /\ c.gone = d.gone
                  /\ c.late <=> d.late \/ (j < i /\ d.op = net[i].op)
<1>1. Len(net) \in Nat /\ i \in 1 .. Len(net) /\ DOMAIN net = 1 .. Len(net)
  OBVIOUS
<1>2. ASSUME NEW j \in 1 .. Len(net) - 1
      PROVE  LET c == Rest(i)[j]  d == net[Before(i, j)]
             IN  /\ c \in CallOf(Ops, Args, Answers)
                 /\ c.op = d.op /\ c.arg = d.arg /\ c.ans = d.ans /\ c.gone = d.gone
                 /\ c.late <=> d.late \/ (j < i /\ d.op = net[i].op)
  <2>1. Before(i, j) \in DOMAIN net
    BY <1>1, BeforeFacts
  <2>2. net[Before(i, j)] \in CallOf(Ops, Args, Answers)
    BY <2>1
  <2>3. CASE j >= i
    <3>1. Rest(i)[j] = net[Before(i, j)] /\ ~(j < i)
      BY <1>1, <2>3 DEF Rest, Before
    <3> QED
      BY <2>2, <3>1 DEF CallOf
  <2>4. CASE j < i
    <3>1. j \in DOMAIN net /\ Before(i, j) = j /\ ~(j >= i)
      BY <1>1, <2>4 DEF Before
    <3> DEFINE b == net[j].late \/ net[j].op = net[i].op
    <3>2. Rest(i)[j] = [net[j] EXCEPT !.late = b]
      BY <1>1, <3>1 DEF Rest
    <3>3. b \in BOOLEAN
      OBVIOUS
    <3>4. [net[j] EXCEPT !.late = b].late = b
      <4> HIDE DEF b
      <4> QED
        BY <2>2, <3>1, <3>3 DEF CallOf
    <3>5. /\ Rest(i)[j] \in CallOf(Ops, Args, Answers)
          /\ Rest(i)[j].op = net[j].op /\ Rest(i)[j].arg = net[j].arg
          /\ Rest(i)[j].ans = net[j].ans /\ Rest(i)[j].gone = net[j].gone
      <4> HIDE DEF b
      <4> QED
        BY <2>2, <3>1, <3>2, <3>3 DEF CallOf
    <3> QED
      BY <2>4, <3>1, <3>2, <3>4, <3>5
  <2> QED
    BY <1>1, <2>3, <2>4
<1>3. DOMAIN Rest(i) = 1 .. Len(net) - 1 /\ Len(net) - 1 \in Nat
  BY <1>1 DEF Rest
<1>4. Rest(i) \in [1 .. Len(net) - 1 -> CallOf(Ops, Args, Answers)]
  BY <1>2, <1>3 DEF Rest
<1> QED
  BY <1>2, <1>3, <1>4

LEMMA UnmountedFacts ==
  ASSUME NEW Ops, NEW Args, NEW Answers, NEW calls \in Seq(CallOf(Ops, Args, Answers)), NEW ops
  PROVE  /\ Unmounted(calls, ops) \in Seq(CallOf(Ops, Args, Answers))
         /\ DOMAIN Unmounted(calls, ops) = DOMAIN calls
         /\ \A j \in DOMAIN calls :
              LET c == Unmounted(calls, ops)[j]  d == calls[j]
              IN  /\ c \in CallOf(Ops, Args, Answers)
                  /\ c.op = d.op /\ c.arg = d.arg /\ c.ans = d.ans /\ c.late = d.late
                  /\ c.gone <=> d.gone \/ d.op \in ops
<1>1. DOMAIN Unmounted(calls, ops) = DOMAIN calls
  BY DEF Unmounted
<1>2. ASSUME NEW j \in DOMAIN calls
      PROVE  LET c == Unmounted(calls, ops)[j]  d == calls[j]
             IN  /\ c \in CallOf(Ops, Args, Answers)
                 /\ c.op = d.op /\ c.arg = d.arg /\ c.ans = d.ans /\ c.late = d.late
                 /\ c.gone <=> d.gone \/ d.op \in ops
  <2> DEFINE b == calls[j].gone \/ calls[j].op \in ops
  <2>1. calls[j] \in CallOf(Ops, Args, Answers) /\ b \in BOOLEAN
    OBVIOUS
  <2>2. Unmounted(calls, ops)[j] = [calls[j] EXCEPT !.gone = b]
    BY DEF Unmounted
  <2>3. [calls[j] EXCEPT !.gone = b].gone = b
    <3> HIDE DEF b
    <3> QED
      BY <2>1 DEF CallOf
  <2>4. /\ Unmounted(calls, ops)[j] \in CallOf(Ops, Args, Answers)
        /\ Unmounted(calls, ops)[j].op = calls[j].op /\ Unmounted(calls, ops)[j].arg = calls[j].arg
        /\ Unmounted(calls, ops)[j].ans = calls[j].ans /\ Unmounted(calls, ops)[j].late = calls[j].late
    <3> HIDE DEF b
    <3> QED
      BY <2>1, <2>2 DEF CallOf
  <2> QED
    BY <2>2, <2>3, <2>4
<1>3. Len(calls) \in Nat /\ DOMAIN calls = 1 .. Len(calls)
  OBVIOUS
<1>4. Unmounted(calls, ops) \in [1 .. Len(calls) -> CallOf(Ops, Args, Answers)]
  BY <1>2, <1>3 DEF Unmounted
<1> QED
  BY <1>1, <1>2, <1>3, <1>4

LEMMA ReplyFacts ==
  ASSUME NEW Ops, NEW Args, NEW Answers, net \in Seq(CallOf(Ops, Args, Answers)), NEW i \in DOMAIN net,
         NEW ans \in Answers, Reply(i, ans)
  PROVE  /\ net' \in Seq(CallOf(Ops, Args, Answers)) /\ DOMAIN net' = DOMAIN net
         /\ net'[i].op = net[i].op /\ net'[i].arg = net[i].arg /\ net'[i].ans = ans
         /\ net'[i].late = net[i].late /\ net'[i].gone = net[i].gone
         /\ \A j \in DOMAIN net \ {i} : net'[j] = net[j]
<1>1. net[i] \in CallOf(Ops, Args, Answers)
  OBVIOUS
<1> DEFINE c == [net[i] EXCEPT !.ans = ans]
<1>2. net' = [net EXCEPT ![i] = c]
  BY DEF Reply
<1>3. /\ c \in CallOf(Ops, Args, Answers) /\ c.op = net[i].op /\ c.arg = net[i].arg
      /\ c.ans = ans /\ c.late = net[i].late /\ c.gone = net[i].gone
  BY <1>1 DEF CallOf
<1> HIDE DEF c
<1> QED
  BY <1>2, <1>3

LEMMA CallFacts ==
  ASSUME NEW Ops, NEW Args, NEW Answers, NEW op \in Ops, NEW arg \in Args, Waiting \in Answers
  PROVE  /\ Call(op, arg) \in CallOf(Ops, Args, Answers)
         /\ Call(op, arg).op = op /\ Call(op, arg).arg = arg /\ Call(op, arg).ans = Waiting
         /\ ~Call(op, arg).late /\ ~Call(op, arg).gone
BY DEF Call, CallOf

LEMMA AppendFacts ==
  ASSUME NEW S, NEW s \in Seq(S), NEW c \in S
  PROVE  /\ Append(s, c) \in Seq(S) /\ Len(Append(s, c)) = Len(s) + 1
         /\ DOMAIN Append(s, c) = 1 .. Len(s) + 1
         /\ Append(s, c)[Len(s) + 1] = c
         /\ \A j \in DOMAIN s : j # Len(s) + 1 /\ Append(s, c)[j] = s[j]
OBVIOUS

-----------------------------------------------------------------------------
(* The list of requests once more, whatever they carry and are answered.   *)

CallFields == {"op", "arg", "ans", "late", "gone"}

IsNet(s) ==
  /\ s \in Seq({ s[i] : i \in DOMAIN s })
  /\ \A i \in DOMAIN s : /\ DOMAIN s[i] = CallFields
                         /\ s[i].late \in BOOLEAN /\ s[i].gone \in BOOLEAN

\* c and d are the same request, but for late and gone.
Same(c, d) == c.op = d.op /\ c.arg = d.arg /\ c.ans = d.ans

LEMMA NetFacts ==
  ASSUME NEW s, IsNet(s)
  PROVE  Len(s) \in Nat /\ DOMAIN s = 1 .. Len(s)
BY DEF IsNet

LEMMA NetIs ==
  ASSUME NEW s, NEW n \in Nat, s = [j \in 1 .. n |-> s[j]],
         \A j \in 1 .. n : /\ DOMAIN s[j] = CallFields
                           /\ s[j].late \in BOOLEAN /\ s[j].gone \in BOOLEAN
  PROVE  IsNet(s) /\ Len(s) = n
<1>1. DOMAIN s = 1 .. n
  OBVIOUS
<1>2. s \in [1 .. n -> { s[i] : i \in DOMAIN s }]
  BY <1>1
<1>3. s \in Seq({ s[i] : i \in DOMAIN s })
  BY <1>2
<1> QED
  BY <1>1, <1>3 DEF IsNet

LEMMA NetCall ==
  ASSUME NEW op, NEW arg
  PROVE  /\ DOMAIN Call(op, arg) = CallFields /\ Call(op, arg).op = op
         /\ Call(op, arg).arg = arg /\ Call(op, arg).ans = Waiting
         /\ Call(op, arg).late = FALSE /\ Call(op, arg).gone = FALSE
BY DEF Call, CallFields

\* A list of one request, and of none.
LEMMA NetOne ==
  ASSUME NEW c, DOMAIN c = CallFields, c.late \in BOOLEAN, c.gone \in BOOLEAN
  PROVE  IsNet(<<c>>) /\ DOMAIN <<c>> = {1} /\ <<c>>[1] = c
<1>1. <<c>> = [j \in 1 .. 1 |-> <<c>>[j]] /\ DOMAIN <<c>> = {1} /\ <<c>>[1] = c
  OBVIOUS
<1> QED
  BY <1>1, NetIs

LEMMA NetNone == IsNet(<<>>) /\ DOMAIN <<>> = {}
BY DEF IsNet

\* The requests left are those that were there, in their order.
LEMMA NetRest ==
  ASSUME IsNet(net), NEW i \in DOMAIN net
  PROVE  /\ IsNet(Rest(i)) /\ DOMAIN Rest(i) = 1 .. Len(net) - 1
         /\ \A j \in DOMAIN Rest(i) :
              /\ Before(i, j) \in DOMAIN net \ {i} /\ Same(Rest(i)[j], net[Before(i, j)])
              /\ Rest(i)[j].gone = net[Before(i, j)].gone
              /\ Rest(i)[j].late <=> net[Before(i, j)].late \/ (j < i /\ net[j].op = net[i].op)
<1>1. Len(net) \in Nat /\ i \in 1 .. Len(net) /\ DOMAIN net = 1 .. Len(net)
  BY NetFacts
<1>2. DOMAIN Rest(i) = 1 .. Len(net) - 1 /\ Len(net) - 1 \in Nat
  BY <1>1 DEF Rest
<1>3. ASSUME NEW j \in 1 .. Len(net) - 1
      PROVE  LET c == Rest(i)[j]  d == net[Before(i, j)]
             IN  /\ Before(i, j) \in DOMAIN net \ {i} /\ Same(c, d) /\ c.gone = d.gone
                 /\ c.late <=> d.late \/ (j < i /\ net[j].op = net[i].op)
                 /\ DOMAIN c = CallFields /\ c.late \in BOOLEAN /\ c.gone \in BOOLEAN
  <2>1. Before(i, j) \in DOMAIN net \ {i}
    BY <1>1, BeforeFacts
  <2>2. /\ DOMAIN net[Before(i, j)] = CallFields
        /\ net[Before(i, j)].late \in BOOLEAN /\ net[Before(i, j)].gone \in BOOLEAN
    BY <2>1 DEF IsNet
  <2>3. CASE j >= i
    <3>1. Rest(i)[j] = net[Before(i, j)] /\ ~(j < i)
      BY <1>1, <2>3 DEF Rest, Before
    <3> QED
      BY <2>1, <2>2, <3>1 DEF Same
  <2>4. CASE j < i
    <3> DEFINE b == net[j].late \/ net[j].op = net[i].op
    <3>1. Before(i, j) = j /\ Rest(i)[j] = [net[j] EXCEPT !.late = b]
      BY <1>1, <2>4 DEF Rest, Before
    <3>2. b \in BOOLEAN
      OBVIOUS
    <3>3. /\ Same(Rest(i)[j], net[j]) /\ Rest(i)[j].gone = net[j].gone
          /\ Rest(i)[j].late = b /\ DOMAIN Rest(i)[j] = CallFields
      <4> HIDE DEF b
      <4> QED
        BY <2>2, <3>1 DEF Same, CallFields
    <3> QED
      BY <2>1, <2>2, <2>4, <3>1, <3>2, <3>3
  <2> QED
    BY <1>1, <2>3, <2>4
<1>4. IsNet(Rest(i))
  <2>1. Rest(i) = [j \in 1 .. Len(net) - 1 |-> Rest(i)[j]]
    BY <1>2 DEF Rest
  <2> QED
    BY <1>2, <1>3, <2>1, NetIs
<1> QED
  BY <1>2, <1>3, <1>4

LEMMA NetOthers ==
  ASSUME IsNet(net), NEW i \in DOMAIN net
  PROVE  /\ IsNet(Others(i)) /\ DOMAIN Others(i) = 1 .. Len(net) - 1
         /\ \A j \in DOMAIN Others(i) :
              Before(i, j) \in DOMAIN net \ {i} /\ Others(i)[j] = net[Before(i, j)]
<1>1. Len(net) \in Nat /\ i \in 1 .. Len(net) /\ DOMAIN net = 1 .. Len(net)
  BY NetFacts
<1>2. DOMAIN Others(i) = 1 .. Len(net) - 1 /\ Len(net) - 1 \in Nat
  BY <1>1 DEF Others
<1>3. \A j \in 1 .. Len(net) - 1 :
        Before(i, j) \in DOMAIN net \ {i} /\ Others(i)[j] = net[Before(i, j)]
  BY <1>1, BeforeFacts DEF Others, Before
<1>4. \A j \in 1 .. Len(net) - 1 :
        /\ DOMAIN Others(i)[j] = CallFields
        /\ Others(i)[j].late \in BOOLEAN /\ Others(i)[j].gone \in BOOLEAN
  BY <1>3 DEF IsNet
<1>5. Others(i) = [j \in 1 .. Len(net) - 1 |-> Others(i)[j]]
  BY <1>2 DEF Others
<1> QED
  BY <1>2, <1>3, <1>4, <1>5, NetIs

LEMMA NetUnmounted ==
  ASSUME NEW s, IsNet(s), NEW ops
  PROVE  /\ IsNet(Unmounted(s, ops)) /\ DOMAIN Unmounted(s, ops) = DOMAIN s
         /\ \A j \in DOMAIN s :
              /\ Same(Unmounted(s, ops)[j], s[j]) /\ Unmounted(s, ops)[j].late = s[j].late
              /\ Unmounted(s, ops)[j].gone <=> s[j].gone \/ s[j].op \in ops
<1>1. DOMAIN Unmounted(s, ops) = DOMAIN s /\ Len(s) \in Nat /\ DOMAIN s = 1 .. Len(s)
  BY NetFacts DEF Unmounted
<1>2. ASSUME NEW j \in DOMAIN s
      PROVE  LET c == Unmounted(s, ops)[j]
             IN  /\ Same(c, s[j]) /\ c.late = s[j].late
                 /\ c.gone <=> s[j].gone \/ s[j].op \in ops
                 /\ DOMAIN c = CallFields /\ c.late \in BOOLEAN /\ c.gone \in BOOLEAN
  <2> DEFINE b == s[j].gone \/ s[j].op \in ops
  <2>1. DOMAIN s[j] = CallFields /\ s[j].late \in BOOLEAN /\ b \in BOOLEAN
    BY DEF IsNet
  <2>2. Unmounted(s, ops)[j] = [s[j] EXCEPT !.gone = b]
    BY DEF Unmounted
  <2>3. /\ Same(Unmounted(s, ops)[j], s[j]) /\ Unmounted(s, ops)[j].late = s[j].late
        /\ Unmounted(s, ops)[j].gone = b /\ DOMAIN Unmounted(s, ops)[j] = CallFields
    <3> HIDE DEF b
    <3> QED
      BY <2>1, <2>2 DEF Same, CallFields
  <2> QED
    BY <2>1, <2>3
<1>3. Unmounted(s, ops) = [j \in 1 .. Len(s) |-> Unmounted(s, ops)[j]]
  BY <1>1 DEF Unmounted
<1> QED
  BY <1>1, <1>2, <1>3, NetIs

LEMMA NetReply ==
  ASSUME IsNet(net), NEW i \in DOMAIN net, NEW ans, Reply(i, ans)
  PROVE  /\ IsNet(net') /\ DOMAIN net' = DOMAIN net
         /\ net'[i].op = net[i].op /\ net'[i].arg = net[i].arg /\ net'[i].ans = ans
         /\ net'[i].late = net[i].late /\ net'[i].gone = net[i].gone
         /\ \A j \in DOMAIN net \ {i} : net'[j] = net[j]
<1>1. /\ DOMAIN net[i] = CallFields /\ net[i].late \in BOOLEAN /\ net[i].gone \in BOOLEAN
      /\ Len(net) \in Nat /\ DOMAIN net = 1 .. Len(net)
  BY NetFacts DEF IsNet
<1> DEFINE c == [net[i] EXCEPT !.ans = ans]
<1>2. net' = [net EXCEPT ![i] = c]
  BY DEF Reply
<1>3. /\ DOMAIN c = CallFields /\ c.op = net[i].op /\ c.arg = net[i].arg
      /\ c.ans = ans /\ c.late = net[i].late /\ c.gone = net[i].gone
  BY <1>1 DEF CallFields
<1> HIDE DEF c
<1>4. DOMAIN net' = 1 .. Len(net) /\ net'[i] = c /\ \A j \in DOMAIN net \ {i} : net'[j] = net[j]
  BY <1>1, <1>2
<1>5. net' = [j \in 1 .. Len(net) |-> net'[j]]
  BY <1>1, <1>2
<1>6. \A j \in 1 .. Len(net) : /\ DOMAIN net'[j] = CallFields
                               /\ net'[j].late \in BOOLEAN /\ net'[j].gone \in BOOLEAN
  BY <1>1, <1>3, <1>4 DEF IsNet
<1>7. IsNet(net')
  BY <1>1, <1>5, <1>6, NetIs
<1> QED
  BY <1>1, <1>3, <1>4, <1>7

LEMMA NetAppend ==
  ASSUME NEW s, IsNet(s), NEW c, DOMAIN c = CallFields, c.late \in BOOLEAN, c.gone \in BOOLEAN
  PROVE  /\ IsNet(Append(s, c)) /\ Len(s) + 1 \in DOMAIN Append(s, c)
         /\ Append(s, c)[Len(s) + 1] = c
         /\ \A j \in DOMAIN s : j \in DOMAIN Append(s, c) /\ Append(s, c)[j] = s[j]
         /\ \A j \in DOMAIN Append(s, c) :
              \/ j = Len(s) + 1 /\ Append(s, c)[j] = c
              \/ j \in DOMAIN s /\ j < Len(s) + 1 /\ Append(s, c)[j] = s[j]
<1> DEFINE S == { s[i] : i \in DOMAIN s } \cup {c}
<1>1. Len(s) \in Nat /\ DOMAIN s = 1 .. Len(s)
  BY NetFacts
<1>2. s \in Seq(S) /\ c \in S
  <2>1. s \in [1 .. Len(s) -> S]
    BY <1>1 DEF IsNet
  <2> QED
    BY <1>1, <2>1
<1> HIDE DEF S
<1>3. /\ Append(s, c) \in Seq(S) /\ DOMAIN Append(s, c) = 1 .. Len(s) + 1
      /\ Append(s, c)[Len(s) + 1] = c
      /\ \A j \in DOMAIN s : Append(s, c)[j] = s[j]
  BY <1>1, <1>2
<1>4. /\ Len(s) + 1 \in Nat
      /\ \A j \in 1 .. Len(s) + 1 :
           \/ j = Len(s) + 1 /\ Append(s, c)[j] = c
           \/ j \in DOMAIN s /\ j < Len(s) + 1 /\ Append(s, c)[j] = s[j]
  BY <1>1, <1>3
<1>5. \A j \in 1 .. Len(s) + 1 :
        /\ DOMAIN Append(s, c)[j] = CallFields
        /\ Append(s, c)[j].late \in BOOLEAN /\ Append(s, c)[j].gone \in BOOLEAN
  BY <1>4 DEF IsNet
<1>6. Append(s, c) = [j \in 1 .. Len(s) + 1 |-> Append(s, c)[j]]
  <2> DEFINE t == Append(s, c)
  <2>1. t \in Seq(S) /\ DOMAIN t = 1 .. Len(s) + 1
    BY <1>3
  <2> HIDE DEF t
  <2>2. t = [j \in DOMAIN t |-> t[j]]
    BY <2>1
  <2>3. t = [j \in 1 .. Len(s) + 1 |-> t[j]]
    BY <2>1, <2>2
  <2> QED
    BY <2>3 DEF t
<1>7. IsNet(Append(s, c))
  BY <1>4, <1>5, <1>6, NetIs
<1> QED
  BY <1>1, <1>3, <1>4, <1>7

\* c is the request d, and is not handled for more than d is.
Like(c, d) == Same(c, d) /\ (d.gone => c.gone)

\* The requests of t are some of s, and some like those of C.
From(s, t, C) ==
  /\ IsNet(t)
  /\ \A j \in DOMAIN t : \/ \E k \in DOMAIN s : Like(t[j], s[k])
                         \/ \E c \in C : Like(t[j], c)

LEMMA FromRest ==
  ASSUME IsNet(net), NEW i \in DOMAIN net
  PROVE  From(net, Rest(i), {}) /\ From(net, Others(i), {})
<1>1. From(net, Rest(i), {})
  BY NetRest DEF From, Like
<1>2. From(net, Others(i), {})
  BY NetOthers DEF From, Like, Same
<1> QED
  BY <1>1, <1>2

LEMMA FromAppend ==
  ASSUME NEW s, NEW t, From(s, t, {}),
         NEW c, DOMAIN c = CallFields, c.late \in BOOLEAN, c.gone \in BOOLEAN
  PROVE  From(s, Append(t, c), {c})
<1>1. IsNet(t)
  BY DEF From
<1>2. /\ IsNet(Append(t, c))
      /\ \A j \in DOMAIN Append(t, c) :
           \/ Append(t, c)[j] = c
           \/ j \in DOMAIN t /\ Append(t, c)[j] = t[j]
  BY <1>1, NetAppend
<1> QED
  BY <1>2 DEF From, Like, Same

LEMMA FromSelf ==
  ASSUME NEW s, IsNet(s)
  PROVE  From(s, s, {})
BY DEF From, Like, Same

LEMMA FromUnmounted ==
  ASSUME NEW s, NEW t, NEW C, From(s, t, C), NEW ops
  PROVE  /\ From(s, Unmounted(t, ops), C)
         /\ \A j \in DOMAIN Unmounted(t, ops) :
              ~Unmounted(t, ops)[j].gone => Unmounted(t, ops)[j].op \notin ops
<1>1. /\ IsNet(Unmounted(t, ops)) /\ DOMAIN Unmounted(t, ops) = DOMAIN t
      /\ \A j \in DOMAIN t :
           /\ Same(Unmounted(t, ops)[j], t[j])
           /\ Unmounted(t, ops)[j].gone <=> t[j].gone \/ t[j].op \in ops
  BY NetUnmounted DEF From
<1>2. ASSUME NEW j \in DOMAIN t
      PROVE  \/ \E k \in DOMAIN s : Like(Unmounted(t, ops)[j], s[k])
             \/ \E c \in C : Like(Unmounted(t, ops)[j], c)
  BY <1>1 DEF From, Like, Same
<1> QED
  BY <1>1, <1>2 DEF From, Same

\* A request is sent, with or without another one handled.
LEMMA FromSend ==
  ASSUME IsNet(net), NEW op, NEW arg
  PROVE  /\ From(net, Append(net, Call(op, arg)), {Call(op, arg)})
         /\ \A i \in DOMAIN net : From(net, Append(Rest(i), Call(op, arg)), {Call(op, arg)})
         /\ \A i \in DOMAIN net : From(net, Append(Others(i), Call(op, arg)), {Call(op, arg)})
<1> DEFINE c == Call(op, arg)
<1>1. DOMAIN c = CallFields /\ c.late \in BOOLEAN /\ c.gone \in BOOLEAN
  BY DEF Call, CallFields
<1> HIDE DEF c
<1>2. /\ From(net, Append(net, c), {c})
      /\ \A i \in DOMAIN net : From(net, Append(Rest(i), c), {c})
      /\ \A i \in DOMAIN net : From(net, Append(Others(i), c), {c})
  BY <1>1, FromSelf, FromRest, FromAppend
<1> QED
  BY <1>2 DEF c

-----------------------------------------------------------------------------
(* Favorites, theme and language: module Preferences.                      *)

\* While only one tab has been open at a time, it shows what the user wants, and
\* so does the storage once the tab's effects have run or it is closed.
PrefsInv ==
  /\ rows \in Prefs!Stored /\ lag \in BOOLEAN
  /\ page \in [tabs : [PageTab -> Prefs!Shown \cup {None}], wanted : Prefs!Stored]
  /\ ~lag =>
       /\ \A s, t \in Prefs!Open : s = t
       /\ Prefs!Open = {} => rows = page.wanted
       /\ \A t \in Prefs!Open : /\ page.tabs[t].values = page.wanted
                                /\ ~page.tabs[t].effects => rows = page.wanted

LEMMA PrefsInit == Prefs!Init => PrefsInv
<1> SUFFICES ASSUME Prefs!Init PROVE PrefsInv
  OBVIOUS
<1>1. rows \in Prefs!Stored
  BY DEF Prefs!Init, Prefs!Stored, Prefs!Themes, Prefs!Langs
<1>2. /\ page.tabs = [t \in PageTab |-> None] /\ page.wanted = rows
      /\ page \in [tabs : [PageTab -> Prefs!Shown \cup {None}], wanted : Prefs!Stored]
  BY <1>1 DEF Prefs!Init
<1>3. Prefs!Open = {} /\ lag = FALSE
  BY <1>2 DEF Prefs!Open, Prefs!Init
<1> QED
  BY <1>1, <1>2, <1>3 DEF PrefsInv

\* A tab shows something new, and the user may want something else by then.
LEMMA TabShows ==
  ASSUME PrefsInv, NEW t \in PageTab, NEW shown \in Prefs!Shown, NEW wanted \in Prefs!Stored,
         page' = [page EXCEPT !.tabs[t] = shown, !.wanted = wanted]
  PROVE  /\ page' \in [tabs : [PageTab -> Prefs!Shown \cup {None}], wanted : Prefs!Stored]
         /\ page'.wanted = wanted /\ page'.tabs[t] = shown
         /\ Prefs!Open' = Prefs!Open \cup {t}
         /\ \A s \in PageTab \ {t} : page'.tabs[s] = page.tabs[s]
<1>1. /\ page' \in [tabs : [PageTab -> Prefs!Shown \cup {None}], wanted : Prefs!Stored]
      /\ page'.wanted = wanted /\ page'.tabs = [page.tabs EXCEPT ![t] = shown]
  BY DEF PrefsInv
<1>2. page.tabs \in [PageTab -> Prefs!Shown \cup {None}]
  BY DEF PrefsInv
<1>3. shown # None
  BY NoneAssumption
<1> QED
  BY <1>1, <1>2, <1>3 DEF Prefs!Open

LEMMA ChooseKeeps ==
  ASSUME PrefsInv, NEW t \in Prefs!Open, NEW values \in Prefs!Stored, NEW wanted \in Prefs!Stored,
         Prefs!Choose(t, values, wanted),
         page.tabs[t].values = page.wanted => values = wanted
  PROVE  PrefsInv'
<1> DEFINE shown == [values |-> values, effects |-> TRUE]
<1>1. shown \in Prefs!Shown /\ t \in PageTab /\ shown.values = values /\ shown.effects
  BY DEF Prefs!Shown, Prefs!Open
<1>2. /\ page' = [page EXCEPT !.tabs[t] = shown, !.wanted = wanted]
      /\ rows' = rows /\ lag' = lag
  BY DEF Prefs!Choose
<1> HIDE DEF shown
<1>3. /\ page' \in [tabs : [PageTab -> Prefs!Shown \cup {None}], wanted : Prefs!Stored]
      /\ page'.wanted = wanted /\ page'.tabs[t] = shown
      /\ Prefs!Open' = Prefs!Open \cup {t}
  BY <1>1, <1>2, TabShows
<1>4. ~lag => \A s \in Prefs!Open : s = t
  BY DEF PrefsInv
<1> QED
  BY <1>1, <1>2, <1>3, <1>4 DEF PrefsInv

LEMMA PrefsNext == PrefsInv /\ Prefs!Next => PrefsInv'
<1> SUFFICES ASSUME PrefsInv, Prefs!Next
             PROVE  PrefsInv'
  OBVIOUS
<1>1. CASE Prefs!Mount
  <2>1. PICK t \in PageTab \ Prefs!Open :
          page' = [page EXCEPT !.tabs[t] = [values |-> rows, effects |-> TRUE]]
    BY <1>1 DEF Prefs!Mount
  <2> DEFINE shown == [values |-> rows, effects |-> TRUE]
  <2>2. shown \in Prefs!Shown /\ shown.values = rows /\ shown.effects
    BY DEF Prefs!Shown, PrefsInv
  <2>3. page' = [page EXCEPT !.tabs[t] = shown, !.wanted = page.wanted] /\ page.wanted \in Prefs!Stored
    BY <2>1 DEF PrefsInv
  <2> HIDE DEF shown
  <2>4. /\ page' \in [tabs : [PageTab -> Prefs!Shown \cup {None}], wanted : Prefs!Stored]
        /\ page'.wanted = page.wanted /\ page'.tabs[t] = shown
        /\ Prefs!Open' = Prefs!Open \cup {t}
    BY <2>2, <2>3, TabShows
  <2>5. rows' = rows /\ lag' \in BOOLEAN /\ (~lag' => ~lag /\ Prefs!Open = {})
    BY <1>1 DEF Prefs!Mount, PrefsInv
  <2> QED
    BY <2>2, <2>4, <2>5 DEF PrefsInv
<1>2. CASE Prefs!RunEffects
  <2>1. PICK t \in Prefs!Open : /\ page.tabs[t].effects
                                /\ page' = [page EXCEPT !.tabs[t].effects = FALSE]
                                /\ rows' = page.tabs[t].values /\ lag' = lag
    BY <1>2 DEF Prefs!RunEffects
  <2>2. page.tabs[t] \in Prefs!Shown /\ t \in PageTab /\ page.wanted \in Prefs!Stored
    BY <2>1 DEF PrefsInv, Prefs!Open
  <2> DEFINE shown == [page.tabs[t] EXCEPT !.effects = FALSE]
  <2>3. shown \in Prefs!Shown /\ shown.values = page.tabs[t].values /\ rows' \in Prefs!Stored
    BY <2>1, <2>2 DEF Prefs!Shown
  <2>4. page' = [page EXCEPT !.tabs[t] = shown, !.wanted = page.wanted]
    BY <2>1 DEF PrefsInv
  <2> HIDE DEF shown
  <2>5. /\ page' \in [tabs : [PageTab -> Prefs!Shown \cup {None}], wanted : Prefs!Stored]
        /\ page'.wanted = page.wanted /\ page'.tabs[t] = shown
        /\ Prefs!Open' = Prefs!Open \cup {t}
    BY <2>2, <2>3, <2>4, TabShows
  <2>6. ~lag => (\A s \in Prefs!Open : s = t) /\ page.tabs[t].values = page.wanted
    BY <2>1 DEF PrefsInv
  <2> QED
    BY <2>1, <2>3, <2>5, <2>6 DEF PrefsInv
<1>3. CASE Prefs!Unmount
  <2>1. PICK t \in Prefs!Open : /\ ~page.tabs[t].effects
                                /\ page' = [page EXCEPT !.tabs[t] = None]
                                /\ rows' = rows /\ lag' = lag
    BY <1>3 DEF Prefs!Unmount
  <2>2. /\ page' \in [tabs : [PageTab -> Prefs!Shown \cup {None}], wanted : Prefs!Stored]
        /\ page'.wanted = page.wanted /\ page'.tabs = [page.tabs EXCEPT ![t] = None]
    BY <2>1 DEF PrefsInv
  <2>3. Prefs!Open' = Prefs!Open \ {t}
    BY <2>2 DEF Prefs!Open, PrefsInv
  <2>4. ~lag => (\A s \in Prefs!Open : s = t) /\ rows = page.wanted
    BY <2>1 DEF PrefsInv
  <2> QED
    BY <2>1, <2>2, <2>3, <2>4 DEF PrefsInv
<1>4. CASE Prefs!ToggleFavorite
  <2>1. PICK t \in Prefs!Open, m \in OneOf(Mod) :
          LET stars == page.tabs[t].values.favorites
              next == IF m \in stars THEN stars \ {m} ELSE stars \cup {m}
          IN  Prefs!Choose(t, [page.tabs[t].values EXCEPT !.favorites = next],
                [page.wanted EXCEPT !.favorites = IF m \in stars THEN @ \ {m} ELSE @ \cup {m}])
    BY <1>4 DEF Prefs!ToggleFavorite
  <2>2. page.tabs[t].values \in Prefs!Stored /\ page.wanted \in Prefs!Stored
    BY <2>1 DEF PrefsInv, Prefs!Open, Prefs!Shown
  <2> DEFINE toggled(v) == [v EXCEPT !.favorites = IF m \in page.tabs[t].values.favorites
                                                     THEN @ \ {m} ELSE @ \cup {m}]
  <2>3. \A v \in Prefs!Stored : toggled(v) \in Prefs!Stored
    BY <2>1 DEF Prefs!Stored
  <2>4. Prefs!Choose(t, toggled(page.tabs[t].values), toggled(page.wanted))
    BY <2>1
  <2> HIDE DEF toggled
  <2> QED
    BY <2>1, <2>2, <2>3, <2>4, ChooseKeeps
<1>5. CASE Prefs!ToggleTheme
  <2>1. PICK t \in Prefs!Open, next \in Prefs!Themes :
          Prefs!Choose(t, [page.tabs[t].values EXCEPT !.theme = next],
                          [page.wanted EXCEPT !.theme = next])
    BY <1>5 DEF Prefs!ToggleTheme, Prefs!Themes
  <2>2. page.tabs[t].values \in Prefs!Stored /\ page.wanted \in Prefs!Stored
    BY <2>1 DEF PrefsInv, Prefs!Open, Prefs!Shown
  <2>3. \A v \in Prefs!Stored : [v EXCEPT !.theme = next] \in Prefs!Stored
    BY <2>1 DEF Prefs!Stored
  <2> QED
    BY <2>1, <2>2, <2>3, ChooseKeeps
<1>6. CASE Prefs!ToggleLanguage
  <2>1. PICK t \in Prefs!Open, next \in Prefs!Langs :
          Prefs!Choose(t, [page.tabs[t].values EXCEPT !.lang = next],
                          [page.wanted EXCEPT !.lang = next])
    BY <1>6 DEF Prefs!ToggleLanguage, Prefs!Langs
  <2>2. page.tabs[t].values \in Prefs!Stored /\ page.wanted \in Prefs!Stored
    BY <2>1 DEF PrefsInv, Prefs!Open, Prefs!Shown
  <2>3. \A v \in Prefs!Stored : [v EXCEPT !.lang = next] \in Prefs!Stored
    BY <2>1 DEF Prefs!Stored
  <2> QED
    BY <2>1, <2>2, <2>3, ChooseKeeps
<1> QED
  BY <1>1, <1>2, <1>3, <1>4, <1>5, <1>6 DEF Prefs!Next

\* What the user chose is what is stored, from one page to the next, as long as
\* no two tabs were open at once.
THEOREM ChoicesStay == FormsSpec => []ChoicesAreKept
<1> DEFINE I == tab = "prefs" => PrefsInv
<1>1. FormsInit => I
  BY PrefsInit DEF FormsInit
<1>2. I /\ [FormsNext]_vars => I'
  <2>1. CASE UNCHANGED vars
    BY <2>1 DEF vars, PrefsInv, Prefs!Open
  <2>2. CASE FormsNext
    BY <2>2, PrefsNext DEF FormsNext
  <2> QED
    BY <2>1, <2>2
<1>3. I => ChoicesAreKept
  BY DEF ChoicesAreKept, Prefs!ChoicesAreKept, PrefsInv
<1> QED
  BY <1>1, <1>2, <1>3, PTL DEF FormsSpec

-----------------------------------------------------------------------------
(* The portal's screens and the session: module PortalPage.                *)

PortalKinds == {"me", "login", "logout", "change", "forgot", "reset", "body"}
Landing == {"login", "logout", "change"}
PortalArgs == Portal!Cookies \cup {None} \cup Landing
PortalAnswers == {"must", "in", Done, Waiting, Failed}

\* The requests of the portal; the two that ask who is signed in are told so, and
\* a body is read of an answer that is there.
PortalNet(s) ==
  /\ s \in Seq(CallOf(PortalKinds, PortalArgs, PortalAnswers))
  /\ \A i \in DOMAIN s :
       /\ s[i].op \in {"me", "login"} => s[i].ans # Done
       /\ s[i].op = "body" => s[i].ans \notin {Waiting, Failed}
       /\ s[i].op = "body" /\ s[i].arg = "login" => s[i].ans # Done

\* What App takes the user for is what the cookie is of.  Before it knows, it has
\* asked just once, with the cookie there is now, and nothing can change that one.
UserIsOfCookie(p) ==
  /\ p.user = "null" => p.cookie = "none"
  /\ p.user = "in" => p.cookie = "clean"
  /\ p.user = "must" => p.cookie # "none"

\* While bodies are read, the cookie is what the last of the headers brought.  The
\* answers overtaken by a later one are the first ones; and when there are no
\* others, the user is that of the cookie.
Reading(s, i) == i \in DOMAIN s /\ s[i].op = "body"
CookieIsOfTheLast(s, p) ==
  /\ \A i, j : Reading(s, i) /\ Reading(s, j) /\ i < j /\ s[j].late => s[i].late
  /\ \A i : Reading(s, i) /\ ~s[i].late /\ (\A j : Reading(s, j) => j <= i) =>
       p.cookie = Portal!Brings(s[i].arg, s[i].ans)
  /\ (\A i : Reading(s, i) => s[i].late) => UserIsOfCookie(p)

AsksOnce(s, p) ==
  /\ \A i, j \in DOMAIN s : s[i].op = "me" /\ s[j].op = "me" => i = j
  /\ \A i \in DOMAIN s :
       /\ p.user = "undefined" => s[i].op \in {"me", "reset"}
       /\ s[i].op = "me" =>
            /\ p.user = "undefined" /\ s[i].arg = p.cookie
            /\ s[i].ans = "in" => p.cookie = "clean"
            /\ s[i].ans = "must" => p.cookie # "none"

\* A token is stamped for an account whose password has expired, or has just been
\* changed by a request whose answer brings another token.
StampHasReason(s, p, r) ==
  p.cookie = "stamped" => r.must \/ \E i \in DOMAIN s : s[i].op = "change" /\ s[i].ans = Done

PortalInv ==
  /\ page \in Portal!State /\ rows \in [must : BOOLEAN, link : BOOLEAN] /\ lag \in BOOLEAN
  /\ PortalNet(net)
  /\ ~lag => CookieIsOfTheLast(net, page) /\ AsksOnce(net, page) /\ StampHasReason(net, page, rows)

LEMMA PortalCalls ==
  /\ \A i : Portal!Rest(i) = Rest(i)
  /\ \A op, arg : Portal!Call(op, arg) = Call(op, arg)
  /\ \A calls, ops : Portal!Unmounted(calls, ops) = Unmounted(calls, ops)
  /\ \A i, ans : Portal!Reply(i, ans) <=> Reply(i, ans)
BY DEF Portal!Rest, Rest, Portal!Call, Call, Portal!Unmounted, Unmounted, Portal!Reply, Reply

\* Where no body is read.
LEMMA NothingRead ==
  ASSUME NEW s, NEW p, \A i \in DOMAIN s : s[i].op # "body"
  PROVE  CookieIsOfTheLast(s, p) <=> UserIsOfCookie(p)
BY DEF CookieIsOfTheLast, Reading

\* The same requests, in the same order, with another page of the same user.
LEMMA SameRead ==
  ASSUME NEW s, NEW t, NEW p, NEW q, CookieIsOfTheLast(s, p), DOMAIN t = DOMAIN s,
         \A i \in DOMAIN s : /\ t[i].op = "body" <=> s[i].op = "body"
                             /\ s[i].op = "body" =>
                                  t[i].arg = s[i].arg /\ t[i].ans = s[i].ans /\ t[i].late = s[i].late,
         q.user = p.user, q.cookie = p.cookie
  PROVE  CookieIsOfTheLast(t, q)
<1>1. \A i : Reading(t, i) <=> Reading(s, i)
  BY DEF Reading
<1>2. \A i : Reading(s, i) => t[i].arg = s[i].arg /\ t[i].ans = s[i].ans /\ t[i].late = s[i].late
  BY DEF Reading
<1>3. UserIsOfCookie(p) => UserIsOfCookie(q)
  BY DEF UserIsOfCookie
<1>4. \A i, j : Reading(t, i) /\ Reading(t, j) /\ i < j /\ t[j].late => t[i].late
  BY <1>1, <1>2 DEF CookieIsOfTheLast
<1>5. ASSUME NEW i, Reading(t, i), ~t[i].late, \A j : Reading(t, j) => j <= i
      PROVE  q.cookie = Portal!Brings(t[i].arg, t[i].ans)
  <2>1. Reading(s, i) /\ ~s[i].late /\ \A j : Reading(s, j) => j <= i
    BY <1>1, <1>2, <1>5
  <2>2. p.cookie = Portal!Brings(s[i].arg, s[i].ans)
    BY <2>1 DEF CookieIsOfTheLast
  <2> QED
    BY <1>2, <2>1, <2>2
<1>6. (\A i : Reading(t, i) => t[i].late) => UserIsOfCookie(q)
  BY <1>1, <1>2, <1>3 DEF CookieIsOfTheLast
<1> QED
  BY <1>4, <1>5, <1>6 DEF CookieIsOfTheLast

\* One request fewer.
LEMMA PortalRest ==
  ASSUME PortalNet(net), NEW i \in DOMAIN net
  PROVE  /\ PortalNet(Rest(i))
         /\ net[i].op # "body" => \A p : CookieIsOfTheLast(net, p) => CookieIsOfTheLast(Rest(i), p)
         /\ \A p : AsksOnce(net, p) => AsksOnce(Rest(i), p)
         /\ \A p, r : StampHasReason(net, p, r) =>
              StampHasReason(Rest(i), p, r) \/ (net[i].op = "change" /\ net[i].ans = Done)
         /\ \A j \in DOMAIN Rest(i) : \E k \in DOMAIN net \ {i} : Rest(i)[j].op = net[k].op
<1>1. net \in Seq(CallOf(PortalKinds, PortalArgs, PortalAnswers))
  BY DEF PortalNet
<1>2. Len(net) \in Nat /\ i \in 1 .. Len(net) /\ DOMAIN net = 1 .. Len(net)
  BY <1>1
<1>3. /\ DOMAIN Rest(i) = 1 .. Len(net) - 1
      /\ Rest(i) \in Seq(CallOf(PortalKinds, PortalArgs, PortalAnswers))
      /\ \A j \in 1 .. Len(net) - 1 :
           /\ Before(i, j) \in DOMAIN net \ {i}
           /\ Rest(i)[j].op = net[Before(i, j)].op /\ Rest(i)[j].arg = net[Before(i, j)].arg
           /\ Rest(i)[j].ans = net[Before(i, j)].ans
           /\ Rest(i)[j].late <=> net[Before(i, j)].late \/ (j < i /\ net[Before(i, j)].op = net[i].op)
  <2>1. \A j \in 1 .. Len(net) - 1 : Before(i, j) \in DOMAIN net \ {i}
    BY <1>2, BeforeFacts
  <2> QED
    BY <1>1, <2>1, RestFacts
<1>4. PortalNet(Rest(i))
  BY <1>3 DEF PortalNet
<1>5. ASSUME NEW p, AsksOnce(net, p)
      PROVE  AsksOnce(Rest(i), p)
  <2>1. \A j, k \in 1 .. Len(net) - 1 : Before(i, j) = Before(i, k) => j = k
    BY <1>2 DEF Before
  <2>2. ASSUME NEW j \in DOMAIN Rest(i), NEW k \in DOMAIN Rest(i),
               Rest(i)[j].op = "me", Rest(i)[k].op = "me"
        PROVE  j = k
    <3>1. /\ j \in 1 .. Len(net) - 1 /\ k \in 1 .. Len(net) - 1
          /\ Before(i, j) \in DOMAIN net /\ net[Before(i, j)].op = "me"
          /\ Before(i, k) \in DOMAIN net /\ net[Before(i, k)].op = "me"
      BY <1>3, <2>2
    <3>2. Before(i, j) = Before(i, k)
      BY <1>5, <3>1 DEF AsksOnce
    <3> QED
      BY <2>1, <3>1, <3>2
  <2>3. ASSUME NEW j \in DOMAIN Rest(i)
        PROVE  /\ p.user = "undefined" => Rest(i)[j].op \in {"me", "reset"}
               /\ Rest(i)[j].op = "me" =>
                    /\ p.user = "undefined" /\ Rest(i)[j].arg = p.cookie
                    /\ Rest(i)[j].ans = "in" => p.cookie = "clean"
                    /\ Rest(i)[j].ans = "must" => p.cookie # "none"
    <3>1. /\ Before(i, j) \in DOMAIN net
          /\ Rest(i)[j].op = net[Before(i, j)].op /\ Rest(i)[j].arg = net[Before(i, j)].arg
          /\ Rest(i)[j].ans = net[Before(i, j)].ans
      BY <1>3, <2>3
    <3> QED
      BY <1>5, <3>1 DEF AsksOnce
  <2> QED
    BY <2>2, <2>3 DEF AsksOnce
<1>6. ASSUME NEW p, NEW r, StampHasReason(net, p, r), ~(net[i].op = "change" /\ net[i].ans = Done)
      PROVE  StampHasReason(Rest(i), p, r)
  <2>1. ASSUME NEW k \in DOMAIN net, net[k].op = "change", net[k].ans = Done
        PROVE  \E j \in DOMAIN Rest(i) : Rest(i)[j].op = "change" /\ Rest(i)[j].ans = Done
    <3>1. k \in 1 .. Len(net) /\ k # i
      BY <1>2, <1>6, <2>1
    <3>2. PICK j \in 1 .. Len(net) - 1 : Before(i, j) = k
      BY <1>2, <3>1, BeforeOnto
    <3> QED
      BY <1>3, <2>1, <3>2
  <2> QED
    BY <1>6, <2>1 DEF StampHasReason
<1>7. ASSUME net[i].op # "body", NEW p, CookieIsOfTheLast(net, p)
      PROVE  CookieIsOfTheLast(Rest(i), p)
  <2>1. \A j : Reading(Rest(i), j) => /\ j \in 1 .. Len(net) - 1 /\ Reading(net, Before(i, j))
                                      /\ Rest(i)[j].late = net[Before(i, j)].late
    <3>1. ASSUME NEW j \in 1 .. Len(net) - 1, Rest(i)[j].op = "body"
          PROVE  Rest(i)[j].late = net[Before(i, j)].late
      <4>1. /\ Rest(i)[j].late \in BOOLEAN /\ net[Before(i, j)].late \in BOOLEAN
        <5> DEFINE C == CallOf(PortalKinds, PortalArgs, PortalAnswers)
        <5>1. j \in DOMAIN Rest(i) /\ Before(i, j) \in DOMAIN net
          BY <1>3
        <5> HIDE DEF C
        <5>2. Rest(i)[j] \in C /\ net[Before(i, j)] \in C
          BY <1>1, <1>3, <5>1 DEF C
        <5>3. \A c \in C : c.late \in BOOLEAN
          BY DEF C, CallOf
        <5> QED
          BY <5>2, <5>3
      <4>2. net[Before(i, j)].op # net[i].op
        BY <1>3, <1>7, <3>1
      <4> QED
        BY <1>3, <4>1, <4>2
    <3> QED
      BY <1>3, <3>1 DEF Reading
  <2>2. \A k : Reading(net, k) => \E j \in 1 .. Len(net) - 1 : Before(i, j) = k /\ Reading(Rest(i), j)
    <3>1. ASSUME NEW k, Reading(net, k)
          PROVE  \E j \in 1 .. Len(net) - 1 : Before(i, j) = k /\ Reading(Rest(i), j)
      <4>1. k \in 1 .. Len(net) /\ k # i
        BY <1>2, <1>7, <3>1 DEF Reading
      <4>2. PICK j \in 1 .. Len(net) - 1 : Before(i, j) = k
        BY <1>2, <4>1, BeforeOnto
      <4> QED
        BY <1>3, <3>1, <4>2 DEF Reading
    <3> QED
      BY <3>1
  <2>3. \A j, k \in 1 .. Len(net) - 1 : j < k <=> Before(i, j) < Before(i, k)
    BY <1>2, BeforeFacts
  <2>4. ASSUME NEW j, NEW k, Reading(Rest(i), j), Reading(Rest(i), k), j < k, Rest(i)[k].late
        PROVE  Rest(i)[j].late
    BY <1>7, <2>1, <2>3, <2>4 DEF CookieIsOfTheLast
  <2>5. ASSUME NEW j, Reading(Rest(i), j), ~Rest(i)[j].late,
               \A k : Reading(Rest(i), k) => k <= j
        PROVE  p.cookie = Portal!Brings(Rest(i)[j].arg, Rest(i)[j].ans)
    <3>1. Reading(net, Before(i, j)) /\ ~net[Before(i, j)].late /\ j \in 1 .. Len(net) - 1
      BY <2>1, <2>5
    <3>2. ASSUME NEW k, Reading(net, k)
          PROVE  k <= Before(i, j)
      <4>1. PICK l \in 1 .. Len(net) - 1 : Before(i, l) = k /\ Reading(Rest(i), l)
        BY <2>2, <3>2
      <4>2. l <= j
        BY <2>5, <4>1
      <4> QED
        BY <1>2, <3>1, <4>1, <4>2 DEF Before
    <3>3. p.cookie = Portal!Brings(net[Before(i, j)].arg, net[Before(i, j)].ans)
      BY <1>7, <3>1, <3>2 DEF CookieIsOfTheLast
    <3>4. Rest(i)[j].arg = net[Before(i, j)].arg /\ Rest(i)[j].ans = net[Before(i, j)].ans
      BY <1>3, <3>1
    <3> QED
      BY <3>3, <3>4
  <2>6. (\A j : Reading(Rest(i), j) => Rest(i)[j].late) => UserIsOfCookie(p)
    <3>1. ASSUME \A j : Reading(Rest(i), j) => Rest(i)[j].late, NEW k, Reading(net, k)
          PROVE  net[k].late
      BY <2>1, <2>2, <3>1
    <3> QED
      BY <1>7, <3>1 DEF CookieIsOfTheLast
  <2> QED
    BY <2>4, <2>5, <2>6 DEF CookieIsOfTheLast
<1> QED
  BY <1>3, <1>4, <1>5, <1>6, <1>7

\* Nothing of this depends on which component is still on the screen.
LEMMA PortalUnmounted ==
  ASSUME NEW s, PortalNet(s), NEW ops
  PROVE  /\ PortalNet(Unmounted(s, ops))
         /\ \A p : CookieIsOfTheLast(s, p) => CookieIsOfTheLast(Unmounted(s, ops), p)
         /\ \A p : AsksOnce(s, p) => AsksOnce(Unmounted(s, ops), p)
         /\ \A p, r : StampHasReason(s, p, r) => StampHasReason(Unmounted(s, ops), p, r)
<1>1. /\ Unmounted(s, ops) \in Seq(CallOf(PortalKinds, PortalArgs, PortalAnswers))
      /\ DOMAIN Unmounted(s, ops) = DOMAIN s
      /\ \A j \in DOMAIN s : /\ Unmounted(s, ops)[j].op = s[j].op
                             /\ Unmounted(s, ops)[j].arg = s[j].arg
                             /\ Unmounted(s, ops)[j].ans = s[j].ans
                             /\ Unmounted(s, ops)[j].late = s[j].late
  BY UnmountedFacts DEF PortalNet
<1> DEFINE t == Unmounted(s, ops)
<1> HIDE DEF t
<1>2. /\ t \in Seq(CallOf(PortalKinds, PortalArgs, PortalAnswers)) /\ DOMAIN t = DOMAIN s
      /\ \A j \in DOMAIN s : /\ t[j].op = s[j].op /\ t[j].arg = s[j].arg
                             /\ t[j].ans = s[j].ans /\ t[j].late = s[j].late
  BY <1>1 DEF t
<1>3. PortalNet(t)
  BY <1>2 DEF PortalNet
<1>4. ASSUME NEW p, AsksOnce(s, p)
      PROVE  AsksOnce(t, p)
  BY <1>2, <1>4 DEF AsksOnce
<1>5. ASSUME NEW p, NEW r, StampHasReason(s, p, r)
      PROVE  StampHasReason(t, p, r)
  BY <1>2, <1>5 DEF StampHasReason
<1>6. ASSUME NEW p, CookieIsOfTheLast(s, p)
      PROVE  CookieIsOfTheLast(t, p)
  BY <1>2, <1>6, SameRead
<1> QED
  BY <1>3, <1>4, <1>5, <1>6 DEF t

\* App renders again.
LEMMA PortalRender ==
  ASSUME NEW p \in Portal!State, NEW s, PortalNet(s), Portal!Render(p, s)
  PROVE  /\ page' \in Portal!State /\ page'.user = p.user /\ page'.cookie = p.cookie
         /\ PortalNet(net')
         /\ \A r : /\ CookieIsOfTheLast(s, p) => CookieIsOfTheLast(net', page')
                   /\ AsksOnce(s, p) => AsksOnce(net', page')
                   /\ StampHasReason(s, p, r) => StampHasReason(net', page', r)
<1>1. /\ page' \in Portal!State /\ page'.user = p.user /\ page'.cookie = p.cookie
  BY DEF Portal!Render, Portal!State
<1>2. net' = s \/ net' = Unmounted(s, Portal!Forms \cup {"body"})
  BY PortalCalls DEF Portal!Render
<1>3. /\ PortalNet(net')
      /\ CookieIsOfTheLast(s, p) => CookieIsOfTheLast(net', p)
      /\ AsksOnce(s, p) => AsksOnce(net', p)
      /\ \A r : StampHasReason(s, p, r) => StampHasReason(net', p, r)
  BY <1>2, PortalUnmounted
<1>4. /\ AsksOnce(net', p) => AsksOnce(net', page')
      /\ \A r : StampHasReason(net', p, r) => StampHasReason(net', page', r)
  BY <1>1 DEF AsksOnce, StampHasReason
<1>5. CookieIsOfTheLast(net', p) => CookieIsOfTheLast(net', page')
  <2>1. CASE CookieIsOfTheLast(net', p)
    BY <1>1, <2>1, SameRead
  <2> QED
    BY <2>1
<1> QED
  BY <1>1, <1>3, <1>4, <1>5

\* The question who is signed in.
LEMMA PortalAsks ==
  ASSUME NEW cookie \in PortalArgs
  PROVE  /\ Call("me", cookie) \in CallOf(PortalKinds, PortalArgs, PortalAnswers)
         /\ Call("me", cookie).op = "me" /\ Call("me", cookie).ans = Waiting
         /\ Call("me", cookie).arg = cookie
<1>1. Waiting \in PortalAnswers /\ "me" \in PortalKinds
  BY DEF PortalKinds, PortalAnswers
<1> QED
  BY <1>1 DEF Call, CallOf

LEMMA PortalInit == Portal!Init => PortalInv
<1> SUFFICES ASSUME Portal!Init PROVE PortalInv
  OBVIOUS
<1>1. PICK cookie \in {"none", "clean"} : /\ page = Portal!Loaded(cookie, FALSE)
                                          /\ net = <<Call("me", cookie)>>
  BY PortalCalls DEF Portal!Init
<1>2. page \in Portal!State /\ page.user = "undefined" /\ page.cookie = cookie
  BY <1>1 DEF Portal!Loaded, Portal!State
<1>3. /\ Call("me", cookie) \in CallOf(PortalKinds, PortalArgs, PortalAnswers)
      /\ Call("me", cookie).op = "me" /\ Call("me", cookie).ans = Waiting
      /\ Call("me", cookie).arg = cookie
  <2>1. cookie \in PortalArgs
    BY DEF PortalArgs, Portal!Cookies
  <2> QED
    BY <2>1, PortalAsks
<1>4. /\ net \in Seq(CallOf(PortalKinds, PortalArgs, PortalAnswers)) /\ DOMAIN net = {1}
      /\ net[1] = Call("me", cookie)
  BY <1>1, <1>3
<1>5. PortalNet(net) /\ AsksOnce(net, page)
  BY <1>2, <1>3, <1>4, AnswersAssumption DEF PortalNet, AsksOnce
<1>6. rows \in [must : BOOLEAN, link : BOOLEAN] /\ lag = FALSE
  <2>1. {FALSE} \subseteq BOOLEAN
    OBVIOUS
  <2> QED
    BY <2>1 DEF Portal!Init
<1>7. CookieIsOfTheLast(net, page) /\ StampHasReason(net, page, rows)
  <2>1. UserIsOfCookie(page) /\ StampHasReason(net, page, rows)
    BY <1>2 DEF UserIsOfCookie, StampHasReason
  <2>2. \A i \in DOMAIN net : net[i].op # "body"
    BY <1>3, <1>4
  <2> QED
    BY <2>1, <2>2, NothingRead
<1> QED
  BY <1>2, <1>5, <1>6, <1>7 DEF PortalInv

\* An answer has come.
LEMMA PortalAnswered ==
  ASSUME PortalInv, NEW i \in DOMAIN net
  PROVE  /\ net[i] \in CallOf(PortalKinds, PortalArgs, PortalAnswers)
         /\ net[i].op \in {"me", "login"} /\ net[i].ans \notin {Waiting, Failed} =>
              net[i].ans \in {"must", "in"}
<1>1. net[i] \in CallOf(PortalKinds, PortalArgs, PortalAnswers)
  BY DEF PortalInv, PortalNet
<1>2. net[i].ans \in PortalAnswers
  BY <1>1 DEF CallOf
<1>3. net[i].op \in {"me", "login"} => net[i].ans # Done
  BY DEF PortalInv, PortalNet
<1> QED
  BY <1>1, <1>2, <1>3 DEF PortalAnswers

LEMMA MeInv ==
  ASSUME PortalInv, NEW i \in DOMAIN net, Portal!Me(i)
  PROVE  PortalInv'
<1> DEFINE user == IF net[i].ans = Failed THEN "null" ELSE net[i].ans
           p == [page EXCEPT !.user = user]
<1>1. /\ net[i].op = "me" /\ net[i].ans # Waiting /\ rows' = rows
      /\ Portal!Render(p, Rest(i))
      /\ lag' = (lag \/ (net[i].ans = Failed /\ page.cookie # "none"))
  BY PortalCalls DEF Portal!Me, Portal!Answered
<1>2. user \in {"null", "must", "in"}
  BY <1>1, PortalAnswered
<1>3. page \in Portal!State /\ PortalNet(net)
  BY DEF PortalInv
<1>4. p \in Portal!State /\ p.user = user /\ p.cookie = page.cookie
  <2> HIDE DEF user
  <2> QED
    BY <1>2, <1>3 DEF Portal!State
<1>5. ASSUME ~lag'
      PROVE  CookieIsOfTheLast(Rest(i), p) /\ AsksOnce(Rest(i), p) /\ StampHasReason(Rest(i), p, rows)
  <2>1. ~lag /\ ~(net[i].ans = Failed /\ page.cookie # "none")
    BY <1>1, <1>5
  <2>2. UserIsOfCookie(p)
    <3>1. /\ net[i].ans = "in" => page.cookie = "clean"
          /\ net[i].ans = "must" => page.cookie # "none"
      BY <1>1, <2>1 DEF PortalInv, AsksOnce
    <3>2. user = "null" => page.cookie = "none"
      BY <1>1, <2>1, PortalAnswered
    <3> HIDE DEF p
    <3> QED
      BY <1>2, <1>4, <3>1, <3>2 DEF UserIsOfCookie
  <2>3. AsksOnce(Rest(i), page) /\ \A j \in DOMAIN Rest(i) : Rest(i)[j].op \notin {"me", "body"}
    <3>1. AsksOnce(net, page)
      BY <2>1 DEF PortalInv
    <3>2. \A j \in DOMAIN net \ {i} : net[j].op \notin {"me", "body"}
      BY <1>1, <3>1 DEF AsksOnce
    <3> QED
      BY <1>3, <3>1, <3>2, PortalRest
  <2>4. AsksOnce(Rest(i), p)
    BY <1>2, <1>4, <2>3 DEF AsksOnce
  <2>5. StampHasReason(Rest(i), page, rows)
    BY <1>1, <1>3, <2>1, PortalRest DEF PortalInv
  <2>6. CookieIsOfTheLast(Rest(i), p)
    <3> HIDE DEF p
    <3> QED
      BY <2>2, <2>3, NothingRead
  <2> QED
    BY <1>4, <2>4, <2>5, <2>6 DEF StampHasReason
<1> HIDE DEF p
<1>6. /\ page' \in Portal!State /\ PortalNet(net')
      /\ ~lag' => /\ CookieIsOfTheLast(net', page') /\ AsksOnce(net', page')
                  /\ StampHasReason(net', page', rows)
  <2>1. PortalNet(Rest(i))
    BY <1>3, PortalRest
  <2> QED
    BY <1>1, <1>4, <1>5, <2>1, PortalRender
<1> QED
  BY <1>1, <1>6 DEF PortalInv

LEMMA ReloadInv ==
  ASSUME PortalInv, Portal!Reload
  PROVE  PortalInv'
<1>1. PICK link \in BOOLEAN : page' = Portal!Loaded(page.cookie, link)
  BY DEF PortalInv, Portal!Reload
<1>2. /\ net' = <<Call("me", page.cookie)>> /\ rows' = rows
      /\ lag' = (lag \/ \E i \in DOMAIN net : net[i].op # "me")
  BY PortalCalls DEF Portal!Reload
<1>3. /\ page \in Portal!State /\ page' \in Portal!State
      /\ page'.user = "undefined" /\ page'.cookie = page.cookie
  BY <1>1 DEF Portal!Loaded, Portal!State, PortalInv
<1> DEFINE c == Call("me", page.cookie)
<1>4. c \in CallOf(PortalKinds, PortalArgs, PortalAnswers) /\ c.op = "me" /\ c.ans = Waiting /\ c.arg = page.cookie
  <2>1. page.cookie \in PortalArgs
    BY <1>3 DEF PortalArgs, Portal!Cookies, Portal!State
  <2> QED
    BY <2>1, PortalAsks
<1> HIDE DEF c
<1>5. /\ net' \in Seq(CallOf(PortalKinds, PortalArgs, PortalAnswers)) /\ DOMAIN net' = {1} /\ net'[1] = c
  BY <1>2, <1>4 DEF c
<1>6. PortalNet(net') /\ AsksOnce(net', page')
  BY <1>3, <1>4, <1>5, AnswersAssumption DEF PortalNet, AsksOnce
<1>7. ASSUME ~lag'
      PROVE  CookieIsOfTheLast(net', page') /\ StampHasReason(net', page', rows)
  <2>1. ~lag /\ \A i \in DOMAIN net : net[i].op = "me"
    BY <1>2, <1>7
  <2>2. CookieIsOfTheLast(net, page) /\ StampHasReason(net, page, rows)
    BY <2>1 DEF PortalInv
  <2>3. \A i \in DOMAIN net : net[i].op # "body"
    BY <2>1
  <2>4. \A i \in DOMAIN net' : net'[i].op # "body"
    BY <1>4, <1>5
  <2>5. UserIsOfCookie(page') /\ StampHasReason(net', page', rows)
    <3>1. UserIsOfCookie(page)
      BY <2>2, <2>3, NothingRead
    <3> QED
      BY <1>3, <2>1, <2>2, <3>1 DEF UserIsOfCookie, StampHasReason
  <2> QED
    BY <2>4, <2>5, NothingRead
<1> QED
  BY <1>2, <1>3, <1>6, <1>7 DEF PortalInv

\* A request is sent, by a page that knows its user or from the reset form.
LEMMA PortalSent ==
  ASSUME PortalInv, NEW op \in {"login", "logout", "forgot", "reset", "change"},
         NEW arg \in PortalArgs, net' = Append(net, Call(op, arg)),
         page' \in Portal!State, page'.user = page.user, page'.cookie = page.cookie,
         rows' = rows, lag' = lag, page.user = "undefined" => op = "reset"
  PROVE  PortalInv'
<1> DEFINE c == Call(op, arg)
<1>1. /\ c \in CallOf(PortalKinds, PortalArgs, PortalAnswers)
      /\ c.op = op /\ c.ans = Waiting
  <2>1. Waiting \in PortalAnswers /\ op \in PortalKinds
    BY DEF PortalKinds, PortalAnswers
  <2> QED
    BY <2>1, CallFacts
<1>2. net \in Seq(CallOf(PortalKinds, PortalArgs, PortalAnswers)) /\ net' = Append(net, c)
  BY DEF PortalInv, PortalNet
<1> HIDE DEF c
<1>3. /\ net' \in Seq(CallOf(PortalKinds, PortalArgs, PortalAnswers)) /\ Len(net) \in Nat
      /\ DOMAIN net = 1 .. Len(net) /\ DOMAIN net' = 1 .. Len(net) + 1
      /\ net'[Len(net) + 1] = c /\ \A j \in DOMAIN net : net'[j] = net[j]
  BY <1>1, <1>2, AppendFacts
<1>4. \A j \in DOMAIN net' : net'[j] = c \/ (j \in DOMAIN net /\ net'[j] = net[j])
  BY <1>3
<1>5. PortalNet(net')
  BY <1>1, <1>3, <1>4, AnswersAssumption DEF PortalInv, PortalNet
<1>6. ASSUME ~lag
      PROVE  /\ AsksOnce(net', page') /\ CookieIsOfTheLast(net', page')
             /\ StampHasReason(net', page', rows)
  <2>1. AsksOnce(net, page) /\ CookieIsOfTheLast(net, page) /\ StampHasReason(net, page, rows)
    BY <1>6 DEF PortalInv
  <2>2. AsksOnce(net', page')
    BY <1>1, <1>4, <2>1 DEF AsksOnce
  <2>3. StampHasReason(net', page', rows)
    BY <1>3, <2>1 DEF StampHasReason
  <2>4. CookieIsOfTheLast(net', page')
    <3>1. \A j : Reading(net', j) <=> Reading(net, j)
      BY <1>1, <1>3, <1>4 DEF Reading
    <3>2. \A j : Reading(net, j) => net'[j] = net[j]
      BY <1>3 DEF Reading
    <3>3. UserIsOfCookie(page) => UserIsOfCookie(page')
      BY DEF UserIsOfCookie
    <3>4. \A j, k : Reading(net', j) /\ Reading(net', k) /\ j < k /\ net'[k].late => net'[j].late
      BY <2>1, <3>1, <3>2 DEF CookieIsOfTheLast
    <3>5. \A j : Reading(net', j) /\ ~net'[j].late /\ (\A k : Reading(net', k) => k <= j) =>
            page'.cookie = Portal!Brings(net'[j].arg, net'[j].ans)
      BY <2>1, <3>1, <3>2 DEF CookieIsOfTheLast
    <3>6. (\A j : Reading(net', j) => net'[j].late) => UserIsOfCookie(page')
      BY <2>1, <3>1, <3>2, <3>3 DEF CookieIsOfTheLast
    <3> QED
      BY <3>4, <3>5, <3>6 DEF CookieIsOfTheLast
  <2> QED
    BY <2>2, <2>3, <2>4
<1> QED
  BY <1>5, <1>6 DEF PortalInv

\* Which screen is there for which user.
LEMMA PortalScreens ==
  ASSUME page \in Portal!State
  PROVE  /\ Portal!On("login") \/ Portal!On("forgot") => page.user = "null"
         /\ Portal!On("dashboard") => page.user = "in"
         /\ Portal!On("change") => page.user \in {"must", "in"}
<1>1. \/ page.resetToken
      \/ ~page.resetToken /\ page.user = "undefined"
      \/ ~page.resetToken /\ page.user = "null"
      \/ ~page.resetToken /\ page.user \in {"must", "in"}
  BY DEF Portal!State
<1> QED
  BY <1>1 DEF Portal!On, Portal!Screen

\* The forms and Logout.
LEMMA PortalFormInv ==
  ASSUME PortalInv,
         \/ Portal!Login \/ Portal!Forgot \/ Portal!ResetPassword
         \/ Portal!ChangePassword \/ Portal!Logout
  PROVE  PortalInv'
<1>1. page \in Portal!State
  BY DEF PortalInv
<1>2. ASSUME NEW screen, NEW op, NEW arg, Portal!SubmitForm(screen, op, arg)
      PROVE  /\ net' = Append(net, Call(op, arg)) /\ rows' = rows /\ lag' = lag
             /\ page' \in Portal!State /\ page'.user = page.user /\ page'.cookie = page.cookie
             /\ Portal!On(screen)
  BY <1>1, <1>2, PortalCalls DEF Portal!SubmitForm, Portal!Send, Portal!State
<1>3. PICK op \in {"login", "logout", "forgot", "reset", "change"}, arg \in PortalArgs :
        /\ net' = Append(net, Call(op, arg)) /\ rows' = rows /\ lag' = lag
        /\ page' \in Portal!State /\ page'.user = page.user /\ page'.cookie = page.cookie
        /\ page.user = "undefined" => op = "reset"
  <2>1. page.cookie \in PortalArgs /\ None \in PortalArgs
    BY <1>1 DEF PortalArgs, Portal!Cookies, Portal!State
  <2>2. CASE Portal!Login
    BY <1>1, <1>2, <2>1, <2>2, PortalScreens DEF Portal!Login
  <2>3. CASE Portal!Forgot
    BY <1>1, <1>2, <2>1, <2>3, PortalScreens DEF Portal!Forgot
  <2>4. CASE Portal!ResetPassword
    BY <1>1, <1>2, <2>1, <2>4 DEF Portal!ResetPassword
  <2>5. CASE Portal!ChangePassword
    BY <1>1, <1>2, <2>1, <2>5, PortalScreens DEF Portal!ChangePassword
  <2>6. CASE Portal!Logout
    BY <1>1, <2>1, <2>6, PortalScreens, PortalCalls DEF Portal!Logout, Portal!Send
  <2> QED
    BY <2>2, <2>3, <2>4, <2>5, <2>6
<1> QED
  BY <1>3, PortalSent

\* A button that only changes what is shown.
LEMMA PortalButton ==
  ASSUME PortalInv, NEW p \in Portal!State, p.user = page.user, p.cookie = page.cookie,
         Portal!Render(p, net) \/ (page' = p /\ net' = net), rows' = rows, lag' = lag
  PROVE  PortalInv'
<1>1. /\ PortalNet(net)
      /\ ~lag => CookieIsOfTheLast(net, p) /\ AsksOnce(net, p) /\ StampHasReason(net, p, rows)
  <2>1. ~lag => CookieIsOfTheLast(net, page)
    BY DEF PortalInv
  <2>2. ~lag => CookieIsOfTheLast(net, p)
    BY <2>1, SameRead
  <2> QED
    BY <2>2 DEF PortalInv, AsksOnce, StampHasReason
<1>2. /\ page' \in Portal!State /\ PortalNet(net')
      /\ ~lag => /\ CookieIsOfTheLast(net', page') /\ AsksOnce(net', page')
                 /\ StampHasReason(net', page', rows)
  BY <1>1, PortalRender
<1> QED
  BY <1>2 DEF PortalInv

LEMMA PortalButtonInv ==
  ASSUME PortalInv,
         \/ Portal!ForgotLink \/ Portal!BackToSignIn \/ Portal!CancelChange \/ Portal!GoToSignIn
         \/ Portal!ShowProfile \/ Portal!CloseProfile \/ Portal!ProfileChange
  PROVE  PortalInv'
<1>1. page \in Portal!State
  BY DEF PortalInv
<1>2. ASSUME NEW screen, NEW view \in {"login", "forgot", "change"}, Portal!SetView(screen, view)
      PROVE  PortalInv'
  <2> DEFINE p == [page EXCEPT !.view = view]
  <2>1. p \in Portal!State /\ p.user = page.user /\ p.cookie = page.cookie
    BY <1>1 DEF Portal!State
  <2>2. Portal!Render(p, net) /\ rows' = rows /\ lag' = lag
    BY <1>2 DEF Portal!SetView
  <2> HIDE DEF p
  <2> QED
    BY <2>1, <2>2, PortalButton
<1>3. CASE Portal!GoToSignIn
  <2> DEFINE p == [page EXCEPT !.resetToken = FALSE]
  <2>1. p \in Portal!State /\ p.user = page.user /\ p.cookie = page.cookie
    BY <1>1 DEF Portal!State
  <2>2. Portal!Render(p, net) /\ rows' = rows /\ lag' = lag
    BY <1>3 DEF Portal!GoToSignIn
  <2> HIDE DEF p
  <2> QED
    BY <2>1, <2>2, PortalButton
<1>4. ASSUME NEW b \in BOOLEAN, page' = [page EXCEPT !.profile = b],
             net' = net, rows' = rows, lag' = lag
      PROVE  PortalInv'
  <2>1. page' \in Portal!State /\ page'.user = page.user /\ page'.cookie = page.cookie
    BY <1>1, <1>4 DEF Portal!State
  <2> QED
    BY <1>4, <2>1, PortalButton
<1>5. CASE Portal!ForgotLink \/ Portal!BackToSignIn \/ Portal!CancelChange \/ Portal!ProfileChange
  BY <1>2, <1>5 DEF Portal!ForgotLink, Portal!BackToSignIn, Portal!CancelChange, Portal!ProfileChange
<1>6. CASE Portal!ShowProfile \/ Portal!CloseProfile
  BY <1>4, <1>6 DEF Portal!ShowProfile, Portal!CloseProfile
<1> QED
  BY <1>3, <1>5, <1>6

\* An answer other than the one to who is signed in: it leaves a page that knows its
\* user, or it changes nothing of the user and the cookie.
LEMMA PortalHandled ==
  ASSUME PortalInv, NEW i \in DOMAIN net, net[i].op \notin {"me", "body"}, NEW p \in Portal!State,
         Portal!Render(p, Rest(i)) \/ (page' = p /\ net' = Rest(i)), p.cookie = page.cookie,
         rows' = rows, lag' \in BOOLEAN, lag => lag',
         ~(net[i].op = "change" /\ net[i].ans = Done),
         ~lag' => \/ p.user = page.user
                  \/ net[i].op # "reset" /\ p.user # "undefined" /\ UserIsOfCookie(p)
  PROVE  PortalInv'
<1>1. PortalNet(net) /\ PortalNet(Rest(i))
  BY PortalRest DEF PortalInv
<1>2. ASSUME ~lag'
      PROVE  CookieIsOfTheLast(Rest(i), p) /\ AsksOnce(Rest(i), p) /\ StampHasReason(Rest(i), p, rows)
  <2>1. CookieIsOfTheLast(net, page) /\ AsksOnce(net, page) /\ StampHasReason(net, page, rows)
    BY <1>2 DEF PortalInv
  <2>2. /\ CookieIsOfTheLast(Rest(i), page) /\ AsksOnce(Rest(i), page)
        /\ StampHasReason(Rest(i), page, rows)
    BY <1>1, <2>1, PortalRest
  <2>3. StampHasReason(Rest(i), p, rows)
    BY <2>2 DEF StampHasReason
  <2>4. CASE p.user = page.user
    <3>1. CookieIsOfTheLast(Rest(i), p)
      BY <2>2, <2>4, SameRead
    <3> QED
      BY <2>2, <2>3, <2>4, <3>1 DEF AsksOnce
  <2>5. CASE net[i].op # "reset" /\ p.user # "undefined" /\ UserIsOfCookie(p)
    <3>1. \A j \in DOMAIN net : net[j].op # "me"
      BY <2>1, <2>5 DEF AsksOnce
    <3>2. \A j \in DOMAIN Rest(i) : Rest(i)[j].op # "me"
      BY <1>1, <3>1, PortalRest
    <3>3. CookieIsOfTheLast(Rest(i), p)
      BY <2>2, <2>5 DEF CookieIsOfTheLast
    <3> QED
      BY <2>3, <2>5, <3>2, <3>3 DEF AsksOnce
  <2> QED
    BY <1>2, <2>4, <2>5
<1>3. /\ page' \in Portal!State /\ PortalNet(net')
      /\ ~lag' => /\ CookieIsOfTheLast(net', page') /\ AsksOnce(net', page')
                  /\ StampHasReason(net', page', rows)
  BY <1>1, <1>2, PortalRender
<1> QED
  BY <1>3 DEF PortalInv

\* A body has been read: of an answer that none overtook, the page takes the user
\* of the cookie that came with it.
LEMMA PortalRead ==
  ASSUME PortalInv, NEW i \in DOMAIN net, net[i].op = "body", NEW p \in Portal!State,
         Portal!Render(p, Rest(i)), p.cookie = page.cookie, p.user # "undefined",
         rows' = rows, lag' \in BOOLEAN, lag => lag', net[i].late => lag',
         ~lag' /\ p.cookie = Portal!Brings(net[i].arg, net[i].ans) => UserIsOfCookie(p)
  PROVE  PortalInv'
<1>1. PortalNet(net) /\ PortalNet(Rest(i))
  BY PortalRest DEF PortalInv
<1>2. ASSUME ~lag'
      PROVE  CookieIsOfTheLast(Rest(i), p) /\ AsksOnce(Rest(i), p) /\ StampHasReason(Rest(i), p, rows)
  <2>1. /\ CookieIsOfTheLast(net, page) /\ AsksOnce(net, page) /\ StampHasReason(net, page, rows)
        /\ ~net[i].late
    BY <1>2 DEF PortalInv
  <2>2. StampHasReason(Rest(i), p, rows)
    <3>1. StampHasReason(Rest(i), page, rows)
      BY <1>1, <2>1, PortalRest
    <3> QED
      BY <3>1 DEF StampHasReason
  <2>3. AsksOnce(Rest(i), p)
    <3>1. \A j \in DOMAIN net : net[j].op # "me"
      BY <2>1 DEF AsksOnce
    <3>2. \A j \in DOMAIN Rest(i) : Rest(i)[j].op # "me"
      BY <1>1, <3>1, PortalRest
    <3> QED
      BY <3>2 DEF AsksOnce
  <2>4. net \in Seq(CallOf(PortalKinds, PortalArgs, PortalAnswers))
    BY <1>1 DEF PortalNet
  <2>5. Len(net) \in Nat /\ i \in 1 .. Len(net) /\ DOMAIN net = 1 .. Len(net)
    BY <2>4
  <2>6. /\ DOMAIN Rest(i) = 1 .. Len(net) - 1
        /\ \A j \in 1 .. Len(net) - 1 :
             /\ Before(i, j) \in DOMAIN net
             /\ Rest(i)[j].op = net[Before(i, j)].op /\ Rest(i)[j].arg = net[Before(i, j)].arg
             /\ Rest(i)[j].ans = net[Before(i, j)].ans
             /\ Rest(i)[j].late <=> net[Before(i, j)].late \/ (j < i /\ net[Before(i, j)].op = net[i].op)
    <3>1. \A j \in 1 .. Len(net) - 1 : Before(i, j) \in DOMAIN net
      BY <2>5, BeforeFacts
    <3> QED
      BY <2>4, <3>1, RestFacts
  <2>7. \A j : Reading(Rest(i), j) => /\ j \in 1 .. Len(net) - 1 /\ Reading(net, Before(i, j))
                                      /\ Rest(i)[j].late <=> net[Before(i, j)].late \/ j < i
    BY <2>6 DEF Reading
  <2>8. \A k : Reading(net, k) /\ k # i =>
          \E j \in 1 .. Len(net) - 1 : Before(i, j) = k /\ Reading(Rest(i), j)
    <3>1. ASSUME NEW k, Reading(net, k), k # i
          PROVE  \E j \in 1 .. Len(net) - 1 : Before(i, j) = k /\ Reading(Rest(i), j)
      <4>1. k \in 1 .. Len(net)
        BY <2>5, <3>1 DEF Reading
      <4>2. PICK j \in 1 .. Len(net) - 1 : Before(i, j) = k
        BY <2>5, <3>1, <4>1, BeforeOnto
      <4> QED
        BY <2>6, <3>1, <4>2 DEF Reading
    <3> QED
      BY <3>1
  <2>9. Reading(net, i)
    BY DEF Reading
  <2>10. ASSUME NEW j, NEW k, Reading(Rest(i), j), Reading(Rest(i), k), j < k, Rest(i)[k].late
         PROVE  Rest(i)[j].late
    <3>1. /\ j \in 1 .. Len(net) - 1 /\ k \in 1 .. Len(net) - 1
          /\ Reading(net, Before(i, j)) /\ Reading(net, Before(i, k))
          /\ net[Before(i, k)].late \/ k < i
          /\ net[Before(i, j)].late \/ j < i => Rest(i)[j].late
      BY <2>7, <2>10
    <3>2. CASE j < i
      BY <3>1, <3>2
    <3>3. CASE ~(j < i)
      <4>1. ~(k < i) /\ Before(i, j) < Before(i, k)
        BY <2>5, <2>10, <3>1, <3>3 DEF Before
      <4>2. net[Before(i, k)].late
        BY <3>1, <4>1
      <4>3. net[Before(i, j)].late
        BY <2>1, <3>1, <4>1, <4>2 DEF CookieIsOfTheLast
      <4> QED
        BY <3>1, <4>3
    <3> QED
      BY <3>2, <3>3
  <2>11. ASSUME NEW j, Reading(Rest(i), j), ~Rest(i)[j].late,
                \A k : Reading(Rest(i), k) => k <= j
         PROVE  p.cookie = Portal!Brings(Rest(i)[j].arg, Rest(i)[j].ans)
    <3>1. /\ j \in 1 .. Len(net) - 1 /\ Reading(net, Before(i, j))
          /\ ~net[Before(i, j)].late /\ ~(j < i)
      BY <2>7, <2>11
    <3>2. ASSUME NEW k, Reading(net, k)
          PROVE  k <= Before(i, j)
      <4>1. CASE k = i
        BY <2>5, <3>1, <4>1 DEF Before
      <4>2. CASE k # i
        <5>1. PICK l \in 1 .. Len(net) - 1 : Before(i, l) = k /\ Reading(Rest(i), l)
          BY <2>8, <3>2, <4>2
        <5>2. l <= j
          BY <2>11, <5>1
        <5> QED
          BY <2>5, <3>1, <5>1, <5>2 DEF Before
      <4> QED
        BY <4>1, <4>2
    <3>3. page.cookie = Portal!Brings(net[Before(i, j)].arg, net[Before(i, j)].ans)
      BY <2>1, <3>1, <3>2 DEF CookieIsOfTheLast
    <3>4. Rest(i)[j].arg = net[Before(i, j)].arg /\ Rest(i)[j].ans = net[Before(i, j)].ans
      BY <2>6, <3>1
    <3> QED
      BY <3>3, <3>4
  <2>12. ASSUME \A j : Reading(Rest(i), j) => Rest(i)[j].late
         PROVE  UserIsOfCookie(p)
    <3>1. ASSUME NEW k, Reading(net, k)
          PROVE  k <= i
      <4>1. SUFFICES ASSUME ~(k <= i) PROVE FALSE
        OBVIOUS
      <4>2. k \in 1 .. Len(net) /\ k # i /\ i < k
        BY <2>5, <3>1, <4>1 DEF Reading
      <4>3. PICK j \in 1 .. Len(net) - 1 : Before(i, j) = k /\ Reading(Rest(i), j)
        BY <2>8, <3>1, <4>2
      <4>4. ~(j < i)
        BY <2>5, <4>2, <4>3 DEF Before
      <4>5. net[k].late
        BY <2>7, <2>12, <4>3, <4>4
      <4> QED
        BY <2>1, <2>9, <3>1, <4>2, <4>5 DEF CookieIsOfTheLast
    <3>2. page.cookie = Portal!Brings(net[i].arg, net[i].ans)
      BY <2>1, <2>9, <3>1 DEF CookieIsOfTheLast
    <3> QED
      BY <1>2, <3>2
  <2>13. CookieIsOfTheLast(Rest(i), p)
    BY <2>10, <2>11, <2>12 DEF CookieIsOfTheLast
  <2> QED
    BY <2>2, <2>3, <2>13
<1>3. /\ page' \in Portal!State /\ PortalNet(net')
      /\ ~lag' => /\ CookieIsOfTheLast(net', page') /\ AsksOnce(net', page')
                  /\ StampHasReason(net', page', rows)
  BY <1>1, <1>2, PortalRender
<1> QED
  BY <1>3 DEF PortalInv

\* A form whose request failed.
LEMMA PortalRefused ==
  ASSUME PortalInv, NEW i \in DOMAIN net, Portal!Refused(i)
  PROVE  PortalInv'
<1> DEFINE p == IF net[i].gone THEN page ELSE [page EXCEPT !.busy = FALSE]
<1>1. p \in Portal!State /\ p.user = page.user /\ p.cookie = page.cookie
  <2>1. page \in Portal!State
    BY DEF PortalInv
  <2>2. CASE net[i].gone
    BY <2>1, <2>2
  <2>3. CASE ~net[i].gone
    <3>1. p = [page EXCEPT !.busy = FALSE]
      BY <2>3
    <3> HIDE DEF p
    <3> QED
      BY <2>1, <3>1 DEF Portal!State
  <2> QED
    BY <2>2, <2>3
<1>2. page' = p /\ net' = Rest(i) /\ net[i].ans # Done /\ rows' = rows /\ lag' = lag
  BY PortalCalls, AnswersAssumption DEF Portal!Refused, Portal!Take
<1>3. lag' \in BOOLEAN /\ net[i].op \notin {"me", "body"}
  BY <1>2 DEF PortalInv, Portal!Refused, Portal!Answered, Portal!Forms
<1> HIDE DEF p
<1> QED
  BY <1>1, <1>2, <1>3, PortalHandled

\* The headers have come: the browser has another cookie.
LEMMA HeadersInv ==
  ASSUME PortalInv, NEW i \in DOMAIN net, Portal!Headers(i)
  PROVE  PortalInv'
<1> DEFINE op == net[i].op
           ans == net[i].ans
           c == [Call("body", net[i].op) EXCEPT !.ans = net[i].ans, !.gone = net[i].gone]
<1>1. /\ op \in Landing /\ ans \notin {Waiting, Failed} /\ rows' = rows
      /\ page' = [page EXCEPT !.cookie = Portal!Brings(op, ans)]
      /\ net' = Append(Rest(i), c)
      /\ lag' = (lag \/ (op = "login" /\ ans # Portal!Says))
  BY PortalCalls DEF Portal!Headers, Portal!Answered, Landing
<1>2. page \in Portal!State /\ PortalNet(net) /\ PortalNet(Rest(i)) /\ lag' \in BOOLEAN
  BY <1>1, PortalRest DEF PortalInv
<1>3. net[i] \in CallOf(PortalKinds, PortalArgs, PortalAnswers)
  BY <1>2 DEF PortalNet
<1>4. op \in PortalArgs /\ ans \in PortalAnswers /\ net[i].gone \in BOOLEAN
  BY <1>1, <1>3 DEF CallOf, PortalArgs, Landing
<1>5. /\ c \in CallOf(PortalKinds, PortalArgs, PortalAnswers)
      /\ c.op = "body" /\ c.arg = op /\ c.ans = ans /\ ~c.late
  <2>1. "body" \in PortalKinds
    BY DEF PortalKinds
  <2> HIDE DEF op, ans
  <2> QED
    BY <1>4, <2>1 DEF c, op, ans, Call, CallOf
<1>6. /\ op = "login" => ans \in {"must", "in"}
      /\ Portal!Brings(op, ans) \in {"none", "stamped", "clean"}
      /\ Portal!Brings(op, ans) = "stamped" => op = "login" /\ ans = "must"
  <2>1. op = "login" => ans \in {"must", "in"}
    BY <1>1, PortalAnswered
  <2> QED
    BY <1>1, <2>1 DEF Portal!Brings, Landing
<1> HIDE DEF c, op, ans
<1>7. page' \in Portal!State /\ page'.user = page.user /\ page'.cookie = Portal!Brings(op, ans)
  BY <1>1, <1>2, <1>6 DEF Portal!State
<1> DEFINE s == Rest(i)
<1>8. s \in Seq(CallOf(PortalKinds, PortalArgs, PortalAnswers)) /\ net' = Append(s, c)
  BY <1>1, <1>2 DEF PortalNet
<1> HIDE DEF s
<1>9. /\ net' \in Seq(CallOf(PortalKinds, PortalArgs, PortalAnswers)) /\ Len(s) \in Nat
      /\ DOMAIN s = 1 .. Len(s) /\ DOMAIN net' = 1 .. Len(s) + 1
      /\ net'[Len(s) + 1] = c /\ \A j \in DOMAIN s : net'[j] = s[j]
  BY <1>5, <1>8, AppendFacts
<1>10. \A j \in DOMAIN net' : net'[j] = c \/ (j \in DOMAIN s /\ net'[j] = s[j])
  BY <1>9
<1>11. PortalNet(net')
  <2>1. \A j \in DOMAIN s : /\ s[j].op \in {"me", "login"} => s[j].ans # Done
                            /\ s[j].op = "body" => s[j].ans \notin {Waiting, Failed}
                            /\ s[j].op = "body" /\ s[j].arg = "login" => s[j].ans # Done
    BY <1>2 DEF PortalNet, s
  <2>2. c.arg = "login" => c.ans # Done
    BY <1>5, <1>6, AnswersAssumption
  <2>3. c.ans \notin {Waiting, Failed}
    BY <1>1, <1>5
  <2>4. ASSUME NEW j \in DOMAIN net'
        PROVE  /\ net'[j].op \in {"me", "login"} => net'[j].ans # Done
               /\ net'[j].op = "body" => net'[j].ans \notin {Waiting, Failed}
               /\ net'[j].op = "body" /\ net'[j].arg = "login" => net'[j].ans # Done
    <3>1. CASE net'[j] = c
      BY <1>5, <2>2, <2>3, <3>1
    <3>2. CASE j \in DOMAIN s /\ net'[j] = s[j]
      BY <2>1, <3>2
    <3> QED
      BY <1>10, <3>1, <3>2
  <2> QED
    BY <1>9, <2>4 DEF PortalNet
<1>12. ASSUME ~lag'
       PROVE  /\ CookieIsOfTheLast(net', page') /\ AsksOnce(net', page')
              /\ StampHasReason(net', page', rows)
  <2>1. /\ CookieIsOfTheLast(net, page) /\ AsksOnce(net, page)
        /\ op = "login" => ans = Portal!Says
    BY <1>1, <1>12 DEF PortalInv
  <2>2. page.user # "undefined" /\ \A j \in DOMAIN net : net[j].op # "me"
    BY <1>1, <2>1 DEF AsksOnce, Landing, op
  <2>3. \A j \in DOMAIN s : s[j].op # "me"
    BY <1>2, <2>2, PortalRest DEF s
  <2>4. AsksOnce(net', page')
    <3>1. \A j \in DOMAIN net' : net'[j].op # "me"
      BY <1>5, <1>10, <2>3
    <3> QED
      BY <1>7, <2>2, <3>1 DEF AsksOnce
  <2>5. StampHasReason(net', page', rows)
    BY <1>6, <1>7, <2>1 DEF StampHasReason, Portal!Says
  <2>6. CookieIsOfTheLast(s, page)
    <3>1. net[i].op # "body"
      BY <1>1 DEF op, Landing
    <3> QED
      BY <1>2, <2>1, <3>1, PortalRest DEF s
  <2>7. \A j : Reading(net', j) <=> Reading(s, j) \/ j = Len(s) + 1
    BY <1>5, <1>9 DEF Reading
  <2>8. \A j : Reading(s, j) => j \in 1 .. Len(s) /\ net'[j] = s[j]
    BY <1>9 DEF Reading
  <2>9. ASSUME NEW j, NEW k, Reading(net', j), Reading(net', k), j < k, net'[k].late
        PROVE  net'[j].late
    <3>1. k # Len(s) + 1
      BY <1>5, <1>9, <2>9
    <3>2. Reading(s, k) /\ k \in 1 .. Len(s)
      BY <2>7, <2>8, <2>9, <3>1
    <3>3. Reading(s, j)
      BY <1>9, <2>7, <2>9, <3>2
    <3> QED
      BY <2>6, <2>8, <2>9, <3>2, <3>3 DEF CookieIsOfTheLast
  <2>10. ASSUME NEW j, Reading(net', j), ~net'[j].late, \A k : Reading(net', k) => k <= j
         PROVE  page'.cookie = Portal!Brings(net'[j].arg, net'[j].ans)
    <3>1. Len(s) + 1 <= j
      BY <2>7, <2>10
    <3>2. j = Len(s) + 1
      <4>1. j \in 1 .. Len(s) + 1
        BY <1>9, <2>10 DEF Reading
      <4> QED
        BY <1>9, <3>1, <4>1
    <3> QED
      BY <1>5, <1>7, <1>9, <3>2
  <2>11. ~(\A j : Reading(net', j) => net'[j].late)
    BY <1>5, <1>9, <2>7
  <2>12. CookieIsOfTheLast(net', page')
    BY <2>9, <2>10, <2>11 DEF CookieIsOfTheLast
  <2> QED
    BY <2>4, <2>5, <2>12
<1> QED
  BY <1>1, <1>2, <1>7, <1>11, <1>12 DEF PortalInv

\* What is read of a body.
LEMMA PortalBody ==
  ASSUME PortalInv, NEW i, NEW op, Portal!BodyOf(i, op)
  PROVE  /\ i \in DOMAIN net /\ net[i].op = "body" /\ net[i].arg = op
         /\ op = "login" => net[i].ans \in {"must", "in"}
         /\ Portal!Idle(i) \in Portal!State /\ Portal!Idle(i).user = page.user
         /\ Portal!Idle(i).cookie = page.cookie
<1>1. i \in DOMAIN net /\ net[i].op = "body" /\ net[i].arg = op
  BY DEF Portal!BodyOf, Portal!Answered
<1>2. page \in Portal!State /\ net[i] \in CallOf(PortalKinds, PortalArgs, PortalAnswers)
  BY <1>1 DEF PortalInv, PortalNet
<1>3. net[i].ans \in PortalAnswers /\ net[i].ans \notin {Waiting, Failed}
  BY <1>1, <1>2 DEF CallOf, PortalInv, PortalNet
<1>4. op = "login" => net[i].ans # Done
  BY <1>1 DEF PortalInv, PortalNet
<1>5. [page EXCEPT !.busy = FALSE] \in Portal!State
  BY <1>2 DEF Portal!State
<1> QED
  BY <1>1, <1>2, <1>3, <1>4, <1>5 DEF Portal!Idle, Portal!State, PortalAnswers

LEMMA LoggedInInv ==
  ASSUME PortalInv, NEW i \in DOMAIN net, Portal!LoggedIn(i)
  PROVE  PortalInv'
<1>1. PICK user \in {net[i].ans, "in"} :
        /\ Portal!Render([Portal!Idle(i) EXCEPT !.user = user], Rest(i))
        /\ lag' = (lag \/ net[i].late \/ user # net[i].ans)
  BY PortalCalls DEF Portal!LoggedIn
<1>2. Portal!BodyOf(i, "login") /\ rows' = rows /\ lag \in BOOLEAN
  BY DEF Portal!LoggedIn, PortalInv
<1> DEFINE op == "login"
           q == Portal!Idle(i)
           p == [q EXCEPT !.user = user]
<1>3. Portal!BodyOf(i, op) /\ op = "login"
  BY <1>2
<1> HIDE DEF op
<1>4. /\ net[i].op = "body" /\ net[i].arg = "login" /\ net[i].ans \in {"must", "in"}
      /\ q \in Portal!State /\ q.cookie = page.cookie
  BY <1>3, PortalBody
<1>5. Portal!Render(p, Rest(i))
  BY <1>1
<1> HIDE DEF q
<1>6. p \in Portal!State /\ p.user = user /\ p.cookie = page.cookie /\ user \in {"must", "in"}
  BY <1>1, <1>4 DEF Portal!State
<1> HIDE DEF p
<1>7. ASSUME ~lag', p.cookie = Portal!Brings(net[i].arg, net[i].ans)
      PROVE  UserIsOfCookie(p)
  <2>1. user = net[i].ans /\ p.cookie = (IF user = "must" THEN "stamped" ELSE "clean")
    BY <1>1, <1>4, <1>7 DEF Portal!Brings
  <2> QED
    BY <1>6, <2>1 DEF UserIsOfCookie
<1>8. lag' \in BOOLEAN /\ (lag => lag') /\ (net[i].late => lag') /\ p.user # "undefined"
  BY <1>1, <1>2, <1>6
<1> QED
  BY <1>2, <1>4, <1>5, <1>6, <1>7, <1>8, PortalRead

LEMMA MailSentOrResetInv ==
  ASSUME PortalInv, NEW i \in DOMAIN net, Portal!MailSentOrReset(i)
  PROVE  PortalInv'
<1>1. /\ net[i].op \in {"forgot", "reset"} /\ rows' = rows /\ lag' = lag
      /\ page \in Portal!State /\ lag' \in BOOLEAN
  BY DEF PortalInv, Portal!MailSentOrReset, Portal!Answered
<1> DEFINE p == IF net[i].gone THEN page ELSE [page EXCEPT !.busy = FALSE, !.done = TRUE]
<1>2. page' = p /\ net' = Rest(i)
  BY PortalCalls DEF Portal!MailSentOrReset, Portal!Take
<1>3. p \in Portal!State /\ p.user = page.user /\ p.cookie = page.cookie
  BY <1>1 DEF Portal!State
<1> HIDE DEF p
<1> QED
  BY <1>1, <1>2, <1>3, PortalHandled

LEMMA ChangedInv ==
  ASSUME PortalInv, NEW i \in DOMAIN net, Portal!Changed(i)
  PROVE  PortalInv'
<1>1. /\ Portal!BodyOf(i, "change") /\ rows' = rows /\ lag \in BOOLEAN
      /\ Portal!Render([Portal!Idle(i) EXCEPT !.user = "in", !.view = "login"], Rest(i))
      /\ lag' = (lag \/ net[i].late)
  BY PortalCalls DEF Portal!Changed, PortalInv
<1> DEFINE op == "change"
           q == Portal!Idle(i)
           p == [q EXCEPT !.user = "in", !.view = "login"]
<1>2. Portal!BodyOf(i, op) /\ op = "change" /\ Portal!Render(p, Rest(i))
  BY <1>1
<1> HIDE DEF op
<1>3. /\ net[i].op = "body" /\ net[i].arg = "change"
      /\ q \in Portal!State /\ q.cookie = page.cookie
  BY <1>2, PortalBody
<1> HIDE DEF q
<1>4. p \in Portal!State /\ p.user = "in" /\ p.cookie = page.cookie
  BY <1>3 DEF Portal!State
<1> HIDE DEF p
<1>5. p.cookie = Portal!Brings(net[i].arg, net[i].ans) => UserIsOfCookie(p)
  BY <1>3, <1>4 DEF UserIsOfCookie, Portal!Brings
<1>6. lag' \in BOOLEAN /\ (lag => lag') /\ (net[i].late => lag') /\ p.user # "undefined"
  BY <1>1, <1>4
<1> QED
  BY <1>1, <1>2, <1>3, <1>4, <1>5, <1>6, PortalRead

LEMMA LoggedOutInv ==
  ASSUME PortalInv, NEW i \in DOMAIN net, Portal!LoggedOut(i)
  PROVE  PortalInv'
<1>1. rows' = rows /\ page \in Portal!State /\ lag \in BOOLEAN
  BY DEF PortalInv, Portal!LoggedOut
<1> DEFINE out == [page EXCEPT !.user = "null", !.view = "login"]
<1>2. out \in Portal!State /\ out.user = "null" /\ out.cookie = page.cookie
  BY <1>1 DEF Portal!State
<1>3. \/ Portal!BodyOf(i, "logout") /\ Portal!Render(out, Rest(i)) /\ lag' = (lag \/ net[i].late)
      \/ /\ net[i].op = "logout" /\ Portal!Render(out, Rest(i))
         /\ lag' = (lag \/ page.cookie # "none")
      \/ net[i].op = "logout" /\ page' = page /\ net' = Rest(i) /\ lag' = lag
  BY PortalCalls DEF Portal!LoggedOut, Portal!Take, Portal!Answered
<1> HIDE DEF out
<1>4. CASE Portal!BodyOf(i, "logout") /\ Portal!Render(out, Rest(i)) /\ lag' = (lag \/ net[i].late)
  <2> DEFINE op == "logout"
  <2>1. Portal!BodyOf(i, op) /\ op = "logout"
    BY <1>4
  <2> HIDE DEF op
  <2>2. net[i].op = "body" /\ net[i].arg = "logout"
    BY <2>1, PortalBody
  <2>3. out.cookie = Portal!Brings(net[i].arg, net[i].ans) => UserIsOfCookie(out)
    BY <1>2, <2>2 DEF UserIsOfCookie, Portal!Brings
  <2>4. lag' \in BOOLEAN /\ (lag => lag') /\ (net[i].late => lag') /\ out.user # "undefined"
    BY <1>1, <1>2, <1>4
  <2> QED
    BY <1>1, <1>2, <1>4, <2>2, <2>3, <2>4, PortalRead
<1>5. CASE /\ net[i].op = "logout" /\ Portal!Render(out, Rest(i))
           /\ lag' = (lag \/ page.cookie # "none")
  <2>1. /\ ~lag' => UserIsOfCookie(out)
        /\ lag' \in BOOLEAN /\ (lag => lag') /\ out.user # "undefined"
        /\ net[i].op \notin {"me", "body", "reset", "change"}
    BY <1>1, <1>2, <1>5 DEF UserIsOfCookie
  <2> QED
    BY <1>1, <1>2, <1>5, <2>1, PortalHandled
<1>6. CASE net[i].op = "logout" /\ page' = page /\ net' = Rest(i) /\ lag' = lag
  BY <1>1, <1>6, PortalHandled
<1> QED
  BY <1>3, <1>4, <1>5, <1>6

\* The backend answers a request.
LEMMA PortalReplied ==
  ASSUME PortalInv, NEW i \in DOMAIN net, net[i].ans = Waiting,
         NEW ans \in PortalAnswers, Reply(i, ans), page' = page,
         rows' \in [must : BOOLEAN, link : BOOLEAN], lag' \in BOOLEAN, lag => lag',
         net[i].op \in {"me", "login"} => ans # Done,
         ~lag' => /\ net[i].op = "me" => /\ ans = "in" => page.cookie = "clean"
                                         /\ ans = "must" => page.cookie # "none"
                  /\ rows'.must \/ ~rows.must \/ page.cookie # "stamped"
                       \/ (net[i].op = "change" /\ ans = Done)
  PROVE  PortalInv'
<1>1. net \in Seq(CallOf(PortalKinds, PortalArgs, PortalAnswers))
  BY DEF PortalInv, PortalNet
<1>2. /\ net' \in Seq(CallOf(PortalKinds, PortalArgs, PortalAnswers)) /\ DOMAIN net' = DOMAIN net
      /\ net'[i].op = net[i].op /\ net'[i].arg = net[i].arg /\ net'[i].ans = ans
      /\ \A j \in DOMAIN net \ {i} : net'[j] = net[j]
  BY <1>1, ReplyFacts
<1>3. \A j \in DOMAIN net : net'[j].op = net[j].op /\ net'[j].arg = net[j].arg
  BY <1>2
<1>4. net[i].op # "body"
  BY DEF PortalInv, PortalNet
<1>5. PortalNet(net')
  BY <1>2, <1>4 DEF PortalInv, PortalNet
<1>6. ~lag' => CookieIsOfTheLast(net', page')
  <2>1. ASSUME ~lag'
        PROVE  CookieIsOfTheLast(net', page')
    <3>1. CookieIsOfTheLast(net, page)
      BY <2>1 DEF PortalInv
    <3>2. \A j \in DOMAIN net :
            /\ net'[j].op = "body" <=> net[j].op = "body"
            /\ net[j].op = "body" =>
                 net'[j].arg = net[j].arg /\ net'[j].ans = net[j].ans /\ net'[j].late = net[j].late
      BY <1>2, <1>3, <1>4
    <3> QED
      BY <1>2, <3>1, <3>2, SameRead
  <2> QED
    BY <2>1
<1>7. ASSUME ~lag'
      PROVE  AsksOnce(net', page) /\ StampHasReason(net', page, rows')
  <2>1. AsksOnce(net, page) /\ StampHasReason(net, page, rows)
    BY <1>7 DEF PortalInv
  <2>2. AsksOnce(net', page)
    BY <1>2, <1>3, <1>7, <2>1 DEF AsksOnce
  <2>3. ASSUME NEW j \in DOMAIN net, net[j].op = "change", net[j].ans = Done
        PROVE  net'[j].op = "change" /\ net'[j].ans = Done
    BY <1>2, <2>3, AnswersAssumption
  <2>4. StampHasReason(net', page, rows')
    BY <1>2, <1>7, <2>1, <2>3 DEF StampHasReason
  <2> QED
    BY <2>2, <2>4
<1>8. page' \in Portal!State
  BY DEF PortalInv
<1> QED
  BY <1>7, <1>8, <1>5, <1>6 DEF PortalInv

LEMMA PortalServeInv ==
  ASSUME PortalInv, NEW i \in DOMAIN net,
         \/ Portal!ServeMe(i) \/ Portal!ServeLogin(i) \/ Portal!ServeLogout(i)
         \/ Portal!ServeChange(i) \/ Portal!ServeForgot(i) \/ Portal!ServeReset(i)
  PROVE  PortalInv'
<1>1. /\ page \in Portal!State /\ rows \in [must : BOOLEAN, link : BOOLEAN] /\ lag \in BOOLEAN
      /\ Portal!Says \in {"must", "in"} /\ (Portal!Says = "must" <=> rows.must)
      /\ {"must", "in", Done, Failed} \subseteq PortalAnswers
  BY DEF PortalInv, Portal!Says, PortalAnswers
<1>2. Done # Failed /\ Done \notin {"must", "in"} /\ Failed \notin {"must", "in"}
  BY AnswersAssumption
\* One that changes nothing but the answer.
<1>3. ASSUME NEW op, NEW ans \in {Portal!Says, Failed, Done},
             Portal!Sent(i, op), Reply(i, ans), rows' = rows, page' = page, lag' = lag,
             op \in {"me", "login"} => ans # Done,
             op = "me" => ans = Failed \/ (ans = Portal!Says /\ net[i].arg # "none")
      PROVE  PortalInv'
  <2>1. net[i].op = op /\ net[i].ans = Waiting
    BY <1>3 DEF Portal!Sent
  <2>2. ASSUME ~lag, op = "me"
        PROVE  /\ ans = "in" => page.cookie = "clean"
               /\ ans = "must" => page.cookie # "none"
    <3>1. /\ net[i].arg = page.cookie
          /\ \A j \in DOMAIN net : net[j].op \in {"me", "reset"}
          /\ StampHasReason(net, page, rows)
      BY <2>1, <2>2 DEF PortalInv, AsksOnce
    <3>2. page.cookie = "stamped" => rows.must
      BY <3>1 DEF StampHasReason
    <3>3. page.cookie \in {"none", "stamped", "clean"}
      BY <1>1 DEF Portal!State
    <3> QED
      BY <1>1, <1>2, <1>3, <2>2, <3>1, <3>2, <3>3
  <2>3. ans \in PortalAnswers
    BY <1>1, <1>3
  <2> QED
    BY <1>1, <1>3, <2>1, <2>2, <2>3, PortalReplied
\* One that is carried out.
<1>4. ASSUME NEW op \in {"change", "forgot", "reset"}, NEW ans \in {Done, Failed},
             Portal!Sent(i, op), Reply(i, ans), page' = page,
             rows' \in [must : BOOLEAN, link : BOOLEAN], lag' \in BOOLEAN, lag => lag',
             \/ lag' \/ rows'.must = rows.must \/ page.cookie # "stamped"
             \/ op = "change" /\ ans = Done
      PROVE  PortalInv'
  <2>1. net[i].op = op /\ net[i].ans = Waiting
    BY <1>4 DEF Portal!Sent
  <2>2. ans \in PortalAnswers
    BY <1>1, <1>4
  <2> QED
    BY <1>4, <2>1, <2>2, PortalReplied
<1>5. ASSUME NEW op \in {"change", "forgot", "reset"},
             NEW new \in [must : BOOLEAN, link : BOOLEAN], new.must = rows.must \/ op = "change",
             Portal!ServeWrite(i, op, new, Done)
      PROVE  PortalInv'
  <2>1. /\ Portal!Sent(i, op) /\ page' = page
        /\ \/ rows' = new /\ Reply(i, Done) /\ lag' = lag
           \/ rows' = new /\ Reply(i, Failed) /\ lag' = TRUE
           \/ rows' = rows /\ Reply(i, Failed) /\ lag' = lag
    BY <1>5, PortalCalls DEF Portal!ServeWrite
  <2>2. CASE rows' = new /\ Reply(i, Done) /\ lag' = lag
    BY <1>1, <1>4, <1>5, <2>1, <2>2
  <2>3. CASE rows' = new /\ Reply(i, Failed) /\ lag' = TRUE
    BY <1>1, <1>4, <1>5, <2>1, <2>3
  <2>4. CASE rows' = rows /\ Reply(i, Failed) /\ lag' = lag
    BY <1>1, <1>4, <1>5, <2>1, <2>4
  <2> QED
    BY <2>1, <2>2, <2>3, <2>4
<1>6. CASE Portal!ServeMe(i)
  BY <1>1, <1>2, <1>3, <1>6, PortalCalls
  DEF Portal!ServeMe, Portal!ServeRead, Portal!ServeRefusal
<1>7. CASE Portal!ServeLogin(i)
  BY <1>1, <1>2, <1>3, <1>7, PortalCalls DEF Portal!ServeLogin, Portal!ServeRead
<1>8. CASE Portal!ServeLogout(i)
  BY <1>3, <1>8, PortalCalls DEF Portal!ServeLogout, Portal!ServeRead
<1>9. CASE Portal!ServeChange(i)
  <2>1. [rows EXCEPT !.must = FALSE] \in [must : BOOLEAN, link : BOOLEAN]
    BY <1>1
  <2>2. CASE net[i].arg = "none"
    BY <1>3, <1>9, <2>2, PortalCalls DEF Portal!ServeChange, Portal!ServeRefusal
  <2>3. CASE net[i].arg # "none"
    <3>1. Portal!ServeWrite(i, "change", [rows EXCEPT !.must = FALSE], Done)
      BY <1>9, <2>3 DEF Portal!ServeChange
    <3> QED
      BY <1>5, <2>1, <3>1
  <2> QED
    BY <2>2, <2>3
<1>10. CASE Portal!ServeForgot(i)
  <2>1. /\ [rows EXCEPT !.link = TRUE] \in [must : BOOLEAN, link : BOOLEAN]
        /\ [rows EXCEPT !.link = TRUE].must = rows.must
    BY <1>1
  <2> QED
    BY <1>5, <1>10, <2>1 DEF Portal!ServeForgot
<1>11. CASE Portal!ServeReset(i)
  <2>1. [must |-> FALSE, link |-> FALSE] \in [must : BOOLEAN, link : BOOLEAN]
    OBVIOUS
  <2>2. CASE rows.link
    <3> DEFINE stamps == page.cookie = "stamped"
                           \/ \E j \in DOMAIN net : net[j].op = "login" /\ net[j].ans = "must"
    <3>1. /\ Portal!Sent(i, "reset") /\ page' = page
          /\ rows' = [must |-> FALSE, link |-> FALSE] \/ rows' = rows
          /\ Reply(i, Done) \/ Reply(i, Failed)
          /\ lag' = (lag \/ stamps)
      BY <1>11, <2>2, PortalCalls DEF Portal!ServeReset
    <3>2. lag' \in BOOLEAN /\ (lag => lag') /\ (lag' \/ page.cookie # "stamped")
      BY <1>1, <3>1
    <3> HIDE DEF stamps
    <3>3. rows' \in [must : BOOLEAN, link : BOOLEAN]
      BY <1>1, <2>1, <3>1
    <3> QED
      BY <1>4, <3>1, <3>2, <3>3
  <2>3. CASE ~rows.link
    BY <1>3, <1>11, <2>3, PortalCalls DEF Portal!ServeReset, Portal!ServeRefusal
  <2> QED
    BY <2>2, <2>3
<1> QED
  BY <1>6, <1>7, <1>8, <1>9, <1>10, <1>11

\* What is changed elsewhere is a reason for the page to be wrong.
LEMMA PortalElsewhereInv ==
  ASSUME PortalInv, Portal!Elsewhere
  PROVE  PortalInv'
<1>1. page \in Portal!State /\ rows \in [must : BOOLEAN, link : BOOLEAN] /\ PortalNet(net)
  BY DEF PortalInv
<1>2. /\ [rows EXCEPT !.must = TRUE] \in [must : BOOLEAN, link : BOOLEAN]
      /\ [rows EXCEPT !.must = FALSE] \in [must : BOOLEAN, link : BOOLEAN]
      /\ [page EXCEPT !.cookie = "none"] \in Portal!State
  BY <1>1 DEF Portal!State
<1>3. lag' = TRUE /\ net' = net /\ page' \in Portal!State /\ rows' \in [must : BOOLEAN, link : BOOLEAN]
  BY <1>1, <1>2 DEF Portal!Elsewhere, Portal!Foreign
<1> QED
  BY <1>1, <1>3 DEF PortalInv

LEMMA PortalNextInv ==
  ASSUME PortalInv, Portal!Next
  PROVE  PortalInv'
<1>1. ASSUME NEW i \in DOMAIN net,
             \/ Portal!Me(i) \/ Portal!Refused(i) \/ Portal!MailSentOrReset(i)
             \/ Portal!Headers(i) \/ Portal!LoggedIn(i) \/ Portal!Changed(i)
             \/ Portal!LoggedOut(i)
      PROVE  PortalInv'
  BY <1>1, MeInv, PortalRefused, MailSentOrResetInv, HeadersInv, LoggedInInv, ChangedInv,
     LoggedOutInv
<1> QED
  BY <1>1, ReloadInv, PortalFormInv, PortalButtonInv, PortalServeInv, PortalElsewhereInv
  DEF Portal!Next

\* With any number of requests under way, and with their headers and their bodies
\* in any order, the portal shows the dashboard only to a browser whose token opens
\* its tiles, and the login form only to one that has none; but while an answer is
\* half read, and for the reasons lag records.
THEOREM ScreenIsOfTheCookie == FormsSpec => []ScreenMatchesCookie
<1> DEFINE Inv == tab = "portal" => PortalInv
<1>1. FormsInit => Inv
  BY PortalInit DEF FormsInit
<1>2. Inv /\ [FormsNext]_vars => Inv'
  <2> SUFFICES ASSUME Inv, [FormsNext]_vars, tab' = "portal"
               PROVE  PortalInv'
    OBVIOUS
  <2>1. CASE FormsNext
    <3>1. tab = "portal" /\ Portal!Next
      BY <2>1 DEF FormsNext
    <3> QED
      BY <3>1, PortalNextInv
  <2>2. CASE UNCHANGED vars
    BY <2>2 DEF vars, state, PortalInv
  <2> QED
    BY <2>1, <2>2
<1>3. Inv => ScreenMatchesCookie
  <2>1. ASSUME PortalInv
        PROVE  Portal!ScreenMatchesCookie
    <3>1. ~lag /\ (\A i \in DOMAIN net : net[i].op # "body") => UserIsOfCookie(page)
      BY <2>1, NothingRead DEF PortalInv
    <3> QED
      BY <2>1, <3>1, PortalScreens DEF PortalInv, UserIsOfCookie, Portal!ScreenMatchesCookie
  <2> QED
    BY <2>1 DEF ScreenMatchesCookie
<1> QED
  BY <1>1, <1>2, <1>3, PTL DEF FormsSpec

-----------------------------------------------------------------------------
(* The search box in every header: module Palette.                         *)

SearchNet(s) ==
  /\ s \in Seq(CallOf({"search"}, Query, Query \cup {Waiting, Failed}))
  /\ \A i \in DOMAIN s : s[i].gone => s[i].ans = Failed

\* At most one search was not aborted.  It is the one of the query in the box, and
\* the debounce is over.
OneIsMeant(s, p) ==
  /\ \A i \in DOMAIN s :
       ~s[i].gone => ~p.timer /\ s[i].arg = p.query /\ s[i].ans \in {Waiting, Failed, s[i].arg}
  /\ \A i, j \in DOMAIN s : ~s[i].gone /\ ~s[j].gone => i = j

\* A search is still to come, or under way.
Underway(s, p) == p.timer \/ \E i \in DOMAIN s : ~s[i].gone

\* What is shown when none is; and while one is and none was aborted, the box says so.
BoxIsHonest(s, p) ==
  /\ p.timer => p.query # None
  /\ ~Underway(s, p) /\ ~p.failed => p.results = p.query
  /\ Underway(s, p) /\ ~p.aborted => p.loading /\ \A i \in DOMAIN s : ~s[i].gone

SearchInv ==
  page \in Search!State /\ SearchNet(net) /\ OneIsMeant(net, page) /\ BoxIsHonest(net, page)

LEMMA SearchCalls ==
  /\ \A i : Search!Rest(i) = Rest(i)
  /\ \A op, arg : Search!Call(op, arg) = Call(op, arg)
  /\ \A i, ans : Search!Reply(i, ans) <=> Reply(i, ans)
BY DEF Search!Rest, Rest, Search!Call, Call, Search!Reply, Reply

\* With nothing under way.
LEMMA SearchQuiet ==
  ASSUME net' = <<>>, page' = Search!Closed
  PROVE  SearchInv'
<1>1. /\ page' \in Search!State /\ ~page'.timer /\ page'.results = None /\ page'.query = None
      /\ net' \in Seq(CallOf({"search"}, Query, Query \cup {Waiting, Failed})) /\ DOMAIN net' = {}
  BY DEF Search!Closed, Search!State
<1> QED
  BY <1>1 DEF SearchInv, SearchNet, OneIsMeant, BoxIsHonest, Underway

\* The searches under way fail.
LEMMA AbortFacts ==
  ASSUME SearchNet(net), Search!Abort
  PROVE  /\ SearchNet(net') /\ DOMAIN net' = DOMAIN net
         /\ \A i \in DOMAIN net' : net'[i].gone
<1> DEFINE S == CallOf({"search"}, Query, Query \cup {Waiting, Failed})
<1>1. net' = [i \in DOMAIN net |-> [net[i] EXCEPT !.ans = Failed, !.gone = TRUE]]
  BY DEF Search!Abort
<1>2. net \in Seq(S) /\ Len(net) \in Nat /\ DOMAIN net = 1 .. Len(net)
  BY DEF SearchNet
<1>3. ASSUME NEW i \in DOMAIN net
      PROVE  net'[i] \in S /\ net'[i].ans = Failed /\ net'[i].gone
  <2>1. net'[i] = [net[i] EXCEPT !.ans = Failed, !.gone = TRUE]
    BY <1>1
  <2>2. net[i] \in S
    BY <1>2
  <2> QED
    BY <2>1, <2>2 DEF CallOf
<1> HIDE DEF S
<1>4. DOMAIN net' = DOMAIN net /\ net' \in [1 .. Len(net) -> S]
  BY <1>1, <1>2, <1>3
<1>5. net' \in Seq(S)
  BY <1>2, <1>4
<1> QED
  BY <1>2, <1>3, <1>4, <1>5 DEF SearchNet, S

LEMMA SearchTypeInv ==
  ASSUME SearchInv, Search!Type
  PROVE  SearchInv'
<1>1. page \in Search!State /\ SearchNet(net)
  BY DEF SearchInv
<1>2. PICK q \in Query \cup {None} : page' = Search!Searching(q)
  BY DEF Search!Type
<1>3. SearchNet(net') /\ DOMAIN net' = DOMAIN net /\ \A i \in DOMAIN net' : net'[i].gone
  BY <1>1, AbortFacts DEF Search!Type
<1> DEFINE b == page.aborted \/ ~Search!Quiet
           r == IF q = None THEN None ELSE page.results
<1>4. b \in BOOLEAN /\ r \in Query \cup {None} /\ (q # None) \in BOOLEAN
  BY <1>1 DEF Search!State
<1>5. page' = [page EXCEPT !.query = q, !.results = r, !.timer = q # None,
                           !.loading = q # None, !.failed = FALSE, !.aborted = b]
  BY <1>2 DEF Search!Searching
<1>6. /\ page' \in Search!State /\ page'.query = q /\ page'.results = r
      /\ page'.timer <=> q # None
      /\ page'.loading <=> q # None
      /\ page'.aborted <=> b
  <2> HIDE DEF b, r
  <2> QED
    BY <1>1, <1>4, <1>5 DEF Search!State
<1>7. ~b => DOMAIN net' = {}
  BY <1>3 DEF Search!Quiet
<1>8. OneIsMeant(net', page')
  BY <1>3 DEF OneIsMeant
<1>9. BoxIsHonest(net', page')
  <2>1. Underway(net', page') <=> q # None
    BY <1>3, <1>6 DEF Underway
  <2>2. q = None => r = None
    OBVIOUS
  <2> HIDE DEF b, r
  <2> QED
    BY <1>6, <1>7, <2>1, <2>2 DEF BoxIsHonest
<1> QED
  BY <1>3, <1>6, <1>8, <1>9 DEF SearchInv

LEMMA SearchCloseInv ==
  ASSUME SearchInv, Search!Close
  PROVE  SearchInv'
<1>1. /\ page \in Search!State /\ SearchNet(net) /\ OneIsMeant(net, page)
      /\ page' = Search!Closed
  BY DEF SearchInv, Search!Close
<1>2. /\ page' \in Search!State /\ ~page'.timer /\ page'.results = None /\ page'.query = None
  BY <1>1 DEF Search!Closed, Search!State
<1>3. SearchNet(net') /\ \A i \in DOMAIN net' : net'[i].gone
  <2>1. CASE page.query # None
    BY <1>1, <2>1, AbortFacts DEF Search!Close
  <2>2. CASE page.query = None
    <3>1. net' = net
      BY <2>2 DEF Search!Close
    <3>2. ASSUME NEW i \in DOMAIN net PROVE net[i].gone
      <4>1. net[i] \in CallOf({"search"}, Query, Query \cup {Waiting, Failed})
        BY <1>1 DEF SearchNet
      <4>2. net[i].arg \in Query
        BY <4>1 DEF CallOf
      <4> QED
        BY <1>1, <2>2, <4>2, NoneAssumption DEF OneIsMeant
    <3> QED
      BY <1>1, <3>1, <3>2
  <2> QED
    BY <2>1, <2>2
<1>4. OneIsMeant(net', page') /\ BoxIsHonest(net', page')
  BY <1>2, <1>3 DEF OneIsMeant, BoxIsHonest, Underway
<1> QED
  BY <1>2, <1>3, <1>4 DEF SearchInv

LEMMA SearchTimeoutInv ==
  ASSUME SearchInv, Search!Timeout
  PROVE  SearchInv'
<1>1. /\ page \in Search!State /\ SearchNet(net) /\ OneIsMeant(net, page) /\ BoxIsHonest(net, page)
      /\ page.timer /\ page' = [page EXCEPT !.timer = FALSE]
      /\ net' = Append(net, Call("search", page.query))
  BY SearchCalls DEF SearchInv, Search!Timeout, Search!Send
<1>2. /\ page.query \in Query /\ \A i \in DOMAIN net : net[i].gone
  BY <1>1 DEF OneIsMeant, BoxIsHonest, Search!State
<1>3. /\ page' \in Search!State /\ ~page'.timer /\ page'.query = page.query
      /\ page'.aborted = page.aborted /\ page'.loading = page.loading
  BY <1>1 DEF Search!State
<1> DEFINE q == page.query
           c == Call("search", q)
<1>4. /\ c \in CallOf({"search"}, Query, Query \cup {Waiting, Failed})
      /\ c.arg = q /\ c.ans = Waiting /\ ~c.gone
  <2> HIDE DEF q
  <2>1. q \in Query
    BY <1>2 DEF q
  <2> QED
    BY <2>1 DEF Call, CallOf
<1>5. net' = Append(net, c)
  BY <1>1
<1> HIDE DEF c
<1>6. /\ net' \in Seq(CallOf({"search"}, Query, Query \cup {Waiting, Failed}))
      /\ DOMAIN net' = 1 .. Len(net) + 1 /\ DOMAIN net = 1 .. Len(net) /\ Len(net) \in Nat
      /\ net'[Len(net) + 1] = c /\ \A i \in DOMAIN net : net'[i] = net[i]
  BY <1>1, <1>4, <1>5, AppendFacts DEF SearchNet
<1>7. \A i \in DOMAIN net' : \/ i = Len(net) + 1 /\ net'[i] = c
                             \/ i \in DOMAIN net /\ net'[i] = net[i]
  BY <1>6
<1>8. SearchNet(net') /\ OneIsMeant(net', page')
  BY <1>1, <1>2, <1>3, <1>4, <1>6, <1>7 DEF SearchNet, OneIsMeant
<1>9. BoxIsHonest(net', page')
  <2>1. Underway(net', page') /\ Underway(net, page)
    BY <1>1, <1>4, <1>6 DEF Underway
  <2>2. ~page.aborted => page.loading /\ DOMAIN net = {}
    BY <1>1, <1>2, <2>1 DEF BoxIsHonest
  <2> QED
    BY <1>3, <1>4, <1>7, <2>1, <2>2 DEF BoxIsHonest
<1> QED
  BY <1>3, <1>8, <1>9 DEF SearchInv

LEMMA FoundInv ==
  ASSUME SearchInv, NEW i \in DOMAIN net, Search!Found(i)
  PROVE  SearchInv'
<1>1. /\ page \in Search!State /\ SearchNet(net) /\ OneIsMeant(net, page) /\ BoxIsHonest(net, page)
      /\ net[i].ans # Waiting /\ net' = Rest(i)
      /\ Len(net) \in Nat /\ i \in 1 .. Len(net) /\ DOMAIN net = 1 .. Len(net)
  BY SearchCalls DEF SearchInv, SearchNet, Search!Found, Search!Answered, Search!Take
<1>2. /\ net' \in Seq(CallOf({"search"}, Query, Query \cup {Waiting, Failed}))
      /\ DOMAIN net' = 1 .. Len(net) - 1
      /\ \A j \in 1 .. Len(net) - 1 :
           /\ Before(i, j) \in DOMAIN net \ {i}
           /\ net'[j].arg = net[Before(i, j)].arg /\ net'[j].ans = net[Before(i, j)].ans
           /\ net'[j].gone = net[Before(i, j)].gone
  <2>1. \A j \in 1 .. Len(net) - 1 : Before(i, j) \in DOMAIN net \ {i}
    BY <1>1, BeforeFacts
  <2> QED
    BY <1>1, <2>1, RestFacts DEF SearchNet
<1>3. SearchNet(net')
  BY <1>1, <1>2 DEF SearchNet
<1>4. \A j, k \in 1 .. Len(net) - 1 : Before(i, j) = Before(i, k) => j = k
  BY <1>1 DEF Before
<1>5. OneIsMeant(net', page)
  <2>1. ASSUME NEW j \in DOMAIN net', ~net'[j].gone
        PROVE  ~page.timer /\ net'[j].arg = page.query /\ net'[j].ans \in {Waiting, Failed, net'[j].arg}
    BY <1>1, <1>2, <2>1 DEF OneIsMeant
  <2>2. ASSUME NEW j \in DOMAIN net', NEW k \in DOMAIN net', ~net'[j].gone, ~net'[k].gone
        PROVE  j = k
    BY <1>1, <1>2, <1>4, <2>2 DEF OneIsMeant
  <2> QED
    BY <2>1, <2>2 DEF OneIsMeant
\* An aborted one.
<1>6. CASE net[i].gone
  <2>1. page' = [page EXCEPT !.loading = FALSE, !.failed = page.failed \/ FALSE]
    BY <1>1, <1>6 DEF Search!Found, SearchNet
  <2>2. /\ page' \in Search!State /\ page'.timer = page.timer /\ page'.query = page.query
        /\ page'.failed = page.failed /\ page'.results = page.results
        /\ page'.aborted = page.aborted
    <3>1. page \in Search!State
      BY <1>1
    <3>2. page.failed \in BOOLEAN
      BY <3>1 DEF Search!State
    <3>3. page' = [page EXCEPT !.loading = FALSE, !.failed = page.failed]
      BY <2>1, <3>2
    <3>4. page' = [page EXCEPT !.loading = FALSE]
      BY <3>1, <3>3 DEF Search!State
    <3> QED
      BY <3>1, <3>4 DEF Search!State
  <2>3. Underway(net', page') <=> Underway(net, page)
    <3>1. ASSUME NEW k \in DOMAIN net, ~net[k].gone
          PROVE  \E j \in DOMAIN net' : ~net'[j].gone
      <4>1. /\ Len(net) \in Nat /\ i \in 1 .. Len(net)
            /\ k \in 1 .. Len(net) /\ k # i
        BY <1>1, <1>6, <3>1
      <4>2. PICK j \in 1 .. Len(net) - 1 : Before(i, j) = k
        BY <4>1, BeforeOnto
      <4> QED
        BY <1>2, <3>1, <4>2
    <3> QED
      BY <1>2, <2>2, <3>1 DEF Underway
  <2>4. Underway(net, page) => page.aborted
    BY <1>1, <1>6 DEF BoxIsHonest
  <2>5. OneIsMeant(net', page') /\ BoxIsHonest(net', page')
    BY <1>1, <1>5, <2>2, <2>3, <2>4 DEF OneIsMeant, BoxIsHonest
  <2> QED
    BY <1>3, <2>2, <2>5 DEF SearchInv
\* The one that is meant: nothing is under way any more.
<1>7. CASE ~net[i].gone
  <2>1. /\ ~page.timer /\ net[i].arg = page.query /\ net[i].ans \in {Failed, net[i].arg}
        /\ \A j \in DOMAIN net \ {i} : net[j].gone
    BY <1>1, <1>7 DEF OneIsMeant
  <2>2. ~Underway(net', page)
    BY <1>2, <2>1 DEF Underway
  <2>3. /\ page' \in Search!State /\ ~page'.timer /\ page'.query = page.query
        /\ page'.failed \/ page'.results = page'.query
    <3>1. CASE net[i].ans = Failed
      <4>1. page' = [page EXCEPT !.loading = FALSE, !.failed = page.failed \/ TRUE]
        BY <1>7, <3>1 DEF Search!Found
      <4> QED
        BY <1>1, <2>1, <4>1 DEF Search!State
    <3>2. CASE net[i].ans # Failed
      <4>1. page' = [page EXCEPT !.results = page.query, !.loading = FALSE,
                                 !.failed = FALSE, !.aborted = FALSE]
        BY <2>1, <3>2 DEF Search!Found
      <4> QED
        BY <1>1, <2>1, <4>1 DEF Search!State
    <3> QED
      BY <3>1, <3>2
  <2>4. ~Underway(net', page')
    BY <2>1, <2>2, <2>3 DEF Underway
  <2>5. OneIsMeant(net', page') /\ BoxIsHonest(net', page')
    BY <1>5, <2>1, <2>3, <2>4 DEF OneIsMeant, BoxIsHonest
  <2> QED
    BY <1>3, <2>3, <2>5 DEF SearchInv
<1> QED
  BY <1>6, <1>7

LEMMA ServeSearchInv ==
  ASSUME SearchInv, NEW i \in DOMAIN net, Search!ServeSearch(i)
  PROVE  SearchInv'
<1>1. /\ page \in Search!State /\ SearchNet(net) /\ OneIsMeant(net, page) /\ BoxIsHonest(net, page)
      /\ net \in Seq(CallOf({"search"}, Query, Query \cup {Waiting, Failed}))
      /\ net[i].ans = Waiting /\ page' = page
  BY DEF SearchInv, SearchNet, Search!ServeSearch, Search!Sent, Search!ServeRead
<1>2. PICK ans \in {net[i].arg, Failed} : Reply(i, ans)
  BY SearchCalls DEF Search!ServeSearch, Search!ServeRead
<1>3. net[i].arg \in Query /\ ~net[i].gone
  <2>1. net[i] \in CallOf({"search"}, Query, Query \cup {Waiting, Failed})
    BY <1>1
  <2>2. net[i].arg \in Query
    BY <2>1 DEF CallOf
  <2> QED
    BY <1>1, <2>2, AnswersAssumption DEF SearchNet
<1>4. ans \in Query \cup {Waiting, Failed}
  BY <1>2, <1>3
<1>5. /\ net' \in Seq(CallOf({"search"}, Query, Query \cup {Waiting, Failed})) /\ DOMAIN net' = DOMAIN net
      /\ net'[i].arg = net[i].arg /\ net'[i].ans = ans /\ net'[i].gone = net[i].gone
      /\ \A j \in DOMAIN net \ {i} : net'[j] = net[j]
  BY <1>1, <1>2, <1>4, ReplyFacts
<1>6. \A j \in DOMAIN net : net'[j].gone = net[j].gone /\ net'[j].arg = net[j].arg
  BY <1>5
<1>7. SearchNet(net')
  BY <1>1, <1>3, <1>5 DEF SearchNet
<1>8. OneIsMeant(net', page)
  BY <1>1, <1>2, <1>5, <1>6 DEF OneIsMeant
<1>9. BoxIsHonest(net', page)
  BY <1>1, <1>5, <1>6 DEF BoxIsHonest, Underway
<1> QED
  BY <1>1, <1>7, <1>8, <1>9 DEF SearchInv

LEMMA SearchNextInv ==
  ASSUME SearchInv, Search!Next
  PROVE  SearchInv'
<1>1. CASE Search!Open
  <2>1. page' = [page EXCEPT !.open = TRUE] /\ net' = net /\ page \in Search!State
    BY <1>1 DEF Search!Open, SearchInv
  <2>2. /\ page' \in Search!State /\ page'.timer = page.timer /\ page'.query = page.query
        /\ page'.failed = page.failed /\ page'.results = page.results
        /\ page'.aborted = page.aborted /\ page'.loading = page.loading
    BY <2>1 DEF Search!State
  <2> QED
    BY <2>1, <2>2 DEF SearchInv, OneIsMeant, BoxIsHonest, Underway
<1>2. CASE Search!Follow
  BY <1>2, SearchQuiet DEF Search!Follow
<1> QED
  BY <1>1, <1>2, SearchCloseInv, SearchTypeInv, SearchTimeoutInv, FoundInv, ServeSearchInv
  DEF Search!Next

LEMMA SearchInit == Search!Init => SearchInv
<1> SUFFICES ASSUME Search!Init PROVE SearchInv
  OBVIOUS
<1>1. /\ page \in Search!State /\ ~page.timer /\ page.results = None /\ page.query = None
      /\ net \in Seq(CallOf({"search"}, Query, Query \cup {Waiting, Failed})) /\ DOMAIN net = {}
  BY DEF Search!Init, Search!Closed, Search!State
<1> QED
  BY <1>1 DEF SearchInv, SearchNet, OneIsMeant, BoxIsHonest, Underway

LEMMA SearchIsRight ==
  ASSUME SearchInv
  PROVE  Search!ResultsAreOfTheQuery /\ Search!NoResultsIsTrue
<1>1. Search!Quiet => DOMAIN net = {}
  BY DEF Search!Quiet
<1>2. Search!ResultsAreOfTheQuery
  BY <1>1 DEF SearchInv, BoxIsHonest, Underway, Search!ResultsAreOfTheQuery
<1>3. Search!NoResultsIsTrue
  BY DEF SearchInv, BoxIsHonest, Search!NoResultsIsTrue, Search!NoResults
<1> QED
  BY <1>2, <1>3

-----------------------------------------------------------------------------
(* The log of a container: module LogsPage.                                *)

LogsNet(s) == s \in Seq(CallOf({"load"}, {None}, (SUBSET Container) \cup {Waiting, Failed}))

\* The stream is of the container that is selected, and so is every line.
StreamIsSelected(p) ==
  /\ p.stream # None => /\ p.stream = p.selected
                        /\ \A k \in DOMAIN p.lines : p.lines[k] = p.selected
  /\ p.connected => p.stream # None

LogsInv ==
  page \in Logs!State /\ rows \subseteq Container /\ LogsNet(net) /\ StreamIsSelected(page)

LEMMA LogsCalls ==
  /\ \A i : Logs!Rest(i) = Rest(i)
  /\ \A op, arg : Logs!Call(op, arg) = Call(op, arg)
  /\ \A i, ans : Logs!Reply(i, ans) <=> Reply(i, ans)
BY DEF Logs!Rest, Rest, Logs!Call, Call, Logs!Reply, Reply

\* The effect of another selection or of the pause.
LEMMA StreamingFacts ==
  ASSUME NEW p \in Logs!State
  PROVE  Logs!Streaming(p) \in Logs!State /\ StreamIsSelected(Logs!Streaming(p))
<1>1. CASE p.selected = None \/ p.paused
  <2>1. Logs!Streaming(p) = [p EXCEPT !.stream = None, !.connected = FALSE]
    BY <1>1 DEF Logs!Streaming
  <2> QED
    BY <2>1 DEF Logs!State, StreamIsSelected
<1>2. CASE ~(p.selected = None \/ p.paused)
  <2>1. Logs!Streaming(p) = [p EXCEPT !.stream = p.selected, !.connected = TRUE, !.lines = <<>>]
    BY <1>2 DEF Logs!Streaming
  <2>2. <<>> \in Seq(OneOf(Container)) /\ <<>> \in Seq(Container) /\ DOMAIN <<>> = {}
    OBVIOUS
  <2> QED
    BY <1>2, <2>1, <2>2 DEF Logs!State, StreamIsSelected
<1> QED
  BY <1>1, <1>2

LEMMA LogsInit == Logs!Init => LogsInv
<1> SUFFICES ASSUME Logs!Init PROVE LogsInv
  OBVIOUS
<1>1. page = [Logs!Gone EXCEPT !.containers = {}] /\ net = <<Call("load", None)>>
  BY LogsCalls DEF Logs!Init
<1>2. page \in Logs!State /\ page.stream = None /\ ~page.connected
  <2>1. <<>> \in Seq(Container) /\ {} \in SUBSET Container
    OBVIOUS
  <2> QED
    BY <1>1, <2>1 DEF Logs!Gone, Logs!State
<1>3. Call("load", None) \in CallOf({"load"}, {None}, (SUBSET Container) \cup {Waiting, Failed})
  BY DEF Call, CallOf
<1>4. LogsNet(net)
  BY <1>1, <1>3 DEF LogsNet
<1>5. rows \subseteq Container
  BY DEF Logs!Init
<1> QED
  BY <1>2, <1>4, <1>5 DEF LogsInv, StreamIsSelected

LEMMA LoadContainersInv ==
  ASSUME LogsInv, NEW i \in DOMAIN net, Logs!LoadContainers(i)
  PROVE  LogsInv'
<1>1. /\ page \in Logs!State /\ rows' \subseteq Container /\ LogsNet(net)
      /\ StreamIsSelected(page) /\ net[i].ans # Waiting /\ (net' = <<>> \/ net' = Rest(i))
  BY LogsCalls DEF LogsInv, Logs!LoadContainers, Logs!Answered, Logs!Take
<1>2. LogsNet(net')
  <2>1. LogsNet(Rest(i))
    BY <1>1, RestFacts DEF LogsNet
  <2>2. LogsNet(<<>>)
    BY DEF LogsNet
  <2> QED
    BY <1>1, <2>1, <2>2
<1>3. CASE net[i].ans = Failed
  <2>1. page' = page \/ page' = Logs!Gone
    BY <1>3 DEF Logs!LoadContainers
  <2>2. Logs!Gone \in Logs!State /\ StreamIsSelected(Logs!Gone)
    <3>1. <<>> \in Seq(Container)
      OBVIOUS
    <3> QED
      BY <3>1 DEF Logs!Gone, Logs!State, StreamIsSelected
  <2> QED
    BY <1>1, <1>2, <2>1, <2>2 DEF LogsInv
<1>4. CASE net[i].ans # Failed
  <2> DEFINE listed == [page EXCEPT !.containers = net[i].ans]
  <2>1. net[i].ans \in SUBSET Container
    <3>1. net[i] \in CallOf({"load"}, {None}, (SUBSET Container) \cup {Waiting, Failed})
      BY <1>1 DEF LogsNet
    <3> QED
      BY <1>1, <1>4, <3>1 DEF CallOf
  <2>2. /\ listed \in Logs!State /\ listed.stream = page.stream /\ listed.selected = page.selected
        /\ listed.lines = page.lines /\ listed.connected = page.connected
    BY <1>1, <2>1 DEF Logs!State
  <2>3. StreamIsSelected(listed)
    <3> HIDE DEF listed
    <3> QED
      BY <1>1, <2>2 DEF StreamIsSelected
  <2>4. \/ page' = listed
        \/ \E c \in net[i].ans : page' = Logs!Streaming([listed EXCEPT !.selected = c])
    BY <1>4 DEF Logs!LoadContainers
  <2>5. ASSUME NEW c \in net[i].ans
        PROVE  [listed EXCEPT !.selected = c] \in Logs!State
    <3> HIDE DEF listed
    <3> QED
      BY <2>1, <2>2, <2>5 DEF Logs!State
  <2> HIDE DEF listed
  <2>6. page' \in Logs!State /\ StreamIsSelected(page')
    BY <2>2, <2>3, <2>4, <2>5, StreamingFacts
  <2> QED
    BY <1>1, <1>2, <2>6 DEF LogsInv
<1> QED
  BY <1>3, <1>4

LEMMA LogsNextInv ==
  ASSUME LogsInv, Logs!Next
  PROVE  LogsInv'
<1>1. page \in Logs!State /\ rows \subseteq Container /\ LogsNet(net) /\ StreamIsSelected(page)
  BY DEF LogsInv
<1>2. CASE Logs!Refresh
  <2>1. rows' = rows /\ page' = page /\ net' = Append(net, Call("load", None))
    BY <1>2, LogsCalls DEF Logs!Refresh, Logs!Send
  <2>2. Call("load", None) \in CallOf({"load"}, {None}, (SUBSET Container) \cup {Waiting, Failed})
    BY DEF Call, CallOf
  <2>3. LogsNet(net')
    BY <1>1, <2>1, <2>2, AppendFacts DEF LogsNet
  <2> QED
    BY <1>1, <2>1, <2>3 DEF LogsInv
<1>3. CASE Logs!Select
  <2>1. PICK c \in page.containers : page' = Logs!Streaming([page EXCEPT !.selected = c])
    BY <1>3 DEF Logs!Select
  <2>2. c \in Container
    BY <1>1, <1>3, <2>1 DEF Logs!Select, Logs!Up, Logs!State
  <2>3. [page EXCEPT !.selected = c] \in Logs!State
    BY <1>1, <2>2 DEF Logs!State
  <2>4. net' = net /\ rows' = rows
    BY <1>3 DEF Logs!Select
  <2> QED
    BY <1>1, <2>1, <2>3, <2>4, StreamingFacts DEF LogsInv
<1>4. CASE Logs!Pause
  <2>1. page' = Logs!Streaming([page EXCEPT !.paused = ~page.paused]) /\ net' = net /\ rows' = rows
    BY <1>4 DEF Logs!Pause
  <2>2. [page EXCEPT !.paused = ~page.paused] \in Logs!State
    BY <1>1 DEF Logs!State
  <2> QED
    BY <1>1, <2>1, <2>2, StreamingFacts DEF LogsInv
<1>5. CASE Logs!Clear
  <2>1. page' = [page EXCEPT !.lines = <<>>] /\ net' = net /\ rows' = rows
    BY <1>5 DEF Logs!Clear
  <2>2. <<>> \in Seq(Container) /\ DOMAIN <<>> = {}
    OBVIOUS
  <2>3. /\ page' \in Logs!State /\ page'.stream = page.stream /\ page'.selected = page.selected
        /\ page'.connected = page.connected /\ DOMAIN page'.lines = {}
    BY <1>1, <2>1, <2>2 DEF Logs!State
  <2> QED
    BY <1>1, <2>1, <2>3 DEF LogsInv, StreamIsSelected
<1>6. CASE Logs!Line
  <2> DEFINE next == Append(page.lines, page.stream)
             lines == IF Len(next) > MaxLines THEN Tail(next) ELSE next
  <2>1. page' = [page EXCEPT !.lines = lines] /\ net' = net /\ rows' = rows /\ page.stream # None
    BY <1>6 DEF Logs!Line
  <2>2. page.lines \in Seq(Container) /\ page.stream \in Container
    BY <1>1, <2>1 DEF Logs!State
  <2>3. /\ next \in Seq(Container) /\ next # <<>>
        /\ \A k \in DOMAIN next : next[k] = page.selected
    <3>1. /\ next \in Seq(Container) /\ next # <<>>
          /\ Len(page.lines) \in Nat /\ DOMAIN page.lines = 1 .. Len(page.lines)
          /\ DOMAIN next = 1 .. Len(page.lines) + 1 /\ next[Len(page.lines) + 1] = page.stream
          /\ \A k \in DOMAIN page.lines : next[k] = page.lines[k]
      BY <2>2
    <3> QED
      BY <1>1, <2>1, <3>1 DEF StreamIsSelected
  <2> HIDE DEF next
  <2>4. /\ Tail(next) \in Seq(Container)
        /\ \A k \in DOMAIN Tail(next) : Tail(next)[k] = page.selected
    <3>1. /\ Tail(next) \in Seq(Container) /\ DOMAIN Tail(next) = 1 .. Len(next) - 1
          /\ Len(next) \in Nat /\ DOMAIN next = 1 .. Len(next)
          /\ \A k \in 1 .. Len(next) - 1 : Tail(next)[k] = next[k + 1]
      BY <2>3
    <3> QED
      BY <2>3, <3>1
  <2>5. lines \in Seq(Container) /\ \A k \in DOMAIN lines : lines[k] = page.selected
    BY <2>3, <2>4
  <2> HIDE DEF lines
  <2>6. /\ page' \in Logs!State /\ page'.stream = page.stream /\ page'.selected = page.selected
        /\ page'.connected = page.connected /\ page'.lines = lines
    BY <1>1, <2>1, <2>5 DEF Logs!State
  <2> QED
    BY <1>1, <2>1, <2>5, <2>6 DEF LogsInv, StreamIsSelected
<1>7. CASE Logs!Drop
  <2>1. page' = [page EXCEPT !.connected = FALSE] /\ net' = net /\ rows' = rows
    BY <1>7 DEF Logs!Drop
  <2>2. /\ page' \in Logs!State /\ page'.stream = page.stream /\ page'.selected = page.selected
        /\ ~page'.connected /\ page'.lines = page.lines
    BY <1>1, <2>1 DEF Logs!State
  <2> QED
    BY <1>1, <2>1, <2>2 DEF LogsInv, StreamIsSelected
<1>8. CASE Logs!Elsewhere
  <2>1. page' = page /\ net' = net /\ rows' \subseteq Container
    BY <1>1, <1>8 DEF Logs!Elsewhere
  <2> QED
    BY <1>1, <2>1 DEF LogsInv
<1>9. ASSUME NEW i \in DOMAIN net, Logs!ServeRead(i, "load", rows)
      PROVE  LogsInv'
  <2>1. PICK ans \in {rows, Failed} : Reply(i, ans)
    BY <1>9, LogsCalls DEF Logs!ServeRead
  <2>2. page' = page /\ rows' = rows /\ ans \in (SUBSET Container) \cup {Waiting, Failed}
    BY <1>1, <1>9, <2>1 DEF Logs!ServeRead
  <2>3. LogsNet(net')
    BY <1>1, <2>1, <2>2, ReplyFacts DEF LogsNet
  <2> QED
    BY <1>1, <2>2, <2>3 DEF LogsInv
<1> QED
  BY <1>2, <1>3, <1>4, <1>5, <1>6, <1>7, <1>8, <1>9, LoadContainersInv DEF Logs!Next

\* However the answers are ordered and whichever of them are errors: when no search
\* is waited for, the palette shows what was found for the query in its box, and
\* while a log is streaming each of its lines is of the selected container.
THEOREM AnswersAreToTheQuestion == FormsSpec => []AnswersMatchTheQuestion
<1> DEFINE Inv == /\ tab = "search" => SearchInv
                  /\ tab = "logs" => LogsInv
<1>1. FormsInit => Inv
  BY SearchInit, LogsInit DEF FormsInit
<1>2. Inv /\ [FormsNext]_vars => Inv'
  <2>1. ASSUME Inv, FormsNext
        PROVE  Inv'
    <3>1. tab' = tab /\ (tab = "search" => Search!Next) /\ (tab = "logs" => Logs!Next)
      BY <2>1 DEF FormsNext
    <3> QED
      BY <2>1, <3>1, SearchNextInv, LogsNextInv
  <2>2. ASSUME Inv, UNCHANGED vars
        PROVE  Inv'
    BY <2>2 DEF vars, SearchInv, LogsInv
  <2> QED
    BY <2>1, <2>2
<1>3. Inv => AnswersMatchTheQuestion
  <2>1. LogsInv => Logs!LinesAreOfTheSelection /\ Logs!LiveIsHonest
    BY DEF LogsInv, StreamIsSelected, Logs!LinesAreOfTheSelection, Logs!LiveIsHonest
  <2> QED
    BY <2>1, SearchIsRight DEF AnswersMatchTheQuestion
<1> QED
  BY <1>1, <1>2, <1>3, PTL DEF FormsSpec

-----------------------------------------------------------------------------
(* The table of accounts: module UsersPage.                                *)

\* The field is empty or of the account whose panel is open, and each password
\* under way is of the account it is sent for.
TypedFor(p) ==
  /\ {"users", "error", "form", "panel", "typed"} \subseteq DOMAIN p
  /\ \A u \in User : p.panel = [user |-> u, mode |-> "password"] => p.typed \in {u, None}

SentFor(c) ==
  c.op = "password" => \E u \in User : c.arg.user = u /\ c.arg.typed \in {u, None}

UsersInv == TypedFor(page) /\ IsNet(net) /\ \A i \in DOMAIN net : SentFor(net[i])

LEMMA UsersCalls ==
  /\ \A i : Users!Rest(i) = Rest(i)
  /\ \A op, arg : Users!Call(op, arg) = Call(op, arg)
  /\ \A i, ans : Users!Reply(i, ans) <=> Reply(i, ans)
BY DEF Users!Rest, Rest, Users!Call, Call, Users!Reply, Reply

LEMMA UsersFrom ==
  ASSUME UsersInv, TypedFor(page'), NEW C, From(net, net', C), \A c \in C : SentFor(c)
  PROVE  UsersInv'
BY DEF UsersInv, From, Like, Same, SentFor

LEMMA UsersSend ==
  ASSUME UsersInv, TypedFor(page'), NEW op, NEW arg, SentFor(Call(op, arg)),
         \/ net' = Append(net, Call(op, arg))
         \/ \E i \in DOMAIN net : net' = Append(Rest(i), Call(op, arg))
  PROVE  UsersInv'
<1>1. IsNet(net)
  BY DEF UsersInv
<1>2. From(net, net', {Call(op, arg)})
  BY <1>1, FromSend
<1> QED
  BY <1>2, UsersFrom

LEMMA UsersTake ==
  ASSUME UsersInv, TypedFor(page'), NEW i \in DOMAIN net, net' = Rest(i)
  PROVE  UsersInv'
<1>1. From(net, net', {})
  BY FromRest DEF UsersInv
<1> QED
  BY <1>1, UsersFrom

LEMMA UsersServed ==
  ASSUME UsersInv, page' = page, NEW i \in DOMAIN net, NEW ans, Reply(i, ans)
  PROVE  UsersInv'
<1>1. IsNet(net') /\ DOMAIN net' = DOMAIN net
      /\ net'[i].op = net[i].op /\ net'[i].arg = net[i].arg
      /\ \A j \in DOMAIN net \ {i} : net'[j] = net[j]
  BY NetReply DEF UsersInv
<1> QED
  BY <1>1 DEF UsersInv, SentFor

\* What leaves the panel alone, and what closes it.
LEMMA TypedForFacts ==
  ASSUME TypedFor(page)
  PROVE  /\ \A x : /\ TypedFor([page EXCEPT !.users = x]) /\ TypedFor([page EXCEPT !.error = x])
                   /\ TypedFor([page EXCEPT !.form = x])
         /\ TypedFor([page EXCEPT !.typed = None, !.panel = None])
         /\ TypedFor([page EXCEPT !.panel = None, !.typed = None])
BY DEF TypedFor

LEMMA UsersNextInv ==
  ASSUME UsersInv, Users!Next
  PROVE  UsersInv'
<1>1. TypedFor(page)
  BY DEF UsersInv
<1>2. ASSUME NEW op, op # "password", NEW arg
      PROVE  SentFor(Call(op, arg))
  BY <1>2, NetCall DEF SentFor
<1>3. ASSUME NEW op, op # "password", NEW arg, Users!Send(op, arg), TypedFor(page')
      PROVE  UsersInv'
  BY <1>2, <1>3, UsersCalls, UsersSend DEF Users!Send
<1>4. ASSUME NEW i \in DOMAIN net, NEW op, op # "password", NEW arg,
             Users!TakeAndSend(i, op, arg), TypedFor(page')
      PROVE  UsersInv'
  BY <1>2, <1>4, UsersCalls, UsersSend DEF Users!TakeAndSend
<1>5. ASSUME NEW i \in DOMAIN net, Users!Take(i), TypedFor(page')
      PROVE  UsersInv'
  BY <1>5, UsersCalls, UsersTake DEF Users!Take
<1>6. ASSUME net' = net, TypedFor(page')
      PROVE  UsersInv'
  BY <1>6 DEF UsersInv
<1>7. ASSUME NEW i \in DOMAIN net, Users!Load(i) \/ Users!PasswordSet(i)
      PROVE  UsersInv'
  BY <1>1, <1>5, <1>7, TypedForFacts DEF Users!Load, Users!PasswordSet
<1>8. CASE Users!TypeForm \/ Users!CancelPassword \/ Users!Elsewhere
  BY <1>1, <1>6, <1>8, TypedForFacts
  DEF Users!TypeForm, Users!CancelPassword, Users!Elsewhere, Users!Foreign
<1>9. CASE Users!Submit \/ Users!RemoveUser \/ Users!ToggleRole
  BY <1>1, <1>3, <1>9, TypedForFacts DEF Users!Submit, Users!RemoveUser, Users!ToggleRole
<1>10. ASSUME NEW i \in DOMAIN net, Users!Created(i) \/ Users!Written(i)
       PROVE  UsersInv'
  BY <1>1, <1>4, <1>5, <1>10, TypedForFacts DEF Users!Created, Users!Written
\* The panels are switched: that of a password is opened with an empty field.
<1>11. CASE Users!RolesButton
  <2>1. PICK u \in DOMAIN page.users : \E x \in {None, [user |-> u, mode |-> "roles"]} :
          page' = [page EXCEPT !.panel = x]
    BY <1>11 DEF Users!RolesButton
  <2>2. PICK x \in {None, [user |-> u, mode |-> "roles"]} : page' = [page EXCEPT !.panel = x]
    BY <2>1
  <2>3. \A v \in User : x # [user |-> v, mode |-> "password"]
    <3>1. CASE x = None
      <4>1. ASSUME NEW v \in User
            PROVE  [user |-> v, mode |-> "password"] \in [user : User, mode : {"roles", "password"}]
        BY <4>1
      <4> QED
        BY <3>1, <4>1, NoneAssumption
    <3>2. CASE x = [user |-> u, mode |-> "roles"]
      BY <3>2
    <3> QED
      BY <2>2, <3>1, <3>2
  <2>4. TypedFor(page')
    BY <1>1, <2>2, <2>3 DEF TypedFor
  <2> QED
    BY <1>6, <1>11, <2>4 DEF Users!RolesButton
<1>12. CASE Users!PasswordButton
  <2>1. \E x : page' = [page EXCEPT !.panel = x, !.typed = None]
    BY <1>12 DEF Users!PasswordButton
  <2>2. TypedFor(page')
    BY <1>1, <2>1 DEF TypedFor
  <2> QED
    BY <1>6, <1>12, <2>2 DEF Users!PasswordButton
<1>13. CASE Users!TypePassword
  <2>1. PICK u \in User : /\ page.panel = [user |-> u, mode |-> "password"]
                          /\ page' = [page EXCEPT !.typed = u]
    BY <1>13 DEF Users!TypePassword, Users!PasswordPanel
  <2>2. page'.panel = page.panel /\ page'.typed = u /\ DOMAIN page' = DOMAIN page
    BY <1>1, <2>1 DEF TypedFor
  <2>3. \A v \in User : page.panel = [user |-> v, mode |-> "password"] => v = u
    BY <2>1
  <2>4. TypedFor(page')
    BY <1>1, <2>2, <2>3 DEF TypedFor
  <2> QED
    BY <1>6, <1>13, <2>4 DEF Users!TypePassword
<1>14. CASE Users!SubmitPassword
  <2>1. PICK u \in User : /\ page.panel = [user |-> u, mode |-> "password"]
                          /\ Users!Send("password", [user |-> u, typed |-> page.typed])
    BY <1>14 DEF Users!SubmitPassword, Users!PasswordPanel
  <2> DEFINE arg == [user |-> u, typed |-> page.typed]
  <2>2. arg.user = u /\ arg.typed \in {u, None}
    BY <1>1, <2>1 DEF TypedFor
  <2> HIDE DEF arg
  <2>3. SentFor(Call("password", arg))
    BY <2>2 DEF SentFor, Call
  <2>4. net' = Append(net, Call("password", arg))
    BY <2>1, UsersCalls DEF Users!Send, arg
  <2>5. TypedFor(page')
    BY <1>1, <1>14, TypedForFacts DEF Users!SubmitPassword
  <2> QED
    BY <2>3, <2>4, <2>5, UsersSend
<1>15. ASSUME NEW i \in DOMAIN net,
              \/ Users!ServeRead(i, "load", rows) \/ Users!ServeCreate(i) \/ Users!ServeRemove(i)
              \/ Users!ServeRoles(i) \/ Users!ServePassword(i)
       PROVE  UsersInv'
  <2>1. page' = page /\ \E ans : Users!Reply(i, ans)
    BY <1>15 DEF Users!ServeRead, Users!ServeCreate, Users!ServeRemove, Users!ServeRoles,
         Users!ServePassword, Users!ServeWrite, Users!ServeRefusal
  <2> QED
    BY <2>1, UsersCalls, UsersServed
<1> QED
  BY <1>7, <1>8, <1>9, <1>10, <1>11, <1>12, <1>13, <1>14, <1>15 DEF Users!Next

LEMMA UsersInit == Users!Init => UsersInv
<1> SUFFICES ASSUME Users!Init PROVE UsersInv
  OBVIOUS
<1> DEFINE c == Call("load", None)
<1>1. /\ net = <<c>>
      /\ page = [users |-> <<>>, error |-> FALSE, form |-> None, panel |-> None, typed |-> None]
  BY UsersCalls DEF Users!Init
<1>2. DOMAIN c = CallFields /\ c.late \in BOOLEAN /\ c.gone \in BOOLEAN /\ c.op = "load"
  BY DEF Call, CallFields
<1>3. TypedFor(page)
  BY <1>1 DEF TypedFor
<1> HIDE DEF c
<1> QED
  BY <1>1, <1>2, <1>3, NetOne DEF UsersInv, SentFor

-----------------------------------------------------------------------------
(* The settings' form: module SettingsPage.                                *)

\* Texts that may be saved.
Reasoned(s, p) ==
  /\ DOMAIN s = {"name", "tagline"}
  /\ s.name # None /\ (s.tagline = None => p.reason)

SiteCall(c, p) ==
  /\ c.op = "save" => Reasoned(c.arg, p)
  /\ c.op \in {"load", "save"} /\ c.ans \notin {Waiting, Failed} => Reasoned(c.ans, p)

SitePage(p) ==
  /\ {"form", "error", "saved", "filled", "reason"} \subseteq DOMAIN p
  /\ DOMAIN p.form = {"name", "tagline"}
  /\ p.filled /\ p.form.tagline = None => p.reason

SiteInv ==
  /\ SitePage(page) /\ Reasoned(rows, page)
  /\ IsNet(net) /\ \A i \in DOMAIN net : SiteCall(net[i], page)

LEMMA SiteCalls ==
  /\ \A i : Site!Rest(i) = Rest(i)
  /\ \A op, arg : Site!Call(op, arg) = Call(op, arg)
  /\ \A i, ans : Site!Reply(i, ans) <=> Reply(i, ans)
BY DEF Site!Rest, Rest, Site!Call, Call, Site!Reply, Reply

LEMMA SiteFrom ==
  ASSUME SiteInv, SitePage(page'), page.reason => page'.reason, rows' = rows,
         NEW C, From(net, net', C), \A c \in C : SiteCall(c, page')
  PROVE  SiteInv'
<1>1. \A s : Reasoned(s, page) => Reasoned(s, page')
  BY DEF Reasoned
<1>2. \A c, d : Like(d, c) /\ (SiteCall(c, page) \/ SiteCall(c, page')) => SiteCall(d, page')
  BY <1>1 DEF Like, Same, SiteCall
<1> QED
  BY <1>1, <1>2 DEF SiteInv, From

LEMMA SiteNextInv ==
  ASSUME SiteInv, Site!Next
  PROVE  SiteInv'
<1>1. IsNet(net) /\ SitePage(page) /\ Reasoned(rows, page)
  BY DEF SiteInv
<1>2. CASE Site!Type
  <2>1. ASSUME NEW x, NEW y, page' = [page EXCEPT !.form.name = x]
        PROVE  SitePage(page') /\ page'.reason = page.reason
    BY <1>1, <2>1 DEF SitePage
  <2>2. ASSUME NEW x \in Text, page' = [page EXCEPT !.form.tagline = x]
        PROVE  SitePage(page') /\ page'.reason = page.reason
    BY <1>1, <2>2, NoneAssumption DEF SitePage
  <2>3. ASSUME page' = [page EXCEPT !.form.tagline = None, !.reason = TRUE]
        PROVE  SitePage(page') /\ page'.reason
    BY <1>1, <2>3 DEF SitePage
  <2>4. SitePage(page') /\ (page.reason => page'.reason)
    BY <1>2, <2>1, <2>2, <2>3 DEF Site!Type
  <2>5. rows' = rows /\ net' = net
    BY <1>2 DEF Site!Type
  <2>6. From(net, net', {})
    BY <1>1, <2>5, FromSelf
  <2> QED
    BY <2>4, <2>5, <2>6, SiteFrom
<1>3. CASE Site!Submit
  <2> DEFINE reason == page.reason \/ ~page.filled
  <2>1. /\ page' = [page EXCEPT !.error = FALSE, !.saved = FALSE, !.reason = reason]
        /\ net' = Append(net, Call("save", page.form)) /\ page.form.name # None /\ rows' = rows
    BY <1>3, SiteCalls DEF Site!Submit, Site!Send
  <2>2. SitePage(page') /\ page'.reason = reason
    <3> HIDE DEF reason
    <3>1. /\ page'.form = page.form /\ page'.filled = page.filled /\ page'.reason = reason
          /\ DOMAIN page' = DOMAIN page
      BY <1>1, <2>1 DEF SitePage
    <3> QED
      BY <1>1, <3>1 DEF SitePage, reason
  <2>3. Reasoned(page.form, page')
    BY <1>1, <2>1, <2>2 DEF Reasoned, SitePage
  <2> DEFINE c == Call("save", page.form)
  <2>4. SiteCall(c, page')
    BY <2>3 DEF SiteCall, Call
  <2>5. From(net, net', {c})
    BY <1>1, <2>1, FromSend
  <2>6. page.reason => page'.reason
    BY <2>2
  <2> HIDE DEF c, reason
  <2> QED
    BY <2>1, <2>2, <2>4, <2>5, <2>6, SiteFrom
<1>4. ASSUME NEW i \in DOMAIN net, Site!Load(i) \/ Site!Saved(i)
      PROVE  SiteInv'
  <2>1. /\ net[i].op \in {"load", "save"} /\ net[i].ans # Waiting
        /\ net' = Rest(i) /\ rows' = rows
    BY <1>4, SiteCalls DEF Site!Load, Site!Saved, Site!Answered, Site!Take
  <2>2. SitePage(page') /\ page'.reason = page.reason
    <3>1. CASE net[i].ans = Failed
      <4>1. page' = [page EXCEPT !.error = TRUE]
        BY <1>4, <3>1 DEF Site!Load, Site!Saved
      <4> QED
        BY <1>1, <4>1 DEF SitePage
    <3>2. CASE net[i].ans # Failed
      <4>1. Reasoned(net[i].ans, page)
        BY <2>1, <3>2 DEF SiteInv, SiteCall
      <4>2. \/ page' = [page EXCEPT !.form = net[i].ans, !.filled = TRUE]
            \/ page' = [page EXCEPT !.form = net[i].ans, !.saved = TRUE, !.filled = TRUE]
        BY <1>4, <3>2 DEF Site!Load, Site!Saved
      <4> QED
        BY <1>1, <4>1, <4>2 DEF SitePage, Reasoned
    <3> QED
      BY <3>1, <3>2
  <2>3. From(net, net', {})
    BY <1>1, <2>1, FromRest
  <2> QED
    BY <2>1, <2>2, <2>3, SiteFrom
<1>5. ASSUME NEW i \in DOMAIN net, NEW ans, Reply(i, ans), page' = page, Reasoned(rows', page),
             ans # Failed => Reasoned(ans, page)
      PROVE  SiteInv'
  <2>1. IsNet(net') /\ DOMAIN net' = DOMAIN net
        /\ net'[i].op = net[i].op /\ net'[i].arg = net[i].arg /\ net'[i].ans = ans
        /\ \A j \in DOMAIN net \ {i} : net'[j] = net[j]
    BY <1>1, <1>5, NetReply
  <2> QED
    BY <1>1, <1>5, <2>1 DEF SiteInv, SiteCall
<1>6. ASSUME NEW i \in DOMAIN net, Site!ServeRead(i, "load", rows)
      PROVE  SiteInv'
  BY <1>1, <1>5, <1>6, SiteCalls DEF Site!ServeRead
<1>7. ASSUME NEW i \in DOMAIN net, Site!ServeSave(i)
      PROVE  SiteInv'
  <2>1. /\ net[i].op = "save" /\ page' = page /\ rows' \in {rows, net[i].arg}
        /\ \E ans \in {net[i].arg, Failed} : Reply(i, ans)
    BY <1>7, SiteCalls DEF Site!ServeSave, Site!Sent, Site!ServeWrite
  <2>2. Reasoned(net[i].arg, page)
    BY <2>1 DEF SiteInv, SiteCall
  <2> QED
    BY <1>1, <1>5, <2>1, <2>2
<1>8. CASE Site!Elsewhere
  <2>1. PICK x \in Text : rows' = [rows EXCEPT !.name = x]
    BY <1>8 DEF Site!Elsewhere, Site!Foreign
  <2>2. Reasoned(rows', page)
    BY <1>1, <2>1, NoneAssumption DEF Reasoned
  <2>3. page' = page /\ net' = net
    BY <1>8 DEF Site!Elsewhere, Site!Foreign
  <2> QED
    BY <2>2, <2>3 DEF SiteInv
<1> QED
  BY <1>2, <1>3, <1>4, <1>6, <1>7, <1>8 DEF Site!Next

LEMMA SiteInit == Site!Init => SiteInv
<1> SUFFICES ASSUME Site!Init PROVE SiteInv
  OBVIOUS
<1> DEFINE c == Call("load", None)
<1>1. /\ net = <<c>> /\ rows \in [name : Text, tagline : Text]
      /\ page = [form |-> Site!Blanks, error |-> FALSE, saved |-> FALSE,
                 filled |-> FALSE, reason |-> FALSE]
  BY SiteCalls DEF Site!Init
<1>2. /\ DOMAIN c = CallFields /\ c.late \in BOOLEAN /\ c.gone \in BOOLEAN
      /\ c.op = "load" /\ c.ans = Waiting
  BY DEF Call, CallFields
<1>3. SitePage(page) /\ Reasoned(rows, page)
  BY <1>1, NoneAssumption DEF SitePage, Reasoned, Site!Blanks
<1> HIDE DEF c
<1> QED
  BY <1>1, <1>2, <1>3, NetOne DEF SiteInv, SiteCall

-----------------------------------------------------------------------------
(* The dialog about a card: module CardDialog.                             *)

\* Somebody chose the column k for c, or c is not there any more.
WasChosen(r, c, k) == r[c] # None => k \in r[c].chosen

CardRows(r) ==
  /\ DOMAIN r = Card
  /\ \A c \in Card : r[c] # None => /\ DOMAIN r[c] = {"column", "texts", "chosen"}
                                    /\ r[c].texts = c /\ r[c].column \in r[c].chosen

\* What is known of a card: its texts are its own, its column was chosen for it.
KnownOf(f, c, r) == c \in Card /\ f.texts = c /\ WasChosen(r, c, f.column)

KnownOfAll(t, r) == \A c \in DOMAIN t : KnownOf(t[c], c, r)

IsModal(m, r) ==
  /\ DOMAIN m = {"id", "card", "column", "saving"}
  /\ KnownOf(m.card, m.id, r) /\ WasChosen(r, m.id, m.column)

DialogCall(c, r) ==
  /\ c.op = "update" => /\ c.arg.id \in Card /\ c.arg.texts = c.arg.id
                        /\ c.arg.then # None => WasChosen(r, c.arg.id, c.arg.then)
  /\ c.op = "move" => c.arg.id \in Card /\ WasChosen(r, c.arg.id, c.arg.column)
  /\ c.op = "load" /\ c.ans \notin {Waiting, Failed} => KnownOfAll(c.ans, r)

DialogPage(p, r) ==
  /\ {"cards", "modal"} \subseteq DOMAIN p
  /\ KnownOfAll(p.cards, r) /\ (p.modal # None => IsModal(p.modal, r))

\* A request whose dialog is still there.
HasDialog(s, p, r) ==
  \A i \in DOMAIN s : s[i].op \in Dialog!ModalOps /\ ~s[i].gone => IsModal(p.modal, r)

DialogInv ==
  /\ CardRows(rows) /\ DialogPage(page, rows) /\ HasDialog(net, page, rows)
  /\ IsNet(net) /\ \A i \in DOMAIN net : DialogCall(net[i], rows)

\* A card that is there was there, and what was chosen for it stays so.
Grown(r, q) == \A c \in Card : q[c] # None => r[c] # None /\ r[c].chosen \subseteq q[c].chosen

LEMMA DialogCalls ==
  /\ \A i : Dialog!Others(i) = Others(i)
  /\ \A op, arg : Dialog!Call(op, arg) = Call(op, arg)
  /\ \A i, ans : Dialog!Reply(i, ans) <=> Reply(i, ans)
  /\ \A calls, ops : Dialog!Unmounted(calls, ops) = Unmounted(calls, ops)
BY DEF Dialog!Others, Others, Dialog!Call, Call, Dialog!Reply, Reply, Dialog!Unmounted, Unmounted

LEMMA GrownFacts ==
  ASSUME NEW r, NEW q, Grown(r, q)
  PROVE  /\ \A c \in Card : \A k : WasChosen(r, c, k) => WasChosen(q, c, k)
         /\ \A t : KnownOfAll(t, r) => KnownOfAll(t, q)
         /\ \A m : IsModal(m, r) => IsModal(m, q)
         /\ \A p : DialogPage(p, r) => DialogPage(p, q)
         /\ \A c : DialogCall(c, r) => DialogCall(c, q)
         /\ \A s, p : HasDialog(s, p, r) => HasDialog(s, p, q)
<1>1. \A c \in Card : \A k : WasChosen(r, c, k) => WasChosen(q, c, k)
  BY DEF Grown, WasChosen
<1>2. \A t : KnownOfAll(t, r) => KnownOfAll(t, q)
  BY <1>1 DEF KnownOfAll, KnownOf
<1>3. \A m : IsModal(m, r) => IsModal(m, q)
  BY <1>1 DEF IsModal, KnownOf
<1>4. \A p : DialogPage(p, r) => DialogPage(p, q)
  BY <1>2, <1>3 DEF DialogPage
<1>5. \A c : DialogCall(c, r) => DialogCall(c, q)
  BY <1>1, <1>2 DEF DialogCall
<1>6. \A s, p : HasDialog(s, p, r) => HasDialog(s, p, q)
  BY <1>3 DEF HasDialog
<1> QED
  BY <1>1, <1>2, <1>3, <1>4, <1>5, <1>6

LEMMA GrownSelf ==
  ASSUME NEW r
  PROVE  Grown(r, r)
BY DEF Grown

LEMMA DialogFrom ==
  ASSUME DialogInv, CardRows(rows'), Grown(rows, rows'), DialogPage(page', rows'),
         HasDialog(net', page', rows'),
         NEW C, From(net, net', C), \A c \in C : DialogCall(c, rows')
  PROVE  DialogInv'
<1>1. \A c, d : Like(d, c) /\ (DialogCall(c, rows) \/ DialogCall(c, rows')) => DialogCall(d, rows')
  BY GrownFacts DEF Like, Same, DialogCall
<1> QED
  BY <1>1 DEF DialogInv, From

\* The dialog is not there any more, and neither is it for what is under way.
LEMMA DialogLeft ==
  ASSUME DialogInv, rows' = rows, page' = [page EXCEPT !.modal = None],
         NEW t, NEW C, From(net, t, C), \A c \in C : DialogCall(c, rows),
         net' = Unmounted(t, Dialog!ModalOps)
  PROVE  DialogInv'
<1>1. DialogPage(page', rows)
  BY DEF DialogInv, DialogPage
<1>2. From(net, net', C) /\ HasDialog(net', page', rows)
  BY FromUnmounted DEF HasDialog
<1>3. CardRows(rows) /\ Grown(rows, rows)
  BY GrownSelf DEF DialogInv
<1> QED
  BY <1>1, <1>2, <1>3, DialogFrom

\* The dialog there is stays what it is.
LEMMA DialogStays ==
  ASSUME DialogInv, rows' = rows, DialogPage(page', rows),
         IsModal(page.modal, rows) => IsModal(page'.modal, rows),
         NEW C, From(net, net', C),
         \A c \in C : /\ DialogCall(c, rows)
                      /\ c.op \in Dialog!ModalOps /\ ~c.gone => IsModal(page.modal, rows)
  PROVE  DialogInv'
<1>1. HasDialog(net', page', rows)
  BY DEF DialogInv, HasDialog, From, Like, Same
<1>2. CardRows(rows) /\ Grown(rows, rows)
  BY GrownSelf DEF DialogInv
<1> QED
  BY <1>1, <1>2, DialogFrom

LEMMA DialogHandled ==
  ASSUME DialogInv, NEW i \in DOMAIN net,
         Dialog!Load(i) \/ Dialog!Updated(i) \/ Dialog!Moved(i) \/ Dialog!Deleted(i)
  PROVE  DialogInv'
<1>1. IsNet(net) /\ DialogPage(page, rows) /\ HasDialog(net, page, rows) /\ DialogCall(net[i], rows)
  BY DEF DialogInv
<1>2. From(net, Others(i), {})
  BY <1>1, FromRest
<1>3. CASE Dialog!Load(i)
  <2>1. /\ net[i].op = "load" /\ net[i].ans # Waiting /\ net' = Others(i) /\ rows' = rows
        /\ page' = IF net[i].ans = Failed THEN page ELSE [page EXCEPT !.cards = net[i].ans]
    BY <1>3, DialogCalls DEF Dialog!Load, Dialog!Answered
  <2>2. net[i].ans # Failed => KnownOfAll(net[i].ans, rows)
    BY <1>1, <2>1 DEF DialogCall
  <2>3. DialogPage(page', rows) /\ page'.modal = page.modal
    BY <1>1, <2>1, <2>2 DEF DialogPage
  <2> QED
    BY <1>2, <2>1, <2>3, DialogStays
<1>4. ASSUME Dialog!NotSaved(i), rows' = rows, net[i].op \in Dialog!ModalOps
      PROVE  DialogInv'
  <2>1. /\ page' = IF net[i].gone THEN page ELSE [page EXCEPT !.modal.saving = FALSE]
        /\ net' = Others(i)
    BY <1>4, DialogCalls DEF Dialog!NotSaved
  <2>2. ~net[i].gone => IsModal(page.modal, rows)
    BY <1>1, <1>4 DEF HasDialog
  <2>3. ASSUME ~net[i].gone
        PROVE  DialogPage(page', rows) /\ IsModal(page'.modal, rows)
    <3> DEFINE m == [page.modal EXCEPT !.saving = FALSE]
    <3>1. page' = [page EXCEPT !.modal = m]
      BY <2>1, <2>3
    <3>2. IsModal(m, rows)
      BY <2>2, <2>3 DEF IsModal
    <3> HIDE DEF m
    <3> QED
      BY <1>1, <3>1, <3>2 DEF DialogPage
  <2>4. DialogPage(page', rows) /\ (IsModal(page.modal, rows) => IsModal(page'.modal, rows))
    BY <1>1, <2>1, <2>3
  <2> QED
    BY <1>2, <1>4, <2>1, <2>4, DialogStays
<1>5. ASSUME Dialog!Changed(i), rows' = rows
      PROVE  DialogInv'
  <2> DEFINE c == Call("load", None)
             t == Append(Others(i), c)
  <2>1. page' = [page EXCEPT !.modal = None] /\ net' = Unmounted(t, Dialog!ModalOps)
    BY <1>5, DialogCalls DEF Dialog!Changed
  <2>2. From(net, t, {c})
    BY <1>1, FromSend
  <2>3. DialogCall(c, rows)
    BY DEF Call, DialogCall
  <2> HIDE DEF c, t
  <2> QED
    BY <1>5, <2>1, <2>2, <2>3, DialogLeft
<1>6. CASE Dialog!Updated(i)
  <2>1. net[i].op = "update" /\ rows' = rows /\ net[i].op \in Dialog!ModalOps
    BY <1>6 DEF Dialog!Updated, Dialog!Answered, Dialog!ModalOps
  <2>2. CASE net[i].ans = Failed \/ net[i].arg.then = None
    BY <1>4, <1>5, <1>6, <2>1, <2>2 DEF Dialog!Updated
  <2>3. CASE net[i].ans # Failed /\ net[i].arg.then # None
    <3> DEFINE arg == [id |-> net[i].arg.id, column |-> net[i].arg.then]
               c == [Call("move", arg) EXCEPT !.gone = net[i].gone]
    <3>1. net' = Append(Others(i), c) /\ page' = page
      BY <1>6, <2>3, DialogCalls DEF Dialog!Updated
    <3>2. /\ DOMAIN c = CallFields /\ c.op = "move" /\ c.arg = arg
          /\ c.late = FALSE /\ c.gone = net[i].gone
      <4> HIDE DEF arg
      <4> QED
        BY DEF Call, CallFields
    <3>3. DialogCall(c, rows)
      <4>1. arg.id \in Card /\ WasChosen(rows, arg.id, arg.column)
        BY <1>1, <2>1, <2>3 DEF DialogCall
      <4> HIDE DEF c, arg
      <4> QED
        BY <3>2, <4>1 DEF DialogCall
    <3>4. c.late \in BOOLEAN /\ c.gone \in BOOLEAN
      <4> HIDE DEF c
      <4> QED
        BY <1>1, <3>2 DEF IsNet
    <3>5. ~net[i].gone => IsModal(page.modal, rows)
      BY <1>1, <2>1 DEF HasDialog
    <3> HIDE DEF c, arg
    <3>6. From(net, net', {c})
      BY <1>2, <3>1, <3>2, <3>4, FromAppend
    <3> QED
      BY <1>1, <2>1, <3>1, <3>2, <3>3, <3>5, <3>6, DialogStays
  <2> QED
    BY <2>2, <2>3
<1>7. CASE Dialog!Moved(i) \/ Dialog!Deleted(i)
  <2>1. net[i].op \in Dialog!ModalOps /\ rows' = rows
    BY <1>7 DEF Dialog!Moved, Dialog!Deleted, Dialog!Answered, Dialog!ModalOps
  <2>2. CASE page' = page /\ net' = Others(i)
    BY <1>1, <1>2, <2>1, <2>2, DialogStays
  <2>3. \/ Dialog!NotSaved(i) \/ Dialog!Changed(i)
        \/ page' = page /\ net' = Others(i)
    BY <1>7, DialogCalls DEF Dialog!Moved, Dialog!Deleted
  <2> QED
    BY <1>4, <1>5, <2>1, <2>2, <2>3
<1> QED
  BY <1>3, <1>6, <1>7

\* What the user does in the dialog.
LEMMA DialogEdited ==
  ASSUME DialogInv,
         \/ Dialog!OpenCard \/ Dialog!Close \/ Dialog!EditField
         \/ Dialog!ChooseColumn \/ Dialog!RemoveCard
  PROVE  DialogInv'
<1>1. /\ IsNet(net) /\ CardRows(rows) /\ DialogPage(page, rows) /\ HasDialog(net, page, rows)
  BY DEF DialogInv
<1>2. From(net, net, {})
  BY <1>1, FromSelf
<1>3. CASE Dialog!OpenCard
  <2>1. PICK c \in DOMAIN page.cards :
          page' = [page EXCEPT !.modal = [id |-> c, card |-> page.cards[c],
                                          column |-> page.cards[c].column, saving |-> FALSE]]
    BY <1>3 DEF Dialog!OpenCard
  <2> DEFINE m == [id |-> c, card |-> page.cards[c], column |-> page.cards[c].column,
                   saving |-> FALSE]
  <2>2. IsModal(m, rows)
    BY <1>1 DEF DialogPage, KnownOfAll, KnownOf, IsModal
  <2>3. page' = [page EXCEPT !.modal = m] /\ rows' = rows /\ net' = net
    BY <1>3, <2>1 DEF Dialog!OpenCard
  <2> HIDE DEF m
  <2>4. DialogPage(page', rows) /\ IsModal(page'.modal, rows)
    BY <1>1, <2>2, <2>3 DEF DialogPage
  <2> QED
    BY <1>2, <2>3, <2>4, DialogStays
<1>4. CASE Dialog!Close
  BY <1>2, <1>4, DialogCalls, DialogLeft DEF Dialog!Close
\* A save: of the column that was chosen before, if any.
<1>5. ASSUME page.modal # None, Dialog!Save(page.modal.column)
      PROVE  \E c : /\ From(net, net', {c}) /\ DialogCall(c, rows) /\ IsModal(page.modal, rows)
  <2> DEFINE m == page.modal
             then == IF m.column = m.card.column THEN None ELSE m.column
             arg == [id |-> m.id, texts |-> m.card.texts, then |-> then]
             c == Call("update", arg)
  <2>1. net' = Append(net, c)
    BY <1>5, DialogCalls DEF Dialog!Save, Dialog!Send
  <2>2. IsModal(m, rows)
    BY <1>1, <1>5 DEF DialogPage
  <2>3. /\ arg.id \in Card /\ arg.texts = arg.id
        /\ arg.then # None => WasChosen(rows, arg.id, arg.then)
    BY <2>2 DEF IsModal, KnownOf
  <2>4. DialogCall(c, rows)
    <3> HIDE DEF arg
    <3> QED
      BY <2>3 DEF DialogCall, Call
  <2>5. From(net, net', {c})
    <3> HIDE DEF arg
    <3> QED
      BY <1>1, <2>1, FromSend
  <2> QED
    BY <2>2, <2>4, <2>5
<1>6. CASE Dialog!EditField
  <2>1. /\ page.modal # None /\ Dialog!Save(page.modal.column) /\ rows' = rows
        /\ page' = [page EXCEPT !.modal.saving = TRUE]
    BY <1>6 DEF Dialog!EditField
  <2>2. PICK c : From(net, net', {c}) /\ DialogCall(c, rows) /\ IsModal(page.modal, rows)
    BY <1>5, <2>1
  <2> DEFINE m == [page.modal EXCEPT !.saving = TRUE]
  <2>3. page' = [page EXCEPT !.modal = m] /\ IsModal(m, rows)
    BY <2>1, <2>2 DEF IsModal
  <2> HIDE DEF m
  <2>4. DialogPage(page', rows) /\ IsModal(page'.modal, rows)
    BY <1>1, <2>3 DEF DialogPage
  <2> QED
    BY <2>1, <2>2, <2>4, DialogStays
<1>7. CASE Dialog!ChooseColumn
  <2>1. page.modal # None /\ Dialog!Save(page.modal.column)
    BY <1>7 DEF Dialog!ChooseColumn
  <2>2. PICK c : From(net, net', {c}) /\ DialogCall(c, rows) /\ IsModal(page.modal, rows)
    BY <1>5, <2>1
  <2>3. PICK k \in Column :
          /\ page' = [page EXCEPT !.modal = [@ EXCEPT !.column = k, !.saving = TRUE]]
          /\ rows' = IF page.modal.id \in Dialog!There
                       THEN [rows EXCEPT ![page.modal.id].chosen = @ \cup {k}] ELSE rows
    BY <1>7 DEF Dialog!ChooseColumn
  <2> DEFINE m == [page.modal EXCEPT !.column = k, !.saving = TRUE]
             id == page.modal.id
             row == [rows[id] EXCEPT !.chosen = rows[id].chosen \cup {k}]
  <2>4. id \in Card
    BY <2>2 DEF IsModal, KnownOf
  <2>5. rows' = IF rows[id] = None THEN rows ELSE [rows EXCEPT ![id] = row]
    BY <2>3, <2>4 DEF Dialog!There
  <2>6. rows[id] # None => /\ DOMAIN row = {"column", "texts", "chosen"} /\ row.texts = id
                           /\ row.column = rows[id].column
                           /\ row.chosen = rows[id].chosen \cup {k}
    BY <1>1, <2>4 DEF CardRows
  <2> HIDE DEF row
  <2>7. CardRows(rows') /\ Grown(rows, rows')
    BY <1>1, <2>4, <2>5, <2>6 DEF CardRows, Grown
  <2>8. WasChosen(rows', id, k)
    BY <1>1, <2>4, <2>5, <2>6 DEF CardRows, WasChosen
  <2>9. IsModal(m, rows')
    <3>1. IsModal(page.modal, rows')
      BY <2>2, <2>7, GrownFacts
    <3> QED
      BY <2>8, <3>1 DEF IsModal
  <2>10. page' = [page EXCEPT !.modal = m] /\ DialogPage(page, rows')
    BY <1>1, <2>3, <2>7, GrownFacts
  <2> HIDE DEF m, id
  <2>11. DialogPage(page', rows') /\ IsModal(page'.modal, rows')
    BY <2>9, <2>10 DEF DialogPage
  <2>12. HasDialog(net', page', rows')
    BY <2>11 DEF HasDialog
  <2>13. DialogCall(c, rows')
    BY <2>2, <2>7, GrownFacts
  <2> QED
    BY <2>2, <2>7, <2>11, <2>12, <2>13, DialogFrom
<1>8. CASE Dialog!RemoveCard
  <2> DEFINE c == Call("delete", page.modal.id)
  <2>1. net' = Append(net, c) /\ page' = page /\ rows' = rows /\ page.modal # None
    BY <1>8, DialogCalls DEF Dialog!RemoveCard, Dialog!Send
  <2>2. From(net, net', {c})
    BY <1>1, <2>1, FromSend
  <2>3. DialogCall(c, rows)
    BY DEF Call, DialogCall
  <2>4. IsModal(page.modal, rows)
    BY <1>1, <2>1 DEF DialogPage
  <2> HIDE DEF c
  <2> QED
    BY <1>1, <2>1, <2>2, <2>3, <2>4, DialogStays
<1> QED
  BY <1>3, <1>4, <1>6, <1>7, <1>8

\* The backend, and another member.
LEMMA DialogServed ==
  ASSUME DialogInv, NEW i \in DOMAIN net,
         \/ Dialog!ServeRead(i, "load", Dialog!Board) \/ Dialog!ServeUpdate(i)
         \/ Dialog!ServeMove(i) \/ Dialog!ServeDelete(i)
  PROVE  DialogInv'
<1>1. /\ IsNet(net) /\ CardRows(rows) /\ DialogPage(page, rows) /\ HasDialog(net, page, rows)
      /\ \A j \in DOMAIN net : DialogCall(net[j], rows)
  BY DEF DialogInv
<1>2. ASSUME NEW ans, Reply(i, ans), page' = page, CardRows(rows'), Grown(rows, rows'),
             net[i].op = "load" /\ ans \notin {Waiting, Failed} => KnownOfAll(ans, rows')
      PROVE  DialogInv'
  <2>1. /\ IsNet(net') /\ DOMAIN net' = DOMAIN net
        /\ net'[i].op = net[i].op /\ net'[i].arg = net[i].arg /\ net'[i].ans = ans
        /\ net'[i].gone = net[i].gone /\ \A j \in DOMAIN net \ {i} : net'[j] = net[j]
    BY <1>1, <1>2, NetReply
  <2>2. /\ DialogPage(page, rows') /\ HasDialog(net, page, rows')
        /\ \A j \in DOMAIN net : DialogCall(net[j], rows')
    BY <1>1, <1>2, GrownFacts
  <2>3. \A j \in DOMAIN net' : DialogCall(net'[j], rows')
    BY <1>2, <2>1, <2>2 DEF DialogCall
  <2>4. HasDialog(net', page, rows')
    BY <2>1, <2>2 DEF HasDialog
  <2> QED
    BY <1>2, <2>1, <2>2, <2>3, <2>4 DEF DialogInv
<1>3. CASE Dialog!ServeRead(i, "load", Dialog!Board)
  <2>1. PICK ans \in {Dialog!Board, Failed} : Reply(i, ans)
    BY <1>3, DialogCalls DEF Dialog!ServeRead
  <2>2. KnownOfAll(Dialog!Board, rows)
    BY <1>1 DEF KnownOfAll, KnownOf, WasChosen, CardRows, Dialog!Board, Dialog!There
  <2>3. page' = page /\ rows' = rows
    BY <1>3 DEF Dialog!ServeRead
  <2> QED
    BY <1>1, <1>2, <2>1, <2>2, <2>3, GrownSelf
<1>4. ASSUME net[i].op # "load", \E ans : Reply(i, ans), page' = page,
             CardRows(rows'), Grown(rows, rows')
      PROVE  DialogInv'
  BY <1>2, <1>4
<1>5. ASSUME Dialog!ServeRefusal(i, net[i].op), net[i].op # "load"
      PROVE  DialogInv'
  BY <1>1, <1>4, <1>5, GrownSelf, DialogCalls DEF Dialog!ServeRefusal
<1>6. CASE Dialog!ServeUpdate(i)
  <2> DEFINE in == net[i].arg
             row == [rows[in.id] EXCEPT !.texts = in.texts]
  <2>1. net[i].op = "update"
    BY <1>6 DEF Dialog!ServeUpdate, Dialog!Sent
  <2>2. CASE in.id \in Dialog!There
    <3>1. rows' = [rows EXCEPT ![in.id] = row] /\ page' = page /\ \E ans : Reply(i, ans)
      BY <1>6, <2>2, DialogCalls DEF Dialog!ServeUpdate, Dialog!Executed
    <3>2. in.id \in Card /\ rows[in.id] # None /\ in.texts = in.id
      BY <1>1, <2>1, <2>2 DEF DialogCall, Dialog!There
    <3>3. /\ DOMAIN row = {"column", "texts", "chosen"} /\ row.texts = in.id
          /\ row.column = rows[in.id].column /\ row.chosen = rows[in.id].chosen
      BY <1>1, <3>2 DEF CardRows
    <3> HIDE DEF row
    <3>4. CardRows(rows') /\ Grown(rows, rows')
      BY <1>1, <3>1, <3>2, <3>3 DEF CardRows, Grown
    <3> QED
      BY <1>4, <2>1, <3>1, <3>4
  <2>3. CASE in.id \notin Dialog!There
    BY <1>5, <1>6, <2>1, <2>3 DEF Dialog!ServeUpdate
  <2> QED
    BY <2>2, <2>3
<1>7. CASE Dialog!ServeMove(i)
  <2> DEFINE in == net[i].arg
             row == [rows[in.id] EXCEPT !.column = in.column]
  <2>1. net[i].op = "move"
    BY <1>7 DEF Dialog!ServeMove, Dialog!Sent
  <2>2. CASE in.id \in Dialog!There
    <3>1. rows' = [rows EXCEPT ![in.id] = row] /\ page' = page /\ \E ans : Reply(i, ans)
      BY <1>7, <2>2, DialogCalls DEF Dialog!ServeMove, Dialog!Executed
    <3>2. in.id \in Card /\ rows[in.id] # None /\ in.column \in rows[in.id].chosen
      BY <1>1, <2>1, <2>2 DEF DialogCall, WasChosen, Dialog!There
    <3>3. /\ DOMAIN row = {"column", "texts", "chosen"} /\ row.texts = in.id
          /\ row.column = in.column /\ row.chosen = rows[in.id].chosen
      BY <1>1, <3>2 DEF CardRows
    <3> HIDE DEF row
    <3>4. CardRows(rows') /\ Grown(rows, rows')
      BY <1>1, <3>1, <3>2, <3>3 DEF CardRows, Grown
    <3> QED
      BY <1>4, <2>1, <3>1, <3>4
  <2>3. CASE in.id \notin Dialog!There
    BY <1>5, <1>7, <2>1, <2>3 DEF Dialog!ServeMove
  <2> QED
    BY <2>2, <2>3
<1>8. CASE Dialog!ServeDelete(i)
  <2>1. net[i].op = "delete"
    BY <1>8 DEF Dialog!ServeDelete, Dialog!Sent
  <2>2. CASE net[i].arg \in Dialog!There
    <3>1. rows' = [rows EXCEPT ![net[i].arg] = None] /\ page' = page /\ \E ans : Reply(i, ans)
      BY <1>8, <2>2, DialogCalls DEF Dialog!ServeDelete, Dialog!Executed
    <3>2. CardRows(rows') /\ Grown(rows, rows')
      BY <1>1, <3>1 DEF CardRows, Grown
    <3> QED
      BY <1>4, <2>1, <3>1, <3>2
  <2>3. CASE net[i].arg \notin Dialog!There
    BY <1>5, <1>8, <2>1, <2>3 DEF Dialog!ServeDelete
  <2> QED
    BY <2>2, <2>3
<1> QED
  BY <1>3, <1>6, <1>7, <1>8

LEMMA DialogNextInv ==
  ASSUME DialogInv, Dialog!Next
  PROVE  DialogInv'
<1>1. /\ IsNet(net) /\ CardRows(rows) /\ DialogPage(page, rows) /\ HasDialog(net, page, rows)
  BY DEF DialogInv
<1>2. CASE Dialog!Elsewhere
  <2>1. PICK c \in Dialog!There, k \in Column :
          rows' = [rows EXCEPT ![c].column = k, ![c].chosen = @ \cup {k}]
    BY <1>2 DEF Dialog!Elsewhere
  <2> DEFINE row == [rows[c] EXCEPT !.column = k, !.chosen = rows[c].chosen \cup {k}]
  <2>2. c \in Card /\ rows[c] # None /\ rows' = [rows EXCEPT ![c] = row]
    BY <2>1 DEF Dialog!There
  <2>3. /\ DOMAIN row = {"column", "texts", "chosen"} /\ row.texts = c /\ row.column = k
        /\ row.chosen = rows[c].chosen \cup {k}
    BY <1>1, <2>2 DEF CardRows
  <2> HIDE DEF row
  <2>4. CardRows(rows') /\ Grown(rows, rows')
    BY <1>1, <2>2, <2>3 DEF CardRows, Grown
  <2>5. page' = page /\ net' = net
    BY <1>2 DEF Dialog!Elsewhere
  <2>6. From(net, net', {}) /\ DialogPage(page', rows') /\ HasDialog(net', page', rows')
    BY <1>1, <2>4, <2>5, GrownFacts, FromSelf
  <2> QED
    BY <2>4, <2>6, DialogFrom
<1> QED
  BY <1>2, DialogHandled, DialogEdited, DialogServed DEF Dialog!Next

LEMMA DialogInit == Dialog!Init => DialogInv
<1> SUFFICES ASSUME Dialog!Init PROVE DialogInv
  OBVIOUS
<1>1. PICK f \in [Card -> Column] :
        rows = [c \in Card |-> [column |-> f[c], texts |-> c, chosen |-> {f[c]}]]
  BY DEF Dialog!Init
<1>2. CardRows(rows)
  BY <1>1 DEF CardRows
<1>3. page = [cards |-> Dialog!Board, modal |-> None] /\ net = <<>>
  BY DEF Dialog!Init
<1>4. KnownOfAll(Dialog!Board, rows)
  BY <1>2 DEF KnownOfAll, KnownOf, WasChosen, CardRows, Dialog!Board, Dialog!There
<1>5. DialogPage(page, rows)
  BY <1>3, <1>4 DEF DialogPage
<1> QED
  BY <1>2, <1>3, <1>5, NetNone DEF DialogInv, HasDialog

-----------------------------------------------------------------------------
(* The tickets and their dialog: module TicketPages, with one ticket and   *)
(* all that hangs on it (Tickets), and with more (Ticket2).                *)

\* x are the texts of k, or the blanks of a dialog, and then there is a reason.
TextsOf(k, x, reason) == x = k \/ (x = None /\ reason)

AnyRow == [texts : Ticket \cup {None}, comments : Nat, files : SUBSET File,
           erased : SUBSET File]

AnyModal == [id : Ticket \cup {None}, loading : BOOLEAN, titled : BOOLEAN,
             texts : Ticket \cup {None}, comments : Nat, files : SUBSET File,
             saving : BOOLEAN, uploading : BOOLEAN]

TicketRows(r, b) ==
  /\ DOMAIN r \subseteq Ticket
  /\ \A k \in DOMAIN r : r[k] # None => r[k] \in AnyRow /\ TextsOf(k, r[k].texts, b)

\* Until its ticket has come a dialog shows blanks, which nobody can save.
TicketModal(m, b) ==
  m \in AnyModal /\ (m.id # None => TextsOf(m.id, m.texts, b \/ m.loading))

TicketPage(p) ==
  /\ {"tickets", "modal", "blanked"} \subseteq DOMAIN p
  /\ p.blanked \in BOOLEAN /\ DOMAIN p.tickets \subseteq Ticket
  /\ p.modal # None => TicketModal(p.modal, p.blanked)

TicketAnswer(op, arg, ans, b) ==
  /\ op = "load" => DOMAIN ans \subseteq Ticket
  /\ op = "get" => ans \in AnyRow /\ TextsOf(arg, ans.texts, b)
  /\ op = "create" => ans \in Ticket
  /\ op = "upload" => ans \in File

TicketCall(c, b) ==
  /\ c.op = "get" => c.arg \in Ticket
  /\ c.op = "update" => /\ c.arg.id \in Ticket /\ c.arg.texts \in Ticket \cup {None}
                        /\ TextsOf(c.arg.id, c.arg.texts, b)
  /\ c.ans \notin {Waiting, Failed} => TicketAnswer(c.op, c.arg, c.ans, b)

\* Who waits for the answer is there, and a ticket is fetched for its dialog.
Attended(c, m) ==
  ~c.gone => /\ c.op \in Tickets!ModalOps => m \in AnyModal
             /\ c.op = "get" => m.id = c.arg

\* No dialog fetches its ticket and creates one.
Apart(c, d) == ~(c.op = "get" /\ ~c.gone /\ d.op = "create" /\ ~d.gone)

TicketInv ==
  /\ TicketRows(rows, page.blanked) /\ TicketPage(page) /\ IsNet(net)
  /\ \A i \in DOMAIN net : TicketCall(net[i], page.blanked) /\ Attended(net[i], page.modal)
  /\ \A i, j \in DOMAIN net : Apart(net[i], net[j])

LEMMA TicketCalls ==
  /\ \A i : Tickets!Others(i) = Others(i)
  /\ \A op, arg : Tickets!Call(op, arg) = Call(op, arg)
  /\ \A i, ans : Tickets!Reply(i, ans) <=> Reply(i, ans)
  /\ \A calls, ops : Tickets!Unmounted(calls, ops) = Unmounted(calls, ops)
BY DEF Tickets!Others, Others, Tickets!Call, Call, Tickets!Reply, Reply, Tickets!Unmounted, Unmounted

LEMMA NoTicketModal == None \notin AnyModal /\ None \notin Ticket
BY NoneAssumption DEF AnyModal

LEMMA TicketMore ==
  ASSUME NEW a \in BOOLEAN, NEW b \in BOOLEAN, a => b
  PROVE  /\ \A r : TicketRows(r, a) => TicketRows(r, b)
         /\ \A m : TicketModal(m, a) => TicketModal(m, b)
         /\ \A c : TicketCall(c, a) => TicketCall(c, b)
<1>1. \A k, x, y : TextsOf(k, x, a \/ y) => TextsOf(k, x, b \/ y)
  BY DEF TextsOf
<1>2. \A k, x : TextsOf(k, x, a) => TextsOf(k, x, b)
  BY DEF TextsOf
<1>3. \A r : TicketRows(r, a) => TicketRows(r, b)
  BY <1>2 DEF TicketRows
<1>4. \A m : TicketModal(m, a) => TicketModal(m, b)
  BY <1>1 DEF TicketModal
<1>5. \A c : TicketCall(c, a) => TicketCall(c, b)
  BY <1>2 DEF TicketCall, TicketAnswer
<1> QED
  BY <1>3, <1>4, <1>5

LEMMA TicketFrom ==
  ASSUME TicketInv, TicketRows(rows', page'.blanked), TicketPage(page'),
         page.blanked => page'.blanked,
         NEW C, From(net, net', C),
         \A c \in C : TicketCall(c, page'.blanked) /\ Attended(c, page'.modal),
         \A i \in DOMAIN net' : Attended(net'[i], page'.modal),
         \A i, j \in DOMAIN net' : Apart(net'[i], net'[j])
  PROVE  TicketInv'
<1>1. page.blanked \in BOOLEAN /\ page'.blanked \in BOOLEAN
  BY DEF TicketInv, TicketPage
<1>2. \A k \in DOMAIN net : TicketCall(net[k], page'.blanked)
  BY <1>1, TicketMore DEF TicketInv
<1>3. \A c, d : Like(d, c) /\ TicketCall(c, page'.blanked) => TicketCall(d, page'.blanked)
  BY DEF Like, Same, TicketCall
<1>4. IsNet(net') /\ \A i \in DOMAIN net' : TicketCall(net'[i], page'.blanked)
  BY <1>2, <1>3 DEF From
<1> QED
  BY <1>4 DEF TicketInv

\* The dialog there is stays that of its ticket.
LEMMA TicketStays ==
  ASSUME TicketInv, TicketRows(rows', page'.blanked), TicketPage(page'),
         page.blanked => page'.blanked,
         page.modal # None => page'.modal # None /\ page'.modal.id = page.modal.id,
         NEW C, From(net, net', C),
         \A c \in C : /\ TicketCall(c, page'.blanked) /\ Attended(c, page'.modal)
                      /\ c.op = "get" => c.gone
                      /\ c.op = "create" /\ ~c.gone => page.modal # None /\ page.modal.id = None
  PROVE  TicketInv'
<1>1. page'.modal # None => page'.modal \in AnyModal
  BY DEF TicketPage, TicketModal
<1>2. \A k \in DOMAIN net : Attended(net[k], page'.modal)
  BY <1>1, NoTicketModal DEF TicketInv, Attended, Tickets!ModalOps
<1>3. \A c, d : Like(d, c) /\ Attended(c, page'.modal) => Attended(d, page'.modal)
  BY DEF Like, Same, Attended
<1>4. \A i \in DOMAIN net' : Attended(net'[i], page'.modal)
  BY <1>2, <1>3 DEF From
<1>5. ASSUME NEW i \in DOMAIN net', NEW j \in DOMAIN net', ~Apart(net'[i], net'[j])
      PROVE  FALSE
  <2>1. PICK k \in DOMAIN net : Like(net'[i], net[k])
    BY <1>5 DEF From, Like, Same, Apart
  <2>2. net[k].op = "get" /\ ~net[k].gone
    BY <1>5, <2>1 DEF Apart, Like, Same
  <2>3. net[k].arg # None /\ page.modal # None => page.modal.id # None
    BY <2>2, NoTicketModal DEF TicketInv, TicketCall, Attended
  <2>4. net[k].arg # None /\ net[k].arg \in Ticket
    BY <2>2, NoTicketModal DEF TicketInv, TicketCall
  <2>5. \E l \in DOMAIN net : Like(net'[j], net[l])
    BY <1>5, <2>3, <2>4 DEF From, Like, Same, Apart
  <2> QED
    BY <1>5, <2>2, <2>5 DEF TicketInv, Apart, Like, Same
<1> QED
  BY <1>4, <1>5, TicketFrom

\* The dialog is not there any more, and neither is it for what is under way.
LEMMA TicketLeft ==
  ASSUME TicketInv, rows' = rows, TicketPage(page'), page'.blanked = page.blanked,
         page'.modal = None, NEW t, From(net, t, {}), net' = Unmounted(t, Tickets!ModalOps)
  PROVE  TicketInv'
<1>1. From(net, net', {}) /\ \A j \in DOMAIN net' : ~net'[j].gone => net'[j].op \notin Tickets!ModalOps
  BY FromUnmounted
<1>2. \A j \in DOMAIN net' : Attended(net'[j], None)
  BY <1>1 DEF Attended, Tickets!ModalOps
<1>3. \A i, j \in DOMAIN net' : Apart(net'[i], net'[j])
  BY <1>1 DEF Apart, Tickets!ModalOps
<1>4. TicketRows(rows', page'.blanked)
  BY DEF TicketInv
<1> QED
  BY <1>1, <1>2, <1>3, <1>4, TicketFrom

\* What is opened in an empty place finds nobody waiting.
LEMMA NobodyWaits ==
  ASSUME TicketInv, page.modal = None
  PROVE  \A i \in DOMAIN net : ~net[i].gone => net[i].op \notin Tickets!ModalOps
BY NoTicketModal DEF TicketInv, Attended

\* The dialog with one thing changed that is not its ticket nor the texts.
LEMMA ModalEdited ==
  ASSUME NEW m, NEW b, TicketModal(m, b)
  PROVE  /\ \A x \in BOOLEAN :
              /\ TicketModal([m EXCEPT !.saving = x], b) /\ TicketModal([m EXCEPT !.titled = x], b)
              /\ [m EXCEPT !.saving = x].id = m.id /\ [m EXCEPT !.titled = x].id = m.id
         /\ \A x \in Nat : /\ TicketModal([m EXCEPT !.comments = x], b)
                           /\ [m EXCEPT !.comments = x].id = m.id
         /\ \A x \in SUBSET File, y \in BOOLEAN :
              /\ TicketModal([m EXCEPT !.files = x, !.uploading = y], b)
              /\ [m EXCEPT !.files = x, !.uploading = y].id = m.id
         /\ \A x \in SUBSET File : /\ TicketModal([m EXCEPT !.files = x], b)
                                   /\ [m EXCEPT !.files = x].id = m.id
         /\ \A x \in BOOLEAN : /\ TicketModal([m EXCEPT !.uploading = x], b)
                               /\ [m EXCEPT !.uploading = x].id = m.id
BY DEF TicketModal, AnyModal

\* The dialog is now m, still about its ticket, and sends what C has.
LEMMA TicketEdited ==
  ASSUME TicketInv, rows' = rows, page.modal # None,
         NEW m, TicketModal(m, page.blanked), m.id = page.modal.id,
         page' = [page EXCEPT !.modal = m],
         NEW C, From(net, net', C),
         \A c \in C : /\ TicketCall(c, page.blanked) /\ c.op # "get"
                      /\ c.op = "create" /\ ~c.gone => page.modal.id = None
  PROVE  TicketInv'
<1>1. m \in AnyModal /\ m # None
  BY NoTicketModal DEF TicketModal
<1>2. TicketPage(page') /\ page'.modal = m /\ page'.blanked = page.blanked
  BY DEF TicketInv, TicketPage
<1>3. TicketRows(rows', page'.blanked)
  BY <1>2 DEF TicketInv
<1>4. \A c \in C : Attended(c, page'.modal)
  BY <1>1, <1>2 DEF Attended
<1> QED
  BY <1>1, <1>2, <1>3, <1>4, TicketStays

\* The dialog, if any, is left alone.
LEMMA TicketListed ==
  ASSUME TicketInv, rows' = rows, TicketPage(page'), page'.modal = page.modal,
         page'.blanked = page.blanked, NEW C, From(net, net', C),
         \A c \in C : /\ TicketCall(c, page.blanked) /\ Attended(c, page.modal)
                      /\ c.op \notin {"get", "create"}
  PROVE  TicketInv'
<1>1. TicketRows(rows', page'.blanked)
  BY DEF TicketInv
<1> QED
  BY <1>1, TicketStays

\* The dialog of a new ticket is opened.
BlankOpened ==
  /\ page.modal = None /\ page' = [page EXCEPT !.modal = Tickets!Dialog(None, FALSE)]
  /\ UNCHANGED <<rows, net>>

LEMMA TicketOpened ==
  ASSUME TicketInv, Tickets!OpenTicket \/ BlankOpened \/ Tickets!CloseModal
  PROVE  TicketInv'
<1>1. /\ IsNet(net) /\ TicketPage(page) /\ TicketRows(rows, page.blanked)
      /\ \A i \in DOMAIN net : TicketCall(net[i], page.blanked) /\ Attended(net[i], page.modal)
      /\ From(net, net, {})
  BY FromSelf DEF TicketInv
\* A dialog m is opened, and fetches its ticket if it has one.
<1>2. ASSUME NEW m, TicketModal(m, page.blanked),
             page.modal = None, page' = [page EXCEPT !.modal = m],
             rows' = rows, NEW C, From(net, net', C),
             \A c \in C : TicketCall(c, page.blanked) /\ c.op = "get" /\ c.arg = m.id
      PROVE  TicketInv'
  <2>1. TicketPage(page') /\ page'.modal = m /\ page'.blanked = page.blanked
    BY <1>1, <1>2 DEF TicketPage
  <2>2. m \in AnyModal
    BY <1>2 DEF TicketModal
  <2>3. \A i \in DOMAIN net : ~net[i].gone => net[i].op \notin Tickets!ModalOps
    BY <1>2, NobodyWaits
  <2>4. \A j \in DOMAIN net' : /\ Attended(net'[j], m)
                               /\ ~net'[j].gone => net'[j].op # "create"
    BY <1>2, <2>2, <2>3 DEF From, Like, Same, Attended, Tickets!ModalOps
  <2>5. /\ \A c \in C : TicketCall(c, page'.blanked) /\ Attended(c, page'.modal)
        /\ TicketRows(rows', page'.blanked)
    BY <1>1, <1>2, <2>1, <2>2 DEF Attended
  <2> QED
    BY <1>2, <2>1, <2>4, <2>5, TicketFrom DEF Apart
<1>3. CASE Tickets!OpenTicket
  <2>1. PICK k \in DOMAIN page.tickets : /\ page' = [page EXCEPT !.modal = Tickets!Dialog(k, TRUE)]
                                         /\ Tickets!Send("get", k)
    BY <1>3 DEF Tickets!OpenTicket
  <2> DEFINE c == Call("get", k)
             m == Tickets!Dialog(k, TRUE)
  <2>2. net' = Append(net, c) /\ k \in Ticket
    BY <1>1, <2>1, TicketCalls DEF Tickets!Send, TicketPage
  <2>3. From(net, net', {c})
    BY <1>1, <2>2, FromSend
  <2>4. TicketModal(m, page.blanked) /\ m.id = k
    BY <2>2 DEF Tickets!Dialog, TicketModal, AnyModal, TextsOf
  <2>5. TicketCall(c, page.blanked) /\ c.op = "get" /\ c.arg = m.id
    <3> HIDE DEF m
    <3> QED
      BY <2>2, <2>4 DEF Call, TicketCall
  <2>6. page' = [page EXCEPT !.modal = m] /\ rows' = rows /\ page.modal = None
    BY <1>3, <2>1 DEF Tickets!OpenTicket
  <2> HIDE DEF c, m
  <2> QED
    BY <1>2, <2>3, <2>4, <2>5, <2>6
<1>4. CASE BlankOpened
  <2> DEFINE m == Tickets!Dialog(None, FALSE)
  <2>1. page' = [page EXCEPT !.modal = m] /\ rows' = rows /\ net' = net /\ page.modal = None
    BY <1>4 DEF BlankOpened
  <2>2. TicketModal(m, page.blanked)
    BY DEF Tickets!Dialog, TicketModal, AnyModal
  <2> HIDE DEF m
  <2> QED
    BY <1>1, <1>2, <2>1, <2>2
<1>5. CASE Tickets!CloseModal
  <2>1. /\ page' = [page EXCEPT !.modal = None] /\ rows' = rows
        /\ net' = Unmounted(net, Tickets!ModalOps)
    BY <1>5, TicketCalls DEF Tickets!CloseModal
  <2>2. TicketPage(page') /\ page'.blanked = page.blanked /\ page'.modal = None
    BY <1>1, <2>1 DEF TicketPage
  <2> QED
    BY <1>1, <2>1, <2>2, TicketLeft
<1> QED
  BY <1>3, <1>4, <1>5

\* What the user does in the dialog.
LEMMA TicketTyped ==
  ASSUME TicketInv,
         \/ Tickets!TypeTitle \/ Tickets!Submit \/ Tickets!Remove
         \/ Tickets!SubmitComment \/ Tickets!Upload \/ Tickets!RemoveAttachment
  PROVE  TicketInv'
<1> DEFINE m == page.modal
<1>1. IsNet(net) /\ TicketPage(page) /\ From(net, net, {})
  BY FromSelf DEF TicketInv
<1>2. Tickets!Editing /\ rows' = rows
  BY DEF Tickets!TypeTitle, Tickets!Submit, Tickets!Remove, Tickets!SubmitComment,
         Tickets!Upload, Tickets!RemoveAttachment
<1>3. /\ m # None /\ ~m.loading /\ TicketModal(m, page.blanked)
  BY <1>1, <1>2 DEF Tickets!Editing, TicketPage
<1>4. m \in AnyModal
  BY <1>3 DEF TicketModal
<1>5. CASE Tickets!TypeTitle
  <2> DEFINE n == [m EXCEPT !.titled = TRUE]
  <2>1. page' = [page EXCEPT !.modal = n] /\ net' = net
    BY <1>5 DEF Tickets!TypeTitle
  <2>2. TicketModal(n, page.blanked) /\ n.id = m.id
    BY <1>3, ModalEdited
  <2> HIDE DEF n
  <2> QED
    BY <1>1, <1>2, <1>3, <2>1, <2>2, TicketEdited
<1>6. ASSUME NEW op, op \in {"delete", "comment", "upload", "detach"}, NEW arg,
             net' = Append(net, Call(op, arg)),
             \/ page' = page \/ page' = [page EXCEPT !.modal.uploading = TRUE]
      PROVE  TicketInv'
  <2> DEFINE c == Call(op, arg)
  <2>1. From(net, net', {c}) /\ TicketCall(c, page.blanked) /\ c.op \notin {"get", "create"}
    <3>1. From(net, net', {c})
      BY <1>1, <1>6, FromSend
    <3>2. c.op = op /\ c.ans = Waiting
      BY DEF Call
    <3> HIDE DEF c
    <3>3. TicketCall(c, page.blanked)
      BY <1>6, <3>2 DEF TicketCall
    <3> QED
      BY <1>6, <3>1, <3>2, <3>3
  <2> HIDE DEF c
  <2>2. CASE page' = page
    <3>1. Attended(c, page.modal)
      BY <1>4, <2>1 DEF Attended
    <3> QED
      BY <1>1, <1>2, <2>1, <2>2, <3>1, TicketListed
  <2>3. CASE page' = [page EXCEPT !.modal.uploading = TRUE]
    <3> DEFINE n == [m EXCEPT !.uploading = TRUE]
    <3>1. page' = [page EXCEPT !.modal = n]
      BY <2>3
    <3>2. TicketModal(n, page.blanked) /\ n.id = m.id
      BY <1>3, ModalEdited
    <3> HIDE DEF n
    <3> QED
      BY <1>2, <1>3, <2>1, <3>1, <3>2, TicketEdited
  <2> QED
    BY <1>6, <2>2, <2>3
<1>7. CASE Tickets!Remove \/ Tickets!SubmitComment \/ Tickets!Upload \/ Tickets!RemoveAttachment
  <2>1. /\ \/ page' = page \/ page' = [page EXCEPT !.modal.uploading = TRUE]
        /\ \E op \in {"delete", "comment", "upload", "detach"} : \E arg : net' = Append(net, Call(op, arg))
    <3>1. CASE Tickets!Remove
      BY <3>1, TicketCalls DEF Tickets!Remove, Tickets!Send
    <3>2. CASE Tickets!SubmitComment
      BY <3>2, TicketCalls DEF Tickets!SubmitComment, Tickets!Send
    <3>3. CASE Tickets!Upload
      BY <3>3, TicketCalls DEF Tickets!Upload, Tickets!Send
    <3>4. CASE Tickets!RemoveAttachment
      BY <3>4, TicketCalls DEF Tickets!RemoveAttachment, Tickets!Send
    <3> QED
      BY <1>7, <3>1, <3>2, <3>3, <3>4
  <2> QED
    BY <1>6, <2>1
<1>8. CASE Tickets!Submit
  <2> DEFINE n == [m EXCEPT !.saving = TRUE]
             arg == [id |-> m.id, texts |-> m.texts]
  <2>1. page' = [page EXCEPT !.modal = n]
    BY <1>8 DEF Tickets!Submit
  <2>2. TicketModal(n, page.blanked) /\ n.id = m.id
    BY <1>3, ModalEdited
  <2>3. net' = Append(net, IF m.id = None THEN Call("create", None) ELSE Call("update", arg))
    BY <1>8, TicketCalls DEF Tickets!Submit, Tickets!Send
  <2> HIDE DEF n
  <2>4. CASE m.id = None
    <3> DEFINE c == Call("create", None)
    <3>1. From(net, net', {c}) /\ TicketCall(c, page.blanked) /\ c.op = "create"
      BY <1>1, <2>3, <2>4, FromSend DEF TicketCall, Call
    <3> HIDE DEF c
    <3> QED
      BY <1>2, <1>3, <2>1, <2>2, <2>4, <3>1, TicketEdited
  <2>5. CASE m.id # None
    <3> DEFINE c == Call("update", arg)
    <3>1. arg.id \in Ticket /\ arg.texts \in Ticket \cup {None} /\ TextsOf(arg.id, arg.texts, page.blanked)
      BY <1>3, <2>5 DEF TicketModal, AnyModal, TextsOf
    <3> HIDE DEF arg
    <3>2. From(net, net', {c}) /\ TicketCall(c, page.blanked) /\ c.op = "update"
      BY <1>1, <2>3, <2>5, <3>1, FromSend DEF TicketCall, Call
    <3> HIDE DEF c
    <3> QED
      BY <1>2, <1>3, <2>1, <2>2, <2>5, <3>2, TicketEdited
  <2> QED
    BY <2>4, <2>5
<1> QED
  BY <1>5, <1>7, <1>8

\* An answer is handled that changes at most the dialog, to m.
LEMMA TicketShown ==
  ASSUME TicketInv, NEW i \in DOMAIN net, rows' = rows, net' = Others(i),
         \/ page' = page
         \/ \E m : /\ page.modal # None /\ TicketModal(m, page.blanked) /\ m.id = page.modal.id
                   /\ page' = [page EXCEPT !.modal = m]
  PROVE  TicketInv'
<1>1. From(net, net', {}) /\ TicketPage(page)
  BY FromRest DEF TicketInv
<1> QED
  BY <1>1, TicketEdited, TicketListed

\* An answer, of a request that changed what is listed; the dialog goes.
LEMMA TicketDone ==
  ASSUME TicketInv, NEW i \in DOMAIN net, rows' = rows,
         net' = Unmounted(Others(i), Tickets!ModalOps),
         NEW t, DOMAIN t \subseteq Ticket, NEW w,
         \/ page' = [page EXCEPT !.tickets = t, !.modal = None]
         \/ page' = [page EXCEPT !.tickets = t, !.twice = w, !.modal = None]
  PROVE  TicketInv'
<1>1. From(net, Others(i), {}) /\ TicketPage(page)
  BY FromRest DEF TicketInv
<1>2. TicketPage(page') /\ page'.modal = None /\ page'.blanked = page.blanked
  BY <1>1 DEF TicketPage
<1> QED
  BY <1>1, <1>2, TicketLeft

LEMMA TicketLoaded ==
  ASSUME TicketInv, NEW i \in DOMAIN net, Tickets!Load(i) \/ Tickets!Got(i)
  PROVE  TicketInv'
<1>1. /\ IsNet(net) /\ TicketPage(page) /\ TicketRows(rows, page.blanked)
      /\ TicketCall(net[i], page.blanked) /\ Attended(net[i], page.modal)
  BY DEF TicketInv
<1>2. From(net, Others(i), {}) /\ page.blanked \in BOOLEAN
  BY <1>1, FromRest DEF TicketPage
<1>3. CASE Tickets!Load(i)
  <2>1. /\ net[i].op = "load" /\ net[i].ans # Waiting /\ net' = Others(i) /\ rows' = rows
        /\ page' = IF net[i].ans = Failed THEN page
                   ELSE [page EXCEPT !.tickets = net[i].ans, !.twice = {}]
    BY <1>3, TicketCalls DEF Tickets!Load, Tickets!Answered, Tickets!Handled
  <2>2. net[i].ans # Failed => DOMAIN net[i].ans \subseteq Ticket
    BY <1>1, <2>1 DEF TicketCall, TicketAnswer
  <2>3. TicketPage(page') /\ page'.modal = page.modal /\ page'.blanked = page.blanked
    BY <1>1, <2>1, <2>2 DEF TicketPage
  <2> QED
    BY <1>2, <2>1, <2>3, TicketListed
<1>4. CASE Tickets!Got(i)
  <2> DEFINE row == net[i].ans
             m == page.modal
             blank == [m EXCEPT !.loading = FALSE]
             full == [m EXCEPT !.loading = FALSE, !.titled = TRUE, !.texts = row.texts,
                               !.comments = row.comments, !.files = row.files]
  <2>1. /\ net[i].op = "get" /\ net[i].ans # Waiting /\ net' = Others(i) /\ rows' = rows
        /\ page' = IF net[i].gone THEN page
                   ELSE IF row = Failed THEN [page EXCEPT !.modal = blank, !.blanked = TRUE]
                   ELSE [page EXCEPT !.modal = full]
    BY <1>4, TicketCalls DEF Tickets!Got, Tickets!Answered, Tickets!Handled
  <2>2. CASE net[i].gone
    BY <2>1, <2>2, TicketShown
  <2>3. ASSUME ~net[i].gone
        PROVE  m # None /\ TicketModal(m, page.blanked) /\ m.id = net[i].arg /\ m.id \in Ticket
    BY <1>1, <2>1, <2>3, NoTicketModal DEF TicketCall, Attended, Tickets!ModalOps, TicketPage
  <2>4. CASE ~net[i].gone /\ row = Failed
    <3>1. TicketModal(blank, TRUE) /\ blank.id = m.id
      BY <2>3, <2>4 DEF TicketModal, AnyModal, TextsOf
    <3> HIDE DEF blank
    <3>2. /\ TicketPage(page') /\ page'.modal = blank /\ page'.blanked
      BY <1>1, <2>1, <2>4, <3>1 DEF TicketPage
    <3>3. TicketRows(rows', page'.blanked)
      <4>1. page'.blanked \in BOOLEAN
        BY <3>2 DEF TicketPage
      <4> QED
        BY <1>1, <1>2, <2>1, <3>2, <4>1, TicketMore
    <3>4. blank # None
      BY <3>1, NoTicketModal DEF TicketModal
    <3>5. /\ page.blanked => page'.blanked
          /\ page.modal # None => page'.modal # None /\ page'.modal.id = page.modal.id
          /\ From(net, net', {}) /\ TicketPage(page')
      BY <1>2, <2>1, <3>1, <3>2, <3>4
    <3> QED
      BY <3>3, <3>5, TicketStays
  <2>5. CASE ~net[i].gone /\ row # Failed
    <3>1. row \in AnyRow /\ TextsOf(m.id, row.texts, page.blanked)
      BY <1>1, <2>1, <2>3, <2>5 DEF TicketCall, TicketAnswer
    <3>2. TicketModal(full, page.blanked) /\ full.id = m.id
      BY <2>3, <2>5, <3>1 DEF TicketModal, AnyModal, AnyRow, TextsOf
    <3> HIDE DEF full
    <3> QED
      BY <2>1, <2>3, <2>5, <3>2, TicketShown
  <2> QED
    BY <2>2, <2>4, <2>5
<1> QED
  BY <1>3, <1>4

LEMMA TicketWritten ==
  ASSUME TicketInv, NEW i \in DOMAIN net,
         Tickets!Saved(i) \/ Tickets!Created(i) \/ Tickets!Deleted(i)
  PROVE  TicketInv'
<1>1. /\ IsNet(net) /\ TicketPage(page) /\ TicketRows(rows, page.blanked)
      /\ TicketCall(net[i], page.blanked) /\ Attended(net[i], page.modal)
      /\ From(net, Others(i), {}) /\ net[i].gone \in BOOLEAN
  BY FromRest DEF TicketInv, IsNet
<1> DEFINE m == page.modal
           idle == [m EXCEPT !.saving = FALSE]
<1>2. ASSUME net[i].op \in Tickets!ModalOps, ~net[i].gone
      PROVE  /\ m # None /\ TicketModal(m, page.blanked)
             /\ TicketModal(idle, page.blanked) /\ idle.id = m.id
  <2>1. m # None /\ TicketModal(m, page.blanked)
    BY <1>1, <1>2, NoTicketModal DEF Attended, TicketPage
  <2> QED
    BY <2>1, ModalEdited
<1>3. CASE Tickets!Saved(i)
  <2> DEFINE in == net[i].arg
             t == [k \in DOMAIN page.tickets \cup {in.id} |->
                     IF k = in.id THEN in.texts ELSE page.tickets[k]]
  <2>1. /\ net[i].op = "update" /\ rows' = rows /\ net[i].op \in Tickets!ModalOps
        /\ IF net[i].ans = Failed
             THEN /\ page' = IF net[i].gone THEN page ELSE [page EXCEPT !.modal = idle]
                  /\ net' = Others(i)
             ELSE /\ page' = [page EXCEPT !.tickets = t, !.modal = None]
                  /\ net' = Unmounted(Others(i), Tickets!ModalOps)
    BY <1>3, TicketCalls DEF Tickets!Saved, Tickets!Answered, Tickets!Handled, Tickets!ModalOps
  <2>2. DOMAIN t \subseteq Ticket
    BY <1>1, <2>1 DEF TicketCall, TicketPage
  <2> HIDE DEF t, idle
  <2>3. CASE net[i].ans = Failed
    BY <1>2, <2>1, <2>3, TicketShown
  <2>4. CASE net[i].ans # Failed
    BY <2>1, <2>2, <2>4, TicketDone
  <2> QED
    BY <2>3, <2>4
<1>4. CASE Tickets!Deleted(i)
  <2> DEFINE t == [k \in DOMAIN page.tickets \ {net[i].arg} |-> page.tickets[k]]
             w == page.twice \ {net[i].arg}
  <2>1. /\ rows' = rows
        /\ IF net[i].ans = Failed
             THEN page' = page /\ net' = Others(i)
             ELSE /\ page' = [page EXCEPT !.tickets = t, !.twice = w, !.modal = None]
                  /\ net' = Unmounted(Others(i), Tickets!ModalOps)
    BY <1>4, TicketCalls DEF Tickets!Deleted, Tickets!Handled
  <2>2. DOMAIN t \subseteq Ticket
    BY <1>1 DEF TicketPage
  <2> HIDE DEF t, w
  <2> QED
    BY <2>1, <2>2, TicketShown, TicketDone
\* The dialog becomes that of the ticket that it created.
<1>5. CASE Tickets!Created(i)
  <2> DEFINE id == net[i].ans
             stays == IF net[i].gone THEN m ELSE idle
             made == [stays EXCEPT !.id = id, !.texts = id]
             t == [k \in DOMAIN page.tickets \cup {id} |->
                     IF k = id THEN id ELSE page.tickets[k]]
             w == page.twice \cup (DOMAIN page.tickets \cap {id})
  <2>1. /\ net[i].op = "create" /\ id # Waiting /\ rows' = rows /\ net' = Others(i)
        /\ net[i].op \in Tickets!ModalOps
        /\ page' = IF id = Failed THEN [page EXCEPT !.modal = stays]
                   ELSE [page EXCEPT !.tickets = t, !.twice = w,
                                     !.modal = IF net[i].gone THEN stays ELSE made]
    BY <1>5, TicketCalls DEF Tickets!Created, Tickets!Answered, Tickets!Handled, Tickets!ModalOps
  <2>2. id # Failed => id \in Ticket /\ DOMAIN t \subseteq Ticket
    BY <1>1, <2>1 DEF TicketCall, TicketAnswer, TicketPage
  <2>3. m # None => stays # None /\ TicketModal(stays, page.blanked) /\ stays.id = m.id
    <3>1. m # None => TicketModal(m, page.blanked)
      BY <1>1 DEF TicketPage
    <3>2. m # None => TicketModal(idle, page.blanked) /\ idle.id = m.id
      BY <3>1, ModalEdited
    <3> HIDE DEF m, idle
    <3> QED
      BY <3>1, <3>2, NoTicketModal DEF TicketModal
  <2>4. m = None => stays = None
    BY <1>2, <2>1
  <2> HIDE DEF t, w
  <2>5. CASE id = Failed \/ net[i].gone
    <3> HIDE DEF stays
    <3>1. /\ page'.modal = stays /\ page'.blanked = page.blanked
          /\ {"tickets", "modal", "blanked"} \subseteq DOMAIN page'
          /\ DOMAIN page'.tickets \subseteq Ticket
      BY <1>1, <2>1, <2>2, <2>5 DEF TicketPage
    <3>2. TicketPage(page')
      BY <1>1, <2>3, <2>4, <3>1 DEF TicketPage
    <3>3. TicketRows(rows', page'.blanked)
      BY <1>1, <2>1, <3>1
    <3>4. /\ page.blanked => page'.blanked
          /\ page.modal # None => page'.modal # None /\ page'.modal.id = page.modal.id
          /\ From(net, net', {})
      BY <1>1, <2>1, <2>3, <3>1
    <3> QED
      BY <3>2, <3>3, <3>4, TicketStays
  <2>6. CASE id # Failed /\ ~net[i].gone
    <3>1. TicketModal(stays, page.blanked)
      BY <1>2, <2>1, <2>3, <2>6
    <3> HIDE DEF stays
    <3>2. TicketModal(made, page.blanked) /\ made \in AnyModal
      BY <2>2, <2>6, <3>1 DEF TicketModal, AnyModal, TextsOf
    <3> HIDE DEF made
    <3>3. TicketPage(page') /\ page'.modal = made /\ page'.blanked = page.blanked
      BY <1>1, <2>1, <2>2, <2>6, <3>2 DEF TicketPage
    <3>4. \A k \in DOMAIN net : net[k].op = "get" => net[k].gone
      BY <2>1, <2>6 DEF TicketInv, Apart
    <3>5. \A j \in DOMAIN net' : net'[j].op = "get" => net'[j].gone
      BY <1>1, <2>1, <3>4 DEF From, Like, Same
    <3>6. \A j \in DOMAIN net' : Attended(net'[j], page'.modal)
      BY <3>2, <3>3, <3>5 DEF Attended
    <3>7. \A j, k \in DOMAIN net' : Apart(net'[j], net'[k])
      BY <3>5 DEF Apart
    <3>8. TicketRows(rows', page'.blanked) /\ From(net, net', {})
      BY <1>1, <2>1, <3>3
    <3> QED
      BY <3>3, <3>6, <3>7, <3>8, TicketFrom
  <2> QED
    BY <2>5, <2>6
<1> QED
  BY <1>3, <1>4, <1>5

LEMMA TicketDiscussed ==
  ASSUME TicketInv, NEW i \in DOMAIN net,
         Tickets!Commented(i) \/ Tickets!Uploaded(i) \/ Tickets!Detached(i)
  PROVE  TicketInv'
<1>1. /\ IsNet(net) /\ TicketPage(page) /\ TicketRows(rows, page.blanked)
      /\ TicketCall(net[i], page.blanked) /\ Attended(net[i], page.modal)
      /\ From(net, Others(i), {}) /\ net[i].gone \in BOOLEAN
  BY FromRest DEF TicketInv, IsNet
<1> DEFINE m == page.modal
<1>2. ASSUME net[i].op \in Tickets!ModalOps, ~net[i].gone
      PROVE  m # None /\ TicketModal(m, page.blanked) /\ m \in AnyModal
  BY <1>1, <1>2, NoTicketModal DEF Attended, TicketPage
<1>3. CASE Tickets!Commented(i)
  <2> DEFINE x == m.comments + 1
             n == [m EXCEPT !.comments = x]
  <2>1. /\ rows' = rows /\ net' = Others(i) /\ net[i].op \in Tickets!ModalOps
        /\ page' = IF net[i].ans = Failed \/ net[i].gone THEN page ELSE [page EXCEPT !.modal = n]
    BY <1>3, TicketCalls
    DEF Tickets!Commented, Tickets!Answered, Tickets!Handled, Tickets!ModalOps
  <2>2. ~net[i].gone => x \in Nat
    BY <1>2, <2>1 DEF AnyModal
  <2>3. ~net[i].gone => TicketModal(n, page.blanked) /\ n.id = m.id
    <3> HIDE DEF x
    <3> QED
      BY <1>2, <2>1, <2>2, ModalEdited
  <2> HIDE DEF n
  <2> QED
    BY <1>2, <2>1, <2>3, TicketShown
<1>4. CASE Tickets!Detached(i)
  <2> DEFINE x == m.files \ {net[i].arg.file}
             n == [m EXCEPT !.files = x]
  <2>1. /\ rows' = rows /\ net' = Others(i) /\ net[i].op \in Tickets!ModalOps
        /\ page' = IF net[i].ans = Failed \/ net[i].gone THEN page ELSE [page EXCEPT !.modal = n]
    BY <1>4, TicketCalls
    DEF Tickets!Detached, Tickets!Answered, Tickets!Handled, Tickets!ModalOps
  <2>2. ~net[i].gone => x \in SUBSET File
    BY <1>2, <2>1 DEF AnyModal
  <2>3. ~net[i].gone => TicketModal(n, page.blanked) /\ n.id = m.id
    <3> HIDE DEF x
    <3> QED
      BY <1>2, <2>1, <2>2, ModalEdited
  <2> HIDE DEF n
  <2> QED
    BY <1>2, <2>1, <2>3, TicketShown
\* The next file of a batch is sent by who sent this one.
<1>5. CASE Tickets!Uploaded(i)
  <2> DEFINE file == net[i].ans
             more == file # Failed /\ net[i].arg.left > 0
             x == IF file = Failed THEN m.files ELSE m.files \cup {file}
             n == [m EXCEPT !.files = x, !.uploading = more]
             arg == [net[i].arg EXCEPT !.left = 0]
             c == [Call("upload", arg) EXCEPT !.gone = net[i].gone]
  <2>1. /\ net[i].op = "upload" /\ file # Waiting /\ rows' = rows
        /\ net[i].op \in Tickets!ModalOps
    BY <1>5 DEF Tickets!Uploaded, Tickets!Answered, Tickets!ModalOps
  <2>2. /\ page' = IF net[i].gone THEN page ELSE [page EXCEPT !.modal = n]
        /\ net' = IF ~more THEN Others(i) ELSE Append(Others(i), c)
    BY <1>5, TicketCalls DEF Tickets!Uploaded
  <2>3. ~net[i].gone => x \in SUBSET File
    BY <1>1, <1>2, <2>1 DEF AnyModal, TicketCall, TicketAnswer
  <2>4. ~net[i].gone => TicketModal(n, page.blanked) /\ n.id = m.id
    <3>1. more \in BOOLEAN
      OBVIOUS
    <3>2. ~net[i].gone => TicketModal(m, page.blanked)
      BY <1>2, <2>1
    <3> HIDE DEF x, more, m
    <3>3. ASSUME ~net[i].gone
          PROVE  TicketModal(n, page.blanked) /\ n.id = m.id
      <4>1. TicketModal(m, page.blanked) /\ x \in SUBSET File
        BY <2>3, <3>2, <3>3
      <4>2. \A z \in SUBSET File, y \in BOOLEAN :
              /\ TicketModal([m EXCEPT !.files = z, !.uploading = y], page.blanked)
              /\ [m EXCEPT !.files = z, !.uploading = y].id = m.id
        BY <4>1 DEF TicketModal, AnyModal
      <4> QED
        BY <3>1, <4>1, <4>2
    <3> QED
      BY <3>3
  <2> HIDE DEF n
  <2>5. /\ DOMAIN c = CallFields /\ c.op = "upload" /\ c.ans = Waiting
        /\ c.late = FALSE /\ c.gone = net[i].gone
    <3> DEFINE b == Call("upload", arg)
    <3> HIDE DEF arg
    <3>1. /\ DOMAIN b = CallFields /\ b.op = "upload" /\ b.ans = Waiting /\ b.late = FALSE
      BY DEF Call, CallFields
    <3>2. c = [b EXCEPT !.gone = net[i].gone]
      OBVIOUS
    <3> HIDE DEF b, c
    <3> QED
      BY <3>1, <3>2 DEF CallFields
  <2> HIDE DEF c
  <2>6. TicketCall(c, page.blanked) /\ From(net, Append(Others(i), c), {c})
    <3>1. c.late \in BOOLEAN /\ c.gone \in BOOLEAN
      BY <1>1, <2>5
    <3> QED
      BY <1>1, <2>5, <3>1, FromAppend DEF TicketCall
  <2>7. CASE ~more
    BY <1>2, <2>1, <2>2, <2>4, <2>7, TicketShown
  <2>8. CASE more /\ net[i].gone
    <3>1. Attended(c, page.modal)
      BY <2>5, <2>8 DEF Attended
    <3> QED
      BY <1>1, <2>1, <2>2, <2>5, <2>6, <2>8, <3>1, TicketListed
  <2>9. CASE more /\ ~net[i].gone
    BY <1>2, <2>1, <2>2, <2>4, <2>5, <2>6, <2>9, TicketEdited
  <2> QED
    BY <2>7, <2>8, <2>9
<1> QED
  BY <1>3, <1>4, <1>5

\* The backend: what it answers is true, and what it writes is of the ticket.
LEMMA TicketServed ==
  ASSUME TicketInv, NEW i \in DOMAIN net, NEW ans, Reply(i, ans), page' = page,
         TicketRows(rows', page.blanked),
         ans = Failed \/ TicketAnswer(net[i].op, net[i].arg, ans, page.blanked)
  PROVE  TicketInv'
<1>1. /\ IsNet(net') /\ DOMAIN net' = DOMAIN net
      /\ net'[i].op = net[i].op /\ net'[i].arg = net[i].arg /\ net'[i].ans = ans
      /\ net'[i].gone = net[i].gone /\ \A j \in DOMAIN net \ {i} : net'[j] = net[j]
  BY NetReply DEF TicketInv
<1>2. \A j \in DOMAIN net' : TicketCall(net'[j], page.blanked) /\ Attended(net'[j], page.modal)
  BY <1>1 DEF TicketInv, TicketCall, Attended
<1>3. \A j, k \in DOMAIN net' : Apart(net'[j], net'[k])
  BY <1>1 DEF TicketInv, Apart
<1> QED
  BY <1>1, <1>2, <1>3 DEF TicketInv

\* The backend accepts a write, or refuses it.
LEMMA TicketExecuted ==
  ASSUME TicketInv, NEW i \in DOMAIN net, page' = page,
         NEW new, TicketRows(new, page.blanked), rows' \in {rows, new},
         NEW ans, TicketAnswer(net[i].op, net[i].arg, ans, page.blanked),
         Reply(i, ans) \/ Reply(i, Failed)
  PROVE  TicketInv'
<1>1. TicketRows(rows', page.blanked)
  BY DEF TicketInv
<1> QED
  BY <1>1, TicketServed

\* What a request for a new ticket, a comment or an attachment leads to.
Added(i) ==
  \/ rows' = rows /\ Reply(i, Failed)
  \/ net[i].op = "create" /\ \E k \in Ticket \ DOMAIN rows :
       /\ rows' \in {rows, [j \in DOMAIN rows \cup {k} |->
                              IF j = k THEN [texts |-> k, comments |-> 0, files |-> {}, erased |-> {}]
                              ELSE rows[j]]}
       /\ Reply(i, k) \/ Reply(i, Failed)
  \/ net[i].op = "comment" /\ \E k \in Tickets!There :
       /\ rows' \in {rows, [rows EXCEPT ![k].comments = @ + 1]}
       /\ Reply(i, Done) \/ Reply(i, Failed)
  \/ net[i].op = "upload" /\ \E k \in Tickets!There, f \in File :
       /\ rows' \in {rows, [rows EXCEPT ![k].files = @ \cup {f}]}
       /\ Reply(i, f) \/ Reply(i, Failed)

\* A row with something added is still a row with its ticket's texts.
LEMMA RowChanged ==
  ASSUME NEW r, NEW b, TicketRows(r, b), NEW k \in DOMAIN r, NEW row,
         row = None \/ (row \in AnyRow /\ TextsOf(k, row.texts, b))
  PROVE  TicketRows([r EXCEPT ![k] = row], b)
BY DEF TicketRows

LEMMA TicketAdded ==
  ASSUME TicketInv, NEW i \in DOMAIN net, page' = page, Added(i)
  PROVE  TicketInv'
<1>1. TicketRows(rows, page.blanked)
  BY DEF TicketInv
<1>2. \A k \in Tickets!There : /\ k \in DOMAIN rows /\ rows[k] \in AnyRow
                               /\ TextsOf(k, rows[k].texts, page.blanked)
  BY <1>1 DEF Tickets!There, TicketRows
<1>3. CASE rows' = rows /\ Reply(i, Failed)
  BY <1>1, <1>3, TicketServed
<1>4. ASSUME net[i].op = "create", NEW k \in Ticket \ DOMAIN rows,
             rows' \in {rows, [j \in DOMAIN rows \cup {k} |->
                                 IF j = k THEN [texts |-> k, comments |-> 0, files |-> {}, erased |-> {}]
                                 ELSE rows[j]]},
             Reply(i, k) \/ Reply(i, Failed)
      PROVE  TicketInv'
  <2> DEFINE row == [texts |-> k, comments |-> 0, files |-> {}, erased |-> {}]
             new == [j \in DOMAIN rows \cup {k} |-> IF j = k THEN row ELSE rows[j]]
  <2>1. row \in AnyRow /\ TextsOf(k, row.texts, page.blanked)
    BY DEF AnyRow, TextsOf
  <2>2. TicketRows(new, page.blanked)
    <3> HIDE DEF row
    <3> QED
      BY <1>1, <2>1 DEF TicketRows
  <2>3. TicketAnswer(net[i].op, net[i].arg, k, page.blanked) /\ rows' \in {rows, new}
    BY <1>4 DEF TicketAnswer
  <2> HIDE DEF new
  <2> QED
    BY <1>4, <2>2, <2>3, TicketExecuted
<1>5. ASSUME net[i].op = "comment", NEW k \in Tickets!There,
             rows' \in {rows, [rows EXCEPT ![k].comments = @ + 1]},
             Reply(i, Done) \/ Reply(i, Failed)
      PROVE  TicketInv'
  <2> DEFINE row == [rows[k] EXCEPT !.comments = rows[k].comments + 1]
             new == [rows EXCEPT ![k] = row]
  <2>1. row \in AnyRow /\ row.texts = rows[k].texts
    BY <1>2 DEF AnyRow
  <2>2. TicketRows(new, page.blanked)
    <3> HIDE DEF row
    <3> QED
      BY <1>1, <1>2, <2>1, RowChanged
  <2>3. TicketAnswer(net[i].op, net[i].arg, Done, page.blanked) /\ rows' \in {rows, new}
    BY <1>5 DEF TicketAnswer
  <2> HIDE DEF new
  <2> QED
    BY <1>5, <2>2, <2>3, TicketExecuted
<1>6. ASSUME net[i].op = "upload", NEW k \in Tickets!There, NEW f \in File,
             rows' \in {rows, [rows EXCEPT ![k].files = @ \cup {f}]},
             Reply(i, f) \/ Reply(i, Failed)
      PROVE  TicketInv'
  <2> DEFINE row == [rows[k] EXCEPT !.files = rows[k].files \cup {f}]
             new == [rows EXCEPT ![k] = row]
  <2>1. row \in AnyRow /\ row.texts = rows[k].texts
    BY <1>2 DEF AnyRow
  <2>2. TicketRows(new, page.blanked)
    <3> HIDE DEF row
    <3> QED
      BY <1>1, <1>2, <2>1, RowChanged
  <2>3. TicketAnswer(net[i].op, net[i].arg, f, page.blanked) /\ rows' \in {rows, new}
    BY <1>6 DEF TicketAnswer
  <2> HIDE DEF new
  <2> QED
    BY <1>6, <2>2, <2>3, TicketExecuted
<1> QED
  BY <1>3, <1>4, <1>5, <1>6 DEF Added

LEMMA TicketAnswered ==
  ASSUME TicketInv, NEW i \in DOMAIN net,
         \/ Tickets!ServeRead(i, "load", Tickets!Summary) \/ Tickets!ServeGet(i)
         \/ Tickets!ServeUpdate(i) \/ Tickets!ServeDetach(i) \/ Tickets!ServeDelete(i)
  PROVE  TicketInv'
<1>1. TicketRows(rows, page.blanked) /\ TicketCall(net[i], page.blanked)
  BY DEF TicketInv
<1>2. \A k \in Tickets!There : /\ k \in DOMAIN rows /\ rows[k] \in AnyRow
                               /\ TextsOf(k, rows[k].texts, page.blanked)
  BY <1>1 DEF Tickets!There, TicketRows
<1>3. ASSUME rows' = rows, page' = page, Reply(i, Failed)
      PROVE  TicketInv'
  BY <1>1, <1>3, TicketServed
<1>4. CASE Tickets!ServeRead(i, "load", Tickets!Summary)
  <2> DEFINE s == Tickets!Summary
  <2>1. /\ net[i].op = "load" /\ rows' = rows /\ page' = page
        /\ Reply(i, s) \/ Reply(i, Failed)
    BY <1>4, TicketCalls DEF Tickets!ServeRead, Tickets!Sent
  <2>2. TicketAnswer(net[i].op, net[i].arg, s, page.blanked)
    BY <1>1, <2>1 DEF TicketAnswer, TicketRows, Tickets!Summary, Tickets!There
  <2> HIDE DEF s
  <2> QED
    BY <1>1, <1>3, <2>1, <2>2, TicketServed
<1>5. CASE Tickets!ServeGet(i)
  <2> DEFINE row == rows[net[i].arg]
  <2>1. /\ net[i].op = "get" /\ rows' = rows /\ page' = page
        /\ Reply(i, Failed) \/ (net[i].arg \in Tickets!There /\ Reply(i, row))
    BY <1>5, TicketCalls
    DEF Tickets!ServeGet, Tickets!ServeRead, Tickets!ServeRefusal, Tickets!Sent
  <2>2. net[i].arg \in Tickets!There => TicketAnswer(net[i].op, net[i].arg, row, page.blanked)
    BY <1>2, <2>1 DEF TicketAnswer
  <2> HIDE DEF row
  <2> QED
    BY <1>1, <1>3, <2>1, <2>2, TicketServed
\* A write of one row, which is answered with nothing of interest.
<1>6. ASSUME page' = page, net[i].op \in {"update", "detach", "delete"},
             NEW k \in Tickets!There, NEW row,
             row = None \/ (row \in AnyRow /\ TextsOf(k, row.texts, page.blanked)),
             rows' \in {rows, [rows EXCEPT ![k] = row]},
             Reply(i, Done) \/ Reply(i, Failed)
      PROVE  TicketInv'
  <2> DEFINE new == [rows EXCEPT ![k] = row]
  <2>1. TicketRows(new, page.blanked)
    BY <1>1, <1>2, <1>6, RowChanged
  <2>2. TicketAnswer(net[i].op, net[i].arg, Done, page.blanked) /\ rows' \in {rows, new}
    BY <1>6 DEF TicketAnswer
  <2> HIDE DEF new
  <2> QED
    BY <1>6, <2>1, <2>2, TicketExecuted
<1>7. CASE Tickets!ServeUpdate(i)
  <2> DEFINE in == net[i].arg
             row == [rows[in.id] EXCEPT !.texts = in.texts]
  <2>1. net[i].op = "update" /\ page' = page
    BY <1>7 DEF Tickets!ServeUpdate, Tickets!ServeWrite, Tickets!ServeRefusal, Tickets!Sent
  <2>2. CASE in.id \in Tickets!There
    <3>1. /\ rows' \in {rows, [rows EXCEPT ![in.id] = row]}
          /\ Reply(i, Done) \/ Reply(i, Failed)
      BY <1>7, <2>2, TicketCalls DEF Tickets!ServeUpdate, Tickets!ServeWrite
    <3>2. row \in AnyRow /\ TextsOf(in.id, row.texts, page.blanked)
      BY <1>1, <1>2, <2>1, <2>2 DEF TicketCall, AnyRow
    <3> HIDE DEF row
    <3> QED
      BY <1>6, <2>1, <2>2, <3>1, <3>2
  <2>3. CASE in.id \notin Tickets!There
    BY <1>3, <1>7, <2>3, TicketCalls DEF Tickets!ServeUpdate, Tickets!ServeRefusal
  <2> QED
    BY <2>2, <2>3
<1>8. CASE Tickets!ServeDetach(i)
  <2> DEFINE in == net[i].arg
             row == [rows[in.id] EXCEPT !.files = rows[in.id].files \ {in.file},
                                        !.erased = rows[in.id].erased \cup {in.file}]
  <2>1. net[i].op = "detach" /\ page' = page
    BY <1>8 DEF Tickets!ServeDetach, Tickets!ServeWrite, Tickets!ServeRefusal, Tickets!Sent
  <2>2. CASE in.id \in Tickets!There /\ in.file \in rows[in.id].files
    <3>1. /\ rows' \in {rows, [rows EXCEPT ![in.id].files = @ \ {in.file},
                                           ![in.id].erased = @ \cup {in.file}]}
          /\ Tickets!Reply(i, Done) \/ Tickets!Reply(i, Failed)
      BY <1>8, <2>2 DEF Tickets!ServeDetach, Tickets!ServeWrite
    <3>4. Reply(i, Done) \/ Reply(i, Failed)
      BY <3>1, TicketCalls
    <3>2. [rows EXCEPT ![in.id].files = @ \ {in.file}, ![in.id].erased = @ \cup {in.file}]
            = [rows EXCEPT ![in.id] = row]
      BY <1>2, <2>2 DEF AnyRow
    <3>3. row \in AnyRow /\ TextsOf(in.id, row.texts, page.blanked)
      <4>1. rows[in.id] \in AnyRow /\ TextsOf(in.id, rows[in.id].texts, page.blanked)
        BY <1>2, <2>2
      <4>2. /\ rows[in.id].files \ {in.file} \in SUBSET File
            /\ rows[in.id].erased \cup {in.file} \in SUBSET File
        BY <2>2, <4>1 DEF AnyRow
      <4>3. row \in AnyRow /\ row.texts = rows[in.id].texts
        BY <4>1, <4>2 DEF AnyRow
      <4> QED
        BY <4>1, <4>3
    <3> HIDE DEF row
    <3> QED
      BY <1>6, <2>1, <2>2, <3>1, <3>2, <3>3, <3>4
  <2>3. CASE ~(in.id \in Tickets!There /\ in.file \in rows[in.id].files)
    BY <1>3, <1>8, <2>3, TicketCalls DEF Tickets!ServeDetach, Tickets!ServeRefusal
  <2> QED
    BY <2>2, <2>3
<1>9. CASE Tickets!ServeDelete(i)
  <2>1. net[i].op = "delete" /\ page' = page
    BY <1>9 DEF Tickets!ServeDelete, Tickets!ServeWrite, Tickets!ServeRefusal, Tickets!Sent
  <2>2. CASE net[i].arg \in Tickets!There
    <3>1. /\ rows' \in {rows, [rows EXCEPT ![net[i].arg] = None]}
          /\ Reply(i, Done) \/ Reply(i, Failed)
      BY <1>9, <2>2, TicketCalls DEF Tickets!ServeDelete, Tickets!ServeWrite
    <3> QED
      BY <1>6, <2>1, <2>2, <3>1
  <2>3. CASE net[i].arg \notin Tickets!There
    BY <1>3, <1>9, <2>3, TicketCalls DEF Tickets!ServeDelete, Tickets!ServeRefusal
  <2> QED
    BY <2>2, <2>3
<1> QED
  BY <1>4, <1>5, <1>7, <1>8, <1>9

\* Somebody else deletes a ticket.
LEMMA TicketElsewhere ==
  ASSUME TicketInv, Tickets!Elsewhere
  PROVE  TicketInv'
<1>1. PICK k \in Tickets!There : rows' = [rows EXCEPT ![k] = None] /\ page' = page /\ net' = net
  BY DEF Tickets!Elsewhere, Tickets!Foreign
<1>2. k \in DOMAIN rows /\ TicketRows(rows, page.blanked)
  BY <1>1 DEF Tickets!There, TicketInv
<1>3. TicketRows(rows', page.blanked)
  BY <1>1, <1>2, RowChanged
<1> QED
  BY <1>1, <1>3 DEF TicketInv

\* The two instances of the module differ in which tickets and files there may be.
LEMMA TicketsAdd ==
  ASSUME NEW i \in DOMAIN net,
         Tickets!ServeCreate(i) \/ Tickets!ServeComment(i) \/ Tickets!ServeUpload(i)
  PROVE  page' = page /\ Added(i)
<1>1. OneOf(Ticket) \subseteq Ticket
  BY DEF OneOf
<1>2. CASE Tickets!ServeCreate(i)
  BY <1>1, <1>2, TicketCalls
  DEF Tickets!ServeCreate, Tickets!ServeWrite, Tickets!Sent, Tickets!Have, Tickets!Blank, Added
<1>3. CASE Tickets!ServeComment(i)
  BY <1>3, TicketCalls
  DEF Tickets!ServeComment, Tickets!ServeWrite, Tickets!ServeRefusal, Tickets!Sent, Added
<1>4. CASE Tickets!ServeUpload(i)
  BY <1>4, TicketCalls
  DEF Tickets!ServeUpload, Tickets!ServeWrite, Tickets!ServeRefusal, Tickets!Sent, Added
<1> QED
  BY <1>2, <1>3, <1>4

LEMMA Ticket2Calls ==
  /\ \A i, ans : Ticket2!Reply(i, ans) <=> Reply(i, ans)
  /\ Ticket2!There = Tickets!There
BY DEF Ticket2!Reply, Reply, Ticket2!There, Tickets!There

LEMMA Ticket2Add ==
  ASSUME NEW i \in DOMAIN net,
         Ticket2!ServeCreate(i) \/ Ticket2!ServeComment(i) \/ Ticket2!ServeUpload(i)
  PROVE  page' = page /\ Added(i)
<1>1. CASE Ticket2!ServeCreate(i)
  BY <1>1, Ticket2Calls
  DEF Ticket2!ServeCreate, Ticket2!ServeWrite, Ticket2!Sent, Ticket2!Have, Ticket2!Blank, Added
<1>2. CASE Ticket2!ServeComment(i)
  BY <1>2, Ticket2Calls
  DEF Ticket2!ServeComment, Ticket2!ServeWrite, Ticket2!ServeRefusal, Ticket2!Sent, Added
<1>3. CASE Ticket2!ServeUpload(i)
  BY <1>3, Ticket2Calls
  DEF Ticket2!ServeUpload, Ticket2!ServeWrite, Ticket2!ServeRefusal, Ticket2!Sent, Added
<1> QED
  BY <1>1, <1>2, <1>3

LEMMA TicketNextInv ==
  ASSUME TicketInv, Tickets!Next
  PROVE  TicketInv'
BY TicketOpened, TicketTyped, TicketElsewhere, TicketLoaded, TicketWritten, TicketDiscussed,
   TicketAnswered, TicketsAdd, TicketAdded
DEF Tickets!Next, Tickets!NewTicket, BlankOpened

\* All other actions are the same ones, or narrower by their bounds.
LEMMA TicketsAlike ==
  /\ Ticket2!OpenTicket <=> Tickets!OpenTicket
  /\ Ticket2!NewTicket => BlankOpened
  /\ Ticket2!CloseModal <=> Tickets!CloseModal
  /\ Ticket2!TypeTitle <=> Tickets!TypeTitle
  /\ Ticket2!Submit <=> Tickets!Submit
  /\ Ticket2!Remove <=> Tickets!Remove
  /\ Ticket2!SubmitComment => Tickets!SubmitComment
  /\ Ticket2!Upload => Tickets!Upload
  /\ Ticket2!RemoveAttachment <=> Tickets!RemoveAttachment
  /\ Ticket2!Elsewhere <=> Tickets!Elsewhere
<1>1. /\ Ticket2!OpenTicket <=> Tickets!OpenTicket
      /\ Ticket2!NewTicket => BlankOpened
      /\ Ticket2!CloseModal <=> Tickets!CloseModal
  BY DEF Ticket2!OpenTicket, Tickets!OpenTicket, Ticket2!NewTicket, BlankOpened,
         Ticket2!CloseModal, Tickets!CloseModal, Ticket2!Dialog, Tickets!Dialog,
         Ticket2!Send, Tickets!Send, Ticket2!Call, Tickets!Call,
         Ticket2!Unmounted, Tickets!Unmounted, Ticket2!ModalOps, Tickets!ModalOps
<1>2. /\ Ticket2!TypeTitle <=> Tickets!TypeTitle
      /\ Ticket2!Submit <=> Tickets!Submit
      /\ Ticket2!Remove <=> Tickets!Remove
  BY DEF Ticket2!TypeTitle, Tickets!TypeTitle, Ticket2!Submit, Tickets!Submit,
         Ticket2!Remove, Tickets!Remove, Ticket2!Editing, Tickets!Editing,
         Ticket2!Send, Tickets!Send, Ticket2!Call, Tickets!Call
<1>3. /\ Ticket2!SubmitComment => Tickets!SubmitComment
      /\ Ticket2!Upload => Tickets!Upload
      /\ Ticket2!RemoveAttachment <=> Tickets!RemoveAttachment
  BY DEF Ticket2!SubmitComment, Tickets!SubmitComment, Ticket2!Upload, Tickets!Upload,
         Ticket2!RemoveAttachment, Tickets!RemoveAttachment, Ticket2!Editing, Tickets!Editing,
         Ticket2!Send, Tickets!Send, Ticket2!Call, Tickets!Call
<1>4. Ticket2!Elsewhere <=> Tickets!Elsewhere
  BY DEF Ticket2!Elsewhere, Tickets!Elsewhere, Ticket2!Foreign, Tickets!Foreign,
         Ticket2!There, Tickets!There
<1> QED
  BY <1>1, <1>2, <1>3, <1>4

LEMMA AnswersAlike ==
  ASSUME NEW i \in DOMAIN net
  PROVE  /\ Ticket2!Load(i) <=> Tickets!Load(i)
         /\ Ticket2!Got(i) <=> Tickets!Got(i)
         /\ Ticket2!Saved(i) <=> Tickets!Saved(i)
         /\ Ticket2!Created(i) <=> Tickets!Created(i)
         /\ Ticket2!Deleted(i) <=> Tickets!Deleted(i)
         /\ Ticket2!Commented(i) <=> Tickets!Commented(i)
         /\ Ticket2!Uploaded(i) <=> Tickets!Uploaded(i)
         /\ Ticket2!Detached(i) <=> Tickets!Detached(i)
         /\ Ticket2!ServeRead(i, "load", Ticket2!Summary)
              <=> Tickets!ServeRead(i, "load", Tickets!Summary)
         /\ Ticket2!ServeGet(i) <=> Tickets!ServeGet(i)
         /\ Ticket2!ServeUpdate(i) <=> Tickets!ServeUpdate(i)
         /\ Ticket2!ServeDetach(i) <=> Tickets!ServeDetach(i)
         /\ Ticket2!ServeDelete(i) <=> Tickets!ServeDelete(i)
<1>1. /\ Ticket2!Load(i) <=> Tickets!Load(i)
      /\ Ticket2!Got(i) <=> Tickets!Got(i)
      /\ Ticket2!Saved(i) <=> Tickets!Saved(i)
      /\ Ticket2!Created(i) <=> Tickets!Created(i)
      /\ Ticket2!Deleted(i) <=> Tickets!Deleted(i)
  BY DEF Ticket2!Load, Tickets!Load, Ticket2!Got, Tickets!Got, Ticket2!Saved, Tickets!Saved,
         Ticket2!Created, Tickets!Created, Ticket2!Deleted, Tickets!Deleted,
         Ticket2!Answered, Tickets!Answered, Ticket2!Handled, Tickets!Handled, Ticket2!Others, Tickets!Others,
         Ticket2!Summary, Tickets!Summary, Ticket2!There, Tickets!There,
         Ticket2!Unmounted, Tickets!Unmounted, Ticket2!ModalOps, Tickets!ModalOps
<1>2. /\ Ticket2!Commented(i) <=> Tickets!Commented(i)
      /\ Ticket2!Uploaded(i) <=> Tickets!Uploaded(i)
      /\ Ticket2!Detached(i) <=> Tickets!Detached(i)
  BY DEF Ticket2!Commented, Tickets!Commented, Ticket2!Uploaded, Tickets!Uploaded,
         Ticket2!Detached, Tickets!Detached, Ticket2!Answered, Tickets!Answered,
         Ticket2!Handled, Tickets!Handled, Ticket2!Others, Tickets!Others, Ticket2!Call, Tickets!Call
<1>3. /\ Ticket2!ServeRead(i, "load", Ticket2!Summary)
           <=> Tickets!ServeRead(i, "load", Tickets!Summary)
      /\ Ticket2!ServeGet(i) <=> Tickets!ServeGet(i)
      /\ Ticket2!ServeUpdate(i) <=> Tickets!ServeUpdate(i)
      /\ Ticket2!ServeDetach(i) <=> Tickets!ServeDetach(i)
      /\ Ticket2!ServeDelete(i) <=> Tickets!ServeDelete(i)
  BY DEF Ticket2!ServeRead, Tickets!ServeRead, Ticket2!ServeGet, Tickets!ServeGet,
         Ticket2!ServeUpdate, Tickets!ServeUpdate, Ticket2!ServeDetach, Tickets!ServeDetach,
         Ticket2!ServeDelete, Tickets!ServeDelete, Ticket2!ServeWrite, Tickets!ServeWrite,
         Ticket2!ServeRefusal, Tickets!ServeRefusal, Ticket2!Sent, Tickets!Sent,
         Ticket2!Reply, Tickets!Reply, Ticket2!Summary, Tickets!Summary, Ticket2!There, Tickets!There
<1> QED
  BY <1>1, <1>2, <1>3

LEMMA Ticket2NextInv ==
  ASSUME TicketInv, Ticket2!Next
  PROVE  TicketInv'
<1>1. CASE \/ Ticket2!OpenTicket \/ Ticket2!NewTicket \/ Ticket2!CloseModal
           \/ Ticket2!TypeTitle \/ Ticket2!Submit \/ Ticket2!Remove
           \/ Ticket2!SubmitComment \/ Ticket2!Upload \/ Ticket2!RemoveAttachment
           \/ Ticket2!Elsewhere
  BY <1>1, TicketsAlike, TicketOpened, TicketTyped, TicketElsewhere
<1>2. ASSUME NEW i \in DOMAIN net,
             \/ Ticket2!Load(i) \/ Ticket2!Got(i) \/ Ticket2!Saved(i) \/ Ticket2!Created(i)
             \/ Ticket2!Deleted(i) \/ Ticket2!Commented(i) \/ Ticket2!Uploaded(i)
             \/ Ticket2!Detached(i) \/ Ticket2!ServeRead(i, "load", Ticket2!Summary)
             \/ Ticket2!ServeGet(i) \/ Ticket2!ServeUpdate(i) \/ Ticket2!ServeDetach(i)
             \/ Ticket2!ServeDelete(i)
      PROVE  TicketInv'
  BY <1>2, AnswersAlike, TicketLoaded, TicketWritten, TicketDiscussed, TicketAnswered
<1>3. ASSUME NEW i \in DOMAIN net,
             Ticket2!ServeCreate(i) \/ Ticket2!ServeComment(i) \/ Ticket2!ServeUpload(i)
      PROVE  TicketInv'
  BY <1>3, Ticket2Add, TicketAdded
<1> QED
  BY <1>1, <1>2, <1>3 DEF Ticket2!Next

LEMMA TicketInit == Tickets!Init \/ Ticket2!Init => TicketInv
<1> SUFFICES ASSUME Tickets!Init \/ Ticket2!Init PROVE TicketInv
  OBVIOUS
<1> DEFINE load == Call("load", None)
           fetch == Call("get", page.modal.id)
           open(k) == [id |-> k, loading |-> TRUE, titled |-> FALSE, texts |-> None, comments |-> 0,
                       files |-> {}, saving |-> FALSE, uploading |-> FALSE]
<1>1. /\ \E T \in SUBSET Ticket :
           rows = [k \in T |-> [texts |-> k, comments |-> 0, files |-> {}, erased |-> {}]]
      /\ \E m \in {None} \cup { open(k) : k \in Ticket } :
           page = [tickets |-> <<>>, twice |-> {}, blanked |-> FALSE, modal |-> m]
      /\ net = <<load>> \o (IF page.modal = None THEN <<>> ELSE <<fetch>>)
  <2>1. OneOf(Ticket) \subseteq Ticket
    BY DEF OneOf
  <2>2. CASE Tickets!Init
    BY <2>1, <2>2, TicketCalls DEF Tickets!Init, Tickets!Blank, Tickets!Dialog
  <2>3. CASE Ticket2!Init
    BY <2>3 DEF Ticket2!Init, Ticket2!Blank, Ticket2!Dialog, Ticket2!Call, Call
  <2> QED
    BY <2>2, <2>3
<1>2. TicketRows(rows, FALSE)
  BY <1>1 DEF TicketRows, AnyRow, TextsOf
<1>3. page.blanked = FALSE /\ TicketPage(page) /\ (page.modal # None => page.modal.id \in Ticket)
  <2>1. PICK m \in {None} \cup { open(k) : k \in Ticket } :
          page = [tickets |-> <<>>, twice |-> {}, blanked |-> FALSE, modal |-> m]
    BY <1>1
  <2>2. m # None => TicketModal(m, FALSE) /\ m.id \in Ticket
    <3> SUFFICES ASSUME NEW k \in Ticket, m = open(k)
                 PROVE  TicketModal(m, FALSE) /\ m.id \in Ticket
      BY <2>1
    <3>1. m.id = k /\ m.texts = None /\ m.loading = TRUE /\ m \in AnyModal
      BY DEF AnyModal
    <3> QED
      BY <3>1 DEF TicketModal, TextsOf
  <2> HIDE DEF open
  <2>3. /\ DOMAIN page = {"tickets", "twice", "blanked", "modal"} /\ page.blanked = FALSE
        /\ page.modal = m /\ DOMAIN page.tickets = {}
    BY <2>1
  <2> QED
    BY <2>2, <2>3 DEF TicketPage
<1>4. /\ DOMAIN load = CallFields /\ load.op = "load" /\ load.ans = Waiting
      /\ load.late = FALSE /\ load.gone = FALSE
      /\ DOMAIN fetch = CallFields /\ fetch.op = "get" /\ fetch.arg = page.modal.id
      /\ fetch.ans = Waiting /\ fetch.late = FALSE /\ fetch.gone = FALSE
  BY DEF Call, CallFields
<1> HIDE DEF load, fetch
<1>5. IsNet(net) /\ \A i \in DOMAIN net : net[i] = load \/ (page.modal # None /\ net[i] = fetch)
  <2>1. IsNet(<<load>>) /\ DOMAIN <<load>> = {1} /\ <<load>>[1] = load
    BY <1>4, NetOne
  <2>2. CASE page.modal = None
    <3>1. net = <<load>>
      BY <1>1, <2>2
    <3> QED
      BY <2>1, <3>1
  <2>3. CASE page.modal # None
    <3> DEFINE one == <<load>>
    <3>1. net = Append(one, fetch)
      BY <1>1, <2>3
    <3>2. fetch.late \in BOOLEAN /\ fetch.gone \in BOOLEAN /\ DOMAIN fetch = CallFields
      BY <1>4
    <3>3. IsNet(one) /\ \A j \in DOMAIN one : one[j] = load
      BY <2>1
    <3> HIDE DEF one
    <3>4. IsNet(net) /\ \A j \in DOMAIN net : net[j] = fetch \/ (j \in DOMAIN one /\ net[j] = one[j])
      BY <3>1, <3>2, <3>3, NetAppend
    <3> QED
      BY <2>3, <3>3, <3>4
  <2> QED
    BY <2>2, <2>3
<1>6. \A i \in DOMAIN net : TicketCall(net[i], FALSE) /\ Attended(net[i], page.modal)
  <2>1. page.modal # None => page.modal \in AnyModal
    BY <1>3 DEF TicketPage, TicketModal
  <2> QED
    BY <1>3, <1>4, <1>5, <2>1 DEF TicketCall, Attended, Tickets!ModalOps
<1>7. \A i, j \in DOMAIN net : Apart(net[i], net[j])
  BY <1>4, <1>5 DEF Apart
<1> QED
  BY <1>2, <1>3, <1>5, <1>6, <1>7 DEF TicketInv

LEMMA TicketTexts == TicketInv => Tickets!TextsAreTheirs /\ Ticket2!TextsAreTheirs
BY DEF TicketInv, TicketRows, TextsOf, Tickets!TextsAreTheirs, Tickets!There,
       Ticket2!TextsAreTheirs, Ticket2!There

-----------------------------------------------------------------------------
(* The calendar with more than one event: module EventPages, as Event2.    *)

EventRows(r) ==
  \A e \in DOMAIN r : r[e] # None => /\ DOMAIN r[e] = {"texts", "owner", "attendees"}
                                     /\ r[e].texts = e

EventList(t) == \A e \in DOMAIN t : t[e].texts = e

EventModal(m) ==
  /\ DOMAIN m = {"event", "id", "texts", "owner", "attendees", "people", "ready", "saving"}
  /\ m.id # None => m.texts = m.id

EventPage(p) ==
  /\ {"events", "modal"} \subseteq DOMAIN p
  /\ EventList(p.events) /\ (p.modal # None => EventModal(p.modal))

EventCall(c) ==
  /\ c.op = "load" /\ c.ans \notin {Waiting, Failed} => EventList(c.ans)
  /\ c.op = "link" /\ c.ans \notin {Waiting, Failed} => c.ans.texts = c.arg
  /\ c.op = "update" => c.arg.texts = c.arg.id

\* A request whose dialog is still there.
HasEvent(s, p) ==
  \A i \in DOMAIN s : s[i].op \in Event2!ModalOps /\ ~s[i].gone => EventModal(p.modal)

EventInv ==
  /\ EventRows(rows) /\ EventPage(page) /\ HasEvent(net, page)
  /\ IsNet(net) /\ \A i \in DOMAIN net : EventCall(net[i])

LEMMA EventCalls ==
  /\ \A i : Event2!Others(i) = Others(i)
  /\ \A op, arg : Event2!Call(op, arg) = Call(op, arg)
  /\ \A i, ans : Event2!Reply(i, ans) <=> Reply(i, ans)
  /\ \A calls, ops : Event2!Unmounted(calls, ops) = Unmounted(calls, ops)
BY DEF Event2!Others, Others, Event2!Call, Call, Event2!Reply, Reply, Event2!Unmounted, Unmounted

LEMMA EventFrom ==
  ASSUME EventInv, EventRows(rows'), EventPage(page'), HasEvent(net', page'),
         NEW C, From(net, net', C), \A c \in C : EventCall(c)
  PROVE  EventInv'
<1>1. \A c, d : Like(d, c) /\ EventCall(c) => EventCall(d)
  BY DEF Like, Same, EventCall
<1> QED
  BY <1>1 DEF EventInv, From

\* The dialog is not there any more, and neither is it for what is under way.
LEMMA EventLeft ==
  ASSUME EventInv, rows' = rows, EventPage(page'),
         NEW t, From(net, t, {}), net' = Unmounted(t, Event2!ModalOps)
  PROVE  EventInv'
<1>1. From(net, net', {}) /\ HasEvent(net', page')
  BY FromUnmounted DEF HasEvent
<1> QED
  BY <1>1, EventFrom DEF EventInv

\* The dialog there is stays what it is.
LEMMA EventStays ==
  ASSUME EventInv, rows' = rows, EventPage(page'),
         EventModal(page.modal) => EventModal(page'.modal),
         NEW C, From(net, net', C),
         \A c \in C : /\ EventCall(c)
                      /\ c.op \in Event2!ModalOps /\ ~c.gone => EventModal(page'.modal)
  PROVE  EventInv'
<1>1. HasEvent(net', page')
  BY DEF EventInv, HasEvent, From, Like, Same
<1> QED
  BY <1>1, EventFrom DEF EventInv

\* The dialog becomes m.
LEMMA EventShown ==
  ASSUME EventInv, rows' = rows, NEW m, EventModal(m), page' = [page EXCEPT !.modal = m],
         NEW C, From(net, net', C), \A c \in C : EventCall(c)
  PROVE  EventInv'
<1>1. EventPage(page') /\ page'.modal = m
  BY DEF EventInv, EventPage
<1> QED
  BY <1>1, EventStays

LEMMA EventEdits ==
  ASSUME NEW m, EventModal(m)
  PROVE  \A x : /\ EventModal([m EXCEPT !.saving = x]) /\ EventModal([m EXCEPT !.ready = x])
                /\ EventModal([m EXCEPT !.people = x]) /\ EventModal([m EXCEPT !.event = x])
                /\ EventModal([m EXCEPT !.attendees = x])
BY DEF EventModal

\* What the user does.
LEMMA EventEdited ==
  ASSUME EventInv,
         \/ Event2!MeKnown \/ Event2!OpenEvent \/ Event2!NewEvent \/ Event2!CloseModal
         \/ Event2!EditForm \/ Event2!Submit \/ Event2!Remove \/ Event2!PeopleKnown
         \/ Event2!Invite \/ Event2!RemoveAttendee
  PROVE  EventInv'
<1> DEFINE m == page.modal
<1>1. /\ IsNet(net) /\ EventPage(page) /\ From(net, net, {})
      /\ m # None => EventModal(m)
  BY FromSelf DEF EventInv, EventPage
<1>2. CASE Event2!MeKnown
  <2>1. page' = [page EXCEPT !.me = TRUE] /\ rows' = rows /\ net' = net
    BY <1>2 DEF Event2!MeKnown
  <2>2. EventPage(page') /\ page'.modal = page.modal
    BY <1>1, <2>1 DEF EventPage
  <2> QED
    BY <1>1, <2>1, <2>2, EventStays
<1>3. CASE Event2!OpenEvent
  <2>1. PICK e \in DOMAIN page.events :
          /\ page' = [page EXCEPT !.modal = Event2!Dialog(e, page.events[e])]
          /\ Event2!Send("get", e)
    BY <1>3 DEF Event2!OpenEvent
  <2> DEFINE n == Event2!Dialog(e, page.events[e])
             c == Call("get", e)
  <2>2. EventModal(n)
    BY <1>1 DEF Event2!Dialog, Event2!Blank, EventModal, EventPage, EventList
  <2>3. /\ page' = [page EXCEPT !.modal = n] /\ rows' = rows
        /\ net' = Append(net, c)
    BY <1>3, <2>1, EventCalls DEF Event2!OpenEvent, Event2!Send
  <2>4. From(net, net', {c}) /\ EventCall(c)
    BY <1>1, <2>3, FromSend DEF Call, EventCall
  <2> HIDE DEF n, c
  <2> QED
    BY <2>2, <2>3, <2>4, EventShown
<1>4. CASE Event2!NewEvent
  <2> DEFINE n == Event2!Blank
  <2>1. page' = [page EXCEPT !.modal = n] /\ rows' = rows /\ net' = net
    BY <1>4 DEF Event2!NewEvent
  <2>2. EventModal(n)
    BY DEF Event2!Blank, EventModal
  <2> HIDE DEF n
  <2> QED
    BY <1>1, <2>1, <2>2, EventShown
<1>5. CASE Event2!CloseModal
  <2>1. /\ page' = [page EXCEPT !.modal = None] /\ rows' = rows
        /\ net' = Unmounted(net, Event2!ModalOps)
    BY <1>5, EventCalls DEF Event2!CloseModal
  <2>2. EventPage(page')
    BY <1>1, <2>1 DEF EventPage
  <2> QED
    BY <1>1, <2>1, <2>2, EventLeft
<1>6. CASE Event2!EditForm \/ Event2!PeopleKnown
  <2>1. /\ m # None /\ rows' = rows /\ net' = net
        /\ \E x : \/ page' = [page EXCEPT !.modal.ready = x]
                  \/ page' = [page EXCEPT !.modal.people = x]
    BY <1>6 DEF Event2!EditForm, Event2!PeopleKnown, Event2!IsOwner
  <2>2. \E n : EventModal(n) /\ page' = [page EXCEPT !.modal = n]
    BY <1>1, <2>1, EventEdits
  <2> QED
    BY <1>1, <2>1, <2>2, EventShown
<1>7. ASSUME NEW op, NEW arg, EventCall(Call(op, arg)), m # None,
             net' = Append(net, Call(op, arg)), page' = page, rows' = rows
      PROVE  EventInv'
  <2>1. From(net, net', {Call(op, arg)})
    BY <1>1, <1>7, FromSend
  <2> QED
    BY <1>1, <1>7, <2>1, EventStays
<1>8. CASE Event2!Remove \/ Event2!Invite \/ Event2!RemoveAttendee
  <2>1. /\ m # None /\ page' = page /\ rows' = rows
        /\ \E op \in {"delete", "invite", "uninvite"} : \E arg : net' = Append(net, Call(op, arg))
    <3>1. CASE Event2!Remove
      BY <3>1, EventCalls DEF Event2!Remove, Event2!IsOwner, Event2!Send
    <3>2. CASE Event2!Invite
      BY <3>2, EventCalls DEF Event2!Invite, Event2!IsOwner, Event2!Send
    <3>3. CASE Event2!RemoveAttendee
      BY <3>3, EventCalls DEF Event2!RemoveAttendee, Event2!IsOwner, Event2!Send
    <3> QED
      BY <1>8, <3>1, <3>2, <3>3
  <2>2. \A op \in {"delete", "invite", "uninvite"} : \A arg : EventCall(Call(op, arg))
    BY NetCall DEF EventCall
  <2> QED
    BY <1>7, <2>1, <2>2
<1>9. CASE Event2!Submit
  <2> DEFINE n == [m EXCEPT !.saving = TRUE]
             arg == [id |-> m.id, texts |-> m.texts]
  <2>1. m # None /\ page' = [page EXCEPT !.modal = n] /\ rows' = rows
    BY <1>9 DEF Event2!Submit, Event2!IsOwner
  <2>2. EventModal(n)
    BY <1>1, <2>1, EventEdits
  <2>3. net' = Append(net, IF m.id # None THEN Call("update", arg) ELSE Call("create", None))
    BY <1>9, EventCalls DEF Event2!Submit, Event2!Send
  <2>4. m.id # None => arg.texts = arg.id
    BY <1>1, <2>1 DEF EventModal
  <2> HIDE DEF n, arg
  <2>5. CASE m.id # None
    <3> DEFINE c == Call("update", arg)
    <3>1. From(net, net', {c}) /\ EventCall(c)
      BY <1>1, <2>3, <2>4, <2>5, FromSend DEF EventCall, Call
    <3> HIDE DEF c
    <3> QED
      BY <2>1, <2>2, <3>1, EventShown
  <2>6. CASE m.id = None
    <3> DEFINE c == Call("create", None)
    <3>1. From(net, net', {c}) /\ EventCall(c)
      BY <1>1, <2>3, <2>6, FromSend DEF EventCall, Call
    <3> HIDE DEF c
    <3> QED
      BY <2>1, <2>2, <3>1, EventShown
  <2> QED
    BY <2>5, <2>6
<1> QED
  BY <1>2, <1>3, <1>4, <1>5, <1>6, <1>8, <1>9

\* Answers that change the list.
LEMMA EventListed ==
  ASSUME EventInv, NEW i \in DOMAIN net,
         Event2!Load(i) \/ Event2!Saved(i) \/ Event2!Created(i) \/ Event2!Deleted(i)
  PROVE  EventInv'
<1>1. /\ IsNet(net) /\ EventPage(page) /\ EventCall(net[i]) /\ From(net, Others(i), {})
      /\ net[i].op \in Event2!ModalOps /\ ~net[i].gone => EventModal(page.modal)
      /\ net[i].gone \in BOOLEAN
  BY FromRest DEF EventInv, HasEvent, IsNet
<1> DEFINE m == page.modal
           idle == [m EXCEPT !.saving = FALSE]
<1>2. EventModal(m) => EventModal(idle)
  BY EventEdits
<1>3. CASE Event2!Load(i)
  <2>1. /\ net[i].op = "load" /\ net[i].ans # Waiting /\ net' = Others(i) /\ rows' = rows
        /\ page' = IF net[i].ans = Failed THEN page ELSE [page EXCEPT !.events = net[i].ans, !.twice = {}]
    BY <1>3, EventCalls DEF Event2!Load, Event2!Answered, Event2!Handled
  <2>2. EventPage(page') /\ page'.modal = page.modal
    BY <1>1, <2>1 DEF EventPage, EventCall
  <2> QED
    BY <1>1, <2>1, <2>2, EventStays
\* The dialog is closed, and the list is now t.
<1>4. ASSUME NEW t, EventList(t), NEW w,
             \/ page' = [page EXCEPT !.events = t, !.modal = None]
             \/ page' = [page EXCEPT !.events = t, !.twice = w, !.modal = None],
             rows' = rows, net' = Unmounted(Others(i), Event2!ModalOps)
      PROVE  EventInv'
  <2>1. EventPage(page')
    BY <1>1, <1>4 DEF EventPage
  <2> QED
    BY <1>1, <1>4, <2>1, EventLeft
<1>5. CASE Event2!Saved(i)
  <2> DEFINE in == net[i].arg
             t == [e \in DOMAIN page.events \cup {in.id} |->
                     IF e = in.id THEN [texts |-> in.texts, owner |-> Caller] ELSE page.events[e]]
  <2>1. /\ net[i].op = "update" /\ net[i].op \in Event2!ModalOps /\ rows' = rows
        /\ IF net[i].ans = Failed
             THEN /\ page' = IF net[i].gone THEN page ELSE [page EXCEPT !.modal = idle]
                  /\ net' = Others(i)
             ELSE /\ page' = [page EXCEPT !.events = t, !.modal = None]
                  /\ net' = Unmounted(Others(i), Event2!ModalOps)
    BY <1>5, EventCalls DEF Event2!Saved, Event2!Answered, Event2!Handled, Event2!ModalOps
  <2>2. EventList(t)
    BY <1>1, <2>1 DEF EventCall, EventPage, EventList
  <2> HIDE DEF t, idle
  <2>3. CASE net[i].ans = Failed /\ net[i].gone
    BY <1>1, <2>1, <2>3, EventStays
  <2>4. CASE net[i].ans = Failed /\ ~net[i].gone
    BY <1>1, <1>2, <2>1, <2>4, EventShown
  <2>5. CASE net[i].ans # Failed
    BY <1>4, <2>1, <2>2, <2>5
  <2> QED
    BY <1>1, <2>3, <2>4, <2>5
<1>6. CASE Event2!Deleted(i)
  <2> DEFINE t == [e \in DOMAIN page.events \ {net[i].arg} |-> page.events[e]]
             w == page.twice \ {net[i].arg}
  <2>1. /\ rows' = rows
        /\ IF net[i].ans = Failed
             THEN page' = page /\ net' = Others(i)
             ELSE /\ page' = [page EXCEPT !.events = t, !.twice = w, !.modal = None]
                  /\ net' = Unmounted(Others(i), Event2!ModalOps)
    BY <1>6, EventCalls DEF Event2!Deleted, Event2!Handled
  <2>2. EventList(t)
    BY <1>1 DEF EventPage, EventList
  <2> HIDE DEF t, w
  <2>3. CASE net[i].ans = Failed
    BY <1>1, <2>1, <2>3, EventStays
  <2>4. CASE net[i].ans # Failed
    BY <1>4, <2>1, <2>2, <2>4
  <2> QED
    BY <2>3, <2>4
\* The dialog becomes that of the event that it created.
<1>7. CASE Event2!Created(i)
  <2> DEFINE id == net[i].ans
             none == [p \in {} |-> 0]
             stays == IF net[i].gone THEN m ELSE idle
             made == [stays EXCEPT !.id = id, !.texts = id, !.owner = Caller, !.attendees = none]
             n == IF id = Failed \/ net[i].gone THEN stays ELSE made
             t == [e \in DOMAIN page.events \cup {id} |->
                     IF e = id THEN [texts |-> id, owner |-> Caller] ELSE page.events[e]]
             w == page.twice \cup (DOMAIN page.events \cap {id})
  <2>1. /\ net[i].op = "create" /\ net[i].op \in Event2!ModalOps /\ rows' = rows /\ net' = Others(i)
        /\ page' = IF id = Failed THEN [page EXCEPT !.modal = stays]
                   ELSE [page EXCEPT !.events = t, !.twice = w,
                                     !.modal = IF net[i].gone THEN stays ELSE made]
    BY <1>7, EventCalls DEF Event2!Created, Event2!Answered, Event2!Handled, Event2!ModalOps
  <2>2. EventList(t)
    BY <1>1 DEF EventPage, EventList
  <2>3. ASSUME ~net[i].gone
        PROVE  EventModal(idle) /\ EventModal([idle EXCEPT !.id = id, !.texts = id,
                                                           !.owner = Caller, !.attendees = none])
    <3>1. EventModal(idle)
      BY <1>1, <1>2, <2>1, <2>3
    <3> HIDE DEF idle, none
    <3> QED
      BY <3>1 DEF EventModal
  <2>4. IF net[i].gone THEN n = m ELSE EventModal(n)
    BY <2>3
  <2>5. page'.modal = n /\ EventList(page'.events) /\ {"events", "modal"} \subseteq DOMAIN page'
    <3> HIDE DEF stays, made, t, w
    <3> QED
      BY <1>1, <2>1, <2>2 DEF EventPage
  <2> HIDE DEF n
  <2>6. EventPage(page') /\ (EventModal(page.modal) => EventModal(page'.modal))
    BY <1>1, <2>4, <2>5 DEF EventPage
  <2>7. rows' = rows /\ From(net, net', {})
    BY <1>1, <2>1
  <2> QED
    BY <2>6, <2>7, EventStays
<1> QED
  BY <1>3, <1>5, <1>6, <1>7

\* Answers that change at most the dialog.
LEMMA EventAnswered ==
  ASSUME EventInv, NEW i \in DOMAIN net,
         \/ Event2!Linked(i) \/ Event2!Got(i)
         \/ Event2!Invited(i) \/ Event2!AttendeeRemoved(i)
  PROVE  EventInv'
<1>1. /\ IsNet(net) /\ EventPage(page) /\ EventCall(net[i]) /\ From(net, Others(i), {})
      /\ net[i].op \in Event2!ModalOps /\ ~net[i].gone => EventModal(page.modal)
      /\ page.modal # None => EventModal(page.modal)
  BY FromRest DEF EventInv, HasEvent, EventPage
<1> DEFINE m == page.modal
<1>2. CASE Event2!Linked(i)
  <2> DEFINE e == net[i].arg
             row == net[i].ans
             n == IF m = None THEN Event2!Dialog(e, row) ELSE [m EXCEPT !.event = e]
             c == Call("get", e)
  <2>1. net[i].op = "link" /\ row # Waiting /\ rows' = rows
    BY <1>2 DEF Event2!Linked, Event2!Answered
  <2>2. \/ page' = page /\ net' = Others(i)
        \/ /\ row # Failed /\ net' = Append(Others(i), c)
           /\ page' = [page EXCEPT !.modal = n]
    BY <1>2, EventCalls DEF Event2!Linked, Event2!Handled
  <2>3. row # Failed => EventModal(n)
    <3>1. row # Failed => EventModal(Event2!Dialog(e, row))
      BY <1>1, <2>1 DEF Event2!Dialog, Event2!Blank, EventModal, EventCall
    <3>2. m # None => EventModal([m EXCEPT !.event = e])
      BY <1>1, EventEdits
    <3> QED
      BY <3>1, <3>2
  <2>4. From(net, Append(Others(i), c), {c}) /\ EventCall(c)
    BY <1>1, FromSend DEF Call, EventCall
  <2> HIDE DEF n, c
  <2>5. CASE page' = page /\ net' = Others(i)
    BY <1>1, <2>1, <2>5, EventStays
  <2>6. CASE row # Failed /\ net' = Append(Others(i), c) /\ page' = [page EXCEPT !.modal = n]
    BY <2>1, <2>3, <2>4, <2>6, EventShown
  <2> QED
    BY <2>2, <2>5, <2>6
\* The other three, for a dialog that is still there.
<1>3. ASSUME net' = Others(i), rows' = rows, net[i].op \in Event2!ModalOps,
             \/ page' = page
             \/ ~net[i].gone /\ \E o, a : page' = [page EXCEPT !.modal.owner = o, !.modal.attendees = a]
             \/ ~net[i].gone /\ \E a : page' = [page EXCEPT !.modal.attendees = a]
      PROVE  EventInv'
  <2>1. From(net, net', {}) /\ rows' = rows /\ EventPage(page)
    BY <1>1, <1>3
  <2>4. CASE page' = page
    BY <2>1, <2>4, EventStays
  <2>2. ASSUME ~net[i].gone, NEW o, NEW a,
               page' = [page EXCEPT !.modal.owner = o, !.modal.attendees = a]
        PROVE  EventInv'
    <3> DEFINE n == [m EXCEPT !.owner = o, !.attendees = a]
    <3>1. page' = [page EXCEPT !.modal = n]
      BY <1>1, <2>2 DEF EventPage
    <3>2. EventModal(n)
      BY <1>1, <1>3, <2>2 DEF EventModal
    <3> HIDE DEF n
    <3> QED
      BY <2>1, <3>1, <3>2, EventShown
  <2>3. ASSUME ~net[i].gone, NEW a, page' = [page EXCEPT !.modal.attendees = a]
        PROVE  EventInv'
    <3> DEFINE n == [m EXCEPT !.attendees = a]
    <3>1. page' = [page EXCEPT !.modal = n] /\ EventModal(n)
      BY <1>1, <1>3, <2>3, EventEdits
    <3> HIDE DEF n
    <3> QED
      BY <2>1, <3>1, EventShown
  <2> QED
    BY <1>3, <2>2, <2>3, <2>4
<1>4. CASE Event2!Got(i)
  <2>1. /\ net' = Others(i) /\ rows' = rows /\ net[i].op \in Event2!ModalOps
        /\ \/ page' = page
           \/ ~net[i].gone /\ \E o, a : page' = [page EXCEPT !.modal.owner = o, !.modal.attendees = a]
    BY <1>4, EventCalls DEF Event2!Got, Event2!Answered, Event2!Handled, Event2!ModalOps
  <2> QED
    BY <1>3, <2>1
<1>5. CASE Event2!Invited(i) \/ Event2!AttendeeRemoved(i)
  <2>1. net' = Others(i) /\ rows' = rows /\ net[i].op \in Event2!ModalOps
    BY <1>5, EventCalls
    DEF Event2!Invited, Event2!AttendeeRemoved, Event2!Answered, Event2!Handled, Event2!ModalOps
  <2> DEFINE w == net[i].arg.who
             more == [m.attendees EXCEPT ![w] = m.attendees[w] + 1]
             less == [m.attendees EXCEPT ![w] = 0]
  <2>2. \/ page' = page
        \/ /\ ~net[i].gone
           /\ \/ page' = [page EXCEPT !.modal.attendees = more]
              \/ page' = [page EXCEPT !.modal.attendees = less]
    BY <1>5 DEF Event2!Invited, Event2!AttendeeRemoved
  <2> HIDE DEF more, less
  <2> QED
    BY <1>3, <2>1, <2>2
<1> QED
  BY <1>2, <1>4, <1>5

\* The backend.
LEMMA EventServed ==
  ASSUME EventInv, NEW i \in DOMAIN net,
         \/ Event2!ServeRead(i, "load", Event2!Listed) \/ Event2!ServeEvent(i)
         \/ Event2!ServeCreate(i) \/ Event2!ServeChange(i) \/ Event2!ServeDelete(i)
  PROVE  EventInv'
<1>1. /\ IsNet(net) /\ EventRows(rows) /\ EventCall(net[i])
  BY DEF EventInv
<1>2. ASSUME NEW ans, Reply(i, ans), page' = page, EventRows(rows'),
             net[i].op = "load" /\ ans # Failed => EventList(ans),
             net[i].op = "link" /\ ans # Failed => ans.texts = net[i].arg
      PROVE  EventInv'
  <2>1. /\ IsNet(net') /\ DOMAIN net' = DOMAIN net
        /\ net'[i].op = net[i].op /\ net'[i].arg = net[i].arg /\ net'[i].ans = ans
        /\ net'[i].gone = net[i].gone /\ \A j \in DOMAIN net \ {i} : net'[j] = net[j]
    BY <1>1, <1>2, NetReply
  <2>2. \A j \in DOMAIN net' : EventCall(net'[j])
    BY <1>2, <2>1 DEF EventInv, EventCall
  <2>3. HasEvent(net', page')
    BY <1>2, <2>1 DEF EventInv, HasEvent
  <2> QED
    BY <1>2, <2>1, <2>2, <2>3 DEF EventInv
<1>3. ASSUME rows' = rows, page' = page, Reply(i, Failed)
      PROVE  EventInv'
  BY <1>1, <1>2, <1>3
\* A write of new rows.
<1>4. ASSUME net[i].op \notin {"load", "link"}, page' = page, NEW new, EventRows(new),
             rows' \in {rows, new}, \E ans : Reply(i, ans)
      PROVE  EventInv'
  <2>1. EventRows(rows')
    BY <1>1, <1>4
  <2> QED
    BY <1>2, <1>4, <2>1
<1>5. CASE Event2!ServeRead(i, "load", Event2!Listed)
  <2> DEFINE s == Event2!Listed
  <2>1. /\ net[i].op = "load" /\ rows' = rows /\ page' = page
        /\ Reply(i, s) \/ Reply(i, Failed)
    BY <1>5, EventCalls DEF Event2!ServeRead, Event2!Sent
  <2>2. EventList(s)
    BY <1>1 DEF EventList, EventRows, Event2!Listed, Event2!Summary, Event2!There
  <2> HIDE DEF s
  <2> QED
    BY <1>1, <1>2, <1>3, <2>1, <2>2
<1>6. CASE Event2!ServeEvent(i)
  <2> DEFINE e == net[i].arg
             s == Event2!Summary(e)
  <2>1. /\ net[i].op \in {"link", "get"} /\ rows' = rows /\ page' = page
        /\ \/ Reply(i, Failed)
           \/ net[i].op = "link" /\ e \in Event2!There /\ Reply(i, s)
           \/ net[i].op = "get" /\ \E ans : Reply(i, ans)
    BY <1>6, EventCalls DEF Event2!ServeEvent, Event2!ServeRead, Event2!ServeRefusal, Event2!Sent
  <2>2. e \in Event2!There => s.texts = e
    BY <1>1 DEF Event2!Summary, Event2!There, EventRows
  <2> HIDE DEF s
  <2> QED
    BY <1>1, <1>2, <1>3, <2>1, <2>2
<1>7. CASE Event2!ServeCreate(i)
  <2>1. PICK e \in EventId \ DOMAIN rows :
          Event2!ServeWrite(i, "create",
            [d \in DOMAIN rows \cup {e} |->
               IF d = e THEN [texts |-> e, owner |-> Caller, attendees |-> {}] ELSE rows[d]], e)
    BY <1>7 DEF Event2!ServeCreate
  <2> DEFINE row == [texts |-> e, owner |-> Caller, attendees |-> {}]
             new == [d \in DOMAIN rows \cup {e} |-> IF d = e THEN row ELSE rows[d]]
  <2>2. EventRows(new)
    <3>1. DOMAIN row = {"texts", "owner", "attendees"} /\ row.texts = e
      OBVIOUS
    <3> HIDE DEF row
    <3> QED
      BY <1>1, <3>1 DEF EventRows
  <2>3. net[i].op = "create" /\ page' = page /\ rows' \in {rows, new} /\ \E ans : Reply(i, ans)
    BY <2>1, EventCalls DEF Event2!ServeWrite, Event2!Sent
  <2> HIDE DEF new
  <2> QED
    BY <1>4, <2>2, <2>3
\* The row of an event is changed, or gone.
<1>8. ASSUME net[i].op \notin {"load", "link"}, page' = page, NEW e \in Event2!There, NEW row,
             row = None \/ (DOMAIN row = {"texts", "owner", "attendees"} /\ row.texts = e),
             rows' \in {rows, [rows EXCEPT ![e] = row]}, \E ans : Reply(i, ans)
      PROVE  EventInv'
  <2> DEFINE new == [rows EXCEPT ![e] = row]
  <2>1. EventRows(new)
    BY <1>1, <1>8 DEF EventRows
  <2> HIDE DEF new
  <2> QED
    BY <1>4, <1>8, <2>1 DEF new
<1>9. CASE Event2!ServeChange(i)
  <2> DEFINE in == net[i].arg
             one == [rows[in.id] EXCEPT !.texts = in.texts]
             two == [rows[in.id] EXCEPT !.attendees = rows[in.id].attendees \cup {in.who}]
             three == [rows[in.id] EXCEPT !.attendees = rows[in.id].attendees \ {in.who}]
  <2>1. /\ net[i].op \in {"update", "invite", "uninvite"} /\ page' = page
        /\ \/ rows' = rows /\ Reply(i, Failed)
           \/ /\ in.id \in Event2!There /\ \E ans : Reply(i, ans)
              /\ \/ net[i].op = "update" /\ rows' \in {rows, [rows EXCEPT ![in.id] = one]}
                 \/ rows' \in {rows, [rows EXCEPT ![in.id] = two]}
                 \/ rows' \in {rows, [rows EXCEPT ![in.id] = three]}
    BY <1>9, EventCalls
    DEF Event2!ServeChange, Event2!ServeWrite, Event2!ServeRefusal, Event2!Sent, Event2!Owned
  <2>2. in.id \in Event2!There =>
          /\ DOMAIN one = {"texts", "owner", "attendees"} /\ one.texts = in.texts
          /\ DOMAIN two = {"texts", "owner", "attendees"} /\ two.texts = in.id
          /\ DOMAIN three = {"texts", "owner", "attendees"} /\ three.texts = in.id
    BY <1>1 DEF Event2!There, EventRows
  <2>3. net[i].op = "update" => in.texts = in.id
    BY <1>1 DEF EventCall
  <2> HIDE DEF one, two, three
  <2> QED
    BY <1>3, <1>8, <2>1, <2>2, <2>3
<1>10. CASE Event2!ServeDelete(i)
  <2>1. /\ net[i].op = "delete" /\ page' = page
        /\ \/ rows' = rows /\ Reply(i, Failed)
           \/ /\ net[i].arg \in Event2!There /\ \E ans : Reply(i, ans)
              /\ rows' \in {rows, [rows EXCEPT ![net[i].arg] = None]}
    BY <1>10, EventCalls
    DEF Event2!ServeDelete, Event2!ServeWrite, Event2!ServeRefusal, Event2!Sent, Event2!Owned
  <2> QED
    BY <1>3, <1>8, <2>1
<1> QED
  BY <1>5, <1>6, <1>7, <1>9, <1>10

LEMMA EventNextInv ==
  ASSUME EventInv, Event2!Next
  PROVE  EventInv'
<1>1. CASE Event2!Elsewhere
  <2>1. PICK e \in Event2!There : rows' = [rows EXCEPT ![e] = None] /\ page' = page /\ net' = net
    BY <1>1 DEF Event2!Elsewhere, Event2!Foreign
  <2>2. EventRows(rows')
    BY <2>1 DEF EventInv, EventRows
  <2> QED
    BY <2>1, <2>2 DEF EventInv, HasEvent
<1> QED
  BY <1>1, EventEdited, EventListed, EventAnswered, EventServed DEF Event2!Next

LEMMA EventInit == Event2!Init => EventInv
<1> SUFFICES ASSUME Event2!Init PROVE EventInv
  OBVIOUS
<1> DEFINE load == Call("load", None)
<1>1. \A e \in DOMAIN rows : rows[e].texts = e /\ DOMAIN rows[e] = {"texts", "owner", "attendees"}
  <2>1. PICK E \in SUBSET EventId :
          rows \in [E -> [texts : EventId, owner : {Caller} \cup {}, attendees : {{}}]]
    BY DEF Event2!Init
  <2> QED
    BY <2>1 DEF Event2!Init
<1>7. /\ page = [events |-> <<>>, twice |-> {}, modal |-> None, me |-> FALSE]
      /\ \/ net = <<load>> \o <<>>
         \/ \E e \in EventId : net = <<load>> \o <<Call("link", e)>>
  BY DEF Event2!Init, Event2!Call, Call
<1>2. EventRows(rows) /\ EventPage(page)
  BY <1>1, <1>7 DEF EventRows, EventPage, EventList
<1>3. /\ DOMAIN load = CallFields /\ load.op = "load" /\ load.ans = Waiting
      /\ load.late = FALSE /\ load.gone = FALSE
  BY DEF Call, CallFields
<1> HIDE DEF load
<1>4. IsNet(<<load>>) /\ DOMAIN <<load>> = {1} /\ <<load>>[1] = load
  BY <1>3, NetOne
<1>5. IsNet(net) /\ \A i \in DOMAIN net : net[i].op \in {"load", "link"} /\ net[i].ans = Waiting
  <2>1. CASE net = <<load>> \o <<>>
    <3>1. net = <<load>>
      BY <2>1
    <3> QED
      BY <1>3, <1>4, <3>1
  <2>2. ASSUME NEW e \in EventId, net = <<load>> \o <<Call("link", e)>>
        PROVE  IsNet(net) /\ \A i \in DOMAIN net : net[i].op \in {"load", "link"} /\ net[i].ans = Waiting
    <3> DEFINE one == <<load>>
               c == Call("link", e)
    <3>1. /\ DOMAIN c = CallFields /\ c.op = "link" /\ c.ans = Waiting
          /\ c.late \in BOOLEAN /\ c.gone \in BOOLEAN
      BY DEF Call, CallFields
    <3>2. net = Append(one, c)
      <4> HIDE DEF c
      <4> QED
        BY <2>2 DEF c
    <3>3. IsNet(one) /\ \A j \in DOMAIN one : one[j] = load
      BY <1>4
    <3> HIDE DEF one, c
    <3>4. IsNet(net) /\ \A j \in DOMAIN net : net[j] = c \/ (j \in DOMAIN one /\ net[j] = one[j])
      BY <3>1, <3>2, <3>3, NetAppend
    <3> QED
      BY <1>3, <3>1, <3>3, <3>4
  <2> QED
    BY <1>7, <2>1, <2>2
<1>6. HasEvent(net, page) /\ \A i \in DOMAIN net : EventCall(net[i])
  BY <1>5 DEF HasEvent, EventCall, Event2!ModalOps
<1> QED
  BY <1>2, <1>5, <1>6 DEF EventInv

LEMMA EventTexts == EventInv => Event2!TextsAreTheirs
BY DEF EventInv, EventRows, Event2!TextsAreTheirs, Event2!There

\* A form or dialog saves what was typed for the thing that it is saved for: the
\* password of the account whose panel was open, the settings' texts and not the
\* blanks, the texts of a ticket, an event or a card under its own id.
THEOREM FormsStayTheirs == FormsSpec => []FormsAreTheirs
<1> DEFINE Inv == /\ tab = "users" => UsersInv
                  /\ tab = "settings" => SiteInv
                  /\ tab \in {"tickets", "ticket2"} => TicketInv
                  /\ tab = "event2" => EventInv
                  /\ tab = "dialog" => DialogInv
<1>1. FormsInit => Inv
  BY UsersInit, SiteInit, TicketInit, EventInit, DialogInit DEF FormsInit
<1>2. Inv /\ [FormsNext]_vars => Inv'
  <2>1. ASSUME Inv, FormsNext
        PROVE  Inv'
    <3>1. /\ tab' = tab /\ (tab = "users" => Users!Next) /\ (tab = "settings" => Site!Next)
          /\ (tab \in {"tickets", "ticket2"} => Tickets!Next \/ Ticket2!Next)
          /\ (tab = "event2" => Event2!Next) /\ (tab = "dialog" => Dialog!Next)
      BY <2>1 DEF FormsNext
    <3> QED
      BY <2>1, <3>1, UsersNextInv, SiteNextInv, TicketNextInv, Ticket2NextInv, EventNextInv,
         DialogNextInv
  <2>2. ASSUME Inv, UNCHANGED vars
        PROVE  Inv'
    BY <2>2 DEF vars, UsersInv, SiteInv, TicketInv, EventInv, HasEvent, DialogInv, HasDialog
  <2> QED
    BY <2>1, <2>2
<1>3. Inv => FormsAreTheirs
  <2>1. UsersInv => Users!PasswordIsForItsUser
    BY DEF UsersInv, SentFor, Users!PasswordIsForItsUser
  <2>2. SiteInv => Site!BlanksHaveReason
    BY NoneAssumption DEF SiteInv, Reasoned, Site!BlanksHaveReason
  <2>3. DialogInv => Dialog!CardsAreTheirs
    BY DEF DialogInv, CardRows, Dialog!CardsAreTheirs, Dialog!There
  <2> QED
    BY <2>1, <2>2, <2>3, TicketTexts, EventTexts DEF FormsAreTheirs
<1> QED
  BY <1>1, <1>2, <1>3, PTL DEF FormsSpec
=============================================================================
