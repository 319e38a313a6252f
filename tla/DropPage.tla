------------------------------ MODULE DropPage ------------------------------
(***************************************************************************)
(* modules/kanban/frontend/src/components/Board.jsx: cards are dragged     *)
(* within a column and between columns.  A drop sends the place of every   *)
(* card of the destination as the page shows it, one request each, all at  *)
(* once, and fetches the board when all are answered; one failure puts an  *)
(* error in the place of the board, for good.  rows gives each card its    *)
(* column and position.                                                    *)
(***************************************************************************)
EXTENDS Calls, FiniteSets

CONSTANTS
  Card, Column,
  MaxDrops    \* bound: drops in a behaviour

Place == [column : Column, position : 0 .. Cardinality(Card)]
Lists == [Column -> Seq(Card)]

\* dragging and index: draggingCardId, and dragOver's index.  History: drops
\* counts the drops that were sent, dropped is the last one's column and cards.
State == [board : Lists, error : BOOLEAN, dragging : Card \cup {None},
          index : (0 .. Cardinality(Card)) \cup {None},
          drops : 0 .. MaxDrops, dropped : [column : Column, cards : Seq(Card)] \cup {None}]

Request(c) ==
  \/ IsCall(c, "load", {None}, Lists)
  \/ IsCall(c, "move", [card : Card, to : Place, drop : 1 .. MaxDrops], {Done})

\* getBoard: each column's cards ORDER BY position; ties in any order.
Sorted(cards) ==
  { s \in [1 .. Cardinality(cards) -> cards] :
      \A i, j \in DOMAIN s :
        i < j => s[i] # s[j] /\ rows[s[i]].position <= rows[s[j]].position }
CardsOf(k) == { c \in Card : rows[c].column = k }
Boards == { b \in [Column -> UNION { Sorted(CardsOf(k)) : k \in Column }] :
              \A k \in Column : b[k] \in Sorted(CardsOf(k)) }

Init ==
  /\ rows \in [Card -> [column : Column, position : {0}]]
  /\ \E b \in Boards :
       page = [board |-> b, error |-> FALSE, dragging |-> None, index |-> None,
               drops |-> 0, dropped |-> None]
  /\ net = <<>>
  /\ lag = FALSE

Load(i) ==
  /\ Answered(i, "load")
  /\ page' = IF net[i].ans = Failed THEN [page EXCEPT !.error = TRUE]
                                    ELSE [page EXCEPT !.board = net[i].ans]
  /\ net' = Others(i)
  /\ UNCHANGED <<rows, lag>>

-----------------------------------------------------------------------------
Shown == UNION { { page.board[k][i] : i \in DOMAIN page.board[k] } : k \in Column }

DragStart ==
  /\ ~page.error /\ page.dragging = None
  /\ page.drops < MaxDrops
  /\ \E c \in Shown : page' = [page EXCEPT !.dragging = c]
  /\ UNCHANGED <<rows, net, lag>>

\* Over a card, or over a column without cards.
DragOver ==
  /\ ~page.error /\ page.dragging # None
  /\ \E k \in Column :
       \E n \in 0 .. (IF page.board[k] = <<>> THEN 0 ELSE Len(page.board[k]) - 1) :
         page' = [page EXCEPT !.index = n]
  /\ UNCHANGED <<rows, net, lag>>

DragEnd ==
  /\ page.dragging # None
  /\ page' = [page EXCEPT !.dragging = None, !.index = None]
  /\ UNCHANGED <<rows, net, lag>>

\* Array.splice(at, 0, c)
Spliced(cards, c, at) == SubSeq(cards, 1, at) \o <<c>> \o SubSeq(cards, at + 1, Len(cards))

\* Faulty: the card is still where it was too.
Inserted_Twice(cards, c, n) ==
  LET at == IF n < Len(cards) THEN n ELSE Len(cards)
  IN  Spliced(cards, c, at)

\* destCards: the column without the card, and the card put in at the index.
Inserted(cards, c, n) ==
  LET without == SelectSeq(cards, LAMBDA d : d # c)
      at == IF n < Len(without) THEN n ELSE Len(without)
  IN  Spliced(without, c, at)

Moves(k, cards, drop) ==
  [i \in DOMAIN cards |->
     Call("move", [card |-> cards[i], to |-> [column |-> k, position |-> i - 1], drop |-> drop])]

\* handleDrop.  Another drop that is still under way may win against this one.
Drop ==
  /\ ~page.error /\ page.dragging # None
  /\ IF page.index = None \/ page.dragging \notin Shown
       THEN /\ page' = [page EXCEPT !.dragging = None, !.index = None]
            /\ UNCHANGED <<net, lag>>
       ELSE \E k \in Column :
              LET cards == Inserted(page.board[k], page.dragging, page.index)
              IN  /\ page' = [page EXCEPT !.dragging = None, !.index = None, !.drops = @ + 1,
                                          !.dropped = [column |-> k, cards |-> cards]]
                  /\ net' = net \o Moves(k, cards, page.drops + 1)
                  /\ lag' = \E i \in DOMAIN net : net[i].op = "move"
  /\ UNCHANGED rows

\* Promise.all: the board is fetched with the drop's last answer.  After an
\* error the drop's other requests go on and nobody waits for them.
Moved(i) ==
  /\ Answered(i, "move")
  /\ LET ofDrop(c) == c.op = "move" /\ c.arg.drop = net[i].arg.drop
     IN  IF net[i].ans = Failed /\ ~net[i].gone
           THEN /\ page' = [page EXCEPT !.error = TRUE]
                /\ lag' = TRUE
                /\ net' = [j \in DOMAIN Others(i) |->
                            [Others(i)[j] EXCEPT !.gone = @ \/ ofDrop(Others(i)[j])]]
           ELSE /\ UNCHANGED <<page, lag>>
                /\ net' = Others(i) \o (IF ~net[i].gone /\ ~\E j \in DOMAIN Others(i) : ofDrop(Others(i)[j])
                                          THEN <<Call("load", None)>> ELSE <<>>)
  /\ UNCHANGED rows

-----------------------------------------------------------------------------
(* The backend: MoveCard writes one card's column and position.            *)

ServeMove(i) ==
  /\ Sent(i, "move")
  /\ \/ /\ rows' = [rows EXCEPT ![net[i].arg.card] = net[i].arg.to]
        /\ \E ans \in {Done, Failed} : Reply(i, ans)
     \/ UNCHANGED rows /\ Reply(i, Failed)
  /\ UNCHANGED <<page, lag>>

ServeLoad(i) == \E b \in Boards : ServeRead(i, "load", b)

\* Another member moves a card; the page is told and fetches the board.
Elsewhere ==
  /\ Len(net) < MaxCalls
  /\ \E c \in Card, k \in Column :
       /\ rows[c].column # k
       /\ rows' = [rows EXCEPT ![c] = [column |-> k, position |-> 0]]
  /\ net' = Append(net, Call("load", None))
  /\ lag' = TRUE
  /\ UNCHANGED page

Next ==
  \/ DragStart \/ DragOver \/ DragEnd \/ Drop \/ Elsewhere
  \/ \E i \in DOMAIN net : Load(i) \/ Moved(i) \/ ServeMove(i) \/ ServeLoad(i)

-----------------------------------------------------------------------------
TypeOK ==
  /\ page \in State
  /\ rows \in [Card -> Place]
  /\ \A i \in DOMAIN net : Request(net[i])
  /\ lag \in BOOLEAN

\* When the requests of a drop are done its column has the dropped card where it
\* was put, between the cards it was put between, whatever order they were
\* executed in and however old the board was that it was dropped on; but for an
\* error, another member's move, or an earlier drop still under way.
DropsLand ==
  page.dropped # None /\ ~lag /\ (\A i \in DOMAIN net : net[i].op # "move") =>
    LET cards == page.dropped.cards
    IN  /\ \A i \in DOMAIN cards : rows[cards[i]].column = page.dropped.column
        /\ \A i, j \in DOMAIN cards :
             i < j => rows[cards[i]].position < rows[cards[j]].position
=============================================================================
