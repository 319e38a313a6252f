------------------------- MODULE KanbanStoreProofs -------------------------
(***************************************************************************)
(* Proofs about KanbanStore, for any sets of users, ids and requests.      *)
(*                                                                         *)
(* The inductive invariant joins what holds of the tables with what the    *)
(* requests in flight may rely on.  Each action is shown first to keep the *)
(* tables in order (TablesInv) and to leave every row on its board         *)
(* (RowsKeepTheirBoard); what other requests have read follows from that   *)
(* alone (OthersInv), whichever action it was.                             *)
(***************************************************************************)
EXTENDS KanbanStore, TLAPS

TablesOK ==
  /\ boards \in TablesOf(Board, BoardRow)
  /\ members \in TablesOf(Board \X User, Role)
  /\ columns \in TablesOf(Column, ColumnRow)
  /\ cards \in TablesOf(Card, CardRow)
  /\ issued \in SUBSET (Board \cup Column \cup Card)
  /\ NoDanglingRows
  /\ OneOwner
  /\ RowsIssued

RequestsOK ==
  /\ req \in [Req -> Request]
  /\ seen \in [Req -> SUBSET Board]
  /\ \A r \in Req : req[r].at # "idle" => WellFormed(req[r]) /\ ReadsHold(r)

Inv == TypeOK /\ NoDanglingRows /\ OneOwner /\ ReadsStayTrue

\* Writing a row of the declared type keeps a table's type.
LEMMA WithRowType ==
  ASSUME NEW Keys, NEW Values, NEW t \in TablesOf(Keys, Values),
         NEW key \in Keys, NEW row \in Values
  PROVE  WithRow(t, key, row) \in TablesOf(Keys, Values)
<1>1. PICK K \in SUBSET Keys : t \in [K -> Values]
  BY DEF TablesOf
<1>2. WithRow(t, key, row) \in [K \cup {key} -> Values]
  BY <1>1 DEF WithRow
<1> QED
  BY <1>2 DEF TablesOf

\* So does deleting rows.
LEMMA WithoutRowsType ==
  ASSUME NEW Keys, NEW Values, NEW t \in TablesOf(Keys, Values), NEW keys
  PROVE  WithoutRows(t, keys) \in TablesOf(Keys, Values)
<1>1. PICK K \in SUBSET Keys : t \in [K -> Values]
  BY DEF TablesOf
<1>2. WithoutRows(t, keys) \in [K \ keys -> Values]
  BY <1>1 DEF WithoutRows
<1> QED
  BY <1>2 DEF TablesOf

LEMMA InvParts == Inv <=> TablesOK /\ RequestsOK
BY DEF Inv, TypeOK, ReadsStayTrue, TablesOK, RequestsOK

\* What a statement of any request does to the rows of the others.
RowsKeepTheirBoard ==
  /\ issued \subseteq issued'
  /\ \A b \in DOMAIN boards' \cap issued :
       b \in DOMAIN boards /\ boards'[b].owner = boards[b].owner
  /\ \A c \in DOMAIN columns' \cap issued :
       c \in DOMAIN columns /\ columns'[c].board = columns[c].board
  /\ \A k \in DOMAIN cards' \cap issued :
       k \in DOMAIN cards /\ BoardOfCard(k)' = BoardOfCard(k)

-----------------------------------------------------------------------------
\* The types of the tables, unfolded.
LEMMA TableFacts ==
  ASSUME TablesOK
  PROVE  /\ DOMAIN boards \subseteq Board /\ boards \in [DOMAIN boards -> BoardRow]
         /\ DOMAIN members \subseteq Board \X User /\ members \in [DOMAIN members -> Role]
         /\ DOMAIN columns \subseteq Column /\ columns \in [DOMAIN columns -> ColumnRow]
         /\ DOMAIN cards \subseteq Card /\ cards \in [DOMAIN cards -> CardRow]
BY DEF TablesOK, TablesOf

LEMMA UnchangedTables ==
  ASSUME TablesOK, UNCHANGED tables
  PROVE  TablesOK' /\ RowsKeepTheirBoard
<1>1. UNCHANGED <<boards, members, columns, cards, issued>>
  BY DEF tables
<1>2. TablesOK'
  BY <1>1 DEF TablesOK, NoDanglingRows, OneOwner, RowsIssued
<1>3. RowsKeepTheirBoard
  BY <1>1 DEF RowsKeepTheirBoard, BoardOfCard
<1> QED
  BY <1>2, <1>3

LEMMA CreateBoardTables ==
  ASSUME TablesOK, KanbanConstants, NEW r \in Req, CreateBoardWithColumns(r)
  PROVE  TablesOK' /\ RowsKeepTheirBoard
<1>1. PICK u \in User, b \in Board \ issued, cs \in SUBSET (Column \ issued) :
       /\ boards' = WithRow(boards, b, [owner |-> u, by |-> u])
       /\ members' = WithRow(members, <<b, u>>, "owner")
       /\ columns' = [c \in (DOMAIN columns) \cup cs |->
                        IF c \in cs THEN [board |-> b, by |-> u] ELSE columns[c]]
       /\ issued' = issued \cup {b} \cup cs
       /\ cards' = cards
  BY DEF CreateBoardWithColumns
<1> DEFINE row == [owner |-> u, by |-> u]
<1>2. row \in BoardRow /\ row.owner = u
  BY DEF BoardRow
<1> HIDE DEF row
<1>3. /\ DOMAIN boards' = (DOMAIN boards) \cup {b}
      /\ boards'[b] = row
      /\ \A x \in DOMAIN boards : x # b => boards'[x] = boards[x]
  BY <1>1 DEF row, WithRow
<1>4. /\ DOMAIN members' = (DOMAIN members) \cup {<<b, u>>}
      /\ members'[<<b, u>>] = "owner"
      /\ \A x \in DOMAIN members : x # <<b, u>> => members'[x] = members[x]
  BY <1>1 DEF WithRow
<1>5. /\ DOMAIN columns' = (DOMAIN columns) \cup cs
      /\ \A c \in cs : columns'[c].board = b
      /\ \A c \in DOMAIN columns : columns'[c] = columns[c]
  BY <1>1 DEF TablesOK, RowsIssued
<1>6. boards' \in TablesOf(Board, BoardRow)
  BY <1>1, <1>2, WithRowType DEF TablesOK, row
<1>7. members' \in TablesOf(Board \X User, Role)
  BY <1>1, WithRowType DEF TablesOK, Role
<1>8. columns' \in TablesOf(Column, ColumnRow)
  <2>1. (DOMAIN columns) \cup cs \in SUBSET Column
    BY <1>1, TableFacts
  <2>2. \A c \in (DOMAIN columns) \cup cs :
          (IF c \in cs THEN [board |-> b, by |-> u] ELSE columns[c]) \in ColumnRow
    BY <1>1, TableFacts DEF ColumnRow
  <2>3. columns' \in [(DOMAIN columns) \cup cs -> ColumnRow]
    BY <1>1, <2>2
  <2> QED
    BY <2>1, <2>3 DEF TablesOf
<1>9. NoDanglingRows'
  <2>1. \A m \in DOMAIN members' : m[1] \in DOMAIN boards'
    BY <1>3, <1>4 DEF TablesOK, NoDanglingRows
  <2>2. \A c \in DOMAIN columns' : columns'[c].board \in DOMAIN boards'
    BY <1>3, <1>5 DEF TablesOK, NoDanglingRows
  <2>3. \A k \in DOMAIN cards' : cards'[k].column \in DOMAIN columns'
    BY <1>1, <1>5 DEF TablesOK, NoDanglingRows
  <2> QED
    BY <2>1, <2>2, <2>3 DEF NoDanglingRows
<1>10. b \notin DOMAIN boards /\ \A v \in User : <<b, v>> \notin DOMAIN members
  BY <1>1 DEF TablesOK, RowsIssued, NoDanglingRows
<1>11. OneOwner'
  <2>1. SUFFICES ASSUME NEW x \in DOMAIN boards', NEW v \in User
                 PROVE  (<<x, v>> \in DOMAIN members' /\ members'[<<x, v>>] = "owner")
                           <=> v = boards'[x].owner
    BY DEF OneOwner
  <2>2. CASE x = b
    BY <1>2, <1>3, <1>4, <1>10, <2>2
  <2>3. CASE x # b
    <3>1. x \in DOMAIN boards /\ boards'[x] = boards[x] /\ <<x, v>> # <<b, u>>
      BY <1>3, <2>3
    <3>2. (<<x, v>> \in DOMAIN members' /\ members'[<<x, v>>] = "owner")
             <=> (<<x, v>> \in DOMAIN members /\ members[<<x, v>>] = "owner")
      BY <1>4, <3>1
    <3> QED
      BY <3>1, <3>2 DEF TablesOK, OneOwner
  <2> QED
    BY <2>2, <2>3
<1>12. RowsIssued'
  BY <1>1, <1>3, <1>5 DEF TablesOK, RowsIssued
<1>13. issued' \in SUBSET (Board \cup Column \cup Card)
  BY <1>1 DEF TablesOK
<1>14. RowsKeepTheirBoard
  <2>1. issued \subseteq issued'
    BY <1>1
  <2>2. \A x \in DOMAIN boards' \cap issued : x \in DOMAIN boards /\ boards'[x].owner = boards[x].owner
    BY <1>1, <1>3
  <2>3. \A c \in DOMAIN columns' \cap issued : c \in DOMAIN columns /\ columns'[c].board = columns[c].board
    BY <1>1, <1>5
  <2>4. \A k \in DOMAIN cards' \cap issued : k \in DOMAIN cards /\ BoardOfCard(k)' = BoardOfCard(k)
    BY <1>1, <1>5 DEF TablesOK, NoDanglingRows, BoardOfCard
  <2> QED
    BY <2>1, <2>2, <2>3, <2>4 DEF RowsKeepTheirBoard
<1> QED
  BY <1>1, <1>6, <1>7, <1>8, <1>9, <1>11, <1>12, <1>13, <1>14 DEF TablesOK

LEMMA DeleteBoardTables ==
  ASSUME TablesOK, NEW r \in Req, DeleteBoard(r)
  PROVE  TablesOK' /\ RowsKeepTheirBoard
<1> DEFINE bs == {req[r].board}
<1>1. /\ boards' = WithoutRows(boards, bs)
      /\ members' = WithoutRows(members, MembersOf(bs))
      /\ columns' = WithoutRows(columns, ColumnsOf(bs))
      /\ cards' = WithoutRows(cards, CardsOf(ColumnsOf(bs)))
      /\ issued' = issued
  BY DEF DeleteBoard
<1> HIDE DEF bs
<1>2. /\ DOMAIN boards' = (DOMAIN boards) \ bs
      /\ \A b \in DOMAIN boards' : boards'[b] = boards[b]
  BY <1>1 DEF WithoutRows
<1>3. /\ DOMAIN members' = (DOMAIN members) \ MembersOf(bs)
      /\ \A m \in DOMAIN members' : members'[m] = members[m]
  BY <1>1 DEF WithoutRows
<1>4. /\ DOMAIN columns' = (DOMAIN columns) \ ColumnsOf(bs)
      /\ \A c \in DOMAIN columns' : columns'[c] = columns[c]
  BY <1>1 DEF WithoutRows
<1>5. /\ DOMAIN cards' = (DOMAIN cards) \ CardsOf(ColumnsOf(bs))
      /\ \A k \in DOMAIN cards' : cards'[k] = cards[k]
  BY <1>1 DEF WithoutRows
<1>6. /\ boards' \in TablesOf(Board, BoardRow)
      /\ members' \in TablesOf(Board \X User, Role)
      /\ columns' \in TablesOf(Column, ColumnRow)
      /\ cards' \in TablesOf(Card, CardRow)
  BY <1>1, WithoutRowsType DEF TablesOK
<1>7. NoDanglingRows'
  <2>1. \A m \in DOMAIN members' : m[1] \in DOMAIN boards'
    BY <1>2, <1>3 DEF TablesOK, NoDanglingRows, MembersOf
  <2>2. \A c \in DOMAIN columns' : columns'[c].board \in DOMAIN boards'
    BY <1>2, <1>4 DEF TablesOK, NoDanglingRows, ColumnsOf
  <2>3. \A k \in DOMAIN cards' : cards'[k].column \in DOMAIN columns'
    BY <1>4, <1>5 DEF TablesOK, NoDanglingRows, CardsOf
  <2> QED
    BY <2>1, <2>2, <2>3 DEF NoDanglingRows
<1>8. OneOwner'
  <2>1. SUFFICES ASSUME NEW b \in DOMAIN boards', NEW u \in User
                 PROVE  (<<b, u>> \in DOMAIN members' /\ members'[<<b, u>>] = "owner")
                           <=> u = boards'[b].owner
    BY DEF OneOwner
  <2>2. b \in DOMAIN boards /\ b \notin bs /\ boards'[b] = boards[b]
    BY <1>2
  <2>3. <<b, u>> \notin MembersOf(bs)
    BY <2>2 DEF MembersOf
  <2>4. (<<b, u>> \in DOMAIN members' /\ members'[<<b, u>>] = "owner")
           <=> (<<b, u>> \in DOMAIN members /\ members[<<b, u>>] = "owner")
    BY <1>3, <2>3
  <2> QED
    BY <2>2, <2>4 DEF TablesOK, OneOwner
<1>9. RowsIssued'
  BY <1>1, <1>2, <1>4, <1>5 DEF TablesOK, RowsIssued
<1>10. RowsKeepTheirBoard
  <2>1. \A k \in DOMAIN cards' : BoardOfCard(k)' = BoardOfCard(k)
    BY <1>4, <1>5, <1>7 DEF NoDanglingRows, BoardOfCard
  <2> QED
    BY <1>1, <1>2, <1>4, <1>5, <2>1 DEF RowsKeepTheirBoard
<1> QED
  BY <1>1, <1>6, <1>7, <1>8, <1>9, <1>10 DEF TablesOK

LEMMA MemberWriteTables ==
  ASSUME TablesOK, RequestsOK, NEW r \in Req, AddMember(r) \/ RemoveMember(r)
  PROVE  TablesOK' /\ RowsKeepTheirBoard
<1> DEFINE q == req[r]
           m == <<q.board, q.target>>
<1>1. boards' = boards /\ columns' = columns /\ cards' = cards /\ issued' = issued
  BY DEF AddMember, RemoveMember
<1>2. q.at = "write" /\ q.op \in MemberOps
  BY DEF AddMember, RemoveMember, MemberOps
<1>3. q.board \in Board /\ q.target \in User
  BY <1>2 DEF RequestsOK, WellFormed
<1>4. q.op = "RemoveMember" /\ q.board \in DOMAIN boards
         => q.target # boards[q.board].owner
  BY <1>2 DEF RequestsOK, ReadsHold, OwnerOps
<1>5. RowsKeepTheirBoard
  BY <1>1 DEF RowsKeepTheirBoard, BoardOfCard, TablesOK, RowsIssued
<1>6. CASE members' = members
  BY <1>1, <1>5, <1>6 DEF TablesOK, NoDanglingRows, OneOwner, RowsIssued
<1>7. CASE /\ AddMember(r)
           /\ q.board \in DOMAIN boards
           /\ m \notin DOMAIN members
  <2>1. members' = WithRow(members, m, "member")
    BY <1>7 DEF AddMember
  <2>2. members' \in TablesOf(Board \X User, Role)
    BY <1>3, <2>1, WithRowType DEF TablesOK, Role
  <2>3. /\ DOMAIN members' = (DOMAIN members) \cup {m}
        /\ members'[m] = "member"
        /\ \A x \in DOMAIN members : members'[x] = members[x]
    BY <1>7, <2>1 DEF WithRow
  <2>4. NoDanglingRows'
    BY <1>1, <1>7, <2>3 DEF TablesOK, NoDanglingRows
  <2>5. OneOwner'
    <3>1. SUFFICES ASSUME NEW b \in DOMAIN boards, NEW u \in User
                   PROVE  (<<b, u>> \in DOMAIN members' /\ members'[<<b, u>>] = "owner")
                             <=> u = boards[b].owner
      BY <1>1 DEF OneOwner
    <3>2. (<<b, u>> \in DOMAIN members /\ members[<<b, u>>] = "owner")
             <=> u = boards[b].owner
      BY DEF TablesOK, OneOwner
    <3>3. CASE <<b, u>> = m
      BY <1>7, <2>3, <3>2, <3>3
    <3>4. CASE <<b, u>> # m
      BY <2>3, <3>2, <3>4
    <3> QED
      BY <3>3, <3>4
  <2> QED
    BY <1>1, <1>5, <2>2, <2>4, <2>5 DEF TablesOK, RowsIssued
<1>8. CASE RemoveMember(r)
  <2>1. members' = WithoutRows(members, {m})
    BY <1>8 DEF RemoveMember
  <2>2. members' \in TablesOf(Board \X User, Role)
    BY <2>1, WithoutRowsType DEF TablesOK
  <2>3. /\ DOMAIN members' = (DOMAIN members) \ {m}
        /\ \A x \in DOMAIN members' : members'[x] = members[x]
    BY <2>1 DEF WithoutRows
  <2>4. NoDanglingRows'
    BY <1>1, <2>3 DEF TablesOK, NoDanglingRows
  <2>5. q.op = "RemoveMember"
    BY <1>8 DEF RemoveMember
  <2>6. OneOwner'
    <3>1. SUFFICES ASSUME NEW b \in DOMAIN boards, NEW u \in User
                   PROVE  (<<b, u>> \in DOMAIN members' /\ members'[<<b, u>>] = "owner")
                             <=> u = boards[b].owner
      BY <1>1 DEF OneOwner
    <3>2. (<<b, u>> \in DOMAIN members /\ members[<<b, u>>] = "owner")
             <=> u = boards[b].owner
      BY DEF TablesOK, OneOwner
    <3>3. CASE <<b, u>> = m
      BY <1>4, <2>5, <2>3, <3>2, <3>3
    <3>4. CASE <<b, u>> # m
      BY <2>3, <3>2, <3>4
    <3> QED
      BY <3>3, <3>4
  <2> QED
    BY <1>1, <1>5, <2>2, <2>4, <2>6 DEF TablesOK, RowsIssued
<1> QED
  BY <1>6, <1>7, <1>8 DEF AddMember

LEMMA UpdateBoardTables ==
  ASSUME TablesOK, RequestsOK, NEW r \in Req, UpdateBoard(r)
  PROVE  TablesOK' /\ RowsKeepTheirBoard
<1> DEFINE q == req[r]
<1>1. members' = members /\ columns' = columns /\ cards' = cards /\ issued' = issued
  BY DEF UpdateBoard
<1>2. q.user \in User
  BY DEF UpdateBoard, RequestsOK, WellFormed
<1>3. /\ DOMAIN boards' = DOMAIN boards
      /\ \A b \in DOMAIN boards : boards'[b].owner = boards[b].owner
      /\ boards' \in [DOMAIN boards -> BoardRow]
  BY <1>2, TableFacts DEF UpdateBoard, BoardRow
<1>4. boards' \in TablesOf(Board, BoardRow)
  BY <1>3, TableFacts DEF TablesOf
<1>5. NoDanglingRows' /\ OneOwner' /\ RowsIssued'
  BY <1>1, <1>3 DEF TablesOK, NoDanglingRows, OneOwner, RowsIssued
<1>6. RowsKeepTheirBoard
  BY <1>1, <1>3 DEF RowsKeepTheirBoard, BoardOfCard
<1> QED
  BY <1>1, <1>4, <1>5, <1>6 DEF TablesOK

LEMMA CreateColumnTables ==
  ASSUME TablesOK, RequestsOK, KanbanConstants, NEW r \in Req, CreateColumn(r)
  PROVE  TablesOK' /\ RowsKeepTheirBoard
<1> DEFINE q == req[r]
<1>1. boards' = boards /\ members' = members /\ cards' = cards
  BY DEF CreateColumn
<1>2. OneOwner'
  BY <1>1 DEF TablesOK, OneOwner
<1>3. CASE UNCHANGED <<columns, issued>>
  BY <1>1, <1>3, UnchangedTables DEF tables
<1>4. CASE q.board \in DOMAIN boards
  <2>1. PICK c \in Column \ issued :
          /\ columns' = WithRow(columns, c, [board |-> q.board, by |-> q.user])
          /\ issued' = issued \cup {c}
    BY <1>4 DEF CreateColumn
  <2>2. q.board \in Board /\ q.user \in User
    BY <1>4, TableFacts DEF CreateColumn, RequestsOK, WellFormed
  <2>3. columns' \in TablesOf(Column, ColumnRow)
    BY <2>1, <2>2, WithRowType DEF TablesOK, ColumnRow
  <2>4. /\ DOMAIN columns' = (DOMAIN columns) \cup {c}
        /\ columns'[c].board = q.board
        /\ \A d \in DOMAIN columns : d # c /\ columns'[d] = columns[d]
    BY <2>1 DEF WithRow, TablesOK, RowsIssued
  <2>5. NoDanglingRows'
    BY <1>1, <1>4, <2>4 DEF TablesOK, NoDanglingRows
  <2>6. RowsIssued'
    BY <1>1, <2>1, <2>4 DEF TablesOK, RowsIssued
  <2>7. issued' \in SUBSET (Board \cup Column \cup Card)
    BY <2>1 DEF TablesOK
  <2>8. RowsKeepTheirBoard
    <3>1. issued \subseteq issued'
      BY <2>1
    <3>2. \A d \in DOMAIN columns' \cap issued :
            d \in DOMAIN columns /\ columns'[d].board = columns[d].board
      BY <2>1, <2>4
    <3>3. \A k \in DOMAIN cards : BoardOfCard(k)' = BoardOfCard(k)
      BY <1>1, <2>4 DEF TablesOK, NoDanglingRows, BoardOfCard
    <3> QED
      BY <1>1, <3>1, <3>2, <3>3 DEF RowsKeepTheirBoard
  <2> QED
    BY <1>1, <1>2, <2>3, <2>5, <2>6, <2>7, <2>8 DEF TablesOK
<1> QED
  BY <1>3, <1>4 DEF CreateColumn

LEMMA UpdateColumnTables ==
  ASSUME TablesOK, RequestsOK, NEW r \in Req, UpdateColumn(r)
  PROVE  TablesOK' /\ RowsKeepTheirBoard
<1> DEFINE q == req[r]
<1>1. boards' = boards /\ members' = members /\ cards' = cards /\ issued' = issued
  BY DEF UpdateColumn
<1>2. q.user \in User
  BY DEF UpdateColumn, RequestsOK, WellFormed
<1>3. /\ DOMAIN columns' = DOMAIN columns
      /\ \A c \in DOMAIN columns : columns'[c].board = columns[c].board
      /\ columns' \in [DOMAIN columns -> ColumnRow]
  BY <1>2, TableFacts DEF UpdateColumn, ColumnRow
<1>4. columns' \in TablesOf(Column, ColumnRow)
  BY <1>3, TableFacts DEF TablesOf
<1>5. NoDanglingRows' /\ OneOwner' /\ RowsIssued'
  BY <1>1, <1>3 DEF TablesOK, NoDanglingRows, OneOwner, RowsIssued
<1>6. RowsKeepTheirBoard
  BY <1>1, <1>3 DEF RowsKeepTheirBoard, BoardOfCard, TablesOK, NoDanglingRows
<1> QED
  BY <1>1, <1>4, <1>5, <1>6 DEF TablesOK

LEMMA DeleteColumnTables ==
  ASSUME TablesOK, NEW r \in Req, DeleteColumn(r)
  PROVE  TablesOK' /\ RowsKeepTheirBoard
<1> DEFINE cs == {req[r].column}
<1>1. /\ boards' = boards /\ members' = members /\ issued' = issued
      /\ columns' = WithoutRows(columns, cs)
      /\ cards' = WithoutRows(cards, CardsOf(cs))
  BY DEF DeleteColumn
<1> HIDE DEF cs
<1>2. /\ DOMAIN columns' = (DOMAIN columns) \ cs
      /\ \A c \in DOMAIN columns' : columns'[c] = columns[c]
  BY <1>1 DEF WithoutRows
<1>3. /\ DOMAIN cards' = (DOMAIN cards) \ CardsOf(cs)
      /\ \A k \in DOMAIN cards' : cards'[k] = cards[k]
  BY <1>1 DEF WithoutRows
<1>4. /\ columns' \in TablesOf(Column, ColumnRow)
      /\ cards' \in TablesOf(Card, CardRow)
  BY <1>1, WithoutRowsType DEF TablesOK
<1>5. NoDanglingRows'
  BY <1>1, <1>2, <1>3 DEF TablesOK, NoDanglingRows, CardsOf
<1>6. OneOwner' /\ RowsIssued'
  BY <1>1, <1>2, <1>3 DEF TablesOK, OneOwner, RowsIssued
<1>7. RowsKeepTheirBoard
  BY <1>1, <1>2, <1>3, <1>5 DEF RowsKeepTheirBoard, BoardOfCard, NoDanglingRows
<1> QED
  BY <1>1, <1>4, <1>5, <1>6, <1>7 DEF TablesOK

\* Of the statements on cards only MoveCard can put one on another board; it
\* does not, because what it read of both columns still holds (ReadsHold).
LEMMA CreateCardTables ==
  ASSUME TablesOK, RequestsOK, KanbanConstants, NEW r \in Req, CreateCard(r)
  PROVE  TablesOK' /\ RowsKeepTheirBoard
<1> DEFINE q == req[r]
<1>1. boards' = boards /\ members' = members /\ columns' = columns
  BY DEF CreateCard
<1>2. OneOwner'
  BY <1>1 DEF TablesOK, OneOwner
<1>3. CASE UNCHANGED <<cards, issued>>
  BY <1>1, <1>3, UnchangedTables DEF tables
<1>4. CASE q.column \in DOMAIN columns
  <2>1. PICK k \in Card \ issued :
          /\ cards' = WithRow(cards, k, [column |-> q.column, by |-> q.user])
          /\ issued' = issued \cup {k}
    BY <1>4 DEF CreateCard
  <2>2. q.column \in Column /\ q.user \in User
    BY <1>4, TableFacts DEF CreateCard, RequestsOK, WellFormed
  <2>3. cards' \in TablesOf(Card, CardRow)
    BY <2>1, <2>2, WithRowType DEF TablesOK, CardRow
  <2>4. /\ DOMAIN cards' = (DOMAIN cards) \cup {k}
        /\ cards'[k].column = q.column
        /\ \A d \in DOMAIN cards : d # k /\ cards'[d] = cards[d]
    BY <2>1 DEF WithRow, TablesOK, RowsIssued
  <2>5. NoDanglingRows'
    BY <1>1, <1>4, <2>4 DEF TablesOK, NoDanglingRows
  <2>6. RowsIssued'
    BY <1>1, <2>1, <2>4 DEF TablesOK, RowsIssued
  <2>7. issued' \in SUBSET (Board \cup Column \cup Card)
    BY <2>1 DEF TablesOK
  <2>8. RowsKeepTheirBoard
    BY <1>1, <2>1, <2>4 DEF RowsKeepTheirBoard, BoardOfCard
  <2> QED
    BY <1>1, <1>2, <2>3, <2>5, <2>6, <2>7, <2>8 DEF TablesOK
<1> QED
  BY <1>3, <1>4 DEF CreateCard

LEMMA UpdateCardTables ==
  ASSUME TablesOK, RequestsOK, NEW r \in Req, UpdateCard(r)
  PROVE  TablesOK' /\ RowsKeepTheirBoard
<1> DEFINE q == req[r]
<1>1. boards' = boards /\ members' = members /\ columns' = columns /\ issued' = issued
  BY DEF UpdateCard
<1>2. q.user \in User
  BY DEF UpdateCard, RequestsOK, WellFormed
<1>3. /\ DOMAIN cards' = DOMAIN cards
      /\ \A k \in DOMAIN cards : cards'[k].column = cards[k].column
      /\ cards' \in [DOMAIN cards -> CardRow]
  BY <1>2, TableFacts DEF UpdateCard, CardRow
<1>4. cards' \in TablesOf(Card, CardRow)
  BY <1>3, TableFacts DEF TablesOf
<1>5. NoDanglingRows' /\ OneOwner' /\ RowsIssued'
  BY <1>1, <1>3 DEF TablesOK, NoDanglingRows, OneOwner, RowsIssued
<1>6. RowsKeepTheirBoard
  BY <1>1, <1>3 DEF RowsKeepTheirBoard, BoardOfCard
<1> QED
  BY <1>1, <1>4, <1>5, <1>6 DEF TablesOK

LEMMA MoveCardTables ==
  ASSUME TablesOK, RequestsOK, NEW r \in Req, MoveCard(r)
  PROVE  TablesOK' /\ RowsKeepTheirBoard
<1> DEFINE q == req[r]
<1>1. boards' = boards /\ members' = members /\ columns' = columns /\ issued' = issued
  BY DEF MoveCard
<1>2. CASE cards' = cards
  BY <1>1, <1>2, UnchangedTables DEF tables
<1>3. CASE /\ q.card \in DOMAIN cards
           /\ q.column \in DOMAIN columns
           /\ cards' = [cards EXCEPT ![q.card].column = q.column]
  <2>1. q.at = "write" /\ q.op = "MoveCard"
    BY DEF MoveCard
  <2>2. BoardOfCard(q.card) = q.board /\ columns[q.column].board = q.board
    BY <1>3, <2>1 DEF RequestsOK, ReadsHold, CardOps
  <2>3. q.column \in Column
    BY <1>3, TableFacts
  <2>4. /\ DOMAIN cards' = DOMAIN cards
        /\ cards'[q.card].column = q.column
        /\ \A k \in DOMAIN cards : k # q.card => cards'[k] = cards[k]
        /\ cards' \in [DOMAIN cards -> CardRow]
    BY <1>3, <2>3, TableFacts DEF CardRow
  <2>5. cards' \in TablesOf(Card, CardRow)
    BY <2>4, TableFacts DEF TablesOf
  <2>6. NoDanglingRows' /\ OneOwner' /\ RowsIssued'
    BY <1>1, <1>3, <2>4 DEF TablesOK, NoDanglingRows, OneOwner, RowsIssued
  <2>7. \A k \in DOMAIN cards : BoardOfCard(k)' = BoardOfCard(k)
    BY <1>1, <2>2, <2>4 DEF BoardOfCard
  <2>8. RowsKeepTheirBoard
    BY <1>1, <2>4, <2>7 DEF RowsKeepTheirBoard
  <2> QED
    BY <1>1, <2>5, <2>6, <2>8 DEF TablesOK
<1> QED
  BY <1>2, <1>3 DEF MoveCard

LEMMA DeleteCardTables ==
  ASSUME TablesOK, NEW r \in Req, DeleteCard(r)
  PROVE  TablesOK' /\ RowsKeepTheirBoard
<1> DEFINE ks == {req[r].card}
<1>1. /\ boards' = boards /\ members' = members /\ columns' = columns
      /\ issued' = issued
      /\ cards' = WithoutRows(cards, ks)
  BY DEF DeleteCard
<1> HIDE DEF ks
<1>2. /\ DOMAIN cards' = (DOMAIN cards) \ ks
      /\ \A k \in DOMAIN cards' : cards'[k] = cards[k]
  BY <1>1 DEF WithoutRows
<1>3. cards' \in TablesOf(Card, CardRow)
  BY <1>1, WithoutRowsType DEF TablesOK
<1>4. NoDanglingRows' /\ OneOwner' /\ RowsIssued'
  BY <1>1, <1>2 DEF TablesOK, NoDanglingRows, OneOwner, RowsIssued
<1>5. RowsKeepTheirBoard
  BY <1>1, <1>2 DEF RowsKeepTheirBoard, BoardOfCard
<1> QED
  BY <1>1, <1>3, <1>4, <1>5 DEF TablesOK

\* Every step of every request keeps the tables in order.
LEMMA TablesInv ==
  ASSUME TablesOK, RequestsOK, KanbanConstants, NEW r \in Req, Step(r)
  PROVE  TablesOK' /\ RowsKeepTheirBoard
<1>1. CASE Start(r) \/ Read(r) \/ Fail(r)
  <2>1. UNCHANGED tables
    BY <1>1 DEF Start, StartOnBoard, StartOnColumn, StartOnCard, Read, ResolveColumn,
                ResolveCard, RequireMember, RequireOwner, LookupUser,
                RequireSameBoard, Fail
  <2> QED
    BY <2>1, UnchangedTables
<1>2. CASE CreateBoardWithColumns(r)
  BY <1>2, CreateBoardTables
<1>3. CASE WriteBoard(r)
  BY <1>3, UpdateBoardTables, DeleteBoardTables, MemberWriteTables DEF WriteBoard
<1>4. CASE WriteColumn(r)
  BY <1>4, CreateColumnTables, UpdateColumnTables, DeleteColumnTables DEF WriteColumn
<1>5. CASE WriteCard(r)
  BY <1>5, CreateCardTables, UpdateCardTables, MoveCardTables, DeleteCardTables
     DEF WriteCard
<1> QED
  BY <1>1, <1>2, <1>3, <1>4, <1>5 DEF Step

-----------------------------------------------------------------------------
\* The history variable follows the requests.
LEMMA SeenFacts ==
  ASSUME RequestsOK, Observe, NEW r \in Req, req'[r].at # "idle"
  PROVE  /\ seen'[r] = seen[r] \cup { b \in Board : <<b, req'[r].user>> \in DOMAIN members' }
         /\ seen[r] \subseteq seen'[r]
BY DEF Observe

LEMMA SeenType ==
  ASSUME RequestsOK, Observe
  PROVE  seen' \in [Req -> SUBSET Board]
<1>1. \A r \in Req : seen[r] \in SUBSET Board
  BY DEF RequestsOK
<1> QED
  BY <1>1 DEF Observe

\* A request that did not move may still rely on what it has read.
LEMMA OthersInv ==
  ASSUME TablesOK, RequestsOK, RowsKeepTheirBoard, Observe,
         NEW r \in Req, req'[r] = req[r], req[r].at # "idle"
  PROVE  WellFormed(req[r])' /\ ReadsHold(r)'
<1> DEFINE q == req[r]
<1>1. WellFormed(q) /\ ReadsHold(r)
  BY DEF RequestsOK
<1>2. WellFormed(q)'
  BY <1>1 DEF WellFormed, RowsKeepTheirBoard
<1>3. /\ \A b \in Board : <<b, q.user>> \in DOMAIN members' => b \in seen'[r]
      /\ seen[r] \subseteq seen'[r]
  BY SeenFacts
<1>4. q.at # "resolve" /\ q.op \in ColumnOps /\ q.column \in DOMAIN columns'
        => columns'[q.column].board = q.board
  BY <1>1 DEF WellFormed, ReadsHold, RowsKeepTheirBoard
<1>5. q.at # "resolve" /\ q.op \in CardOps /\ q.card \in DOMAIN cards'
        => BoardOfCard(q.card)' = q.board
  BY <1>1 DEF WellFormed, ReadsHold, RowsKeepTheirBoard, BoardOfCard
<1>6. q.at = "write" /\ q.op = "MoveCard" /\ q.column \in DOMAIN columns'
        => columns'[q.column].board = q.board
  BY <1>1 DEF WellFormed, ReadsHold, RowsKeepTheirBoard
<1>7. q.at \in {"lookup", "write"} /\ q.op \in OwnerOps /\ q.board \in DOMAIN boards'
        => boards'[q.board].owner = q.user
  BY <1>1 DEF WellFormed, ReadsHold, RowsKeepTheirBoard
<1>8. ReadsHold(r)'
  BY <1>1, <1>3, <1>4, <1>5, <1>6, <1>7 DEF ReadsHold, BoardOfCard
<1> QED
  BY <1>2, <1>8

LEMMA IdleFacts == Idle \in Request /\ Idle.at = "idle"
BY DEF Idle, Request, Statement

\* A request that starts knows the ids it was given, and relies on nothing.
LEMMA StartInv ==
  ASSUME TablesOK, RequestsOK, Observe, NEW r \in Req, Start(r)
  PROVE  /\ req' \in [Req -> Request]
         /\ \A p \in Req \ {r} : req'[p] = req[p]
         /\ WellFormed(req[r])' /\ ReadsHold(r)'
<1>1. issued' = issued /\ members' = members
  BY DEF Start, StartOnBoard, StartOnColumn, StartOnCard, tables
<1>2. PICK x \in Request :
        /\ req' = [req EXCEPT ![r] = x]
        /\ WellFormed(x)
        /\ x.at \in {"owner", "member", "resolve"}
        /\ x.op \in ColumnOps \cup CardOps => x.at = "resolve"
  <2>1. CASE StartOnBoard(r)
    <3>1. PICK op \in BoardOps, u \in User, b \in issued \cap Board, t \in User :
            req' = [req EXCEPT ![r] =
                 [Idle EXCEPT !.at = IF op \in OwnerOps THEN "owner" ELSE "member",
                              !.op = op, !.user = u, !.board = b,
                              !.target = IF op \in MemberOps THEN t ELSE None]]
      BY <2>1 DEF StartOnBoard
    <3> DEFINE x == [Idle EXCEPT !.at = IF op \in OwnerOps THEN "owner" ELSE "member",
                              !.op = op, !.user = u, !.board = b,
                              !.target = IF op \in MemberOps THEN t ELSE None]
    <3>2. /\ x.at = IF op \in OwnerOps THEN "owner" ELSE "member"
          /\ x.op = op /\ x.user = u /\ x.board = b
          /\ x.target = IF op \in MemberOps THEN t ELSE None
          /\ x \in Request
      BY DEF Idle, Request, Statement, Op
    <3>3. WellFormed(x)
      BY <3>2 DEF WellFormed, Op, BoardOps, OwnerOps, MemberOps, ColumnOps, CardOps
    <3>4. x.op \notin ColumnOps \cup CardOps
      BY <3>2 DEF BoardOps, OwnerOps, MemberOps, ColumnOps, CardOps
    <3> HIDE DEF x
    <3> QED
      BY <3>1, <3>2, <3>3, <3>4 DEF x
  <2>2. CASE StartOnColumn(r)
    <3>1. PICK op \in ColumnOps, u \in User, c \in issued \cap Column :
            req' = [req EXCEPT ![r] =
                 [Idle EXCEPT !.at = "resolve", !.op = op, !.user = u, !.column = c]]
      BY <2>2 DEF StartOnColumn
    <3> DEFINE x == [Idle EXCEPT !.at = "resolve", !.op = op, !.user = u, !.column = c]
    <3>2. /\ x.at = "resolve" /\ x.op = op /\ x.user = u /\ x.column = c
          /\ x \in Request
      BY DEF Idle, Request, Statement, Op
    <3>3. WellFormed(x)
      BY <3>2 DEF WellFormed, Op, OwnerOps, MemberOps, ColumnOps, CardOps
    <3> HIDE DEF x
    <3> QED
      BY <3>1, <3>2, <3>3 DEF x
  <2>3. CASE StartOnCard(r)
    <3>1. PICK op \in CardOps, u \in User, k \in issued \cap Card, c \in issued \cap Column :
            req' = [req EXCEPT ![r] =
                 [Idle EXCEPT !.at = "resolve", !.op = op, !.user = u, !.card = k,
                              !.column = IF op = "MoveCard" THEN c ELSE None]]
      BY <2>3 DEF StartOnCard
    <3> DEFINE x == [Idle EXCEPT !.at = "resolve", !.op = op, !.user = u, !.card = k,
                              !.column = IF op = "MoveCard" THEN c ELSE None]
    <3>2. /\ x.at = "resolve" /\ x.op = op /\ x.user = u /\ x.card = k
          /\ x.column = IF op = "MoveCard" THEN c ELSE None
          /\ x \in Request
      BY DEF Idle, Request, Statement, Op
    <3>3. WellFormed(x)
      BY <3>2 DEF WellFormed, Op, OwnerOps, MemberOps, ColumnOps, CardOps
    <3> HIDE DEF x
    <3> QED
      BY <3>1, <3>2, <3>3 DEF x
  <2> QED
    BY <2>1, <2>2, <2>3 DEF Start
<1>3. /\ req' \in [Req -> Request]
      /\ \A p \in Req \ {r} : req'[p] = req[p]
      /\ req'[r] = x
  BY <1>2 DEF RequestsOK
<1>4. WellFormed(req[r])'
  BY <1>1, <1>2, <1>3 DEF WellFormed
<1>5. \A b \in Board : <<b, x.user>> \in DOMAIN members' => b \in seen'[r]
  BY <1>2, <1>3, SeenFacts
<1>6. ReadsHold(r)'
  BY <1>2, <1>3, <1>5 DEF ReadsHold
<1> QED
  BY <1>3, <1>4, <1>6

\* A request that reads either ends or may rely on what it has read as well.
LEMMA ReadInv ==
  ASSUME TablesOK, RequestsOK, Observe, NEW r \in Req, Read(r)
  PROVE  /\ req' \in [Req -> Request]
         /\ \A p \in Req \ {r} : req'[p] = req[p]
         /\ req'[r].at # "idle" => WellFormed(req[r])' /\ ReadsHold(r)'
<1> DEFINE q == req[r]
           x == req'[r]
<1>1. /\ boards' = boards /\ members' = members /\ columns' = columns
      /\ cards' = cards /\ issued' = issued
  BY DEF Read, ResolveColumn, ResolveCard, RequireMember, RequireOwner, LookupUser,
         RequireSameBoard, tables
<1>2. q \in Request /\ WellFormed(q) /\ ReadsHold(r)
  BY DEF RequestsOK, Read, ResolveColumn, ResolveCard, RequireMember, RequireOwner,
         LookupUser, RequireSameBoard
<1>3. CASE Finish(r)
  BY <1>3, IdleFacts DEF Finish, RequestsOK
<1>4. ASSUME NEW s \in Statement, Goto(r, s), q.at # "resolve", s # "resolve",
             WellFormed([q EXCEPT !.at = s]),
             s \in {"dest", "lookup", "write"} => q.board \in seen[r],
             (s = "write" /\ q.op = "MoveCard" /\ q.column \in DOMAIN columns)
                => columns[q.column].board = q.board,
             (s \in {"lookup", "write"} /\ q.op \in OwnerOps /\ q.board \in DOMAIN boards)
                => boards[q.board].owner = q.user,
             (s = "write" /\ q.op = "RemoveMember") => q.target # q.user
      PROVE  /\ req' \in [Req -> Request]
             /\ \A p \in Req \ {r} : req'[p] = req[p]
             /\ req'[r].at # "idle" => WellFormed(req[r])' /\ ReadsHold(r)'
  <2>1. /\ x = [q EXCEPT !.at = s]
        /\ \A p \in Req \ {r} : req'[p] = req[p]
        /\ req' \in [Req -> Request]
    BY <1>2, <1>4 DEF Goto, RequestsOK, Request
  <2>2. /\ x.at = s /\ x.op = q.op /\ x.user = q.user /\ x.board = q.board
        /\ x.column = q.column /\ x.card = q.card /\ x.target = q.target
    BY <1>2, <2>1 DEF Request
  <2>3. WellFormed(req[r])'
    BY <1>1, <1>4, <2>1 DEF WellFormed
  <2>4. x.at # "idle" => ReadsHold(r)'
    <3>1. SUFFICES ASSUME x.at # "idle" PROVE ReadsHold(r)'
      OBVIOUS
    <3>2. /\ \A b \in Board : <<b, x.user>> \in DOMAIN members' => b \in seen'[r]
          /\ seen[r] \subseteq seen'[r]
      BY <3>1, SeenFacts
    <3> QED
      BY <1>1, <1>2, <1>4, <2>2, <3>2 DEF ReadsHold, BoardOfCard
  <2> QED
    BY <2>1, <2>3, <2>4
<1>5. CASE ResolveColumn(r) /\ ~Finish(r)
  <2>1. /\ q.at = "resolve" /\ q.op \in ColumnOps /\ q.column \in DOMAIN columns
        /\ req' = [req EXCEPT ![r].at = "member",
                              ![r].board = columns[q.column].board]
    BY <1>5 DEF ResolveColumn
  <2>2. columns[q.column].board \in issued \cap Board
    BY <2>1, TableFacts DEF ColumnRow, TablesOK, NoDanglingRows, RowsIssued
  <2>3. /\ x = [q EXCEPT !.at = "member", !.board = columns[q.column].board]
        /\ \A p \in Req \ {r} : req'[p] = req[p]
    BY <2>1 DEF RequestsOK
  <2>4. /\ x.at = "member" /\ x.op = q.op /\ x.user = q.user
        /\ x.board = columns[q.column].board
        /\ x.column = q.column /\ x.card = q.card /\ x.target = q.target
        /\ x \in Request
    BY <1>2, <2>2, <2>3 DEF Request, Statement
  <2>5. req' \in [Req -> Request]
    BY <2>1, <2>3, <2>4 DEF RequestsOK
  <2>6. WellFormed(req[r])'
    BY <1>1, <1>2, <2>1, <2>2, <2>4 DEF WellFormed, OwnerOps, MemberOps, ColumnOps
  <2>7. \A b \in Board : <<b, x.user>> \in DOMAIN members' => b \in seen'[r]
    BY <2>4, SeenFacts
  <2>8. ReadsHold(r)'
    BY <1>1, <2>1, <2>4, <2>7 DEF ReadsHold, ColumnOps, CardOps
  <2> QED
    BY <2>3, <2>5, <2>6, <2>8
<1>6. CASE ResolveCard(r) /\ ~Finish(r)
  <2>1. /\ q.at = "resolve" /\ q.op \in CardOps /\ q.card \in DOMAIN cards
        /\ req' = [req EXCEPT ![r].at = "member",
                              ![r].board = BoardOfCard(q.card)]
    BY <1>6 DEF ResolveCard
  <2>2. BoardOfCard(q.card) \in issued \cap Board
    BY <2>1, TableFacts DEF ColumnRow, CardRow, TablesOK, NoDanglingRows, RowsIssued,
                            BoardOfCard
  <2>3. /\ x = [q EXCEPT !.at = "member", !.board = BoardOfCard(q.card)]
        /\ \A p \in Req \ {r} : req'[p] = req[p]
    BY <2>1 DEF RequestsOK
  <2>4. /\ x.at = "member" /\ x.op = q.op /\ x.user = q.user
        /\ x.board = BoardOfCard(q.card)
        /\ x.column = q.column /\ x.card = q.card /\ x.target = q.target
        /\ x \in Request
    BY <1>2, <2>2, <2>3 DEF Request, Statement
  <2>5. req' \in [Req -> Request]
    BY <2>1, <2>3, <2>4 DEF RequestsOK
  <2>6. WellFormed(req[r])'
    BY <1>1, <1>2, <2>1, <2>2, <2>4 DEF WellFormed, OwnerOps, MemberOps, CardOps
  <2>7. \A b \in Board : <<b, x.user>> \in DOMAIN members' => b \in seen'[r]
    BY <2>4, SeenFacts
  <2>8. ReadsHold(r)'
    BY <1>1, <2>1, <2>4, <2>7 DEF ReadsHold, ColumnOps, CardOps, BoardOfCard
  <2> QED
    BY <2>3, <2>5, <2>6, <2>8
<1>7. CASE RequireMember(r) /\ ~Finish(r)
  <2> DEFINE s == IF q.op = "MoveCard" THEN "dest" ELSE "write"
  <2>1. /\ q.at = "member" /\ <<q.board, q.user>> \in DOMAIN members /\ Goto(r, s)
    BY <1>7 DEF RequireMember
  <2>2. q.board \in seen[r]
    BY <1>2, <2>1 DEF ReadsHold, WellFormed
  <2>3. s \in Statement /\ s # "resolve" /\ q.at # "resolve"
    BY <2>1 DEF Statement
  <2>4. q.op \notin OwnerOps /\ (s = "write" => q.op # "MoveCard") /\ q.op # "RemoveMember"
    BY <1>2, <2>1 DEF WellFormed, OwnerOps, MemberOps
  <2>5. WellFormed([q EXCEPT !.at = s])
    BY <1>2, <2>1, <2>4 DEF WellFormed, Request, MemberOps, OwnerOps
  <2> HIDE DEF s
  <2> QED
    BY <1>4, <2>1, <2>2, <2>3, <2>4, <2>5
<1>8. CASE RequireOwner(r) /\ ~Finish(r)
  <2> DEFINE s == IF q.op = "AddMember" THEN "lookup" ELSE "write"
             m == <<q.board, q.user>>
  <2>1. /\ q.at = "owner" /\ m \in DOMAIN members /\ members[m] = "owner"
        /\ q.op = "RemoveMember" => q.target # q.user
        /\ Goto(r, s)
    BY <1>8 DEF RequireOwner
  <2>2. q.board \in seen[r]
    BY <1>2, <2>1 DEF ReadsHold, WellFormed
  <2>3. q.board \in DOMAIN boards => boards[q.board].owner = q.user
    BY <1>2, <2>1 DEF TablesOK, OneOwner, WellFormed
  <2>4. s \in Statement /\ s # "resolve" /\ q.at # "resolve"
    BY <2>1 DEF Statement
  <2>5. q.op \in OwnerOps /\ q.op # "MoveCard"
    BY <1>2, <2>1 DEF WellFormed, OwnerOps, MemberOps
  <2>6. WellFormed([q EXCEPT !.at = s])
    BY <1>2, <2>1, <2>5 DEF WellFormed, Request
  <2> HIDE DEF s
  <2> QED
    BY <1>4, <2>1, <2>2, <2>3, <2>4, <2>5, <2>6
<1>9. CASE LookupUser(r) /\ ~Finish(r)
  <2>1. q.at = "lookup" /\ Goto(r, "write")
    BY <1>9 DEF LookupUser
  <2>2. q.op = "AddMember"
    BY <1>2, <2>1 DEF WellFormed
  <2>3. WellFormed([q EXCEPT !.at = "write"])
    BY <1>2, <2>1, <2>2 DEF WellFormed, Request
  <2> QED
    BY <1>2, <1>4, <2>1, <2>2, <2>3 DEF ReadsHold, Statement
<1>10. CASE RequireSameBoard(r) /\ ~Finish(r)
  <2>1. /\ q.at = "dest" /\ columns[q.column].board = q.board /\ Goto(r, "write")
    BY <1>10 DEF RequireSameBoard
  <2>2. q.op = "MoveCard"
    BY <1>2, <2>1 DEF WellFormed
  <2>3. WellFormed([q EXCEPT !.at = "write"])
    BY <1>2, <2>1, <2>2 DEF WellFormed, Request, OwnerOps, MemberOps
  <2> QED
    BY <1>2, <1>4, <2>1, <2>2, <2>3 DEF ReadsHold, Statement, OwnerOps, MemberOps
<1> QED
  BY <1>3, <1>5, <1>6, <1>7, <1>8, <1>9, <1>10 DEF Read

LEMMA EndInv ==
  ASSUME RequestsOK, NEW r \in Req,
         WriteBoard(r) \/ WriteColumn(r) \/ WriteCard(r) \/ Fail(r)
  PROVE  /\ req' \in [Req -> Request]
         /\ \A p \in Req \ {r} : req'[p] = req[p]
         /\ req'[r].at = "idle"
         /\ req[r].at # "idle"
<1>1. Finish(r) /\ req[r].at # "idle"
  BY DEF WriteBoard, UpdateBoard, DeleteBoard, AddMember, RemoveMember,
         WriteColumn, CreateColumn, UpdateColumn, DeleteColumn,
         WriteCard, CreateCard, UpdateCard, MoveCard, DeleteCard, Fail
<1> QED
  BY <1>1, IdleFacts DEF Finish, RequestsOK

-----------------------------------------------------------------------------
\* Inv is inductive.
LEMMA InvNext == Inv /\ [Next]_vars => Inv'
<1>1. ASSUME Inv, NEW r \in Req, Step(r), Observe
      PROVE  Inv'
  <2>1. TablesOK /\ RequestsOK
    BY <1>1, InvParts
  <2>2. TablesOK' /\ RowsKeepTheirBoard
    BY <1>1, <2>1, TablesInv, KanbanConstants
  <2>3. /\ req' \in [Req -> Request]
        /\ \A p \in Req \ {r} : req'[p] = req[p]
        /\ \/ req'[r] = req[r]
           \/ req'[r].at = "idle"
           \/ WellFormed(req[r])' /\ ReadsHold(r)'
    <3>1. CASE CreateBoardWithColumns(r)
      BY <2>1, <3>1 DEF CreateBoardWithColumns, RequestsOK
    <3>2. CASE Start(r)
      BY <1>1, <2>1, <3>2, StartInv
    <3>3. CASE Read(r)
      BY <1>1, <2>1, <3>3, ReadInv
    <3>4. CASE WriteBoard(r) \/ WriteColumn(r) \/ WriteCard(r) \/ Fail(r)
      BY <2>1, <3>4, EndInv
    <3> QED
      BY <1>1, <3>1, <3>2, <3>3, <3>4 DEF Step
  <2>4. \A p \in Req : req'[p].at # "idle" => WellFormed(req[p])' /\ ReadsHold(p)'
    <3>1. SUFFICES ASSUME NEW p \in Req, req'[p].at # "idle"
                   PROVE  WellFormed(req[p])' /\ ReadsHold(p)'
      OBVIOUS
    <3>2. CASE req'[p] = req[p]
      BY <1>1, <2>1, <2>2, <3>1, <3>2, OthersInv
    <3>3. CASE req'[p] # req[p]
      BY <2>3, <3>1, <3>3
    <3> QED
      BY <3>2, <3>3
  <2>5. RequestsOK'
    BY <1>1, <2>1, <2>3, <2>4, SeenType DEF RequestsOK
  <2> QED
    BY <2>2, <2>5, InvParts DEF Inv, TypeOK, ReadsStayTrue, TablesOK, RequestsOK
<1>2. ASSUME Inv, UNCHANGED vars
      PROVE  Inv'
  BY <1>2 DEF vars, tables, Inv, TypeOK, NoDanglingRows, OneOwner, ReadsStayTrue,
              RowsIssued, WellFormed, ReadsHold, BoardOfCard
<1> QED
  BY <1>1, <1>2 DEF Next

LEMMA InvInit == Init => Inv
<1> SUFFICES ASSUME Init PROVE Inv
  OBVIOUS
<1>1. /\ DOMAIN boards = {} /\ DOMAIN members = {} /\ DOMAIN columns = {} /\ DOMAIN cards = {}
      /\ boards \in [{} -> BoardRow] /\ members \in [{} -> Role]
      /\ columns \in [{} -> ColumnRow] /\ cards \in [{} -> CardRow]
  BY DEF Init
<1>2. TypeOK
  BY <1>1, IdleFacts DEF Init, TypeOK, TablesOf
<1>3. NoDanglingRows /\ OneOwner /\ RowsIssued
  BY <1>1 DEF Init, NoDanglingRows, OneOwner, RowsIssued
<1>4. \A r \in Req : req[r].at = "idle"
  BY IdleFacts DEF Init
<1> QED
  BY <1>2, <1>3, <1>4 DEF Inv, ReadsStayTrue

\* The tables and the requests in flight always have their declared types.
THEOREM TypeCorrect == Spec => []TypeOK
<1>1. Inv => TypeOK
  BY DEF Inv
<1> QED
  BY <1>1, InvInit, InvNext, PTL DEF Spec

\* Referential integrity, for any number of concurrent requests: no member,
\* column or card without the row it refers to.
THEOREM NoRowDangles == Spec => []NoDanglingRows
<1>1. Inv => NoDanglingRows
  BY DEF Inv
<1> QED
  BY <1>1, InvInit, InvNext, PTL DEF Spec

\* Every board keeps exactly one owner row, that of owner_id.
THEOREM EveryBoardOneOwner == Spec => []OneOwner
<1>1. Inv => OneOwner
  BY DEF Inv
<1> QED
  BY <1>1, InvInit, InvNext, PTL DEF Spec

\* What a request has read before its write is still true of the rows left.
THEOREM ReadsHoldAtWrite == Spec => []ReadsStayTrue
<1>1. Inv => ReadsStayTrue
  BY DEF Inv
<1> QED
  BY <1>1, InvInit, InvNext, PTL DEF Spec

\* No interleaving of moves, deletes and creations puts a card on another board.
THEOREM CardsStay == Spec => CardStaysOnBoard
<1>1. ASSUME Inv, [Next]_vars
      PROVE  [\A k \in DOMAIN cards \cap DOMAIN cards' :
                BoardOfCard(k)' = BoardOfCard(k)]_vars
  <2>1. CASE UNCHANGED vars
    BY <2>1
  <2>2. CASE Next
    <3>1. RowsKeepTheirBoard
      BY <1>1, <2>2, InvParts, TablesInv, KanbanConstants DEF Next
    <3>2. DOMAIN cards \subseteq issued
      BY <1>1 DEF Inv, ReadsStayTrue, RowsIssued
    <3> QED
      BY <3>1, <3>2 DEF RowsKeepTheirBoard
  <2> QED
    BY <1>1, <2>1, <2>2
<1> QED
  BY <1>1, InvInit, InvNext, PTL DEF Spec, CardStaysOnBoard

-----------------------------------------------------------------------------
\* What it takes for nothing stored for board b to change.
SameMembers(b) ==
  \A m \in Board \X User : m[1] = b =>
    /\ m \in DOMAIN members <=> m \in DOMAIN members'
    /\ m \in DOMAIN members => members'[m] = members[m]

SameBoard(b) ==
  /\ b \in DOMAIN boards <=> b \in DOMAIN boards'
  /\ b \in DOMAIN boards => boards'[b] = boards[b]

SameColumns(b) ==
  \A c \in Column :
    /\ c \in ColumnsOf({b}) <=> c \in ColumnsOf({b})'
    /\ c \in ColumnsOf({b}) => columns'[c] = columns[c]

SameCards(b) ==
  \A k \in Card :
    /\ k \in CardsOf(ColumnsOf({b})) <=> k \in CardsOf(ColumnsOf({b}))'
    /\ k \in CardsOf(ColumnsOf({b})) => cards'[k] = cards[k]

LEMMA MembersStay ==
  ASSUME TablesOK, TablesOK', NEW b, SameMembers(b)
  PROVE  BoardMembers(b)' = BoardMembers(b)
<1>1. DOMAIN members \subseteq Board \X User /\ DOMAIN members' \subseteq Board \X User
  BY DEF TablesOK, TablesOf
<1>2. MembersOf({b})' = MembersOf({b})
  BY <1>1 DEF SameMembers, MembersOf
<1>3. \A m \in MembersOf({b}) : members'[m] = members[m]
  BY <1>1 DEF SameMembers, MembersOf
<1> QED
  BY <1>2, <1>3 DEF BoardMembers

LEMMA ContentsStay ==
  ASSUME TablesOK, TablesOK', NEW b,
         SameBoard(b), SameMembers(b), SameColumns(b), SameCards(b)
  PROVE  Contents(b)' = Contents(b)
<1>1. BoardItself(b)' = BoardItself(b)
  <2>1. {b} \cap DOMAIN boards' = {b} \cap DOMAIN boards
    BY DEF SameBoard
  <2>2. \A i \in {b} \cap DOMAIN boards : boards'[i] = boards[i]
    BY DEF SameBoard
  <2> QED
    BY <2>1, <2>2 DEF BoardItself
<1>2. BoardMembers(b)' = BoardMembers(b)
  BY MembersStay
<1>3. BoardColumns(b)' = BoardColumns(b)
  <2>1. ColumnsOf({b}) \subseteq Column /\ ColumnsOf({b})' \subseteq Column
    BY DEF TablesOK, ColumnsOf, TablesOf
  <2>2. ColumnsOf({b})' = ColumnsOf({b})
    BY <2>1 DEF SameColumns
  <2>3. \A c \in ColumnsOf({b}) : columns'[c] = columns[c]
    BY <2>1 DEF SameColumns
  <2> QED
    BY <2>2, <2>3 DEF BoardColumns
<1>4. BoardCards(b)' = BoardCards(b)
  <2> DEFINE K == CardsOf(ColumnsOf({b}))
  <2>1. K \subseteq Card /\ K' \subseteq Card
    BY DEF TablesOK, CardsOf, TablesOf
  <2>2. K' = K
    BY <2>1 DEF SameCards
  <2>3. \A k \in K : cards'[k] = cards[k]
    BY <2>1 DEF SameCards
  <2> QED
    BY <2>2, <2>3 DEF BoardCards
<1> QED
  BY <1>1, <1>2, <1>3, <1>4 DEF Contents

\* A new board touches no other.
LEMMA CreateBoardContents ==
  ASSUME TablesOK, TablesOK', NEW r \in Req, CreateBoardWithColumns(r), NEW b \in DOMAIN boards
  PROVE  SameBoard(b) /\ SameMembers(b) /\ SameColumns(b) /\ SameCards(b)
<1>1. PICK u \in User, n \in Board \ issued, cs \in SUBSET (Column \ issued) :
       /\ boards' = WithRow(boards, n, [owner |-> u, by |-> u])
       /\ members' = WithRow(members, <<n, u>>, "owner")
       /\ columns' = [c \in (DOMAIN columns) \cup cs |->
                        IF c \in cs THEN [board |-> n, by |-> u] ELSE columns[c]]
       /\ cards' = cards
  BY DEF CreateBoardWithColumns
<1>2. n # b /\ \A c \in DOMAIN columns : c \notin cs
  BY <1>1 DEF TablesOK, RowsIssued
<1>3. SameBoard(b)
  BY <1>1, <1>2 DEF SameBoard, WithRow
<1>4. SameMembers(b)
  BY <1>1, <1>2 DEF SameMembers, WithRow
<1>5. /\ ColumnsOf({b})' = ColumnsOf({b})
      /\ \A c \in DOMAIN columns : columns'[c] = columns[c]
  BY <1>1, <1>2 DEF ColumnsOf
<1>6. SameColumns(b)
  BY <1>5 DEF SameColumns, ColumnsOf
<1>7. SameCards(b)
  BY <1>1, <1>5 DEF SameCards, CardsOf
<1> QED
  BY <1>3, <1>4, <1>6, <1>7

\* A write touches no board but the one its request was checked for.
LEMMA WriteBoardContents ==
  ASSUME TablesOK, TablesOK', RequestsOK, NEW r \in Req, WriteBoard(r),
         NEW b \in DOMAIN boards, b # req[r].board
  PROVE  SameBoard(b) /\ SameMembers(b) /\ SameColumns(b) /\ SameCards(b)
<1>1. CASE UpdateBoard(r)
  BY <1>1 DEF UpdateBoard, SameBoard, SameMembers, SameColumns, SameCards, ColumnsOf, CardsOf
<1>2. CASE AddMember(r) \/ RemoveMember(r)
  <2>1. boards' = boards /\ columns' = columns /\ cards' = cards
    BY <1>2 DEF AddMember, RemoveMember
  <2>2. SameMembers(b)
    BY <1>2 DEF AddMember, RemoveMember, SameMembers, WithRow, WithoutRows
  <2> QED
    BY <2>1, <2>2 DEF SameBoard, SameColumns, SameCards, ColumnsOf, CardsOf
<1>3. CASE DeleteBoard(r)
  <2> DEFINE bs == {req[r].board}
  <2>1. /\ boards' = WithoutRows(boards, bs)
        /\ members' = WithoutRows(members, MembersOf(bs))
        /\ columns' = WithoutRows(columns, ColumnsOf(bs))
        /\ cards' = WithoutRows(cards, CardsOf(ColumnsOf(bs)))
    BY <1>3 DEF DeleteBoard
  <2>2. SameBoard(b)
    BY <2>1 DEF SameBoard, WithoutRows
  <2>3. SameMembers(b)
    BY <2>1 DEF SameMembers, WithoutRows, MembersOf
  <2>4. /\ ColumnsOf({b})' = ColumnsOf({b})
        /\ \A c \in ColumnsOf({b}) : columns'[c] = columns[c]
    BY <2>1 DEF ColumnsOf, WithoutRows
  <2>5. /\ CardsOf(ColumnsOf({b}))' = CardsOf(ColumnsOf({b}))
        /\ \A k \in CardsOf(ColumnsOf({b})) : cards'[k] = cards[k]
    BY <2>1, <2>4 DEF CardsOf, ColumnsOf, WithoutRows
  <2> QED
    BY <2>2, <2>3, <2>4, <2>5 DEF SameColumns, SameCards
<1> QED
  BY <1>1, <1>2, <1>3 DEF WriteBoard

LEMMA WriteColumnContents ==
  ASSUME TablesOK, TablesOK', RequestsOK, NEW r \in Req, WriteColumn(r),
         NEW b \in DOMAIN boards, b # req[r].board
  PROVE  SameBoard(b) /\ SameMembers(b) /\ SameColumns(b) /\ SameCards(b)
<1> DEFINE q == req[r]
<1>1. boards' = boards /\ members' = members
  BY DEF WriteColumn, CreateColumn, UpdateColumn, DeleteColumn
<1>2. SameBoard(b) /\ SameMembers(b)
  BY <1>1 DEF SameBoard, SameMembers
<1>3. q.op \in ColumnOps /\ q.at = "write" /\ q.column \in DOMAIN columns
        => columns[q.column].board = q.board
  BY DEF RequestsOK, ReadsHold
<1>4. CASE CreateColumn(r)
  <2>1. cards' = cards
    BY <1>4 DEF CreateColumn
  <2>2. /\ ColumnsOf({b})' = ColumnsOf({b})
        /\ \A c \in ColumnsOf({b}) : columns'[c] = columns[c]
    <3>1. CASE columns' = columns
      BY <3>1 DEF ColumnsOf
    <3>2. CASE columns' # columns
      <4>1. PICK c \in Column \ issued :
              columns' = WithRow(columns, c, [board |-> q.board, by |-> q.user])
        BY <1>4, <3>2 DEF CreateColumn
      <4>2. c \notin DOMAIN columns
        BY DEF TablesOK, RowsIssued
      <4> QED
        BY <4>1, <4>2 DEF ColumnsOf, WithRow
    <3> QED
      BY <3>1, <3>2
  <2> QED
    BY <1>2, <2>1, <2>2 DEF SameColumns, SameCards, CardsOf
<1>5. CASE UpdateColumn(r)
  <2>1. cards' = cards
    BY <1>5 DEF UpdateColumn
  <2>2. /\ ColumnsOf({b})' = ColumnsOf({b})
        /\ \A c \in ColumnsOf({b}) : columns'[c] = columns[c]
    <3>1. /\ DOMAIN columns' = DOMAIN columns
          /\ \A c \in DOMAIN columns : /\ columns'[c].board = columns[c].board
                                       /\ columns[c].board = b => columns'[c] = columns[c]
      BY <1>3, <1>5, TableFacts DEF UpdateColumn, ColumnOps, ColumnRow
    <3> QED
      BY <3>1 DEF ColumnsOf
  <2> QED
    BY <1>2, <2>1, <2>2 DEF SameColumns, SameCards, CardsOf
<1>6. CASE DeleteColumn(r)
  <2>1. /\ columns' = WithoutRows(columns, {q.column})
        /\ cards' = WithoutRows(cards, CardsOf({q.column}))
    BY <1>6 DEF DeleteColumn
  <2>2. q.column \notin ColumnsOf({b})
    BY <1>3, <1>6 DEF DeleteColumn, ColumnOps, ColumnsOf
  <2>3. /\ ColumnsOf({b})' = ColumnsOf({b})
        /\ \A c \in ColumnsOf({b}) : columns'[c] = columns[c]
    BY <2>1, <2>2 DEF ColumnsOf, WithoutRows
  <2>4. /\ CardsOf(ColumnsOf({b}))' = CardsOf(ColumnsOf({b}))
        /\ \A k \in CardsOf(ColumnsOf({b})) : cards'[k] = cards[k]
    BY <2>1, <2>2, <2>3 DEF CardsOf, WithoutRows
  <2> QED
    BY <1>2, <2>3, <2>4 DEF SameColumns, SameCards
<1> QED
  BY <1>4, <1>5, <1>6 DEF WriteColumn

LEMMA WriteCardContents ==
  ASSUME TablesOK, TablesOK', RequestsOK, NEW r \in Req, WriteCard(r),
         NEW b \in DOMAIN boards, b # req[r].board
  PROVE  SameBoard(b) /\ SameMembers(b) /\ SameColumns(b) /\ SameCards(b)
<1> DEFINE q == req[r]
           C == ColumnsOf({b})
<1>1. boards' = boards /\ members' = members /\ columns' = columns
  BY DEF WriteCard, CreateCard, UpdateCard, MoveCard, DeleteCard
<1>2. SameBoard(b) /\ SameMembers(b) /\ SameColumns(b) /\ C' = C
  BY <1>1 DEF SameBoard, SameMembers, SameColumns, ColumnsOf
<1>3. q.at = "write" /\ ReadsHold(r)
  BY DEF RequestsOK, WriteCard, CreateCard, UpdateCard, MoveCard, DeleteCard
<1>4. q.op \in CardOps => q.card \notin CardsOf(C)
  BY <1>3 DEF ReadsHold, CardsOf, ColumnsOf, BoardOfCard
<1>5. q.op \in ColumnOps \cup {"MoveCard"} => q.column \notin C
  BY <1>3 DEF ReadsHold, ColumnsOf
<1>6. CASE CreateCard(r)
  <2>1. CASE cards' = cards
    BY <1>2, <2>1 DEF SameCards, CardsOf
  <2>2. CASE cards' # cards
    <3>1. PICK k \in Card \ issued :
            cards' = WithRow(cards, k, [column |-> q.column, by |-> q.user])
      BY <1>6, <2>2 DEF CreateCard
    <3>2. k \notin DOMAIN cards /\ q.column \notin C
      BY <1>5, <1>6 DEF TablesOK, RowsIssued, CreateCard, ColumnOps
    <3> QED
      BY <1>2, <3>1, <3>2 DEF SameCards, CardsOf, WithRow
  <2> QED
    BY <2>1, <2>2
<1>7. CASE UpdateCard(r)
  <2>1. /\ DOMAIN cards' = DOMAIN cards
        /\ \A k \in DOMAIN cards : /\ cards'[k].column = cards[k].column
                                   /\ k # q.card => cards'[k] = cards[k]
    BY <1>7, TableFacts DEF UpdateCard, CardRow
  <2> QED
    BY <1>2, <1>4, <1>7, <2>1 DEF UpdateCard, CardOps, SameCards, CardsOf
<1>8. CASE MoveCard(r)
  <2>1. q.card \notin CardsOf(C) /\ q.column \notin C
    BY <1>4, <1>5, <1>8 DEF MoveCard, CardOps
  <2>2. /\ DOMAIN cards' = DOMAIN cards
        /\ \A k \in DOMAIN cards : k # q.card => cards'[k] = cards[k]
        /\ q.card \in DOMAIN cards =>
             cards'[q.card] = cards[q.card] \/ cards'[q.card].column = q.column
    BY <1>8, TableFacts DEF MoveCard, CardRow
  <2> QED
    BY <1>2, <2>1, <2>2 DEF SameCards, CardsOf
<1>9. CASE DeleteCard(r)
  <2>1. cards' = WithoutRows(cards, {q.card})
    BY <1>9 DEF DeleteCard
  <2> QED
    BY <1>2, <1>4, <1>9, <2>1 DEF DeleteCard, CardOps, SameCards, CardsOf, WithoutRows
<1> QED
  BY <1>6, <1>7, <1>8, <1>9 DEF WriteCard

\* A board's contents change only by a write of a request checked for it.
LEMMA ContentsChange ==
  ASSUME TablesOK, RequestsOK, KanbanConstants, NEW r \in Req, Step(r),
         NEW b \in DOMAIN boards, Contents(b)' # Contents(b)
  PROVE  /\ WriteBoard(r) \/ WriteColumn(r) \/ WriteCard(r)
         /\ req[r].board = b
         /\ req'[r] # req[r]
         /\ b \in seen[r]
<1>1. TablesOK'
  BY TablesInv
<1>2. ~(Start(r) \/ Read(r) \/ Fail(r))
  <2>1. SUFFICES ASSUME Start(r) \/ Read(r) \/ Fail(r) PROVE FALSE
    OBVIOUS
  <2>2. UNCHANGED tables
    BY <2>1 DEF Start, StartOnBoard, StartOnColumn, StartOnCard, Read, ResolveColumn,
                ResolveCard, RequireMember, RequireOwner, LookupUser,
                RequireSameBoard, Fail
  <2> QED
    BY <2>2 DEF tables, Contents, BoardItself, BoardMembers, BoardColumns, BoardCards,
                MembersOf, ColumnsOf, CardsOf
<1>3. ~CreateBoardWithColumns(r)
  BY <1>1, CreateBoardContents, ContentsStay
<1>4. WriteBoard(r) \/ WriteColumn(r) \/ WriteCard(r)
  BY <1>2, <1>3 DEF Step
<1>5. req[r].board = b
  BY <1>1, <1>4, WriteBoardContents, WriteColumnContents, WriteCardContents, ContentsStay
<1>6. req[r].at = "write"
  BY <1>4 DEF WriteBoard, UpdateBoard, DeleteBoard, AddMember, RemoveMember,
              WriteColumn, CreateColumn, UpdateColumn, DeleteColumn,
              WriteCard, CreateCard, UpdateCard, MoveCard, DeleteCard
<1>7. req'[r] # req[r]
  BY <1>4, <1>6, EndInv
<1>8. b \in seen[r]
  BY <1>5, <1>6 DEF RequestsOK, ReadsHold
<1> QED
  BY <1>4, <1>5, <1>7, <1>8

\* Whoever changes anything stored for a board was a member of that board at
\* some moment since their request began.
THEOREM OnlyMembersWrite == Spec => MembersWrite
<1>1. ASSUME Inv, [Next]_vars
      PROVE  [\A b \in DOMAIN boards : Contents(b)' # Contents(b) =>
                \E r \in Req : req'[r] # req[r] /\ b \in seen[r]]_vars
  <2>1. CASE UNCHANGED vars
    BY <2>1
  <2>2. CASE Next
    BY <1>1, <2>2, InvParts, ContentsChange, KanbanConstants DEF Next
  <2> QED
    BY <1>1, <2>1, <2>2
<1> QED
  BY <1>1, InvInit, InvNext, PTL DEF Spec, MembersWrite

\* A board is deleted, and its members change, only at its owner's request:
\* the owner check cannot go stale between the read and the write.
THEOREM OnlyOwnersManage == Spec => OwnersManage
<1>1. ASSUME Inv, NEW r \in Req, Step(r), NEW b \in DOMAIN boards,
             b \notin DOMAIN boards' \/ BoardMembers(b)' # BoardMembers(b)
      PROVE  req'[r] # req[r] /\ req[r].user = boards[b].owner
  <2>1. TablesOK /\ RequestsOK /\ TablesOK'
    BY <1>1, InvParts, TablesInv, KanbanConstants
  <2>2. Contents(b)' # Contents(b)
    <3>1. CASE b \notin DOMAIN boards'
      BY <3>1 DEF Contents, BoardItself
    <3>2. CASE BoardMembers(b)' # BoardMembers(b)
      BY <3>2 DEF Contents
    <3> QED
      BY <1>1, <3>1, <3>2
  <2>3. /\ WriteBoard(r) \/ WriteColumn(r) \/ WriteCard(r)
        /\ req[r].board = b
        /\ req'[r] # req[r]
    BY <1>1, <2>1, <2>2, ContentsChange, KanbanConstants
  <2>4. DeleteBoard(r) \/ AddMember(r) \/ RemoveMember(r)
    <3>1. SUFFICES ASSUME UpdateBoard(r) \/ WriteColumn(r) \/ WriteCard(r)
                   PROVE  FALSE
      BY <2>3 DEF WriteBoard
    <3>2. DOMAIN boards' = DOMAIN boards /\ members' = members
      BY <3>1 DEF UpdateBoard, WriteColumn, CreateColumn, UpdateColumn, DeleteColumn,
                  WriteCard, CreateCard, UpdateCard, MoveCard, DeleteCard
    <3>3. BoardMembers(b)' = BoardMembers(b)
      BY <3>2 DEF BoardMembers, MembersOf
    <3> QED
      BY <1>1, <3>2, <3>3
  <2>5. req[r].at = "write" /\ req[r].op \in OwnerOps
    BY <2>4 DEF DeleteBoard, AddMember, RemoveMember, OwnerOps, MemberOps
  <2>6. req[r].user = boards[b].owner
    BY <2>1, <2>3, <2>5 DEF RequestsOK, ReadsHold
  <2> QED
    BY <2>3, <2>6
<1>2. ASSUME Inv, [Next]_vars
      PROVE  [\A b \in DOMAIN boards :
                (b \notin DOMAIN boards' \/ BoardMembers(b)' # BoardMembers(b)) =>
                  \E r \in Req : req'[r] # req[r] /\ req[r].user = boards[b].owner]_vars
  <2>1. CASE UNCHANGED vars
    BY <2>1
  <2>2. CASE Next
    BY <1>1, <1>2, <2>2 DEF Next
  <2> QED
    BY <1>2, <2>1, <2>2
<1> QED
  BY <1>2, InvInit, InvNext, PTL DEF Spec, OwnersManage
=============================================================================
