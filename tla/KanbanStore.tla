---------------------------- MODULE KanbanStore ----------------------------
(***************************************************************************)
(* modules/kanban/backend/store.go: the boards, their members, columns and *)
(* cards, and the requests that change them.  Every store method is a few  *)
(* SQL statements, each committed on its own (database/sql, READ           *)
(* COMMITTED): it resolves the board of the row it was given, reads the    *)
(* caller's membership, and only then writes.  Between two statements of a *)
(* request any other request may run, so everything a request has read may *)
(* be out of date when it writes.  Only CreateBoardWithColumns runs in a   *)
(* transaction.                                                            *)
(*                                                                         *)
(* The contents of a row (name, description, position, assignee, colour)   *)
(* are abstracted to the user who wrote them last, the column "by".        *)
(***************************************************************************)
EXTENDS Tables, FiniteSets

CONSTANTS
  User,    \* users of app_maintenance.users
  Board,   \* ids that gen_random_uuid() may give a board,
  Column,  \* a column
  Card,    \* or a card
  Req,     \* HTTP requests that may be in flight at once
  None     \* "no such field" in a request

ASSUME KanbanConstants ==
  /\ None \notin User \cup Board \cup Column \cup Card
  /\ Board \cap Column = {}
  /\ Board \cap Card = {}
  /\ Column \cap Card = {}

VARIABLES
  boards,   \* table boards: id -> owner_id, contents
  members,  \* table board_members: <<board_id, user_id>> -> role
  columns,  \* table columns: id -> board_id, contents
  cards,    \* table cards: id -> column_id, contents
  issued,   \* ids handed out so far; a UUID is never handed out twice
  req,      \* the requests in flight, each at one of its statements
  seen      \* history: boards a request's user was a member of since it began

tables == <<boards, members, columns, cards, issued>>
vars == <<tables, req, seen>>

MemberOps == {"AddMember", "RemoveMember"}
OwnerOps  == MemberOps \cup {"DeleteBoard"}
BoardOps  == OwnerOps \cup {"UpdateBoard", "CreateColumn"}
ColumnOps == {"UpdateColumn", "DeleteColumn", "CreateCard"}
CardOps   == {"UpdateCard", "DeleteCard", "MoveCard"}
Op        == BoardOps \cup ColumnOps \cup CardOps

\* The statement a request is about to execute.
Statement == {"idle", "resolve", "member", "owner", "lookup", "dest", "write"}

BoardRow  == [owner : User, by : User]
ColumnRow == [board : Board, by : User]
CardRow   == [column : Column, by : User]
Role      == {"owner", "member"}

\* op and the four ids come from the route and the body, user from X-User-Id;
\* board is given by the route of a BoardOp and found by "resolve" otherwise.
Request == [at     : Statement,
            op     : Op \cup {None},
            user   : User \cup {None},
            board  : Board \cup {None},
            column : Column \cup {None},
            card   : Card \cup {None},
            target : User \cup {None}]

Idle == [at |-> "idle", op |-> None, user |-> None, board |-> None,
         column |-> None, card |-> None, target |-> None]

ColumnsOf(bs) == { c \in DOMAIN columns : columns[c].board \in bs }
CardsOf(cs)   == { k \in DOMAIN cards : cards[k].column \in cs }
MembersOf(bs) == { m \in DOMAIN members : m[1] \in bs }
BoardOfCard(k) == columns[cards[k].column].board

-----------------------------------------------------------------------------
Init ==
  /\ boards = [b \in {} |-> None]
  /\ members = [m \in {} |-> None]
  /\ columns = [c \in {} |-> None]
  /\ cards = [k \in {} |-> None]
  /\ issued = {}
  /\ req = [r \in Req |-> Idle]
  /\ seen = [r \in Req |-> {}]

Goto(r, statement) == req' = [req EXCEPT ![r].at = statement]

\* The request has its answer: a success, a 403, a 404 or a 500.
Finish(r) == req' = [req EXCEPT ![r] = Idle]

-----------------------------------------------------------------------------
(* A request arrives.  It may name any id that was ever handed out, also   *)
(* one whose row has been deleted since: clients keep ids.                 *)

StartOnBoard(r) ==
  /\ req[r].at = "idle"
  /\ \E op \in BoardOps, u \in User, b \in issued \cap Board, t \in User :
       req' = [req EXCEPT ![r] =
                 [Idle EXCEPT !.at = IF op \in OwnerOps THEN "owner" ELSE "member",
                              !.op = op, !.user = u, !.board = b,
                              !.target = IF op \in MemberOps THEN t ELSE None]]
  /\ UNCHANGED tables

StartOnColumn(r) ==
  /\ req[r].at = "idle"
  /\ \E op \in ColumnOps, u \in User, c \in issued \cap Column :
       req' = [req EXCEPT ![r] =
                 [Idle EXCEPT !.at = "resolve", !.op = op, !.user = u, !.column = c]]
  /\ UNCHANGED tables

StartOnCard(r) ==
  /\ req[r].at = "idle"
  /\ \E op \in CardOps, u \in User, k \in issued \cap Card, c \in issued \cap Column :
       req' = [req EXCEPT ![r] =
                 [Idle EXCEPT !.at = "resolve", !.op = op, !.user = u, !.card = k,
                              !.column = IF op = "MoveCard" THEN c ELSE None]]
  /\ UNCHANGED tables

\* The only method that is one transaction: the board, its owner's
\* membership and its first columns appear together.
CreateBoardWithColumns(r) ==
  /\ req[r].at = "idle"
  /\ \E u \in User, b \in Board \ issued, cs \in SUBSET (Column \ issued) :
       /\ boards' = WithRow(boards, b, [owner |-> u, by |-> u])
       /\ members' = WithRow(members, <<b, u>>, "owner")
       /\ columns' = [c \in (DOMAIN columns) \cup cs |->
                        IF c \in cs THEN [board |-> b, by |-> u] ELSE columns[c]]
       /\ issued' = issued \cup {b} \cup cs
  /\ UNCHANGED <<cards, req>>

-----------------------------------------------------------------------------
(* The reads, each a statement of its own.                                 *)

\* boardIDForColumn, the first statement of the methods given a column id.
ResolveColumn(r) ==
  /\ req[r].at = "resolve"
  /\ req[r].op \in ColumnOps
  /\ IF req[r].column \in DOMAIN columns
       THEN req' = [req EXCEPT ![r].at = "member",
                               ![r].board = columns[req[r].column].board]
       ELSE Finish(r)
  /\ UNCHANGED tables

\* boardIDForCard, one join of cards and columns.
ResolveCard(r) ==
  /\ req[r].at = "resolve"
  /\ req[r].op \in CardOps
  /\ IF req[r].card \in DOMAIN cards
       THEN req' = [req EXCEPT ![r].at = "member",
                               ![r].board = BoardOfCard(req[r].card)]
       ELSE Finish(r)
  /\ UNCHANGED tables

\* Faulty: any user passes for a member.
RequireMember_Anyone(r) ==
  /\ req[r].at = "member"
  /\ Goto(r, IF req[r].op = "MoveCard" THEN "dest" ELSE "write")
  /\ UNCHANGED tables

\* Faulty: a move is checked against the card's board only.
RequireMember_SkipsDest(r) ==
  /\ req[r].at = "member"
  /\ IF <<req[r].board, req[r].user>> \in DOMAIN members
       THEN Goto(r, "write")
       ELSE Finish(r)
  /\ UNCHANGED tables

RequireMember(r) ==
  /\ req[r].at = "member"
  /\ IF <<req[r].board, req[r].user>> \in DOMAIN members
       THEN Goto(r, IF req[r].op = "MoveCard" THEN "dest" ELSE "write")
       ELSE Finish(r)
  /\ UNCHANGED tables

\* Faulty: any member passes for the owner.
RequireOwner_AnyMember(r) ==
  /\ req[r].at = "owner"
  /\ IF /\ <<req[r].board, req[r].user>> \in DOMAIN members
        /\ req[r].op = "RemoveMember" => req[r].target # req[r].user
       THEN Goto(r, IF req[r].op = "AddMember" THEN "lookup" ELSE "write")
       ELSE Finish(r)
  /\ UNCHANGED tables

\* RemoveMember also refuses an owner who would remove themself here.
RequireOwner(r) ==
  /\ req[r].at = "owner"
  /\ LET m == <<req[r].board, req[r].user>> IN
       IF /\ m \in DOMAIN members
          /\ members[m] = "owner"
          /\ req[r].op = "RemoveMember" => req[r].target # req[r].user
         THEN Goto(r, IF req[r].op = "AddMember" THEN "lookup" ELSE "write")
         ELSE Finish(r)
  /\ UNCHANGED tables

\* AddMember looks the username up in app-maintenance's directory, which
\* other backends change at will: it is there or it is not.
LookupUser(r) ==
  /\ req[r].at = "lookup"
  /\ \/ Goto(r, "write")
     \/ Finish(r)
  /\ UNCHANGED tables

\* Faulty: a destination column is enough, on whatever board.
RequireSameBoard_AnyBoard(r) ==
  /\ req[r].at = "dest"
  /\ IF req[r].column \in DOMAIN columns
       THEN Goto(r, "write")
       ELSE Finish(r)
  /\ UNCHANGED tables

\* MoveCard reads the board of the destination column last.
RequireSameBoard(r) ==
  /\ req[r].at = "dest"
  /\ IF /\ req[r].column \in DOMAIN columns
        /\ columns[req[r].column].board = req[r].board
       THEN Goto(r, "write")
       ELSE Finish(r)
  /\ UNCHANGED tables

-----------------------------------------------------------------------------
(* The writes.  A row that has gone since it was read is a foreign key     *)
(* error for an INSERT and "0 rows affected" for an UPDATE or a DELETE:    *)
(* either way nothing changes and the request is over.                     *)

UpdateBoard(r) ==
  /\ req[r].at = "write"
  /\ req[r].op = "UpdateBoard"
  /\ boards' = IF req[r].board \in DOMAIN boards
                 THEN [boards EXCEPT ![req[r].board].by = req[r].user]
                 ELSE boards
  /\ Finish(r)
  /\ UNCHANGED <<members, columns, cards, issued>>

\* ON DELETE CASCADE takes the board's members, its columns and their cards.
DeleteBoard(r) ==
  /\ req[r].at = "write"
  /\ req[r].op = "DeleteBoard"
  /\ LET bs == {req[r].board} IN
       /\ boards' = WithoutRows(boards, bs)
       /\ members' = WithoutRows(members, MembersOf(bs))
       /\ columns' = WithoutRows(columns, ColumnsOf(bs))
       /\ cards' = WithoutRows(cards, CardsOf(ColumnsOf(bs)))
  /\ Finish(r)
  /\ UNCHANGED issued

\* Faulty: ON CONFLICT DO UPDATE SET role = 'member'.
AddMember_Overwrites(r) ==
  /\ req[r].at = "write"
  /\ req[r].op = "AddMember"
  /\ members' = IF req[r].board \in DOMAIN boards
                  THEN WithRow(members, <<req[r].board, req[r].target>>, "member")
                  ELSE members
  /\ Finish(r)
  /\ UNCHANGED <<boards, columns, cards, issued>>

\* ON CONFLICT DO NOTHING: whoever is on the board keeps the role they have.
AddMember(r) ==
  /\ req[r].at = "write"
  /\ req[r].op = "AddMember"
  /\ LET m == <<req[r].board, req[r].target>> IN
       members' = IF req[r].board \in DOMAIN boards /\ m \notin DOMAIN members
                    THEN WithRow(members, m, "member")
                    ELSE members
  /\ Finish(r)
  /\ UNCHANGED <<boards, columns, cards, issued>>

RemoveMember(r) ==
  /\ req[r].at = "write"
  /\ req[r].op = "RemoveMember"
  /\ members' = WithoutRows(members, {<<req[r].board, req[r].target>>})
  /\ Finish(r)
  /\ UNCHANGED <<boards, columns, cards, issued>>

CreateColumn(r) ==
  /\ req[r].at = "write"
  /\ req[r].op = "CreateColumn"
  /\ IF req[r].board \in DOMAIN boards
       THEN \E c \in Column \ issued :
              /\ columns' = WithRow(columns, c,
                              [board |-> req[r].board, by |-> req[r].user])
              /\ issued' = issued \cup {c}
       ELSE UNCHANGED <<columns, issued>>
  /\ Finish(r)
  /\ UNCHANGED <<boards, members, cards>>

\* The body's boardId is ignored: only name and position are written.
UpdateColumn(r) ==
  /\ req[r].at = "write"
  /\ req[r].op = "UpdateColumn"
  /\ columns' = IF req[r].column \in DOMAIN columns
                  THEN [columns EXCEPT ![req[r].column].by = req[r].user]
                  ELSE columns
  /\ Finish(r)
  /\ UNCHANGED <<boards, members, cards, issued>>

\* Faulty: cards without ON DELETE CASCADE.
DeleteColumn_KeepsCards(r) ==
  /\ req[r].at = "write"
  /\ req[r].op = "DeleteColumn"
  /\ columns' = WithoutRows(columns, {req[r].column})
  /\ Finish(r)
  /\ UNCHANGED <<boards, members, cards, issued>>

DeleteColumn(r) ==
  /\ req[r].at = "write"
  /\ req[r].op = "DeleteColumn"
  /\ columns' = WithoutRows(columns, {req[r].column})
  /\ cards' = WithoutRows(cards, CardsOf({req[r].column}))
  /\ Finish(r)
  /\ UNCHANGED <<boards, members, issued>>

CreateCard(r) ==
  /\ req[r].at = "write"
  /\ req[r].op = "CreateCard"
  /\ IF req[r].column \in DOMAIN columns
       THEN \E k \in Card \ issued :
              /\ cards' = WithRow(cards, k,
                            [column |-> req[r].column, by |-> req[r].user])
              /\ issued' = issued \cup {k}
       ELSE UNCHANGED <<cards, issued>>
  /\ Finish(r)
  /\ UNCHANGED <<boards, members, columns>>

UpdateCard(r) ==
  /\ req[r].at = "write"
  /\ req[r].op = "UpdateCard"
  /\ cards' = IF req[r].card \in DOMAIN cards
                THEN [cards EXCEPT ![req[r].card].by = req[r].user]
                ELSE cards
  /\ Finish(r)
  /\ UNCHANGED <<boards, members, columns, issued>>

\* Only column and position move; the contents stay with their last writer.
MoveCard(r) ==
  /\ req[r].at = "write"
  /\ req[r].op = "MoveCard"
  /\ cards' = IF req[r].card \in DOMAIN cards /\ req[r].column \in DOMAIN columns
                THEN [cards EXCEPT ![req[r].card].column = req[r].column]
                ELSE cards
  /\ Finish(r)
  /\ UNCHANGED <<boards, members, columns, issued>>

DeleteCard(r) ==
  /\ req[r].at = "write"
  /\ req[r].op = "DeleteCard"
  /\ cards' = WithoutRows(cards, {req[r].card})
  /\ Finish(r)
  /\ UNCHANGED <<boards, members, columns, issued>>

\* A statement fails, or the backend goes down under the request: what it
\* has committed stays, the rest never happens.
Fail(r) ==
  /\ req[r].at # "idle"
  /\ Finish(r)
  /\ UNCHANGED tables

-----------------------------------------------------------------------------
Start(r) == StartOnBoard(r) \/ StartOnColumn(r) \/ StartOnCard(r)

Read(r) == \/ ResolveColumn(r) \/ ResolveCard(r)
           \/ RequireMember(r) \/ RequireOwner(r)
           \/ LookupUser(r)    \/ RequireSameBoard(r)

WriteBoard(r) == UpdateBoard(r) \/ DeleteBoard(r) \/ AddMember(r) \/ RemoveMember(r)

WriteColumn(r) == CreateColumn(r) \/ UpdateColumn(r) \/ DeleteColumn(r)

WriteCard(r) == CreateCard(r) \/ UpdateCard(r) \/ MoveCard(r) \/ DeleteCard(r)

Step(r) == \/ Start(r) \/ Read(r) \/ CreateBoardWithColumns(r)
           \/ WriteBoard(r) \/ WriteColumn(r) \/ WriteCard(r)
           \/ Fail(r)

\* The history variable follows every step: what each request's user is a
\* member of now, on top of what they were a member of before.
Observe ==
  seen' = [r \in Req |->
             IF req'[r].at = "idle" THEN {}
             ELSE seen[r] \cup { b \in Board : <<b, req'[r].user>> \in DOMAIN members' }]

Next == (\E r \in Req : Step(r)) /\ Observe

Spec == Init /\ [][Next]_vars

-----------------------------------------------------------------------------
(* Properties                                                              *)

\* The tables and the requests hold what their columns and fields declare.
TypeOK ==
  /\ boards \in TablesOf(Board, BoardRow)
  /\ members \in TablesOf(Board \X User, Role)
  /\ columns \in TablesOf(Column, ColumnRow)
  /\ cards \in TablesOf(Card, CardRow)
  /\ issued \in SUBSET (Board \cup Column \cup Card)
  /\ req \in [Req -> Request]
  /\ seen \in [Req -> SUBSET Board]

\* Whatever the interleaving of deletes and inserts, no member, column or
\* card outlives its board (the REFERENCES ... ON DELETE CASCADE clauses).
NoDanglingRows ==
  /\ \A m \in DOMAIN members : m[1] \in DOMAIN boards
  /\ \A c \in DOMAIN columns : columns[c].board \in DOMAIN boards
  /\ \A k \in DOMAIN cards : cards[k].column \in DOMAIN columns

\* owner_id and board_members agree: every board has exactly one member with
\* the role "owner", the user in owner_id.  Adding the owner again, removing
\* members and deleting boards concurrently must not break it: a board
\* without an owner row could never be deleted or shared again.
OneOwner ==
  \A b \in DOMAIN boards, u \in User :
    (<<b, u>> \in DOMAIN members /\ members[<<b, u>>] = "owner")
      <=> u = boards[b].owner

\* A row's id is among the ids handed out.
RowsIssued == DOMAIN boards \cup DOMAIN columns \cup DOMAIN cards \subseteq issued

\* Which fields a request has and which statements it may be at, by its op.
WellFormed(q) ==
  /\ q.user \in User
  /\ q.op \in Op
  /\ q.op \in OwnerOps => q.at \in {"owner", "lookup", "write"}
  /\ q.op \in MemberOps => q.target \in User
  /\ q.op \in ColumnOps \cup {"MoveCard"} => q.column \in issued \cap Column
  /\ q.op \in CardOps => q.card \in issued \cap Card
  /\ q.at = "resolve" => q.op \in ColumnOps \cup CardOps
  /\ q.at # "resolve" => q.board \in issued \cap Board
  /\ q.at = "owner" => q.op \in OwnerOps
  /\ q.at = "lookup" => q.op = "AddMember"
  /\ q.at = "dest" => q.op = "MoveCard"

\* What is left, at each later statement, of what request r has read.
ReadsHold(r) ==
  LET q == req[r] IN
    /\ \A b \in Board : <<b, q.user>> \in DOMAIN members => b \in seen[r]
    /\ q.at \in {"dest", "lookup", "write"} => q.board \in seen[r]
    /\ (q.at # "resolve" /\ q.op \in ColumnOps /\ q.column \in DOMAIN columns)
         => columns[q.column].board = q.board
    /\ (q.at # "resolve" /\ q.op \in CardOps /\ q.card \in DOMAIN cards)
         => BoardOfCard(q.card) = q.board
    /\ (q.at = "write" /\ q.op = "MoveCard" /\ q.column \in DOMAIN columns)
         => columns[q.column].board = q.board
    /\ (q.at \in {"lookup", "write"} /\ q.op \in OwnerOps /\ q.board \in DOMAIN boards)
         => boards[q.board].owner = q.user
    /\ (q.at = "write" /\ q.op = "RemoveMember") => q.target # q.user

\* Although rows are deleted, moved and shared between a request's reads and
\* its write, everything it goes on to rely on is still true of the rows that
\* are left: the board it resolved, the destination it compared, the owner it
\* checked.  Only the membership itself may be gone, and it was there.
ReadsStayTrue ==
  /\ RowsIssued
  /\ \A r \in Req : req[r].at # "idle" => WellFormed(req[r]) /\ ReadsHold(r)

\* MoveCard reads the card's board, the membership and the destination's
\* board in three statements and writes in a fourth.  However these
\* interleave with moves and deletes of the same rows, a card never ends up
\* on another board.
CardStaysOnBoard ==
  [][\A k \in DOMAIN cards \cap DOMAIN cards' : BoardOfCard(k)' = BoardOfCard(k)]_vars

\* Everything stored for one board.
BoardItself(b)  == { boards[i] : i \in {b} \cap DOMAIN boards }
BoardMembers(b) == { <<m, members[m]>> : m \in MembersOf({b}) }
BoardColumns(b) == { <<c, columns[c]>> : c \in ColumnsOf({b}) }
BoardCards(b)   == { <<k, cards[k]>> : k \in CardsOf(ColumnsOf({b})) }

Contents(b) == <<BoardItself(b), BoardMembers(b), BoardColumns(b), BoardCards(b)>>

\* Membership is read before the write and may be gone by then, but it was
\* there: nothing stored for a board changes except by a request whose user
\* was a member of that very board at some moment since the request began.
MembersWrite ==
  [][\A b \in DOMAIN boards : Contents(b)' # Contents(b) =>
       \E r \in Req : req'[r] # req[r] /\ b \in seen[r]]_vars

\* The owner check is read before the write as well, but never goes stale:
\* a board is deleted and its membership changes only while the user who
\* asked for it is its owner.
OwnersManage ==
  [][\A b \in DOMAIN boards :
       (b \notin DOMAIN boards' \/ BoardMembers(b)' # BoardMembers(b)) =>
         \E r \in Req : req'[r] # req[r] /\ req[r].user = boards[b].owner]_vars
=============================================================================
