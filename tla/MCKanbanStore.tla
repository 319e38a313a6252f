--------------------------- MODULE MCKanbanStore ---------------------------
(***************************************************************************)
(* Small instances of KanbanStore.                                         *)
(***************************************************************************)
EXTENDS KanbanStore, Integers, TLC

\* Users, ids and request slots are interchangeable.
Symmetry == Permutations(User) \cup Permutations(Board) \cup Permutations(Column)
              \cup Permutations(Req)

Users == UNION { {boards[b].owner, boards[b].by} : b \in DOMAIN boards }
           \cup { m[2] : m \in DOMAIN members }
           \cup { columns[c].by : c \in DOMAIN columns }
           \cup { cards[k].by : k \in DOMAIN cards }
           \cup (UNION { {req[r].user, req[r].target} : r \in Req } \ {None})

\* Either several users and one board with one column, or several boards and
\* columns of one user: both at once would be too many states.
Small ==
  \/ Cardinality(Users) <= 1
  \/ Cardinality(issued \cap Board) <= 1 /\ Cardinality(issued \cap Column) <= 1
=============================================================================
