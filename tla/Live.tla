-------------------------------- MODULE Live --------------------------------
(***************************************************************************)
(* The two parts of the pages that follow the backend by themselves: the   *)
(* board of kanban, which is told of changes by a socket (module           *)
(* BoardPage), and the bell in every header, which polls (module Bell).    *)
(* tab is which of them a behaviour is about; it never changes.            *)
(***************************************************************************)
EXTENDS Calls

CONSTANTS
  Name, MaxChanges,
  PanelSize, MaxNotes,
  MaxTouches, MaxClicks   \* bounds: what the user does with the board, with the bell

VARIABLE tab

vars == <<rows, page, net, lag, tab>>

Kanban == INSTANCE BoardPage
Bell == INSTANCE Bell WITH MaxTouches <- MaxClicks

Init ==
  \/ tab = "board" /\ Kanban!Init
  \/ tab = "bell" /\ Bell!Init

Next ==
  /\ \/ tab = "board" /\ Kanban!Next
     \/ tab = "bell" /\ Bell!Next
  /\ UNCHANGED tab

Answer(i) == (tab = "board" /\ Kanban!Handle(i)) \/ (tab = "bell" /\ Bell!Handle(i))
Serve(i) == (tab = "board" /\ Kanban!Serve(i)) \/ (tab = "bell" /\ Bell!Serve(i))

\* Every request is answered and every answer and event handled; the bell's timer
\* goes on, and a poll repeated for ever is not answered with an error each time.
\* Nothing is assumed of the socket, nor of what users do.
Spec ==
  /\ Init /\ [][Next]_vars
  /\ WF_vars(UNCHANGED tab /\ \E i \in DOMAIN net : Answer(i))
  /\ WF_vars(UNCHANGED tab /\ \E i \in DOMAIN net : Serve(i))
  /\ WF_vars(UNCHANGED tab /\ tab = "bell" /\ Bell!Poll)
  /\ SF_vars(UNCHANGED tab /\ tab = "bell" /\ Bell!PollAnswered)

-----------------------------------------------------------------------------
\* The board is a live copy of the backend's (the bell's page has no board, and
\* nothing to catch up with).
OnBoard == tab = "board"

Copy == INSTANCE LiveCopy WITH
  source <- IF OnBoard THEN rows.version ELSE 0,
  copy <- IF OnBoard THEN (IF page.board = None THEN None ELSE page.board.version) ELSE 0,
  excused <- OnBoard /\ lag

\* Refinement: the board page shows only versions there have been, and catches up
\* with the latest by itself (Board.jsx:161-166), unless it missed being told, a
\* fetch failed, or an answer came after that of a later fetch: nothing orders
\* the fetches, and an older board stays until there is a reason to fetch again.
BoardIsLive == Copy!Spec

\* A fetch, of which every event of another user is a reason, does not overwrite
\* what is being typed in a column's input.
TypingIsKept == OnBoard => Kanban!TypingIsKept

\* Whatever the bell counted on its own, once nothing new comes in and the user
\* leaves it alone its number is that of the unread notifications, for good.
BadgeCatchesUp == <>[](tab = "bell" => page.unread = Bell!Unread)
=============================================================================
