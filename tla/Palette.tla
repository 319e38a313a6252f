------------------------------ MODULE Palette -------------------------------
(***************************************************************************)
(* components/CommandPalette.jsx, the search box of every module's header. *)
(* What is typed is searched for DEBOUNCE_MS later; typing again clears    *)
(* the timer and aborts the search under way, whose promise then fails.    *)
(* A result is known by the query it was found for.                        *)
(***************************************************************************)
EXTENDS Calls

CONSTANTS
  Query,    \* trimmed queries of MIN_QUERY_LEN and more; None is a shorter one
  Hitless   \* those that find nothing

\* timer: the debounce is running.  History: failed, the last search of this
\* query was answered with an error; aborted, one was aborted and the query has
\* not been answered since.
State == [open : BOOLEAN, query : Query \cup {None}, results : Query \cup {None},
          timer : BOOLEAN, loading : BOOLEAN, failed : BOOLEAN, aborted : BOOLEAN]

Request(c) == IsCall(c, "search", Query, Query)

Closed == [open |-> FALSE, query |-> None, results |-> None, timer |-> FALSE,
           loading |-> FALSE, failed |-> FALSE, aborted |-> FALSE]

Init == rows = None /\ page = Closed /\ net = <<>> /\ lag = FALSE

\* The cleanup of the query's effect: the searches under way fail.
Abort == net' = [i \in DOMAIN net |-> [net[i] EXCEPT !.ans = Failed, !.gone = TRUE]]

\* The icon or Ctrl+K.
Open ==
  /\ ~page.open
  /\ page' = [page EXCEPT !.open = TRUE]
  /\ UNCHANGED <<rows, net, lag>>

\* Ctrl+K again, Escape or a click beside it.  Everything is emptied.
Close ==
  /\ page.open
  /\ page' = Closed
  /\ IF page.query # None THEN Abort ELSE UNCHANGED net
  /\ UNCHANGED <<rows, lag>>

\* The query's effect, for another query in the box.
Searching(q) ==
  [page EXCEPT !.query = q,
               !.results = IF q = None THEN None ELSE @,
               !.timer = q # None,
               !.loading = q # None,
               !.failed = FALSE,
               !.aborted = @ \/ ~Quiet]

\* Faulty: the search under way goes on.
Type_NoAbort ==
  /\ page.open
  /\ \E q \in (Query \cup {None}) \ {page.query} : page' = Searching(q)
  /\ UNCHANGED <<rows, net, lag>>

Type ==
  /\ page.open
  /\ \E q \in (Query \cup {None}) \ {page.query} : page' = Searching(q)
  /\ Abort
  /\ UNCHANGED <<rows, lag>>

Timeout ==
  /\ page.timer
  /\ page' = [page EXCEPT !.timer = FALSE]
  /\ Send("search", page.query)
  /\ UNCHANGED <<rows, lag>>

\* An aborted search, too, ends "loading": that of the search that follows it.
Found(i) ==
  /\ Answered(i, "search")
  /\ page' = IF net[i].ans = Failed
               THEN [page EXCEPT !.loading = FALSE, !.failed = @ \/ ~net[i].gone]
               ELSE [page EXCEPT !.results = net[i].ans, !.loading = FALSE,
                                 !.failed = FALSE, !.aborted = FALSE]
  /\ Take(i)
  /\ UNCHANGED <<rows, lag>>

\* A click on a result, or Enter, leaves the page for another, also while the
\* results are still those of an earlier query.
Follow ==
  /\ page.open /\ page.results \notin Hitless \cup {None}
  /\ page' = Closed
  /\ net' = <<>>
  /\ UNCHANGED <<rows, lag>>

\* What the box says under a query that is long enough.
NoResults ==
  ~page.loading /\ page.query # None /\ page.results \in Hitless \cup {None}

\* The search module answers what the user may see (its grants are the
\* backend's affair).
ServeSearch(i) == Sent(i, "search") /\ ServeRead(i, "search", net[i].arg)

Next ==
  \/ Open \/ Close \/ Type \/ Timeout \/ Follow
  \/ \E i \in DOMAIN net : Found(i) \/ ServeSearch(i)

-----------------------------------------------------------------------------
TypeOK ==
  /\ page \in State
  /\ Len(net) <= MaxCalls /\ \A i \in DOMAIN net : Request(net[i])
  /\ lag \in BOOLEAN

\* However fast one types and however slowly searches answer, when none is
\* waited for the results are those of the query in the box, none for a short
\* one; a failed search leaves those of the query before.
ResultsAreOfTheQuery ==
  Quiet /\ ~page.timer /\ ~page.failed => page.results = page.query

\* "No results" is said of a query that has none; after a search was aborted
\* it may be said too early.
NoResultsIsTrue ==
  /\ NoResults
  /\ ~page.failed /\ ~page.aborted
  => page.query \in Hitless
=============================================================================
