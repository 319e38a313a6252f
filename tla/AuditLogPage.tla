---------------------------- MODULE AuditLogPage ----------------------------
(***************************************************************************)
(* modules/app-maintenance/frontend/src/components/AuditLog.jsx: the audit *)
(* log, read page by page under filters.  rows is how many entries there   *)
(* are: they are numbered in the order they were written, listed newest    *)
(* first, and never change.  A filter is the id of the request an entry    *)
(* belongs to, or None for all; times, actors and addresses filter alike.  *)
(***************************************************************************)
EXTENDS Calls, Integers

CONSTANTS
  PageSize,    \* PAGE_SIZE
  Requests,    \* how many different requests wrote the entries
  MaxEntries,  \* bound: entries ever written
  MaxShown     \* bound: entries on the page when more are asked for

Filter == (0 .. Requests - 1) \cup {None}
RequestId(e) == e % Requests
Matches(f, e) == f = None \/ RequestId(e) = f

\* The entries that match, newest first.
Listed(f) == SelectSeq([k \in 1 .. rows |-> rows + 1 - k], LAMBDA e : Matches(f, e))

\* LIMIT and OFFSET.
Window(s, offset) == SubSeq(s, offset + 1,
                            IF offset + PageSize < Len(s) THEN offset + PageSize ELSE Len(s))

\* mixed is history: since the page last showed one list alone, a list was
\* asked for while another was on its way, or the first page of one failed
\* (Load more then goes on from the old list's offset with the new filter).
State == [entries : Seq(1 .. MaxEntries), offset : Nat, hasMore : BOOLEAN,
          loading : BOOLEAN, error : BOOLEAN, range : Filter, applied : Filter,
          mixed : BOOLEAN]

Arg == [offset : Nat, filter : Filter]
Request(c) == IsCall(c, "list", Arg, Seq(1 .. MaxEntries))

Init ==
  /\ rows \in 0 .. MaxEntries
  /\ page = [entries |-> <<>>, offset |-> 0, hasMore |-> TRUE, loading |-> TRUE,
             error |-> FALSE, range |-> None, applied |-> None, mixed |-> FALSE]
  /\ net = <<Call("list", [offset |-> 0, filter |-> None])>>
  /\ lag = FALSE

\* What loadPage does before it waits: p is the page its caller has left.
LoadPage(p, nextOffset, filter) ==
  /\ page' = [p EXCEPT !.loading = TRUE, !.error = FALSE, !.mixed = @ \/ ~Quiet]
  /\ Send("list", [offset |-> nextOffset, filter |-> filter])
  /\ UNCHANGED <<rows, lag>>

\* ... and after: the first page replaces what is shown, a later one is put
\* below it.  Whoever answers first ends "loading".
Loaded(i) ==
  /\ Answered(i, "list")
  /\ LET at == net[i].arg.offset
         ans == net[i].ans
     IN  page' = IF ans = Failed
                   THEN [page EXCEPT !.error = TRUE, !.loading = FALSE, !.mixed = @ \/ at = 0]
                   ELSE [page EXCEPT !.entries = IF at = 0 THEN ans ELSE @ \o ans,
                                     !.hasMore = Len(ans) = PageSize,
                                     !.offset = at + Len(ans),
                                     !.loading = FALSE,
                                     !.mixed = @ /\ ~(at = 0 /\ Len(net) = 1 /\ net[i].arg.filter = page.applied)]
  /\ Take(i)
  /\ UNCHANGED <<rows, lag>>

-----------------------------------------------------------------------------
EditFilters ==
  /\ \E f \in Filter : page' = [page EXCEPT !.range = f]
  /\ UNCHANGED <<rows, net, lag>>

ApplyFilters ==
  /\ ~page.loading
  /\ LoadPage([page EXCEPT !.applied = page.range], 0, page.range)

ClearFilters ==
  /\ ~page.loading
  /\ LoadPage([page EXCEPT !.range = None, !.applied = None], 0, None)

\* The id beside an entry can be pressed whether or not a list is on its way.
TraceRequest ==
  \E k \in DOMAIN page.entries :
    LET f == RequestId(page.entries[k])
    IN  LoadPage([page EXCEPT !.range = f, !.applied = f], 0, f)

LoadMore ==
  /\ page.hasMore /\ ~page.loading /\ Len(page.entries) <= MaxShown
  /\ LoadPage(page, page.offset, page.applied)

\* ListAuditLog: one SELECT.
ServeList(i) ==
  Sent(i, "list") /\ ServeRead(i, "list", Window(Listed(net[i].arg.filter), net[i].arg.offset))

\* Somebody does something that is logged.
Logged == rows < MaxEntries /\ Foreign(rows + 1)

Next ==
  \/ EditFilters \/ ApplyFilters \/ ClearFilters \/ TraceRequest \/ LoadMore \/ Logged
  \/ \E i \in DOMAIN net : Loaded(i) \/ ServeList(i)

-----------------------------------------------------------------------------
TypeOK ==
  /\ page \in State
  /\ rows \in 0 .. MaxEntries
  /\ Len(net) <= MaxCalls /\ \A i \in DOMAIN net : Request(net[i])
  /\ lag \in BOOLEAN

\* The entries shown are those the filters in force select, and leave nothing
\* out: between two of them the log has no other that matches, although new
\* entries move the pages down between two GETs (an entry may then be shown
\* twice).  Unless lists were mixed.
NoGaps ==
  Quiet /\ ~page.mixed =>
    /\ \A k \in DOMAIN page.entries : Matches(page.applied, page.entries[k])
    /\ \A k \in 1 .. Len(page.entries) - 1, e \in 1 .. rows :
         page.entries[k] > e /\ e > page.entries[k + 1] => ~Matches(page.applied, e)
=============================================================================
