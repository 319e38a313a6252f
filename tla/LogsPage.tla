------------------------------ MODULE LogsPage ------------------------------
(***************************************************************************)
(* modules/app-maintenance/frontend/src/components/Logs.jsx: one container *)
(* is selected and its log is streamed, through an EventSource that the    *)
(* browser reconnects by itself, until the page is paused.  rows is the    *)
(* set of containers; of a line only the container it came from is kept.   *)
(***************************************************************************)
EXTENDS Calls

CONSTANTS
  Container,
  MaxLines    \* MAX_LINES

\* containers is None once something that is not a list was taken for one:
\* the next rendering throws, and with it the whole page is gone.
State == [containers : (SUBSET Container) \cup {None}, selected : Container \cup {None},
          paused : BOOLEAN, stream : Container \cup {None}, connected : BOOLEAN,
          lines : Seq(Container)]

Request(c) == IsCall(c, "load", {None}, SUBSET Container)

Gone == [containers |-> None, selected |-> None, paused |-> FALSE, stream |-> None,
         connected |-> FALSE, lines |-> <<>>]

Init ==
  /\ rows \in SUBSET Container
  /\ page = [Gone EXCEPT !.containers = {}]
  /\ net = <<Call("load", None)>>
  /\ lag = FALSE

Up == page.containers # None

\* The effect that follows selected and paused: the old stream is closed, and
\* a new one starts with an empty screen; without a new one the screen stays.
Streaming(p) ==
  IF p.selected = None \/ p.paused
    THEN [p EXCEPT !.stream = None, !.connected = FALSE]
    ELSE [p EXCEPT !.stream = p.selected, !.connected = TRUE, !.lines = <<>>]

\* The answer's status is not looked at: the JSON body of an error is taken
\* for the list.  An answer without JSON is an error that is shown.
LoadContainers(i) ==
  /\ Answered(i, "load")
  /\ IF net[i].ans = Failed
       THEN page' \in {page, Gone}
       ELSE LET listed == [page EXCEPT !.containers = net[i].ans]
            IN  IF page.selected # None \/ net[i].ans = {}
                  THEN page' = listed
                  ELSE \E c \in net[i].ans : page' = Streaming([listed EXCEPT !.selected = c])
  /\ IF page' = Gone THEN net' = <<>> ELSE Take(i)
  /\ UNCHANGED <<rows, lag>>

Refresh ==
  /\ Up
  /\ Send("load", None)
  /\ UNCHANGED <<rows, page, lag>>

Select ==
  /\ Up
  /\ \E c \in page.containers \ {page.selected} :
       page' = Streaming([page EXCEPT !.selected = c])
  /\ UNCHANGED <<rows, net, lag>>

Pause ==
  /\ Up
  /\ page' = Streaming([page EXCEPT !.paused = ~@])
  /\ UNCHANGED <<rows, net, lag>>

Clear ==
  /\ Up
  /\ page' = [page EXCEPT !.lines = <<>>]
  /\ UNCHANGED <<rows, net, lag>>

\* onmessage; the screen keeps the last MaxLines.
Line ==
  /\ page.stream # None
  /\ LET next == Append(page.lines, page.stream)
     IN  page' = [page EXCEPT !.lines = IF Len(next) > MaxLines THEN Tail(next) ELSE next]
  /\ UNCHANGED <<rows, net, lag>>

\* onerror.  The EventSource connects again and the lines go on, the last ones
\* once more, but the page is not told and goes on saying "disconnected".
Drop ==
  /\ page.stream # None
  /\ page' = [page EXCEPT !.connected = FALSE]
  /\ UNCHANGED <<rows, net, lag>>

\* A container starts or stops.
Elsewhere ==
  /\ Up
  /\ \E c \in Container : rows' = IF c \in rows THEN rows \ {c} ELSE rows \cup {c}
  /\ UNCHANGED <<page, net, lag>>

Next ==
  \/ Refresh \/ Select \/ Pause \/ Clear \/ Line \/ Drop \/ Elsewhere
  \/ \E i \in DOMAIN net : LoadContainers(i) \/ ServeRead(i, "load", rows)

-----------------------------------------------------------------------------
TypeOK ==
  /\ page \in State /\ Len(page.lines) <= MaxLines
  /\ rows \subseteq Container
  /\ Len(net) <= MaxCalls /\ \A i \in DOMAIN net : Request(net[i])

\* While a log is streaming, every line on the screen is of the container that
\* is selected, however containers are switched and the page is paused.  (While
\* it is paused another container can be selected, and the lines stay.)
LinesAreOfTheSelection ==
  page.stream # None => /\ page.stream = page.selected
                        /\ \A k \in DOMAIN page.lines : page.lines[k] = page.selected

\* "Live" is only shown while a log is streaming.
LiveIsHonest == page.connected => page.stream # None
=============================================================================
