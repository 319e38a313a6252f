------------------------------- MODULE Calls --------------------------------
(***************************************************************************)
(* What every React page of the repository has in common: state of its     *)
(* own, a backend whose tables other people change too, and the requests   *)
(* under way between the two.  The api.js of each module is one function,  *)
(* request(), around fetch: it resolves to the answer or throws, and       *)
(* nothing orders the answers of two requests.                             *)
(*                                                                         *)
(* A request is sent by a handler of the page, read or executed by the     *)
(* backend at one later moment (backend methods of several statements have *)
(* modules of their own), and its answer is handled later still, when the  *)
(* page may have moved on.  A request may fail before it takes effect or,  *)
(* its answer lost on the way, after.                                      *)
(***************************************************************************)
EXTENDS Naturals, Sequences

CONSTANTS
  Waiting,   \* the answer of a request that the backend has not executed
  Failed,    \* what request() throws
  Done,      \* an answer whose body the page does not use
  None,      \* null, undefined, the empty string
  MaxCalls   \* bound: requests under way at once

VARIABLES
  rows,      \* what the backend holds of what this page is about
  page,      \* the state (useState, useRef) of the page's components
  net,       \* requests under way, in the order they were sent
  lag        \* history: the page has a reason to show something else than rows:
             \* somebody else wrote after it read, an answer was lost or an
             \* error, or an older answer came after a newer one

state == <<rows, page, net, lag>>

\* late: a request of the same kind sent after it was handled before it.
\* gone: the component that sent it is no longer on the page, and React drops
\* what its handlers set.
Call(op, arg) == [op |-> op, arg |-> arg, ans |-> Waiting, late |-> FALSE, gone |-> FALSE]

\* c is a request of one kind, by what it carries and what it is answered.
IsCall(c, op, args, answers) ==
  /\ c.op = op
  /\ c.arg \in args
  /\ c.ans \in {Waiting, Failed} \/ c.ans \in answers
  /\ c.late \in BOOLEAN /\ c.gone \in BOOLEAN

Quiet == net = <<>>

\* A handler sends a request.
Send(op, arg) ==
  /\ Len(net) < MaxCalls
  /\ net' = Append(net, Call(op, arg))

\* The i-th request is of this kind and still to be executed; has an answer.
Sent(i, op) == i \in DOMAIN net /\ net[i].op = op /\ net[i].ans = Waiting
Answered(i, op) == i \in DOMAIN net /\ net[i].op = op /\ net[i].ans # Waiting

Reply(i, ans) == net' = [net EXCEPT ![i].ans = ans]

\* The requests left when the i-th is handled; those of the same kind that
\* were sent before it are now overtaken.
Rest(i) ==
  [j \in 1 .. Len(net) - 1 |->
     IF j >= i THEN net[j + 1]
     ELSE [net[j] EXCEPT !.late = @ \/ net[j].op = net[i].op]]

\* The same, on a page where it does not matter which was sent first.
Others(i) == [j \in 1 .. Len(net) - 1 |-> net[IF j >= i THEN j + 1 ELSE j]]

\* The answer of the i-th request is handled, and nothing sent after it.
Take(i) == net' = Rest(i)

\* ... and one more request is sent, most often the page's load().
TakeAndSend(i, op, arg) == net' = Append(Rest(i), Call(op, arg))

\* A component that sends requests of these kinds leaves the page.
Unmounted(calls, ops) ==
  [i \in DOMAIN calls |-> [calls[i] EXCEPT !.gone = @ \/ calls[i].op \in ops]]

-----------------------------------------------------------------------------
(* The backend executes a request.                                         *)

\* A GET: answers what it finds, or fails.
ServeRead(i, op, value) ==
  /\ Sent(i, op)
  /\ \E ans \in {value, Failed} : Reply(i, ans)
  /\ UNCHANGED <<rows, page, lag>>

\* A POST, PUT or DELETE that the backend accepts: answered with ans, or
\* executed and its answer lost, or lost before it was executed.
ServeWrite(i, op, newRows, ans) ==
  /\ Sent(i, op)
  /\ \/ rows' = newRows /\ Reply(i, ans) /\ UNCHANGED lag
     \/ rows' = newRows /\ Reply(i, Failed) /\ lag' = TRUE
     \/ UNCHANGED <<rows, lag>> /\ Reply(i, Failed)
  /\ UNCHANGED page

\* One that it refuses (403, 404, 409).
ServeRefusal(i, op) ==
  /\ Sent(i, op)
  /\ Reply(i, Failed)
  /\ UNCHANGED <<rows, page, lag>>

\* Another client changes the rows.
Foreign(newRows) ==
  /\ newRows # rows
  /\ rows' = newRows
  /\ lag' = TRUE
  /\ UNCHANGED <<page, net>>

\* What the answer of a load does to lag: the page is up to date again when
\* the answer is, and no request of its kind is left with one that is not.
LagAfterLoad(i) ==
  LET loads == { j \in DOMAIN net : net[j].op = net[i].op }
  IN  IF net[i].ans = rows
        THEN lag /\ \E j \in loads : net[j].ans \notin {rows, Waiting, Failed}
        ELSE lag \/ net[i].ans = Failed \/ net[i].late
=============================================================================
