------------------------------ MODULE LiveCopy ------------------------------
(***************************************************************************)
(* What "live" promises of a page that shows a copy of something others    *)
(* change too: it shows only versions there have been, and it catches up   *)
(* with the latest one by itself, unless it has an excuse.  Module         *)
(* BoardPage, the board of kanban, implements this.                        *)
(***************************************************************************)
EXTENDS Naturals

CONSTANT None

VARIABLES
  source,   \* the number of changes made so far
  copy,     \* those of them on the page; None before it shows anything
  excused   \* the page missed being told, what it asked for was lost, or an older
            \* answer came after a newer one

vars == <<source, copy, excused>>

\* The page opens with nothing on it, or current.
Init == source = 0 /\ copy \in {None, 0} /\ excused = FALSE

Change ==
  /\ source' = source + 1
  /\ excused' \in {excused, TRUE}
  /\ UNCHANGED copy

\* An excuse ends only with the latest version.
Refresh ==
  /\ copy' \in 0 .. source
  /\ excused' \in BOOLEAN
  /\ excused /\ ~excused' => copy' = source
  /\ UNCHANGED source

Miss ==
  /\ excused' = TRUE
  /\ UNCHANGED <<source, copy>>

\* The page is left, or opened anew.
OpenOrLeave ==
  /\ copy' = None /\ excused' \in BOOLEAN
  /\ UNCHANGED source

Next == Change \/ Refresh \/ Miss \/ OpenOrLeave

CatchUp ==
  /\ ~excused /\ copy # source
  /\ copy' = source
  /\ UNCHANGED <<source, excused>>

Safety == Init /\ [][Next]_vars

Spec == Safety /\ WF_vars(CatchUp)
=============================================================================
