---------------------------- MODULE SettingsPage ----------------------------
(***************************************************************************)
(* modules/app-maintenance/frontend/src/components/Settings.jsx: one form  *)
(* over one row.  It starts with blanks, is filled by the answer to the    *)
(* GET and again by the answer to each save, and can be typed into and     *)
(* saved at any time.                                                      *)
(***************************************************************************)
EXTENDS Calls

CONSTANTS Text

\* The site's name is required; the tagline stands for the texts that are not.
Site == [name : Text \cup {None}, tagline : Text \cup {None}]

\* Besides form, error and saved: whether the form was ever filled, and
\* whether there was ever a reason for the tagline to be blank.
State == [form : Site, error : BOOLEAN, saved : BOOLEAN, filled : BOOLEAN, reason : BOOLEAN]

Request(c) ==
  \/ IsCall(c, "load", {None}, Site)
  \/ IsCall(c, "save", Site, Site)

Blanks == [name |-> None, tagline |-> None]

Init ==
  /\ rows \in [name : Text, tagline : Text]
  /\ page = [form |-> Blanks, error |-> FALSE, saved |-> FALSE,
             filled |-> FALSE, reason |-> FALSE]
  /\ net = <<Call("load", None)>>
  /\ lag = FALSE

\* The answer goes over whatever was typed before it came.
Load(i) ==
  /\ Answered(i, "load")
  /\ page' = IF net[i].ans = Failed THEN [page EXCEPT !.error = TRUE]
             ELSE [page EXCEPT !.form = net[i].ans, !.filled = TRUE]
  /\ Take(i)
  /\ UNCHANGED <<rows, lag>>

Type ==
  /\ \/ \E x \in Text : page' = [page EXCEPT !.form.name = x]
     \/ \E x \in Text : page' = [page EXCEPT !.form.tagline = x]
     \/ page' = [page EXCEPT !.form.tagline = None, !.reason = TRUE]
  /\ UNCHANGED <<rows, net, lag>>

\* Nothing keeps Save from being pressed before the form is filled, when its
\* name alone has been typed: that is a reason for a blank tagline.
Submit ==
  /\ page.form.name # None
  /\ page' = [page EXCEPT !.error = FALSE, !.saved = FALSE, !.reason = @ \/ ~page.filled]
  /\ Send("save", page.form)
  /\ UNCHANGED <<rows, lag>>

Saved(i) ==
  /\ Answered(i, "save")
  /\ page' = IF net[i].ans = Failed THEN [page EXCEPT !.error = TRUE]
             ELSE [page EXCEPT !.form = net[i].ans, !.saved = TRUE, !.filled = TRUE]
  /\ Take(i)
  /\ UNCHANGED <<rows, lag>>

\* The last save wins; its answer is the row read back.
ServeSave(i) == Sent(i, "save") /\ ServeWrite(i, "save", net[i].arg, net[i].arg)

\* Another administrator saves.
Elsewhere == \E x \in Text : Foreign([rows EXCEPT !.name = x])

Next ==
  \/ Type \/ Submit \/ Elsewhere
  \/ \E i \in DOMAIN net :
       \/ Load(i) \/ Saved(i) \/ ServeRead(i, "load", rows) \/ ServeSave(i)

-----------------------------------------------------------------------------
TypeOK ==
  /\ page \in State
  /\ rows \in Site
  /\ Len(net) <= MaxCalls /\ \A i \in DOMAIN net : Request(net[i])
  /\ lag \in BOOLEAN

\* The blanks that the page starts with get into the settings only if somebody
\* typed them or saved a form that had not been filled; the name never does.
BlanksHaveReason == rows.name # None /\ (rows.tagline = None => page.reason)
=============================================================================
