----------------------------- MODULE UsersPage ------------------------------
(***************************************************************************)
(* modules/app-maintenance/frontend/src/components/Users.jsx: the table of *)
(* accounts, the form that adds one, and under each row a panel to toggle  *)
(* its roles or to type a new password for it.  Every write is followed by *)
(* load().  rows is user_roles: account -> the roles it holds.  The lists  *)
(* of roles and modules only label the table and are left out.             *)
(***************************************************************************)
EXTENDS Calls

CONSTANTS User, Role

\* users, error, form, panel and passwordInput; of the password only for
\* whom it was typed is kept.
Accounts == UNION { [U -> SUBSET Role] : U \in SUBSET User }

State == [users : Accounts,
          error : BOOLEAN,
          form  : User \cup {None},
          panel : [user : User, mode : {"roles", "password"}] \cup {None},
          typed : User \cup {None}]

Request(c) ==
  \/ IsCall(c, "load", {None}, Accounts)
  \/ IsCall(c, "create", User, {Done})
  \/ IsCall(c, "remove", User, {Done})
  \/ IsCall(c, "roles", [user : User, next : SUBSET Role], {Done})
  \/ IsCall(c, "password", [user : User, typed : User \cup {None}], {Done})

Init ==
  /\ rows \in UNION { [U -> {{}}] : U \in SUBSET User }
  /\ page = [users |-> <<>>, error |-> FALSE, form |-> None, panel |-> None, typed |-> None]
  /\ net = <<Call("load", None)>>
  /\ lag = FALSE

Load(i) ==
  /\ Answered(i, "load")
  /\ page' = IF net[i].ans = Failed THEN [page EXCEPT !.error = TRUE]
                                    ELSE [page EXCEPT !.users = net[i].ans]
  /\ lag' = LagAfterLoad(i)
  /\ Take(i)
  /\ UNCHANGED rows

-----------------------------------------------------------------------------
(* The form.  All of its fields are required.                              *)

TypeForm ==
  /\ \E u \in User : page' = [page EXCEPT !.form = u]
  /\ UNCHANGED <<rows, net, lag>>

Submit ==
  /\ page.form # None
  /\ page' = [page EXCEPT !.error = FALSE]
  /\ Send("create", page.form)
  /\ UNCHANGED <<rows, lag>>

\* The form is cleared, with whatever was typed into it since.
Created(i) ==
  /\ Answered(i, "create")
  /\ IF net[i].ans = Failed
       THEN page' = [page EXCEPT !.error = TRUE] /\ Take(i)
       ELSE page' = [page EXCEPT !.form = None] /\ TakeAndSend(i, "load", None)
  /\ UNCHANGED <<rows, lag>>

-----------------------------------------------------------------------------
(* The rows and their panels.                                              *)

RemoveUser ==
  /\ \E u \in DOMAIN page.users : Send("remove", u)
  /\ UNCHANGED <<rows, page, lag>>

RolesPanel(u) ==
  /\ u \in DOMAIN page.users
  /\ page.panel = [user |-> u, mode |-> "roles"]

\* The write names every role the account is to hold, computed from the row
\* on the page.
ToggleRole ==
  /\ \E u \in User, r \in Role :
       /\ RolesPanel(u)
       /\ LET held == page.users[u]
          IN  Send("roles", [user |-> u,
                             next |-> IF r \in held THEN held \ {r} ELSE held \cup {r}])
  /\ UNCHANGED <<rows, page, lag>>

\* remove and toggleRole catch nothing: a failure leaves the page as it is.
Written(i) ==
  /\ Answered(i, "remove") \/ Answered(i, "roles")
  /\ IF net[i].ans = Failed THEN Take(i) ELSE TakeAndSend(i, "load", None)
  /\ UNCHANGED <<rows, page, lag>>

RolesButton ==
  /\ \E u \in DOMAIN page.users :
       LET here == [user |-> u, mode |-> "roles"]
       IN  page' = [page EXCEPT !.panel = IF page.panel = here THEN None ELSE here]
  /\ UNCHANGED <<rows, net, lag>>

\* The key beside a row opens or closes its panel, always with an empty field.
PasswordButton ==
  /\ \E u \in DOMAIN page.users :
       LET here == [user |-> u, mode |-> "password"]
       IN  page' = [page EXCEPT !.panel = IF page.panel = here THEN None ELSE here,
                                !.typed = None]
  /\ UNCHANGED <<rows, net, lag>>

\* The field, Save and Cancel are part of the row: they are gone with it.
PasswordPanel(u) ==
  /\ u \in DOMAIN page.users
  /\ page.panel = [user |-> u, mode |-> "password"]

TypePassword ==
  /\ \E u \in User : PasswordPanel(u) /\ page' = [page EXCEPT !.typed = u]
  /\ UNCHANGED <<rows, net, lag>>

SubmitPassword ==
  /\ \E u \in User : /\ PasswordPanel(u)
                     /\ Send("password", [user |-> u, typed |-> page.typed])
  /\ page' = [page EXCEPT !.error = FALSE]
  /\ UNCHANGED <<rows, lag>>

\* Empties the field and closes the panel, whichever row it is open on now.
PasswordSet(i) ==
  /\ Answered(i, "password")
  /\ page' = IF net[i].ans = Failed THEN [page EXCEPT !.error = TRUE]
                                    ELSE [page EXCEPT !.typed = None, !.panel = None]
  /\ Take(i)
  /\ UNCHANGED <<rows, lag>>

CancelPassword ==
  /\ \E u \in User : PasswordPanel(u)
  /\ page' = [page EXCEPT !.panel = None, !.typed = None]
  /\ UNCHANGED <<rows, net, lag>>

-----------------------------------------------------------------------------
(* The backend.                                                            *)

Without(u) == [v \in (DOMAIN rows) \ {u} |-> rows[v]]

ServeCreate(i) ==
  /\ Sent(i, "create")
  /\ LET u == net[i].arg
     IN  IF u \in DOMAIN rows THEN ServeRefusal(i, "create")
         ELSE ServeWrite(i, "create", [v \in (DOMAIN rows) \cup {u} |->
                                         IF v = u THEN {} ELSE rows[v]], Done)

ServeRemove(i) ==
  /\ Sent(i, "remove")
  /\ IF net[i].arg \in DOMAIN rows
       THEN ServeWrite(i, "remove", Without(net[i].arg), Done)
       ELSE ServeRefusal(i, "remove")

ServeRoles(i) ==
  /\ Sent(i, "roles")
  /\ IF net[i].arg.user \in DOMAIN rows
       THEN ServeWrite(i, "roles", [rows EXCEPT ![net[i].arg.user] = net[i].arg.next], Done)
       ELSE ServeRefusal(i, "roles")

\* A password that is missing or shorter than six characters is refused.
ServePassword(i) ==
  /\ Sent(i, "password")
  /\ IF net[i].arg.user \in DOMAIN rows /\ net[i].arg.typed # None
       THEN ServeWrite(i, "password", rows, Done)
       ELSE ServeRefusal(i, "password")

\* Another administrator deletes an account or grants a role.
Elsewhere ==
  \E u \in DOMAIN rows, r \in Role :
    Foreign(Without(u)) \/ Foreign([rows EXCEPT ![u] = @ \cup {r}])

Next ==
  \/ TypeForm \/ Submit \/ RemoveUser \/ ToggleRole
  \/ RolesButton \/ PasswordButton \/ TypePassword \/ SubmitPassword \/ CancelPassword
  \/ \E i \in DOMAIN net :
       \/ Load(i) \/ Created(i) \/ Written(i) \/ PasswordSet(i)
       \/ ServeRead(i, "load", rows)
       \/ ServeCreate(i) \/ ServeRemove(i) \/ ServeRoles(i) \/ ServePassword(i)
  \/ Elsewhere

-----------------------------------------------------------------------------
TypeOK ==
  /\ page \in State
  /\ rows \in Accounts
  /\ Len(net) <= MaxCalls /\ \A i \in DOMAIN net : Request(net[i])
  /\ lag \in BOOLEAN

\* A password typed for one account is never sent for another, however the
\* panels are opened, closed and switched while earlier passwords are saved.
PasswordIsForItsUser ==
  \A i \in DOMAIN net :
    net[i].op = "password" => net[i].arg.typed \in {net[i].arg.user, None}

\* When nothing is under way the table shows what the backend holds, unless
\* somebody else wrote, an answer was lost or one was overtaken: after each of
\* its own writes the page fetches the table again.
TableIsCurrent == Quiet /\ ~lag => page.users = rows
=============================================================================
