----------------------------- MODULE RolesPage ------------------------------
(***************************************************************************)
(* modules/app-maintenance/frontend/src/components/Roles.jsx: the table of *)
(* roles, the form that adds one to a module, and the badge that makes a   *)
(* role active or inactive.  rows holds the modules and, of each role, its *)
(* module and whether it is active; a deleted module takes its roles.      *)
(***************************************************************************)
EXTENDS Calls

CONSTANTS Role, Mod

Row == [module : Mod, active : BOOLEAN]
Tables == UNION { [R -> Row] : R \in SUBSET Role }

State == [roles : Tables, modules : SUBSET Mod, error : BOOLEAN,
          name : Role \cup {None}, moduleId : Mod \cup {None}]

Request(c) ==
  \/ IsCall(c, "load", {None}, [roles : Tables, modules : SUBSET Mod])
  \/ IsCall(c, "create", [name : Role, moduleId : Mod], {Done})
  \/ IsCall(c, "remove", Role, {Done})
  \/ IsCall(c, "update", [role : Role, row : Row], {Done})

NoRoles == <<>>

Init ==
  /\ rows \in [modules : (SUBSET Mod) \ {{}}, roles : {NoRoles}]
  /\ page = [roles |-> NoRoles, modules |-> {}, error |-> FALSE,
             name |-> None, moduleId |-> None]
  /\ net = <<Call("load", None)>>
  /\ lag = FALSE

\* The first module of the list becomes the form's choice if it has none.
\* (load is two GETs; only another administrator's write can come in between.)
Load(i) ==
  /\ Answered(i, "load")
  /\ \/ /\ net[i].ans = Failed
        /\ page' = [page EXCEPT !.error = TRUE]
     \/ /\ net[i].ans # Failed
        /\ \E m \in net[i].ans.modules \cup {None} :
             /\ m = None <=> net[i].ans.modules = {}
             /\ page' = [page EXCEPT !.roles = net[i].ans.roles,
                                     !.modules = net[i].ans.modules,
                                     !.moduleId = IF @ = None THEN m ELSE @]
  /\ lag' = LagAfterLoad(i)
  /\ Take(i)
  /\ UNCHANGED rows

-----------------------------------------------------------------------------
ChooseModule ==
  /\ \E m \in page.modules : page' = [page EXCEPT !.moduleId = m]
  /\ UNCHANGED <<rows, net, lag>>

TypeName ==
  /\ \E r \in Role : page' = [page EXCEPT !.name = r]
  /\ UNCHANGED <<rows, net, lag>>

Submit ==
  /\ page.name # None /\ page.moduleId # None
  /\ page' = [page EXCEPT !.error = FALSE]
  /\ Send("create", [name |-> page.name, moduleId |-> page.moduleId])
  /\ UNCHANGED <<rows, lag>>

\* The name is emptied; the module goes back to the one that was submitted.
Created(i) ==
  /\ Answered(i, "create")
  /\ IF net[i].ans = Failed
       THEN page' = [page EXCEPT !.error = TRUE] /\ Take(i)
       ELSE /\ page' = [page EXCEPT !.name = None, !.moduleId = net[i].arg.moduleId]
            /\ TakeAndSend(i, "load", None)
  /\ UNCHANGED <<rows, lag>>

Remove ==
  /\ \E r \in DOMAIN page.roles : Send("remove", r)
  /\ UNCHANGED <<rows, page, lag>>

\* The whole row of the page is written back, with isActive turned over.
ToggleActive ==
  /\ \E r \in DOMAIN page.roles :
       Send("update", [role |-> r, row |-> [page.roles[r] EXCEPT !.active = ~@]])
  /\ UNCHANGED <<rows, page, lag>>

\* Neither catches an error: after one the page stays as it is.
Written(i) ==
  /\ Answered(i, "remove") \/ Answered(i, "update")
  /\ IF net[i].ans = Failed THEN Take(i) ELSE TakeAndSend(i, "load", None)
  /\ UNCHANGED <<rows, page, lag>>

-----------------------------------------------------------------------------
(* The backend.                                                            *)

Have(r, row) == [rows EXCEPT !.roles = [q \in DOMAIN rows.roles \cup {r} |->
                                          IF q = r THEN row ELSE rows.roles[q]]]
WithoutRole(r) == [rows EXCEPT !.roles = [q \in DOMAIN @ \ {r} |-> @[q]]]

\* A new role is active; names are unique and the module has to exist.
ServeCreate(i) ==
  /\ Sent(i, "create")
  /\ LET in == net[i].arg
     IN  IF in.name \in DOMAIN rows.roles \/ in.moduleId \notin rows.modules
           THEN ServeRefusal(i, "create")
           ELSE ServeWrite(i, "create",
                           Have(in.name, [module |-> in.moduleId, active |-> TRUE]), Done)

ServeUpdate(i) ==
  /\ Sent(i, "update")
  /\ LET in == net[i].arg
     IN  IF in.role \in DOMAIN rows.roles
           THEN ServeWrite(i, "update", Have(in.role, in.row), Done)
           ELSE ServeRefusal(i, "update")

ServeRemove(i) ==
  /\ Sent(i, "remove")
  /\ IF net[i].arg \in DOMAIN rows.roles
       THEN ServeWrite(i, "remove", WithoutRole(net[i].arg), Done)
       ELSE ServeRefusal(i, "remove")

\* Another administrator turns a role on or off, or deletes a module.
Elsewhere ==
  \/ \E r \in DOMAIN rows.roles : Foreign([rows EXCEPT !.roles[r].active = ~@])
  \/ \E m \in rows.modules :
       Foreign([modules |-> rows.modules \ {m},
                roles |-> [r \in { q \in DOMAIN rows.roles : rows.roles[q].module # m } |->
                             rows.roles[r]]])

Next ==
  \/ ChooseModule \/ TypeName \/ Submit \/ Remove \/ ToggleActive
  \/ \E i \in DOMAIN net :
       \/ Load(i) \/ Created(i) \/ Written(i)
       \/ ServeRead(i, "load", rows)
       \/ ServeCreate(i) \/ ServeUpdate(i) \/ ServeRemove(i)
  \/ Elsewhere

-----------------------------------------------------------------------------
TypeOK ==
  /\ page \in State
  /\ rows.modules \in SUBSET Mod /\ rows.roles \in Tables
  /\ Len(net) <= MaxCalls /\ \A i \in DOMAIN net : Request(net[i])
  /\ lag \in BOOLEAN

\* When nothing is under way the table shows the roles there are, or there is
\* a reason for it not to.
TableIsCurrent ==
  Quiet /\ ~lag => page.roles = rows.roles /\ page.modules = rows.modules
=============================================================================
