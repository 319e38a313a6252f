---------------------------- MODULE ModulesPage -----------------------------
(***************************************************************************)
(* modules/app-maintenance/frontend/src/components/Modules.jsx: the table  *)
(* of modules, the form that registers one and the badge that turns one on *)
(* or off.  rows is the modules table: code -> active or not.              *)
(***************************************************************************)
EXTENDS Calls

CONSTANT Mod

Tables == UNION { [M -> BOOLEAN] : M \in SUBSET Mod }

State == [modules : Tables, error : BOOLEAN, code : Mod \cup {None}]

Request(c) ==
  \/ IsCall(c, "load", {None}, Tables)
  \/ IsCall(c, "create", Mod, {Done})
  \/ IsCall(c, "remove", Mod, {Done})
  \/ IsCall(c, "update", [code : Mod, active : BOOLEAN], {Done})

Init ==
  /\ rows \in UNION { [M -> {TRUE}] : M \in SUBSET Mod }
  /\ page = [modules |-> <<>>, error |-> FALSE, code |-> None]
  /\ net = <<Call("load", None)>>
  /\ lag = FALSE

Load(i) ==
  /\ Answered(i, "load")
  /\ page' = IF net[i].ans = Failed THEN [page EXCEPT !.error = TRUE]
                                    ELSE [page EXCEPT !.modules = net[i].ans]
  /\ lag' = LagAfterLoad(i)
  /\ Take(i)
  /\ UNCHANGED rows

-----------------------------------------------------------------------------
TypeForm ==
  /\ \E m \in Mod : page' = [page EXCEPT !.code = m]
  /\ UNCHANGED <<rows, net, lag>>

Submit ==
  /\ page.code # None
  /\ page' = [page EXCEPT !.error = FALSE]
  /\ Send("create", page.code)
  /\ UNCHANGED <<rows, lag>>

Created(i) ==
  /\ Answered(i, "create")
  /\ IF net[i].ans = Failed
       THEN page' = [page EXCEPT !.error = TRUE] /\ Take(i)
       ELSE page' = [page EXCEPT !.code = None] /\ TakeAndSend(i, "load", None)
  /\ UNCHANGED <<rows, lag>>

Remove ==
  /\ \E m \in DOMAIN page.modules : Send("remove", m)
  /\ UNCHANGED <<rows, page, lag>>

\* The row of the page is written back, with isActive turned over.
ToggleActive ==
  /\ \E m \in DOMAIN page.modules :
       Send("update", [code |-> m, active |-> ~page.modules[m]])
  /\ UNCHANGED <<rows, page, lag>>

Written(i) ==
  /\ Answered(i, "remove") \/ Answered(i, "update")
  /\ IF net[i].ans = Failed THEN Take(i) ELSE TakeAndSend(i, "load", None)
  /\ UNCHANGED <<rows, page, lag>>

-----------------------------------------------------------------------------
(* The backend.  Codes are unique; the form registers active modules.      *)

Have(m, active) == [c \in DOMAIN rows \cup {m} |-> IF c = m THEN active ELSE rows[c]]
WithoutModule(m) == [c \in DOMAIN rows \ {m} |-> rows[c]]

ServeCreate(i) ==
  /\ Sent(i, "create")
  /\ IF net[i].arg \in DOMAIN rows
       THEN ServeRefusal(i, "create")
       ELSE ServeWrite(i, "create", Have(net[i].arg, TRUE), Done)

ServeUpdate(i) ==
  /\ Sent(i, "update")
  /\ IF net[i].arg.code \in DOMAIN rows
       THEN ServeWrite(i, "update", Have(net[i].arg.code, net[i].arg.active), Done)
       ELSE ServeRefusal(i, "update")

ServeRemove(i) ==
  /\ Sent(i, "remove")
  /\ IF net[i].arg \in DOMAIN rows
       THEN ServeWrite(i, "remove", WithoutModule(net[i].arg), Done)
       ELSE ServeRefusal(i, "remove")

\* Another administrator turns a module on or off, or deletes one.
Elsewhere ==
  \E m \in DOMAIN rows : Foreign([rows EXCEPT ![m] = ~@]) \/ Foreign(WithoutModule(m))

Next ==
  \/ TypeForm \/ Submit \/ Remove \/ ToggleActive
  \/ \E i \in DOMAIN net :
       \/ Load(i) \/ Created(i) \/ Written(i)
       \/ ServeRead(i, "load", rows)
       \/ ServeCreate(i) \/ ServeUpdate(i) \/ ServeRemove(i)
  \/ Elsewhere

-----------------------------------------------------------------------------
TypeOK ==
  /\ page \in State
  /\ rows \in Tables
  /\ Len(net) <= MaxCalls /\ \A i \in DOMAIN net : Request(net[i])
  /\ lag \in BOOLEAN

\* When nothing is under way the table shows the modules there are and which
\* of them are active, or there is a reason for it not to.
TableIsCurrent == Quiet /\ ~lag => page.modules = rows
=============================================================================
