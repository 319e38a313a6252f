----------------------------- MODULE CardDialog -----------------------------
(***************************************************************************)
(* modules/kanban/frontend/src/components/CardModal.jsx, the dialog about  *)
(* one card, and the handlers of Board.jsx that it calls.  Every field is  *)
(* saved as soon as it is changed, with what the dialog holds of the       *)
(* others; the column needs a second request.  A save closes the dialog.   *)
(* Choosing a column saves before the dialog's state has changed, so the   *)
(* card goes to the column that was chosen before, which at first is its   *)
(* own: no request.                                                        *)
(*                                                                         *)
(* rows has of each card its column, which card its texts were written     *)
(* for, and as history the columns that somebody chose for it.             *)
(***************************************************************************)
EXTENDS Calls

CONSTANTS Card, Column

Row == [column : Column, texts : Card, chosen : SUBSET Column]

\* What getBoard gives of a card; a deleted one is None.
Fields == [column : Column, texts : Card]

\* card is the dialog's copy, fixed; column is its state.
Modal == [id : Card, card : Fields, column : Column, saving : BOOLEAN]

State == [cards : UNION { [C -> Fields] : C \in SUBSET Card }, modal : Modal \cup {None}]

There == { c \in Card : rows[c] # None }
Board == [c \in There |-> [column |-> rows[c].column, texts |-> rows[c].texts]]

Request(c) ==
  \/ IsCall(c, "load", {None}, UNION { [C -> Fields] : C \in SUBSET Card })
  \/ IsCall(c, "update", [id : Card, texts : Card, then : Column \cup {None}], {Done})
  \/ IsCall(c, "move", [id : Card, column : Column], {Done})
  \/ IsCall(c, "delete", Card, {Done})

ModalOps == {"update", "move", "delete"}

Init ==
  /\ \E f \in [Card -> Column] :
       rows = [c \in Card |-> [column |-> f[c], texts |-> c, chosen |-> {f[c]}]]
  /\ page = [cards |-> Board, modal |-> None]
  /\ net = <<>>
  /\ lag = FALSE

Load(i) ==
  /\ Answered(i, "load")
  /\ page' = IF net[i].ans = Failed THEN page ELSE [page EXCEPT !.cards = net[i].ans]
  /\ net' = Others(i)
  /\ UNCHANGED <<rows, lag>>

\* setSelectedCard
OpenCard ==
  /\ page.modal = None
  /\ \E c \in DOMAIN page.cards :
       page' = [page EXCEPT !.modal = [id |-> c, card |-> page.cards[c],
                                       column |-> page.cards[c].column, saving |-> FALSE]]
  /\ UNCHANGED <<rows, net, lag>>

\* The cross, or a click beside the dialog, also while it saves.
Close ==
  /\ page.modal # None
  /\ page' = [page EXCEPT !.modal = None]
  /\ net' = Unmounted(net, ModalOps)
  /\ UNCHANGED <<rows, lag>>

-----------------------------------------------------------------------------
\* save(): column is what the handler sees of the dialog's state.
Save(column) ==
  LET m == page.modal
  IN  Send("update", [id |-> m.id, texts |-> m.card.texts,
                      then |-> IF column = m.card.column THEN None ELSE column])

\* Title, description, due date, colour or assignee.
EditField ==
  /\ page.modal # None
  /\ Save(page.modal.column)
  /\ page' = [page EXCEPT !.modal.saving = TRUE]
  /\ UNCHANGED <<rows, lag>>

\* The select: setColumnId, then save with the column before.
ChooseColumn ==
  /\ page.modal # None
  /\ \E k \in Column \ {page.modal.column} :
       /\ page' = [page EXCEPT !.modal = [@ EXCEPT !.column = k, !.saving = TRUE]]
       /\ rows' = IF page.modal.id \in There
                    THEN [rows EXCEPT ![page.modal.id].chosen = @ \cup {k}] ELSE rows
  /\ Save(page.modal.column)
  /\ UNCHANGED lag

\* onChanged and onDeleted close the dialog that is open by now.
Changed(i) ==
  /\ page' = [page EXCEPT !.modal = None]
  /\ net' = Unmounted(Append(Others(i), Call("load", None)), ModalOps)

NotSaved(i) ==
  /\ page' = IF net[i].gone THEN page ELSE [page EXCEPT !.modal.saving = FALSE]
  /\ net' = Others(i)

Updated(i) ==
  /\ Answered(i, "update")
  /\ LET in == net[i].arg
     IN  IF net[i].ans = Failed THEN NotSaved(i)
         ELSE IF in.then = None THEN Changed(i)
         ELSE /\ net' = Append(Others(i), [Call("move", [id |-> in.id, column |-> in.then])
                                           EXCEPT !.gone = net[i].gone])
              /\ UNCHANGED page
  /\ UNCHANGED <<rows, lag>>

Moved(i) ==
  /\ Answered(i, "move")
  /\ IF net[i].ans = Failed THEN NotSaved(i) ELSE Changed(i)
  /\ UNCHANGED <<rows, lag>>

RemoveCard ==
  /\ page.modal # None
  /\ Send("delete", page.modal.id)
  /\ UNCHANGED <<rows, page, lag>>

Deleted(i) ==
  /\ Answered(i, "delete")
  /\ IF net[i].ans = Failed THEN net' = Others(i) /\ UNCHANGED page ELSE Changed(i)
  /\ UNCHANGED <<rows, lag>>

-----------------------------------------------------------------------------
(* The backend (module KanbanStore has its statements).                    *)

\* The answer may be lost.
Executed(i, newRows) ==
  /\ rows' = newRows
  /\ \E ans \in {Done, Failed} : Reply(i, ans)
  /\ UNCHANGED <<page, lag>>

ServeUpdate(i) ==
  /\ Sent(i, "update")
  /\ LET in == net[i].arg
     IN  IF in.id \in There
           THEN Executed(i, [rows EXCEPT ![in.id].texts = in.texts])
           ELSE ServeRefusal(i, "update")

ServeMove(i) ==
  /\ Sent(i, "move")
  /\ LET in == net[i].arg
     IN  IF in.id \in There
           THEN Executed(i, [rows EXCEPT ![in.id].column = in.column])
           ELSE ServeRefusal(i, "move")

ServeDelete(i) ==
  /\ Sent(i, "delete")
  /\ IF net[i].arg \in There
       THEN Executed(i, [rows EXCEPT ![net[i].arg] = None])
       ELSE ServeRefusal(i, "delete")

\* Another member moves a card.
Elsewhere ==
  /\ \E c \in There, k \in Column :
       rows' = [rows EXCEPT ![c].column = k, ![c].chosen = @ \cup {k}]
  /\ UNCHANGED <<page, net, lag>>

Next ==
  \/ OpenCard \/ Close \/ EditField \/ ChooseColumn \/ RemoveCard \/ Elsewhere
  \/ \E i \in DOMAIN net :
       \/ Load(i) \/ Updated(i) \/ Moved(i) \/ Deleted(i)
       \/ ServeRead(i, "load", Board)
       \/ ServeUpdate(i) \/ ServeMove(i) \/ ServeDelete(i)

-----------------------------------------------------------------------------
TypeOK ==
  /\ page \in State
  /\ rows \in [Card -> Row \cup {None}]
  /\ \A i \in DOMAIN net : Request(net[i])
  /\ lag \in BOOLEAN

\* A card's texts are its own and it is in a column somebody chose for it,
\* although the second request of a save is sent, and its dialog closed, when
\* the user may be in the dialog of another card.
CardsAreTheirs ==
  \A c \in There : rows[c].texts = c /\ rows[c].column \in rows[c].chosen
=============================================================================
