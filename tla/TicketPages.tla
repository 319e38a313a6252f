---------------------------- MODULE TicketPages -----------------------------
(***************************************************************************)
(* modules/ticketing/frontend/src/components: TicketsPage, the list, and   *)
(* TicketModal, the dialog over it that creates or edits one ticket, with  *)
(* its comments and attachments.  The list is fetched once; from then on   *)
(* every handler changes it in place.  rows is the tickets table; of the   *)
(* texts of a ticket only their origin is kept: the ticket itself, or None *)
(* for the blanks that a dialog starts with.  A deleted ticket is None and *)
(* its id is not used again.                                               *)
(***************************************************************************)
EXTENDS Calls

CONSTANTS
  Ticket,
  File,        \* attachments; none, or no comments, leaves these actions out
  MaxComments  \* bound: comments ever written

Row == [texts : Ticket \cup {None}, comments : 0 .. MaxComments,
        files : SUBSET File, erased : SUBSET File]
Blank(k) == [texts |-> k, comments |-> 0, files |-> {}, erased |-> {}]

\* TicketModal's state; without id it is about a new ticket.
Modal == [id : Ticket \cup {None}, loading : BOOLEAN, titled : BOOLEAN,
          texts : Ticket \cup {None}, comments : Nat, files : SUBSET File,
          saving : BOOLEAN, uploading : BOOLEAN]

\* twice has the tickets that the list shows two times.  blanked is history: a
\* dialog could not load its ticket and showed blanks.
State == [tickets : UNION { [T -> Ticket \cup {None}] : T \in SUBSET Ticket },
          twice : SUBSET Ticket,
          modal : Modal \cup {None}, blanked : BOOLEAN]

There == { k \in DOMAIN rows : rows[k] # None }
Summary == [k \in There |-> rows[k].texts]

Dialog(id, loading) ==
  [id |-> id, loading |-> loading, titled |-> FALSE, texts |-> None, comments |-> 0,
   files |-> {}, saving |-> FALSE, uploading |-> FALSE]

Handled(i) == net' = Others(i)

ModalOps == {"get", "update", "create", "delete", "comment", "upload", "detach"}

Request(c) ==
  \/ IsCall(c, "load", {None}, UNION { [T -> Ticket \cup {None}] : T \in SUBSET Ticket })
  \/ IsCall(c, "get", Ticket, Row)
  \/ IsCall(c, "create", {None}, Ticket)
  \/ IsCall(c, "update", [id : Ticket, texts : Ticket \cup {None}], {Done})
  \/ IsCall(c, "delete", Ticket, {Done})
  \/ IsCall(c, "comment", Ticket, {Done})
  \/ IsCall(c, "upload", [id : Ticket, left : 0 .. 1], File)
  \/ IsCall(c, "detach", [id : Ticket, file : File], {Done})

\* With ?ticket= in the address the dialog is open from the start.
Init ==
  /\ rows \in { [k \in T |-> Blank(k)] : T \in SUBSET Ticket }
  /\ page \in [tickets : {<<>>}, twice : {{}}, blanked : {FALSE},
               modal : {None} \cup { Dialog(k, TRUE) : k \in Ticket }]
  /\ net = <<Call("load", None)>>
             \o (IF page.modal = None THEN <<>> ELSE <<Call("get", page.modal.id)>>)
  /\ lag = FALSE

Load(i) ==
  /\ Answered(i, "load")
  /\ page' = IF net[i].ans = Failed THEN page
             ELSE [page EXCEPT !.tickets = net[i].ans, !.twice = {}]
  /\ lag' = (lag \/ net[i].ans # Summary)
  /\ Handled(i)
  /\ UNCHANGED rows

-----------------------------------------------------------------------------
(* The dialog is opened and closed.  It covers the list while it is open.  *)

OpenTicket ==
  /\ page.modal = None
  /\ \E k \in DOMAIN page.tickets : /\ page' = [page EXCEPT !.modal = Dialog(k, TRUE)]
                                    /\ Send("get", k)
  /\ UNCHANGED <<rows, lag>>

\* Bounded: only while there is an id for another ticket.
NewTicket ==
  /\ page.modal = None /\ DOMAIN rows # Ticket
  /\ page' = [page EXCEPT !.modal = Dialog(None, FALSE)]
  /\ UNCHANGED <<rows, net, lag>>

\* Also while a request of the dialog is under way: it is made all the same.
CloseModal ==
  /\ page.modal # None
  /\ page' = [page EXCEPT !.modal = None]
  /\ net' = Unmounted(net, ModalOps)
  /\ UNCHANGED <<rows, lag>>

\* Faulty: the answer fills whichever dialog is open.
Got_Anyhow(i) ==
  /\ Answered(i, "get")
  /\ LET row == net[i].ans
     IN  /\ page' = IF page.modal = None \/ row = Failed THEN page
                    ELSE [page EXCEPT !.modal = [@ EXCEPT !.loading = FALSE, !.titled = TRUE,
                                                 !.texts = row.texts,
                                                 !.comments = row.comments,
                                                 !.files = row.files]]
         /\ lag' = (lag \/ ~(net[i].arg \in There /\ row = rows[net[i].arg]))
  /\ Handled(i)
  /\ UNCHANGED rows

\* An answer that comes for a dialog that was closed is dropped; after an error
\* the form is there for editing, blank.
Got(i) ==
  /\ Answered(i, "get")
  /\ LET row == net[i].ans
     IN  /\ page' = IF net[i].gone THEN page
                    ELSE IF row = Failed
                      THEN [page EXCEPT !.modal.loading = FALSE, !.blanked = TRUE]
                      ELSE [page EXCEPT !.modal = [@ EXCEPT !.loading = FALSE, !.titled = TRUE,
                                                   !.texts = row.texts,
                                                   !.comments = row.comments,
                                                   !.files = row.files]]
         /\ lag' = (lag \/ ~(net[i].arg \in There /\ row = rows[net[i].arg]))
  /\ Handled(i)
  /\ UNCHANGED rows

-----------------------------------------------------------------------------
(* Saving and deleting.                                                    *)

Editing == page.modal # None /\ ~page.modal.loading

TypeTitle ==
  /\ Editing
  /\ page' = [page EXCEPT !.modal.titled = TRUE]
  /\ UNCHANGED <<rows, net, lag>>

Submit ==
  /\ Editing /\ page.modal.titled /\ ~page.modal.saving
  /\ page' = [page EXCEPT !.modal.saving = TRUE]
  /\ IF page.modal.id = None
       THEN Send("create", None)
       ELSE Send("update", [id |-> page.modal.id, texts |-> page.modal.texts])
  /\ UNCHANGED <<rows, lag>>

\* onSaved: the row is put into the list and the dialog that is open by now,
\* which need not be the one that was saved, is closed.
Saved(i) ==
  /\ Answered(i, "update")
  /\ LET in == net[i].arg
     IN  IF net[i].ans = Failed
           THEN /\ page' = IF net[i].gone THEN page ELSE [page EXCEPT !.modal.saving = FALSE]
                /\ Handled(i)
                /\ UNCHANGED lag
           ELSE /\ page' = [page EXCEPT
                     !.tickets = [k \in DOMAIN @ \cup {in.id} |->
                                    IF k = in.id THEN in.texts ELSE @[k]],
                     !.modal = None]
                /\ net' = Unmounted(Others(i), ModalOps)
                /\ lag' = (lag \/ in.id \notin There \/ rows[in.id].texts # in.texts)
  /\ UNCHANGED rows

\* The dialog stays open and is from now on about the ticket it created, which
\* is added to the list without a look whether the list has it by now.
Created(i) ==
  /\ Answered(i, "create")
  /\ LET id == net[i].ans
         stays == IF net[i].gone THEN page.modal ELSE [page.modal EXCEPT !.saving = FALSE]
     IN  page' = IF id = Failed THEN [page EXCEPT !.modal = stays]
                 ELSE [page EXCEPT
                        !.tickets = [k \in DOMAIN @ \cup {id} |-> IF k = id THEN id ELSE @[k]],
                        !.twice = @ \cup (DOMAIN page.tickets \cap {id}),
                        !.modal = IF net[i].gone THEN stays
                                  ELSE [stays EXCEPT !.id = id, !.texts = id]]
  /\ lag' = (lag \/ net[i].ans \notin There \cup {Failed}
                 \/ net[i].ans \in DOMAIN page.tickets)
  /\ Handled(i)
  /\ UNCHANGED rows

Remove ==
  /\ Editing /\ page.modal.id # None
  /\ Send("delete", page.modal.id)
  /\ UNCHANGED <<rows, page, lag>>

Deleted(i) ==
  /\ Answered(i, "delete")
  /\ IF net[i].ans = Failed
       THEN Handled(i) /\ UNCHANGED page
       ELSE /\ page' = [page EXCEPT
                 !.tickets = [k \in DOMAIN @ \ {net[i].arg} |-> @[k]],
                 !.twice = @ \ {net[i].arg}, !.modal = None]
            /\ net' = Unmounted(Others(i), ModalOps)
  /\ UNCHANGED <<rows, lag>>

-----------------------------------------------------------------------------
(* Comments and attachments, of a ticket that exists.                      *)

SubmitComment ==
  /\ Editing /\ page.modal.id # None /\ MaxComments # 0
  /\ Send("comment", page.modal.id)
  /\ UNCHANGED <<rows, page, lag>>

Commented(i) ==
  /\ Answered(i, "comment")
  /\ page' = IF net[i].ans = Failed \/ net[i].gone THEN page
             ELSE [page EXCEPT !.modal.comments = @ + 1]
  /\ lag' = (lag \/ net[i].gone)
  /\ Handled(i)
  /\ UNCHANGED rows

\* One file after the other; left is how many are to follow the one sent.
Upload ==
  /\ Editing /\ page.modal.id # None /\ ~page.modal.uploading /\ File # {}
  /\ \E left \in 0 .. 1 : Send("upload", [id |-> page.modal.id, left |-> left])
  /\ page' = [page EXCEPT !.modal.uploading = TRUE]
  /\ UNCHANGED <<rows, lag>>

\* The loop goes on after the dialog is closed, and ends at the first error.
Uploaded(i) ==
  /\ Answered(i, "upload")
  /\ LET in == net[i].arg
         file == net[i].ans
         more == file # Failed /\ in.left > 0
     IN  /\ page' = IF net[i].gone THEN page
                    ELSE [page EXCEPT
                      !.modal.files = IF file = Failed THEN @ ELSE @ \cup {file},
                      !.modal.uploading = more]
         /\ lag' = (lag \/ net[i].gone)
         /\ net' = IF ~more THEN Others(i)
                   ELSE Append(Others(i), [Call("upload", [in EXCEPT !.left = 0])
                                           EXCEPT !.gone = net[i].gone])
  /\ UNCHANGED rows

RemoveAttachment ==
  /\ Editing /\ page.modal.id # None
  /\ \E f \in page.modal.files : Send("detach", [id |-> page.modal.id, file |-> f])
  /\ UNCHANGED <<rows, page, lag>>

Detached(i) ==
  /\ Answered(i, "detach")
  /\ page' = IF net[i].ans = Failed \/ net[i].gone THEN page
             ELSE [page EXCEPT !.modal.files = @ \ {net[i].arg.file}]
  /\ lag' = (lag \/ net[i].gone)
  /\ Handled(i)
  /\ UNCHANGED rows

-----------------------------------------------------------------------------
(* The backend (module Ticketing has its statements and its files).        *)

ServeGet(i) ==
  /\ Sent(i, "get")
  /\ IF net[i].arg \in There THEN ServeRead(i, "get", rows[net[i].arg])
                             ELSE ServeRefusal(i, "get")

Have(id, row) == [k \in DOMAIN rows \cup {id} |-> IF k = id THEN row ELSE rows[k]]

ServeCreate(i) ==
  /\ Sent(i, "create")
  /\ \E k \in Ticket \ DOMAIN rows : ServeWrite(i, "create", Have(k, Blank(k)), k)

\* A write to a ticket is refused when the ticket is gone.
ServeUpdate(i) ==
  /\ Sent(i, "update")
  /\ LET in == net[i].arg
     IN  IF in.id \in There
           THEN ServeWrite(i, "update", [rows EXCEPT ![in.id].texts = in.texts], Done)
           ELSE ServeRefusal(i, "update")

ServeComment(i) ==
  /\ Sent(i, "comment")
  /\ LET id == net[i].arg
     IN  IF id \in There
           THEN /\ rows[id].comments < MaxComments
                /\ ServeWrite(i, "comment", [rows EXCEPT ![id].comments = @ + 1], Done)
           ELSE ServeRefusal(i, "comment")

\* A new attachment has an id of its own.
ServeUpload(i) ==
  /\ Sent(i, "upload")
  /\ LET id == net[i].arg.id
     IN  IF id \in There
           THEN \E f \in File \ (rows[id].files \cup rows[id].erased) :
                  ServeWrite(i, "upload", [rows EXCEPT ![id].files = @ \cup {f}], f)
           ELSE ServeRefusal(i, "upload")

ServeDetach(i) ==
  /\ Sent(i, "detach")
  /\ LET in == net[i].arg
     IN  IF in.id \in There /\ in.file \in rows[in.id].files
           THEN ServeWrite(i, "detach", [rows EXCEPT ![in.id].files = @ \ {in.file},
                                                     ![in.id].erased = @ \cup {in.file}], Done)
           ELSE ServeRefusal(i, "detach")

ServeDelete(i) ==
  /\ Sent(i, "delete")
  /\ IF net[i].arg \in There
       THEN ServeWrite(i, "delete", [rows EXCEPT ![net[i].arg] = None], Done)
       ELSE ServeRefusal(i, "delete")

\* Somebody else deletes a ticket.
Elsewhere == \E k \in There : Foreign([rows EXCEPT ![k] = None])

Next ==
  \/ OpenTicket \/ NewTicket \/ CloseModal \/ TypeTitle \/ Submit \/ Remove
  \/ SubmitComment \/ Upload \/ RemoveAttachment \/ Elsewhere
  \/ \E i \in DOMAIN net :
       \/ Load(i) \/ Got(i) \/ Saved(i) \/ Created(i) \/ Deleted(i)
       \/ Commented(i) \/ Uploaded(i) \/ Detached(i)
       \/ ServeRead(i, "load", Summary)
       \/ ServeGet(i) \/ ServeCreate(i) \/ ServeUpdate(i) \/ ServeComment(i)
       \/ ServeUpload(i) \/ ServeDetach(i) \/ ServeDelete(i)

-----------------------------------------------------------------------------
TypeOK ==
  /\ page.modal \in Modal \cup {None} /\ page.blanked \in BOOLEAN
  /\ DOMAIN page.tickets \subseteq Ticket /\ page.twice \subseteq Ticket
  /\ \A k \in There : rows[k] \in Row
  /\ Len(net) <= MaxCalls + 1 /\ \A i \in DOMAIN net : Request(net[i])
  /\ lag \in BOOLEAN

\* When nothing is under way the list, patched in place after every write,
\* shows the tickets there are, each once; and a dialog shows all of its
\* ticket.  Unless somebody else deleted a ticket, an answer was lost, late, or
\* came for a dialog that was closed, or the list was fetched with a ticket whose
\* creation was answered only afterwards: that one stays in the list twice.
ListIsCurrent ==
  Quiet /\ ~lag =>
    /\ page.tickets = Summary /\ page.twice = {}
    /\ Editing /\ page.modal.id # None =>
         /\ page.modal.comments = rows[page.modal.id].comments
         /\ page.modal.files = rows[page.modal.id].files

\* A ticket's texts are never those of another ticket, whichever dialogs are
\* opened and closed while answers are under way, and never the blanks a
\* dialog starts with unless one could not load its ticket.
TextsAreTheirs ==
  \A k \in There : rows[k].texts = k \/ (rows[k].texts = None /\ page.blanked)
=============================================================================
