----------------------------- MODULE Ticketing -----------------------------
(***************************************************************************)
(* modules/ticketing/backend: the shared queue of tickets, who is notified *)
(* of what happens to them, and their attachments.  update reads the       *)
(* ticket in one statement, writes it in another, and decides from both    *)
(* whom to notify, one INSERT each; anybody else's request may come in     *)
(* between.  An attachment is a row, then a blob, then the path in the     *)
(* row; its blob is named by its id here.                                  *)
(*                                                                         *)
(* resolved_at, texts and comments decide nothing and are left out.        *)
(***************************************************************************)
EXTENDS Tables, Sequences

CONSTANTS
  User,        \* the X-User-Id of requests
  Ticket,      \* ticket ids, never reused
  Attachment,  \* attachment ids, never reused
  Req,         \* requests in flight
  Done,        \* the statuses that end a ticket, "resolved" and "closed"
  None         \* NULL: no assignee

ASSUME TicketingConstants ==
  /\ None \notin User /\ None \notin Ticket /\ None \notin Attachment
  /\ Ticket \cap Attachment = {}
  /\ "open" \notin Done /\ "assigned" \notin Done

VARIABLES
  tickets,     \* table: id -> requester, assignee, status
  rows,        \* table ticket_attachments: id -> ticket, storage_path
  disk,        \* what is under the path of each attachment
  ids,         \* ids of tickets and attachments handed out
  req,         \* the requests
  known,       \* history: <<u, t>> when u was told that t is theirs, took it
               \* themself, or an error kept the notice back
  told,        \* history: the ended tickets whose requester was told so since, or
               \* ended them themself, or an error kept the notice back
  missed,      \* history: the ended tickets whose last change was made by an
               \* update that had read them as ended that way before
  excused      \* history: attachments that an error, a deletion begun before
               \* their upload was answered, or the ticket's left without row

news == <<known, told, missed>>
vars == <<tickets, rows, disk, ids, req, news, excused>>

\* in_progress is to every statement here what open is.
Status == {"open"} \cup Done

TicketRow == [requester : User, assignee : User \cup {None}, status : Status]
AttachmentRow == [ticket : Ticket, path : {"pending", "saved"}]

\* ticket.assigned, and ticket.status with its status.
Notice == User \X Ticket \X ({"assigned"} \cup Done)

\* The step a request is about to take.
Step == {"idle", "get", "update", "notify", "insertRow", "create", "copy", "record",
         "cleanup", "getRow", "deleteRow", "removeBlob"}

\* assignee and status are the form's; before is what Get returned.
Request == [op : {"none", "update", "upload", "detach"}, at : Step,
            user : User \cup {None}, ticket : Ticket \cup {None},
            assignee : User \cup {None}, status : Status,
            before : TicketRow \cup {None}, notices : Seq(Notice),
            file : Attachment \cup {None}, path : {"none", "pending", "saved"}]

Idle == [op |-> "none", at |-> "idle", user |-> None, ticket |-> None, assignee |-> None,
         status |-> "open", before |-> None, notices |-> <<>>, file |-> None,
         path |-> "none"]

-----------------------------------------------------------------------------
Init ==
  /\ tickets = [t \in {} |-> {}]
  /\ rows = [a \in {} |-> {}]
  /\ disk = [a \in Attachment |-> "none"]
  /\ ids = {}
  /\ req = [r \in Req |-> Idle]
  /\ known = {}
  /\ told = {}
  /\ missed = {}
  /\ excused = {}

\* A request arrives, goes to its next step, ends.
Arrive(r, request) == req[r].at = "idle" /\ req' = [req EXCEPT ![r] = request]
Go(r, step) == req' = [req EXCEPT ![r].at = step]
Answer(r) == req' = [req EXCEPT ![r] = Idle]

-----------------------------------------------------------------------------
(* Tickets                                                                 *)

\* create and delete are one statement each; the attachments' rows go by
\* cascade, their bytes stay.
CreateTicket(u, t) ==
  /\ t \notin ids
  /\ tickets' = WithRow(tickets, t, [requester |-> u, assignee |-> None, status |-> "open"])
  /\ ids' = ids \cup {t}
  /\ UNCHANGED <<rows, disk, news, req, excused>>

DeleteTicket(t) ==
  /\ t \in DOMAIN tickets
  /\ LET attached == { a \in DOMAIN rows : rows[a].ticket = t }
     IN /\ rows' = WithoutRows(rows, attached)
        /\ excused' = excused \cup attached
  /\ tickets' = WithoutRows(tickets, {t})
  /\ UNCHANGED <<disk, ids, news, req>>

\* update, with whatever the form holds; uploadAttachment.
StartUpdate(r, u, t, a, s) ==
  /\ t \in ids
  /\ Arrive(r, [Idle EXCEPT !.op = "update", !.at = "get", !.user = u, !.ticket = t,
                            !.assignee = a, !.status = s])
  /\ UNCHANGED <<tickets, rows, disk, ids, news, excused>>

StartUpload(r, t) ==
  /\ t \in ids
  /\ Arrive(r, [Idle EXCEPT !.op = "upload", !.at = "get", !.ticket = t])
  /\ UNCHANGED <<tickets, rows, disk, ids, news, excused>>

\* Store.Get, with which both begin; 404 if there is no such ticket.
Get(r) ==
  /\ req[r].at = "get"
  /\ IF req[r].ticket \in DOMAIN tickets
     THEN req' = [req EXCEPT
            ![r].before = IF req[r].op = "update" THEN tickets[req[r].ticket] ELSE None,
            ![r].at = IF req[r].op = "update" THEN "update" ELSE "insertRow"]
     ELSE Answer(r)
  /\ UNCHANGED <<tickets, rows, disk, ids, news, excused>>

\* A notice to u about the request's ticket, if the condition holds.
NoticeIf(condition, r, u, what) ==
  IF condition THEN <<<<u, req[r].ticket, what>>>> ELSE <<>>

\* Faulty: one notice per update.
Tell_Either(r, notices) ==
  IF notices = <<>> THEN Answer(r)
  ELSE req' = [req EXCEPT ![r] = [Idle EXCEPT !.op = req[r].op, !.at = "notify",
                                              !.notices = <<Head(notices)>>]]

\* Goes on to the notices, or answers.
Tell(r, notices) ==
  IF notices = <<>> THEN Answer(r)
  ELSE req' = [req EXCEPT ![r] = [Idle EXCEPT !.op = req[r].op, !.at = "notify",
                                              !.notices = notices]]

\* Faulty: only the first assignee is told.
AssignmentNews_First(r) ==
  NoticeIf(/\ req[r].assignee \notin {None, req[r].user}
           /\ req[r].before.assignee = None, r, req[r].assignee, "assigned")

\* Newly assigned, or reassigned, by somebody else.
AssignmentNews(r) ==
  NoticeIf(/\ req[r].assignee \notin {None, req[r].user}
           /\ req[r].before.assignee # req[r].assignee, r, req[r].assignee, "assigned")

\* "Just got resolved/closed", by somebody else.
StatusNews(r) ==
  LET requester == req[r].before.requester
  IN NoticeIf(/\ req[r].status \in Done
              /\ req[r].before.status # req[r].status
              /\ requester # req[r].user, r, requester, req[r].status)

\* What the new status of a ticket means for what its requester knows: if it
\* is a change, nothing yet, except by their own doing; and whether the
\* update will tell them depends on the status that it had read.
NewsOf(t, user, read, status) ==
  LET change == tickets[t].status # status
      own    == { x \in {t} : tickets[t].requester = user /\ status \in Done }
      stale  == { x \in {t} : read = status /\ status \in Done }
  IN /\ told' = (told \ { x \in {t} : change }) \cup own
     /\ missed' = IF change THEN (missed \ {t}) \cup stale ELSE missed

\* The UPDATE writes every field of the form and returns the row; what its
\* author set for themselves is no news to them.
Update(r) ==
  /\ req[r].at = "update"
  /\ LET t == req[r].ticket
     IN IF t \in DOMAIN tickets
        THEN /\ tickets' = [tickets EXCEPT ![t].assignee = req[r].assignee,
                                           ![t].status = req[r].status]
             /\ Tell(r, AssignmentNews(r) \o StatusNews(r))
             /\ known' = known \cup { <<u, t>> : u \in {req[r].user} \cap {req[r].assignee} }
             /\ NewsOf(t, req[r].user, req[r].before.status, req[r].status)
        ELSE Answer(r) /\ UNCHANGED <<tickets, news>>
  /\ UNCHANGED <<rows, disk, ids, excused>>

\* A notice reaches its user, or is lost to an error.  That of a status that
\* the ticket no longer has tells nothing of the one it has.
Learn(notices) ==
  /\ known' = known \cup { <<n[1], n[2]>> : n \in { m \in notices : m[3] = "assigned" } }
  /\ told' = told \cup { t \in DOMAIN tickets :
                           <<tickets[t].requester, t, tickets[t].status>> \in notices }
  /\ UNCHANGED missed

\* One INSERT into the inbox; an error is logged.  Then the next one.
Notify(r) ==
  /\ req[r].at = "notify"
  /\ Learn({Head(req[r].notices)})
  /\ IF Len(req[r].notices) = 1 THEN Answer(r)
     ELSE req' = [req EXCEPT ![r].notices = Tail(@)]
  /\ UNCHANGED <<tickets, rows, disk, ids, excused>>

-----------------------------------------------------------------------------
(* Attachments                                                             *)

\* CreateAttachment: the foreign key refuses a ticket that is gone (500).
InsertRow(r, a) ==
  /\ req[r].at = "insertRow"
  /\ a \notin ids
  /\ IF req[r].ticket \in DOMAIN tickets
     THEN /\ rows' = WithRow(rows, a, [ticket |-> req[r].ticket, path |-> "pending"])
          /\ ids' = ids \cup {a}
          /\ req' = [req EXCEPT ![r] = [Idle EXCEPT !.op = "upload", !.at = "create",
                                                      !.file = a]]
     ELSE Answer(r) /\ UNCHANGED <<rows, ids>>
  /\ UNCHANGED <<tickets, disk, news, excused>>

\* blobStore.Save: the file is created, then filled.
CreateBlob(r) ==
  /\ req[r].at = "create"
  /\ disk' = [disk EXCEPT ![req[r].file] = "partial"]
  /\ Go(r, "copy")
  /\ UNCHANGED <<tickets, rows, ids, news, excused>>

CopyBlob(r) ==
  /\ req[r].at = "copy"
  /\ disk' = [disk EXCEPT ![req[r].file] = "whole"]
  /\ Go(r, "record")
  /\ UNCHANGED <<tickets, rows, ids, news, excused>>

\* Faulty: the row is pointed at the blob although copying it failed.
SaveFails_Record(r) ==
  /\ req[r].at \in {"create", "copy"}
  /\ Go(r, "record")
  /\ excused' = excused \cup {req[r].file}
  /\ UNCHANGED <<tickets, rows, disk, ids, news>>

\* What Save has written stays; the row goes.
SaveFails(r) ==
  /\ req[r].at \in {"create", "copy"}
  /\ Go(r, "cleanup")
  /\ excused' = excused \cup {req[r].file}
  /\ UNCHANGED <<tickets, rows, disk, ids, news>>

Cleanup(r) ==
  /\ req[r].at = "cleanup"
  /\ rows' = WithoutRows(rows, {req[r].file})
  /\ Answer(r)
  /\ UNCHANGED <<tickets, disk, ids, news, excused>>

\* UpdateAttachmentStorage, and 201 also when the row is gone.
RecordPath(r) ==
  /\ req[r].at = "record"
  /\ rows' = IF req[r].file \in DOMAIN rows
             THEN [rows EXCEPT ![req[r].file].path = "saved"] ELSE rows
  /\ Answer(r)
  /\ UNCHANGED <<tickets, disk, ids, news, excused>>

\* deleteAttachment, by anybody.
StartDetach(r, a) ==
  /\ a \in ids
  /\ Arrive(r, [Idle EXCEPT !.op = "detach", !.at = "getRow", !.file = a])
  /\ UNCHANGED <<tickets, rows, disk, ids, news, excused>>

\* GetAttachment: the path is what it is now, 'pending' perhaps.
GetRow(r) ==
  /\ req[r].at = "getRow"
  /\ IF req[r].file \in DOMAIN rows
     THEN req' = [req EXCEPT ![r].at = "deleteRow", ![r].path = rows[req[r].file].path]
     ELSE Answer(r)
  /\ UNCHANGED <<tickets, rows, disk, ids, news, excused>>

DeleteRow(r) ==
  /\ req[r].at = "deleteRow"
  /\ rows' = WithoutRows(rows, {req[r].file})
  /\ Go(r, "removeBlob")
  /\ UNCHANGED <<tickets, disk, ids, news, excused>>

\* Faulty: nothing is removed.
RemoveBlob_Nothing(r) ==
  /\ req[r].at = "removeBlob"
  /\ Answer(r)
  /\ excused' = IF req[r].path = "pending" THEN excused \cup {req[r].file} ELSE excused
  /\ UNCHANGED <<tickets, rows, disk, ids, news>>

\* os.Remove of the path that was read: of 'pending' there is nothing to
\* remove, and the upload that is still at work leaves its bytes.
RemoveBlob(r) ==
  /\ req[r].at = "removeBlob"
  /\ disk' = IF req[r].path = "saved" THEN [disk EXCEPT ![req[r].file] = "none"] ELSE disk
  /\ excused' = IF req[r].path = "pending" THEN excused \cup {req[r].file} ELSE excused
  /\ Answer(r)
  /\ UNCHANGED <<tickets, rows, ids, news>>

\* os.Remove fails and is logged; or a statement fails or the backend stops
\* anywhere, and notices that were due are lost.
Fail(r) ==
  /\ req[r].at # "idle"
  /\ Answer(r)
  /\ Learn({ req[r].notices[i] : i \in DOMAIN req[r].notices })
  /\ excused' = excused \cup ({req[r].file} \ {None})
  /\ UNCHANGED <<tickets, rows, disk, ids>>

-----------------------------------------------------------------------------
Ticketed(r) ==
  \/ \E u \in User, t \in Ticket, a \in User \cup {None}, s \in Status :
       StartUpdate(r, u, t, a, s)
  \/ Get(r) \/ Update(r) \/ Notify(r)

Attached(r) ==
  \/ \E t \in Ticket : StartUpload(r, t)
  \/ \E a \in Attachment : InsertRow(r, a) \/ StartDetach(r, a)
  \/ CreateBlob(r) \/ CopyBlob(r) \/ SaveFails(r) \/ Cleanup(r) \/ RecordPath(r)
  \/ GetRow(r) \/ DeleteRow(r) \/ RemoveBlob(r)

Next ==
  \/ \E u \in User, t \in Ticket : CreateTicket(u, t)
  \/ \E t \in Ticket : DeleteTicket(t)
  \/ \E r \in Req : Ticketed(r) \/ Attached(r) \/ Fail(r)

Spec == Init /\ [][Next]_vars

-----------------------------------------------------------------------------
(* Properties                                                              *)

\* Tables, bytes, notices and requests are well-formed.
TypeOK ==
  /\ tickets \in TablesOf(Ticket, TicketRow)
  /\ rows \in TablesOf(Attachment, AttachmentRow)
  /\ disk \in [Attachment -> {"none", "partial", "whole"}]
  /\ ids \in SUBSET (Ticket \cup Attachment)
  /\ req \in [Req -> Request]
  /\ known \in SUBSET (User \X Ticket)
  /\ told \in SUBSET Ticket
  /\ missed \in SUBSET Ticket
  /\ excused \in SUBSET Attachment

\* A request still has this notice to send.
Due(u, t, what) ==
  \E r \in Req : \E i \in DOMAIN req[r].notices : req[r].notices[i] = <<u, t, what>>

\* Whoever a ticket is assigned to was told once that it is theirs, is about
\* to be, took it themself, or an error kept the notice back.  Whether to tell
\* them is decided on a row read before the UPDATE: somebody may be told
\* twice, or not told when a ticket they once had comes back to them, but
\* nobody has a ticket they never heard of.
AssigneesKnow ==
  \A t \in DOMAIN tickets :
    tickets[t].assignee # None =>
      <<tickets[t].assignee, t>> \in known \/ Due(tickets[t].assignee, t, "assigned")

\* The requester of a resolved ticket is told that it was resolved, of a
\* closed one that it was closed, unless they did it themself or an error kept
\* the notice back: each time anew, also when it was reopened in between.  The
\* only other exception is an update that had read the ticket as ended that way,
\* then found it reopened and ended it again.
RequestersKnow ==
  \A t \in DOMAIN tickets :
    tickets[t].status \in Done =>
      t \in told \cup missed \/ Due(tickets[t].requester, t, tickets[t].status)

\* "Just got resolved/closed - let the requester know (unless they did it
\* themselves)", says the comment in update (handlers.go).
ResolvedIsAnnounced ==
  \A t \in DOMAIN tickets :
    tickets[t].status \in Done =>
      t \in told \/ Due(tickets[t].requester, t, tickets[t].status)

\* An attachment that is listed with its path can be downloaded in full.
AttachmentsOpen ==
  \A a \in DOMAIN rows : rows[a].path = "saved" => disk[a] = "whole"

\* Bytes without a row come from an error, from an upload that was deleted
\* before it was answered, or from a deleted ticket; or they are being removed.
BytesHaveReason ==
  \A a \in Attachment :
    disk[a] # "none" /\ a \notin DOMAIN rows =>
      \/ a \in excused
      \/ \E r \in Req : req[r].file = a /\ req[r].at = "removeBlob"
=============================================================================
