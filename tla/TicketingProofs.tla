-------------------------- MODULE TicketingProofs ---------------------------
(***************************************************************************)
(* What Ticketing promises, for any number of users, tickets, attachments  *)
(* and requests under way.  The two halves hardly meet: News relates what  *)
(* an update has read to who knows of it, and drops no notice on its way;   *)
(* Bytes says who may still write or remove the bytes of an attachment.    *)
(***************************************************************************)
EXTENDS Ticketing, Integers, TLAPS

USE DEF news

Uploading == {"create", "copy", "record", "cleanup"}
Detaching == {"getRow", "deleteRow", "removeBlob"}

\* What a request holds at each of its steps.
Shape(q, given) ==
  /\ q.at = "notify" => q.notices # <<>>
  /\ q.at # "notify" => q.notices = <<>>
  /\ q.at \in {"get", "update", "insertRow"} => q.ticket \in Ticket \cap given
  /\ q.at = "get" /\ q.op = "update" => q.user \in User
  /\ q.at = "update" => q.user \in User /\ q.before \in TicketRow
  /\ q.at \in Uploading \cup Detaching => q.file \in Attachment \cap given
  /\ q.at \in {"deleteRow", "removeBlob"} => q.path \in {"pending", "saved"}

WellFormed ==
  /\ TypeOK
  /\ DOMAIN tickets \subseteq ids /\ DOMAIN rows \subseteq ids
  /\ \A r \in Req : Shape(req[r], ids)

LEMMA TableFacts ==
  ASSUME TypeOK
  PROVE  /\ DOMAIN tickets \subseteq Ticket /\ tickets \in [DOMAIN tickets -> TicketRow]
         /\ DOMAIN rows \subseteq Attachment /\ rows \in [DOMAIN rows -> AttachmentRow]
BY DEF TypeOK, TablesOf

LEMMA IdleFacts ==
  /\ Idle \in Request /\ Idle.at = "idle" /\ Idle.notices = <<>>
  /\ \A given : Shape(Idle, given)
<1>1. Idle \in Request /\ Idle.at = "idle" /\ Idle.notices = <<>>
  BY DEF Idle, Request, Step, Status
<1> QED
  BY <1>1 DEF Shape, Uploading, Detaching

\* Every step moves one request, and hands out ids but never takes one back.
LEMMA OneRequest ==
  ASSUME WellFormed, NEW r \in Req, NEW q \in Request, req' = [req EXCEPT ![r] = q],
         ids \subseteq ids', Shape(q, ids')
  PROVE  /\ req' \in [Req -> Request] /\ req'[r] = q
         /\ \A s \in Req \ {r} : req'[s] = req[s]
         /\ \A s \in Req : Shape(req'[s], ids')
<1>1. req \in [Req -> Request] /\ \A s \in Req : Shape(req[s], ids)
  BY DEF WellFormed, TypeOK
<1>2. \A s \in Req : Shape(req[s], ids')
  BY <1>1 DEF Shape
<1> QED
  BY <1>1, <1>2

\* The tables after the statements.
LEMMA RowsAfter ==
  ASSUME TypeOK, NEW keys
  PROVE  /\ WithoutRows(rows, keys) \in TablesOf(Attachment, AttachmentRow)
         /\ DOMAIN WithoutRows(rows, keys) = DOMAIN rows \ keys
         /\ \A a \in DOMAIN rows \ keys : WithoutRows(rows, keys)[a] = rows[a]
<1>1. PICK K \in SUBSET Attachment : rows \in [K -> AttachmentRow]
  BY DEF TypeOK, TablesOf
<1>2. WithoutRows(rows, keys) \in [K \ keys -> AttachmentRow]
  BY <1>1 DEF WithoutRows
<1>3. WithoutRows(rows, keys) \in TablesOf(Attachment, AttachmentRow)
  BY <1>2 DEF TablesOf
<1> QED
  BY <1>3 DEF WithoutRows

-----------------------------------------------------------------------------
(* The steps that move a request and nothing else of note.                 *)

LEMMA InitWellFormed == Init => WellFormed
<1> SUFFICES ASSUME Init PROVE WellFormed
  OBVIOUS
<1>1. /\ tickets = [t \in {} |-> {}] /\ rows = [a \in {} |-> {}]
      /\ DOMAIN tickets = {} /\ DOMAIN rows = {}
  BY DEF Init
<1>2. tickets \in TablesOf(Ticket, TicketRow) /\ rows \in TablesOf(Attachment, AttachmentRow)
  <2>1. \A Rows : [t \in {} |-> {}] \in [{} -> Rows]
    OBVIOUS
  <2> QED
    BY <1>1, <2>1 DEF TablesOf
<1>3. req \in [Req -> Request] /\ \A r \in Req : Shape(req[r], ids)
  BY IdleFacts DEF Init
<1>4. disk \in [Attachment -> {"none", "partial", "whole"}] /\ ids = {}
      /\ known = {} /\ told = {} /\ missed = {} /\ excused = {}
  BY DEF Init
<1> QED
  BY <1>1, <1>2, <1>3, <1>4 DEF WellFormed, TypeOK

\* An update or an upload begins.
LEMMA StartKept ==
  ASSUME WellFormed, NEW r \in Req,
         \/ \E u \in User, t \in Ticket, a \in User \cup {None}, s \in Status :
              StartUpdate(r, u, t, a, s)
         \/ \E t \in Ticket : StartUpload(r, t)
         \/ \E a \in Attachment : StartDetach(r, a)
  PROVE  \E q \in Request :
           /\ req' = [req EXCEPT ![r] = q] /\ Shape(q, ids)
           /\ q.at \in {"get", "getRow"} /\ q.notices = <<>> /\ req[r].at = "idle"
           /\ UNCHANGED <<tickets, rows, disk, ids, news, excused>>
<1>1. ASSUME NEW u \in User, NEW t \in Ticket, NEW a \in User \cup {None}, NEW s \in Status,
             StartUpdate(r, u, t, a, s)
      PROVE  \E q \in Request :
               /\ req' = [req EXCEPT ![r] = q] /\ Shape(q, ids)
               /\ q.at \in {"get", "getRow"} /\ q.notices = <<>>
  <2> DEFINE q == [Idle EXCEPT !.op = "update", !.at = "get", !.user = u, !.ticket = t,
                               !.assignee = a, !.status = s]
  <2>1. q \in Request /\ q.at = "get" /\ q.notices = <<>> /\ q.user = u /\ q.ticket = t
    BY <1>1, IdleFacts DEF Request, Step
  <2>2. t \in ids /\ req' = [req EXCEPT ![r] = q]
    BY <1>1 DEF StartUpdate, Arrive
  <2> HIDE DEF q
  <2>3. Shape(q, ids)
    BY <1>1, <2>1, <2>2 DEF Shape, Uploading, Detaching
  <2> QED
    BY <2>1, <2>2, <2>3
<1>2. ASSUME NEW t \in Ticket, StartUpload(r, t)
      PROVE  \E q \in Request :
               /\ req' = [req EXCEPT ![r] = q] /\ Shape(q, ids)
               /\ q.at \in {"get", "getRow"} /\ q.notices = <<>>
  <2> DEFINE q == [Idle EXCEPT !.op = "upload", !.at = "get", !.ticket = t]
  <2>1. q \in Request /\ q.at = "get" /\ q.op = "upload" /\ q.notices = <<>> /\ q.ticket = t
    BY <1>2, IdleFacts DEF Request, Step
  <2>2. t \in ids /\ req' = [req EXCEPT ![r] = q]
    BY <1>2 DEF StartUpload, Arrive
  <2> HIDE DEF q
  <2>3. Shape(q, ids)
    BY <1>2, <2>1, <2>2 DEF Shape, Uploading, Detaching
  <2> QED
    BY <2>1, <2>2, <2>3
<1>3. ASSUME NEW a \in Attachment, StartDetach(r, a)
      PROVE  \E q \in Request :
               /\ req' = [req EXCEPT ![r] = q] /\ Shape(q, ids)
               /\ q.at \in {"get", "getRow"} /\ q.notices = <<>>
  <2> DEFINE q == [Idle EXCEPT !.op = "detach", !.at = "getRow", !.file = a]
  <2>0. "getRow" \in Step
    BY DEF Step
  <2>1. q \in Request /\ q.at = "getRow" /\ q.notices = <<>> /\ q.file = a
    BY <1>3, <2>0, IdleFacts DEF Request
  <2>2. a \in ids /\ req' = [req EXCEPT ![r] = q]
    BY <1>3 DEF StartDetach, Arrive
  <2> HIDE DEF q
  <2>3. Shape(q, ids)
    BY <1>3, <2>1, <2>2 DEF Shape, Uploading, Detaching
  <2> QED
    BY <2>1, <2>2, <2>3
<1>4. req[r].at = "idle" /\ UNCHANGED <<tickets, rows, disk, ids, news, excused>>
  BY DEF StartUpdate, StartUpload, StartDetach, Arrive
<1> QED
  BY <1>1, <1>2, <1>3, <1>4

\* What ending or advancing a request does to it.
LEMMA AnswerFacts ==
  ASSUME WellFormed, NEW r \in Req, Answer(r), ids \subseteq ids'
  PROVE  /\ req' \in [Req -> Request] /\ req'[r] = Idle
         /\ \A s \in Req \ {r} : req'[s] = req[s]
         /\ \A s \in Req : Shape(req'[s], ids')
BY IdleFacts, OneRequest DEF Answer

LEMMA GoFacts ==
  ASSUME WellFormed, NEW r \in Req, NEW step \in Step, Go(r, step), ids \subseteq ids',
         step \in Uploading \cup Detaching,
         req[r].at \in Uploading \cup Detaching,
         step = "removeBlob" => req[r].at = "deleteRow", step # "deleteRow"
  PROVE  /\ req' \in [Req -> Request]
         /\ req'[r].at = step /\ req'[r].file = req[r].file /\ req'[r].path = req[r].path
         /\ req'[r].notices = <<>>
         /\ \A s \in Req \ {r} : req'[s] = req[s]
         /\ \A s \in Req : Shape(req'[s], ids')
<1> DEFINE q == [req[r] EXCEPT !.at = step]
<1>1. /\ req \in [Req -> Request] /\ req[r] \in Request /\ Shape(req[r], ids)
      /\ req' = [req EXCEPT ![r] = q]
  BY DEF WellFormed, TypeOK, Go
<1>2. /\ q \in Request /\ q.at = step /\ q.file = req[r].file /\ q.path = req[r].path
      /\ q.notices = req[r].notices
  BY <1>1 DEF Request
<1> HIDE DEF q
<1>3. req[r].notices = <<>> /\ Shape(q, ids')
  BY <1>1, <1>2 DEF Shape, Uploading, Detaching
<1> QED
  BY <1>1, <1>2, <1>3, OneRequest

LEMMA GetFacts ==
  ASSUME WellFormed, NEW r \in Req, Get(r)
  PROVE  /\ req' \in [Req -> Request] /\ req[r].at = "get"
         /\ req'[r].at \in {"idle", "update", "insertRow"} /\ req'[r].notices = <<>>
         /\ req'[r].at = "update" => /\ req'[r].ticket \in DOMAIN tickets
                                     /\ req'[r].before = tickets[req'[r].ticket]
         /\ \A s \in Req \ {r} : req'[s] = req[s]
         /\ \A s \in Req : Shape(req'[s], ids')
         /\ UNCHANGED <<tickets, rows, disk, ids, news, excused>>
<1>1. /\ req \in [Req -> Request] /\ req[r] \in Request /\ Shape(req[r], ids)
      /\ UNCHANGED <<tickets, rows, disk, ids, news, excused>> /\ req[r].at = "get"
  BY DEF WellFormed, TypeOK, Get
<1>2. CASE req[r].ticket \notin DOMAIN tickets
  BY <1>1, <1>2, AnswerFacts, IdleFacts DEF Get
<1>3. CASE req[r].ticket \in DOMAIN tickets
  <2> DEFINE before == IF req[r].op = "update" THEN tickets[req[r].ticket] ELSE None
             at == IF req[r].op = "update" THEN "update" ELSE "insertRow"
             q == [req[r] EXCEPT !.before = before, !.at = at]
  <2>1. req' = [req EXCEPT ![r] = q]
    BY <1>1, <1>3 DEF Get
  <2>2. before \in TicketRow \cup {None} /\ at \in Step
    BY <1>3, TableFacts DEF WellFormed, Step
  <2>3. /\ at \in {"update", "insertRow"}
        /\ at = "update" => req[r].op = "update" /\ before = tickets[req[r].ticket]
                            /\ before \in TicketRow
    BY <1>3, TableFacts DEF WellFormed
  <2> HIDE DEF before, at
  <2>4. /\ q \in Request /\ q.at = at /\ q.before = before /\ q.op = req[r].op
        /\ q.ticket = req[r].ticket /\ q.user = req[r].user /\ q.notices = req[r].notices
    BY <1>1, <2>2 DEF Request
  <2> HIDE DEF q
  <2>5. q.notices = <<>> /\ Shape(q, ids)
    BY <1>1, <2>3, <2>4 DEF Shape, Uploading, Detaching
  <2> QED
    BY <1>1, <1>3, <2>1, <2>3, <2>4, <2>5, OneRequest
<1> QED
  BY <1>2, <1>3

\* The notices of an update are of its ticket, to users.
LEMMA NewsFacts ==
  ASSUME WellFormed, NEW r \in Req, req[r].at = "update"
  PROVE  AssignmentNews(r) \o StatusNews(r) \in Seq(Notice)
<1>1. /\ req[r] \in Request /\ req[r].ticket \in Ticket /\ req[r].user \in User
      /\ req[r].before \in TicketRow
  BY DEF WellFormed, TypeOK, Shape
<1>2. /\ req[r].assignee \in User \cup {None} /\ req[r].before.requester \in User
  BY <1>1 DEF Request, TicketRow
<1>3. AssignmentNews(r) \in Seq(Notice)
  <2>1. CASE req[r].assignee \in User
    <3>1. <<req[r].assignee, req[r].ticket, "assigned">> \in Notice
      BY <1>1, <2>1 DEF Notice
    <3> QED
      BY <3>1 DEF AssignmentNews, NoticeIf
  <2>2. CASE req[r].assignee = None
    BY <2>2 DEF AssignmentNews, NoticeIf
  <2> QED
    BY <1>2, <2>1, <2>2
<1>4. StatusNews(r) \in Seq(Notice)
  <2>1. CASE req[r].status \in Done
    <3>1. <<req[r].before.requester, req[r].ticket, req[r].status>> \in Notice
      BY <1>1, <1>2, <2>1 DEF Notice
    <3> QED
      BY <3>1 DEF StatusNews, NoticeIf
  <2>2. CASE req[r].status \notin Done
    BY <2>2 DEF StatusNews, NoticeIf
  <2> QED
    BY <2>1, <2>2
<1> QED
  BY <1>3, <1>4

LEMMA TellFacts ==
  ASSUME WellFormed, NEW r \in Req, NEW notices \in Seq(Notice), Tell(r, notices), ids \subseteq ids'
  PROVE  /\ req' \in [Req -> Request] /\ req'[r].at \in {"idle", "notify"}
         /\ req'[r].notices = notices
         /\ \A s \in Req \ {r} : req'[s] = req[s]
         /\ \A s \in Req : Shape(req'[s], ids')
<1>1. CASE notices = <<>>
  BY <1>1, AnswerFacts, IdleFacts DEF Tell
<1>2. CASE notices # <<>>
  <2> DEFINE q == [Idle EXCEPT !.op = req[r].op, !.at = "notify", !.notices = notices]
  <2>1. req' = [req EXCEPT ![r] = q] /\ req[r] \in Request
    BY <1>2 DEF Tell, WellFormed, TypeOK
  <2>2. q \in Request /\ q.at = "notify" /\ q.notices = notices
    <3>1. req[r].op \in {"none", "update", "upload", "detach"}
      BY <2>1 DEF Request
    <3> DEFINE asked == [Idle EXCEPT !.op = req[r].op]
               telling == [asked EXCEPT !.at = "notify"]
    <3>2. asked \in Request /\ Idle \in Request
      BY <3>1, IdleFacts DEF Request
    <3> HIDE DEF asked
    <3>3. telling \in Request /\ telling.at = "notify"
      <4>1. "notify" \in Step
        BY DEF Step
      <4> QED
        BY <3>2, <4>1 DEF Request
    <3> HIDE DEF telling
    <3>4. [telling EXCEPT !.notices = notices] \in Request
      BY <3>3 DEF Request
    <3> QED
      BY <3>2, <3>3, <3>4 DEF asked, telling, Request
  <2> HIDE DEF q
  <2>3. Shape(q, ids')
    BY <1>2, <2>2 DEF Shape, Uploading, Detaching
  <2> QED
    BY <2>1, <2>2, <2>3, OneRequest
<1> QED
  BY <1>1, <1>2

LEMMA UpdateFacts ==
  ASSUME WellFormed, NEW r \in Req, Update(r)
  PROVE  /\ req' \in [Req -> Request]
         /\ req'[r].at \in {"idle", "notify"}
         /\ \A s \in Req \ {r} : req'[s] = req[s]
         /\ \A s \in Req : Shape(req'[s], ids')
         /\ UNCHANGED <<rows, disk, ids, excused>>
         /\ DOMAIN tickets' = DOMAIN tickets /\ tickets' \in TablesOf(Ticket, TicketRow)
         /\ known \subseteq known' /\ known' \in SUBSET (User \X Ticket)
         /\ told' \in SUBSET Ticket /\ missed' \in SUBSET Ticket
<1>1. /\ req[r] \in Request /\ req[r].at = "update" /\ Shape(req[r], ids)
      /\ UNCHANGED <<rows, disk, ids, excused>> /\ known \in SUBSET (User \X Ticket)
      /\ told \in SUBSET Ticket /\ missed \in SUBSET Ticket
      /\ tickets \in TablesOf(Ticket, TicketRow)
  BY DEF WellFormed, TypeOK, Update
<1>2. CASE req[r].ticket \notin DOMAIN tickets
  BY <1>1, <1>2, AnswerFacts, IdleFacts DEF Update
<1>3. CASE req[r].ticket \in DOMAIN tickets
  <2> DEFINE t == req[r].ticket
             mine == { <<u, t>> : u \in {req[r].user} \cap {req[r].assignee} }
  <2>1. /\ tickets' = [tickets EXCEPT ![t].assignee = req[r].assignee, ![t].status = req[r].status]
        /\ Tell(r, AssignmentNews(r) \o StatusNews(r))
        /\ known' = known \cup mine
        /\ NewsOf(t, req[r].user, req[r].before.status, req[r].status)
    BY <1>3 DEF Update
  <2>2. /\ mine \in SUBSET (User \X Ticket)
        /\ told' \in SUBSET Ticket /\ missed' \in SUBSET Ticket
    BY <1>1, <2>1 DEF Shape, NewsOf
  <2>3. /\ DOMAIN tickets' = DOMAIN tickets /\ tickets' \in TablesOf(Ticket, TicketRow)
    <3>1. DOMAIN tickets \subseteq Ticket /\ tickets \in [DOMAIN tickets -> TicketRow]
      BY TableFacts DEF WellFormed
    <3>2. req[r].assignee \in User \cup {None} /\ req[r].status \in Status
      BY <1>1 DEF Request
    <3>3. tickets' \in [DOMAIN tickets -> TicketRow]
      BY <1>3, <2>1, <3>1, <3>2 DEF TicketRow
    <3> QED
      BY <3>1, <3>3 DEF TablesOf
  <2> HIDE DEF mine
  <2> QED
    BY <1>1, <2>1, <2>2, <2>3, NewsFacts, TellFacts
<1> QED
  BY <1>2, <1>3

\* The notices after the first.
LEMMA TailFacts ==
  ASSUME NEW S, NEW s \in Seq(S), Len(s) > 1
  PROVE  /\ Tail(s) \in Seq(S) /\ Len(Tail(s)) = Len(s) - 1
         /\ \A i \in 1 .. Len(s) - 1 : Tail(s)[i] = s[i + 1]
OBVIOUS

\* What a notice says is known when it has reached its user.
Reached(n) ==
  /\ n[3] = "assigned" => <<n[1], n[2]>> \in known'
  /\ n[2] \in DOMAIN tickets /\ n[1] = tickets[n[2]].requester /\ n[3] = tickets[n[2]].status =>
       n[2] \in told'

LEMMA LearnFacts ==
  ASSUME WellFormed, NEW notices \in SUBSET Notice, Learn(notices)
  PROVE  /\ known \subseteq known' /\ known' \in SUBSET (User \X Ticket)
         /\ told \subseteq told' /\ told' \in SUBSET Ticket /\ missed' = missed
         /\ \A n \in notices : Reached(n)
<1>1. /\ known \in SUBSET (User \X Ticket) /\ told \in SUBSET Ticket
      /\ DOMAIN tickets \subseteq Ticket
      /\ \A n \in notices : n = <<n[1], n[2], n[3]>> /\ n[1] \in User /\ n[2] \in Ticket
  BY TableFacts DEF WellFormed, TypeOK, Notice
<1>2. /\ known' = known \cup { <<n[1], n[2]>> : n \in { m \in notices : m[3] = "assigned" } }
      /\ told' = told \cup { t \in DOMAIN tickets :
                               <<tickets[t].requester, t, tickets[t].status>> \in notices }
      /\ missed' = missed
  BY DEF Learn
<1>3. ASSUME NEW n \in notices
      PROVE  Reached(n)
  <2>1. n[3] = "assigned" => <<n[1], n[2]>> \in known'
    BY <1>2
  <2>2. ASSUME n[2] \in DOMAIN tickets, n[1] = tickets[n[2]].requester,
               n[3] = tickets[n[2]].status
        PROVE  n[2] \in told'
    BY <1>1, <1>2, <2>2
  <2> QED
    BY <2>1, <2>2 DEF Reached
<1> QED
  BY <1>1, <1>2, <1>3

LEMMA NotifyFacts ==
  ASSUME WellFormed, NEW r \in Req, Notify(r)
  PROVE  /\ req' \in [Req -> Request] /\ req[r].at = "notify"
         /\ req'[r].at \in {"idle", "notify"}
         /\ known \subseteq known' /\ known' \in SUBSET (User \X Ticket)
         /\ told \subseteq told' /\ told' \in SUBSET Ticket /\ missed' = missed
         /\ \A i \in DOMAIN req[r].notices :
              \/ Reached(req[r].notices[i])
              \/ \E j \in DOMAIN req'[r].notices : req'[r].notices[j] = req[r].notices[i]
         /\ \A s \in Req \ {r} : req'[s] = req[s]
         /\ \A s \in Req : Shape(req'[s], ids')
         /\ UNCHANGED <<tickets, rows, disk, ids, excused>>
<1>1. /\ req \in [Req -> Request] /\ req[r] \in Request /\ Shape(req[r], ids)
      /\ UNCHANGED <<tickets, rows, disk, ids, excused>> /\ req[r].at = "notify"
      /\ Learn({Head(req[r].notices)})
  BY DEF WellFormed, TypeOK, Notify
<1>2. req[r].notices \in Seq(Notice) /\ req[r].notices # <<>>
  BY <1>1 DEF Request, Shape
<1>3. /\ Head(req[r].notices) = req[r].notices[1] /\ Head(req[r].notices) \in Notice
      /\ Len(req[r].notices) \in Nat /\ Len(req[r].notices) >= 1
      /\ DOMAIN req[r].notices = 1 .. Len(req[r].notices)
  BY <1>2
<1>6. /\ known \subseteq known' /\ known' \in SUBSET (User \X Ticket)
      /\ told \subseteq told' /\ told' \in SUBSET Ticket /\ missed' = missed
      /\ Reached(Head(req[r].notices))
  BY <1>1, <1>3, LearnFacts
<1>4. CASE Len(req[r].notices) = 1
  <2>1. Answer(r)
    BY <1>4 DEF Notify
  <2>2. \A i \in DOMAIN req[r].notices : Reached(req[r].notices[i])
    <3>1. \A i \in 1 .. Len(req[r].notices) : i = 1
      BY <1>4
    <3> QED
      BY <1>3, <1>6, <3>1
  <2>4. /\ req' \in [Req -> Request] /\ req'[r] = Idle
        /\ \A s \in Req \ {r} : req'[s] = req[s]
        /\ \A s \in Req : Shape(req'[s], ids')
    BY <1>1, <2>1, AnswerFacts
  <2>5. req'[r].at = "idle"
    BY <2>4, IdleFacts
  <2> QED
    BY <1>1, <1>6, <2>2, <2>4, <2>5
<1>5. CASE Len(req[r].notices) # 1
  <2> DEFINE rest == Tail(req[r].notices)
             q == [req[r] EXCEPT !.notices = rest]
  <2>1. req' = [req EXCEPT ![r] = q]
    BY <1>1, <1>5 DEF Notify
  <2>2. /\ rest \in Seq(Notice) /\ rest # <<>> /\ Len(rest) = Len(req[r].notices) - 1
        /\ \A i \in 1 .. Len(req[r].notices) - 1 : rest[i] = req[r].notices[i + 1]
    <3>1. Len(req[r].notices) > 1
      <4>1. \A n \in Nat : n >= 1 /\ n # 1 => n > 1
        OBVIOUS
      <4> QED
        BY <4>1, <1>3, <1>5
    <3>2. /\ rest \in Seq(Notice) /\ Len(rest) = Len(req[r].notices) - 1
          /\ \A i \in 1 .. Len(req[r].notices) - 1 : rest[i] = req[r].notices[i + 1]
      BY <1>2, <3>1, TailFacts
    <3>3. rest # <<>>
      <4>1. Len(<<>>) = 0 /\ \A n \in Nat : n > 1 => n - 1 # 0
        OBVIOUS
      <4> HIDE DEF rest
      <4> QED
        BY <4>1, <1>3, <3>1, <3>2
    <3> QED
      BY <3>2, <3>3
  <2> HIDE DEF rest
  <2>3. q \in Request /\ q.at = "notify" /\ q.notices = rest
    BY <1>1, <2>2 DEF Request
  <2> HIDE DEF q
  <2>4. Shape(q, ids)
    BY <2>2, <2>3 DEF Shape, Uploading, Detaching
  <2>5. \A i \in DOMAIN req[r].notices :
          Reached(req[r].notices[i]) \/ \E j \in DOMAIN rest : rest[j] = req[r].notices[i]
    <3> SUFFICES ASSUME NEW i \in 1 .. Len(req[r].notices)
                 PROVE  \/ Reached(req[r].notices[i])
                        \/ \E j \in DOMAIN rest : rest[j] = req[r].notices[i]
      BY <1>3
    <3>1. CASE i = 1
      BY <1>3, <1>6, <3>1
    <3>2. CASE i # 1
      <4>1. i - 1 \in 1 .. Len(req[r].notices) - 1 /\ (i - 1) + 1 = i
        BY <1>3, <3>2
      <4>2. i - 1 \in DOMAIN rest /\ rest[i - 1] = req[r].notices[i]
        BY <2>2, <4>1
      <4> QED
        BY <4>2
    <3> QED
      BY <3>1, <3>2
  <2>6. /\ req' \in [Req -> Request] /\ req'[r] = q
        /\ \A s \in Req \ {r} : req'[s] = req[s]
        /\ \A s \in Req : Shape(req'[s], ids')
    BY <1>1, <1>3, <2>1, <2>3, <2>4, OneRequest
  <2> QED
    BY <1>1, <1>6, <2>3, <2>5, <2>6
<1> QED
  BY <1>4, <1>5

LEMMA InsertFacts ==
  ASSUME WellFormed, NEW r \in Req, NEW a \in Attachment, InsertRow(r, a)
  PROVE  /\ req' \in [Req -> Request] /\ req[r].at = "insertRow" /\ a \notin ids
         /\ req'[r].notices = <<>>
         /\ \A s \in Req \ {r} : req'[s] = req[s]
         /\ \A s \in Req : Shape(req'[s], ids')
         /\ \/ req'[r].at = "idle" /\ UNCHANGED <<rows, ids>>
            \/ /\ req'[r].at = "create" /\ req'[r].file = a
               /\ ids' = ids \cup {a} /\ rows' \in TablesOf(Attachment, AttachmentRow)
               /\ DOMAIN rows' = DOMAIN rows \cup {a} /\ rows'[a].path = "pending"
               /\ \A b \in DOMAIN rows : rows'[b] = rows[b]
         /\ UNCHANGED <<tickets, disk, news, excused>>
<1>1. /\ req[r] \in Request /\ Shape(req[r], ids) /\ req[r].at = "insertRow" /\ a \notin ids
      /\ UNCHANGED <<tickets, disk, news, excused>>
      /\ rows \in TablesOf(Attachment, AttachmentRow) /\ DOMAIN rows \subseteq ids
  BY DEF WellFormed, TypeOK, InsertRow
<1>2. CASE req[r].ticket \notin DOMAIN tickets
  BY <1>1, <1>2, AnswerFacts, IdleFacts DEF InsertRow
<1>3. CASE req[r].ticket \in DOMAIN tickets
  <2> DEFINE q == [Idle EXCEPT !.op = "upload", !.at = "create", !.file = a]
             row == [ticket |-> req[r].ticket, path |-> "pending"]
  <2>1. /\ req' = [req EXCEPT ![r] = q] /\ ids' = ids \cup {a} /\ rows' = WithRow(rows, a, row)
    BY <1>3 DEF InsertRow
  <2>2. q \in Request /\ q.at = "create" /\ q.file = a /\ q.notices = <<>>
    BY IdleFacts DEF Request, Step
  <2>3. row \in AttachmentRow /\ row.path = "pending"
    BY <1>1 DEF AttachmentRow, Shape
  <2> HIDE DEF q, row
  <2>4. Shape(q, ids')
    BY <2>1, <2>2 DEF Shape, Uploading, Detaching
  <2>5. rows' \in TablesOf(Attachment, AttachmentRow)
    BY <1>1, <2>1, <2>3 DEF TablesOf, WithRow
  <2>6. /\ DOMAIN rows' = DOMAIN rows \cup {a} /\ rows'[a].path = "pending"
        /\ \A b \in DOMAIN rows : rows'[b] = rows[b]
    BY <1>1, <2>1, <2>3 DEF WithRow
  <2> QED
    BY <1>1, <2>1, <2>2, <2>4, <2>5, <2>6, OneRequest
<1> QED
  BY <1>2, <1>3

LEMMA GetRowFacts ==
  ASSUME WellFormed, NEW r \in Req, GetRow(r)
  PROVE  /\ req' \in [Req -> Request] /\ req[r].at = "getRow"
         /\ req'[r].notices = <<>> /\ req'[r].at \in {"idle", "deleteRow"}
         /\ req'[r].at = "deleteRow" =>
              /\ req'[r].file \in DOMAIN rows
              /\ req'[r].path = rows[req'[r].file].path
         /\ \A s \in Req \ {r} : req'[s] = req[s]
         /\ \A s \in Req : Shape(req'[s], ids')
         /\ UNCHANGED <<tickets, rows, disk, ids, news, excused>>
<1>1. /\ req \in [Req -> Request] /\ req[r] \in Request /\ Shape(req[r], ids)
      /\ req[r].at = "getRow" /\ UNCHANGED <<tickets, rows, disk, ids, news, excused>>
  BY DEF WellFormed, TypeOK, GetRow
<1>2. CASE req[r].file \notin DOMAIN rows
  BY <1>1, <1>2, AnswerFacts, IdleFacts DEF GetRow
<1>3. CASE req[r].file \in DOMAIN rows
  <2> DEFINE path == rows[req[r].file].path
             q == [req[r] EXCEPT !.at = "deleteRow", !.path = path]
  <2>1. req' = [req EXCEPT ![r] = q]
    BY <1>1, <1>3 DEF GetRow
  <2>2. path \in {"pending", "saved"}
    BY <1>3, TableFacts DEF WellFormed, AttachmentRow
  <2> HIDE DEF path
  <2>3. /\ q \in Request /\ q.at = "deleteRow" /\ q.file = req[r].file /\ q.path = path
        /\ q.notices = req[r].notices
    <3>1. "deleteRow" \in Step
      BY DEF Step
    <3> QED
      BY <1>1, <2>2, <3>1 DEF Request
  <2> HIDE DEF q
  <2>4. q.notices = <<>> /\ Shape(q, ids)
    BY <1>1, <2>2, <2>3 DEF Shape, Uploading, Detaching
  <2> QED
    BY <1>1, <1>3, <2>1, <2>3, <2>4, OneRequest DEF path
<1> QED
  BY <1>2, <1>3

-----------------------------------------------------------------------------
(* Requests hold what their step needs, whoever else is served.            *)

\* One row's path becomes "saved".
LEMMA RecordFacts ==
  ASSUME WellFormed, NEW r \in Req, RecordPath(r)
  PROVE  /\ rows' \in TablesOf(Attachment, AttachmentRow) /\ DOMAIN rows' = DOMAIN rows
         /\ \A a \in DOMAIN rows : a # req[r].file => rows'[a] = rows[a]
<1>1. DOMAIN rows \subseteq Attachment /\ rows \in [DOMAIN rows -> AttachmentRow]
  BY TableFacts DEF WellFormed
<1>2. CASE req[r].file \notin DOMAIN rows
  BY <1>2 DEF RecordPath, WellFormed, TypeOK
<1>3. CASE req[r].file \in DOMAIN rows
  <2>1. rows' = [rows EXCEPT ![req[r].file].path = "saved"]
    BY <1>3 DEF RecordPath
  <2>2. rows' \in [DOMAIN rows -> AttachmentRow]
    BY <1>1, <1>3, <2>1 DEF AttachmentRow
  <2> QED
    BY <1>1, <2>1, <2>2 DEF TablesOf
<1> QED
  BY <1>2, <1>3

\* The notices that an error keeps back.
LEMMA FailFacts ==
  ASSUME WellFormed, NEW r \in Req, Fail(r)
  PROVE  /\ known \subseteq known' /\ known' \in SUBSET (User \X Ticket)
         /\ told \subseteq told' /\ told' \in SUBSET Ticket /\ missed' = missed
         /\ \A i \in DOMAIN req[r].notices : Reached(req[r].notices[i])
<1> DEFINE notices == { req[r].notices[i] : i \in DOMAIN req[r].notices }
<1>1. notices \in SUBSET Notice
  <2>1. req[r].notices \in Seq(Notice)
    BY DEF WellFormed, TypeOK, Request
  <2> QED
    BY <2>1
<1>2. Learn(notices)
  BY DEF Fail
<1>3. \A i \in DOMAIN req[r].notices : req[r].notices[i] \in notices
  OBVIOUS
<1> HIDE DEF notices
<1> QED
  BY <1>1, <1>2, <1>3, LearnFacts

LEMMA StepWellFormed ==
  ASSUME WellFormed, [Next]_vars
  PROVE  WellFormed'
<1> USE DEF WellFormed, TypeOK
<1>0. /\ tickets \in TablesOf(Ticket, TicketRow) /\ rows \in TablesOf(Attachment, AttachmentRow)
      /\ disk \in [Attachment -> {"none", "partial", "whole"}]
      /\ known \in SUBSET (User \X Ticket) /\ told \in SUBSET Ticket
      /\ missed \in SUBSET Ticket /\ excused \in SUBSET Attachment
      /\ ids \in SUBSET (Ticket \cup Attachment)
      /\ DOMAIN tickets \subseteq ids /\ DOMAIN rows \subseteq ids
      /\ req \in [Req -> Request] /\ \A r \in Req : Shape(req[r], ids)
  OBVIOUS
<1>1. ASSUME NEW u \in User, NEW t \in Ticket, CreateTicket(u, t)
      PROVE  WellFormed'
  <2>1. [requester |-> u, assignee |-> None, status |-> "open"] \in TicketRow
    BY DEF TicketRow, Status
  <2>2. tickets' \in TablesOf(Ticket, TicketRow)
    BY <1>0, <1>1, <2>1 DEF CreateTicket, TablesOf, WithRow
  <2>3. DOMAIN tickets' = DOMAIN tickets \cup {t}
    BY <1>1 DEF CreateTicket, WithRow
  <2>4. \A r \in Req : Shape(req[r], ids')
    BY <1>0, <1>1 DEF Shape, CreateTicket
  <2> QED
    BY <1>0, <1>1, <2>2, <2>3, <2>4 DEF CreateTicket
<1>2. ASSUME NEW t \in Ticket, DeleteTicket(t)
      PROVE  WellFormed'
  <2> DEFINE attached == { a \in DOMAIN rows : rows[a].ticket = t }
  <2>1. /\ tickets' = WithoutRows(tickets, {t}) /\ rows' = WithoutRows(rows, attached)
        /\ excused' = excused \cup attached /\ UNCHANGED <<disk, ids, news, req>>
    BY <1>2 DEF DeleteTicket
  <2>2. attached \subseteq Attachment
    BY TableFacts
  <2> HIDE DEF attached
  <2>3. tickets' \in TablesOf(Ticket, TicketRow) /\ DOMAIN tickets' \subseteq DOMAIN tickets
    BY <1>0, <2>1 DEF WithoutRows, TablesOf
  <2>4. rows' \in TablesOf(Attachment, AttachmentRow) /\ DOMAIN rows' \subseteq DOMAIN rows
    BY <1>0, <2>1, RowsAfter
  <2> QED
    BY <1>0, <2>1, <2>2, <2>3, <2>4
<1>3. ASSUME NEW r \in Req, Ticketed(r)
      PROVE  WellFormed'
  <2>1. CASE \E u \in User, t \in Ticket, a \in User \cup {None}, s \in Status :
               StartUpdate(r, u, t, a, s)
    BY <1>0, <2>1, StartKept, OneRequest
  <2>2. CASE Get(r)
    BY <1>0, <2>2, GetFacts
  <2>3. CASE Update(r)
    BY <1>0, <2>3, UpdateFacts
  <2>4. CASE Notify(r)
    BY <1>0, <2>4, NotifyFacts
  <2> QED
    BY <1>3, <2>1, <2>2, <2>3, <2>4 DEF Ticketed
<1>4. ASSUME NEW r \in Req, Attached(r)
      PROVE  WellFormed'
  <2>0. req[r].at \in Uploading \cup Detaching => req[r].file \in Attachment
    BY <1>0 DEF Shape
  <2>1. CASE (\E t \in Ticket : StartUpload(r, t)) \/ (\E a \in Attachment : StartDetach(r, a))
    BY <1>0, <2>1, StartKept, OneRequest
  <2>2. ASSUME NEW a \in Attachment, InsertRow(r, a)
        PROVE  WellFormed'
    <3>1. /\ req' \in [Req -> Request] /\ \A s \in Req : Shape(req'[s], ids')
          /\ UNCHANGED <<tickets, disk, news, excused>>
          /\ ids' \in {ids, ids \cup {a}} /\ DOMAIN rows' \subseteq ids'
          /\ rows' \in TablesOf(Attachment, AttachmentRow)
      <4>1. rows \in TablesOf(Attachment, AttachmentRow) /\ DOMAIN rows \subseteq ids
        BY <1>0
      <4>2. /\ req' \in [Req -> Request] /\ \A s \in Req : Shape(req'[s], ids')
            /\ UNCHANGED <<tickets, disk, news, excused>>
            /\ \/ UNCHANGED <<rows, ids>>
               \/ /\ ids' = ids \cup {a} /\ rows' \in TablesOf(Attachment, AttachmentRow)
                  /\ DOMAIN rows' = DOMAIN rows \cup {a}
        BY <2>2, InsertFacts
      <4> QED
        BY <4>1, <4>2
    <3> QED
      BY <1>0, <3>1
  <2>3. CASE CreateBlob(r)
    BY <1>0, <2>0, <2>3, GoFacts DEF CreateBlob, Uploading, Step
  <2>4. CASE CopyBlob(r)
    BY <1>0, <2>0, <2>4, GoFacts DEF CopyBlob, Uploading, Step
  <2>5. CASE SaveFails(r)
    BY <1>0, <2>0, <2>5, GoFacts DEF SaveFails, Uploading, Step
  <2>6. CASE Cleanup(r)
    BY <1>0, <2>6, AnswerFacts, RowsAfter DEF Cleanup
  <2>7. CASE RecordPath(r)
    BY <1>0, <2>7, AnswerFacts, RecordFacts DEF RecordPath
  <2>8. CASE GetRow(r)
    BY <1>0, <2>8, GetRowFacts
  <2>9. CASE DeleteRow(r)
    <3>1. req' \in [Req -> Request] /\ \A s \in Req : Shape(req'[s], ids')
      BY <2>9, GoFacts DEF DeleteRow, Detaching, Step
    <3>2. rows' \in TablesOf(Attachment, AttachmentRow) /\ DOMAIN rows' \subseteq DOMAIN rows
      BY <2>9, RowsAfter DEF DeleteRow
    <3> QED
      BY <1>0, <2>9, <3>1, <3>2 DEF DeleteRow
  <2>10. CASE RemoveBlob(r)
    <3>1. req[r].file \in Attachment
      BY <2>0, <2>10 DEF RemoveBlob, Detaching
    <3>2. disk' \in [Attachment -> {"none", "partial", "whole"}] /\ excused' \in SUBSET Attachment
      BY <1>0, <2>10, <3>1 DEF RemoveBlob
    <3> QED
      BY <1>0, <2>10, <3>2, AnswerFacts DEF RemoveBlob
  <2> QED
    BY <1>4, <2>1, <2>2, <2>3, <2>4, <2>5, <2>6, <2>7, <2>8, <2>9, <2>10 DEF Attached
<1>5. ASSUME NEW r \in Req, Fail(r)
      PROVE  WellFormed'
  <2>1. req[r].file \in Attachment \cup {None}
    BY <1>0 DEF Request
  <2>3. /\ known' \in SUBSET (User \X Ticket) /\ told' \in SUBSET Ticket
        /\ missed' \in SUBSET Ticket
    BY <1>0, <1>5, FailFacts
  <2>4. excused' \in SUBSET Attachment
    BY <1>0, <1>5, <2>1 DEF Fail
  <2> QED
    BY <1>0, <1>5, <2>3, <2>4, AnswerFacts DEF Fail
<1>6. ASSUME UNCHANGED vars
      PROVE  WellFormed'
  BY <1>0, <1>6 DEF vars
<1> QED
  BY <1>1, <1>2, <1>3, <1>4, <1>5, <1>6 DEF Next

\* Every table, notice and request stays well-formed: what each handler reads
\* of its request is there when the handler reads it.
THEOREM TypeCorrect == Spec => []TypeOK
<1>1. Init => WellFormed
  BY InitWellFormed
<1>2. WellFormed /\ [Next]_vars => WellFormed'
  BY StepWellFormed
<1>3. WellFormed => TypeOK
  BY DEF WellFormed
<1> QED
  BY <1>1, <1>2, <1>3, PTL DEF Spec

-----------------------------------------------------------------------------
(* Who knows what.  A notice is not dropped: it moves from the request to  *)
(* the inbox.                                                              *)

\* u was told that t is theirs, or is about to be.
Hears(u, t) == <<u, t>> \in known \/ Due(u, t, "assigned")

\* Due and Hears, after the step, of values before it.
DueNext(u, t, what) ==
  \E r \in Req : \E i \in DOMAIN req'[r].notices : req'[r].notices[i] = <<u, t, what>>

HearsNext(u, t) == <<u, t>> \in known' \/ DueNext(u, t, "assigned")

\* The assignee that an update has read was told, and the requester is the
\* one that the ticket still has.
BeforeKnown ==
  \A r \in Req : req[r].at = "update" =>
    /\ req[r].before.assignee # None => Hears(req[r].before.assignee, req[r].ticket)
    /\ req[r].ticket \in DOMAIN tickets =>
         req[r].before.requester = tickets[req[r].ticket].requester

News == AssigneesKnow /\ RequestersKnow /\ BeforeKnown

\* What one request had to tell is told or still to be told.
Kept(r) ==
  \A i \in DOMAIN req[r].notices :
    \/ Reached(req[r].notices[i])
    \/ \E j \in DOMAIN req'[r].notices : req'[r].notices[j] = req[r].notices[i]

LEMMA HearsKept ==
  ASSUME known \subseteq known', \A r \in Req : Kept(r)
  PROVE  \A u, t : Hears(u, t) => HearsNext(u, t)
<1> SUFFICES ASSUME NEW u, NEW t, Hears(u, t)
             PROVE  HearsNext(u, t)
  OBVIOUS
<1>1. CASE <<u, t>> \in known
  BY <1>1 DEF HearsNext
<1>2. ASSUME NEW r \in Req, NEW i \in DOMAIN req[r].notices,
             req[r].notices[i] = <<u, t, "assigned">>
      PROVE  HearsNext(u, t)
  <2>1. CASE Reached(req[r].notices[i])
    BY <1>2, <2>1 DEF Reached, HearsNext
  <2>2. CASE \E j \in DOMAIN req'[r].notices : req'[r].notices[j] = req[r].notices[i]
    BY <1>2, <2>2 DEF HearsNext, DueNext
  <2> QED
    BY <1>2, <2>1, <2>2 DEF Kept
<1> QED
  BY <1>1, <1>2 DEF Hears, Due

\* Of the status that a ticket has, or had before the step.
LEMMA DueKept ==
  ASSUME \A r \in Req : Kept(r), NEW t \in DOMAIN tickets,
         Due(tickets[t].requester, t, tickets[t].status)
  PROVE  t \in told' \/ DueNext(tickets[t].requester, t, tickets[t].status)
<1> DEFINE u == tickets[t].requester
           what == tickets[t].status
<1>1. PICK r \in Req : \E i \in DOMAIN req[r].notices : req[r].notices[i] = <<u, t, what>>
  BY DEF Due
<1>2. PICK i \in DOMAIN req[r].notices : req[r].notices[i] = <<u, t, what>>
  BY <1>1
<1>3. CASE Reached(req[r].notices[i])
  BY <1>2, <1>3 DEF Reached
<1>4. CASE \E j \in DOMAIN req'[r].notices : req'[r].notices[j] = req[r].notices[i]
  BY <1>2, <1>4 DEF DueNext
<1> QED
  BY <1>3, <1>4 DEF Kept

LEMMA StepKept ==
  ASSUME WellFormed, [Next]_vars
  PROVE  known \subseteq known' /\ \A r \in Req : Kept(r)
<1>0. req \in [Req -> Request] /\ \A r \in Req : Shape(req[r], ids)
  BY DEF WellFormed, TypeOK
<1>1. \A r \in Req : req'[r] = req[r] => Kept(r)
  BY DEF Kept
<1>2. \A r \in Req : req[r].at # "notify" => Kept(r)
  <2>1. \A r \in Req : req[r].at # "notify" => req[r].notices = <<>>
    BY <1>0 DEF Shape
  <2>2. DOMAIN <<>> = {}
    OBVIOUS
  <2> QED
    BY <2>1, <2>2 DEF Kept
<1>3. ASSUME NEW r \in Req, \A s \in Req \ {r} : req'[s] = req[s], Kept(r)
      PROVE  \A s \in Req : Kept(s)
  BY <1>1, <1>3
<1>4. CASE \/ \E u \in User, t \in Ticket : CreateTicket(u, t)
           \/ \E t \in Ticket : DeleteTicket(t)
           \/ UNCHANGED vars
  BY <1>1, <1>4 DEF CreateTicket, DeleteTicket, vars
<1>5. ASSUME NEW r \in Req, Ticketed(r)
      PROVE  known \subseteq known' /\ \A s \in Req : Kept(s)
  <2>1. CASE \E u \in User, t \in Ticket, a \in User \cup {None}, s \in Status :
               StartUpdate(r, u, t, a, s)
    <3>1. /\ req[r].at = "idle" /\ known' = known /\ \A s \in Req \ {r} : req'[s] = req[s]
      BY <1>0, <2>1, StartKept
    <3> QED
      BY <1>2, <1>3, <3>1
  <2>2. CASE Get(r)
    BY <1>2, <1>3, <2>2, GetFacts
  <2>3. CASE Update(r)
    <3>1. req[r].at = "update"
      BY <2>3 DEF Update
    <3> QED
      BY <1>2, <1>3, <2>3, <3>1, UpdateFacts
  <2>4. CASE Notify(r)
    <3>1. Kept(r)
      BY <2>4, NotifyFacts DEF Kept
    <3> QED
      BY <1>3, <2>4, <3>1, NotifyFacts
  <2> QED
    BY <1>5, <2>1, <2>2, <2>3, <2>4 DEF Ticketed
<1>6. ASSUME NEW r \in Req, Attached(r)
      PROVE  known \subseteq known' /\ \A s \in Req : Kept(s)
  <2>1. known' = known /\ req[r].at # "notify"
    BY <1>6 DEF Attached, StartUpload, StartDetach, InsertRow, CreateBlob, CopyBlob, SaveFails,
                Cleanup, RecordPath, GetRow, DeleteRow, RemoveBlob, Arrive
  <2>2. \A s \in Req \ {r} : req'[s] = req[s]
    BY <1>0, <1>6 DEF Attached, StartUpload, StartDetach, InsertRow, CreateBlob, CopyBlob,
                      SaveFails, Cleanup, RecordPath, GetRow, DeleteRow, RemoveBlob, Arrive, Go,
                      Answer
  <2> QED
    BY <1>2, <1>3, <2>1, <2>2
<1>7. ASSUME NEW r \in Req, Fail(r)
      PROVE  known \subseteq known' /\ \A s \in Req : Kept(s)
  <2>1. \A s \in Req \ {r} : req'[s] = req[s]
    BY <1>0, <1>7 DEF Fail, Answer
  <2>2. known \subseteq known' /\ \A i \in DOMAIN req[r].notices : Reached(req[r].notices[i])
    BY <1>7, FailFacts
  <2>3. Kept(r)
    BY <2>2 DEF Kept
  <2> QED
    BY <1>3, <2>1, <2>2, <2>3
<1> QED
  BY <1>4, <1>5, <1>6, <1>7 DEF Next

\* News after the step, in these words.
LEMMA NewsPrimed ==
  /\ AssigneesKnow <=>
       \A t \in DOMAIN tickets :
         tickets[t].assignee # None => Hears(tickets[t].assignee, t)
  /\ AssigneesKnow' <=>
       \A t \in DOMAIN tickets' :
         tickets'[t].assignee # None => HearsNext(tickets'[t].assignee, t)
  /\ RequestersKnow' <=>
       \A t \in DOMAIN tickets' :
         tickets'[t].status \in Done =>
           t \in told' \cup missed' \/ DueNext(tickets'[t].requester, t, tickets'[t].status)
  /\ BeforeKnown' <=>
       \A r \in Req : req'[r].at = "update" =>
         /\ req'[r].before.assignee # None =>
              HearsNext(req'[r].before.assignee, req'[r].ticket)
         /\ req'[r].ticket \in DOMAIN tickets' =>
              req'[r].before.requester = tickets'[req'[r].ticket].requester
BY DEF AssigneesKnow, RequestersKnow, BeforeKnown, Hears, HearsNext, Due, DueNext

\* What a ticket's requester knows of its status, while it has it.
LEMMA StatusKept ==
  ASSUME \A r \in Req : Kept(r), RequestersKnow, NEW t \in DOMAIN tickets,
         tickets[t].status \in Done, t \in told => t \in told', t \in missed => t \in missed'
  PROVE  t \in told' \cup missed' \/ DueNext(tickets[t].requester, t, tickets[t].status)
<1>1. t \in told \cup missed \/ Due(tickets[t].requester, t, tickets[t].status)
  BY DEF RequestersKnow
<1> QED
  BY <1>1, DueKept

\* Steps that write no ticket and read none.
LEMMA NewsOfOthers ==
  ASSUME WellFormed, News, [Next]_vars, tickets' = tickets,
         told \subseteq told', missed \subseteq missed',
         \A r \in Req : req'[r].at = "update" => req'[r] = req[r]
  PROVE  News'
<1>1. /\ \A u, t : Hears(u, t) => HearsNext(u, t)
      /\ \A r \in Req : Kept(r)
  BY StepKept, HearsKept
<1>2. AssigneesKnow'
  BY <1>1, NewsPrimed DEF News
<1>3. RequestersKnow'
  <2>1. \A t \in DOMAIN tickets : tickets[t].status \in Done =>
          t \in told' \cup missed' \/ DueNext(tickets[t].requester, t, tickets[t].status)
    BY <1>1, StatusKept DEF News
  <2> QED
    BY <2>1, NewsPrimed
<1>4. BeforeKnown'
  BY <1>1, NewsPrimed DEF News, BeforeKnown
<1> QED
  BY <1>2, <1>3, <1>4 DEF News

\* The UPDATE: what it writes differs from what was read before it, and then
\* there is a notice; or it was there when it was read, and who was told then
\* still knows, unless another update has changed it in between.
LEMMA NewsOfUpdate ==
  ASSUME WellFormed, News, NEW r \in Req, Update(r)
  PROVE  News'
<1>0. /\ \A u, t : Hears(u, t) => HearsNext(u, t)
      /\ \A q \in Req : Kept(q)
  <2>1. [Next]_vars
    BY DEF Next, Ticketed
  <2> QED
    BY <2>1, StepKept, HearsKept
<1>1. /\ req[r] \in Request /\ req[r].at = "update" /\ Shape(req[r], ids)
      /\ req[r].before \in TicketRow
  BY DEF WellFormed, TypeOK, Update, Shape
<1>2. \A s \in Req : req'[s].at = "update" => req'[s] = req[s]
  BY UpdateFacts
<1>3. CASE req[r].ticket \notin DOMAIN tickets
  <2>1. tickets' = tickets /\ told' = told /\ missed' = missed /\ [Next]_vars
    BY <1>3 DEF Update, Next, Ticketed
  <2> QED
    BY <1>2, <2>1, NewsOfOthers
<1>4. CASE req[r].ticket \in DOMAIN tickets
  <2> DEFINE t == req[r].ticket
             a == req[r].assignee
             s == req[r].status
             u == req[r].user
             before == req[r].before
             notices == AssignmentNews(r) \o StatusNews(r)
  <2>1. /\ tickets' = [tickets EXCEPT ![t].assignee = a, ![t].status = s]
        /\ Tell(r, notices)
        /\ a = u => <<a, t>> \in known'
        /\ NewsOf(t, u, before.status, s)
    BY <1>4 DEF Update
  <2>2. /\ DOMAIN tickets' = DOMAIN tickets
        /\ tickets'[t].assignee = a /\ tickets'[t].status = s
        /\ tickets'[t].requester = tickets[t].requester
        /\ \A o \in DOMAIN tickets \ {t} : tickets'[o] = tickets[o]
        /\ \A o \in DOMAIN tickets : tickets'[o].requester = tickets[o].requester
    <3>1. tickets \in [DOMAIN tickets -> TicketRow]
      BY TableFacts DEF WellFormed
    <3> QED
      BY <1>4, <2>1, <3>1 DEF TicketRow
  <2>3. /\ before.assignee # None => Hears(before.assignee, t)
        /\ before.requester = tickets[t].requester
    BY <1>1, <1>4 DEF News, BeforeKnown
  <2>4. \A i \in DOMAIN notices : \A v, what :
          notices[i] = <<v, t, what>> => DueNext(v, t, what)
    <3>1. req'[r].notices = notices
      BY <1>1, <2>1, NewsFacts, TellFacts DEF Update
    <3> QED
      BY <3>1 DEF DueNext
  <2>5. a # None => HearsNext(a, t)
    <3>1. CASE a = u
      BY <2>1, <3>1 DEF HearsNext
    <3>2. CASE before.assignee = a
      BY <1>0, <2>3, <3>2
    <3>3. CASE a # None /\ a # u /\ before.assignee # a
      <4>1. AssignmentNews(r) = <<<<a, t, "assigned">>>>
        BY <3>3 DEF AssignmentNews, NoticeIf
      <4>2. StatusNews(r) \in {<<>>, <<<<before.requester, t, s>>>>}
        BY DEF StatusNews, NoticeIf
      <4>3. 1 \in DOMAIN notices /\ notices[1] = <<a, t, "assigned">>
        <5>1. CASE StatusNews(r) = <<>>
          BY <4>1, <5>1
        <5>2. CASE StatusNews(r) = <<<<before.requester, t, s>>>>
          BY <4>1, <5>2
        <5> QED
          BY <4>2, <5>1, <5>2
      <4> QED
        BY <2>4, <4>3 DEF HearsNext
    <3> QED
      BY <3>1, <3>2, <3>3
  <2>6. s \in Done => t \in told' \cup missed' \/ DueNext(tickets[t].requester, t, s)
    <3>1. CASE s \in Done /\ before.requester = u
      BY <2>1, <2>3, <3>1 DEF NewsOf
    <3>2. CASE s \in Done /\ before.status = s
      <4>1. CASE tickets[t].status = s
        <5>1. (t \in told => t \in told') /\ (t \in missed => t \in missed')
          BY <2>1, <4>1 DEF NewsOf
        <5> QED
          BY <1>0, <1>4, <3>2, <4>1, <5>1, StatusKept DEF News
      <4>2. CASE tickets[t].status # s
        BY <2>1, <3>2, <4>2 DEF NewsOf
      <4> QED
        BY <4>1, <4>2
    <3>3. CASE s \in Done /\ before.requester # u /\ before.status # s
      <4>1. StatusNews(r) = <<<<before.requester, t, s>>>>
        BY <3>3 DEF StatusNews, NoticeIf
      <4>2. AssignmentNews(r) \in {<<>>, <<<<a, t, "assigned">>>>}
        BY DEF AssignmentNews, NoticeIf
      <4>3. \E i \in DOMAIN notices : notices[i] = <<before.requester, t, s>>
        <5>1. CASE AssignmentNews(r) = <<>>
          BY <4>1, <5>1
        <5>2. CASE AssignmentNews(r) = <<<<a, t, "assigned">>>>
          BY <4>1, <5>2
        <5> QED
          BY <4>2, <5>1, <5>2
      <4> QED
        BY <2>3, <2>4, <4>3
    <3> QED
      BY <3>1, <3>2, <3>3
  <2> HIDE DEF t, a, s, u, before, notices
  <2>7. AssigneesKnow'
    BY <1>0, <2>2, <2>5, NewsPrimed DEF News
  <2>8. RequestersKnow'
    <3>1. \A o \in DOMAIN tickets \ {t} :
            (o \in told => o \in told') /\ (o \in missed => o \in missed')
      BY <2>1 DEF NewsOf
    <3>2. \A o \in DOMAIN tickets \ {t} : tickets[o].status \in Done =>
            o \in told' \cup missed' \/ DueNext(tickets[o].requester, o, tickets[o].status)
      BY <1>0, <3>1, StatusKept DEF News
    <3>3. \A o \in DOMAIN tickets' : tickets'[o].status \in Done =>
            o \in told' \cup missed' \/ DueNext(tickets'[o].requester, o, tickets'[o].status)
      <4> SUFFICES ASSUME NEW o \in DOMAIN tickets', tickets'[o].status \in Done
                   PROVE  \/ o \in told' \cup missed'
                          \/ DueNext(tickets'[o].requester, o, tickets'[o].status)
        OBVIOUS
      <4>1. CASE o = t
        BY <2>2, <2>6, <4>1
      <4>2. CASE o # t
        <5>1. o \in DOMAIN tickets \ {t} /\ tickets'[o] = tickets[o]
          BY <2>2, <4>2
        <5> QED
          BY <3>2, <5>1
      <4> QED
        BY <4>1, <4>2
    <3> QED
      BY <3>3, NewsPrimed
  <2>9. BeforeKnown'
    BY <1>0, <1>2, <2>2, NewsPrimed DEF News, BeforeKnown
  <2> QED
    BY <2>7, <2>8, <2>9 DEF News
<1> QED
  BY <1>3, <1>4

LEMMA StepNews ==
  ASSUME WellFormed, News, [Next]_vars
  PROVE  News'
<1>0. /\ \A u, t : Hears(u, t) => HearsNext(u, t)
      /\ \A r \in Req : Kept(r)
      /\ \A r \in Req : Shape(req[r], ids) /\ DOMAIN tickets \subseteq ids
  BY StepKept, HearsKept DEF WellFormed
<1>1. ASSUME NEW u \in User, NEW t \in Ticket, CreateTicket(u, t)
      PROVE  News'
  <2>1. /\ DOMAIN tickets' = DOMAIN tickets \cup {t} /\ t \notin ids /\ req' = req
        /\ tickets'[t].assignee = None /\ tickets'[t].status = "open"
        /\ \A o \in DOMAIN tickets : tickets'[o] = tickets[o]
        /\ told' = told /\ missed' = missed
    <3> DEFINE row == [requester |-> u, assignee |-> None, status |-> "open"]
    <3>1. t \notin ids /\ tickets' = WithRow(tickets, t, row) /\ req' = req
      BY <1>1 DEF CreateTicket
    <3>2. row.assignee = None /\ row.status = "open"
      OBVIOUS
    <3> HIDE DEF row
    <3>3. t \notin DOMAIN tickets
      BY <1>1 DEF CreateTicket, WellFormed
    <3>4. /\ DOMAIN tickets' = DOMAIN tickets \cup {t} /\ tickets'[t] = row
          /\ \A o \in DOMAIN tickets : tickets'[o] = tickets[o]
      BY <3>1, <3>3 DEF WithRow
    <3> QED
      BY <1>1, <3>1, <3>2, <3>4 DEF CreateTicket
  <2>2. AssigneesKnow'
    BY <1>0, <2>1, NewsPrimed DEF News
  <2>3. RequestersKnow'
    <3>1. \A o \in DOMAIN tickets : tickets[o].status \in Done =>
            o \in told' \cup missed' \/ DueNext(tickets[o].requester, o, tickets[o].status)
      BY <1>0, <2>1, StatusKept DEF News
    <3> QED
      BY <2>1, <3>1, NewsPrimed, TicketingConstants
  <2>4. \A r \in Req : req[r].at = "update" => req[r].ticket \in ids
    BY <1>0 DEF Shape
  <2>5. BeforeKnown'
    BY <1>0, <2>1, <2>4, NewsPrimed DEF News, BeforeKnown
  <2> QED
    BY <2>2, <2>3, <2>5 DEF News
<1>2. ASSUME NEW t \in Ticket, DeleteTicket(t)
      PROVE  News'
  <2>1. /\ DOMAIN tickets' = DOMAIN tickets \ {t} /\ req' = req
        /\ \A o \in DOMAIN tickets' : tickets'[o] = tickets[o]
        /\ told' = told /\ missed' = missed
    BY <1>2 DEF DeleteTicket, WithoutRows
  <2>2. AssigneesKnow'
    BY <1>0, <2>1, NewsPrimed DEF News
  <2>3. RequestersKnow'
    <3>1. \A o \in DOMAIN tickets : tickets[o].status \in Done =>
            o \in told' \cup missed' \/ DueNext(tickets[o].requester, o, tickets[o].status)
      BY <1>0, <2>1, StatusKept DEF News
    <3> QED
      BY <2>1, <3>1, NewsPrimed
  <2>4. BeforeKnown'
    BY <1>0, <2>1, NewsPrimed DEF News, BeforeKnown
  <2> QED
    BY <2>2, <2>3, <2>4 DEF News
<1>3. ASSUME NEW r \in Req, Get(r)
      PROVE  News'
  <2>1. /\ tickets' = tickets /\ told' = told /\ missed' = missed
        /\ \A s \in Req \ {r} : req'[s] = req[s]
        /\ req'[r].at = "update" => /\ req'[r].ticket \in DOMAIN tickets
                                    /\ req'[r].before = tickets[req'[r].ticket]
    BY <1>3, GetFacts
  <2>2. AssigneesKnow'
    BY <1>0, <2>1, NewsPrimed DEF News
  <2>3. RequestersKnow'
    <3>1. \A o \in DOMAIN tickets : tickets[o].status \in Done =>
            o \in told' \cup missed' \/ DueNext(tickets[o].requester, o, tickets[o].status)
      BY <1>0, <2>1, StatusKept DEF News
    <3> QED
      BY <2>1, <3>1, NewsPrimed
  <2>4. BeforeKnown'
    BY <1>0, <2>1, NewsPrimed DEF News, BeforeKnown
  <2> QED
    BY <2>2, <2>3, <2>4 DEF News
<1>4. ASSUME NEW r \in Req, Update(r)
      PROVE  News'
  BY <1>4, NewsOfUpdate
<1>5. ASSUME NEW r \in Req,
             \/ \E u \in User, t \in Ticket, a \in User \cup {None}, s \in Status :
                  StartUpdate(r, u, t, a, s)
             \/ \E t \in Ticket : StartUpload(r, t)
             \/ \E a \in Attachment : StartDetach(r, a)
      PROVE  News'
  <2>1. PICK q \in Request : /\ req' = [req EXCEPT ![r] = q] /\ q.at \in {"get", "getRow"}
                             /\ tickets' = tickets /\ told' = told /\ missed' = missed
    BY <1>5, StartKept
  <2>2. req \in [Req -> Request]
    BY DEF WellFormed, TypeOK
  <2>3. \A s \in Req : req'[s].at = "update" => req'[s] = req[s]
    BY <2>1, <2>2
  <2> QED
    BY <2>1, <2>3, NewsOfOthers
<1>6. ASSUME NEW r \in Req, Notify(r)
      PROVE  News'
  <2>1. /\ tickets' = tickets /\ told \subseteq told' /\ missed' = missed
        /\ \A s \in Req : req'[s].at = "update" => req'[s] = req[s]
    BY <1>6, NotifyFacts
  <2> QED
    BY <2>1, NewsOfOthers
<1>7. ASSUME NEW r \in Req,
             \/ \E a \in Attachment : InsertRow(r, a)
             \/ CreateBlob(r) \/ CopyBlob(r) \/ SaveFails(r) \/ Cleanup(r) \/ RecordPath(r)
             \/ GetRow(r) \/ DeleteRow(r) \/ RemoveBlob(r) \/ Fail(r)
      PROVE  News'
  <2>1. tickets' = tickets /\ told \subseteq told' /\ missed' = missed
    <3>1. CASE Fail(r)
      BY <3>1, FailFacts DEF Fail
    <3> QED
      BY <1>7, <3>1 DEF InsertRow, CreateBlob, CopyBlob, SaveFails, Cleanup, RecordPath, GetRow,
                        DeleteRow, RemoveBlob
  <2>2. req'[r].at # "update"
    <3>1. \A step \in {"copy", "record", "cleanup", "removeBlob"} : Go(r, step) => req'[r].at = step
      BY DEF Go, WellFormed, TypeOK, Request
    <3>2. Answer(r) => req'[r].at = "idle"
      BY AnswerFacts, IdleFacts DEF Answer, WellFormed, TypeOK
    <3>3. CASE \E a \in Attachment : InsertRow(r, a)
      BY <3>3, InsertFacts
    <3>4. CASE GetRow(r)
      BY <3>4, GetRowFacts
    <3> QED
      BY <1>7, <3>1, <3>2, <3>3, <3>4
         DEF CreateBlob, CopyBlob, SaveFails, Cleanup, RecordPath, DeleteRow, RemoveBlob, Fail
  <2>3. \A s \in Req \ {r} : req'[s] = req[s]
    <3>1. req \in [Req -> Request]
      BY DEF WellFormed, TypeOK
    <3> QED
      BY <1>7, <3>1 DEF InsertRow, CreateBlob, CopyBlob, SaveFails, Cleanup, RecordPath, GetRow,
                        DeleteRow, RemoveBlob, Fail, Go, Answer
  <2> QED
    BY <2>1, <2>2, <2>3, NewsOfOthers
<1>8. CASE UNCHANGED vars
  BY <1>8, NewsOfOthers DEF vars
<1> QED
  BY <1>1, <1>2, <1>3, <1>4, <1>5, <1>6, <1>7, <1>8 DEF Next, Ticketed, Attached

LEMMA NewsAlways == Spec => [](WellFormed /\ News)
<1>1. Init => WellFormed /\ News
  <2>1. Init => DOMAIN tickets = {} /\ \A r \in Req : req[r].at = "idle"
    <3>1. Init => tickets = [t \in {} |-> {}] /\ \A r \in Req : req[r] = Idle
      BY DEF Init
    <3>2. DOMAIN [t \in {} |-> {}] = {}
      OBVIOUS
    <3> QED
      BY <3>1, <3>2, IdleFacts
  <2> QED
    BY <2>1, InitWellFormed DEF News, AssigneesKnow, RequestersKnow, BeforeKnown
<1>2. WellFormed /\ News /\ [Next]_vars => (WellFormed /\ News)'
  BY StepWellFormed, StepNews
<1> QED
  BY <1>1, <1>2, PTL DEF Spec

\* Nobody has a ticket they never heard of: Update decides whom to tell from a row that
\* others may have overwritten since, and the assignee it writes is told by
\* it, or was already told by whoever wrote the row that was read.
THEOREM AssigneesAlwaysKnow == Spec => []AssigneesKnow
<1>1. WellFormed /\ News => AssigneesKnow
  BY DEF News
<1> QED
  BY <1>1, NewsAlways, PTL

\* The requester of a ticket that ends is told how, each time it ends, unless
\* the update that ended it had read it, before another reopened it, as ended
\* that way already.
THEOREM RequestersAlwaysKnow == Spec => []RequestersKnow
<1>1. WellFormed /\ News => RequestersKnow
  BY DEF News
<1> QED
  BY <1>1, NewsAlways, PTL

-----------------------------------------------------------------------------
(* The bytes of an attachment.  One upload owns them until it ends; only a *)
(* deletion that has read the path, which is written at the end of it,     *)
(* takes them away.                                                        *)

Uploads(r, a) == req[r].at \in Uploading /\ req[r].file = a

Bytes ==
  /\ \A r, s \in Req, a \in Attachment : Uploads(r, a) /\ Uploads(s, a) => r = s
  /\ \A r \in Req, a \in DOMAIN rows : Uploads(r, a) => rows[a].path = "pending"
  /\ \A r \in Req : req[r].at = "record" => disk[req[r].file] = "whole"
  /\ \A r \in Req : req[r].at \in {"deleteRow", "removeBlob"} /\ req[r].path = "saved" =>
       \A s \in Req : ~Uploads(s, req[r].file)
  /\ \A r \in Req : req[r].at = "removeBlob" => req[r].file \notin DOMAIN rows
  /\ \A r \in Req : req[r].at = "cleanup" => req[r].file \in excused
  /\ \A a \in Attachment : a \notin ids => disk[a] = "none"
  /\ AttachmentsOpen

\* Whose row has gone while its bytes are there or may still come.
Orphan(a) ==
  \/ a \in excused
  \/ \E r \in Req : req[r].file = a /\ req[r].at = "removeBlob"
  \/ disk[a] = "none" /\ \A r \in Req : ~Uploads(r, a)

Orphans == \A a \in Attachment \cap ids : a \in DOMAIN rows \/ Orphan(a)

\* The step of a request that names an attachment is not the first of an
\* upload: the attachment has its id.
LEMMA FilesHaveIds ==
  ASSUME WellFormed
  PROVE  \A r \in Req, a \in Attachment : Uploads(r, a) => a \in ids
BY DEF WellFormed, Shape, Uploads

\* Steps at which no bytes are written, no upload and no deletion goes on, and
\* a row that goes takes its reason with it.
LEMMA BytesOfOthers ==
  ASSUME WellFormed, Bytes, Orphans, disk' = disk,
         ids \subseteq ids', ids' \cap Attachment = ids \cap Attachment,
         excused \subseteq excused',
         \A r \in Req : req'[r].at \in Uploading \cup {"deleteRow", "removeBlob"} =>
                          req'[r] = req[r],
         \A r \in Req : req[r].at = "removeBlob" =>
                          req'[r] = req[r] \/ req[r].file \in excused',
         DOMAIN rows' \subseteq DOMAIN rows, \A a \in DOMAIN rows' : rows'[a] = rows[a],
         \A a \in DOMAIN rows : a \in DOMAIN rows' \/ a \in excused'
  PROVE  Bytes' /\ Orphans'
<1>1. \A r \in Req : \A a : (Uploads(r, a))' => Uploads(r, a)
  BY DEF Uploads
<1>2. Bytes'
  <2>1. /\ \A r, s \in Req, a \in Attachment : (Uploads(r, a))' /\ (Uploads(s, a))' => r = s
        /\ \A r \in Req, a \in DOMAIN rows' : (Uploads(r, a))' => rows'[a].path = "pending"
    BY <1>1 DEF Bytes
  <2>2. \A r \in Req : req'[r].at \in {"deleteRow", "removeBlob"} /\ req'[r].path = "saved" =>
          \A s \in Req : ~(Uploads(s, req[r].file))'
    BY <1>1 DEF Bytes
  <2>3. /\ \A r \in Req : req'[r].at = "record" => disk'[req'[r].file] = "whole"
        /\ \A r \in Req : req'[r].at = "removeBlob" => req'[r].file \notin DOMAIN rows'
        /\ \A r \in Req : req'[r].at = "cleanup" => req'[r].file \in excused'
    BY DEF Bytes, Uploading
  <2>4. /\ \A a \in Attachment : a \notin ids' => disk'[a] = "none"
        /\ AttachmentsOpen'
    BY DEF Bytes, AttachmentsOpen
  <2> QED
    BY <2>1, <2>2, <2>3, <2>4 DEF Bytes, Uploads
<1>3. Orphans'
  <2> SUFFICES ASSUME NEW a \in Attachment, a \in ids, a \notin DOMAIN rows'
               PROVE  Orphan(a)'
    BY DEF Orphans
  <2>1. CASE a \in excused'
    BY <2>1 DEF Orphan
  <2>2. CASE a \notin excused'
    <3>1. a \notin DOMAIN rows /\ a \notin excused
      BY <2>2
    <3>2. CASE \E r \in Req : req[r].file = a /\ req[r].at = "removeBlob"
      BY <2>2, <3>2 DEF Orphan
    <3>3. CASE disk[a] = "none" /\ \A r \in Req : ~Uploads(r, a)
      BY <1>1, <3>3 DEF Orphan
    <3> QED
      BY <3>1, <3>2, <3>3 DEF Orphans, Orphan
  <2> QED
    BY <2>1, <2>2
<1> QED
  BY <1>2, <1>3

\* Uploads after the step, of a value before it.
UploadsNext(r, a) == req'[r].at \in Uploading /\ req'[r].file = a

\* The steps of an upload.
LEMMA BytesOfUpload ==
  ASSUME WellFormed, Bytes, Orphans, NEW r \in Req,
         CreateBlob(r) \/ CopyBlob(r) \/ SaveFails(r)
  PROVE  Bytes' /\ Orphans'
<1> DEFINE f == req[r].file
<1>1. /\ disk \in [Attachment -> {"none", "partial", "whole"}] /\ excused \subseteq excused'
      /\ rows' = rows /\ ids' = ids /\ Uploads(r, f) /\ f \in Attachment /\ f \in ids
  BY DEF WellFormed, TypeOK, CreateBlob, CopyBlob, SaveFails, Shape, Uploads, Uploading
<1>2. /\ req'[r].file = f /\ req'[r].at \in {"copy", "record", "cleanup"}
      /\ \A s \in Req \ {r} : req'[s] = req[s]
  BY GoFacts DEF CreateBlob, CopyBlob, SaveFails, Uploading, Step
<1>3. /\ \A a \in Attachment \ {f} : disk'[a] = disk[a]
      /\ req'[r].at = "record" => disk'[f] = "whole"
      /\ req'[r].at = "cleanup" => f \in excused'
      /\ disk' \in [Attachment -> {"none", "partial", "whole"}]
  <2>1. req \in [Req -> Request]
    BY DEF WellFormed, TypeOK
  <2>2. CASE CreateBlob(r)
    BY <1>1, <2>1, <2>2 DEF CreateBlob, Go, Request
  <2>3. CASE CopyBlob(r)
    BY <1>1, <2>1, <2>3 DEF CopyBlob, Go, Request
  <2>4. CASE SaveFails(r)
    BY <1>1, <2>1, <2>4 DEF SaveFails, Go, Request
  <2> QED
    BY <2>2, <2>3, <2>4
<1> HIDE DEF f
<1>4. \A s \in Req : \A a : UploadsNext(s, a) <=> Uploads(s, a)
  BY <1>1, <1>2 DEF Uploads, UploadsNext, Uploading
<1>5. \A s \in Req : req'[s].at \in {"deleteRow", "removeBlob"} =>
                       s # r /\ req'[s] = req[s]
  BY <1>2
<1>6. \A s \in Req \ {r} : ~Uploads(s, f)
  BY <1>1 DEF Bytes
<1>7. Bytes'
  <2>1. /\ \A s, u \in Req, a \in Attachment : UploadsNext(s, a) /\ UploadsNext(u, a) => s = u
        /\ \A s \in Req, a \in DOMAIN rows' : UploadsNext(s, a) => rows'[a].path = "pending"
    BY <1>1, <1>4 DEF Bytes
  <2>2. \A s \in Req : req'[s].at = "record" => disk'[req'[s].file] = "whole"
    <3> SUFFICES ASSUME NEW s \in Req, s # r, req'[s].at = "record"
                 PROVE  disk'[req'[s].file] = "whole"
      BY <1>2, <1>3
    <3>1. req'[s] = req[s]
      BY <1>2
    <3>2. req[s].file \in Attachment \ {f}
      BY <1>6, <3>1 DEF WellFormed, Shape, Uploads, Uploading
    <3> QED
      BY <1>3, <3>1, <3>2 DEF Bytes
  <2>3. \A s \in Req : req'[s].at \in {"deleteRow", "removeBlob"} /\ req'[s].path = "saved" =>
          \A u \in Req : ~UploadsNext(u, req'[s].file)
    BY <1>4, <1>5 DEF Bytes
  <2>4. /\ \A s \in Req : req'[s].at = "removeBlob" => req'[s].file \notin DOMAIN rows'
        /\ \A s \in Req : req'[s].at = "cleanup" => req'[s].file \in excused'
    BY <1>1, <1>2, <1>3, <1>5 DEF Bytes
  <2>5. \A a \in Attachment : a \notin ids' => disk'[a] = "none"
    BY <1>1, <1>3 DEF Bytes
  <2>6. AttachmentsOpen'
    <3>1. f \in DOMAIN rows => rows[f].path # "saved"
      BY <1>1 DEF Bytes
    <3>2. DOMAIN rows \subseteq Attachment
      BY TableFacts DEF WellFormed
    <3> QED
      BY <1>1, <1>3, <3>1, <3>2 DEF Bytes, AttachmentsOpen
  <2> QED
    BY <2>1, <2>2, <2>3, <2>4, <2>5, <2>6 DEF Bytes, Uploads, UploadsNext
<1>8. Orphans'
  <2> SUFFICES ASSUME NEW a \in Attachment, a \in ids, a \notin DOMAIN rows
               PROVE  Orphan(a)'
    BY <1>1 DEF Orphans
  <2>1. CASE a \in excused
    BY <1>1, <2>1 DEF Orphan
  <2>2. ASSUME NEW s \in Req, req[s].file = a, req[s].at = "removeBlob"
        PROVE  Orphan(a)'
    <3>1. s # r
      BY <1>1, <2>2 DEF Uploads, Uploading
    <3>2. req'[s].file = a /\ req'[s].at = "removeBlob"
      BY <1>2, <2>2, <3>1
    <3> QED
      BY <3>2 DEF Orphan
  <2>3. CASE disk[a] = "none" /\ \A s \in Req : ~Uploads(s, a)
    <3>1. disk'[a] = "none"
      BY <1>1, <1>3, <2>3
    <3> QED
      BY <1>4, <2>3, <3>1 DEF Orphan, Uploads, UploadsNext
  <2> QED
    BY <2>1, <2>2, <2>3 DEF Orphans, Orphan
<1> QED
  BY <1>7, <1>8

\* An upload begins with a new id, which no other request can hold.
LEMMA BytesOfInsert ==
  ASSUME WellFormed, Bytes, Orphans, NEW r \in Req, NEW f \in Attachment, InsertRow(r, f)
  PROVE  Bytes' /\ Orphans'
<1>1. /\ \A s \in Req \ {r} : req'[s] = req[s]
      /\ disk' = disk /\ excused' = excused /\ f \notin ids
      /\ req[r].at = "insertRow" /\ DOMAIN rows \subseteq ids
  BY InsertFacts DEF WellFormed
<1>2. CASE req'[r].at = "idle" /\ UNCHANGED <<rows, ids>>
  BY <1>1, <1>2, BytesOfOthers DEF Uploading
<1>3. CASE /\ req'[r].at = "create" /\ req'[r].file = f /\ ids' = ids \cup {f}
           /\ DOMAIN rows' = DOMAIN rows \cup {f} /\ rows'[f].path = "pending"
           /\ \A b \in DOMAIN rows : rows'[b] = rows[b]
  <2>1. \A s \in Req : \A a : UploadsNext(s, a) <=> Uploads(s, a) \/ (s = r /\ a = f)
    BY <1>1, <1>3 DEF Uploads, UploadsNext, Uploading
  <2>2. \A s \in Req : req[s].at \in Uploading \cup Detaching => req[s].file # f
    BY <1>1 DEF WellFormed, Shape
  <2>3. \A s \in Req : ~Uploads(s, f)
    BY <2>2 DEF Uploads
  <2>4. \A s \in Req : req'[s].at \in {"record", "cleanup", "deleteRow", "removeBlob"} =>
                         s # r /\ req'[s] = req[s] /\ req[s].file # f
    BY <1>1, <1>3, <2>2 DEF Uploading, Detaching
  <2>5. Bytes'
    <3>1. /\ \A s, u \in Req, a \in Attachment : UploadsNext(s, a) /\ UploadsNext(u, a) => s = u
          /\ \A s \in Req, a \in DOMAIN rows' : UploadsNext(s, a) => rows'[a].path = "pending"
      BY <1>3, <2>1, <2>3 DEF Bytes
    <3>2. \A s \in Req : req'[s].at \in {"deleteRow", "removeBlob"} /\ req'[s].path = "saved" =>
            \A u \in Req : ~UploadsNext(u, req'[s].file)
      BY <2>1, <2>4 DEF Bytes
    <3>3. /\ \A s \in Req : req'[s].at = "record" => disk'[req'[s].file] = "whole"
          /\ \A s \in Req : req'[s].at = "removeBlob" => req'[s].file \notin DOMAIN rows'
          /\ \A s \in Req : req'[s].at = "cleanup" => req'[s].file \in excused'
      BY <1>1, <1>3, <2>4 DEF Bytes
    <3>4. /\ \A a \in Attachment : a \notin ids' => disk'[a] = "none"
          /\ AttachmentsOpen'
      BY <1>1, <1>3 DEF Bytes, AttachmentsOpen
    <3> QED
      BY <3>1, <3>2, <3>3, <3>4 DEF Bytes, Uploads, UploadsNext
  <2>6. Orphans'
    <3> SUFFICES ASSUME NEW a \in Attachment, a \in ids, a \notin DOMAIN rows, a # f
                 PROVE  Orphan(a)'
      BY <1>3 DEF Orphans
    <3>1. CASE a \in excused
      BY <1>1, <3>1 DEF Orphan
    <3>2. CASE \E s \in Req : req[s].file = a /\ req[s].at = "removeBlob"
      <4>1. PICK s \in Req : req[s].file = a /\ req[s].at = "removeBlob"
        BY <3>2
      <4>2. req'[s].file = a /\ req'[s].at = "removeBlob"
        BY <1>1, <4>1
      <4> QED
        BY <4>2 DEF Orphan
    <3>3. CASE disk[a] = "none" /\ \A s \in Req : ~Uploads(s, a)
      BY <1>1, <2>1, <3>3 DEF Orphan, Uploads, UploadsNext
    <3> QED
      BY <3>1, <3>2, <3>3 DEF Orphans, Orphan
  <2> QED
    BY <2>5, <2>6
<1> QED
  BY <1>2, <1>3, InsertFacts

\* An upload ends by making the row point at the bytes.
LEMMA BytesOfRecord ==
  ASSUME WellFormed, Bytes, Orphans, NEW r \in Req, RecordPath(r)
  PROVE  Bytes' /\ Orphans'
<1> DEFINE f == req[r].file
<1>1. /\ req'[r].at = "idle" /\ \A s \in Req \ {r} : req'[s] = req[s]
      /\ disk' = disk /\ excused' = excused /\ ids' = ids /\ DOMAIN rows' = DOMAIN rows
      /\ \A a \in DOMAIN rows \ {f} : rows'[a] = rows[a]
      /\ req[r].at = "record" /\ Uploads(r, f) /\ f \in Attachment
  BY AnswerFacts, IdleFacts, RecordFacts DEF RecordPath, Uploads, Uploading, WellFormed, Shape
<1> HIDE DEF f
<1>2. \A s \in Req : \A a : UploadsNext(s, a) <=> Uploads(s, a) /\ s # r
  BY <1>1 DEF Uploads, UploadsNext, Uploading
<1>3. \A s \in Req : req'[s].at # "idle" => s # r /\ req'[s] = req[s]
  BY <1>1
<1>4. Bytes'
  <2>1. \A s, u \in Req, a \in Attachment : UploadsNext(s, a) /\ UploadsNext(u, a) => s = u
    BY <1>2 DEF Bytes
  <2>2. \A s \in Req, a \in DOMAIN rows' : UploadsNext(s, a) => rows'[a].path = "pending"
    <3> SUFFICES ASSUME NEW s \in Req, NEW a \in DOMAIN rows, Uploads(s, a), s # r
                 PROVE  rows'[a].path = "pending"
      BY <1>1, <1>2
    <3>1. a # f
      BY <1>1 DEF Bytes
    <3> QED
      BY <1>1, <3>1 DEF Bytes
  <2>3. \A s \in Req : req'[s].at \in {"deleteRow", "removeBlob"} /\ req'[s].path = "saved" =>
          \A u \in Req : ~UploadsNext(u, req'[s].file)
    BY <1>2, <1>3 DEF Bytes
  <2>4. /\ \A s \in Req : req'[s].at = "record" => disk'[req'[s].file] = "whole"
        /\ \A s \in Req : req'[s].at = "removeBlob" => req'[s].file \notin DOMAIN rows'
        /\ \A s \in Req : req'[s].at = "cleanup" => req'[s].file \in excused'
    BY <1>1, <1>3 DEF Bytes
  <2>5. /\ \A a \in Attachment : a \notin ids' => disk'[a] = "none"
        /\ AttachmentsOpen'
    <3>1. disk[f] = "whole"
      BY <1>1 DEF Bytes, f
    <3> QED
      BY <1>1, <3>1 DEF Bytes, AttachmentsOpen
  <2> QED
    BY <2>1, <2>2, <2>3, <2>4, <2>5 DEF Bytes, Uploads, UploadsNext
<1>5. Orphans'
  <2> SUFFICES ASSUME NEW a \in Attachment, a \in ids, a \notin DOMAIN rows
               PROVE  Orphan(a)'
    BY <1>1 DEF Orphans
  <2>1. CASE a \in excused
    BY <1>1, <2>1 DEF Orphan
  <2>2. ASSUME NEW s \in Req, req[s].file = a, req[s].at = "removeBlob"
        PROVE  Orphan(a)'
    BY <1>1, <2>2 DEF Orphan
  <2>3. CASE disk[a] = "none" /\ \A s \in Req : ~Uploads(s, a)
    BY <1>1, <1>2, <2>3 DEF Orphan, Uploads, UploadsNext
  <2> QED
    BY <2>1, <2>2, <2>3 DEF Orphans, Orphan
<1> QED
  BY <1>4, <1>5

\* A deletion reads the path: once it is "saved" the upload is over.
LEMMA BytesOfGetRow ==
  ASSUME WellFormed, Bytes, Orphans, NEW r \in Req, GetRow(r)
  PROVE  Bytes' /\ Orphans'
<1>1. /\ \A s \in Req \ {r} : req'[s] = req[s]
      /\ rows' = rows /\ disk' = disk /\ excused' = excused /\ ids' = ids
      /\ req[r].at = "getRow" /\ req'[r].at \in {"idle", "deleteRow"}
      /\ req'[r].at = "deleteRow" => /\ req'[r].file \in DOMAIN rows
                                     /\ req'[r].path = rows[req'[r].file].path
  BY GetRowFacts
<1>2. \A s \in Req : \A a : UploadsNext(s, a) <=> Uploads(s, a)
  BY <1>1 DEF Uploads, UploadsNext, Uploading
<1>3. \A s \in Req : req'[s].at \in {"record", "cleanup", "removeBlob"} => req'[s] = req[s]
  BY <1>1
<1>4. Bytes'
  <2>1. /\ \A s, u \in Req, a \in Attachment : UploadsNext(s, a) /\ UploadsNext(u, a) => s = u
        /\ \A s \in Req, a \in DOMAIN rows' : UploadsNext(s, a) => rows'[a].path = "pending"
    BY <1>1, <1>2 DEF Bytes
  <2>2. \A s \in Req : req'[s].at \in {"deleteRow", "removeBlob"} /\ req'[s].path = "saved" =>
          \A u \in Req : ~UploadsNext(u, req'[s].file)
    <3> SUFFICES ASSUME NEW s \in Req, req'[s].at \in {"deleteRow", "removeBlob"},
                        req'[s].path = "saved", NEW u \in Req, Uploads(u, req'[s].file)
                 PROVE  FALSE
      BY <1>2
    <3>1. CASE s # r
      BY <1>1, <3>1 DEF Bytes
    <3>2. CASE s = r
      BY <1>1, <3>2 DEF Bytes
    <3> QED
      BY <3>1, <3>2
  <2>3. /\ \A s \in Req : req'[s].at = "record" => disk'[req'[s].file] = "whole"
        /\ \A s \in Req : req'[s].at = "removeBlob" => req'[s].file \notin DOMAIN rows'
        /\ \A s \in Req : req'[s].at = "cleanup" => req'[s].file \in excused'
    BY <1>1, <1>3 DEF Bytes
  <2>4. /\ \A a \in Attachment : a \notin ids' => disk'[a] = "none"
        /\ AttachmentsOpen'
    BY <1>1 DEF Bytes, AttachmentsOpen
  <2> QED
    BY <2>1, <2>2, <2>3, <2>4 DEF Bytes, Uploads, UploadsNext
<1>5. Orphans'
  <2>1. \A s \in Req : req[s].at = "removeBlob" => req'[s] = req[s]
    BY <1>1
  <2>2. \A a \in Attachment : Orphan(a) => Orphan(a)'
    BY <1>1, <1>2, <2>1 DEF Orphan, Uploads, UploadsNext
  <2> QED
    BY <1>1, <2>2 DEF Orphans
<1> QED
  BY <1>4, <1>5

\* Deletes the row, and is about to remove the bytes.
LEMMA BytesOfDeleteRow ==
  ASSUME WellFormed, Bytes, Orphans, NEW r \in Req, DeleteRow(r)
  PROVE  Bytes' /\ Orphans'
<1> DEFINE f == req[r].file
<1>1. /\ \A s \in Req \ {r} : req'[s] = req[s]
      /\ req[r].at = "deleteRow"
      /\ req'[r].at = "removeBlob" /\ req'[r].file = f /\ req'[r].path = req[r].path
      /\ disk' = disk /\ excused' = excused /\ ids' = ids
      /\ DOMAIN rows' = DOMAIN rows \ {f} /\ \A a \in DOMAIN rows' : rows'[a] = rows[a]
  <2>1. /\ req[r].at = "deleteRow" /\ Go(r, "removeBlob")
        /\ disk' = disk /\ excused' = excused /\ ids' = ids /\ rows' = WithoutRows(rows, {f})
    BY DEF DeleteRow
  <2>2. /\ \A s \in Req \ {r} : req'[s] = req[s]
        /\ req'[r].at = "removeBlob" /\ req'[r].file = f /\ req'[r].path = req[r].path
    BY <2>1, GoFacts DEF Detaching, Step
  <2>3. DOMAIN rows' = DOMAIN rows \ {f} /\ \A a \in DOMAIN rows' : rows'[a] = rows[a]
    BY <2>1 DEF WithoutRows
  <2> QED
    BY <2>1, <2>2, <2>3
<1> HIDE DEF f
<1>2. \A s \in Req : \A a : UploadsNext(s, a) <=> Uploads(s, a)
  BY <1>1 DEF Uploads, UploadsNext, Uploading
<1>3. \A s \in Req : req'[s].at \in {"record", "cleanup"} => req'[s] = req[s]
  BY <1>1
<1>4. Bytes'
  <2>1. /\ \A s, u \in Req, a \in Attachment : UploadsNext(s, a) /\ UploadsNext(u, a) => s = u
        /\ \A s \in Req, a \in DOMAIN rows' : UploadsNext(s, a) => rows'[a].path = "pending"
    BY <1>1, <1>2 DEF Bytes
  <2>2. \A s \in Req : req'[s].at \in {"deleteRow", "removeBlob"} /\ req'[s].path = "saved" =>
          \A u \in Req : ~UploadsNext(u, req'[s].file)
    <3>1. \A s \in Req : req'[s].file = req[s].file \/ s # r
      BY <1>1 DEF f
    <3> QED
      BY <1>1, <1>2, <3>1 DEF Bytes
  <2>3. \A s \in Req : req'[s].at = "removeBlob" => req'[s].file \notin DOMAIN rows'
    BY <1>1 DEF Bytes
  <2>4. /\ \A s \in Req : req'[s].at = "record" => disk'[req'[s].file] = "whole"
        /\ \A s \in Req : req'[s].at = "cleanup" => req'[s].file \in excused'
    BY <1>1, <1>3 DEF Bytes
  <2>5. /\ \A a \in Attachment : a \notin ids' => disk'[a] = "none"
        /\ AttachmentsOpen'
    BY <1>1 DEF Bytes, AttachmentsOpen
  <2> QED
    BY <2>1, <2>2, <2>3, <2>4, <2>5 DEF Bytes, Uploads, UploadsNext
<1>5. Orphans'
  <2>1. \A a \in Attachment : a = f => Orphan(a)'
    BY <1>1 DEF Orphan
  <2>2. \A s \in Req : req[s].at = "removeBlob" => req'[s] = req[s]
    BY <1>1
  <2>3. \A a \in Attachment : Orphan(a) => Orphan(a)'
    BY <1>1, <1>2, <2>2 DEF Orphan, Uploads, UploadsNext
  <2> QED
    BY <1>1, <2>1, <2>3 DEF Orphans
<1> QED
  BY <1>4, <1>5

\* Removes the bytes, or leaves them to an upload that it has deprived of its
\* row.
LEMMA BytesOfRemove ==
  ASSUME WellFormed, Bytes, Orphans, NEW r \in Req, RemoveBlob(r)
  PROVE  Bytes' /\ Orphans'
<1> DEFINE f == req[r].file
<1>1. /\ req'[r].at = "idle" /\ \A s \in Req \ {r} : req'[s] = req[s]
      /\ req[r].at = "removeBlob" /\ rows' = rows /\ ids' = ids
      /\ f \in Attachment /\ f \in ids /\ f \notin DOMAIN rows
  BY AnswerFacts, IdleFacts DEF RemoveBlob, WellFormed, Shape, Detaching, Bytes
<1>2. /\ \A a \in Attachment \ {f} : disk'[a] = disk[a]
      /\ excused \subseteq excused'
      /\ \/ /\ f \in excused' /\ disk' = disk
         \/ /\ disk'[f] = "none" /\ \A s \in Req : ~Uploads(s, f)
  <2>1. disk \in [Attachment -> {"none", "partial", "whole"}]
    BY DEF WellFormed, TypeOK
  <2>2. req[r].path \in {"pending", "saved"}
    BY <1>1 DEF WellFormed, Shape
  <2>3. CASE req[r].path = "pending"
    BY <2>1, <2>3 DEF RemoveBlob
  <2>4. CASE req[r].path = "saved"
    BY <1>1, <2>1, <2>4 DEF RemoveBlob, Bytes
  <2> QED
    BY <2>2, <2>3, <2>4
<1> HIDE DEF f
<1>3. \A s \in Req : \A a : UploadsNext(s, a) <=> Uploads(s, a)
  BY <1>1 DEF Uploads, UploadsNext, Uploading
<1>4. \A s \in Req : req'[s].at # "idle" => req'[s] = req[s]
  BY <1>1
<1>5. Bytes'
  <2>1. /\ \A s, u \in Req, a \in Attachment : UploadsNext(s, a) /\ UploadsNext(u, a) => s = u
        /\ \A s \in Req, a \in DOMAIN rows' : UploadsNext(s, a) => rows'[a].path = "pending"
    BY <1>1, <1>3 DEF Bytes
  <2>2. \A s \in Req : req'[s].at = "record" => disk'[req'[s].file] = "whole"
    <3> SUFFICES ASSUME NEW s \in Req, req'[s] = req[s], req[s].at = "record"
                 PROVE  disk'[req[s].file] = "whole"
      BY <1>4
    <3>1. Uploads(s, req[s].file) /\ req[s].file \in Attachment /\ disk[req[s].file] = "whole"
      BY DEF Uploads, Uploading, WellFormed, Shape, Bytes
    <3> QED
      BY <1>2, <3>1
  <2>3. \A s \in Req : req'[s].at \in {"deleteRow", "removeBlob"} /\ req'[s].path = "saved" =>
          \A u \in Req : ~UploadsNext(u, req'[s].file)
    BY <1>3, <1>4 DEF Bytes
  <2>4. /\ \A s \in Req : req'[s].at = "removeBlob" => req'[s].file \notin DOMAIN rows'
        /\ \A s \in Req : req'[s].at = "cleanup" => req'[s].file \in excused'
    BY <1>1, <1>2, <1>4 DEF Bytes
  <2>5. \A a \in Attachment : a \notin ids' => disk'[a] = "none"
    BY <1>1, <1>2 DEF Bytes
  <2>6. AttachmentsOpen'
    <3>1. DOMAIN rows \subseteq Attachment
      BY TableFacts DEF WellFormed
    <3> QED
      BY <1>1, <1>2, <3>1 DEF Bytes, AttachmentsOpen
  <2> QED
    BY <2>1, <2>2, <2>3, <2>4, <2>5, <2>6 DEF Bytes, Uploads, UploadsNext
<1>6. Orphans'
  <2> SUFFICES ASSUME NEW a \in Attachment, a \in ids, a \notin DOMAIN rows
               PROVE  Orphan(a)'
    BY <1>1 DEF Orphans
  <2>1. CASE a = f
    BY <1>2, <1>3, <2>1 DEF Orphan, Uploads, UploadsNext
  <2>2. CASE a # f
    <3>1. \A s \in Req : req[s].file = a => s # r /\ req'[s] = req[s]
      BY <1>1, <2>2 DEF f
    <3>2. CASE \E s \in Req : req[s].file = a /\ req[s].at = "removeBlob"
      BY <3>1, <3>2 DEF Orphan
    <3>3. CASE a \in excused
      BY <1>2, <3>3 DEF Orphan
    <3>4. CASE disk[a] = "none" /\ \A s \in Req : ~Uploads(s, a)
      BY <1>2, <1>3, <2>2, <3>4 DEF Orphan, Uploads, UploadsNext
    <3> QED
      BY <3>2, <3>3, <3>4 DEF Orphans, Orphan
  <2> QED
    BY <2>1, <2>2
<1> QED
  BY <1>5, <1>6

LEMMA StepBytes ==
  ASSUME WellFormed, Bytes, Orphans, [Next]_vars
  PROVE  Bytes' /\ Orphans'
<1>0. /\ req \in [Req -> Request] /\ DOMAIN rows \subseteq Attachment
      /\ \A r \in Req : req[r].at \in Uploading \cup Detaching => req[r].file \in Attachment
  BY TableFacts DEF WellFormed, TypeOK, Shape
<1>1. ASSUME NEW u \in User, NEW t \in Ticket, CreateTicket(u, t)
      PROVE  Bytes' /\ Orphans'
  <2>1. ids \cap Attachment = (ids \cup {t}) \cap Attachment
    BY TicketingConstants
  <2> QED
    BY <1>1, <2>1, BytesOfOthers DEF CreateTicket
<1>2. ASSUME NEW t \in Ticket, DeleteTicket(t)
      PROVE  Bytes' /\ Orphans'
  <2> DEFINE attached == { a \in DOMAIN rows : rows[a].ticket = t }
  <2>1. /\ rows' = WithoutRows(rows, attached) /\ excused' = excused \cup attached
        /\ UNCHANGED <<disk, ids, req>>
    BY <1>2 DEF DeleteTicket
  <2> HIDE DEF attached
  <2>2. /\ DOMAIN rows' = DOMAIN rows \ attached /\ \A a \in DOMAIN rows' : rows'[a] = rows[a]
    BY <2>1, RowsAfter DEF WellFormed
  <2> QED
    BY <2>1, <2>2, BytesOfOthers
<1>3. ASSUME NEW r \in Req,
             \/ \E u \in User, t \in Ticket, a \in User \cup {None}, s \in Status :
                  StartUpdate(r, u, t, a, s)
             \/ \E t \in Ticket : StartUpload(r, t)
             \/ \E a \in Attachment : StartDetach(r, a)
      PROVE  Bytes' /\ Orphans'
  <2>1. PICK q \in Request : /\ req' = [req EXCEPT ![r] = q] /\ q.at \in {"get", "getRow"}
                             /\ req[r].at = "idle"
                             /\ UNCHANGED <<rows, disk, ids, excused>>
    BY <1>3, StartKept
  <2>2. /\ \A s \in Req : req'[s].at \in Uploading \cup {"deleteRow", "removeBlob"} =>
                            req'[s] = req[s]
        /\ \A s \in Req : req[s].at = "removeBlob" => req'[s] = req[s]
    BY <1>0, <2>1 DEF Uploading
  <2> QED
    BY <2>1, <2>2, BytesOfOthers
<1>4. ASSUME NEW r \in Req, Get(r) \/ Update(r) \/ Notify(r)
      PROVE  Bytes' /\ Orphans'
  <2>1. /\ \A s \in Req \ {r} : req'[s] = req[s]
        /\ req'[r].at \in {"idle", "update", "insertRow", "notify"}
        /\ req[r].at \in {"get", "update", "notify"}
        /\ UNCHANGED <<rows, disk, ids, excused>>
    BY <1>4, GetFacts, UpdateFacts, NotifyFacts DEF Update
  <2>2. /\ \A s \in Req : req'[s].at \in Uploading \cup {"deleteRow", "removeBlob"} =>
                            req'[s] = req[s]
        /\ \A s \in Req : req[s].at = "removeBlob" => req'[s] = req[s]
    BY <2>1 DEF Uploading
  <2> QED
    BY <2>1, <2>2, BytesOfOthers
<1>5. ASSUME NEW r \in Req, Cleanup(r)
      PROVE  Bytes' /\ Orphans'
  <2>1. /\ \A s \in Req \ {r} : req'[s] = req[s]
        /\ req'[r].at = "idle" /\ req[r].at = "cleanup"
        /\ UNCHANGED <<disk, ids, excused>>
        /\ req[r].file \in excused
        /\ DOMAIN rows' = DOMAIN rows \ {req[r].file}
        /\ \A a \in DOMAIN rows' : rows'[a] = rows[a]
    <3>1. /\ req[r].at = "cleanup" /\ UNCHANGED <<disk, ids, excused>> /\ Answer(r)
          /\ rows' = WithoutRows(rows, {req[r].file})
      BY <1>5 DEF Cleanup
    <3>2. req'[r].at = "idle" /\ \A s \in Req \ {r} : req'[s] = req[s]
      BY <3>1, AnswerFacts, IdleFacts
    <3>3. /\ DOMAIN rows' = DOMAIN rows \ {req[r].file}
          /\ \A a \in DOMAIN rows' : rows'[a] = rows[a]
      BY <3>1 DEF WithoutRows
    <3> QED
      BY <3>1, <3>2, <3>3 DEF Bytes
  <2>2. /\ \A s \in Req : req'[s].at \in Uploading \cup {"deleteRow", "removeBlob"} =>
                            req'[s] = req[s]
        /\ \A s \in Req : req[s].at = "removeBlob" => req'[s] = req[s]
    BY <2>1 DEF Uploading
  <2> QED
    BY <2>1, <2>2, BytesOfOthers
<1>6. ASSUME NEW r \in Req, Fail(r)
      PROVE  Bytes' /\ Orphans'
  <2>1. /\ \A s \in Req \ {r} : req'[s] = req[s]
        /\ req'[r].at = "idle" /\ UNCHANGED <<rows, disk, ids>>
        /\ excused' = excused \cup ({req[r].file} \ {None})
    BY <1>6, AnswerFacts, IdleFacts DEF Fail
  <2>2. /\ \A s \in Req : req'[s].at \in Uploading \cup {"deleteRow", "removeBlob"} =>
                            req'[s] = req[s]
    BY <2>1 DEF Uploading
  <2>3. \A s \in Req : req[s].at = "removeBlob" => req'[s] = req[s] \/ req[s].file \in excused'
    BY <1>0, <2>1, TicketingConstants DEF Detaching
  <2> QED
    BY <2>1, <2>2, <2>3, BytesOfOthers
<1>7. ASSUME NEW r \in Req,
             \/ \E a \in Attachment : InsertRow(r, a)
             \/ CreateBlob(r) \/ CopyBlob(r) \/ SaveFails(r) \/ RecordPath(r)
             \/ GetRow(r) \/ DeleteRow(r) \/ RemoveBlob(r)
      PROVE  Bytes' /\ Orphans'
  BY <1>7, BytesOfInsert, BytesOfUpload, BytesOfRecord, BytesOfGetRow, BytesOfDeleteRow,
     BytesOfRemove
<1>8. CASE UNCHANGED vars
  BY <1>8, BytesOfOthers DEF vars
<1> QED
  BY <1>1, <1>2, <1>3, <1>4, <1>5, <1>6, <1>7, <1>8 DEF Next, Ticketed, Attached

LEMMA BytesAlways == Spec => [](WellFormed /\ Bytes /\ Orphans)
<1>1. Init => WellFormed /\ Bytes /\ Orphans
  <2> SUFFICES ASSUME Init PROVE WellFormed /\ Bytes /\ Orphans
    OBVIOUS
  <2>1. /\ DOMAIN rows = {} /\ ids = {} /\ \A a \in Attachment : disk[a] = "none"
        /\ \A r \in Req : req[r].at = "idle"
    <3>1. rows = [a \in {} |-> {}] /\ \A r \in Req : req[r] = Idle
      BY DEF Init
    <3>2. DOMAIN [a \in {} |-> {}] = {}
      OBVIOUS
    <3> QED
      BY <3>1, <3>2, IdleFacts DEF Init
  <2> QED
    BY <2>1, InitWellFormed DEF Bytes, Orphans, Uploads, Uploading, AttachmentsOpen
<1>2. WellFormed /\ Bytes /\ Orphans /\ [Next]_vars => (WellFormed /\ Bytes /\ Orphans)'
  BY StepWellFormed, StepBytes
<1> QED
  BY <1>1, <1>2, PTL DEF Spec

\* An attachment with a path has all its bytes, however uploads and deletions
\* of it overlap: the path is written after the bytes, and removed before them.
THEOREM AttachmentsAlwaysOpen == Spec => []AttachmentsOpen
<1>1. WellFormed /\ Bytes /\ Orphans => AttachmentsOpen
  BY DEF Bytes
<1> QED
  BY <1>1, BytesAlways, PTL

\* Bytes that no row leads to are those the code knowingly leaves: an error's,
\* a deleted ticket's, or those of an upload that outlived its row.
THEOREM BytesAlwaysHaveReason == Spec => []BytesHaveReason
<1>1. WellFormed /\ Bytes /\ Orphans => BytesHaveReason
  <2> SUFFICES ASSUME Bytes, Orphans, NEW a \in Attachment, disk[a] # "none", a \notin DOMAIN rows
               PROVE  \/ a \in excused
                      \/ \E r \in Req : req[r].file = a /\ req[r].at = "removeBlob"
    BY DEF BytesHaveReason
  <2>1. a \in ids
    BY DEF Bytes
  <2> QED
    BY <2>1 DEF Orphans, Orphan
<1> QED
  BY <1>1, BytesAlways, PTL
=============================================================================
