# BUNG: specifications, model checking and proofs

TLA+ specifications of BUNG, the modular web platform of this repository. The
backends under `src/modules/*/backend` are modelled statement by statement, the
React pages handler by handler with the requests they have under way; TLC
checks both on small instances, and TLAPS proves the most important properties
for every instance.

    tlc -workers 2 -config MCKanbanStore.cfg MCKanbanStore   # one run
    tlapm KanbanStoreProofs.tla                              # one proof module

`PROJECT.json` lists the runs, the mutants, the source lines behind each
definition, the hazards, the findings and the theorems.

## The system

Every business module is a React frontend and a Go backend behind one nginx
gateway. The gateway asks app-maintenance's `GET /auth/verify` about every
request; behind it the backends trust `X-User-Id`. All backends share one
PostgreSQL instance, a schema each, and read each other's schemas directly
(users, inbox, audit log). Almost nothing is a transaction around a request: a
store method is a few statements, each committed on its own at READ COMMITTED,
and each HTTP request runs in its own goroutine. So **every value a request has
read may be out of date at its next statement**; that is the first source of
hard behaviour. The second are the in-memory parts (two WebSocket hubs, the
login limiter) and the database and the blob directory changing separately. The
third is in the browser: a page holds a copy of what the backend stores, its
handlers run to completion but its requests do not wait for each other, so
**answers come in any order, to a page that has moved on**.

| component | state | operations | interacts with | hard behaviour | what makes it correct |
|---|---|---|---|---|---|
| kanban store | boards, members, columns, cards | create, update, delete, move, share | directory of users (read), hub (broadcast after a write) | membership, board and owner are read before the write; cascades | no card leaves its board; only members write; one owner; no dangling row |
| kanban hub and board page | board -> connections; the page's copy of a board | register, broadcast, refetch, drop, edit | kanban store | lost events, answers out of order, drops computed from a stale copy | the page catches up with the store; drops stay; saves are for the card they were made on |
| chat store | friend requests, conversations, messages | ask, accept, decline, open, send, mark read | directory of users | crossing requests, accept against decline, both open at once | friendship is mutual; one conversation per pair; only friends talk |
| chat hub | user -> connections | register, unregister, send, isOnline | inbox (notification when offline) | connections come and go between the steps of a send; several goroutines write to one; dead ones linger | connected tabs hear; absent users are notified |
| chat page | open thread, friends, conversations, broadcasts | open, send, receive, ask, answer | chat store, hub | a list fetched before a push overwrites it; a push before the answer | no message twice or in another thread; nothing the backend lists is missing |
| login limiter | key -> failure record, in memory | blocked, recordFailure, recordSuccess | login, forgotPassword | attempts in flight when a lockout begins; the clock; restarts | lockouts are earned, and end; guesses are bounded |
| sessions | the signed token in the cookie | login, me, verify, changePassword, logout | accounts, gateway | claims are baked in until expiry; the policy cannot always be read | a token says nothing that had ended before its request |
| portal | which screen is shown; favorites | log in, change, ask for a link, reset, log out | sessions | an answer after the user has gone on | the screen matches the cookie |
| accounts | users, roles, modules, user_roles, settings | create, toggle, delete | sessions, search | two administrators; pages that write back copies | tables are current; a password is set for the user it was typed for |
| first start | schema, seed rows | migrate, seed | accounts, kanban | a crash between statements | the administrator can use every module |
| my-storage | folders, files and blobs | browse, upload, download, delete | blob directory | row and blob change separately | no lost file, no orphan |
| ticketing | tickets, comments, attachments | create, update, comment, attach | inbox, blob directory | notifications decided on a stale read; uploads against deletions | nobody has a ticket they never heard of; the end of one is announced; listed attachments open |
| calendar | events, attendees | create, change, invite, remove | inbox | dialogs opened by links; dates in zones | texts go to their event; what is entered is kept |
| inbox and bell | inbox rows; unread count | list, mark read, poll | all that notify | counting on its own, paging by offset while rows arrive | the count is right again after a poll; paging leaves nothing out |
| search | none | search | accounts, all schemas | slow answers, aborts | results are of the query shown |
| logs, audit log | none of their own; append-only rows | stream, list | docker, all modules | switching what is followed; paging | lines and entries are of what is selected |
| look and language | localStorage of the browser | choose | every frontend | tabs that write whole values | choices outlive the page |

`PROJECT.json` "components" lists the same parts with the files of each, and
says of every part whether it is modelled; "hazards" lists the places where
this code is hard to test, each with the properties that cover it or a note that
says why none does.

## Modules

Backends, one action per SQL statement, file operation or write to a socket:

| module | what it is |
|---|---|
| `Tables` | SQL tables as functions from primary keys to rows |
| `KanbanStore` | `modules/kanban/backend/store.go` and the handlers that call it |
| `ChatFriends` | friend requests, conversations, who writes (`modules/chat/backend/store.go`) |
| `ChatDelivery` | the chat's WebSocket hub and `notifyNewMessage` |
| `LoginLimiter` | `ratelimit.go`, used by login and forgotPassword |
| `Sessions` | `auth.go`: login, changePassword, logout, verify |
| `FileStorage` | my-storage: folders, files and their bytes (`store.go`, `handlers.go`, `storage.go`) |
| `Ticketing` | ticketing: tickets, whom `update` notifies, attachments (`store.go`, `handlers.go`, `storage.go`) |

Pages, one action per handler, effect or timer, with the backend methods they
call as one step each:

| module | what it is |
|---|---|
| `Calls` | what all pages have in common: `request()` around fetch, answers in any order, failures before or after the effect, unmounting |
| `UsersPage`, `RolesPage`, `ModulesPage`, `SettingsPage`, `AuditLogPage`, `LogsPage` | app-maintenance |
| `PortalPage`, `Preferences` | the portal's screens; favorites, theme and language in localStorage |
| `InboxPage`, `Bell`, `Palette` | notifications, and what is in every header |
| `TicketPages`, `StoragePage`, `EventPages`, `EventTimes` | ticketing, my-storage, calendar; the start and end of an event |
| `ThreadPage`, `FriendsPage`, `ConversationsPage`, `BroadcastsPage` | chat |
| `BoardPage`, `DropPage`, `CardDialog`, `MembersPage`, `BoardsPage` | kanban |
| `LiveCopy` | abstract: what a live copy of changing data promises; `BoardPage` implements it |
| `Live` | `BoardPage` (as `Kanban`) and `Bell`, which follow the backend by themselves, with fairness, and the refinement to `LiveCopy` |
| `Forms` | the pages with a form, a dialog, a search box or a stored choice, composed, `tab` being the one a behaviour is about; it extends `Live`, whose `Init`, `Next` and `Spec` are of the board and the bell, with `FormsInit`, `FormsNext` and `FormsSpec` |
| `Pages` | the pages that list, page through, chat and drop beside those of `Forms`, which it extends with `PagesInit`, `PagesNext` and `PagesSpec` |

`MCKanbanStore` adds a symmetry set and a state constraint for TLC. `MCAccounts`
puts `LoginLimiter`, `Sessions` and `ChatFriends` into one run: they share no state,
and `part` says which of them a behaviour is about. That is why the names of
`ChatFriends` differ from those of the others (`FriendsInit`, `FriendsNext`, `Person`,
`Handler`, `Nil`). The other configurations name the module itself.
`KanbanStoreProofs`, `ChatFriendsProofs`, `ChatDeliveryProofs`,
`LoginProofs` (of `LoginLimiter` and `Sessions`), `FileStorageProofs`,
`TicketingProofs` and `FormsProofs` (of `Live` and `Forms`) hold the theorems.

Operators whose comment starts with "Faulty:" are not part of any
specification: each is a version of the definition below it with a mistake that
could have been made in the code, kept to show that a property notices.

### How the state corresponds to the code

- A **table** is a function from primary keys to rows (`Tables`). PostgreSQL is
  outside the repository; INSERT, UPDATE and DELETE are modelled by what the
  statements of the stores rely on: atomic single statements, unique keys,
  foreign keys with `ON DELETE CASCADE`.
- A **request** is a record in `req` with the statement it is about to execute
  (`at`) and the values it has read so far. A finished request, answered 2xx,
  403, 404 or 500, returns its slot. `Fail` ends a request before any
  statement: a database error, or the backend going down. What it committed
  stays.
- **Contents** that no decision depends on are abstracted: in `KanbanStore` a
  row keeps only its references and the user who last wrote it (`by`).
- **History variables** (`seen`, `asked`, `befriended`, `failedAt`, `locked`,
  `companion`, `absent`, `stored`, `condemned`, `excused`, `lost`, `known`, `told`,
  `missed`, the `met` of messages, and in the pages `lag`, `typed` and `pushed`)
  record what was true earlier. No guard reads them, but for the bound on what
  administrators take away in `Sessions`, which counts `lost`.

#### KanbanStore

`Start*` are the handlers' arrival of a request with any id ever handed out,
deleted ones included. `ResolveColumn`/`ResolveCard` are `boardIDForColumn` and
`boardIDForCard`, `RequireMember`/`RequireOwner` the permission reads,
`RequireSameBoard` MoveCard's comparison, `LookupUser` the directory query of
AddMember. The eleven writes are the methods' last statements; each has the
row-gone case (0 rows affected, or a foreign key error). `CreateBoardWithColumns`
is one action because it is one transaction.

#### ChatFriends

`FindReverse` is the SELECT of SendFriendRequest, after which it goes on as an
AcceptFriendRequest (`RequirePending`, `UpdateAccepted`) or to the upsert
(`InsertRequest`). `DeclineFriendRequest` is one UPDATE with its conditions in
the WHERE clause. A row is named by its unique key (from, to); rows are never
deleted. Sending a message is one step: it checks participation, which never
changes.

#### ChatDelivery

`Upgrade`, `Register`, `Leave`, `Unregister` are the life of a connection in
serveWS: the handshake, the map, the client's departure, the end of the read
loop. `Store` and the actions after it are one send request: copy the
recipient's connections, write to each, the same for the sender, ask isOnline,
insert a notification. A write is `BeginWrite`, then `EndWrite` or `WritePanics`; the
ping goroutine of each connection writes too (`BeginPing`, `EndPing`, `PingPanics`).
The code has no lock per connection, so a writer may enter while another is
there. gorilla/websocket forbids that and gives two outcomes: the two share a
buffer and one goes out in place of the other, or the write panics. A panic of a
handler is recovered by net/http and drops the request; one of the ping
goroutine ends the process, which is `RestartHub`: all connections and requests
end. `busy` says who is inside a connection's WriteMessage, `met` who met another
there. A write that fails for good is `Leave` followed by the write:
gorilla/websocket refuses every later write, and with no more pings answered the
read deadline ends the connection.

#### LoginLimiter

Time is counted in whole units; `ZeroTime` is Go's zero time. `Admit` is
blocked() answering no, then the request is in flight (`checking`) until it is
recorded as a failure, a success, or abandoned with a 500.

#### FileStorage

`folders` and `files` are the tables, `disk` what lies under the path of each
file: nothing, part of a file, the whole of it. A path is `<owner>/<file id>`,
so the file's id names it. `uploadFile` is `StartUpload`, `CheckParent`,
`InsertFile` (storage_path 'pending'), `CreateBlob`, `CopyBlob`, `RecordPath`;
`SaveFails` is an error of Save and `Cleanup` the removals the handler then
makes. `deleteFile` reads the row, deletes it, removes the blob; `deleteFolder`
lists the files under the folder, removes their blobs one by one, then deletes
the row, whose cascade takes everything below. `RemoveFails` is a removal that
is logged and ignored; `Fail` ends a request anywhere. Browsing and downloading
only read.

#### Sessions

`account` and `grants` are the users and, per user, what `UserModules` would
answer; `cookie` is what each browser holds. `ReadUser`, `SetPassword`,
`ReadModules` and `Sign` are the steps of login and of changePassword, `Receive`
is the Set-Cookie arriving. `Admits` is verify's decision, a state
function since it changes nothing; me, which reads the account again, is in
`PortalPage`. The administrator's actions may fall between any two steps; one
set stands for all roles and modules behind a user's grants. `policy` is
password_expiry_days, which the Settings tab changes at any moment (`SetPolicy`).
login reads it while it signs (`passwordExpiryDays`), and takes 60 days if it
cannot (`Fallback`): `Limits` are the two outcomes. changePassword looks neither at
the policy nor at is_active: a session of an account that was disabled since
can be renewed. `lost` remembers when a user last lost a module, a password or
the use of the account; a token's `since`, `by`, `given` and `limit` remember the
request that signed it.

#### Ticketing

`tickets` and `rows` are the tables tickets and ticket_attachments, `disk` the
bytes under an attachment's path (`<id>`, so the id names it). `update` is
`StartUpdate`, `Get`, `Update`, then one `Notify` for each notice;
`AssignmentNews` and `StatusNews` are its two conditions, which compare the form
with the row that `Get` read, not with the one the UPDATE replaced. An upload is
`StartUpload`, `Get`, `InsertRow`, `CreateBlob`, `CopyBlob`, `RecordPath`, or
`SaveFails` and `Cleanup`; a deletion `StartDetach`, `GetRow`, `DeleteRow`,
`RemoveBlob`. `DeleteTicket` takes the attachments' rows by cascade; nothing
removes their bytes. `Fail` is an error or a crash anywhere. `known` remembers
who was told that a ticket is theirs (or took it, or lost the notice to an
error); `told` which tickets' requesters were told how they ended, and starts anew
with every change of the status; `missed` which tickets were ended by an update
that had read them as ended that way before. `NewsOf` is what an UPDATE does to
the two, `Learn` what a notice does. `excused` says which bytes an error or a
deletion explains. Comments, resolved_at and
the ticket's texts are left out here; nothing reads them to decide.

#### The pages

Every page module has the variables of `Calls`: `rows`, what the backend holds
of what the page is about; `page`, the state of its components (`useState`,
`useRef`), one field each; `net`, the requests under way; `lag`, a history flag
that says the page has a reason to show something else than `rows`. A request
is sent by a handler, executed by the backend in one step (`Serve*`), and its
answer handled by the continuation of the handler, each at any later moment; it
may fail before it takes effect, or have its answer lost after. Answers
overtake each other freely. When a component leaves the page, the answers to
what it asked are marked `gone`: React drops what their handlers set, but not
what they ask next. Other users' writes to the same rows may fall anywhere. What
a handler closed over when it was created is in the request it sends.

`lag` is set by what the page cannot know of: somebody else's write after the
page's last read, an error, a lost answer or push, and an older answer that
comes after a newer one; and, where a module says so, by what the user does
meanwhile (opening another conversation, loading the page again). The
properties say "without such a reason, the page is right", and each module's
comment names its reasons; that the reasons are few is what the mutants show.

- `BoardPage`: the board is a version and the name of one column; the hub has
  the page's connection or not. `Broadcast` pushes, `Event` receives and fetches,
  `Load` is the answer. The kanban hub writes without a lock per connection as the
  chat's does, so an event may be lost while the page is connected; the same goes
  for the pushes to the chat's pages. The socket reconnects (`Reconnect`) without fetching.
- `DropPage`: a drop sends the place of every card of the destination column at
  once and fetches when all have answered.
- `CardDialog`: every field saves at once with what the dialog holds of the
  others; choosing a column saves before the state has changed.
- `PortalPage`: five screens, the cookie, and the account behind it; a reset
  link lives until it is used. The answers that set or clear the cookie come in
  two steps: `Headers`, with which the browser has the cookie, and the body, which
  the page reads (`await res.json()`) before it changes the screen. Two answers may
  be between the two, and be handled in the other order. The cookie may end at
  any moment, by its MaxAge or in another tab (`Elsewhere`).
- `TicketPages`, `EventPages`: a created row is put into the list without looking
  whether a fetch has brought it already; `twice` has the rows shown two times.
- `ThreadPage`, `BroadcastsPage`: the backend lists the last `Limit` (50 in the
  code). A broadcast that is pushed is put in front even if the list has it.
- `Preferences`: tabs that share one localStorage, read at mount and written
  whole by effects.
- `EventTimes`: instants, local times without a zone, and dates, with
  JavaScript's reading of each; offsets and days are bounded.
- `Forms` and `Pages` compose them by a disjunction over `tab`: the pages do not talk to
  each other but through backends, whose changes by others each page models.

## Runs

| run | states | shows | result |
|---|---|---|---|
| `kanban` | 719,517 | no dangling rows, reads stay true, one owner, cards stay on their board, only members write, only the owner manages | holds |
| `accounts` | 4,032,897 | login limiter: lockouts are earned, end, and let few attempts through. Sessions: a token needs a password good at the time, and at login an enabled account; none carries a module revoked before its request; a password older than the policy that login went by opens App Maintenance only. Chat: friendships are mutual, conversations unique and among friends | holds |
| `chat_reopened` | | asking an accepted friend again ends the friendship | violated: `chat/backend/store.go:103` |
| `chat_delivery` | 176,073 | the map is exact, connected tabs hear unless another write met theirs, absent users are notified; dead connections leave the map and sends are answered, under the fairness below | holds |
| `chat_live` | | writes that overlap on a connection lose a message to somebody who is online | violated: `chat/backend/hub.go:85` |
| `file_storage` | 1,121,272 | trees have one owner, recorded paths lead to whole files, deletions leave no bytes behind | holds |
| `file_storage_race` | | a file uploaded while its folder is deleted leaves its bytes | violated: `my-storage/backend/handlers.go:119` |
| `ticketing` | 3,223,505 | nobody has a ticket assigned unawares, nor their ticket ended, but for an update that had read it as ended before; listed attachments are whole; bytes without a row have a reason | holds |
| `ticket_unannounced` | | a ticket reopened during such an update is resolved again without a word | violated: `ticketing/backend/handlers.go:156` |
| `live` | 131,004 | the board page is a live copy of the board, unless it missed an event, a fetch failed or an older answer came last; no fetch overwrites what is typed in a column's input; the bell's count is right for good once nothing arrives | holds |
| `pages` | 2,598,956 | when nothing is under way, and but for the reasons each module names, lists are current; paging leaves no gaps; forms save for what they were opened on; results are of the query once no search is waited for; the portal's screen matches the cookie once answers are read; favorites and looks are kept; threads are whole back to where they begin; drops land | holds |
| `event_times` | | the end of an event loses its time when "all day" is ticked and unticked | violated: `EventModal.jsx:86` |

Every property of a passing run is broken by one of the faulty operators. Each
of the five violated runs quotes, in "findings", the line of the repository
that says otherwise.

### Bounds, and why they are enough

- `kanban`: 3 users (an owner, a member, somebody else), 2 boards, 3 columns, 1
  card, 2 requests. Ids are never reused, so the pools also bound how often
  something is created. A card can only leave its board through two boards and
  a move between reads; three columns give a source and a destination on one
  board and a column on the other. The constraint `Small` leaves out the states
  in which several users *and* several boards or columns have appeared: where
  cards are does not depend on who is a member, and who writes does not depend
  on a second board. The theorems cover the whole.
- `accounts`, the limiter: 2 attempts in flight, 3 failures for a lockout, a
  window of 1, a lockout of 2 and a clock up to 4, so that a window and a lockout
  pass within a run, and an attempt admitted before a lockout ends after it. Keys
  do not interact; one is a login's, one a request for a reset link.
- `accounts`, sessions: 1 account, 2 passwords, 1 module, 1 request at a time over
  three moments, a policy of 1 or 2 and 2 in place of 60: enough for a password to
  pass its age, for the policy to change under a login or not be readable, and
  for a token to be replaced while it is valid. Requests only meet in the
  account, which the administrator's actions change at any moment in any way
  another request can. `MaxLost` bounds what administrators take away.
- `accounts`, chat: 2 users and 3 requests, two that cross and a third that
  answers one of them meanwhile. Pairs of users do not interact: every action
  reads and writes rows of one pair.
- `chat_delivery`: 2 users, and of connections and messages three together
  (`MaxLoad`): two connections and one message, two tabs of the recipient or a tab
  that returns; or one connection and two messages, whose writes overlap on it.
  A connection's pings overlap with either. No symmetry, since liveness is checked
  as well.
- `file_storage`: 2 users, 2 folders (side by side or nested), 1 file, 3
  requests: an upload, a deletion of the file and one of a folder above it, or
  any other three. Files only meet through the folder they lie in; the proofs
  cover the rest.
- `ticketing`: 2 users (a requester and an assignee, either of whom acts), 1
  ticket, 1 attachment, 2 requests, one ending status: two updates between each
  other's statements, or an upload and a deletion; one update may take the slot
  again, so a ticket is reopened under another. Tickets do not interact; resolved
  and closed are treated alike.
- `live`: 2 requests under way (`MaxCalls`), so that answers overtake each
  other; 1 change by others, 1 thing the user does besides typing, 2 names; 2
  notifications, a panel of 1, 2 clicks on the bell.
- `pages`: 2 requests under way, 3 for the palette (a slow search,
  the one that aborts it, the next), 1 where a page has several things instead.
  `MaxCalls`, `MaxEntries`, `MaxNotes`, `MaxShown`, `MaxLines`, `MaxComments`, `MaxMsgs`, `MaxNews`
  and `MaxDrops` bound what would grow without end. `Limit` is 1 where the code has
  50, and two messages or broadcasts are more than it lists. A page with two dimensions is
  instantiated twice, once small in each (`users` and `user1`: two accounts, or
  two requests; `tickets`: one ticket with comments and a file, `ticket2`: two
  tickets with neither (and the dialog of a new one only while there is an id
  left for it); `events`: one event with people to invite, `event2`: two events;
  `drop1`: one drop between columns, `drop2`: two drops in one). The mutants of each
  property are found within these bounds.
- `event_times`: days of 4 hours, 1 day to either side, offsets of at most an
  hour: what matters is that a day has several hours and an offset may be
  negative, zero or positive.
- Symmetry is declared on model values no action or property distinguishes, and
  only where no liveness property is checked. Deadlock is checked but in `live`
  and `pages`, where a page is at rest when the bounds are used up.

### Fairness

- `ChatDelivery`: goroutines are scheduled: a request proceeds (a write has a 5 s
  deadline, `hub.go`), a connection that was upgraded registers, and one whose
  client is gone is unregistered (a 60 s read deadline that only a pong
  extends). Clients need not do anything. Drops and restarts are possible but
  never required.
- `Live`: the backend serves the requests that reached it, and the browser
  handles answers and events (weak fairness: both queues run as long as the tab
  does); the bell's timer goes on (`setInterval`, weak), and a poll repeated for
  ever is not answered with an error every time (strong fairness of
  `PollAnswered`, without which no poller can be right). Nothing is assumed of the
  socket, of other users, or of this one.

`LiveCopy` is the abstract specification of the board page: versions shown have
existed, and the copy catches up by itself unless it has an excuse, which are
a missed event, a failed fetch, or fetches whose answers crossed. `BoardIsLive`
in `Live` is the refinement, `Copy!Spec` with the mapping that shows the page's
version as the copy and `lag` as the excuse; TLC checks all of it, liveness
included, and `FormsProofs` proves the safety half.

## Proofs

Proved by TLAPS for every number of users, ids, keys and requests. The
assumptions are those the modules name: model values differ from ids and from
one another (`NoneAssumption` and `AnswersAssumption` in `Forms` say what null,
an error and an answer not there yet are different from), what finds nothing is
a query (`HitlessAssumption`), and `LoginWindow < LoginLockout` in the limiter.
TLC evaluates each of them in a run.

- **KanbanStoreProofs.** `TypeCorrect`, `NoRowDangles`, `EveryBoardOneOwner`,
  `ReadsHoldAtWrite`, and the action properties `CardsStay`, `OnlyMembersWrite`,
  `OnlyOwnersManage`. The invariant is `TypeOK /\ NoDanglingRows /\ OneOwner /\
  ReadsStayTrue`. `ReadsStayTrue` makes it inductive: it says, for each
  statement a request may be at, what of its earlier reads still holds of the
  rows that are left: the column it resolved is still on that board, its
  destination too, the owner it checked is still the owner. It is true because
  no statement ever changes a column's board or a board's owner, ids are never
  reused, and a card moves only within its board, which is what it proves in
  turn. The one read that can go stale is the membership; `seen` remembers that
  it was there, which is what `OnlyMembersWrite` needs.
- **ChatFriendsProofs.** `TypeCorrect`, `FriendshipMutual`,
  `ConversationsAmongFriends`, `ConversationsUnique`, and `SenderReopens`: only the
  sender's own new request takes an accepted friendship back, which confines
  the finding of `chat_reopened` to that one path. The invariant says that each
  stored request was asked by its sender, and that a request between
  RequirePending and UpdateAccepted holds a row its caller, the recipient, has
  answered yes to; the status it read may have changed, the consent has not.
- **ChatDeliveryProofs.** `TypeCorrect`, `MapExact`, `TabsHear`, `AbsentNotified`.
  `TabsHear` is for any number of sends and pings at once, and makes one exception:
  the tab on whose connection the message met another write, which is the subject
  of `chat_live`. The invariant relates what is left of a send to who was connected
  throughout (`Heard`: such a connection is still to be written to, is being
  written to, has the message, or met) and
  to who was away throughout (`Away`: the map has none of their connections,
  because it is exact, so isOnline cannot find any).
- **LoginProofs, of LoginLimiter.** `LimiterTypeCorrect`, `LockoutsEnd`,
  `FewGuesses`, `LockoutsEarned`. The invariant adds that a full count carries
  a lockout that outlasts its window (`FullIsLocked`, from the assumption, true
  of 5 and 15 minutes) and that during a lockout count and requests in flight
  together stay below the limit (`RoomForTheRest`). `LockoutsEarned` counts in
  the history of failures; its invariant is that those a record counts are the
  last ones, all within its window (`CountsTheLast`).
- **LoginProofs, of Sessions.** `TypeCorrect`, `PasswordsWereRight`, `SignedInWereActive`,
  `ModulesWereHeld`, `FreshOrAtHome`. A token's claims are read by several
  statements between which the account may change, so none of them need hold
  when the token is signed. What can be said is that each held at some moment
  since the request began (`HeldSince`), and that is stable: once true of a
  moment it stays true (`HeldStays`), because whoever takes something from a user
  records when. The invariant says so of every token in a browser or an answer
  (`TokenTrue`) and, for each statement a request may be at, of what it has read
  so far (`ReadTrue`). `SignedInWereActive` is of tokens of login only;
  changePassword renews a session without asking whether the account is enabled.
  `FreshOrAtHome` measures a token by the days its login judged it by (`limit`: the
  policy then, or 60 if the settings could not be read), not by a policy set
  later or one that could not be read. It also needs that a token without the stamp is no older than
  its password may be (`ChangedSince`), for which nothing may be recorded later
  than the clock (`ClockIsLast`).
- **FileStorageProofs.** `TypeCorrect`, `TreesAreOwn`, `SavedFilesWhole`,
  `NothingLeftBehind` and the action property `OwnersErase`, for any number of
  nested folders. The invariant adds that ids in use were handed out
  (`IdsKnown`), that a request past CheckParent has a parent of its user's, if
  it still exists (`ParentsOwn`), and what a request's step says of the row and
  the bytes it works on (`UploadsTrue`, `DeletesTrue`). The folder tree is the
  hard part: `Descendants` is defined as what lies in every closed set, so the
  lemmas about it (what an insert adds, what a delete takes, that a tree has
  one owner) need no induction.
- **TicketingProofs.** `TypeCorrect`, `AssigneesAlwaysKnow`,
  `RequestersAlwaysKnow`, `AttachmentsAlwaysOpen`, `BytesAlwaysHaveReason`. Two
  invariants over a common `WellFormed`. `News` adds `BeforeKnown`: what a
  request has read of its ticket's assignee is known to them or due, and stays
  so, since a notice only moves from a request to the inbox (`StepKept`). If
  the row read already had the assignee, they had heard of the ticket; that
  they are not told again when it comes back to them is all that a stale row
  does to an assignee. For the requester it can do more: `told` starts anew
  with every change of the status, and an update that had read the ticket as
  ended that way tells nobody when it ends it again. `RequestersAlwaysKnow`
  says that this is the only way (`missed`); `ticket_unannounced` shows that it
  happens. `Bytes` says that one upload owns the bytes of an attachment until
  it ends, that its row says 'pending' so long, and that who has read 'saved'
  meets no upload; `Orphans` says of each attachment whose row has gone why its
  bytes are there, or that none will come.
- **FormsProofs.** Every page has an invariant of its own, about its rows, its
  state, and each request by its kind, what it carries and its answer. Except
  for the portal's bodies it never speaks of a request's place in the list, so
  requests may overtake each other without any argument; the lemmas on `From`
  and `Rest` say which requests there are after a step: some of those before
  it, and those that it sends.
  - The board (`Live`): `TypingKept`, and `PageIsACopy`, the safety half of the
    refinement: every step of the page is a step of `LiveCopy` or a stutter. The
    invariant (`Known`, `PageKnown`) says that every board on the page or under
    way is a version there has been; that the column's input has what was last
    typed in it until an error replaces the page; and that a page that was left
    has left its requests behind. That the input keeps what it was mounted with,
    and writes it over somebody else's rename, is the other side of the same code
    and no property rules it out.
  - `ChoicesStay`: while only one tab has been open at a time, it shows what the
    user wants, and so does the storage once the tab's effects have run or it
    is closed (`PrefsInv`).
  - `ScreenIsOfTheCookie`: the property relates the screen to the cookie, which
    answers change when their headers come, while the screen follows when the
    body has been read. It is claimed when no such body is under way, whatever
    else is, and not after an answer was handled that one with a newer cookie had
    overtaken: a change of the password handled after a sign-out leaves the
    dashboard without a session. The invariant says that while bodies are
    read the cookie is what the last headers brought, that the overtaken ones
    come before the others, and that when there are no others the user known to
    the page is the cookie's (`CookieIsOfTheLast`, `UserIsOfCookie`); that a page
    which does not know its user yet has asked just once and nothing under way
    can change the cookie (`AsksOnce`); and that a stamped cookie beside an account
    whose password has not expired means a change of password whose answer is
    still to come (`StampHasReason`).
  - `AnswersAreToTheQuestion`: of the searches in the palette at most one is not
    aborted, and it asks what is in the box (`OneIsMeant`), so when none is waited
    for the results are of the box, unless that search failed; until then those of
    an earlier query may be shown. An open stream of log lines is the selected
    container's (`StreamIsSelected`), so while it is streaming so are its lines; a
    paused log keeps those it has.
  - `FormsStayTheirs`: six pages. For the panel of an account and the settings
    it is enough to know what is in the form and whom it was typed for
    (`UsersInv`, `SiteInv`). A ticket's dialog opens before its ticket is read,
    so `TicketInv` says that whoever still waits for an answer is there, a fetch
    finding the dialog of its own ticket (`Attended`), and that no dialog both
    fetches a ticket and creates one (`Apart`); `EventInv` is alike (`HasEvent`).
    For a card, the columns ever chosen only grow (`Grown`), and each save under
    way carries one of them (`DialogInv`).

  These theorems are of `FormsSpec`. `PagesSpec`, which run `pages` checks, has
  further disjuncts with other values of `tab`, which never changes and for
  which the properties of `Forms` say nothing.

Only model-checked:

- `ListsAreCurrent`: thirteen pages, each with its own reasons to be behind.
- `PagingHasNoGaps`, `ThreadsAreWhole` and `DropsLand`: what pages, threads and
  drops do to a list (filters, folds, insertions at a place) is computed by
  induction over sequences, which the provers cannot do.
- The values of `EventTimes`, which is refuted.
- Liveness (`GoneAreForgotten`, `SendsFinish`, `BadgeCatchesUp`, the second half of
  `BoardIsLive`), which is outside the prover's reach together with ENABLED,
  recursive operators and induction over data.

## Seen while modelling

Not the subject of a run, and not mistakes in every case:

- A recipient who registers between the copy of the connections and isOnline
  gets neither the message nor a notification (`chat/backend/handlers.go:323-326`);
  they see it when they open the thread.
- Two friend requests that cross are both inserted as pending, since
  SendFriendRequest looks for the reverse request (`store.go:89`) in one
  statement and inserts in another. The friendship that comes of it is still
  mutual.
- A failure already past blocked() that is recorded after the window replaces
  the record and ends the lockout early (`ratelimit.go:54`).
- The bytes of a deleted ticket's attachments stay for ever (`excused` in
  `Ticketing`). A reassignment back to somebody during another update is not
  announced, though they have the ticket again; they knew of their first.
- A broadcast that is pushed after a list that has it already was fetched is shown
  twice (ChatPage.jsx:66). So is a ticket or an event whose creation is answered
  after the page's first fetch has brought it (TicketsPage.jsx:91,
  EventsPage.jsx:83). A folder's listing that comes late fills the folder opened
  since (FileList.jsx:31).
- Fetches of the board are not ordered: an older answer that comes last stays
  until there is another reason to fetch (Board.jsx:161-166).
- A lane keeps the name it was mounted with (Board.jsx:70): leaving the input
  writes it back over what somebody else has renamed meanwhile.
- Choosing a column in the card dialog saves with the column chosen before
  (CardModal.jsx:98).
- After signing out while a forced change of password is under way, its answer
  signs in again, or, if its cookie came first and its body is read last, shows
  the dashboard without a session (ChangePassword.jsx:36); a logout answered
  with an error shows the login screen while the cookie lives; a reset link
  used beside a session with an expired password leads to a dashboard whose
  tiles are refused.
- An error with a JSON body is taken for the list of containers, and the Logs
  page cannot render it; after the EventSource reconnects the tail comes again;
  selecting another container while paused keeps the lines of the first.
- Enter in the command palette follows results of an earlier query while the
  next is under way.

## Not modelled, and why

- First start, migrations and seeds: a straight line of idempotent statements
  in one process before it listens.
- Deployment, the gateway's configuration but for its session check.
- The pings of the kanban hub but for the deadlines they keep alive and the events
  they may cost; that a ping that panics ends the kanban backend is, to a page, a
  socket that closes and requests that fail. That writes that overlap may also
  bring one message twice: a thread drops the second.
- Which operation writes which audit row, and the notices of comments and
  invitations: one best-effort INSERT after the write each.
- The chat's unread counts and the order of the list of conversations; filters
  that only hide rows on the page; layout, texts, translations.
- The parsing of Docker's multiplexed stream and the search queries: reads
  without state of their own. GetBoardFull's torn read is one more stale answer
  of `BoardPage`: the change that tears it is announced after it.
- The expiry of a reset link and the statements of ConsumePasswordReset: both of
  its callers hold the same link, and either's password is one its owner chose.
- Each frontend has its own copy of the bell, the palette, the theme and the
  language; the map names one of each.
