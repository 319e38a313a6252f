------------------------------- MODULE Pages --------------------------------
(***************************************************************************)
(* All pages of the eight frontends and the portal but those of module     *)
(* Live: the ones of module Forms, and the others, which list what other   *)
(* people change.  Some pages are here a second time, with other bounds.   *)
(***************************************************************************)
EXTENDS Forms

CONSTANTS
  PageSize, Requests, MaxEntries, MaxShown,   \* audit log, inbox
  Person,                                     \* calendar
  Conv, Limit, MaxMsgs, MaxNews,              \* chat
  BoardId, MaxDrops                           \* kanban

\* app-maintenance.  One account with two requests.
User1 == INSTANCE UsersPage WITH User <- OneOf(User)
Roles == INSTANCE RolesPage WITH Role <- OneOf(Role), Mod <- OneOf(Mod)
Mods == INSTANCE ModulesPage WITH Mod <- OneOf(Mod)
Audit == INSTANCE AuditLogPage

\* The inbox; calendar, with one event and people to invite.
Inbox == INSTANCE InboxPage
Events == INSTANCE EventPages WITH Event <- OneOf(EventId), Me <- Caller

\* chat.
Thread == INSTANCE ThreadPage
Friends == INSTANCE FriendsPage WITH User <- OneOf(User), MaxCalls <- 1
Convs == INSTANCE ConversationsPage WITH MaxCalls <- 1
News == INSTANCE BroadcastsPage

\* kanban.  A drop between two columns, and two drops in one.
Boards == INSTANCE BoardsPage WITH Board <- BoardId
Members == INSTANCE MembersPage
Drop1 == INSTANCE DropPage WITH MaxDrops <- 1, MaxCalls <- 1
Drop2 == INSTANCE DropPage WITH Column <- OneOf(Column), MaxCalls <- 1

PagesInit ==
  \/ FormsInit
  \/ tab = "user1"    /\ User1!Init
  \/ tab = "roles"    /\ Roles!Init
  \/ tab = "modules"  /\ Mods!Init
  \/ tab = "audit"    /\ Audit!Init
  \/ tab = "inbox"    /\ Inbox!Init
  \/ tab = "events"   /\ Events!Init
  \/ tab = "thread"   /\ Thread!Init
  \/ tab = "friends"  /\ Friends!Init
  \/ tab = "convs"    /\ Convs!Init
  \/ tab = "news"     /\ News!Init
  \/ tab = "boards"   /\ Boards!Init
  \/ tab = "members"  /\ Members!Init
  \/ tab = "drop1"    /\ Drop1!Init
  \/ tab = "drop2"    /\ Drop2!Init

PagesNext ==
  \/ FormsNext
  \/ /\ \/ tab = "user1"    /\ User1!Next
        \/ tab = "roles"    /\ Roles!Next
        \/ tab = "modules"  /\ Mods!Next
        \/ tab = "audit"    /\ Audit!Next
        \/ tab = "inbox"    /\ Inbox!Next
        \/ tab = "events"   /\ Events!Next
        \/ tab = "thread"   /\ Thread!Next
        \/ tab = "friends"  /\ Friends!Next
        \/ tab = "convs"    /\ Convs!Next
        \/ tab = "news"     /\ News!Next
        \/ tab = "boards"   /\ Boards!Next
        \/ tab = "members"  /\ Members!Next
        \/ tab = "drop1"    /\ Drop1!Next
        \/ tab = "drop2"    /\ Drop2!Next
     /\ UNCHANGED tab

PagesSpec == PagesInit /\ [][PagesNext]_vars

-----------------------------------------------------------------------------
TypeOK ==
  /\ FormsTypeOK
  /\ tab = "user1"    => User1!TypeOK
  /\ tab = "roles"    => Roles!TypeOK
  /\ tab = "modules"  => Mods!TypeOK
  /\ tab = "audit"    => Audit!TypeOK
  /\ tab = "inbox"    => Inbox!TypeOK
  /\ tab = "events"   => Events!TypeOK
  /\ tab = "thread"   => Thread!TypeOK
  /\ tab = "friends"  => Friends!TypeOK
  /\ tab = "convs"    => Convs!TypeOK
  /\ tab = "news"     => News!TypeOK
  /\ tab = "boards"   => Boards!TypeOK
  /\ tab = "members"  => Members!TypeOK
  /\ tab = "drop1"    => Drop1!TypeOK
  /\ tab = "drop2"    => Drop2!TypeOK

\* A list on a page is fetched again after the page's own writes, or patched in
\* place; either way, when nothing is under way it is what the backend holds, but
\* for the reasons that each page's module names at the property it states: writes
\* of others, answers that are lost or overtaken, and of the lists patched in
\* place a new row that the first fetch had already, which stays there twice.
ListsAreCurrent ==
  /\ tab = "users"   => Users!TableIsCurrent
  /\ tab = "user1"   => User1!TableIsCurrent
  /\ tab = "roles"   => Roles!TableIsCurrent
  /\ tab = "modules" => Mods!TableIsCurrent
  /\ tab = "tickets" => Tickets!ListIsCurrent
  /\ tab = "ticket2" => Ticket2!ListIsCurrent
  /\ tab = "storage" => Store!ListIsOfTheFolder
  /\ tab = "events"  => Events!ListIsCurrent
  /\ tab = "event2"  => Event2!ListIsCurrent
  /\ tab = "friends" => Friends!FriendsAreCurrent
  /\ tab = "convs"   => Convs!ConversationsAreListed
  /\ tab = "boards"  => Boards!BoardsAreCurrent
  /\ tab = "members" => Members!MembersAreCurrent

\* Reading page by page leaves nothing out, although what is read grows at its
\* front meanwhile (AuditLog.jsx, NotificationsPage.jsx).
PagingHasNoGaps ==
  /\ tab = "audit" => Audit!NoGaps
  /\ tab = "inbox" => Inbox!NoGaps

\* Pushes, answers and lists together give every message of the open thread, from
\* the oldest that is shown, and each once; and no broadcast that was pushed is
\* missed, though it may be shown twice (ChatPage.jsx, BroadcastsPanel.jsx).
ThreadsAreWhole ==
  /\ tab = "thread" => Thread!NoDoubles /\ Thread!ThreadIsComplete
  /\ tab = "news"   => News!NothingIsMissed

\* A dropped card stays where it was dropped.
DropsLand ==
  /\ tab = "drop1" => Drop1!DropsLand
  /\ tab = "drop2" => Drop2!DropsLand
=============================================================================
