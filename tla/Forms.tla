------------------------------- MODULE Forms --------------------------------
(***************************************************************************)
(* The pages that depend on what is entered in them: forms and dialogs     *)
(* that save it, a search box, the container and the folder looked at, the *)
(* portal's screens, and the choices a browser keeps.  Every page has a    *)
(* module of its own, with its backend and the requests under way between  *)
(* the two, and they share what module Calls says of all of them; tab is   *)
(* which page a behaviour is about, and never changes.  The board and the  *)
(* bell, which follow the backend by themselves, are in module Live, and   *)
(* the pages that only show lists of what others change in module Pages.   *)
(***************************************************************************)
EXTENDS Live

CONSTANTS
  User, Role, Mod, Text, Container, MaxLines,      \* app-maintenance, logs
  Query, Hitless, PageTab,
  Ticket, File, MaxComments, Folder, Home,
  EventId, Caller,
  Card, Column

ASSUME HitlessAssumption == Hitless \subseteq Query

OneOf(S) == { x \in S : x = CHOOSE y \in S : TRUE }

\* app-maintenance.  Two accounts with one request at a time.
Users == INSTANCE UsersPage WITH MaxCalls <- 1
Site == INSTANCE SettingsPage
Logs == INSTANCE LogsPage

\* The portal, and what is in every header.
Portal == INSTANCE PortalPage
Prefs == INSTANCE Preferences WITH Tab <- PageTab, Module <- OneOf(Mod)
Search == INSTANCE Palette WITH MaxCalls <- 3

\* ticketing, my-storage, calendar, and the dialog about a card.
Tickets == INSTANCE TicketPages WITH Ticket <- OneOf(Ticket)
Ticket2 == INSTANCE TicketPages WITH File <- {}, MaxComments <- 0
Store == INSTANCE StoragePage WITH Folder <- OneOf(Folder)
Event2 == INSTANCE EventPages WITH Event <- EventId, Me <- Caller, Person <- {}
Dialog == INSTANCE CardDialog WITH MaxCalls <- 1

\* What is null, an error or not there yet is nothing else.
ASSUME NoneAssumption ==
  /\ None \notin Prefs!Shown \cup Query \cup Text \cup Ticket \cup EventId
  /\ None \notin [user : User, mode : {"roles", "password"}]
  /\ None \notin [id : Ticket \cup {None}, loading : BOOLEAN, titled : BOOLEAN,
                   texts : Ticket \cup {None}, comments : Nat, files : SUBSET File,
                   saving : BOOLEAN, uploading : BOOLEAN]
ASSUME AnswersAssumption ==
  /\ {Waiting, Failed, Done, None} \cap {"must", "in"} = {}
  /\ Waiting # Failed /\ Done \notin {Waiting, Failed}

FormsInit ==
  \/ tab = "users"    /\ Users!Init
  \/ tab = "settings" /\ Site!Init
  \/ tab = "logs"     /\ Logs!Init
  \/ tab = "portal"   /\ Portal!Init
  \/ tab = "prefs"    /\ Prefs!Init
  \/ tab = "search"   /\ Search!Init
  \/ tab = "tickets"  /\ Tickets!Init
  \/ tab = "ticket2"  /\ Ticket2!Init
  \/ tab = "storage"  /\ Store!Init
  \/ tab = "event2"   /\ Event2!Init
  \/ tab = "dialog"   /\ Dialog!Init

FormsNext ==
  /\ \/ tab = "users"    /\ Users!Next
     \/ tab = "settings" /\ Site!Next
     \/ tab = "logs"     /\ Logs!Next
     \/ tab = "portal"   /\ Portal!Next
     \/ tab = "prefs"    /\ Prefs!Next
     \/ tab = "search"   /\ Search!Next
     \/ tab = "tickets"  /\ Tickets!Next
     \/ tab = "ticket2"  /\ Ticket2!Next
     \/ tab = "storage"  /\ Store!Next
     \/ tab = "event2"   /\ Event2!Next
     \/ tab = "dialog"   /\ Dialog!Next
  /\ UNCHANGED tab

FormsSpec == FormsInit /\ [][FormsNext]_vars

-----------------------------------------------------------------------------
FormsTypeOK ==
  /\ tab = "users"    => Users!TypeOK
  /\ tab = "settings" => Site!TypeOK
  /\ tab = "logs"     => Logs!TypeOK
  /\ tab = "portal"   => Portal!TypeOK
  /\ tab = "prefs"    => Prefs!TypeOK
  /\ tab = "search"   => Search!TypeOK
  /\ tab = "tickets"  => Tickets!TypeOK
  /\ tab = "ticket2"  => Ticket2!TypeOK
  /\ tab = "storage"  => Store!TypeOK
  /\ tab = "event2"   => Event2!TypeOK
  /\ tab = "dialog"   => Dialog!TypeOK

\* What is typed into a form or a dialog is saved for the thing it was typed for,
\* although the dialog may be about another one when the answers come.
FormsAreTheirs ==
  /\ tab = "users"    => Users!PasswordIsForItsUser
  /\ tab = "settings" => Site!BlanksHaveReason
  /\ tab = "tickets"  => Tickets!TextsAreTheirs
  /\ tab = "ticket2"  => Ticket2!TextsAreTheirs
  /\ tab = "event2"   => Event2!TextsAreTheirs
  /\ tab = "dialog"   => Dialog!CardsAreTheirs

\* When no search is waited for, the results are those of the query in the box,
\* not of one before it that was slower to answer, unless its search failed; and
\* while a log is streaming its lines are of the container that is selected.
AnswersMatchTheQuestion ==
  /\ tab = "search" => Search!ResultsAreOfTheQuery /\ Search!NoResultsIsTrue
  /\ tab = "logs"   => Logs!LinesAreOfTheSelection /\ Logs!LiveIsHonest

\* The portal shows the dashboard to who has a session, and to nobody else.
ScreenMatchesCookie == tab = "portal" => Portal!ScreenMatchesCookie

\* Favorites, theme and language outlive the page they were chosen on.
ChoicesAreKept == tab = "prefs" => Prefs!ChoicesAreKept
=============================================================================
