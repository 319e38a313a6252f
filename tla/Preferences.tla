---------------------------- MODULE Preferences -----------------------------
(***************************************************************************)
(* What a browser keeps in localStorage for all of its tabs: the portal's  *)
(* favorite modules (components/Dashboard.jsx) and, in every frontend, the *)
(* theme (ThemeToggle.jsx) and the language (lib/i18n.jsx).  Each is read  *)
(* when a page is mounted, changed in the page's state, and written whole  *)
(* by an effect after the first and every changed rendering.  rows is the  *)
(* storage and page gives each tab its state; nothing is sent to anybody.  *)
(***************************************************************************)
EXTENDS Calls

CONSTANTS Tab, Module

Themes == {"light", "dark"}
Langs == {"id", "en"}
Stored == [favorites : SUBSET Module, theme : Themes, lang : Langs]

\* effects: a rendering whose effects have not run yet.
Shown == [values : Stored, effects : BOOLEAN]

\* wanted is history: what the user last chose, in any tab.
Init ==
  /\ rows = [favorites |-> {}, theme |-> "light", lang |-> "id"]
  /\ page = [tabs |-> [t \in Tab |-> None], wanted |-> rows]
  /\ net = <<>>
  /\ lag = FALSE

Open == { t \in Tab : page.tabs[t] # None }

\* loadFavorites and the useState initialisers.  A second tab may from now on
\* write back what it read before the other one was changed.
Mount ==
  /\ \E t \in Tab \ Open :
       page' = [page EXCEPT !.tabs[t] = [values |-> rows, effects |-> TRUE]]
  /\ lag' = (lag \/ Open # {})
  /\ UNCHANGED <<rows, net>>

\* Faulty: nothing is stored once there are favorites.
RunEffects_Once ==
  /\ \E t \in Open : /\ page.tabs[t].effects
                     /\ page' = [page EXCEPT !.tabs[t].effects = FALSE]
                     /\ rows' = IF page.tabs[t].values.favorites = {} THEN page.tabs[t].values
                                                                      ELSE rows
  /\ UNCHANGED <<net, lag>>

\* saveFavorites, and the effects over theme and lang.
RunEffects ==
  /\ \E t \in Open : /\ page.tabs[t].effects
                     /\ page' = [page EXCEPT !.tabs[t].effects = FALSE]
                     /\ rows' = page.tabs[t].values
  /\ UNCHANGED <<net, lag>>

\* The tab shows new values, and the user wants them.
Choose(t, values, wanted) ==
  /\ page' = [page EXCEPT !.tabs[t] = [values |-> values, effects |-> TRUE], !.wanted = wanted]
  /\ UNCHANGED <<rows, net, lag>>

\* Only what is toggled changes in what the user wants.
ToggleFavorite ==
  \E t \in Open, m \in Module :
    LET stars == page.tabs[t].values.favorites
        next == IF m \in stars THEN stars \ {m} ELSE stars \cup {m}
    IN  Choose(t, [page.tabs[t].values EXCEPT !.favorites = next],
               [page.wanted EXCEPT !.favorites = IF m \in stars THEN @ \ {m} ELSE @ \cup {m}])

ToggleTheme ==
  \E t \in Open :
    LET next == IF page.tabs[t].values.theme = "dark" THEN "light" ELSE "dark"
    IN  Choose(t, [page.tabs[t].values EXCEPT !.theme = next], [page.wanted EXCEPT !.theme = next])

ToggleLanguage ==
  \E t \in Open :
    LET next == IF page.tabs[t].values.lang = "id" THEN "en" ELSE "id"
    IN  Choose(t, [page.tabs[t].values EXCEPT !.lang = next], [page.wanted EXCEPT !.lang = next])

\* A tab is closed, or goes to another page; its effects have run.
Unmount ==
  /\ \E t \in Open : ~page.tabs[t].effects /\ page' = [page EXCEPT !.tabs[t] = None]
  /\ UNCHANGED <<rows, net, lag>>

Next ==
  \/ Mount \/ RunEffects \/ Unmount
  \/ ToggleFavorite \/ ToggleTheme \/ ToggleLanguage

-----------------------------------------------------------------------------
TypeOK ==
  /\ rows \in Stored /\ page.wanted \in Stored
  /\ page.tabs \in [Tab -> Shown \cup {None}]
  /\ lag \in BOOLEAN

\* What the user chose is what is stored, from one page to the next, until two
\* tabs have been open at the same time: each then writes back the whole set
\* of favorites as it knew it, and the later one undoes the other's stars.
ChoicesAreKept ==
  (~lag /\ \A t \in Open : ~page.tabs[t].effects) => rows = page.wanted
=============================================================================
