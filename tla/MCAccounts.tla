----------------------------- MODULE MCAccounts -----------------------------
(***************************************************************************)
(* Small instances of LoginLimiter, Sessions and ChatFriends.  The three   *)
(* share no state: part is which of them a behaviour is about, and the     *)
(* others stay where they began.                                           *)
(***************************************************************************)
EXTENDS LoginLimiter, Sessions, ChatFriends, TLC

VARIABLE part

accountsVars == <<limiterVars, vars, friendsVars, part>>

\* Passwords are interchangeable.
Symmetry == Permutations(Password)

AccountsInit ==
  /\ part \in {"limiter", "sessions", "friends"}
  /\ LimiterInit /\ Init /\ FriendsInit
  /\ part # "sessions" => policy = Fallback /\ \A u \in User : grants[u] = {}

AccountsNext ==
  /\ \/ part = "limiter" /\ LimiterNext /\ UNCHANGED <<vars, friendsVars>>
     \/ part = "sessions" /\ Next /\ UNCHANGED <<limiterVars, friendsVars>>
     \/ part = "friends" /\ FriendsNext /\ UNCHANGED <<limiterVars, vars>>
  /\ UNCHANGED part

AccountsSpec == AccountsInit /\ [][AccountsNext]_accountsVars
=============================================================================
