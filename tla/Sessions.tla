------------------------------ MODULE Sessions ------------------------------
(***************************************************************************)
(* modules/app-maintenance/backend/auth.go: login and changePassword,      *)
(* which sign a token with what they read of the account, and verify, by   *)
(* which the gateway admits a request on the token alone.                  *)
(*                                                                         *)
(* Each handler reads the account, then the modules, then signs; meanwhile *)
(* administrators change accounts and grants, and other tabs sign in.  The *)
(* login limiter is LoginLimiter; the roles behind a user's modules are    *)
(* one set here, which any change of roles or modules replaces.            *)
(***************************************************************************)
EXTENDS Tables, Integers, FiniteSets

CONSTANTS
  User,      \* account ids
  Name,      \* usernames, unique among accounts
  Password,  \* what can be typed, equal iff bcrypt says so
  Module,    \* the codes of the modules that requests are for
  Home,      \* "app-maintenance", which may be one of them
  Jar,       \* browsers, each with one bung_session cookie
  Req,       \* login and changePassword requests in flight
  TTL,       \* AUTH_TOKEN_TTL_HOURS
  Days,      \* what password_expiry_days may be set to; 0 = never
  Fallback,  \* passwordExpiryDays' 60, for settings that cannot be read
  MaxTime,   \* bound on the clock
  MaxLost,   \* bound on what administrators take away
  None

ASSUME SessionsConstants ==
  /\ TTL \in Nat \ {0}
  /\ Days \subseteq Nat
  /\ Fallback \in Nat
  /\ MaxTime \in Nat
  /\ MaxLost \in Nat
  /\ None \notin User \cup Nat

VARIABLES
  now,      \* the clock
  policy,   \* site_settings.password_expiry_days
  account,  \* table users: id -> username, is_active, password, password_changed_at
  grants,   \* UserModules: the active modules of a user's active roles
  cookie,   \* each browser's token, or NoToken
  req,      \* the requests
  lost      \* history: when a user last lost a module, had to stop using a
            \* password, or was deactivated; None if never

vars == <<now, policy, account, grants, cookie, req, lost>>

Time == 0..MaxTime

AccountRow == [name : Name, active : BOOLEAN, password : Password, changed : Time]

\* The claims; the rest is history: when the request that signed them began,
\* what it was, the password it sent, and the days a login judged it by.
Token == [user : User, name : Name, modules : SUBSET Module, mustChange : BOOLEAN,
          expires : 0..(MaxTime + TTL), since : Time, by : {"login", "change"},
          given : Password, limit : Nat]

NoToken == [user |-> None]

Request == [op : {"none", "login", "change"},
            at : {"idle", "readUser", "setPassword", "readModules", "sign", "answer"},
            jar : Jar \cup {None}, user : User \cup {None}, name : Name \cup {None},
            given : Password \cup {None}, new : Password \cup {None},
            changed : Time, modules : SUBSET Module, since : Time,
            token : Token \cup {NoToken}]

Idle == [op |-> "none", at |-> "idle", jar |-> None, user |-> None, name |-> None,
         given |-> None, new |-> None, changed |-> 0, modules |-> {}, since |-> 0,
         token |-> NoToken]

\* parseToken: signed by us and not expired.
SignedIn(j) == cookie[j] # NoToken /\ now < cookie[j].expires

\* passwordExpired; the clock's unit divides both lifetimes.
Expired(changed, limit) == limit > 0 /\ now - changed > limit

\* Faulty: the flag is left to the portal.
Admits_Lenient(j, m) == SignedIn(j) /\ m \in cookie[j].modules

\* verify, for a request of browser j to module m: whoever must change their
\* password gets no further than App Maintenance.
Admits(j, m) ==
  /\ SignedIn(j)
  /\ cookie[j].mustChange => m = Home
  /\ m \in cookie[j].modules

-----------------------------------------------------------------------------
\* Accounts as an administrator has set them up, each with its password.
Init ==
  /\ now = 0
  /\ policy \in Days
  /\ account \in { t \in [User -> [name : Name, active : {TRUE}, password : Password,
                                   changed : {0}]] :
                     \A u, v \in User : t[u].name = t[v].name => u = v }
  /\ grants \in [User -> {{}, Module}]
  /\ cookie = [j \in Jar |-> NoToken]
  /\ req = [r \in Req |-> Idle]
  /\ lost = [u \in User |-> [x \in Module \cup Password \cup {"active"} |-> None]]

Answer(r) == req' = [req EXCEPT ![r] = Idle]

-----------------------------------------------------------------------------
(* login and changePassword                                                *)

StartLogin(r, j, n, p) ==
  /\ req[r].at = "idle"
  /\ req' = [req EXCEPT ![r] = [Idle EXCEPT !.op = "login", !.at = "readUser", !.jar = j,
                                           !.name = n, !.given = p, !.since = now]]
  /\ UNCHANGED <<now, account, grants, cookie, lost>>

\* With a session only; the account is looked up by the username in the claims.
StartChange(r, j, p, q) ==
  /\ req[r].at = "idle"
  /\ SignedIn(j)
  /\ req' = [req EXCEPT ![r] = [Idle EXCEPT !.op = "change", !.at = "readUser", !.jar = j,
                                           !.name = cookie[j].name, !.given = p, !.new = q,
                                           !.modules = cookie[j].modules, !.since = now]]
  /\ UNCHANGED <<now, account, grants, cookie, lost>>

\* The row of the given username, if its user passes.
Found(r, passing) ==
  /\ req[r].at = "readUser"
  /\ \/ \E u \in passing :
          /\ account[u].name = req[r].name
          /\ req' = [req EXCEPT ![r].at = IF req[r].op = "login" THEN "readModules"
                                          ELSE "setPassword",
                                ![r].user = u, ![r].changed = account[u].changed]
     \/ /\ \A u \in passing : account[u].name # req[r].name
        /\ Answer(r)
  /\ UNCHANGED <<now, account, grants, cookie, lost>>

\* Those whose password it is, and who may sign in.
Known(r) == { u \in DOMAIN account : account[u].password = req[r].given }
Enabled(r) == { u \in DOMAIN account : req[r].op = "login" => account[u].active }

\* Faulty: is_active, or the password, is not looked at.
ReadUser_Disabled(r) == Found(r, Known(r))
ReadUser_AnyPassword(r) == Found(r, Enabled(r))

\* One SELECT gives the row and the hash; only login asks whether the account
\* is active.  Anything wrong is a 401 or 404.
ReadUser(r) == Found(r, Known(r) \cap Enabled(r))

\* A user's password is replaced: the old one was last good now.
NewPassword(u, p) ==
  /\ account' = [account EXCEPT ![u].password = p, ![u].changed = now]
  /\ lost' = [lost EXCEPT ![u][account[u].password] = now]

\* SetUserPassword by id, or 404 when the account is gone.
SetPassword(r) ==
  /\ req[r].at = "setPassword"
  /\ IF req[r].user \in DOMAIN account
     THEN /\ NewPassword(req[r].user, req[r].new)
          /\ req' = [req EXCEPT ![r].at = "readModules"]
     ELSE Answer(r) /\ UNCHANGED <<account, lost>>
  /\ UNCHANGED <<now, grants, cookie>>

\* Faulty: the new token keeps the modules of the old one.
ReadModules_Keep(r) ==
  /\ req[r].at = "readModules"
  /\ req' = [req EXCEPT ![r].at = "sign",
                        ![r].modules = IF req[r].op = "change" THEN @ ELSE grants[req[r].user]]
  /\ UNCHANGED <<now, account, grants, cookie, lost>>

\* UserModules, one query.
ReadModules(r) ==
  /\ req[r].at = "readModules"
  /\ req' = [req EXCEPT ![r].at = "sign", ![r].modules = grants[req[r].user]]
  /\ UNCHANGED <<now, account, grants, cookie, lost>>

\* signToken, for a password that is too old or not.
Signed(r, old, limit) ==
  /\ req[r].at = "sign"
  /\ req' = [req EXCEPT ![r] =
       [Idle EXCEPT !.op = req[r].op, !.at = "answer", !.jar = req[r].jar,
          !.token = [user |-> req[r].user, name |-> req[r].name, modules |-> req[r].modules,
                     mustChange |-> old, expires |-> now + TTL, since |-> req[r].since,
                     by |-> req[r].op, given |-> req[r].given, limit |-> limit]]]
  /\ UNCHANGED <<now, account, grants, cookie, lost>>

\* passwordExpiryDays: the policy as it is now, or 60 days if that cannot be
\* read.
Limits == {policy, Fallback}

\* The claims are signed; changePassword's never ask for another change.
Sign(r) ==
  \/ req[r].op = "login" /\ \E d \in Limits : Signed(r, Expired(req[r].changed, d), d)
  \/ req[r].op = "change" /\ Signed(r, FALSE, 0)

\* The answer reaches the browser, which stores the cookie: answers of two
\* requests may arrive in any order.
Receive(r) ==
  /\ req[r].at = "answer"
  /\ cookie' = [cookie EXCEPT ![req[r].jar] = req[r].token]
  /\ Answer(r)
  /\ UNCHANGED <<now, account, grants, lost>>

\* A query fails, the backend stops, or the answer is lost.
Fail(r) ==
  /\ req[r].at # "idle"
  /\ Answer(r)
  /\ UNCHANGED <<now, account, grants, cookie, lost>>

Logout(j) ==
  /\ cookie[j] # NoToken
  /\ cookie' = [cookie EXCEPT ![j] = NoToken]
  /\ UNCHANGED <<now, account, grants, req, lost>>

-----------------------------------------------------------------------------
(* Administrators                                                          *)

\* Roles assigned or taken away, roles or modules deactivated or deleted.
SetGrants(u, S) ==
  /\ u \in DOMAIN account
  /\ grants[u] # S
  /\ grants' = [grants EXCEPT ![u] = S]
  /\ lost' = [lost EXCEPT ![u] = [x \in DOMAIN @ |-> IF x \in grants[u] \ S THEN now ELSE @[x]]]
  /\ UNCHANGED <<now, account, cookie, req>>

\* updateUser: the username, which must stay unique, and is_active.
UpdateUser(u, n, active) ==
  /\ u \in DOMAIN account
  /\ \A v \in DOMAIN account : account[v].name = n => v = u
  /\ account' = [account EXCEPT ![u].name = n, ![u].active = active]
  /\ lost' = IF account[u].active /\ ~active
             THEN [lost EXCEPT ![u]["active"] = now] ELSE lost
  /\ UNCHANGED <<now, grants, cookie, req>>

\* The Users tab's "Set Password", and resetPassword.
SetUserPassword(u, p) ==
  /\ u \in DOMAIN account
  /\ NewPassword(u, p)
  /\ UNCHANGED <<now, grants, cookie, req>>

\* The roles go by cascade; tokens know nothing of it.
DeleteUser(u) ==
  /\ u \in DOMAIN account
  /\ account' = WithoutRows(account, {u})
  /\ grants' = [grants EXCEPT ![u] = {}]
  /\ lost' = [lost EXCEPT ![u] = [x \in DOMAIN @ |->
       IF \/ x \in grants[u]
          \/ x = account[u].password
          \/ x = "active" /\ account[u].active
       THEN now ELSE @[x]]]
  /\ UNCHANGED <<now, cookie, req>>

\* The Settings tab.
SetPolicy(d) ==
  /\ policy' = d
  /\ UNCHANGED <<now, account, grants, cookie, req, lost>>

Tick ==
  /\ now < MaxTime
  /\ now' = now + 1
  /\ UNCHANGED <<account, grants, cookie, req, lost>>

-----------------------------------------------------------------------------
Serve(r) ==
  \/ \E j \in Jar, n \in Name, p \in Password : StartLogin(r, j, n, p)
  \/ \E j \in Jar, p, q \in Password : StartChange(r, j, p, q)
  \/ ReadUser(r) \/ SetPassword(r) \/ ReadModules(r) \/ Sign(r) \/ Receive(r) \/ Fail(r)

\* The bound: administrators stop once a user has lost so many of the things
\* that the history keeps.
MayLose(u) == Cardinality({ x \in DOMAIN lost[u] : lost[u][x] # None }) < MaxLost

Administer(u) ==
  /\ MayLose(u)
  /\ \/ \E S \in SUBSET Module : SetGrants(u, S)
     \/ \E n \in Name, a \in BOOLEAN : UpdateUser(u, n, a)
     \/ \E p \in Password : SetUserPassword(u, p)
     \/ DeleteUser(u)

Next ==
  \/ /\ \/ \E r \in Req : Serve(r)
        \/ \E j \in Jar : Logout(j)
        \/ \E u \in User : Administer(u)
        \/ Tick
     /\ UNCHANGED policy
  \/ \E d \in Days \ {policy} : SetPolicy(d)

Spec == Init /\ [][Next]_vars

-----------------------------------------------------------------------------
(* Properties                                                              *)

\* Clock, accounts, cookies and requests are well-formed.
TypeOK ==
  /\ now \in Time
  /\ policy \in Days
  /\ account \in TablesOf(User, AccountRow)
  /\ grants \in [User -> SUBSET Module]
  /\ cookie \in [Jar -> Token \cup {NoToken}]
  /\ req \in [Req -> Request]
  /\ lost \in [User -> [Module \cup Password \cup {"active"} -> Time \cup {None}]]

Tokens == { cookie[j] : j \in Jar } \cup { req[r].token : r \in Req }

\* x held for user u at some moment of time t or later.
HeldSince(u, x, holds, t) == holds \/ (lost[u][x] # None /\ lost[u][x] >= t)

\* Every module of a token was its user's at some moment since the request
\* that signed it began: what was revoked before is in no later token, a
\* token re-issued by changePassword included.
GrantsWereHeld ==
  \A t \in Tokens \ {NoToken} : \A m \in t.modules :
    HeldSince(t.user, m, m \in grants[t.user], t.since)

\* Whoever got a token knew the account's password at some moment since they
\* asked for it, however passwords change meanwhile.
PasswordWasRight ==
  \A t \in Tokens \ {NoToken} :
    HeldSince(t.user, t.given,
              t.user \in DOMAIN account /\ account[t.user].password = t.given, t.since)

\* Whoever got a token by login had an account that was enabled at some
\* moment since they asked for it.  changePassword does not look at is_active:
\* its tokens are for whoever has a session, disabled since or not.
LoginsWereActive ==
  \A t \in Tokens \ {NoToken} : t.by = "login" =>
    HeldSince(t.user, "active", t.user \in DOMAIN account /\ account[t.user].active, t.since)

\* verify lets nobody past App Maintenance whose password was older, when they
\* asked for their token, than their login was told to allow: the policy as it
\* was then, or 60 days if the settings could not be read.  A token of
\* changePassword is for a password set since.
FreshOrHome ==
  \A j \in Jar, m \in Module \ {Home} :
    LET t == cookie[j] IN
    /\ Admits(j, m)
    /\ t.user \in DOMAIN account
    /\ t.by = "login" => t.limit > 0
    => t.since - account[t.user].changed <= t.limit
=============================================================================
