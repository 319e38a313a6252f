---------------------------- MODULE LoginLimiter ----------------------------
(***************************************************************************)
(* modules/app-maintenance/backend/ratelimit.go and its use by login and   *)
(* forgotPassword (auth.go): failed attempts are counted per key, and a    *)
(* key with too many of them is locked out for a while.                    *)
(*                                                                         *)
(* blocked, recordFailure and recordSuccess each hold the mutex, but the   *)
(* password is checked between them without it: an attempt let through     *)
(* before a lockout may be recorded during it, or after its window.        *)
(***************************************************************************)
EXTENDS Integers, FiniteSets, Sequences

CONSTANTS
  LoginKey,          \* "<username>|<ip>" of login attempts
  ForgotKey,         \* "forgot:<identifier>|<ip>" of forgot-password calls
  InFlight,          \* requests that may be in flight at once
  NoKey,             \* "no key"
  MaxLoginAttempts,  \* maxLoginAttempts, 5
  LoginWindow,       \* loginWindow, 5 minutes
  LoginLockout,      \* loginLockout, 15 minutes
  LastTime           \* bound: the clock stops there

Key == LoginKey \cup ForgotKey

\* A lockout outlives the window it was earned in.
ASSUME LimiterConstants ==
  /\ NoKey \notin Key
  /\ LoginKey \cap ForgotKey = {}
  /\ IsFiniteSet(InFlight)
  /\ MaxLoginAttempts \in Nat \ {0}
  /\ LoginWindow \in Nat
  /\ LoginLockout \in Nat
  /\ LoginWindow < LoginLockout
  /\ LastTime \in Nat

VARIABLES
  clock,     \* the clock
  attempts,  \* the map: key -> attemptRecord
  checking,  \* the key of each request between blocked() and its record
  failedAt,  \* history: times of the failures since the last success
  locked     \* history: the latest end of a lockout since the last success

limiterVars == <<clock, attempts, checking, failedAt, locked>>

AttemptRecord == [count : Nat, windowStart : Int, blockedUntil : Int]

\* The zero time.Time lies before every other time.
ZeroTime == -1

Blocked(k) == k \in DOMAIN attempts /\ attempts[k].blockedUntil > clock

-----------------------------------------------------------------------------
LimiterInit ==
  /\ clock = 0
  /\ attempts = [k \in {} |-> NoKey]
  /\ checking = [r \in InFlight |-> NoKey]
  /\ failedAt = [k \in Key |-> << >>]
  /\ locked = [k \in Key |-> ZeroTime]

Advance ==
  /\ clock < LastTime
  /\ clock' = clock + 1
  /\ UNCHANGED <<attempts, checking, failedAt, locked>>

\* Faulty: no admission check.
Admit_Always(r, k) ==
  /\ checking[r] = NoKey
  /\ checking' = [checking EXCEPT ![r] = k]
  /\ UNCHANGED <<clock, attempts, failedAt, locked>>

\* blocked() lets the request through; a blocked one is answered 429 and
\* changes nothing.
Admit(r, k) ==
  /\ checking[r] = NoKey
  /\ ~Blocked(k)
  /\ checking' = [checking EXCEPT ![r] = k]
  /\ UNCHANGED <<clock, attempts, failedAt, locked>>

\* Faulty: the window never passes, it only fills.
WindowOf_Forever(k) ==
  IF k \in DOMAIN attempts
    THEN attempts[k]
    ELSE [count |-> 0, windowStart |-> clock, blockedUntil |-> ZeroTime]

\* The record a failure counts in: a fresh one when there is none or its
\* window has passed.
WindowOf(k) ==
  IF k \in DOMAIN attempts /\ clock - attempts[k].windowStart <= LoginWindow
    THEN attempts[k]
    ELSE [count |-> 0, windowStart |-> clock, blockedUntil |-> ZeroTime]

RecordFailure(r) ==
  /\ checking[r] # NoKey
  /\ LET k   == checking[r]
         rec == WindowOf(k)
         n   == rec.count + 1
         until == IF n >= MaxLoginAttempts THEN clock + LoginLockout ELSE rec.blockedUntil
     IN /\ attempts' = [x \in (DOMAIN attempts) \cup {k} |->
                          IF x = k
                            THEN [count |-> n, windowStart |-> rec.windowStart,
                                  blockedUntil |-> until]
                            ELSE attempts[x]]
        /\ failedAt' = [failedAt EXCEPT ![k] = Append(@, clock)]
        /\ locked' = [locked EXCEPT ![k] = IF until > @ THEN until ELSE @]
  /\ checking' = [checking EXCEPT ![r] = NoKey]
  /\ UNCHANGED clock

\* Only a login can succeed: forgotPassword records every call as a failure.
RecordSuccess(r) ==
  /\ checking[r] \in LoginKey
  /\ LET k == checking[r] IN
       /\ attempts' = [x \in (DOMAIN attempts) \ {k} |-> attempts[x]]
       /\ failedAt' = [failedAt EXCEPT ![k] = << >>]
       /\ locked' = [locked EXCEPT ![k] = ZeroTime]
  /\ checking' = [checking EXCEPT ![r] = NoKey]
  /\ UNCHANGED clock

\* A login whose database query fails is answered 500 and not counted.
Abandon(r) ==
  /\ checking[r] \in LoginKey
  /\ checking' = [checking EXCEPT ![r] = NoKey]
  /\ UNCHANGED <<clock, attempts, failedAt, locked>>

\* The map lives in memory: a restart forgets it, and the requests with it.
Restart ==
  /\ attempts' = [k \in {} |-> NoKey]
  /\ checking' = [r \in InFlight |-> NoKey]
  /\ failedAt' = [k \in Key |-> << >>]
  /\ locked' = [k \in Key |-> ZeroTime]
  /\ UNCHANGED clock

Attempt(r) ==
  \/ \E k \in Key : Admit(r, k)
  \/ RecordFailure(r)
  \/ RecordSuccess(r)
  \/ Abandon(r)

LimiterNext == Advance \/ Restart \/ \E r \in InFlight : Attempt(r)

LimiterSpec == LimiterInit /\ [][LimiterNext]_limiterVars

-----------------------------------------------------------------------------
(* Properties                                                              *)

\* The map, the requests in flight and the histories are well-formed.
LimiterTypeOK ==
  /\ clock \in Nat
  /\ DOMAIN attempts \subseteq Key
  /\ \A k \in DOMAIN attempts : attempts[k] \in AttemptRecord
  /\ checking \in [InFlight -> Key \cup {NoKey}]
  /\ failedAt \in [Key -> Seq(Nat)]
  /\ locked \in [Key -> Int]

\* Nobody is locked out for less than the README's "5 failures / 5 min": when
\* a lockout began, MaxLoginAttempts failures lay within one window, with no
\* success among them.
LockoutIsEarned ==
  \A k \in Key : Blocked(k) =>
    LET began == attempts[k].blockedUntil - LoginLockout IN
      Cardinality({ i \in DOMAIN failedAt[k] :
        began - LoginWindow <= failedAt[k][i] /\ failedAt[k][i] <= began }) >= MaxLoginAttempts

\* Failures that arrive during a lockout push its end back, but only while
\* its window lasts: it is over at the latest one window and one lockout
\* after the first failure that counted.
LockoutEnds ==
  \A k \in DOMAIN attempts :
    attempts[k].blockedUntil <= attempts[k].windowStart + LoginWindow + LoginLockout

\* How many passwords may be tried in one window: the attempts that were
\* already past blocked() when the lockout began are all there is beyond
\* MaxLoginAttempts.
GuessesBounded ==
  \A k \in DOMAIN attempts :
    attempts[k].count <= MaxLoginAttempts - 1 + Cardinality(InFlight)
=============================================================================
