----------------------------- MODULE LoginProofs ------------------------------
(***************************************************************************)
(* Who may log in, and what a login is worth: proofs about the lockout of  *)
(* module LoginLimiter and about the tokens of module Sessions, two        *)
(* specifications that share no variable.                                  *)
(*                                                                         *)
(* The lockout, for every number of keys and requests and every limit:     *)
(* when it ends (LockoutEnds), how many attempts it may come too late for  *)
(* (GuessesBounded), and that it is earned (LockoutIsEarned).  The first   *)
(* two need the records only, the last their relation to the history.      *)
(*                                                                         *)
(* What a token says was true of its user while it was asked for, for any  *)
(* number of users, browsers, modules and requests: the password was good  *)
(* (PasswordsWereRight), for a login the account was enabled               *)
(* (SignedInWereActive), the modules were granted (ModulesWereHeld), and   *)
(* the password was not too old to be used beyond App Maintenance          *)
(* (FreshOrAtHome).                                                        *)
(*                                                                         *)
(* A token's claims are read by several statements, between which the      *)
(* account may change, so each is about some moment since the request      *)
(* began; HeldSince says so of what holds now or was lost since, and once  *)
(* it is true of a moment it stays true of it (HeldStays).                 *)
(***************************************************************************)
EXTENDS LoginLimiter, Sessions, FiniteSetTheorems, TLAPS

-----------------------------------------------------------------------------
(* The lockout.                                                            *)

\* The requests past blocked() for key k.
Checking(k) == { r \in InFlight : checking[r] = k }

Limit == MaxLoginAttempts - 1 + Cardinality(InFlight)

\* The part of LimiterTypeOK that the bounds rest on; the histories play no part.
RecordsOK ==
  /\ clock \in Nat
  /\ DOMAIN attempts \subseteq Key
  /\ \A k \in DOMAIN attempts : attempts[k] \in AttemptRecord
  /\ checking \in [InFlight -> Key \cup {NoKey}]

\* A full count has a lockout that lasts longer than its window, so nothing
\* more is let through while it still counts.
FullIsLocked ==
  \A k \in DOMAIN attempts : attempts[k].count >= MaxLoginAttempts =>
    attempts[k].blockedUntil >= attempts[k].windowStart + LoginLockout

\* During a lockout every request still checking may add one more failure.
RoomForTheRest ==
  \A k \in DOMAIN attempts :
    attempts[k].count >= MaxLoginAttempts /\ Blocked(k) =>
      attempts[k].count + Cardinality(Checking(k)) <= Limit

WindowsPast == \A k \in DOMAIN attempts : attempts[k].windowStart <= clock

LimiterInv == RecordsOK /\ WindowsPast /\ LockoutEnds /\ FullIsLocked /\ RoomForTheRest /\ GuessesBounded

-----------------------------------------------------------------------------
\* The requests checking a key are finitely many, and at most all of them.
LEMMA CheckingFinite ==
  ASSUME NEW k
  PROVE  /\ IsFiniteSet(Checking(k))
         /\ Cardinality(Checking(k)) \in Nat
         /\ Cardinality(Checking(k)) <= Cardinality(InFlight)
         /\ Cardinality(InFlight) \in Nat
<1>1. Checking(k) \subseteq InFlight
  BY DEF Checking
<1>2. IsFiniteSet(Checking(k)) /\ Cardinality(Checking(k)) <= Cardinality(InFlight)
  BY <1>1, LimiterConstants, FS_Subset
<1>3. Cardinality(Checking(k)) \in Nat /\ Cardinality(InFlight) \in Nat
  BY <1>2, LimiterConstants, FS_CardinalityType
<1> QED BY <1>2, <1>3

\* A request that leaves makes one fewer.
LEMMA CheckingLeaves ==
  ASSUME NEW r \in InFlight, NEW k0 \in Key, checking \in [InFlight -> Key \cup {NoKey}],
         checking[r] = k0, checking' = [checking EXCEPT ![r] = NoKey]
  PROVE  /\ Cardinality(Checking(k0)') = Cardinality(Checking(k0)) - 1
         /\ \A k \in Key \ {k0} : Checking(k)' = Checking(k)
<1>1. r \in Checking(k0)
  BY DEF Checking
<1>2. Checking(k0)' = Checking(k0) \ {r}
  BY <1>1, LimiterConstants DEF Checking
<1>3. Cardinality(Checking(k0) \ {r}) = Cardinality(Checking(k0)) - 1
  BY <1>1, CheckingFinite, FS_RemoveElement
<1>4. \A k \in Key \ {k0} : Checking(k)' = Checking(k)
  BY LimiterConstants DEF Checking
<1> QED BY <1>2, <1>3, <1>4

-----------------------------------------------------------------------------
LEMMA LimiterInitInv == LimiterInit => LimiterInv
<1> SUFFICES ASSUME LimiterInit PROVE LimiterInv
  OBVIOUS
<1>1. DOMAIN attempts = {} /\ clock = 0 /\ checking \in [InFlight -> Key \cup {NoKey}]
  BY DEF LimiterInit
<1> QED BY <1>1 DEF LimiterInv, RecordsOK, WindowsPast, LockoutEnds, FullIsLocked, RoomForTheRest,
                    GuessesBounded

LEMMA AdvanceInv == LimiterInv /\ Advance => LimiterInv'
<1> SUFFICES ASSUME LimiterInv, Advance PROVE LimiterInv'
  OBVIOUS
<1>1. clock \in Nat /\ clock' = clock + 1 /\ attempts' = attempts /\ checking' = checking
  BY DEF LimiterInv, RecordsOK, Advance
<1>2. RecordsOK' /\ LockoutEnds' /\ FullIsLocked' /\ GuessesBounded'
  BY <1>1 DEF LimiterInv, RecordsOK, LockoutEnds, FullIsLocked, GuessesBounded
<1>3. WindowsPast'
  BY <1>1 DEF LimiterInv, RecordsOK, WindowsPast, AttemptRecord
<1>4. \A k \in DOMAIN attempts : Blocked(k)' => Blocked(k)
  BY <1>1 DEF LimiterInv, RecordsOK, AttemptRecord, Blocked
<1>5. \A k : Checking(k)' = Checking(k)
  BY <1>1 DEF Checking
<1>6. RoomForTheRest'
  BY <1>1, <1>4, <1>5 DEF LimiterInv, RoomForTheRest
<1> QED BY <1>2, <1>3, <1>6 DEF LimiterInv

LEMMA AdmitInv == ASSUME NEW r \in InFlight, NEW k \in Key PROVE LimiterInv /\ Admit(r, k) => LimiterInv'
<1> SUFFICES ASSUME LimiterInv, Admit(r, k) PROVE LimiterInv'
  OBVIOUS
<1>1. /\ clock' = clock /\ attempts' = attempts
      /\ checking' = [checking EXCEPT ![r] = k]
      /\ checking[r] = NoKey /\ ~Blocked(k)
      /\ checking \in [InFlight -> Key \cup {NoKey}]
  BY DEF LimiterInv, RecordsOK, Admit
<1>2. RecordsOK' /\ LockoutEnds' /\ FullIsLocked' /\ GuessesBounded' /\ WindowsPast'
  BY <1>1 DEF LimiterInv, RecordsOK, LockoutEnds, FullIsLocked, GuessesBounded, WindowsPast
<1>3. \A x : Blocked(x)' <=> Blocked(x)
  BY <1>1 DEF Blocked
<1>4. \A x \in Key \ {k} : Checking(x)' = Checking(x)
  BY <1>1, LimiterConstants DEF Checking
<1>5. RoomForTheRest'
  BY <1>1, <1>3, <1>4 DEF LimiterInv, RecordsOK, RoomForTheRest
<1> QED BY <1>2, <1>5 DEF LimiterInv

\* A request that leaves without a record makes room.
LEMMA AbandonInv == ASSUME NEW r \in InFlight PROVE LimiterInv /\ Abandon(r) => LimiterInv'
<1> SUFFICES ASSUME LimiterInv, Abandon(r) PROVE LimiterInv'
  OBVIOUS
<1> DEFINE k0 == checking[r]
<1>1. /\ clock' = clock /\ attempts' = attempts /\ k0 \in Key
      /\ checking' = [checking EXCEPT ![r] = NoKey]
      /\ checking \in [InFlight -> Key \cup {NoKey}]
  BY DEF LimiterInv, RecordsOK, Abandon, Key
<1>2. RecordsOK' /\ LockoutEnds' /\ FullIsLocked' /\ GuessesBounded' /\ WindowsPast'
  BY <1>1 DEF LimiterInv, RecordsOK, LockoutEnds, FullIsLocked, GuessesBounded, WindowsPast
<1>3. \A x : Blocked(x)' <=> Blocked(x)
  BY <1>1 DEF Blocked
<1>4. \A x \in Key : Cardinality(Checking(x)') <= Cardinality(Checking(x))
  <2>1. ASSUME NEW x \in Key PROVE Checking(x)' \subseteq Checking(x)
    BY <1>1, LimiterConstants DEF Checking
  <2> QED BY <2>1, CheckingFinite, FS_Subset
<1>5. RoomForTheRest'
  <2> SUFFICES ASSUME NEW x \in DOMAIN attempts, attempts[x].count >= MaxLoginAttempts, Blocked(x)
               PROVE  attempts[x].count + Cardinality(Checking(x)') <= Limit
    BY <1>1, <1>3 DEF RoomForTheRest, Limit
  <2>1. x \in Key /\ attempts[x].count \in Nat
    BY DEF LimiterInv, RecordsOK, AttemptRecord
  <2>2. attempts[x].count + Cardinality(Checking(x)) <= Limit
    BY DEF LimiterInv, RoomForTheRest
  <2>3. Cardinality(Checking(x)') \in Nat
    BY <1>1, <1>4, LimiterConstants, FS_Subset, FS_CardinalityType DEF Checking
  <2> QED BY <1>4, <2>1, <2>2, <2>3, CheckingFinite, LimiterConstants DEF Limit
<1> QED BY <1>2, <1>5 DEF LimiterInv

\* A success forgets the key's record, so nothing is left to bound.
LEMMA SuccessInv == ASSUME NEW r \in InFlight PROVE LimiterInv /\ RecordSuccess(r) => LimiterInv'
<1> SUFFICES ASSUME LimiterInv, RecordSuccess(r) PROVE LimiterInv'
  OBVIOUS
<1> DEFINE k0 == checking[r]
<1>1. /\ clock' = clock /\ k0 \in Key
      /\ attempts' = [x \in (DOMAIN attempts) \ {k0} |-> attempts[x]]
      /\ checking' = [checking EXCEPT ![r] = NoKey]
      /\ checking \in [InFlight -> Key \cup {NoKey}]
  BY DEF LimiterInv, RecordsOK, RecordSuccess, Key
<1>2. /\ DOMAIN attempts' = (DOMAIN attempts) \ {k0}
      /\ \A x \in DOMAIN attempts' : attempts'[x] = attempts[x]
  BY <1>1
<1>3. RecordsOK'
  BY <1>1, <1>2 DEF LimiterInv, RecordsOK
<1>4. LockoutEnds' /\ FullIsLocked' /\ GuessesBounded' /\ WindowsPast'
  BY <1>1, <1>2 DEF LimiterInv, LockoutEnds, FullIsLocked, GuessesBounded, WindowsPast
<1>5. \A x \in DOMAIN attempts' : (Blocked(x)' <=> Blocked(x)) /\ Checking(x)' = Checking(x)
  <2>1. \A x \in Key \ {k0} : Checking(x)' = Checking(x)
    BY <1>1, CheckingLeaves
  <2>2. \A x \in DOMAIN attempts' : x \in Key \ {k0}
    BY <1>2 DEF LimiterInv, RecordsOK
  <2> QED BY <1>1, <1>2, <2>1, <2>2 DEF Blocked
<1>6. RoomForTheRest'
  BY <1>1, <1>2, <1>5 DEF LimiterInv, RoomForTheRest
<1> QED BY <1>3, <1>4, <1>6 DEF LimiterInv

LEMMA RestartInv == LimiterInv /\ Restart => LimiterInv'
<1> SUFFICES ASSUME LimiterInv, Restart PROVE LimiterInv'
  OBVIOUS
<1>1. DOMAIN attempts' = {} /\ clock' = clock /\ checking' \in [InFlight -> Key \cup {NoKey}]
  BY DEF Restart
<1> QED BY <1>1 DEF LimiterInv, RecordsOK, WindowsPast, LockoutEnds, FullIsLocked, RoomForTheRest,
                    GuessesBounded

\* The failure counts in the record WindowOf gives: below MaxLoginAttempts,
\* or locked out with room for every request still checking.
LEMMA FailureInv == ASSUME NEW r \in InFlight PROVE LimiterInv /\ RecordFailure(r) => LimiterInv'
<1> SUFFICES ASSUME LimiterInv, RecordFailure(r) PROVE LimiterInv'
  OBVIOUS
<1>0. PICK k0 \in Key : k0 = checking[r]
  BY DEF LimiterInv, RecordsOK, RecordFailure
<1> DEFINE rec   == WindowOf(k0)
           n     == rec.count + 1
           until == IF n >= MaxLoginAttempts THEN clock + LoginLockout ELSE rec.blockedUntil
           new   == [count |-> n, windowStart |-> rec.windowStart, blockedUntil |-> until]
<1>1. /\ clock' = clock /\ clock \in Nat
      /\ checking' = [checking EXCEPT ![r] = NoKey]
      /\ checking \in [InFlight -> Key \cup {NoKey}]
      /\ attempts' = [x \in (DOMAIN attempts) \cup {k0} |-> IF x = k0 THEN new ELSE attempts[x]]
  BY <1>0 DEF LimiterInv, RecordsOK, RecordFailure
<1>2. /\ rec \in AttemptRecord
      /\ rec.windowStart <= clock /\ clock - rec.windowStart <= LoginWindow
      /\ rec.blockedUntil <= rec.windowStart + LoginWindow + LoginLockout
      /\ rec.count >= MaxLoginAttempts => /\ k0 \in DOMAIN attempts
                                          /\ rec = attempts[k0]
                                          /\ Blocked(k0)
  <2>1. CASE k0 \in DOMAIN attempts /\ clock - attempts[k0].windowStart <= LoginWindow
    <3>1. rec = attempts[k0] /\ attempts[k0] \in AttemptRecord
      BY <2>1 DEF WindowOf, LimiterInv, RecordsOK
    <3>2. /\ rec.windowStart \in Int /\ rec.blockedUntil \in Int /\ rec.count \in Nat
      BY <3>1 DEF AttemptRecord
    <3>3. rec.count >= MaxLoginAttempts => rec.blockedUntil >= rec.windowStart + LoginLockout
      BY <2>1, <3>1 DEF LimiterInv, FullIsLocked
    <3>4. rec.count >= MaxLoginAttempts => Blocked(k0)
      BY <1>1, <2>1, <3>1, <3>2, <3>3, LimiterConstants DEF Blocked
    <3> QED BY <1>1, <2>1, <3>1, <3>4 DEF LimiterInv, WindowsPast, LockoutEnds
  <2>2. CASE ~(k0 \in DOMAIN attempts /\ clock - attempts[k0].windowStart <= LoginWindow)
    <3>1. rec = [count |-> 0, windowStart |-> clock, blockedUntil |-> ZeroTime]
      BY <2>2 DEF WindowOf
    <3> QED BY <1>1, <3>1, LimiterConstants DEF AttemptRecord, ZeroTime
  <2> QED BY <2>1, <2>2
<1> HIDE DEF rec
<1>3. /\ new \in AttemptRecord /\ new.count = rec.count + 1 /\ rec.count \in Nat
      /\ new.windowStart = rec.windowStart /\ new.blockedUntil = until
      /\ rec.windowStart \in Int /\ until \in Int
  <2>1. rec.count \in Nat /\ rec.windowStart \in Int /\ rec.blockedUntil \in Int
    BY <1>2 DEF AttemptRecord
  <2>2. until \in Int /\ n \in Nat
    BY <1>1, <2>1, LimiterConstants
  <2> HIDE DEF until
  <2> QED BY <2>1, <2>2 DEF AttemptRecord
<1>4. /\ DOMAIN attempts' = (DOMAIN attempts) \cup {k0}
      /\ attempts'[k0] = new
      /\ \A x \in (DOMAIN attempts) \ {k0} : attempts'[x] = attempts[x]
  BY <1>1
<1>5. /\ Cardinality(Checking(k0)') = Cardinality(Checking(k0)) - 1
      /\ \A x \in Key \ {k0} : Checking(x)' = Checking(x)
  BY <1>0, <1>1, CheckingLeaves
<1> DEFINE rest == Cardinality(Checking(k0))
<1>6. rest \in Nat /\ rest >= 1 /\ rest <= Cardinality(InFlight) /\ Cardinality(InFlight) \in Nat
  <2>1. rest \in Nat /\ rest <= Cardinality(InFlight) /\ Cardinality(InFlight) \in Nat
    BY CheckingFinite
  <2>2. r \in Checking(k0) /\ IsFiniteSet(Checking(k0))
    BY <1>0, CheckingFinite DEF Checking
  <2>3. rest # 0
    BY <2>2, FS_EmptySet
  <2> QED BY <2>1, <2>3
<1>7. new.count >= MaxLoginAttempts => new.count + (rest - 1) <= Limit
  <2>1. CASE rec.count >= MaxLoginAttempts
    <3>1. rec.count + rest <= Limit
      BY <1>2, <2>1 DEF LimiterInv, RoomForTheRest
    <3> QED BY <1>3, <1>6, <3>1, LimiterConstants DEF Limit
  <2>2. CASE rec.count < MaxLoginAttempts
    BY <1>3, <1>6, <2>2, LimiterConstants DEF Limit
  <2> QED BY <1>3, <2>1, <2>2, LimiterConstants
<1> HIDE DEF new, until, rest
<1>8. RecordsOK'
  BY <1>1, <1>3, <1>4 DEF LimiterInv, RecordsOK
<1>9. WindowsPast'
  BY <1>1, <1>2, <1>3, <1>4 DEF LimiterInv, WindowsPast
<1>10. LockoutEnds'
  <2>1. until <= rec.windowStart + LoginWindow + LoginLockout
    BY <1>1, <1>2, <1>3, LimiterConstants DEF until
  <2> QED BY <1>3, <1>4, <2>1 DEF LimiterInv, LockoutEnds
<1>11. FullIsLocked'
  <2>1. new.count >= MaxLoginAttempts => until >= rec.windowStart + LoginLockout
    BY <1>1, <1>2, <1>3, LimiterConstants DEF until
  <2> QED BY <1>3, <1>4, <2>1 DEF LimiterInv, FullIsLocked
<1>12. RoomForTheRest'
  <2> SUFFICES ASSUME NEW x \in DOMAIN attempts', attempts'[x].count >= MaxLoginAttempts, Blocked(x)'
               PROVE  attempts'[x].count + Cardinality(Checking(x)') <= Limit
    BY DEF RoomForTheRest, Limit
  <2>1. CASE x = k0
    BY <1>4, <1>5, <1>7, <2>1 DEF rest
  <2>2. CASE x # k0
    <3>1. x \in DOMAIN attempts /\ attempts'[x] = attempts[x] /\ x \in Key
      BY <1>4, <2>2 DEF LimiterInv, RecordsOK
    <3>2. Blocked(x) /\ Checking(x)' = Checking(x)
      BY <1>1, <1>5, <2>2, <3>1 DEF Blocked
    <3> QED BY <3>1, <3>2 DEF LimiterInv, RoomForTheRest
  <2> QED BY <2>1, <2>2
<1>13. GuessesBounded'
  <2>1. new.count <= Limit
    BY <1>3, <1>6, <1>7, LimiterConstants DEF Limit
  <2> QED BY <1>4, <2>1 DEF LimiterInv, GuessesBounded, Limit
<1> QED BY <1>8, <1>9, <1>10, <1>11, <1>12, <1>13 DEF LimiterInv

-----------------------------------------------------------------------------
\* A step of the limiter, the clock or a restart preserves the invariant.
LEMMA NextInv == LimiterInv /\ [LimiterNext]_limiterVars => LimiterInv'
<1> SUFFICES ASSUME LimiterInv, [LimiterNext]_limiterVars PROVE LimiterInv'
  OBVIOUS
<1>1. CASE UNCHANGED limiterVars
  <2>1. attempts' = attempts /\ clock' = clock /\ checking' = checking
    BY <1>1 DEF limiterVars
  <2> QED BY <2>1 DEF LimiterInv, RecordsOK, WindowsPast, LockoutEnds, FullIsLocked, RoomForTheRest,
                      GuessesBounded, Blocked, Checking
<1>2. CASE \E r \in InFlight : Attempt(r)
  BY <1>2, AdmitInv, FailureInv, SuccessInv, AbandonInv DEF Attempt
<1> QED BY <1>1, <1>2, AdvanceInv, RestartInv DEF LimiterNext

LEMMA LimiterInvariance == LimiterSpec => []LimiterInv
BY LimiterInitInv, NextInv, PTL DEF LimiterSpec

\* A lockout is over at the latest one window and one lockout after the
\* first failure that counted, however late failures are recorded.
THEOREM LockoutsEnd == LimiterSpec => []LockoutEnds
<1>1. LimiterInv => LockoutEnds
  BY DEF LimiterInv
<1> QED BY <1>1, LimiterInvariance, PTL

\* No window records more failures than MaxLoginAttempts - 1 and the requests
\* that were already past blocked(), for any number of keys and requests.
THEOREM FewGuesses == LimiterSpec => []GuessesBounded
<1>1. LimiterInv => GuessesBounded
  BY DEF LimiterInv
<1> QED BY <1>1, LimiterInvariance, PTL

-----------------------------------------------------------------------------
(* That a lockout is earned, by the histories.                             *)

\* The failures a record counts are the last ones: all in its window, none
\* after the last, which is the one that set the end of the lockout.
CountsTheLast(a, failed) ==
  /\ a.count \in 1 .. Len(failed)
  /\ \A i \in (Len(failed) - a.count + 1) .. Len(failed) :
       a.windowStart <= failed[i] /\ failed[i] <= failed[Len(failed)]
  /\ failed[Len(failed)] <= a.windowStart + LoginWindow
  /\ a.blockedUntil = IF a.count >= MaxLoginAttempts
                        THEN failed[Len(failed)] + LoginLockout ELSE ZeroTime

HistoryOK ==
  /\ failedAt \in [Key -> Seq(Nat)]
  /\ locked \in [Key -> Int]
  /\ \A k \in Key : \A i \in DOMAIN failedAt[k] : failedAt[k][i] <= clock
  /\ \A k \in DOMAIN attempts : CountsTheLast(attempts[k], failedAt[k])

LEMMA HistoryInit == LimiterInit => HistoryOK
<1> SUFFICES ASSUME LimiterInit PROVE HistoryOK
  OBVIOUS
<1>1. /\ DOMAIN attempts = {} /\ failedAt = [k \in Key |-> << >>]
      /\ locked \in [Key -> Int]
  BY DEF LimiterInit, ZeroTime
<1> QED BY <1>1 DEF HistoryOK

\* One more failure, in the window of the record or in a new one.
LEMMA OneMore ==
  ASSUME NEW rec \in AttemptRecord, NEW failed \in Seq(Nat), clock \in Nat,
         \A i \in DOMAIN failed : failed[i] <= clock,
         rec.windowStart <= clock, clock <= rec.windowStart + LoginWindow,
         \/ rec.count = 0 /\ rec.blockedUntil = ZeroTime
         \/ CountsTheLast(rec, failed),
         NEW new, new = [count |-> rec.count + 1, windowStart |-> rec.windowStart,
                         blockedUntil |-> IF rec.count + 1 >= MaxLoginAttempts
                                            THEN clock + LoginLockout ELSE rec.blockedUntil]
  PROVE  CountsTheLast(new, Append(failed, clock))
<1> DEFINE more == Append(failed, clock)
           L == Len(failed)
<1>1. /\ L \in Nat /\ Len(more) = L + 1 /\ more[L + 1] = clock
      /\ \A i \in 1 .. L : more[i] = failed[i] /\ failed[i] \in Nat /\ failed[i] <= clock
  OBVIOUS
<1>2. /\ rec.count \in Nat /\ rec.windowStart \in Int /\ rec.blockedUntil \in Int
      /\ new.count = rec.count + 1 /\ new.windowStart = rec.windowStart
      /\ new.blockedUntil = IF rec.count + 1 >= MaxLoginAttempts
                              THEN clock + LoginLockout ELSE rec.blockedUntil
  BY DEF AttemptRecord
<1> HIDE DEF more
<1>3. rec.count <= L /\ (rec.count < MaxLoginAttempts => rec.blockedUntil = ZeroTime)
  BY <1>1, <1>2, LimiterConstants DEF CountsTheLast
<1>4. \A i \in (L - rec.count + 1) .. L : rec.windowStart <= failed[i]
  BY <1>1, <1>2 DEF CountsTheLast
<1>5. \A i \in (Len(more) - new.count + 1) .. Len(more) :
        new.windowStart <= more[i] /\ more[i] <= more[Len(more)]
  <2> SUFFICES ASSUME NEW i \in (L - rec.count + 1) .. L + 1
               PROVE  rec.windowStart <= more[i] /\ more[i] <= clock
    BY <1>1, <1>2
  <2>1. CASE i = L + 1
    BY <1>1, <1>2, <2>1
  <2>2. CASE i # L + 1
    <3>1. i \in 1 .. L /\ i \in (L - rec.count + 1) .. L
      BY <1>1, <1>2, <1>3, <2>2
    <3>2. rec.windowStart <= failed[i] /\ more[i] = failed[i] /\ failed[i] <= clock
      BY <1>1, <1>4, <3>1
    <3> QED BY <3>2
  <2> QED BY <2>1, <2>2
<1>6. new.blockedUntil = IF new.count >= MaxLoginAttempts
                           THEN more[Len(more)] + LoginLockout ELSE ZeroTime
  BY <1>1, <1>2, <1>3, LimiterConstants
<1>7. CountsTheLast(new, more)
  BY <1>1, <1>2, <1>3, <1>5, <1>6 DEF CountsTheLast
<1> QED BY <1>7 DEF more

LEMMA HistoryFailure ==
  ASSUME LimiterInv, HistoryOK, NEW r \in InFlight, RecordFailure(r)
  PROVE  HistoryOK'
<1>0. PICK k0 \in Key : k0 = checking[r]
  BY DEF LimiterInv, RecordsOK, RecordFailure
<1> DEFINE rec   == WindowOf(k0)
           n     == rec.count + 1
           until == IF n >= MaxLoginAttempts THEN clock + LoginLockout ELSE rec.blockedUntil
           new   == [count |-> n, windowStart |-> rec.windowStart, blockedUntil |-> until]
<1>1. /\ clock' = clock /\ clock \in Nat
      /\ attempts' = [x \in (DOMAIN attempts) \cup {k0} |-> IF x = k0 THEN new ELSE attempts[x]]
      /\ failedAt' = [failedAt EXCEPT ![k0] = Append(failedAt[k0], clock)]
      /\ locked' = [locked EXCEPT ![k0] = IF until > locked[k0] THEN until ELSE locked[k0]]
      /\ failedAt[k0] \in Seq(Nat) /\ failedAt \in [Key -> Seq(Nat)] /\ locked \in [Key -> Int]
  BY <1>0 DEF LimiterInv, RecordsOK, RecordFailure, HistoryOK
<1>2. /\ rec \in AttemptRecord
      /\ rec.windowStart <= clock /\ clock <= rec.windowStart + LoginWindow
      /\ \/ rec.count = 0 /\ rec.blockedUntil = ZeroTime
         \/ CountsTheLast(rec, failedAt[k0])
  <2>1. CASE k0 \in DOMAIN attempts /\ clock - attempts[k0].windowStart <= LoginWindow
    <3>1. rec = attempts[k0] /\ attempts[k0] \in AttemptRecord /\ attempts[k0].windowStart <= clock
      BY <2>1 DEF WindowOf, LimiterInv, RecordsOK, WindowsPast
    <3>2. rec.windowStart \in Int
      BY <3>1 DEF AttemptRecord
    <3> QED BY <1>1, <2>1, <3>1, <3>2, LimiterConstants DEF HistoryOK
  <2>2. CASE ~(k0 \in DOMAIN attempts /\ clock - attempts[k0].windowStart <= LoginWindow)
    <3>1. rec = [count |-> 0, windowStart |-> clock, blockedUntil |-> ZeroTime]
      BY <2>2 DEF WindowOf
    <3> QED BY <1>1, <3>1, LimiterConstants DEF AttemptRecord, ZeroTime
  <2> QED BY <2>1, <2>2
<1>3. until \in Int
  BY <1>1, <1>2, LimiterConstants DEF AttemptRecord
<1>4. CountsTheLast(new, Append(failedAt[k0], clock))
  <2> HIDE DEF rec
  <2>1. \A i \in DOMAIN failedAt[k0] : failedAt[k0][i] <= clock
    BY DEF HistoryOK
  <2> QED BY <1>1, <1>2, <2>1, OneMore
<1> HIDE DEF rec, new, until
<1>5. failedAt' \in [Key -> Seq(Nat)] /\ locked' \in [Key -> Int]
  BY <1>1, <1>3
<1>6. \A k \in Key : \A i \in DOMAIN failedAt'[k] : failedAt'[k][i] <= clock'
  <2> SUFFICES ASSUME NEW k \in Key, NEW i \in DOMAIN failedAt'[k]
               PROVE  failedAt'[k][i] <= clock
    BY <1>1
  <2>1. CASE k # k0
    BY <1>1, <2>1 DEF HistoryOK
  <2>2. CASE k = k0
    <3>1. failedAt'[k] = Append(failedAt[k0], clock)
      BY <1>1, <2>2
    <3>2. \A j \in 1 .. Len(failedAt[k0]) : failedAt[k0][j] <= clock
      BY <1>1 DEF HistoryOK
    <3> QED BY <1>1, <3>1, <3>2
  <2> QED BY <2>1, <2>2
<1>7. \A k \in DOMAIN attempts' : CountsTheLast(attempts'[k], failedAt'[k])
  <2> SUFFICES ASSUME NEW k \in DOMAIN attempts'
               PROVE  CountsTheLast(attempts'[k], failedAt'[k])
    OBVIOUS
  <2>1. CASE k = k0
    BY <1>1, <1>4, <2>1
  <2>2. CASE k # k0
    <3>1. k \in DOMAIN attempts /\ attempts'[k] = attempts[k] /\ k \in Key
      BY <1>1, <2>2 DEF LimiterInv, RecordsOK
    <3>2. failedAt'[k] = failedAt[k]
      BY <1>1, <2>2, <3>1
    <3> QED BY <3>1, <3>2 DEF HistoryOK
  <2> QED BY <2>1, <2>2
<1> QED BY <1>5, <1>6, <1>7 DEF HistoryOK

LEMMA HistoryNext == LimiterInv /\ HistoryOK /\ [LimiterNext]_limiterVars => HistoryOK'
<1> SUFFICES ASSUME LimiterInv, HistoryOK, [LimiterNext]_limiterVars PROVE HistoryOK'
  OBVIOUS
<1>1. CASE UNCHANGED <<attempts, failedAt, locked>> /\ clock' \in Nat /\ clock <= clock'
  <2>1. \A k \in Key : \A i \in DOMAIN failedAt[k] : failedAt[k][i] <= clock'
    <3> SUFFICES ASSUME NEW k \in Key, NEW i \in DOMAIN failedAt[k]
                 PROVE  failedAt[k][i] <= clock'
      OBVIOUS
    <3>1. failedAt[k][i] \in Nat /\ failedAt[k][i] <= clock /\ clock \in Nat
      BY DEF HistoryOK, LimiterInv, RecordsOK
    <3> QED BY <1>1, <3>1
  <2> QED BY <1>1, <2>1 DEF HistoryOK
<1>2. CASE UNCHANGED limiterVars
  BY <1>1, <1>2 DEF limiterVars, LimiterInv, RecordsOK
<1>3. CASE Advance
  BY <1>1, <1>3 DEF Advance, LimiterInv, RecordsOK
<1>4. CASE Restart
  <2>1. /\ DOMAIN attempts' = {} /\ failedAt' = [k \in Key |-> << >>]
        /\ locked' \in [Key -> Int]
    BY <1>4 DEF Restart, ZeroTime
  <2> QED BY <2>1 DEF HistoryOK
<1>5. ASSUME NEW r \in InFlight, Attempt(r)
      PROVE  HistoryOK'
  <2>1. CASE (\E k \in Key : Admit(r, k)) \/ Abandon(r)
    BY <1>1, <2>1 DEF Admit, Abandon, LimiterInv, RecordsOK
  <2>2. CASE RecordSuccess(r)
    <3> DEFINE k0 == checking[r]
    <3>1. /\ clock' = clock /\ k0 \in Key
          /\ attempts' = [x \in (DOMAIN attempts) \ {k0} |-> attempts[x]]
          /\ failedAt' = [failedAt EXCEPT ![k0] = << >>]
          /\ locked' = [locked EXCEPT ![k0] = ZeroTime]
          /\ failedAt \in [Key -> Seq(Nat)] /\ locked \in [Key -> Int]
          /\ DOMAIN attempts \subseteq Key
      BY <2>2 DEF RecordSuccess, Key, HistoryOK, LimiterInv, RecordsOK
    <3>2. failedAt' \in [Key -> Seq(Nat)] /\ locked' \in [Key -> Int]
      BY <3>1 DEF ZeroTime
    <3>3. \A k \in Key : failedAt'[k] = failedAt[k] \/ failedAt'[k] = << >>
      BY <3>1
    <3>4. \A k \in DOMAIN attempts' : k \in DOMAIN attempts /\ attempts'[k] = attempts[k]
                                      /\ failedAt'[k] = failedAt[k]
      BY <3>1
    <3> QED BY <3>1, <3>2, <3>3, <3>4 DEF HistoryOK
  <2> QED BY <1>5, <2>1, <2>2, HistoryFailure DEF Attempt
<1> QED BY <1>2, <1>3, <1>4, <1>5 DEF LimiterNext

LEMMA HistoryInvariance == LimiterSpec => [](LimiterInv /\ HistoryOK)
BY LimiterInitInv, NextInv, HistoryInit, HistoryNext, PTL DEF LimiterSpec

\* A key is locked out only after MaxLoginAttempts failures within one window
\* of each other and without a success among them.
THEOREM LockoutsEarned == LimiterSpec => []LockoutIsEarned
<1>1. ASSUME LimiterInv, HistoryOK, NEW k \in Key, Blocked(k)
      PROVE  LET began == attempts[k].blockedUntil - LoginLockout IN
               Cardinality({ i \in DOMAIN failedAt[k] :
                 began - LoginWindow <= failedAt[k][i] /\ failedAt[k][i] <= began })
                   >= MaxLoginAttempts
  <2> DEFINE a == attempts[k]
             failed == failedAt[k]
             L == Len(failed)
             began == a.blockedUntil - LoginLockout
             Counted == { i \in DOMAIN failed :
                            began - LoginWindow <= failed[i] /\ failed[i] <= began }
             Last == (L - a.count + 1) .. L
  <2>1. /\ k \in DOMAIN attempts /\ a \in AttemptRecord /\ failed \in Seq(Nat)
        /\ CountsTheLast(a, failed) /\ clock \in Nat /\ a.blockedUntil > clock
    BY <1>1 DEF LimiterInv, RecordsOK, HistoryOK, Blocked
  <2>2. /\ a.count \in Nat /\ a.windowStart \in Int /\ a.blockedUntil \in Int
        /\ L \in Nat /\ DOMAIN failed = 1 .. L
    BY <2>1 DEF AttemptRecord
  <2> HIDE DEF a, failed
  <2>3. a.count \in 1 .. L /\ failed[L] \in Nat
    BY <2>1, <2>2 DEF CountsTheLast
  <2>4. a.count >= MaxLoginAttempts /\ a.blockedUntil = failed[L] + LoginLockout
    <3>1. a.blockedUntil # ZeroTime
      BY <2>1, <2>2 DEF ZeroTime
    <3> QED BY <2>1, <3>1, <2>2, LimiterConstants DEF CountsTheLast
  <2>5. began = failed[L]
    BY <2>2, <2>3, <2>4, LimiterConstants
  <2>6. Last \subseteq Counted
    <3> SUFFICES ASSUME NEW i \in Last
                 PROVE  i \in 1 .. L /\ failed[L] - LoginWindow <= failed[i] /\ failed[i] <= failed[L]
      BY <2>2, <2>5
    <3>1. i \in 1 .. L
      BY <2>2, <2>3
    <3>2. failed[i] \in Nat
      BY <2>1, <2>2, <3>1
    <3>3. /\ a.windowStart <= failed[i] /\ failed[i] <= failed[L]
          /\ failed[L] <= a.windowStart + LoginWindow
      BY <2>1 DEF CountsTheLast
    <3> QED BY <2>2, <2>3, <3>1, <3>2, <3>3, LimiterConstants
  <2>7. IsFiniteSet(Counted)
    <3>1. IsFiniteSet(1 .. L)
      BY <2>2, FS_Interval
    <3> QED BY <2>2, <3>1, FS_Subset
  <2>8. Cardinality(Last) = a.count
    <3>1. L - a.count + 1 \in Int /\ L \in Int /\ L - a.count + 1 <= L
      BY <2>2, <2>3
    <3>2. Cardinality(Last) = L - (L - a.count + 1) + 1
      BY <3>1, FS_Interval
    <3> QED BY <2>2, <3>2
  <2>9. Cardinality(Last) <= Cardinality(Counted) /\ Cardinality(Counted) \in Nat
    BY <2>6, <2>7, FS_Subset, FS_CardinalityType
  <2>10. Cardinality(Counted) >= MaxLoginAttempts
    <3> HIDE DEF Last, Counted
    <3> QED BY <2>2, <2>4, <2>8, <2>9, LimiterConstants
  <2> QED BY <2>10 DEF a, failed
<1>2. LimiterInv /\ HistoryOK => LockoutIsEarned
  BY <1>1 DEF LockoutIsEarned
<1> QED BY <1>2, HistoryInvariance, PTL

\* The map, the requests and the histories hold what they declare.
THEOREM LimiterTypeCorrect == LimiterSpec => []LimiterTypeOK
<1>1. LimiterInv /\ HistoryOK => LimiterTypeOK
  BY DEF LimiterInv, RecordsOK, HistoryOK, LimiterTypeOK
<1> QED BY <1>1, HistoryInvariance, PTL

-----------------------------------------------------------------------------
(* The sessions.                                                           *)

\* The three claims of a token or of a request for one.
PasswordHeld(u, p, t) ==
  HeldSince(u, p, u \in DOMAIN account /\ account[u].password = p, t)
ActiveHeld(u, t) ==
  HeldSince(u, "active", u \in DOMAIN account /\ account[u].active, t)
ModulesHeld(u, S, t) == \A m \in S : HeldSince(u, m, m \in grants[u], t)

\* The password in use, if the account is there still, is not older than d.
ChangedSince(u, d) == u \in DOMAIN account => account[u].changed >= d

\* TypeOK but for the policy, which no other variable depends on.
StateOK ==
  /\ now \in Time
  /\ account \in TablesOf(User, AccountRow)
  /\ grants \in [User -> SUBSET Module]
  /\ cookie \in [Jar -> Token \cup {NoToken}]
  /\ req \in [Req -> Request]
  /\ lost \in [User -> [Module \cup Password \cup {"active"} -> Time \cup {None}]]

PolicyOK == policy \in Days

\* Nothing recorded is later than the clock.
ClockIsLast ==
  /\ \A u \in DOMAIN account : account[u].changed <= now
  /\ \A u \in User, x \in Module \cup Password \cup {"active"} :
       lost[u][x] # None => lost[u][x] <= now

\* A token, wherever it is.
TokenTrue(t) ==
  /\ t.since <= now
  /\ PasswordHeld(t.user, t.given, t.since)
  /\ t.by = "login" => ActiveHeld(t.user, t.since)
  /\ ModulesHeld(t.user, t.modules, t.since)
  /\ ~t.mustChange /\ (t.by = "login" => t.limit > 0) => ChangedSince(t.user, t.since - t.limit)

\* A request, by the step it has come to.
Asked(q) ==
  /\ q.at # "idle" =>
       /\ q.op \in {"login", "change"} /\ q.jar \in Jar /\ q.since <= now
  /\ q.at \notin {"idle", "answer"} =>
       /\ q.name \in Name /\ q.given \in Password /\ (q.op = "change" => q.new \in Password)
  /\ q.at # "answer" => q.token = NoToken
  /\ q.at = "answer" => q.token # NoToken

ReadTrue(q) ==
  q.at \in {"setPassword", "readModules", "sign"} =>
    /\ q.user \in User
    /\ PasswordHeld(q.user, q.given, q.since)
    /\ q.op = "login" => /\ q.at # "setPassword"
                         /\ ActiveHeld(q.user, q.since)
                         /\ ChangedSince(q.user, q.changed)
    /\ q.op = "change" /\ q.at # "setPassword" => ChangedSince(q.user, q.since)

RequestTrue(q) ==
  /\ Asked(q) /\ ReadTrue(q)
  /\ q.at = "sign" => ModulesHeld(q.user, q.modules, q.since)
  /\ q.at = "answer" => TokenTrue(q.token)

TokensTrue == \A j \in Jar, t \in Token : cookie[j] = t => TokenTrue(t)
RequestsTrue == \A r \in Req, q \in Request : req[r] = q => RequestTrue(q)

Inv == StateOK /\ ClockIsLast /\ TokensTrue /\ RequestsTrue

-----------------------------------------------------------------------------
(* Time goes by, and what is lost is recorded.                             *)

Claim == Module \cup Password \cup {"active"}

\* What every step does to accounts, grants and the clock.
Ages ==
  /\ now <= now'
  /\ \A u \in User, x \in Claim : lost'[u][x] \in {lost[u][x], now}
  /\ \A u \in User, m \in Module :
       m \in grants[u] /\ m \notin grants'[u] => lost'[u][m] = now
  /\ \A u \in DOMAIN account :
       /\ u \notin DOMAIN account' \/ account'[u].password # account[u].password =>
            lost'[u][account[u].password] = now
       /\ account[u].active /\ (u \notin DOMAIN account' \/ ~account'[u].active) =>
            lost'[u]["active"] = now
  /\ \A u \in DOMAIN account' :
       /\ u \in DOMAIN account
       /\ account'[u].changed \in {account[u].changed, now}

\* A row of the table of accounts.
LEMMA AccountFacts ==
  ASSUME account \in TablesOf(User, AccountRow)
  PROVE  /\ DOMAIN account \subseteq User
         /\ \A u \in DOMAIN account : account[u] \in AccountRow
         /\ account = [u \in DOMAIN account |-> account[u]]
BY DEF TablesOf

\* What was true of some moment of the past stays true of it.
LEMMA HeldStays ==
  ASSUME StateOK, ClockIsLast, Ages, NEW u \in User, NEW t \in Time, t <= now
  PROVE  /\ \A p \in Password : PasswordHeld(u, p, t) => PasswordHeld(u, p, t)'
         /\ ActiveHeld(u, t) => ActiveHeld(u, t)'
         /\ \A S \in SUBSET Module : ModulesHeld(u, S, t) => ModulesHeld(u, S, t)'
<1>1. now \in Nat /\ t \in Nat /\ None \notin Nat
  BY SessionsConstants DEF StateOK, Time
<1>2. ASSUME NEW x \in Claim, lost'[u][x] = now
      PROVE  lost'[u][x] # None /\ lost'[u][x] >= t
  BY <1>1, <1>2
<1>3. ASSUME NEW x \in Claim, lost[u][x] # None /\ lost[u][x] >= t
      PROVE  lost'[u][x] # None /\ lost'[u][x] >= t
  BY <1>1, <1>2, <1>3 DEF Ages
<1>4. ASSUME NEW p \in Password, PasswordHeld(u, p, t)
      PROVE  PasswordHeld(u, p, t)'
  <2>1. p \in Claim
    BY DEF Claim
  <2>2. CASE lost[u][p] # None /\ lost[u][p] >= t
    BY <1>3, <2>1, <2>2 DEF PasswordHeld, HeldSince
  <2>3. CASE u \in DOMAIN account /\ account[u].password = p
    <3>1. CASE u \in DOMAIN account' /\ account'[u].password = p
      BY <3>1 DEF PasswordHeld, HeldSince
    <3>2. CASE ~(u \in DOMAIN account' /\ account'[u].password = p)
      BY <2>1, <2>3, <3>2, <1>2 DEF Ages, PasswordHeld, HeldSince
    <3> QED BY <3>1, <3>2
  <2> QED BY <1>4, <2>2, <2>3 DEF PasswordHeld, HeldSince
<1>5. ASSUME ActiveHeld(u, t)
      PROVE  ActiveHeld(u, t)'
  <2>1. "active" \in Claim
    BY DEF Claim
  <2>2. CASE lost[u]["active"] # None /\ lost[u]["active"] >= t
    BY <1>3, <2>1, <2>2 DEF ActiveHeld, HeldSince
  <2>3. CASE u \in DOMAIN account /\ account[u].active
    <3>1. CASE u \in DOMAIN account' /\ account'[u].active
      BY <3>1 DEF ActiveHeld, HeldSince
    <3>2. CASE ~(u \in DOMAIN account' /\ account'[u].active)
      BY <2>1, <2>3, <3>2, <1>2 DEF Ages, ActiveHeld, HeldSince
    <3> QED BY <3>1, <3>2
  <2> QED BY <1>5, <2>2, <2>3 DEF ActiveHeld, HeldSince
<1>6. ASSUME NEW S \in SUBSET Module, ModulesHeld(u, S, t), NEW m \in S
      PROVE  HeldSince(u, m, m \in grants[u], t)'
  <2>1. m \in Claim /\ m \in Module
    BY DEF Claim
  <2>2. CASE lost[u][m] # None /\ lost[u][m] >= t
    BY <1>3, <2>1, <2>2 DEF HeldSince
  <2>3. CASE m \in grants[u]
    <3>1. CASE m \in grants'[u]
      BY <3>1 DEF HeldSince
    <3>2. CASE m \notin grants'[u]
      BY <2>1, <2>3, <3>2, <1>2 DEF Ages, HeldSince
    <3> QED BY <3>1, <3>2
  <2> QED BY <1>6, <2>2, <2>3 DEF ModulesHeld, HeldSince
<1> QED BY <1>4, <1>5, <1>6 DEF ModulesHeld

\* A password that is in use was set when it was, or later.
LEMMA ChangedStays ==
  ASSUME StateOK, ClockIsLast, Ages, NEW u \in User, NEW d \in Int, ChangedSince(u, d)
  PROVE  ChangedSince(u, d)'
<1>1. now \in Nat
  BY SessionsConstants DEF StateOK, Time
<1>2. \A v \in DOMAIN account : account[v].changed \in Nat
  BY AccountFacts, SessionsConstants DEF StateOK, AccountRow, Time
<1> QED BY <1>1, <1>2 DEF ChangedSince, Ages, ClockIsLast

LEMMA ClockStays ==
  ASSUME StateOK, StateOK', ClockIsLast, Ages
  PROVE  ClockIsLast'
<1>1. now \in Nat /\ now' \in Nat /\ now <= now' /\ None \notin Nat
  BY SessionsConstants DEF StateOK, Time, Ages
<1>2. ASSUME NEW u \in DOMAIN account'
      PROVE  account'[u].changed <= now'
  <2>1. account[u].changed \in Nat /\ account[u].changed <= now
    BY <1>2, AccountFacts, SessionsConstants DEF StateOK, AccountRow, Time, Ages, ClockIsLast
  <2> QED BY <1>1, <1>2, <2>1 DEF Ages
<1>3. ASSUME NEW u \in User, NEW x \in Claim, lost'[u][x] # None
      PROVE  lost'[u][x] <= now'
  <2>1. lost[u][x] \in Nat \cup {None} /\ (lost[u][x] # None => lost[u][x] <= now)
    BY SessionsConstants DEF StateOK, Time, Claim, ClockIsLast
  <2> QED BY <1>1, <1>3, <2>1 DEF Ages
<1> QED BY <1>2, <1>3 DEF ClockIsLast, Claim

LEMMA TokenStays ==
  ASSUME StateOK, ClockIsLast, Ages, now' \in Nat, NEW t \in Token, TokenTrue(t)
  PROVE  TokenTrue(t)'
<1>1. /\ t.user \in User /\ t.since \in Time /\ t.since <= now
      /\ t.given \in Password /\ t.modules \in SUBSET Module
      /\ t.since - t.limit \in Int
  BY SessionsConstants DEF Token, TokenTrue, Time
<1>2. t.since <= now'
  BY <1>1, SessionsConstants DEF StateOK, Time, Ages
<1>3. /\ PasswordHeld(t.user, t.given, t.since)'
      /\ t.by = "login" => ActiveHeld(t.user, t.since)'
      /\ ModulesHeld(t.user, t.modules, t.since)'
  BY <1>1, HeldStays DEF TokenTrue
<1>4. ~t.mustChange /\ (t.by = "login" => t.limit > 0) => ChangedSince(t.user, t.since - t.limit)'
  BY <1>1, ChangedStays DEF TokenTrue
<1> QED BY <1>2, <1>3, <1>4 DEF TokenTrue

LEMMA RequestStays ==
  ASSUME StateOK, ClockIsLast, Ages, now' \in Nat, NEW q \in Request, RequestTrue(q)
  PROVE  RequestTrue(q)'
<1>1. q.since \in Time /\ q.changed \in Int /\ q.since \in Int /\ q.modules \in SUBSET Module
  BY SessionsConstants DEF Request, Time
<1>2. Asked(q)'
  BY <1>1, SessionsConstants DEF RequestTrue, Asked, StateOK, Time, Ages
<1>3. q.at # "idle" => q.since <= now
  BY DEF RequestTrue, Asked
<1>4. ReadTrue(q)'
  <2> SUFFICES ASSUME q.at \in {"setPassword", "readModules", "sign"}
               PROVE  /\ q.user \in User
                      /\ PasswordHeld(q.user, q.given, q.since)'
                      /\ q.op = "login" => /\ q.at # "setPassword"
                                           /\ ActiveHeld(q.user, q.since)'
                                           /\ ChangedSince(q.user, q.changed)'
                      /\ q.op = "change" /\ q.at # "setPassword" => ChangedSince(q.user, q.since)'
    BY DEF ReadTrue
  <2>1. q.user \in User /\ q.given \in Password /\ q.since <= now
    BY <1>3 DEF RequestTrue, ReadTrue, Asked
  <2>2. PasswordHeld(q.user, q.given, q.since)'
    BY <1>1, <2>1, HeldStays DEF RequestTrue, ReadTrue
  <2>3. q.op = "login" => q.at # "setPassword" /\ ActiveHeld(q.user, q.since)'
    BY <1>1, <2>1, HeldStays DEF RequestTrue, ReadTrue
  <2>4. q.op = "login" => ChangedSince(q.user, q.changed)'
    BY <1>1, <2>1, ChangedStays DEF RequestTrue, ReadTrue
  <2>5. q.op = "change" /\ q.at # "setPassword" => ChangedSince(q.user, q.since)'
    BY <1>1, <2>1, ChangedStays DEF RequestTrue, ReadTrue
  <2> QED BY <2>1, <2>2, <2>3, <2>4, <2>5
<1>5. q.at = "sign" => ModulesHeld(q.user, q.modules, q.since)'
  <2> SUFFICES ASSUME q.at = "sign" PROVE ModulesHeld(q.user, q.modules, q.since)'
    OBVIOUS
  <2>1. q.user \in User /\ q.since <= now
    BY <1>3 DEF RequestTrue, ReadTrue
  <2> QED BY <1>1, <2>1, HeldStays DEF RequestTrue
<1>6. q.at = "answer" => TokenTrue(q.token)'
  <2> SUFFICES ASSUME q.at = "answer" PROVE TokenTrue(q.token)'
    OBVIOUS
  <2>1. q.token \in Token
    BY DEF RequestTrue, Asked, Request
  <2> QED BY <2>1, TokenStays DEF RequestTrue
<1> QED BY <1>2, <1>4, <1>5, <1>6 DEF RequestTrue

-----------------------------------------------------------------------------
(* The steps.                                                              *)

\* The part of the state that accounts live in.
TablesOK ==
  /\ now \in Time
  /\ account \in TablesOf(User, AccountRow)
  /\ grants \in [User -> SUBSET Module]
  /\ lost \in [User -> [Claim -> Time \cup {None}]]

\* A step that keeps the tables well-formed and lets them age keeps the
\* invariant if the cookies and requests it changes are true.
LEMMA StepInv ==
  ASSUME Inv, Ages, TablesOK',
         cookie' \in [Jar -> Token \cup {NoToken}],
         req' \in [Req -> Request],
         \A j \in Jar, t \in Token : cookie'[j] = t => cookie[j] = t \/ TokenTrue(t)',
         \A r \in Req, q \in Request : req'[r] = q => req[r] = q \/ RequestTrue(q)'
  PROVE  Inv'
<1>1. StateOK'
  BY DEF StateOK, TablesOK, Claim
<1>2. ClockIsLast'
  BY <1>1, ClockStays DEF Inv
<1>3. now' \in Nat
  BY <1>1, SessionsConstants DEF StateOK, Time
<1>4. TokensTrue'
  <2>1. \A t \in Token : TokenTrue(t) => TokenTrue(t)'
    BY <1>3, TokenStays DEF Inv
  <2> QED BY <2>1 DEF Inv, TokensTrue
<1>5. RequestsTrue'
  <2>1. \A q \in Request : RequestTrue(q) => RequestTrue(q)'
    BY <1>3, RequestStays DEF Inv
  <2> QED BY <2>1 DEF Inv, RequestsTrue
<1> QED BY <1>1, <1>2, <1>4, <1>5 DEF Inv

\* While the tables stay as they are, everything else stays true.
LEMMA TablesStay ==
  ASSUME Inv, UNCHANGED <<now, account, grants, lost>>
  PROVE  Ages /\ TablesOK'
<1>1. now \in Nat /\ now <= now
  BY SessionsConstants DEF Inv, StateOK, Time
<1>2. Ages
  BY <1>1 DEF Ages
<1>3. TablesOK'
  BY DEF Inv, StateOK, TablesOK, Claim
<1> QED BY <1>2, <1>3

\* One request goes on, and nothing else.
LEMMA MoveInv ==
  ASSUME Inv, NEW r \in Req, UNCHANGED <<now, account, grants, cookie, lost>>,
         \E q \in Request : RequestTrue(q) /\ req' = [req EXCEPT ![r] = q]
  PROVE  Inv'
<1>1. Ages /\ TablesOK'
  BY TablesStay
<1>2. PICK q \in Request : RequestTrue(q) /\ req' = [req EXCEPT ![r] = q]
  OBVIOUS
<1>3. req' \in [Req -> Request] /\ cookie' \in [Jar -> Token \cup {NoToken}]
  BY <1>2 DEF Inv, StateOK
<1>4. RequestTrue(q)'
  <2>1. now' \in Nat
    BY SessionsConstants DEF Inv, StateOK, Time
  <2> QED BY <1>1, <1>2, <2>1, RequestStays DEF Inv
<1>5. \A s \in Req, p \in Request : req'[s] = p => req[s] = p \/ RequestTrue(p)'
  BY <1>2, <1>4 DEF Inv, StateOK
<1> QED BY <1>1, <1>3, <1>5, StepInv

LEMMA IdleFacts ==
  /\ Idle.at = "idle" /\ Idle.token = NoToken
  /\ Idle \in Request /\ RequestTrue(Idle)
<1>1. Idle \in Request
  BY SessionsConstants DEF Idle, Request, Time
<1>2. Idle.at = "idle" /\ Idle.token = NoToken
  BY DEF Idle
<1> QED BY <1>1, <1>2 DEF RequestTrue, Asked, ReadTrue

LEMMA RequestFacts ==
  ASSUME Inv, NEW r \in Req
  PROVE  /\ req[r] \in Request /\ RequestTrue(req[r])
         /\ now \in Time /\ now \in Nat
BY SessionsConstants DEF Inv, StateOK, RequestsTrue, Time

LEMMA AnswerInv ==
  ASSUME Inv, NEW r \in Req, Answer(r), UNCHANGED <<now, account, grants, cookie, lost>>
  PROVE  Inv'
BY IdleFacts, MoveInv DEF Answer

LEMMA InitInv == Init => Inv
<1> SUFFICES ASSUME Init PROVE Inv
  OBVIOUS
<1>1. 0 \in Time /\ {} \subseteq Module /\ None \notin Nat
  BY SessionsConstants DEF Time
<1>2. account \in [User -> AccountRow] /\ \A u \in User : account[u].changed = 0
  BY <1>1 DEF Init, AccountRow
<1>3. account \in TablesOf(User, AccountRow)
  BY <1>2 DEF TablesOf
<1>4. StateOK
  BY <1>1, <1>3, IdleFacts DEF StateOK, Init
<1>5. ClockIsLast
  BY <1>1, <1>2 DEF Init, ClockIsLast, Claim
<1>6. TokensTrue
  BY SessionsConstants DEF Init, TokensTrue, NoToken, Token
<1>7. RequestsTrue
  BY IdleFacts DEF Init, RequestsTrue
<1> QED BY <1>4, <1>5, <1>6, <1>7 DEF Inv

LEMMA StartLoginInv ==
  ASSUME Inv, NEW r \in Req, NEW j \in Jar, NEW n \in Name, NEW p \in Password,
         StartLogin(r, j, n, p)
  PROVE  Inv'
<1> DEFINE q == [Idle EXCEPT !.op = "login", !.at = "readUser", !.jar = j,
                             !.name = n, !.given = p, !.since = now]
<1>1. now \in Time /\ now \in Nat
  BY RequestFacts
<1>2. q \in Request
  BY <1>1, IdleFacts DEF Request, Idle
<1>3. RequestTrue(q)
  BY <1>1 DEF RequestTrue, Asked, ReadTrue, Idle
<1> QED BY <1>2, <1>3, MoveInv DEF StartLogin

LEMMA StartChangeInv ==
  ASSUME Inv, NEW r \in Req, NEW j \in Jar, NEW p \in Password, NEW o \in Password,
         StartChange(r, j, p, o)
  PROVE  Inv'
<1> DEFINE q == [Idle EXCEPT !.op = "change", !.at = "readUser", !.jar = j,
                             !.name = cookie[j].name, !.given = p, !.new = o,
                             !.modules = cookie[j].modules, !.since = now]
<1>1. now \in Time /\ now \in Nat
  BY RequestFacts
<1>2. cookie[j] \in Token
  BY DEF StartChange, SignedIn, Inv, StateOK
<1>3. cookie[j].name \in Name /\ cookie[j].modules \in SUBSET Module
  BY <1>2 DEF Token
<1>4. q \in Request
  BY <1>1, <1>3, IdleFacts DEF Request, Idle
<1>5. RequestTrue(q)
  BY <1>1, <1>3 DEF RequestTrue, Asked, ReadTrue, Idle
<1> QED BY <1>4, <1>5, MoveInv DEF StartChange

\* What was read is true of now, and so of some moment since the start.
LEMMA ReadUserInv ==
  ASSUME Inv, NEW r \in Req, ReadUser(r)
  PROVE  Inv'
<1>1. /\ req[r] \in Request /\ RequestTrue(req[r]) /\ now \in Nat
      /\ req[r].at = "readUser"
  BY RequestFacts DEF ReadUser, Found
<1>2. CASE Answer(r)
  BY <1>2, AnswerInv DEF ReadUser, Found
<1>3. ASSUME NEW u \in Known(r) \cap Enabled(r), account[u].name = req[r].name,
             req' = [req EXCEPT ![r].at = IF req[r].op = "login" THEN "readModules"
                                          ELSE "setPassword",
                                ![r].user = u, ![r].changed = account[u].changed]
      PROVE  Inv'
  <2> DEFINE q == [req[r] EXCEPT !.at = IF req[r].op = "login" THEN "readModules"
                                        ELSE "setPassword",
                                 !.user = u, !.changed = account[u].changed]
  <2>1. u \in DOMAIN account /\ u \in User /\ account[u] \in AccountRow
    BY <1>3, AccountFacts DEF Known, Inv, StateOK
  <2>2. account[u].changed \in Time /\ account[u].changed \in Nat
    BY <2>1, SessionsConstants DEF AccountRow, Time
  <2>3. q \in Request
    <3> DEFINE at == IF req[r].op = "login" THEN "readModules" ELSE "setPassword"
    <3>1. at \in {"setPassword", "readModules"}
      OBVIOUS
    <3> HIDE DEF at
    <3>2. [req[r] EXCEPT !.at = at, !.user = u, !.changed = account[u].changed] \in Request
      BY <1>1, <2>1, <2>2, <3>1 DEF Request
    <3> QED
      BY <3>2 DEF at
  <2>4. Asked(q)
    <3>1. /\ q.at \notin {"idle", "answer"} /\ req[r].at \notin {"idle", "answer"}
          /\ q.op = req[r].op /\ q.jar = req[r].jar /\ q.name = req[r].name
          /\ q.given = req[r].given /\ q.new = req[r].new
          /\ q.since = req[r].since /\ q.token = req[r].token
      BY <1>1 DEF Request
    <3> HIDE DEF q
    <3> QED
      BY <1>1, <3>1 DEF RequestTrue, Asked
  <2>5. ReadTrue(q)
    BY <1>1, <1>3, <2>1, <2>2
       DEF ReadTrue, Request, Known, Enabled, PasswordHeld, ActiveHeld, HeldSince, ChangedSince
  <2>6. RequestTrue(q)
    BY <1>1, <2>4, <2>5 DEF RequestTrue, Request
  <2>7. req' = [req EXCEPT ![r] = q]
    BY <1>3
  <2> QED BY <2>3, <2>6, <2>7, MoveInv DEF ReadUser, Found
<1> QED BY <1>2, <1>3 DEF ReadUser, Found

LEMMA ReadModulesInv ==
  ASSUME Inv, NEW r \in Req, ReadModules(r)
  PROVE  Inv'
<1> DEFINE q == [req[r] EXCEPT !.at = "sign", !.modules = grants[req[r].user]]
<1>1. /\ req[r] \in Request /\ RequestTrue(req[r]) /\ now \in Nat
      /\ req[r].at = "readModules"
  BY RequestFacts DEF ReadModules
<1>2. req[r].user \in User /\ grants[req[r].user] \in SUBSET Module
  BY <1>1 DEF RequestTrue, ReadTrue, Inv, StateOK
<1>3. q \in Request
  BY <1>1, <1>2 DEF Request
<1>4. Asked(q)
  BY <1>1 DEF RequestTrue, Asked, Request
<1>5. ReadTrue(q)
  BY <1>1 DEF RequestTrue, ReadTrue, Request
<1>6. ModulesHeld(q.user, q.modules, q.since)
  BY <1>1 DEF ModulesHeld, HeldSince, Request
<1>7. RequestTrue(q)
  BY <1>1, <1>4, <1>5, <1>6 DEF RequestTrue, Request
<1>8. req' = [req EXCEPT ![r] = q] /\ UNCHANGED <<now, account, grants, cookie, lost>>
  BY <1>1 DEF ReadModules
<1> HIDE DEF q
<1> QED BY <1>3, <1>7, <1>8, MoveInv

\* signToken: the claims as they were read, and the clock; what a login is
\* judged by is a number of days, whichever it is.
LEMMA SignedInv ==
  ASSUME Inv, NEW r \in Req, NEW old \in BOOLEAN, NEW d \in Nat, Signed(r, old, d),
         req[r].op = "login" => (old <=> Expired(req[r].changed, d)),
         req[r].op = "change" => d = 0
  PROVE  Inv'
<1> DEFINE t == [user |-> req[r].user, name |-> req[r].name, modules |-> req[r].modules,
                 mustChange |-> old, expires |-> now + TTL, since |-> req[r].since,
                 by |-> req[r].op, given |-> req[r].given, limit |-> d]
           q == [Idle EXCEPT !.op = req[r].op, !.at = "answer", !.jar = req[r].jar, !.token = t]
<1>1. /\ req[r] \in Request /\ RequestTrue(req[r]) /\ now \in Nat /\ now \in Time
      /\ req[r].at = "sign"
  BY RequestFacts DEF Signed
<1>2. /\ req[r].user \in User /\ req[r].name \in Name /\ req[r].given \in Password
      /\ req[r].modules \in SUBSET Module /\ req[r].since \in Time
      /\ req[r].op \in {"login", "change"} /\ req[r].changed \in Time
      /\ req[r].jar \in Jar
  BY <1>1 DEF RequestTrue, Asked, ReadTrue, Request
<1>3. now + TTL \in 0 .. (MaxTime + TTL)
  BY <1>1, SessionsConstants DEF Time
<1>4. t \in Token
  BY <1>2, <1>3 DEF Token
<1>5. q \in Request
  <2> HIDE DEF t
  <2> QED
    BY <1>2, <1>4, IdleFacts DEF Request, Idle
<1>6. TokenTrue(t)
  <2>1. /\ t.since <= now
        /\ PasswordHeld(t.user, t.given, t.since)
        /\ t.by = "login" => ActiveHeld(t.user, t.since)
        /\ ModulesHeld(t.user, t.modules, t.since)
    BY <1>1 DEF RequestTrue, Asked, ReadTrue
  <2>2. ASSUME ~old, req[r].op = "login" => d > 0, req[r].user \in DOMAIN account
        PROVE  account[req[r].user].changed >= req[r].since - d
    <3>1. account[req[r].user].changed \in Nat
      BY <2>2, AccountFacts, SessionsConstants DEF Inv, StateOK, AccountRow, Time
    <3>2. req[r].since \in Nat /\ req[r].changed \in Nat /\ req[r].since <= now
      BY <1>1, <1>2, SessionsConstants DEF Time, RequestTrue, Asked
    <3>3. CASE req[r].op = "login"
      <4>1. account[req[r].user].changed >= req[r].changed
        BY <1>1, <2>2, <3>3 DEF RequestTrue, ReadTrue, ChangedSince
      <4>2. now - req[r].changed <= d
        BY <1>1, <2>2, <3>2, <3>3 DEF Expired
      <4> QED BY <1>1, <3>1, <3>2, <4>1, <4>2
    <3>4. CASE req[r].op = "change"
      <4>1. account[req[r].user].changed >= req[r].since
        BY <1>1, <2>2, <3>4 DEF RequestTrue, ReadTrue, ChangedSince
      <4> QED BY <3>1, <3>2, <3>4, <4>1
    <3> QED BY <1>2, <3>3, <3>4
  <2>3. ~t.mustChange /\ (t.by = "login" => t.limit > 0) => ChangedSince(t.user, t.since - t.limit)
    BY <2>2 DEF ChangedSince
  <2> QED BY <2>1, <2>3 DEF TokenTrue
<1>7. t # NoToken
  BY <1>2, SessionsConstants DEF NoToken
<1>8. RequestTrue(q)
  <2>1. /\ q.at = "answer" /\ q.token = t /\ q.op = req[r].op /\ q.jar = req[r].jar
        /\ q.since = 0
    BY DEF Idle
  <2> HIDE DEF q, t
  <2>2. Asked(q)
    BY <1>1, <1>2, <1>7, <2>1 DEF Asked
  <2> QED BY <1>6, <2>1, <2>2 DEF RequestTrue, ReadTrue
<1>9. req' = [req EXCEPT ![r] = q] /\ UNCHANGED <<now, account, grants, cookie, lost>>
  BY DEF Signed
<1> HIDE DEF t, q
<1> QED BY <1>5, <1>8, <1>9, MoveInv

LEMMA SignInv ==
  ASSUME Inv, PolicyOK, NEW r \in Req, Sign(r)
  PROVE  Inv'
<1>1. Limits \subseteq Nat
  BY SessionsConstants DEF Limits, PolicyOK
<1>2. ASSUME req[r].op = "login", NEW d \in Limits, Signed(r, Expired(req[r].changed, d), d)
      PROVE  Inv'
  <2>1. Expired(req[r].changed, d) \in BOOLEAN
    BY DEF Expired
  <2> QED BY <1>1, <1>2, <2>1, SignedInv
<1>3. CASE req[r].op = "change" /\ Signed(r, FALSE, 0)
  BY <1>3, SignedInv
<1> QED BY <1>2, <1>3 DEF Sign

LEMMA FailInv ==
  ASSUME Inv, NEW r \in Req, Fail(r)
  PROVE  Inv'
BY AnswerInv DEF Fail

\* The cookie is now what the request carried.
LEMMA ReceiveInv ==
  ASSUME Inv, NEW r \in Req, Receive(r)
  PROVE  Inv'
<1>1. Ages /\ TablesOK'
  BY TablesStay DEF Receive
<1>2. /\ req[r] \in Request /\ RequestTrue(req[r])
      /\ req[r].at = "answer"
  BY RequestFacts DEF Receive
<1>3. req[r].token \in Token /\ TokenTrue(req[r].token) /\ req[r].jar \in Jar
  BY <1>2 DEF RequestTrue, Asked, Request
<1>4. now' \in Nat
  BY SessionsConstants DEF Receive, Inv, StateOK, Time
<1>5. \A t \in Token : TokenTrue(t) => TokenTrue(t)'
  BY <1>1, <1>4, TokenStays DEF Inv
<1>6. \A j \in Jar, t \in Token : cookie'[j] = t => cookie[j] = t \/ TokenTrue(t)'
  BY <1>3, <1>5 DEF Receive, Inv, StateOK
<1>7. \A q \in Request : RequestTrue(q) => RequestTrue(q)'
  BY <1>1, <1>4, RequestStays DEF Inv
<1>8. \A s \in Req, q \in Request : req'[s] = q => req[s] = q \/ RequestTrue(q)'
  BY <1>7, IdleFacts DEF Receive, Answer, Inv, StateOK
<1>9. cookie' \in [Jar -> Token \cup {NoToken}] /\ req' \in [Req -> Request]
  BY <1>3, IdleFacts DEF Receive, Answer, Inv, StateOK
<1> QED BY <1>1, <1>6, <1>8, <1>9, StepInv

LEMMA LogoutInv ==
  ASSUME Inv, NEW j \in Jar, Logout(j)
  PROVE  Inv'
<1>1. Ages /\ TablesOK'
  BY TablesStay DEF Logout
<1>2. cookie' \in [Jar -> Token \cup {NoToken}] /\ req' \in [Req -> Request]
  BY DEF Logout, Inv, StateOK
<1>3. NoToken \notin Token
  BY SessionsConstants DEF NoToken, Token
<1>4. \A i \in Jar, t \in Token : cookie'[i] = t => cookie[i] = t
  BY <1>3 DEF Logout, Inv, StateOK
<1> QED BY <1>1, <1>2, <1>4, StepInv DEF Logout

-----------------------------------------------------------------------------
(* Accounts change.                                                        *)

\* Tokens and requests are left alone by administrators and by time.
LEMMA ElsewhereInv ==
  ASSUME Inv, Ages, TablesOK', UNCHANGED <<cookie, req>>
  PROVE  Inv'
BY StepInv DEF Inv, StateOK

LEMMA TableFacts ==
  ASSUME Inv
  PROVE  /\ now \in Time /\ now \in Nat /\ now <= now
         /\ DOMAIN account \subseteq User
         /\ \A u \in DOMAIN account : account[u] \in AccountRow
         /\ account \in [DOMAIN account -> AccountRow]
         /\ grants \in [User -> SUBSET Module]
         /\ lost \in [User -> [Claim -> Time \cup {None}]]
<1>1. DOMAIN account \subseteq User /\ account \in [DOMAIN account -> AccountRow]
  BY DEF Inv, StateOK, TablesOf
<1>2. now \in Time /\ now \in Nat /\ now <= now
  BY SessionsConstants DEF Inv, StateOK, Time
<1>3. grants \in [User -> SUBSET Module] /\ lost \in [User -> [Claim -> Time \cup {None}]]
  BY DEF Inv, StateOK, Claim
<1> QED BY <1>1, <1>2, <1>3

LEMMA NewPasswordAges ==
  ASSUME Inv, NEW u \in DOMAIN account, NEW p \in Password,
         NewPassword(u, p), UNCHANGED <<now, grants>>
  PROVE  Ages /\ TablesOK'
<1>1. u \in User /\ account[u] \in AccountRow /\ account[u].password \in Claim
  BY TableFacts DEF AccountRow, Claim
<1>2. /\ DOMAIN account' = DOMAIN account
      /\ \A v \in DOMAIN account :
           account'[v] = IF v = u THEN [account[v] EXCEPT !.password = p, !.changed = now]
                                  ELSE account[v]
  BY TableFacts DEF NewPassword
<1>3. \A v \in User, x \in Claim :
        lost'[v][x] = IF v = u /\ x = account[u].password THEN now ELSE lost[v][x]
  BY <1>1, TableFacts DEF NewPassword
<1>4. [account[u] EXCEPT !.password = p, !.changed = now] \in AccountRow
  BY <1>1, TableFacts DEF AccountRow
<1>5. account' \in [DOMAIN account -> AccountRow]
  BY <1>2, <1>4, TableFacts DEF NewPassword
<1>6. lost' \in [User -> [Claim -> Time \cup {None}]]
  BY <1>1, TableFacts DEF NewPassword
<1>7. TablesOK'
  BY <1>5, <1>6, TableFacts DEF TablesOK, TablesOf
<1>8. Ages
  <2>1. now <= now' /\ \A v \in User, x \in Claim : lost'[v][x] \in {lost[v][x], now}
    BY <1>3, TableFacts
  <2>2. \A v \in DOMAIN account :
          /\ v \notin DOMAIN account' \/ account'[v].password # account[v].password =>
               lost'[v][account[v].password] = now
          /\ account[v].active /\ (v \notin DOMAIN account' \/ ~account'[v].active) =>
               lost'[v]["active"] = now
    <3> SUFFICES ASSUME NEW v \in DOMAIN account
                 PROVE  /\ account'[v].password # account[v].password =>
                             lost'[v][account[v].password] = now
                        /\ v \in DOMAIN account' /\ account'[v].active = account[v].active
      BY <1>2
    <3>1. CASE v = u
      <4>1. account'[u].active = account[u].active
        BY <1>1, <1>2 DEF AccountRow
      <4> QED
        BY <1>1, <1>2, <1>3, <3>1, <4>1
    <3>2. CASE v # u
      BY <1>2, <3>2
    <3> QED
      BY <3>1, <3>2
  <2>3. \A v \in DOMAIN account' : account'[v].changed \in {account[v].changed, now}
    BY <1>1, <1>2 DEF AccountRow
  <2> QED BY <1>2, <2>1, <2>2, <2>3 DEF Ages
<1> QED BY <1>7, <1>8

\* changePassword writes: the request's own password is held since it was
\* read, and the new one is set now.
LEMMA SetPasswordInv ==
  ASSUME Inv, NEW r \in Req, SetPassword(r)
  PROVE  Inv'
<1>1. /\ req[r] \in Request /\ RequestTrue(req[r]) /\ now \in Nat
      /\ req[r].at = "setPassword"
  BY RequestFacts DEF SetPassword
<1>2. CASE req[r].user \notin DOMAIN account
  BY <1>2, AnswerInv DEF SetPassword
<1>3. CASE req[r].user \in DOMAIN account
  <2> DEFINE q == [req[r] EXCEPT !.at = "readModules"]
  <2>1. /\ req[r].op = "change" /\ req[r].new \in Password /\ req[r].user \in User
        /\ req[r].given \in Password /\ req[r].since \in Time /\ req[r].since <= now
        /\ PasswordHeld(req[r].user, req[r].given, req[r].since)
    BY <1>1 DEF RequestTrue, Asked, ReadTrue, Request
  <2>2. /\ NewPassword(req[r].user, req[r].new) /\ req' = [req EXCEPT ![r] = q]
        /\ UNCHANGED <<now, grants, cookie>>
    BY <1>3 DEF SetPassword
  <2>3. Ages /\ TablesOK'
    BY <1>3, <2>1, <2>2, NewPasswordAges
  <2>4. q \in Request
    BY <1>1 DEF Request
  <2>5. \A u \in User, p \in Password, t \in Time :
          t <= now /\ PasswordHeld(u, p, t) => PasswordHeld(u, p, t)'
    BY <2>3, HeldStays DEF Inv
  <2>6. \A u \in User, t \in Time :
          u = req[r].user /\ t <= now => ChangedSince(u, t)'
    <3>1. account'[req[r].user].changed = now
      BY <1>3, <2>2, TableFacts DEF NewPassword, AccountRow
    <3> QED BY <2>2, <3>1 DEF ChangedSince
  <2>7. \A p \in Request : p = q => RequestTrue(p)'
    <3> SUFFICES ASSUME NEW p \in Request, p = q
                 PROVE  RequestTrue(p)'
      OBVIOUS
    <3>1. /\ p.at = "readModules" /\ p.op = "change" /\ p.user = req[r].user
          /\ p.given = req[r].given /\ p.since = req[r].since
      BY <1>1, <2>1 DEF Request
    <3>2. Asked(p)'
      BY <1>1, <2>2 DEF RequestTrue, Asked, Request
    <3>3. ReadTrue(p)'
      BY <2>1, <2>5, <2>6, <3>1 DEF ReadTrue
    <3> QED BY <3>1, <3>2, <3>3 DEF RequestTrue
  <2>8. req' \in [Req -> Request] /\ cookie' \in [Jar -> Token \cup {NoToken}]
    BY <2>2, <2>4 DEF Inv, StateOK
  <2>9. \A s \in Req, p \in Request : req'[s] = p => req[s] = p \/ RequestTrue(p)'
    BY <2>2, <2>7 DEF Inv, StateOK
  <2>10. \A j \in Jar, t \in Token : cookie'[j] = t => cookie[j] = t \/ TokenTrue(t)'
    BY <2>2
  <2> QED BY <2>3, <2>8, <2>9, <2>10, StepInv
<1> QED BY <1>2, <1>3

LEMMA SetGrantsInv ==
  ASSUME Inv, NEW u \in User, NEW S \in SUBSET Module, SetGrants(u, S)
  PROVE  Inv'
<1>1. \A v \in User, x \in Claim :
        lost'[v][x] = IF v = u /\ x \in grants[u] \ S THEN now ELSE lost[v][x]
  BY TableFacts DEF SetGrants
<1>2. TablesOK'
  <2>1. account' \in TablesOf(User, AccountRow) /\ grants' \in [User -> SUBSET Module]
    BY TableFacts DEF SetGrants, Inv, StateOK
  <2>2. lost' \in [User -> [Claim -> Time \cup {None}]] /\ now' \in Time
    BY TableFacts DEF SetGrants
  <2> QED BY <2>1, <2>2 DEF TablesOK
<1>3. Ages
  BY <1>1, TableFacts DEF SetGrants, Ages, Claim
<1> QED BY <1>2, <1>3, ElsewhereInv DEF SetGrants

LEMMA UpdateUserInv ==
  ASSUME Inv, NEW u \in User, NEW n \in Name, NEW a \in BOOLEAN, UpdateUser(u, n, a)
  PROVE  Inv'
<1>1. account[u] \in AccountRow /\ "active" \in Claim /\ u \in DOMAIN account
  BY TableFacts DEF UpdateUser, Claim
<1>2. /\ DOMAIN account' = DOMAIN account
      /\ \A v \in DOMAIN account :
           account'[v] = IF v = u THEN [account[v] EXCEPT !.name = n, !.active = a]
                                  ELSE account[v]
  BY TableFacts DEF UpdateUser
<1>3. \A v \in User, x \in Claim :
        lost'[v][x] = IF v = u /\ x = "active" /\ account[u].active /\ ~a
                      THEN now ELSE lost[v][x]
  BY <1>1, TableFacts DEF UpdateUser
<1>4. [account[u] EXCEPT !.name = n, !.active = a] \in AccountRow
  BY <1>1 DEF AccountRow
<1>5. account' \in [DOMAIN account -> AccountRow]
  BY <1>2, <1>4, TableFacts DEF UpdateUser
<1>6. lost' \in [User -> [Claim -> Time \cup {None}]]
  BY <1>1, TableFacts DEF UpdateUser
<1>7. TablesOK'
  BY <1>5, <1>6, TableFacts DEF UpdateUser, TablesOK, TablesOf
<1>8. Ages
  <2>1. now <= now' /\ \A v \in User, x \in Claim : lost'[v][x] \in {lost[v][x], now}
    BY <1>3, TableFacts DEF UpdateUser
  <2>2. \A v \in DOMAIN account :
          /\ v \notin DOMAIN account' \/ account'[v].password # account[v].password =>
               lost'[v][account[v].password] = now
          /\ account[v].active /\ (v \notin DOMAIN account' \/ ~account'[v].active) =>
               lost'[v]["active"] = now
    BY <1>1, <1>2, <1>3, TableFacts DEF AccountRow
  <2>3. \A v \in DOMAIN account' : account'[v].changed \in {account[v].changed, now}
    BY <1>1, <1>2 DEF AccountRow
  <2> QED BY <1>2, <2>1, <2>2, <2>3 DEF Ages, UpdateUser
<1> QED BY <1>7, <1>8, ElsewhereInv DEF UpdateUser

LEMMA SetUserPasswordInv ==
  ASSUME Inv, NEW u \in User, NEW p \in Password, SetUserPassword(u, p)
  PROVE  Inv'
<1>1. Ages /\ TablesOK'
  BY NewPasswordAges DEF SetUserPassword
<1> QED BY <1>1, ElsewhereInv DEF SetUserPassword

LEMMA DeleteUserInv ==
  ASSUME Inv, NEW u \in User, DeleteUser(u)
  PROVE  Inv'
<1>1. account[u] \in AccountRow /\ u \in DOMAIN account
  BY TableFacts DEF DeleteUser
<1>2. /\ DOMAIN account' = DOMAIN account \ {u}
      /\ \A v \in DOMAIN account' : account'[v] = account[v]
      /\ account' \in [DOMAIN account \ {u} -> AccountRow]
  BY TableFacts DEF DeleteUser, WithoutRows
<1>3. \A v \in User, x \in Claim :
        lost'[v][x] = IF /\ v = u
                         /\ \/ x \in grants[u]
                            \/ x = account[u].password
                            \/ x = "active" /\ account[u].active
                      THEN now ELSE lost[v][x]
  BY TableFacts DEF DeleteUser
<1>4. lost' \in [User -> [Claim -> Time \cup {None}]]
  BY TableFacts DEF DeleteUser
<1>5. TablesOK'
  <2>1. account' \in TablesOf(User, AccountRow)
    BY <1>2, TableFacts DEF TablesOf
  <2>2. grants' \in [User -> SUBSET Module] /\ now' \in Time
    BY TableFacts DEF DeleteUser
  <2> QED BY <1>4, <2>1, <2>2 DEF TablesOK
<1>6. Ages
  <2>1. now <= now' /\ \A v \in User, x \in Claim : lost'[v][x] \in {lost[v][x], now}
    BY <1>3, TableFacts DEF DeleteUser
  <2>2. \A v \in User, m \in Module :
          m \in grants[v] /\ m \notin grants'[v] => lost'[v][m] = now
    BY <1>3, TableFacts DEF DeleteUser, Claim
  <2>3. \A v \in DOMAIN account :
          /\ v \notin DOMAIN account' \/ account'[v].password # account[v].password =>
               lost'[v][account[v].password] = now
          /\ account[v].active /\ (v \notin DOMAIN account' \/ ~account'[v].active) =>
               lost'[v]["active"] = now
    BY <1>1, <1>2, <1>3, TableFacts DEF AccountRow, Claim
  <2> QED BY <1>2, <2>1, <2>2, <2>3 DEF Ages
<1> QED BY <1>5, <1>6, ElsewhereInv DEF DeleteUser

LEMMA TickInv ==
  ASSUME Inv, Tick
  PROVE  Inv'
<1>1. now' \in Time /\ now <= now'
  BY TableFacts, SessionsConstants DEF Tick, Time
<1>2. TablesOK'
  BY <1>1 DEF Tick, TablesOK, Claim, Inv, StateOK
<1>3. Ages
  BY <1>1 DEF Tick, Ages
<1> QED BY <1>2, <1>3, ElsewhereInv DEF Tick

-----------------------------------------------------------------------------
LEMMA InvNext == Inv /\ PolicyOK /\ [Next]_vars => Inv'
<1> SUFFICES ASSUME Inv, PolicyOK, [Next]_vars PROVE Inv'
  OBVIOUS
<1>1. ASSUME NEW r \in Req, Serve(r) PROVE Inv'
  <2>1. CASE \E j \in Jar, n \in Name, p \in Password : StartLogin(r, j, n, p)
    BY <2>1, StartLoginInv
  <2>2. CASE \E j \in Jar, p, q \in Password : StartChange(r, j, p, q)
    BY <2>2, StartChangeInv
  <2>3. CASE ReadUser(r)
    BY <2>3, ReadUserInv
  <2>4. CASE SetPassword(r)
    BY <2>4, SetPasswordInv
  <2>5. CASE ReadModules(r)
    BY <2>5, ReadModulesInv
  <2>6. CASE Sign(r)
    BY <2>6, SignInv
  <2>7. CASE Receive(r)
    BY <2>7, ReceiveInv
  <2>8. CASE Fail(r)
    BY <2>8, FailInv
  <2> QED BY <1>1, <2>1, <2>2, <2>3, <2>4, <2>5, <2>6, <2>7, <2>8 DEF Serve
<1>2. ASSUME NEW j \in Jar, Logout(j) PROVE Inv'
  BY <1>2, LogoutInv
<1>3. ASSUME NEW u \in User, Administer(u) PROVE Inv'
  BY <1>3, SetGrantsInv, UpdateUserInv, SetUserPasswordInv, DeleteUserInv DEF Administer
<1>4. CASE Tick
  BY <1>4, TickInv
<1>5. CASE UNCHANGED vars
  <2>1. Ages /\ TablesOK'
    BY <1>5, TablesStay DEF vars
  <2> QED BY <1>5, <2>1, ElsewhereInv DEF vars
<1>6. ASSUME NEW d \in Days, SetPolicy(d) PROVE Inv'
  <2>1. UNCHANGED <<now, account, grants, cookie, req, lost>>
    BY <1>6 DEF SetPolicy
  <2>2. Ages /\ TablesOK'
    BY <2>1, TablesStay
  <2> QED BY <2>1, <2>2, ElsewhereInv
<1> QED BY <1>1, <1>2, <1>3, <1>4, <1>5, <1>6 DEF Next

LEMMA PolicyNext == PolicyOK /\ [Next]_vars => PolicyOK'
BY DEF Next, SetPolicy, vars, PolicyOK

LEMMA Invariance == Spec => [](Inv /\ PolicyOK)
<1>1. Init => Inv /\ PolicyOK
  BY InitInv DEF Init, PolicyOK
<1> QED BY <1>1, InvNext, PolicyNext, PTL DEF Spec

\* Every token there is, in a browser or on its way to one, is true.
LEMMA TokensAreTrue ==
  ASSUME Inv, NEW t \in Tokens \ {NoToken}
  PROVE  t \in Token /\ TokenTrue(t)
<1>1. CASE \E j \in Jar : t = cookie[j]
  BY <1>1 DEF Inv, StateOK, TokensTrue
<1>2. CASE \E r \in Req : t = req[r].token
  <2>1. PICK r \in Req : t = req[r].token
    BY <1>2
  <2>2. req[r] \in Request /\ RequestTrue(req[r])
    BY RequestFacts
  <2> QED BY <2>1, <2>2 DEF RequestTrue, Asked, Request
<1> QED BY <1>1, <1>2 DEF Tokens

\* Well-formed throughout: no step of login or changePassword (auth.go) signs
\* or stores anything but a complete token.
THEOREM TypeCorrect == Spec => []TypeOK
<1>1. Inv /\ PolicyOK => TypeOK
  BY DEF Inv, PolicyOK, StateOK, TypeOK
<1> QED BY <1>1, Invariance, PTL

\* Whoever has a token typed a password that was the account's at some moment
\* between their asking and now (login, changePassword).
THEOREM PasswordsWereRight == Spec => []PasswordWasRight
<1>1. Inv => PasswordWasRight
  BY TokensAreTrue DEF PasswordWasRight, TokenTrue, PasswordHeld
<1> QED BY <1>1, Invariance, PTL

\* A token of a login is of an account that was not disabled all the time
\* since the login began.  Nothing of the kind holds of changePassword, which
\* does not look at is_active.
THEOREM SignedInWereActive == Spec => []LoginsWereActive
<1>1. Inv => LoginsWereActive
  BY TokensAreTrue DEF LoginsWereActive, TokenTrue, ActiveHeld
<1> QED BY <1>1, Invariance, PTL

\* No token names a module that was taken from its user before the request
\* that signed it began, whichever of UserModules and the administrator's
\* statements came first.
THEOREM ModulesWereHeld == Spec => []GrantsWereHeld
<1>1. Inv => GrantsWereHeld
  BY TokensAreTrue DEF GrantsWereHeld, TokenTrue, ModulesHeld
<1> QED BY <1>1, Invariance, PTL

\* The gateway (verify) lets nobody past App Maintenance on a password that
\* was older, when they asked for their token, than their login was told to
\* allow, be it the policy of the moment or the 60 days of a settings row that
\* could not be read (passwordExpiryDays).
THEOREM FreshOrAtHome == Spec => []FreshOrHome
<1>1. ASSUME Inv PROVE FreshOrHome
  <2> SUFFICES ASSUME NEW j \in Jar, NEW m \in Module \ {Home},
                      Admits(j, m), cookie[j].user \in DOMAIN account,
                      cookie[j].by = "login" => cookie[j].limit > 0
               PROVE  cookie[j].since - account[cookie[j].user].changed <= cookie[j].limit
    BY DEF FreshOrHome
  <2>1. cookie[j] # NoToken /\ ~cookie[j].mustChange
    BY DEF Admits, SignedIn
  <2>2. cookie[j] \in Token /\ TokenTrue(cookie[j])
    BY <1>1, <2>1, TokensAreTrue DEF Tokens
  <2>3. account[cookie[j].user].changed >= cookie[j].since - cookie[j].limit
    BY <2>1, <2>2 DEF TokenTrue, ChangedSince
  <2>4. /\ cookie[j].since \in Nat /\ account[cookie[j].user].changed \in Nat
        /\ cookie[j].limit \in Nat
    BY <1>1, <2>2, TableFacts, SessionsConstants DEF Token, Time, AccountRow
  <2> QED BY <2>3, <2>4
<1> QED BY <1>1, Invariance, PTL

=============================================================================
