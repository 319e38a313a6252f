SPECIFICATION AccountsSpec
CONSTANTS
  LoginKey = {login}
  ForgotKey = {forgot}
  InFlight = {r1, r2}
  NoKey = NoKey
  MaxLoginAttempts = 3
  LoginWindow = 1
  LoginLockout = 2
  LastTime = 4
  User = {u1}
  Name = {n1}
  Password = {p1, p2}
  Module = {kanban}
  Home = am
  Jar = {j1}
  Req = {q1}
  TTL = 1
  Days = {1, 2}
  Fallback = 2
  MaxTime = 2
  MaxLost = 2
  None = None
  Person = {1, 2}
  Handler = {h1, h2, h3}
  Nil = Nil
SYMMETRY Symmetry
INVARIANTS
  LockoutIsEarned
  LockoutEnds
  GuessesBounded
  PasswordWasRight
  LoginsWereActive
  FreshOrHome
  GrantsWereHeld
  FriendshipIsMutual
  OnlyFriendsTalk
  OneConversationPerPair
