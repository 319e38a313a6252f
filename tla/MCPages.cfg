SPECIFICATION PagesSpec
CONSTANTS
  Waiting = Waiting
  Failed = Failed
  Done = Done
  None = None
  MaxCalls = 2
  Name = {n1, n2}
  MaxChanges = 1
  PanelSize = 1
  MaxTouches = 1
  MaxClicks = 2
  User = {u1, u2}
  Role = {r1}
  Mod = {m1}
  Text = {t1, t2}
  Container = {c1, c2}
  MaxLines = 2
  PageSize = 2
  Requests = 2
  MaxEntries = 3
  MaxNotes = 4
  MaxShown = 4
  Query = {q1, q2, q3}
  Hitless = {q3}
  PageTab = {w1, w2}
  Ticket = {k1, k2}
  File = {f1}
  MaxComments = 1
  Folder = {d1}
  Home = Home
  EventId = {e1, e2}
  Caller = Caller
  Person = {p1}
  Conv = {s1, s2}
  Limit = 1
  MaxMsgs = 2
  MaxNews = 2
  BoardId = {b1, b2}
  Card = {x1, x2}
  Column = {y1, y2}
  MaxDrops = 2
INVARIANTS
  ListsAreCurrent
  PagingHasNoGaps
  FormsAreTheirs
  AnswersMatchTheQuestion
  
  ChoicesAreKept
  ThreadsAreWhole
  DropsLand
CHECK_DEADLOCK FALSE
