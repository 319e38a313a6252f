SPECIFICATION Spec
CONSTANTS
  User = {u1, u2}
  Ticket = {t1}
  Attachment = {a1}
  Req = {r1, r2}
  Done = {"resolved"}
  None = None
INVARIANT ResolvedIsAnnounced
