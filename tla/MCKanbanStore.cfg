SPECIFICATION Spec
CONSTANTS
  User = {u1, u2, u3}
  Board = {b1, b2}
  Column = {c1, c2, c3}
  Card = {k1}
  Req = {r1, r2}
  None = None
SYMMETRY Symmetry
CONSTRAINT Small
INVARIANTS
  NoDanglingRows
  ReadsStayTrue
  OneOwner
PROPERTIES
  CardStaysOnBoard
  MembersWrite
  OwnersManage
