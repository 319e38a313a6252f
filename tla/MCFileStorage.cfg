SPECIFICATION Spec
CONSTANTS
  User = {u1, u2}
  Folder = {d1, d2}
  File = {f1}
  Req = {r1, r2, r3}
  None = None
SYMMETRY Symmetry
INVARIANTS
  OwnTrees
  SavedIsWhole
  OrphansAreExcused
PROPERTIES
  OnlyOwnerErases
