SPECIFICATION Spec
CONSTANTS
  User = {u1}
  Folder = {d1}
  File = {f1}
  Req = {r1, r2}
  None = None
PROPERTIES
  BlobsGoFirst
