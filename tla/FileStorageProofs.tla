------------------------- MODULE FileStorageProofs -------------------------
(***************************************************************************)
(* What a deletion leaves and whom it reaches, for any number of users,    *)
(* folders, files and requests, whatever fails in between.                 *)
(***************************************************************************)
EXTENDS FileStorage, TLAPS

Uploading(r) == req[r].at \in {"create", "copy", "record", "cleanup"}
Deleting(r) == req[r].at \in {"deleteRow", "removeBlob", "removeBlobs"}

\* Ids come from the sets that were handed out; what was not has no blob.
IdsKnown ==
  /\ DOMAIN folders \subseteq everFolder
  /\ DOMAIN files \subseteq everFile
  /\ stored \cup condemned \subseteq everFile
  /\ \A f \in File \ everFile : disk[f] = "none"
  /\ \A r \in Req : /\ req[r].folder \in everFolder \cup {None}
                    /\ req[r].file \in everFile \cup {None}
                    /\ req[r].settled \subseteq stored
                    /\ req[r].at # "idle" => req[r].user \in User

\* The parent a request has checked is still its user's, or gone.
ParentsOwn ==
  \A r \in Req :
    req[r].at \in {"insertFolder", "insertFile"} /\ req[r].folder \in DOMAIN folders =>
      folders[req[r].folder].owner = req[r].user

\* The row of an upload in flight is its own and pending, unless a deletion
\* took it away; no deletion has read a saved path in it.
UploadsTrue ==
  \A r \in Req : Uploading(r) =>
    /\ req[r].file \in everFile \ (stored \cup condemned)
    /\ req[r].file \in DOMAIN files =>
         /\ files[req[r].file].owner = req[r].user
         /\ files[req[r].file].path = "pending"
    /\ req[r].file \notin DOMAIN files => req[r].file \in excused
    /\ \A s \in Req : Uploading(s) /\ req[s].file = req[r].file => s = r
    /\ req[r].at = "record" => disk[req[r].file] = "whole"
    /\ req[r].at = "cleanup" => req[r].file \in excused

StoredIsSaved ==
  \A f \in stored : f \in DOMAIN files => files[f].path = "saved"

\* What a deletion still has to remove is its user's; what was uploaded
\* before it began it has on its list, or it is gone already.
DeletesTrue ==
  \A r \in Req :
    /\ Deleting(r) =>
         /\ req[r].left \subseteq condemned
         /\ \A f \in req[r].left : f \in DOMAIN files => files[f].owner = req[r].user
    /\ req[r].at = "deleteRow" =>
         /\ req[r].file \in everFile
         /\ req[r].file \in DOMAIN files => files[req[r].file].owner = req[r].user
         /\ req[r].file \in req[r].settled => req[r].file \in req[r].left
    /\ req[r].at \in {"deleteRow", "removeBlob"} =>
         /\ req[r].left \subseteq {req[r].file}
         /\ req[r].file \in everFile
    /\ req[r].at = "removeBlobs" /\ OwnsFolder(req[r].user, req[r].folder) =>
         \A f \in FilesUnder(req[r].folder) \cap req[r].settled :
           f \in req[r].left \/ disk[f] = "none" \/ f \in excused

Inv ==
  /\ TypeOK /\ IdsKnown /\ OwnTrees /\ ParentsOwn
  /\ UploadsTrue /\ StoredIsSaved /\ DeletesTrue
  /\ SavedIsWhole /\ OrphansAreExcused

-----------------------------------------------------------------------------
(* Rows of the two tables                                                  *)

\* Writing a row of the declared type keeps a table's type.
LEMMA WithRowType ==
  ASSUME NEW Keys, NEW Values, NEW t \in TablesOf(Keys, Values),
         NEW key \in Keys, NEW row \in Values
  PROVE  WithRow(t, key, row) \in TablesOf(Keys, Values)
<1>1. PICK K \in SUBSET Keys : t \in [K -> Values]
  BY DEF TablesOf
<1>2. WithRow(t, key, row) \in [K \cup {key} -> Values]
  BY <1>1 DEF WithRow
<1> QED
  BY <1>2 DEF TablesOf

\* So does deleting rows.
LEMMA WithoutRowsType ==
  ASSUME NEW Keys, NEW Values, NEW t \in TablesOf(Keys, Values), NEW keys
  PROVE  WithoutRows(t, keys) \in TablesOf(Keys, Values)
<1>1. PICK K \in SUBSET Keys : t \in [K -> Values]
  BY DEF TablesOf
<1>2. WithoutRows(t, keys) \in [K \ keys -> Values]
  BY <1>1 DEF WithoutRows
<1> QED
  BY <1>2 DEF TablesOf

(* Folders below a folder                                                  *)

\* A row's columns.
LEMMA Rows ==
  ASSUME TypeOK
  PROVE  /\ DOMAIN folders \subseteq Folder
         /\ DOMAIN files \subseteq File
         /\ \A d \in DOMAIN folders : folders[d] \in FolderRow
         /\ \A f \in DOMAIN files : files[f] \in FileRow
<1>1. DOMAIN folders \in SUBSET Folder /\ folders \in [DOMAIN folders -> FolderRow]
  BY DEF TypeOK, TablesOf
<1>2. DOMAIN files \in SUBSET File /\ files \in [DOMAIN files -> FileRow]
  BY DEF TypeOK, TablesOf
<1> QED BY <1>1, <1>2

\* A set with d and, with a folder, its children has all that is below d.
LEMMA BelowIsLeast ==
  ASSUME NEW d, NEW S \in SUBSET Folder, d \in S,
         \A g \in DOMAIN folders : folders[g].parent \in S => g \in S
  PROVE  Descendants(d) \subseteq S
BY DEF Descendants

LEMMA BelowIsClosed ==
  ASSUME NEW d, NEW g \in DOMAIN folders, folders[g].parent \in Descendants(d) \cup {d}
  PROVE  g \in Descendants(d)
BY DEF Descendants

LEMMA SelfBelow ==
  ASSUME NEW d \in DOMAIN folders
  PROVE  d \in Descendants(d)
BY DEF Descendants

\* All of a folder's tree is its owner's, files included.
LEMMA TreeOwned ==
  ASSUME TypeOK, OwnTrees, NEW u, NEW d, OwnsFolder(u, d)
  PROVE  /\ \A g \in Descendants(d) : OwnsFolder(u, g)
         /\ \A f \in FilesUnder(d) : files[f].owner = u
<1> DEFINE S == { g \in DOMAIN folders : folders[g].owner = u }
<1>1. S \in SUBSET Folder /\ d \in S
  BY Rows DEF OwnsFolder
<1>2. ASSUME NEW g \in DOMAIN folders, folders[g].parent \in S PROVE g \in S
  <2>1. folders[g].parent # None
    BY <1>2, <1>1, StorageConstants
  <2>2. OwnsFolder(folders[g].owner, folders[g].parent)
    BY <2>1 DEF OwnTrees
  <2> QED BY <1>2, <2>2 DEF OwnsFolder
<1> HIDE DEF S
<1>3. Descendants(d) \subseteq S
  BY <1>1, <1>2, BelowIsLeast
<1>4. ASSUME NEW f \in FilesUnder(d) PROVE files[f].owner = u
  <2>1. f \in DOMAIN files /\ files[f].folder \in S
    BY <1>3 DEF FilesUnder
  <2>2. files[f].folder # None
    BY <2>1, <1>1, StorageConstants
  <2>3. OwnsFolder(files[f].owner, files[f].folder)
    BY <2>1, <2>2 DEF OwnTrees
  <2> QED BY <2>1, <2>3 DEF OwnsFolder, S
<1> QED BY <1>3, <1>4 DEF OwnsFolder, S

\* A new folder adds no more than itself below any other.
LEMMA BelowAfterInsert ==
  ASSUME TypeOK, OwnTrees, NEW n \in Folder, n \notin DOMAIN folders, NEW row,
         NEW d \in DOMAIN folders, folders' = WithRow(folders, n, row)
  PROVE  Descendants(d)' \subseteq Descendants(d) \cup {n}
<1> DEFINE S == Descendants(d) \cup {n}
<1>1. S \in SUBSET Folder /\ d \in S
  BY Rows, SelfBelow DEF Descendants
<1>2. DOMAIN folders' = DOMAIN folders \cup {n} /\ \A g \in DOMAIN folders : folders'[g] = folders[g]
  BY DEF WithRow
<1>3. ASSUME NEW g \in DOMAIN folders', folders'[g].parent \in S PROVE g \in S
  <2>1. CASE g = n
    BY <2>1
  <2>2. CASE g # n
    <3>1. g \in DOMAIN folders /\ folders[g].parent \in S
      BY <1>2, <1>3, <2>2
    <3>2. folders[g].parent # n
      BY <3>1, StorageConstants DEF OwnTrees, OwnsFolder
    <3> QED BY <3>1, <3>2, BelowIsClosed
  <2> QED BY <2>1, <2>2
<1> HIDE DEF S
<1>4. ASSUME NEW g \in Descendants(d)' PROVE g \in S
  BY <1>1, <1>3, <1>4 DEF Descendants
<1> QED BY <1>4 DEF S

\* Deleting folders puts none below another.
LEMMA BelowAfterDelete ==
  ASSUME NEW X, NEW d, folders' = WithoutRows(folders, X)
  PROVE  Descendants(d)' \subseteq Descendants(d)
<1>1. DOMAIN folders' = DOMAIN folders \ X /\ \A g \in DOMAIN folders' : folders'[g] = folders[g]
  BY DEF WithoutRows
<1>2. ASSUME NEW g \in Descendants(d)' PROVE g \in Descendants(d)
  <2>1. g \in DOMAIN folders
    BY <1>1, <1>2 DEF Descendants
  <2>2. ASSUME NEW S \in SUBSET Folder, d \in S,
               \A h \in DOMAIN folders : folders[h].parent \in S => h \in S
        PROVE  g \in S
    <3>1. \A h \in DOMAIN folders' : folders'[h].parent \in S => h \in S
      BY <1>1, <2>2
    <3> QED BY <1>2, <2>2, <3>1 DEF Descendants
  <2> QED BY <2>1, <2>2 DEF Descendants
<1> QED BY <1>2

\* Where no row changes, neither does what is below a folder.
LEMMA Same ==
  ASSUME UNCHANGED <<folders, files>>
  PROVE  /\ \A d : Descendants(d)' = Descendants(d)
         /\ \A d : FilesUnder(d)' = FilesUnder(d)
         /\ \A u, d : OwnsFolder(u, d)' = OwnsFolder(u, d)
BY DEF Descendants, FilesUnder, OwnsFolder

-----------------------------------------------------------------------------
(* Every action keeps the invariant                                        *)

LEMMA StartCreateFolderInv ==
  ASSUME Inv, NEW r \in Req, NEW u \in User, NEW p \in everFolder \cup {None}, StartCreateFolder(r, u, p)
  PROVE  Inv'
<1> USE StorageConstants DEF Inv, StartCreateFolder, Arrive, Go, Answer, Idle
<1>1. TypeOK'
  BY DEF TypeOK, Request, Step, Parent, FolderRow, FileRow
<1>2. IdsKnown'
  BY DEF TypeOK, IdsKnown, Request, Step, Parent, FileRow
<1>3. OwnTrees'
  BY Same DEF OwnTrees
<1>4. ParentsOwn'
  BY DEF TypeOK, ParentsOwn, IdsKnown, OwnsFolder
<1>5. UploadsTrue'
  BY DEF TypeOK, UploadsTrue, Uploading, IdsKnown, DeletesTrue, Deleting, StoredIsSaved
<1>6. StoredIsSaved'
  BY DEF TypeOK, StoredIsSaved, UploadsTrue, Uploading, IdsKnown
<1>7. DeletesTrue'
  BY Same DEF TypeOK, DeletesTrue, Deleting, IdsKnown, UploadsTrue, Uploading, StoredIsSaved
<1>8. SavedIsWhole'
  BY DEF TypeOK, SavedIsWhole, UploadsTrue, Uploading, DeletesTrue, Deleting
<1>9. OrphansAreExcused'
  BY DEF TypeOK, OrphansAreExcused, UploadsTrue, Uploading, DeletesTrue, Deleting, IdsKnown
<1> QED BY <1>1, <1>2, <1>3, <1>4, <1>5, <1>6, <1>7, <1>8, <1>9

LEMMA StartUploadInv ==
  ASSUME Inv, NEW r \in Req, NEW u \in User, NEW p \in everFolder \cup {None}, StartUpload(r, u, p)
  PROVE  Inv'
<1> USE StorageConstants DEF Inv, StartUpload, Arrive, Go, Answer, Idle
<1>1. TypeOK'
  BY DEF TypeOK, Request, Step, Parent, FolderRow, FileRow
<1>2. IdsKnown'
  BY DEF TypeOK, IdsKnown, Request, Step, Parent, FileRow
<1>3. OwnTrees'
  BY Same DEF OwnTrees
<1>4. ParentsOwn'
  BY DEF TypeOK, ParentsOwn, IdsKnown, OwnsFolder
<1>5. UploadsTrue'
  BY DEF TypeOK, UploadsTrue, Uploading, IdsKnown, DeletesTrue, Deleting, StoredIsSaved
<1>6. StoredIsSaved'
  BY DEF TypeOK, StoredIsSaved, UploadsTrue, Uploading, IdsKnown
<1>7. DeletesTrue'
  BY Same DEF TypeOK, DeletesTrue, Deleting, IdsKnown, UploadsTrue, Uploading, StoredIsSaved
<1>8. SavedIsWhole'
  BY DEF TypeOK, SavedIsWhole, UploadsTrue, Uploading, DeletesTrue, Deleting
<1>9. OrphansAreExcused'
  BY DEF TypeOK, OrphansAreExcused, UploadsTrue, Uploading, DeletesTrue, Deleting, IdsKnown
<1> QED BY <1>1, <1>2, <1>3, <1>4, <1>5, <1>6, <1>7, <1>8, <1>9

LEMMA CheckParentInv ==
  ASSUME Inv, NEW r \in Req, CheckParent(r)
  PROVE  Inv'
<1> USE StorageConstants DEF Inv, CheckParent, Arrive, Go, Answer, Idle
<1>1. TypeOK'
  BY DEF TypeOK, Request, Step, Parent, FolderRow, FileRow
<1>2. IdsKnown'
  <2>1. CASE OwnsFolder(req[r].user, req[r].folder)
    BY <2>1, Rows DEF TypeOK, IdsKnown, Request
  <2>2. CASE ~(OwnsFolder(req[r].user, req[r].folder))
    BY <2>2, Rows DEF TypeOK, IdsKnown, Request
  <2> QED BY <2>1, <2>2
<1>3. OwnTrees'
  BY Same DEF OwnTrees
<1>4. ParentsOwn'
  <2>1. CASE OwnsFolder(req[r].user, req[r].folder)
    BY <2>1, Rows DEF TypeOK, ParentsOwn, OwnsFolder, Request
  <2>2. CASE ~(OwnsFolder(req[r].user, req[r].folder))
    BY <2>2, Rows DEF TypeOK, ParentsOwn, OwnsFolder, Request
  <2> QED BY <2>1, <2>2
<1>5. UploadsTrue'
  <2>1. CASE OwnsFolder(req[r].user, req[r].folder)
    BY <2>1, Rows DEF TypeOK, UploadsTrue, Uploading, Request
  <2>2. CASE ~(OwnsFolder(req[r].user, req[r].folder))
    BY <2>2, Rows DEF TypeOK, UploadsTrue, Uploading, Request
  <2> QED BY <2>1, <2>2
<1>6. StoredIsSaved'
  BY DEF TypeOK, StoredIsSaved, UploadsTrue, Uploading, IdsKnown
<1>7. DeletesTrue'
  <2>1. CASE OwnsFolder(req[r].user, req[r].folder)
    BY <2>1, Same DEF TypeOK, DeletesTrue, Deleting, Request
  <2>2. CASE ~(OwnsFolder(req[r].user, req[r].folder))
    BY <2>2, Same DEF TypeOK, DeletesTrue, Deleting, Request
  <2> QED BY <2>1, <2>2
<1>8. SavedIsWhole'
  BY DEF TypeOK, SavedIsWhole, UploadsTrue, Uploading, DeletesTrue, Deleting
<1>9. OrphansAreExcused'
  BY DEF TypeOK, OrphansAreExcused, UploadsTrue, Uploading, DeletesTrue, Deleting, IdsKnown
<1> QED BY <1>1, <1>2, <1>3, <1>4, <1>5, <1>6, <1>7, <1>8, <1>9

LEMMA InsertFolderInv ==
  ASSUME Inv, NEW r \in Req, NEW d \in Folder, InsertFolder(r, d)
  PROVE  Inv'
<1> USE StorageConstants DEF Inv, InsertFolder, Arrive, Go, Answer, Idle
<1>1. TypeOK'
  <2>1. CASE ParentThere(r)
    <3>1. [owner |-> req[r].user, parent |-> req[r].folder] \in FolderRow
      BY DEF TypeOK, Request, FolderRow, IdsKnown
    <3> QED BY <2>1, <3>1, WithRowType DEF TypeOK, Request, Step, Parent
  <2>2. CASE ~ParentThere(r)
    BY <2>2 DEF TypeOK, Request, Step, Parent, tables
  <2> QED BY <2>1, <2>2
<1>2. IdsKnown'
  <2>1. CASE ParentThere(r)
    BY <2>1, Rows DEF TypeOK, IdsKnown, Request, Step, WithRow, WithoutRows, Parent, FileRow,
       FilesUnder, tables
  <2>2. CASE ~(ParentThere(r))
    BY <2>2, Rows DEF TypeOK, IdsKnown, Request, Step, WithRow, WithoutRows, Parent, FileRow,
       FilesUnder, tables
  <2> QED BY <2>1, <2>2
<1>3. OwnTrees'
  <2>1. CASE ParentThere(r)
    BY <2>1, Rows DEF TypeOK, OwnTrees, OwnsFolder, IdsKnown, WithRow, ParentsOwn, ParentThere,
       Request, tables
  <2>2. CASE ~(ParentThere(r))
    BY <2>2, Rows DEF TypeOK, OwnTrees, OwnsFolder, IdsKnown, WithRow, ParentsOwn, ParentThere,
       Request, tables
  <2> QED BY <2>1, <2>2
<1>4. ParentsOwn'
  <2>1. CASE ParentThere(r)
    BY <2>1, Rows DEF TypeOK, ParentsOwn, OwnsFolder, IdsKnown, WithRow, ParentThere, Request,
       tables
  <2>2. CASE ~(ParentThere(r))
    BY <2>2, Rows DEF TypeOK, ParentsOwn, OwnsFolder, IdsKnown, WithRow, ParentThere, Request,
       tables
  <2> QED BY <2>1, <2>2
<1>5. UploadsTrue'
  BY Rows DEF TypeOK, UploadsTrue, Uploading, IdsKnown, WithRow, DeletesTrue, Deleting,
     StoredIsSaved
<1>6. StoredIsSaved'
  BY Rows DEF TypeOK, StoredIsSaved, UploadsTrue, Uploading, IdsKnown, WithRow
<1>7. DeletesTrue'
  <2>1. CASE ~ParentThere(r)
    BY <2>1, Same DEF TypeOK, DeletesTrue, Deleting, Request, tables
  <2>2. CASE ParentThere(r)
    <3>1. ASSUME NEW s \in Req, req'[s].at = "removeBlobs", OwnsFolder(req[s].user, req[s].folder)',
                 NEW g \in FilesUnder(req[s].folder)' \cap req[s].settled
          PROVE  /\ OwnsFolder(req[s].user, req[s].folder)
                 /\ g \in FilesUnder(req[s].folder)
      <4>1. s # r /\ req'[s] = req[s]
        BY <3>1 DEF TypeOK, Request
      <4>2. OwnsFolder(req[s].user, req[s].folder)
        BY <2>2, <3>1, <4>1 DEF OwnsFolder, WithRow, IdsKnown
      <4>3. files[g].folder \in Descendants(req[s].folder) \cup {d}
        BY <2>2, <3>1, <4>2, BelowAfterInsert, Rows DEF FilesUnder, OwnsFolder, IdsKnown
      <4>4. files[g].folder # d
        BY <3>1, Rows DEF FilesUnder, OwnTrees, OwnsFolder, IdsKnown
      <4> QED BY <3>1, <4>2, <4>3, <4>4 DEF FilesUnder
    <3>2. \A s \in Req : s # r => req'[s] = req[s]
      BY DEF TypeOK
    <3>3. req'[r].at = "idle"
      BY DEF TypeOK
    <3> QED BY <3>1, <3>2, <3>3 DEF DeletesTrue, Deleting
  <2> QED BY <2>1, <2>2
<1>8. SavedIsWhole'
  BY Rows DEF TypeOK, SavedIsWhole, UploadsTrue, Uploading, DeletesTrue, Deleting, WithRow
<1>9. OrphansAreExcused'
  BY Rows DEF TypeOK, OrphansAreExcused, UploadsTrue, Uploading, DeletesTrue, Deleting,
     IdsKnown, WithRow
<1> QED BY <1>1, <1>2, <1>3, <1>4, <1>5, <1>6, <1>7, <1>8, <1>9

LEMMA InsertFileInv ==
  ASSUME Inv, NEW r \in Req, NEW f \in File, InsertFile(r, f)
  PROVE  Inv'
<1> USE StorageConstants DEF Inv, InsertFile, Arrive, Go, Answer, Idle
<1>1. TypeOK'
  <2>1. CASE ParentThere(r)
    <3>1. [owner |-> req[r].user, folder |-> req[r].folder, path |-> "pending"] \in FileRow
      BY DEF TypeOK, Request, FileRow, IdsKnown
    <3>2. files' \in TablesOf(File, FileRow)
      BY <2>1, <3>1, WithRowType DEF TypeOK
    <3>3. req' \in [Req -> Request] /\ everFile' \in SUBSET File
      BY <2>1 DEF TypeOK, Request, Step, Parent
    <3> QED BY <3>2, <3>3 DEF TypeOK
  <2>2. CASE ~ParentThere(r)
    BY <2>2 DEF TypeOK, Request, Step, Parent
  <2> QED BY <2>1, <2>2
<1>2. IdsKnown'
  BY Rows DEF TypeOK, IdsKnown, Request, Step, WithRow, Parent, FileRow
<1>3. OwnTrees'
  <2>1. CASE ParentThere(r)
    BY <2>1, Rows DEF TypeOK, OwnTrees, OwnsFolder, IdsKnown, WithRow, ParentsOwn, ParentThere,
       Request
  <2>2. CASE ~(ParentThere(r))
    BY <2>2, Rows DEF TypeOK, OwnTrees, OwnsFolder, IdsKnown, WithRow, ParentsOwn, ParentThere,
       Request
  <2> QED BY <2>1, <2>2
<1>4. ParentsOwn'
  <2>1. CASE ParentThere(r)
    BY <2>1, Rows DEF TypeOK, ParentsOwn, Request
  <2>2. CASE ~(ParentThere(r))
    BY <2>2, Rows DEF TypeOK, ParentsOwn, Request
  <2> QED BY <2>1, <2>2
<1>5. UploadsTrue'
  <2>1. CASE ParentThere(r)
    BY <2>1, Rows DEF TypeOK, UploadsTrue, Uploading, IdsKnown, WithRow, Request
  <2>2. CASE ~(ParentThere(r))
    BY <2>2, Rows DEF TypeOK, UploadsTrue, Uploading, IdsKnown, WithRow, Request
  <2> QED BY <2>1, <2>2
<1>6. StoredIsSaved'
  BY Rows DEF TypeOK, StoredIsSaved, UploadsTrue, Uploading, IdsKnown, WithRow
<1>7. DeletesTrue'
  <2>1. CASE ParentThere(r)
    <3>1. \A e : Descendants(e)' = Descendants(e) /\ FilesUnder(e)' \cap stored \subseteq FilesUnder(e)
      BY <2>1, Rows DEF Descendants, FilesUnder, WithRow, IdsKnown
    <3> QED BY <2>1, <3>1, Rows DEF TypeOK, DeletesTrue, Deleting, IdsKnown, WithRow,
       OwnsFolder, Request
  <2>2. CASE ~ParentThere(r)
    BY <2>2, Same DEF TypeOK, DeletesTrue, Deleting, Request
  <2> QED BY <2>1, <2>2
<1>8. SavedIsWhole'
  BY Rows DEF TypeOK, SavedIsWhole, UploadsTrue, Uploading, DeletesTrue, Deleting, WithRow
<1>9. OrphansAreExcused'
  BY Rows DEF TypeOK, OrphansAreExcused, UploadsTrue, Uploading, DeletesTrue, Deleting,
     IdsKnown, WithRow
<1> QED BY <1>1, <1>2, <1>3, <1>4, <1>5, <1>6, <1>7, <1>8, <1>9

LEMMA CreateBlobInv ==
  ASSUME Inv, NEW r \in Req, CreateBlob(r)
  PROVE  Inv'
<1> USE StorageConstants DEF Inv, CreateBlob, Arrive, Go, Answer, Idle
<1>1. TypeOK'
  BY Rows, WithoutRowsType, WithRowType DEF TypeOK, Request, Step, Parent, FolderRow, FileRow,
     UploadsTrue, Uploading, IdsKnown, DeletesTrue
<1>2. IdsKnown'
  BY DEF TypeOK, IdsKnown, Request, Step, Parent, FileRow
<1>3. OwnTrees'
  BY Same DEF OwnTrees
<1>4. ParentsOwn'
  BY DEF TypeOK, ParentsOwn, IdsKnown, OwnsFolder
<1>5. UploadsTrue'
  BY DEF TypeOK, UploadsTrue, Uploading, IdsKnown, DeletesTrue, Deleting, StoredIsSaved
<1>6. StoredIsSaved'
  BY DEF TypeOK, StoredIsSaved, UploadsTrue, Uploading, IdsKnown
<1>7. DeletesTrue'
  BY Same DEF TypeOK, DeletesTrue, Deleting, IdsKnown, UploadsTrue, Uploading, StoredIsSaved
<1>8. SavedIsWhole'
  BY DEF TypeOK, SavedIsWhole, UploadsTrue, Uploading, DeletesTrue, Deleting
<1>9. OrphansAreExcused'
  BY DEF TypeOK, OrphansAreExcused, UploadsTrue, Uploading, DeletesTrue, Deleting, IdsKnown
<1> QED BY <1>1, <1>2, <1>3, <1>4, <1>5, <1>6, <1>7, <1>8, <1>9

LEMMA CopyBlobInv ==
  ASSUME Inv, NEW r \in Req, CopyBlob(r)
  PROVE  Inv'
<1> USE StorageConstants DEF Inv, CopyBlob, Arrive, Go, Answer, Idle
<1>1. TypeOK'
  BY Rows, WithoutRowsType, WithRowType DEF TypeOK, Request, Step, Parent, FolderRow, FileRow,
     UploadsTrue, Uploading, IdsKnown, DeletesTrue
<1>2. IdsKnown'
  BY DEF TypeOK, IdsKnown, Request, Step, Parent, FileRow
<1>3. OwnTrees'
  BY Same DEF OwnTrees
<1>4. ParentsOwn'
  BY DEF TypeOK, ParentsOwn, IdsKnown, OwnsFolder
<1>5. UploadsTrue'
  BY DEF TypeOK, UploadsTrue, Uploading, IdsKnown, DeletesTrue, Deleting, StoredIsSaved
<1>6. StoredIsSaved'
  BY DEF TypeOK, StoredIsSaved, UploadsTrue, Uploading, IdsKnown
<1>7. DeletesTrue'
  BY Same DEF TypeOK, DeletesTrue, Deleting, IdsKnown, UploadsTrue, Uploading, StoredIsSaved
<1>8. SavedIsWhole'
  BY DEF TypeOK, SavedIsWhole, UploadsTrue, Uploading, DeletesTrue, Deleting
<1>9. OrphansAreExcused'
  BY DEF TypeOK, OrphansAreExcused, UploadsTrue, Uploading, DeletesTrue, Deleting, IdsKnown
<1> QED BY <1>1, <1>2, <1>3, <1>4, <1>5, <1>6, <1>7, <1>8, <1>9

LEMMA SaveFailsInv ==
  ASSUME Inv, NEW r \in Req, SaveFails(r)
  PROVE  Inv'
<1> USE StorageConstants DEF Inv, SaveFails, Arrive, Go, Answer, Idle
<1>1. TypeOK'
  BY Rows, WithoutRowsType, WithRowType DEF TypeOK, Request, Step, Parent, FolderRow, FileRow,
     UploadsTrue, Uploading, IdsKnown, DeletesTrue
<1>2. IdsKnown'
  BY DEF TypeOK, IdsKnown, Request, Step, Parent, FileRow
<1>3. OwnTrees'
  BY Same DEF OwnTrees
<1>4. ParentsOwn'
  BY DEF TypeOK, ParentsOwn, IdsKnown, OwnsFolder
<1>5. UploadsTrue'
  BY DEF TypeOK, UploadsTrue, Uploading, IdsKnown, DeletesTrue, Deleting, StoredIsSaved
<1>6. StoredIsSaved'
  BY DEF TypeOK, StoredIsSaved, UploadsTrue, Uploading, IdsKnown
<1>7. DeletesTrue'
  BY Same DEF TypeOK, DeletesTrue, Deleting, IdsKnown, UploadsTrue, Uploading, StoredIsSaved
<1>8. SavedIsWhole'
  BY DEF TypeOK, SavedIsWhole, UploadsTrue, Uploading, DeletesTrue, Deleting
<1>9. OrphansAreExcused'
  BY DEF TypeOK, OrphansAreExcused, UploadsTrue, Uploading, DeletesTrue, Deleting, IdsKnown
<1> QED BY <1>1, <1>2, <1>3, <1>4, <1>5, <1>6, <1>7, <1>8, <1>9

LEMMA CleanupInv ==
  ASSUME Inv, NEW r \in Req, Cleanup(r)
  PROVE  Inv'
<1> USE StorageConstants DEF Inv, Cleanup, Arrive, Go, Answer, Idle
<1>1. TypeOK'
  BY Rows, WithoutRowsType DEF TypeOK, Request, Step, Parent, FolderRow, FileRow
<1>2. IdsKnown'
  BY Rows DEF TypeOK, IdsKnown, Request, Step, WithoutRows, Parent, FileRow
<1>3. OwnTrees'
  BY Rows, Same DEF OwnTrees, WithoutRows, OwnsFolder
<1>4. ParentsOwn'
  BY Rows DEF TypeOK, ParentsOwn, IdsKnown, OwnsFolder, WithoutRows
<1>5. UploadsTrue'
  BY Rows DEF TypeOK, UploadsTrue, Uploading, IdsKnown, WithoutRows, DeletesTrue, Deleting,
     StoredIsSaved
<1>6. StoredIsSaved'
  BY Rows DEF TypeOK, StoredIsSaved, UploadsTrue, Uploading, IdsKnown, WithoutRows
<1>7. DeletesTrue'
  <2>1. \A e : FilesUnder(e)' \subseteq FilesUnder(e)
    BY DEF FilesUnder, Descendants, WithoutRows
  <2> QED BY <2>1 DEF TypeOK, DeletesTrue, Deleting, WithoutRows, OwnsFolder, Request
<1>8. SavedIsWhole'
  BY Rows DEF TypeOK, SavedIsWhole, UploadsTrue, Uploading, DeletesTrue, Deleting, WithoutRows
<1>9. OrphansAreExcused'
  BY Rows DEF TypeOK, OrphansAreExcused, UploadsTrue, Uploading, DeletesTrue, Deleting,
     IdsKnown, WithoutRows
<1> QED BY <1>1, <1>2, <1>3, <1>4, <1>5, <1>6, <1>7, <1>8, <1>9

LEMMA RecordPathInv ==
  ASSUME Inv, NEW r \in Req, RecordPath(r)
  PROVE  Inv'
<1> USE StorageConstants DEF Inv, RecordPath, Arrive, Go, Answer, Idle
<1>1. TypeOK'
  <2>1. req[r].file \in everFile
    BY DEF UploadsTrue, Uploading
  <2>2. files' \in TablesOf(File, FileRow)
    <3>1. files \in [DOMAIN files -> FileRow] /\ DOMAIN files \in SUBSET File
      BY DEF TypeOK, TablesOf
    <3>2. files' \in [DOMAIN files -> FileRow]
      BY <3>1 DEF FileRow
    <3> QED BY <3>1, <3>2 DEF TablesOf
  <2>3. req' \in [Req -> Request]
    BY DEF TypeOK, Request, Step, Parent
  <2>4. stored' \in SUBSET File
    BY <2>1 DEF TypeOK
  <2> QED BY <2>2, <2>3, <2>4 DEF TypeOK
<1>2. IdsKnown'
  BY Rows DEF TypeOK, IdsKnown, UploadsTrue, Uploading, Request
<1>3. OwnTrees'
  BY Rows, Same DEF OwnTrees, TypeOK, OwnsFolder
<1>4. ParentsOwn'
  BY Rows DEF TypeOK, ParentsOwn, IdsKnown, OwnsFolder
<1>5. UploadsTrue'
  BY Rows DEF TypeOK, UploadsTrue, Uploading, IdsKnown, DeletesTrue, Deleting, StoredIsSaved
<1>6. StoredIsSaved'
  BY Rows DEF TypeOK, StoredIsSaved, UploadsTrue, Uploading, IdsKnown
<1>7. DeletesTrue'
  <2>1. \A e : FilesUnder(e)' = FilesUnder(e)
    BY Rows DEF FilesUnder, Descendants, FileRow
  <2>2. \A f \in DOMAIN files : f \in DOMAIN files' /\ files'[f].owner = files[f].owner
    BY Rows DEF FileRow
  <2>3. DOMAIN files' = DOMAIN files
    OBVIOUS
  <2> QED BY <2>1, <2>2, <2>3 DEF TypeOK, DeletesTrue, Deleting, OwnsFolder, Request
<1>8. SavedIsWhole'
  BY Rows DEF TypeOK, SavedIsWhole, UploadsTrue, Uploading, DeletesTrue, Deleting
<1>9. OrphansAreExcused'
  BY Rows DEF TypeOK, OrphansAreExcused, UploadsTrue, Uploading, DeletesTrue, Deleting, IdsKnown
<1> QED BY <1>1, <1>2, <1>3, <1>4, <1>5, <1>6, <1>7, <1>8, <1>9

LEMMA StartDeleteFileInv ==
  ASSUME Inv, NEW r \in Req, NEW u \in User, NEW f \in File, StartDeleteFile(r, u, f)
  PROVE  Inv'
<1> USE StorageConstants DEF Inv, StartDeleteFile, Arrive, Go, Answer, Idle
<1>1. TypeOK'
  BY DEF TypeOK, Request, Step, Parent, FolderRow, FileRow
<1>2. IdsKnown'
  BY DEF TypeOK, IdsKnown, Request, Step, Parent, FileRow
<1>3. OwnTrees'
  BY Same DEF OwnTrees
<1>4. ParentsOwn'
  BY DEF TypeOK, ParentsOwn, IdsKnown, OwnsFolder
<1>5. UploadsTrue'
  BY DEF TypeOK, UploadsTrue, Uploading, IdsKnown, DeletesTrue, Deleting, StoredIsSaved
<1>6. StoredIsSaved'
  BY DEF TypeOK, StoredIsSaved, UploadsTrue, Uploading, IdsKnown
<1>7. DeletesTrue'
  BY Same DEF TypeOK, DeletesTrue, Deleting, IdsKnown, UploadsTrue, Uploading, StoredIsSaved
<1>8. SavedIsWhole'
  BY DEF TypeOK, SavedIsWhole, UploadsTrue, Uploading, DeletesTrue, Deleting
<1>9. OrphansAreExcused'
  BY DEF TypeOK, OrphansAreExcused, UploadsTrue, Uploading, DeletesTrue, Deleting, IdsKnown
<1> QED BY <1>1, <1>2, <1>3, <1>4, <1>5, <1>6, <1>7, <1>8, <1>9

LEMMA ReadFileInv ==
  ASSUME Inv, NEW r \in Req, ReadFile(r)
  PROVE  Inv'
<1> USE StorageConstants DEF Inv, ReadFile, Arrive, Go, Answer, Idle
<1>1. TypeOK'
  BY Rows DEF TypeOK, Request, Step, Parent, FolderRow, FileRow, OwnsFile
<1>2. IdsKnown'
  BY Rows DEF TypeOK, IdsKnown, Request, Step, Parent, FileRow
<1>3. OwnTrees'
  BY Rows, Same DEF OwnTrees
<1>4. ParentsOwn'
  <2>1. CASE OwnsFile(req[r].user, req[r].file)
    BY <2>1, Rows DEF TypeOK, ParentsOwn, Request
  <2>2. CASE ~(OwnsFile(req[r].user, req[r].file))
    BY <2>2, Rows DEF TypeOK, ParentsOwn, Request
  <2> QED BY <2>1, <2>2
<1>5. UploadsTrue'
  <2>1. CASE OwnsFile(req[r].user, req[r].file)
    BY <2>1, Rows DEF TypeOK, UploadsTrue, Uploading, OwnsFile, Request
  <2>2. CASE ~(OwnsFile(req[r].user, req[r].file))
    BY <2>2, Rows DEF TypeOK, UploadsTrue, Uploading, OwnsFile, Request
  <2> QED BY <2>1, <2>2
<1>6. StoredIsSaved'
  BY Rows DEF TypeOK, StoredIsSaved, UploadsTrue, Uploading, IdsKnown
<1>7. DeletesTrue'
  <2>1. CASE OwnsFile(req[r].user, req[r].file)
    BY <2>1, Same DEF TypeOK, DeletesTrue, Deleting, OwnsFile, IdsKnown, StoredIsSaved, Request
  <2>2. CASE ~(OwnsFile(req[r].user, req[r].file))
    BY <2>2, Same DEF TypeOK, DeletesTrue, Deleting, OwnsFile, IdsKnown, StoredIsSaved, Request
  <2> QED BY <2>1, <2>2
<1>8. SavedIsWhole'
  BY Rows DEF TypeOK, SavedIsWhole, UploadsTrue, Uploading, DeletesTrue, Deleting
<1>9. OrphansAreExcused'
  BY Rows DEF TypeOK, OrphansAreExcused, UploadsTrue, Uploading, DeletesTrue, Deleting, IdsKnown
<1> QED BY <1>1, <1>2, <1>3, <1>4, <1>5, <1>6, <1>7, <1>8, <1>9

LEMMA DeleteFileRowInv ==
  ASSUME Inv, NEW r \in Req, DeleteFileRow(r)
  PROVE  Inv'
<1> USE StorageConstants DEF Inv, DeleteFileRow, Arrive, Go, Answer, Idle
<1>1. TypeOK'
  BY Rows, WithoutRowsType, WithRowType DEF TypeOK, Request, Step, Parent, FolderRow, FileRow,
     DeletesTrue, IdsKnown
<1>2. IdsKnown'
  BY Rows DEF TypeOK, IdsKnown, Request, Step, WithoutRows, Parent, FileRow
<1>3. OwnTrees'
  BY Rows, Same DEF OwnTrees, WithoutRows, OwnsFolder
<1>4. ParentsOwn'
  BY Rows DEF TypeOK, ParentsOwn, IdsKnown, OwnsFolder, WithoutRows
<1>5. UploadsTrue'
  BY Rows DEF TypeOK, UploadsTrue, Uploading, IdsKnown, WithoutRows, DeletesTrue, Deleting,
     StoredIsSaved
<1>6. StoredIsSaved'
  BY Rows DEF TypeOK, StoredIsSaved, UploadsTrue, Uploading, IdsKnown, WithoutRows
<1>7. DeletesTrue'
  <2>1. \A e : FilesUnder(e)' \subseteq FilesUnder(e)
    BY DEF FilesUnder, Descendants, WithoutRows
  <2> QED BY <2>1 DEF TypeOK, DeletesTrue, Deleting, WithoutRows, OwnsFolder, Request
<1>8. SavedIsWhole'
  BY Rows DEF TypeOK, SavedIsWhole, UploadsTrue, Uploading, DeletesTrue, Deleting, WithoutRows
<1>9. OrphansAreExcused'
  BY Rows DEF TypeOK, OrphansAreExcused, UploadsTrue, Uploading, DeletesTrue, Deleting,
     IdsKnown, WithoutRows
<1> QED BY <1>1, <1>2, <1>3, <1>4, <1>5, <1>6, <1>7, <1>8, <1>9

LEMMA FinishDeleteFileInv ==
  ASSUME Inv, NEW r \in Req, FinishDeleteFile(r)
  PROVE  Inv'
<1> USE StorageConstants DEF Inv, FinishDeleteFile, Arrive, Go, Answer, Idle
<1>1. TypeOK'
  BY DEF TypeOK, Request, Step, Parent, FolderRow, FileRow
<1>2. IdsKnown'
  BY DEF TypeOK, IdsKnown, Request, Step, Parent, FileRow
<1>3. OwnTrees'
  BY Same DEF OwnTrees
<1>4. ParentsOwn'
  BY DEF TypeOK, ParentsOwn, IdsKnown, OwnsFolder
<1>5. UploadsTrue'
  BY DEF TypeOK, UploadsTrue, Uploading, IdsKnown, DeletesTrue, Deleting, StoredIsSaved
<1>6. StoredIsSaved'
  BY DEF TypeOK, StoredIsSaved, UploadsTrue, Uploading, IdsKnown
<1>7. DeletesTrue'
  BY Same DEF TypeOK, DeletesTrue, Deleting, IdsKnown, UploadsTrue, Uploading, StoredIsSaved
<1>8. SavedIsWhole'
  BY DEF TypeOK, SavedIsWhole, UploadsTrue, Uploading, DeletesTrue, Deleting
<1>9. OrphansAreExcused'
  BY DEF TypeOK, OrphansAreExcused, UploadsTrue, Uploading, DeletesTrue, Deleting, IdsKnown
<1> QED BY <1>1, <1>2, <1>3, <1>4, <1>5, <1>6, <1>7, <1>8, <1>9

LEMMA StartDeleteFolderInv ==
  ASSUME Inv, NEW r \in Req, NEW u \in User, NEW d \in Folder, StartDeleteFolder(r, u, d)
  PROVE  Inv'
<1> USE StorageConstants DEF Inv, StartDeleteFolder, Arrive, Go, Answer, Idle
<1>1. TypeOK'
  BY DEF TypeOK, Request, Step, Parent, FolderRow, FileRow
<1>2. IdsKnown'
  BY DEF TypeOK, IdsKnown, Request, Step, Parent, FileRow
<1>3. OwnTrees'
  BY Same DEF OwnTrees
<1>4. ParentsOwn'
  BY DEF TypeOK, ParentsOwn, IdsKnown, OwnsFolder
<1>5. UploadsTrue'
  BY DEF TypeOK, UploadsTrue, Uploading, IdsKnown, DeletesTrue, Deleting, StoredIsSaved
<1>6. StoredIsSaved'
  BY DEF TypeOK, StoredIsSaved, UploadsTrue, Uploading, IdsKnown
<1>7. DeletesTrue'
  BY Same DEF TypeOK, DeletesTrue, Deleting, IdsKnown, UploadsTrue, Uploading, StoredIsSaved
<1>8. SavedIsWhole'
  BY DEF TypeOK, SavedIsWhole, UploadsTrue, Uploading, DeletesTrue, Deleting
<1>9. OrphansAreExcused'
  BY DEF TypeOK, OrphansAreExcused, UploadsTrue, Uploading, DeletesTrue, Deleting, IdsKnown
<1> QED BY <1>1, <1>2, <1>3, <1>4, <1>5, <1>6, <1>7, <1>8, <1>9

LEMMA ListFilesUnderInv ==
  ASSUME Inv, NEW r \in Req, ListFilesUnder(r)
  PROVE  Inv'
<1> USE StorageConstants DEF Inv, ListFilesUnder, Arrive, Go, Answer, Idle
<1>1. TypeOK'
  <2> DEFINE saved == { f \in FilesUnder(req[r].folder) :
                         /\ OwnsFolder(req[r].user, req[r].folder)
                         /\ files[f].owner = req[r].user
                         /\ files[f].path = "saved" }
  <2>1. saved \subseteq File
    BY Rows DEF FilesUnder
  <2>2. /\ req' = [req EXCEPT ![r].at = "removeBlobs", ![r].left = saved]
        /\ condemned' = condemned \cup saved
    OBVIOUS
  <2> HIDE DEF saved, ListFilesUnder
  <2>3. condemned' \in SUBSET File
    BY <2>1, <2>2 DEF TypeOK
  <2>4. req[r] \in Request /\ [req[r] EXCEPT !.at = "removeBlobs", !.left = saved] \in Request
    <3>1. req[r] \in Request /\ "removeBlobs" \in Step
      BY DEF TypeOK, Step
    <3> QED
      BY <2>1, <3>1 DEF Request
  <2>5. req' = [req EXCEPT ![r] = [req[r] EXCEPT !.at = "removeBlobs", !.left = saved]]
    BY <2>2 DEF TypeOK
  <2>6. req' \in [Req -> Request]
    BY <2>4, <2>5 DEF TypeOK
  <2> USE DEF ListFilesUnder
  <2> QED BY <2>3, <2>6 DEF TypeOK
<1>2. IdsKnown'
  BY Rows DEF TypeOK, IdsKnown, Request, Step, Parent, FileRow, FilesUnder
<1>3. OwnTrees'
  BY Rows, Same DEF OwnTrees
<1>4. ParentsOwn'
  BY Rows DEF TypeOK, ParentsOwn, IdsKnown, OwnsFolder
<1>5. UploadsTrue'
  BY Rows DEF TypeOK, UploadsTrue, Uploading, IdsKnown, DeletesTrue, Deleting, FilesUnder,
     StoredIsSaved
<1>6. StoredIsSaved'
  BY Rows DEF TypeOK, StoredIsSaved, UploadsTrue, Uploading, IdsKnown
<1>7. DeletesTrue'
  <2>1. \A s \in Req : s # r => req'[s] = req[s]
    BY DEF TypeOK
  <2>2. req'[r].at = "removeBlobs"
    BY DEF TypeOK, Request
  <2>3. \A f \in req'[r].left : f \in condemned' /\ files[f].owner = req'[r].user
    BY DEF TypeOK, Request
  <2>4. OwnsFolder(req'[r].user, req'[r].folder) =>
          \A f \in FilesUnder(req'[r].folder) \cap req'[r].settled : f \in req'[r].left
    BY TreeOwned DEF TypeOK, Request, StoredIsSaved, IdsKnown, FilesUnder
  <2>5. files' = files /\ disk' = disk /\ excused' = excused /\ condemned \subseteq condemned' /\ everFile' = everFile
    OBVIOUS
  <2>6. \A e : FilesUnder(e)' = FilesUnder(e)
    BY Same
  <2>7. \A u, e : OwnsFolder(u, e)' = OwnsFolder(u, e)
    BY Same
  <2> HIDE DEF ListFilesUnder
  <2> QED BY <2>1, <2>2, <2>3, <2>4, <2>5, <2>6, <2>7 DEF DeletesTrue, Deleting
<1>8. SavedIsWhole'
  BY Rows DEF TypeOK, SavedIsWhole, UploadsTrue, Uploading, DeletesTrue, Deleting
<1>9. OrphansAreExcused'
  BY Rows DEF TypeOK, OrphansAreExcused, UploadsTrue, Uploading, DeletesTrue, Deleting, IdsKnown
<1> QED BY <1>1, <1>2, <1>3, <1>4, <1>5, <1>6, <1>7, <1>8, <1>9

LEMMA RemoveBlobInv ==
  ASSUME Inv, NEW r \in Req, NEW f \in File, RemoveBlob(r, f)
  PROVE  Inv'
<1> USE StorageConstants DEF Inv, RemoveBlob, Arrive, Go, Answer, Idle
<1>1. TypeOK'
  BY DEF TypeOK, Request, Step, Parent, FolderRow, FileRow
<1>2. IdsKnown'
  BY DEF TypeOK, IdsKnown, Request, Step, Parent, FileRow
<1>3. OwnTrees'
  BY Same DEF OwnTrees
<1>4. ParentsOwn'
  BY DEF TypeOK, ParentsOwn, IdsKnown, OwnsFolder
<1>5. UploadsTrue'
  BY DEF TypeOK, UploadsTrue, Uploading, IdsKnown, DeletesTrue, Deleting, StoredIsSaved
<1>6. StoredIsSaved'
  BY DEF TypeOK, StoredIsSaved, UploadsTrue, Uploading, IdsKnown
<1>7. DeletesTrue'
  BY Same DEF TypeOK, DeletesTrue, Deleting, IdsKnown, UploadsTrue, Uploading, StoredIsSaved
<1>8. SavedIsWhole'
  BY DEF TypeOK, SavedIsWhole, UploadsTrue, Uploading, DeletesTrue, Deleting
<1>9. OrphansAreExcused'
  BY DEF TypeOK, OrphansAreExcused, UploadsTrue, Uploading, DeletesTrue, Deleting, IdsKnown
<1> QED BY <1>1, <1>2, <1>3, <1>4, <1>5, <1>6, <1>7, <1>8, <1>9

LEMMA RemoveFailsInv ==
  ASSUME Inv, NEW r \in Req, NEW f \in File, RemoveFails(r, f)
  PROVE  Inv'
<1> USE StorageConstants DEF Inv, RemoveFails, Arrive, Go, Answer, Idle
<1>1. TypeOK'
  BY DEF TypeOK, Request, Step, Parent, FolderRow, FileRow
<1>2. IdsKnown'
  BY DEF TypeOK, IdsKnown, Request, Step, Parent, FileRow
<1>3. OwnTrees'
  BY Same DEF OwnTrees
<1>4. ParentsOwn'
  BY DEF TypeOK, ParentsOwn, IdsKnown, OwnsFolder
<1>5. UploadsTrue'
  BY DEF TypeOK, UploadsTrue, Uploading, IdsKnown, DeletesTrue, Deleting, StoredIsSaved
<1>6. StoredIsSaved'
  BY DEF TypeOK, StoredIsSaved, UploadsTrue, Uploading, IdsKnown
<1>7. DeletesTrue'
  BY Same DEF TypeOK, DeletesTrue, Deleting, IdsKnown, UploadsTrue, Uploading, StoredIsSaved
<1>8. SavedIsWhole'
  BY DEF TypeOK, SavedIsWhole, UploadsTrue, Uploading, DeletesTrue, Deleting
<1>9. OrphansAreExcused'
  BY DEF TypeOK, OrphansAreExcused, UploadsTrue, Uploading, DeletesTrue, Deleting, IdsKnown
<1> QED BY <1>1, <1>2, <1>3, <1>4, <1>5, <1>6, <1>7, <1>8, <1>9

LEMMA DeleteFolderRowInv ==
  ASSUME Inv, NEW r \in Req, DeleteFolderRow(r)
  PROVE  Inv'
<1> USE StorageConstants DEF Inv, DeleteFolderRow, Arrive, Go, Answer, Idle
<1>1. TypeOK'
  BY Rows, WithoutRowsType DEF TypeOK, Request, Step, Parent, FolderRow, FileRow, FilesUnder
<1>2. IdsKnown'
  BY Rows DEF TypeOK, IdsKnown, Request, Step, WithoutRows, Parent, FileRow, FilesUnder
<1>3. OwnTrees'
  <2>1. CASE ~OwnsFolder(req[r].user, req[r].folder)
    BY <2>1, Same DEF TypeOK, OwnTrees
  <2>2. CASE OwnsFolder(req[r].user, req[r].folder)
    <3>1. \A e \in DOMAIN folders' : e \in DOMAIN folders /\ e \notin Descendants(req[r].folder) /\ folders'[e] = folders[e]
      BY <2>2 DEF WithoutRows
    <3>2. \A e \in DOMAIN folders : e \notin Descendants(req[r].folder) => e \in DOMAIN folders' /\ folders'[e] = folders[e]
      BY <2>2 DEF WithoutRows
    <3>3. \A f \in DOMAIN files' : f \in DOMAIN files /\ f \notin FilesUnder(req[r].folder) /\ files'[f] = files[f]
      BY <2>2 DEF WithoutRows
    <3>4. \A e \in DOMAIN folders' : folders[e].parent \notin Descendants(req[r].folder)
      BY <3>1, BelowIsClosed
    <3>5. \A f \in DOMAIN files' : files[f].folder \notin Descendants(req[r].folder)
      BY <3>3 DEF FilesUnder
    <3> QED BY <3>1, <3>2, <3>3, <3>4, <3>5 DEF OwnTrees, OwnsFolder
  <2> QED BY <2>1, <2>2
<1>4. ParentsOwn'
  BY Rows DEF TypeOK, ParentsOwn, IdsKnown, OwnsFolder, WithoutRows
<1>5. UploadsTrue'
  BY Rows DEF TypeOK, UploadsTrue, Uploading, IdsKnown, WithoutRows, DeletesTrue, Deleting,
     FilesUnder, StoredIsSaved
<1>6. StoredIsSaved'
  BY Rows DEF TypeOK, StoredIsSaved, UploadsTrue, Uploading, IdsKnown, WithoutRows
<1>7. DeletesTrue'
  <2>1. CASE ~OwnsFolder(req[r].user, req[r].folder)
    BY <2>1, Same DEF TypeOK, DeletesTrue, Deleting, Request
  <2>2. CASE OwnsFolder(req[r].user, req[r].folder)
    <3>1. \A e : Descendants(e)' \subseteq Descendants(e)
      BY <2>2, BelowAfterDelete
    <3>2. \A e : FilesUnder(e)' \subseteq FilesUnder(e)
      BY <2>2, <3>1 DEF FilesUnder, WithoutRows
    <3>3. \A u, e : OwnsFolder(u, e)' => OwnsFolder(u, e)
      BY <2>2 DEF OwnsFolder, WithoutRows
    <3>4. \A f \in DOMAIN files' : f \in DOMAIN files /\ files'[f] = files[f]
      BY <2>2 DEF WithoutRows
    <3> QED BY <2>2, <3>2, <3>3, <3>4 DEF TypeOK, DeletesTrue, Deleting, Request
  <2> QED BY <2>1, <2>2
<1>8. SavedIsWhole'
  BY Rows DEF TypeOK, SavedIsWhole, UploadsTrue, Uploading, DeletesTrue, Deleting, WithoutRows
<1>9. OrphansAreExcused'
  BY Rows DEF TypeOK, OrphansAreExcused, UploadsTrue, Uploading, DeletesTrue, Deleting,
     IdsKnown, WithoutRows
<1> QED BY <1>1, <1>2, <1>3, <1>4, <1>5, <1>6, <1>7, <1>8, <1>9

LEMMA FailInv ==
  ASSUME Inv, NEW r \in Req, Fail(r)
  PROVE  Inv'
<1> USE StorageConstants DEF Inv, Fail, Arrive, Go, Answer, Idle
<1>1. TypeOK'
  BY Rows, WithoutRowsType, WithRowType DEF TypeOK, Request, Step, Parent, FolderRow, FileRow,
     UploadsTrue, Uploading, IdsKnown, DeletesTrue
<1>2. IdsKnown'
  BY DEF TypeOK, IdsKnown, Request, Step, Parent, FileRow
<1>3. OwnTrees'
  BY Same DEF OwnTrees
<1>4. ParentsOwn'
  BY DEF TypeOK, ParentsOwn, IdsKnown, OwnsFolder
<1>5. UploadsTrue'
  BY DEF TypeOK, UploadsTrue, Uploading, IdsKnown, DeletesTrue, Deleting, StoredIsSaved
<1>6. StoredIsSaved'
  BY DEF TypeOK, StoredIsSaved, UploadsTrue, Uploading, IdsKnown
<1>7. DeletesTrue'
  BY Same DEF TypeOK, DeletesTrue, Deleting, IdsKnown, UploadsTrue, Uploading, StoredIsSaved
<1>8. SavedIsWhole'
  BY DEF TypeOK, SavedIsWhole, UploadsTrue, Uploading, DeletesTrue, Deleting
<1>9. OrphansAreExcused'
  BY DEF TypeOK, OrphansAreExcused, UploadsTrue, Uploading, DeletesTrue, Deleting, IdsKnown
<1> QED BY <1>1, <1>2, <1>3, <1>4, <1>5, <1>6, <1>7, <1>8, <1>9

-----------------------------------------------------------------------------
LEMMA InitInv == Init => Inv
<1> SUFFICES ASSUME Init PROVE Inv
  OBVIOUS
<1>1. folders \in TablesOf(Folder, FolderRow) /\ files \in TablesOf(File, FileRow)
  <2>1. {} \in SUBSET Folder /\ {} \in SUBSET File
    OBVIOUS
  <2>2. folders \in [{} -> FolderRow] /\ files \in [{} -> FileRow]
    BY DEF Init
  <2> QED BY <2>1, <2>2 DEF TablesOf
<1>2. TypeOK
  BY <1>1 DEF Init, TypeOK, Request, Step, Idle, Parent
<1>3. DOMAIN folders = {} /\ DOMAIN files = {} /\ \A r \in Req : req[r] = Idle
  BY DEF Init
<1> QED BY <1>2, <1>3 DEF Init, Inv, IdsKnown, OwnTrees, ParentsOwn, UploadsTrue, Uploading,
      StoredIsSaved, DeletesTrue, Deleting, SavedIsWhole, OrphansAreExcused, Idle

LEMMA StutterInv == Inv /\ UNCHANGED vars => Inv'
<1> SUFFICES ASSUME Inv, UNCHANGED vars PROVE Inv'
  OBVIOUS
<1> USE DEF vars
<1>2. TypeOK' /\ IdsKnown' /\ OwnTrees' /\ ParentsOwn'
  BY DEF Inv, TypeOK, IdsKnown, OwnTrees, OwnsFolder, ParentsOwn
<1>3. UploadsTrue' /\ StoredIsSaved' /\ SavedIsWhole' /\ OrphansAreExcused'
  BY DEF Inv, UploadsTrue, Uploading, StoredIsSaved, SavedIsWhole, OrphansAreExcused
<1>4. DeletesTrue'
  BY Same DEF Inv, DeletesTrue, Deleting
<1> QED BY <1>2, <1>3, <1>4 DEF Inv

LEMMA NextInv == Inv /\ [Next]_vars => Inv'
<1> SUFFICES ASSUME Inv, Next PROVE Inv'
  BY StutterInv
<1> PICK r \in Req :
      \/ CreateFolder(r) \/ UploadFile(r) \/ CheckParent(r)
      \/ DeleteFile(r) \/ DeleteFolder(r)
      \/ \E f \in File : RemoveBlob(r, f) \/ RemoveFails(r, f)
      \/ Fail(r)
  BY DEF Next
<1>1. CASE CreateFolder(r)
  BY <1>1, StartCreateFolderInv, InsertFolderInv DEF CreateFolder
<1>2. CASE UploadFile(r)
  BY <1>2, StartUploadInv, InsertFileInv, CreateBlobInv, CopyBlobInv, SaveFailsInv,
     CleanupInv, RecordPathInv DEF UploadFile
<1>3. CASE CheckParent(r)
  BY <1>3, CheckParentInv
<1>4. CASE DeleteFile(r)
  BY <1>4, StartDeleteFileInv, ReadFileInv, DeleteFileRowInv, FinishDeleteFileInv DEF DeleteFile
<1>5. CASE DeleteFolder(r)
  BY <1>5, StartDeleteFolderInv, ListFilesUnderInv, DeleteFolderRowInv DEF DeleteFolder
<1>6. CASE \E f \in File : RemoveBlob(r, f) \/ RemoveFails(r, f)
  BY <1>6, RemoveBlobInv, RemoveFailsInv
<1>7. CASE Fail(r)
  BY <1>7, FailInv
<1> QED BY <1>1, <1>2, <1>3, <1>4, <1>5, <1>6, <1>7

\* A request that makes a file's row or bytes disappear is its owner's.
LEMMA ErasedByOwner ==
  Inv /\ [Next]_vars =>
    \A f \in DOMAIN files :
      f \notin DOMAIN files' \/ (disk[f] # "none" /\ disk'[f] = "none") =>
        \E r \in Req : req[r].user = files[f].owner /\ req'[r] # req[r]
<1> SUFFICES ASSUME Inv, [Next]_vars, NEW f \in DOMAIN files,
                    f \notin DOMAIN files' \/ (disk[f] # "none" /\ disk'[f] = "none")
             PROVE  \E r \in Req : req[r].user = files[f].owner /\ req'[r] # req[r]
  OBVIOUS
<1>1. PICK r \in Req : Cleanup(r) \/ DeleteFileRow(r) \/ DeleteFolderRow(r)
                        \/ \E g \in File : RemoveBlob(r, g)
  <2>1. f \in File /\ disk \in [File -> {"none", "partial", "whole"}]
    BY Rows DEF Inv, TypeOK
  <2>2. ~UNCHANGED vars
    BY <2>1 DEF vars
  <2>3. PICK r \in Req :
          \/ CreateFolder(r) \/ UploadFile(r) \/ CheckParent(r)
          \/ DeleteFile(r) \/ DeleteFolder(r)
          \/ \E g \in File : RemoveBlob(r, g) \/ RemoveFails(r, g)
          \/ Fail(r)
    BY <2>2 DEF Next
  <2>4. \A g \in File : ~InsertFile(r, g)
    BY <2>1 DEF InsertFile, WithRow, Answer
  <2>5. ~CreateBlob(r) /\ ~CopyBlob(r) /\ ~RecordPath(r)
    BY <2>1, Rows DEF Inv, CreateBlob, CopyBlob, RecordPath, Go, Answer
  <2>6. /\ \A u, p : ~StartCreateFolder(r, u, p) /\ ~StartUpload(r, u, p)
        /\ \A u, g : ~StartDeleteFile(r, u, g) /\ ~StartDeleteFolder(r, u, g)
        /\ \A g : ~InsertFolder(r, g) /\ ~RemoveFails(r, g)
        /\ ~CheckParent(r) /\ ~SaveFails(r) /\ ~ReadFile(r) /\ ~FinishDeleteFile(r)
        /\ ~ListFilesUnder(r) /\ ~Fail(r)
    BY <2>1 DEF StartCreateFolder, StartUpload, CheckParent, InsertFolder, SaveFails,
       StartDeleteFile, ReadFile, FinishDeleteFile, StartDeleteFolder, ListFilesUnder,
       RemoveFails, Fail
  <2>7. ~CreateFolder(r) /\ (UploadFile(r) => Cleanup(r)) /\ (DeleteFile(r) => DeleteFileRow(r))
    BY <2>4, <2>5, <2>6 DEF CreateFolder, UploadFile, DeleteFile
  <2>8. DeleteFolder(r) => DeleteFolderRow(r)
    BY <2>6 DEF DeleteFolder
  <2> QED BY <2>3, <2>6, <2>7, <2>8
<1>2. req[r] \in Request /\ req \in [Req -> Request] /\ f \in File
  BY Rows DEF Inv, TypeOK
<1>3. CASE Cleanup(r)
  BY <1>1, <1>2, <1>3 DEF Cleanup, WithoutRows, Answer, Idle, Inv, UploadsTrue, Uploading
<1>4. CASE DeleteFileRow(r)
  BY <1>1, <1>2, <1>4 DEF DeleteFileRow, WithoutRows, Go, Request, Inv, DeletesTrue
<1>5. CASE DeleteFolderRow(r)
  <2>1. OwnsFolder(req[r].user, req[r].folder) /\ f \in FilesUnder(req[r].folder)
    BY <1>5 DEF DeleteFolderRow, WithoutRows
  <2>2. files[f].owner = req[r].user
    BY <2>1, TreeOwned DEF Inv
  <2>3. req'[r] # req[r]
    BY <1>2, <1>5 DEF DeleteFolderRow, Answer, Idle
  <2> QED BY <2>2, <2>3
<1>6. CASE \E g \in File : RemoveBlob(r, g)
  BY <1>1, <1>2, <1>6 DEF RemoveBlob, Request, Inv, TypeOK, DeletesTrue, Deleting
<1> QED BY <1>1, <1>3, <1>4, <1>5, <1>6

-----------------------------------------------------------------------------
LEMMA AlwaysInv == Spec => []Inv
BY InitInv, NextInv, PTL DEF Spec

\* Type correctness: tables, disk and requests stay well-formed in every step.
THEOREM TypeCorrect == Spec => []TypeOK
<1>1. Inv => TypeOK
  BY DEF Inv
<1> QED BY <1>1, AlwaysInv, PTL

\* A folder's contents are its owner's, although CreateFolder and CreateFile
\* check the parent in a statement of its own.
THEOREM TreesAreOwn == Spec => []OwnTrees
<1>1. Inv => OwnTrees
  BY DEF Inv
<1> QED BY <1>1, AlwaysInv, PTL

\* A recorded path leads to the whole file until its deletion has begun.
THEOREM SavedFilesWhole == Spec => []SavedIsWhole
<1>1. Inv => SavedIsWhole
  BY DEF Inv
<1> QED BY <1>1, AlwaysInv, PTL

\* Deletions of what was uploaded before them leave no bytes behind.
THEOREM NothingLeftBehind == Spec => []OrphansAreExcused
<1>1. Inv => OrphansAreExcused
  BY DEF Inv
<1> QED BY <1>1, AlwaysInv, PTL

\* Only the owner's own requests take a file away, cascades included.
THEOREM OwnersErase == Spec => OnlyOwnerErases
<1>1. Inv /\ [Next]_vars =>
        [\A f \in DOMAIN files :
           f \notin DOMAIN files' \/ (disk[f] # "none" /\ disk'[f] = "none") =>
             \E r \in Req : req[r].user = files[f].owner /\ req'[r] # req[r]]_vars
  BY ErasedByOwner
<1> QED BY <1>1, AlwaysInv, PTL DEF Spec, OnlyOwnerErases
=============================================================================
