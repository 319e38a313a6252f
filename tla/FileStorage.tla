---------------------------- MODULE FileStorage ----------------------------
(***************************************************************************)
(* modules/my-storage/backend: folders and files of the users, a row each, *)
(* and the bytes of a file on disk.  Row and bytes change in separate      *)
(* steps: an upload inserts a row, writes the blob, then records its path; *)
(* deleting a file removes the row, then the blob; deleting a folder       *)
(* removes the blobs it listed, then the rows.  A blob lives under         *)
(* <owner>/<file id> (blobStore.path), so it is named by the file id here. *)
(***************************************************************************)
EXTENDS Tables, TLC

CONSTANTS
  User,    \* the X-User-Id of requests
  Folder,  \* folder ids, never reused
  File,    \* file ids, never reused
  Req,     \* requests in flight
  None     \* NULL: no parent, no folder, no file

ASSUME StorageConstants ==
  /\ None \notin Folder
  /\ None \notin File
  /\ None \notin User

VARIABLES
  folders,    \* table: id -> owner, parent
  files,      \* table: id -> owner, folder, storage_path
  disk,       \* what is under the path of each file id
  everFolder, \* ids handed out
  everFile,
  req,        \* the requests
  stored,     \* history: files whose upload was answered 201
  condemned,  \* history: files whose saved blob a deletion has read about
  excused     \* history: files an error hit, or whose row was deleted by a
              \* request that began before their upload was answered

tables == <<folders, everFolder>>
vars == <<folders, files, disk, everFolder, everFile, req, stored, condemned, excused>>

Parent == Folder \cup {None}

FolderRow == [owner : User, parent : Parent]
FileRow == [owner : User, folder : Parent, path : {"pending", "saved"}]

\* The step a request is about to take.
Step == {"idle", "checkParent", "insertFolder", "insertFile", "create", "copy",
         "record", "cleanup", "readFile", "deleteRow", "removeBlob",
         "list", "removeBlobs"}

\* op is "folder" (createFolder), "upload", "deleteFile" or "deleteFolder".
Request == [op : {"none", "folder", "upload", "deleteFile", "deleteFolder"},
            at : Step, user : User \cup {None}, folder : Parent,
            file : File \cup {None}, left : SUBSET File, settled : SUBSET File]

Idle == [op |-> "none", at |-> "idle", user |-> None, folder |-> None,
         file |-> None, left |-> {}, settled |-> {}]

-----------------------------------------------------------------------------
Init ==
  /\ folders = [d \in {} |-> {}]
  /\ files = [f \in {} |-> {}]
  /\ disk = [f \in File |-> "none"]
  /\ everFolder = {}
  /\ everFile = {}
  /\ req = [r \in Req |-> Idle]
  /\ stored = {}
  /\ condemned = {}
  /\ excused = {}

\* A request arrives, goes to its next step, ends.
Arrive(r, request) == req[r].at = "idle" /\ req' = [req EXCEPT ![r] = request]
Go(r, step) == req' = [req EXCEPT ![r].at = step]
Answer(r) == req' = [req EXCEPT ![r] = Idle]

OwnsFolder(u, d) == d \in DOMAIN folders /\ folders[d].owner = u
OwnsFile(u, f) == f \in DOMAIN files /\ files[f].owner = u

\* The folder and all folders below it: what is in every set that has d and,
\* with a folder, its children (WITH RECURSIVE; what ON DELETE CASCADE reaches).
Descendants(d) ==
  { e \in DOMAIN folders :
      \A S \in SUBSET Folder :
        (/\ d \in S
         /\ \A g \in DOMAIN folders : folders[g].parent \in S => g \in S) => e \in S }

FilesUnder(d) == { f \in DOMAIN files : files[f].folder \in Descendants(d) }

-----------------------------------------------------------------------------
(* createFolder and the first half of uploadFile                           *)

StartCreateFolder(r, u, p) ==
  /\ Arrive(r, [Idle EXCEPT !.op = "folder", !.user = u, !.folder = p,
                            !.at = IF p = None THEN "insertFolder" ELSE "checkParent"])
  /\ UNCHANGED <<folders, files, disk, everFolder, everFile, stored, condemned, excused>>

StartUpload(r, u, p) ==
  /\ Arrive(r, [Idle EXCEPT !.op = "upload", !.user = u, !.folder = p,
                            !.at = IF p = None THEN "insertFile" ELSE "checkParent"])
  /\ UNCHANGED <<folders, files, disk, everFolder, everFile, stored, condemned, excused>>

\* Faulty: the parent only has to exist.
CheckParent_Any(r) ==
  /\ req[r].at = "checkParent"
  /\ IF req[r].folder \in DOMAIN folders
     THEN Go(r, IF req[r].op = "folder" THEN "insertFolder" ELSE "insertFile")
     ELSE Answer(r)
  /\ UNCHANGED <<folders, files, disk, everFolder, everFile, stored, condemned, excused>>

\* GetFolder: the parent must be the user's own, else 404.
CheckParent(r) ==
  /\ req[r].at = "checkParent"
  /\ IF OwnsFolder(req[r].user, req[r].folder)
     THEN Go(r, IF req[r].op = "folder" THEN "insertFolder" ELSE "insertFile")
     ELSE Answer(r)
  /\ UNCHANGED <<folders, files, disk, everFolder, everFile, stored, condemned, excused>>

\* The INSERT meets the foreign key: a parent deleted meanwhile is a 500.
ParentThere(r) == req[r].folder = None \/ req[r].folder \in DOMAIN folders

InsertFolder(r, d) ==
  /\ req[r].at = "insertFolder"
  /\ d \notin everFolder
  /\ IF ParentThere(r)
     THEN /\ folders' = WithRow(folders, d, [owner |-> req[r].user, parent |-> req[r].folder])
          /\ everFolder' = everFolder \cup {d}
     ELSE UNCHANGED tables
  /\ Answer(r)
  /\ UNCHANGED <<files, disk, everFile, stored, condemned, excused>>

\* Faulty: the row has its final path before the blob is there.
InsertFile_Path(r, f) ==
  /\ req[r].at = "insertFile"
  /\ f \notin everFile
  /\ IF ParentThere(r)
     THEN /\ files' = WithRow(files, f, [owner |-> req[r].user, folder |-> req[r].folder,
                                         path |-> "saved"])
          /\ everFile' = everFile \cup {f}
          /\ req' = [req EXCEPT ![r].at = "create", ![r].file = f]
     ELSE UNCHANGED <<files, everFile>> /\ Answer(r)
  /\ UNCHANGED <<folders, disk, everFolder, stored, condemned, excused>>

\* "Reserve the row first to get an id": the row is there, its blob is not.
InsertFile(r, f) ==
  /\ req[r].at = "insertFile"
  /\ f \notin everFile
  /\ IF ParentThere(r)
     THEN /\ files' = WithRow(files, f, [owner |-> req[r].user, folder |-> req[r].folder,
                                         path |-> "pending"])
          /\ everFile' = everFile \cup {f}
          /\ req' = [req EXCEPT ![r].at = "create", ![r].file = f]
     ELSE UNCHANGED <<files, everFile>> /\ Answer(r)
  /\ UNCHANGED <<folders, disk, everFolder, stored, condemned, excused>>

-----------------------------------------------------------------------------
(* uploadFile: the blob, and then its path                                 *)

\* os.Create, then io.Copy: until it is done the blob is not whole.
CreateBlob(r) ==
  /\ req[r].at = "create"
  /\ disk' = [disk EXCEPT ![req[r].file] = "partial"]
  /\ Go(r, "copy")
  /\ UNCHANGED <<folders, files, everFolder, everFile, stored, condemned, excused>>

CopyBlob(r) ==
  /\ req[r].at = "copy"
  /\ disk' = [disk EXCEPT ![req[r].file] = "whole"]
  /\ Go(r, "record")
  /\ UNCHANGED <<folders, files, everFolder, everFile, stored, condemned, excused>>

\* Save fails, in os.Create or on the way: what was written stays on disk.
SaveFails(r) ==
  /\ req[r].at \in {"create", "copy"}
  /\ Go(r, "cleanup")
  /\ excused' = excused \cup {req[r].file}
  /\ UNCHANGED <<folders, files, disk, everFolder, everFile, stored, condemned>>

\* DeleteFile of the uploader's own new row; its result is ignored.
Cleanup(r) ==
  /\ req[r].at = "cleanup"
  /\ files' = WithoutRows(files, {req[r].file})
  /\ Answer(r)
  /\ UNCHANGED <<folders, disk, everFolder, everFile, stored, condemned, excused>>

\* UpdateFileStorage, then 201: also when the row is gone (0 rows updated).
RecordPath(r) ==
  /\ req[r].at = "record"
  /\ files' = IF req[r].file \in DOMAIN files
              THEN [files EXCEPT ![req[r].file].path = "saved"] ELSE files
  /\ stored' = stored \cup {req[r].file}
  /\ Answer(r)
  /\ UNCHANGED <<folders, disk, everFolder, everFile, condemned, excused>>

-----------------------------------------------------------------------------
(* deleteFile                                                              *)

StartDeleteFile(r, u, f) ==
  /\ f \in everFile
  /\ Arrive(r, [Idle EXCEPT !.op = "deleteFile", !.at = "readFile", !.user = u,
                            !.file = f, !.settled = stored])
  /\ UNCHANGED <<folders, files, disk, everFolder, everFile, stored, condemned, excused>>

\* Faulty: GetFile without "AND owner_id = $2".
ReadFile_Any(r) ==
  /\ req[r].at = "readFile"
  /\ LET f == req[r].file
         saved == { g \in {f} \cap DOMAIN files : files[g].path = "saved" }
     IN IF f \in DOMAIN files
        THEN /\ req' = [req EXCEPT ![r].at = "deleteRow", ![r].left = saved]
             /\ condemned' = condemned \cup saved
        ELSE Answer(r) /\ UNCHANGED condemned
  /\ UNCHANGED <<folders, files, disk, everFolder, everFile, stored, excused>>

\* GetFile: the row with its storage_path, or 404.
ReadFile(r) ==
  /\ req[r].at = "readFile"
  /\ LET f == req[r].file
         saved == { g \in {f} \cap DOMAIN files : files[g].path = "saved" }
     IN IF OwnsFile(req[r].user, f)
        THEN /\ req' = [req EXCEPT ![r].at = "deleteRow", ![r].left = saved]
             /\ condemned' = condemned \cup saved
        ELSE Answer(r) /\ UNCHANGED condemned
  /\ UNCHANGED <<folders, files, disk, everFolder, everFile, stored, excused>>

\* DELETE by id; nobody looks whether there was a row.
DeleteFileRow(r) ==
  /\ req[r].at = "deleteRow"
  /\ files' = WithoutRows(files, {req[r].file})
  /\ Go(r, "removeBlob")
  /\ excused' = excused \cup ({req[r].file} \ req[r].settled)
  /\ UNCHANGED <<folders, disk, everFolder, everFile, stored, condemned>>

\* Removing "pending", or a blob that is not there, is a success.
FinishDeleteFile(r) ==
  /\ req[r].at = "removeBlob"
  /\ req[r].left = {}
  /\ Answer(r)
  /\ UNCHANGED <<folders, files, disk, everFolder, everFile, stored, condemned, excused>>

-----------------------------------------------------------------------------
(* deleteFolder                                                            *)

StartDeleteFolder(r, u, d) ==
  /\ d \in everFolder
  /\ Arrive(r, [Idle EXCEPT !.op = "deleteFolder", !.at = "list", !.user = u,
                            !.folder = d, !.settled = stored])
  /\ UNCHANGED <<folders, files, disk, everFolder, everFile, stored, condemned, excused>>

\* Faulty: the files in the folder itself (ListFiles).
ListFilesUnder_Flat(r) ==
  /\ req[r].at = "list"
  /\ LET saved == { f \in DOMAIN files : /\ files[f].folder = req[r].folder
                                         /\ files[f].owner = req[r].user
                                         /\ files[f].path = "saved" }
     IN /\ req' = [req EXCEPT ![r].at = "removeBlobs", ![r].left = saved]
        /\ condemned' = condemned \cup saved
  /\ UNCHANGED <<folders, files, disk, everFolder, everFile, stored, excused>>

\* ListFilesUnder: nothing when the folder is somebody else's or gone.
ListFilesUnder(r) ==
  /\ req[r].at = "list"
  /\ LET u == req[r].user
         saved == { f \in FilesUnder(req[r].folder) :
                      /\ OwnsFolder(u, req[r].folder)
                      /\ files[f].owner = u
                      /\ files[f].path = "saved" }
     IN /\ req' = [req EXCEPT ![r].at = "removeBlobs", ![r].left = saved]
        /\ condemned' = condemned \cup saved
  /\ UNCHANGED <<folders, files, disk, everFolder, everFile, stored, excused>>

\* One os.Remove of a path that was read; of deleteFile too.
RemoveBlob(r, f) ==
  /\ req[r].at \in {"removeBlob", "removeBlobs"}
  /\ f \in req[r].left
  /\ disk' = [disk EXCEPT ![f] = "none"]
  /\ req' = [req EXCEPT ![r].left = @ \ {f}]
  /\ UNCHANGED <<folders, files, everFolder, everFile, stored, condemned, excused>>

\* The error is logged and the request goes on.
RemoveFails(r, f) ==
  /\ req[r].at \in {"removeBlob", "removeBlobs"}
  /\ f \in req[r].left
  /\ req' = [req EXCEPT ![r].left = @ \ {f}]
  /\ excused' = excused \cup {f}
  /\ UNCHANGED <<folders, files, disk, everFolder, everFile, stored, condemned>>

\* DELETE of the owner's folder, with everything below by cascade; or 404.
DeleteFolderRow(r) ==
  /\ req[r].at = "removeBlobs"
  /\ req[r].left = {}
  /\ IF OwnsFolder(req[r].user, req[r].folder)
     THEN /\ folders' = WithoutRows(folders, Descendants(req[r].folder))
          /\ files' = WithoutRows(files, FilesUnder(req[r].folder))
          /\ excused' = excused \cup (FilesUnder(req[r].folder) \ req[r].settled)
     ELSE UNCHANGED <<folders, files, excused>>
  /\ Answer(r)
  /\ UNCHANGED <<disk, everFolder, everFile, stored, condemned>>

\* A statement fails, or the backend stops: what was done stays done.
Fail(r) ==
  /\ req[r].at # "idle"
  /\ Answer(r)
  /\ excused' = excused \cup
       IF req[r].at \in {"create", "copy", "record", "removeBlob"}
       THEN {req[r].file} ELSE {}
  /\ UNCHANGED <<folders, files, disk, everFolder, everFile, stored, condemned>>

-----------------------------------------------------------------------------
CreateFolder(r) ==
  \/ \E u \in User, p \in everFolder \cup {None} : StartCreateFolder(r, u, p)
  \/ \E d \in Folder : InsertFolder(r, d)

UploadFile(r) ==
  \/ \E u \in User, p \in everFolder \cup {None} : StartUpload(r, u, p)
  \/ \E f \in File : InsertFile(r, f)
  \/ CreateBlob(r) \/ CopyBlob(r) \/ SaveFails(r) \/ Cleanup(r) \/ RecordPath(r)

DeleteFile(r) ==
  \/ \E u \in User, f \in File : StartDeleteFile(r, u, f)
  \/ ReadFile(r) \/ DeleteFileRow(r) \/ FinishDeleteFile(r)

DeleteFolder(r) ==
  \/ \E u \in User, d \in Folder : StartDeleteFolder(r, u, d)
  \/ ListFilesUnder(r) \/ DeleteFolderRow(r)

Next == \E r \in Req :
  \/ CreateFolder(r) \/ UploadFile(r) \/ CheckParent(r)
  \/ DeleteFile(r) \/ DeleteFolder(r)
  \/ \E f \in File : RemoveBlob(r, f) \/ RemoveFails(r, f)
  \/ Fail(r)

Spec == Init /\ [][Next]_vars

-----------------------------------------------------------------------------
(* Properties                                                              *)

\* The tables, the disk and the requests are well-formed.
TypeOK ==
  /\ folders \in TablesOf(Folder, FolderRow)
  /\ files \in TablesOf(File, FileRow)
  /\ disk \in [File -> {"none", "partial", "whole"}]
  /\ everFolder \in SUBSET Folder
  /\ everFile \in SUBSET File
  /\ req \in [Req -> Request]
  /\ stored \in SUBSET File
  /\ condemned \in SUBSET File
  /\ excused \in SUBSET File

\* What is inside a folder belongs to the folder's owner, although the check
\* and the INSERT are two statements: nobody's tree reaches into another's,
\* so a cascade stays among its owner's rows.
OwnTrees ==
  /\ \A d \in DOMAIN folders : folders[d].parent # None =>
       OwnsFolder(folders[d].owner, folders[d].parent)
  /\ \A f \in DOMAIN files : files[f].folder # None =>
       OwnsFolder(files[f].owner, files[f].folder)

\* A row that names its blob has all of it, until a deletion of that file has
\* read the row: no failed upload, other upload or other deletion harms it.
SavedIsWhole ==
  \A f \in DOMAIN files :
    files[f].path = "saved" => disk[f] = "whole" \/ f \in condemned

\* Bytes without a row are there because somebody still removes them, because
\* of an error, or because a deletion overlapped their upload; a deletion of
\* files that were uploaded before it leaves nothing, at any depth.
OrphansAreExcused ==
  \A f \in File :
    disk[f] # "none" /\ f \notin DOMAIN files =>
      \/ f \in excused
      \/ \E r \in Req : req[r].at = "removeBlob" /\ f \in req[r].left

\* A file's row or bytes go away only by a request of its owner.
OnlyOwnerErases ==
  [][\A f \in DOMAIN files :
       f \notin DOMAIN files' \/ (disk[f] # "none" /\ disk'[f] = "none") =>
         \E r \in Req : req[r].user = files[f].owner /\ req'[r] # req[r]]_vars

\* "deleteFolder removes a folder, all its descendant folders, and all files
\* anywhere under it - the on-disk blobs are removed first" (handlers.go:116).
BlobsGoFirst ==
  [][\A f \in DOMAIN files :
       f \notin DOMAIN files' /\ folders' # folders => disk[f] = "none"]_vars

-----------------------------------------------------------------------------
\* For TLC: ids, users and requests are interchangeable.
Symmetry == Permutations(User) \cup Permutations(Folder) \cup Permutations(File)
              \cup Permutations(Req)
=============================================================================
