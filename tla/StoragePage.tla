---------------------------- MODULE StoragePage -----------------------------
(***************************************************************************)
(* modules/my-storage/frontend/src/components/FileList.jsx: one folder is  *)
(* listed at a time, and files are uploaded into it.  rows is this user's  *)
(* tree: folders, each with its parent, and files, each with its folder;   *)
(* Home is the folder without id.  A deleted folder or file is None and    *)
(* its id is not used again.  (What the backend does to the disk is in     *)
(* module FileStorage.)                                                    *)
(***************************************************************************)
EXTENDS Calls

CONSTANTS Folder, File, Home

Place == Folder \cup {Home}

Listing == [folder : Place, trail : SUBSET Folder, folders : SUBSET Folder, files : SUBSET File]

State == [folderId : Place, data : Listing \cup {None}, uploading : BOOLEAN,
          showNewFolder : BOOLEAN]

Request(c) ==
  \/ IsCall(c, "load", Place, Listing)
  \/ IsCall(c, "upload", [folder : Place, left : 0 .. 1], {Done})
  \/ IsCall(c, "create", [parent : Place], {Done})
  \/ IsCall(c, "removeFolder", [folder : Folder, shown : Place], {Done})
  \/ IsCall(c, "removeFile", [file : File, shown : Place], {Done})

There(d) == d = Home \/ (d \in DOMAIN rows.folders /\ rows.folders[d] # None)
\* The folders in every set that holds d and, with a folder, its subfolders.
Below(d) ==
  { g \in DOMAIN rows.folders :
      \A S \in SUBSET DOMAIN rows.folders :
        d \in S /\ (\A h \in DOMAIN rows.folders : rows.folders[h] \in S => h \in S)
          => g \in S }

Within(d) == [folder  |-> d,
              trail   |-> { g \in DOMAIN rows.folders : d \in Below(g) },
              folders |-> { g \in DOMAIN rows.folders : rows.folders[g] = d },
              files   |-> { f \in DOMAIN rows.files : rows.files[f] = d }]

Init ==
  /\ rows = [folders |-> <<>>, files |-> <<>>]
  /\ page = [folderId |-> Home, data |-> None, uploading |-> FALSE, showNewFolder |-> FALSE]
  /\ net = <<Call("load", Home)>>
  /\ lag = FALSE

\* The listing that arrives is shown, whichever folder is open by then.
Load(i) ==
  /\ Answered(i, "load")
  /\ page' = IF net[i].ans = Failed THEN page ELSE [page EXCEPT !.data = net[i].ans]
  /\ lag' = IF net[i].ans = Within(page.folderId)
              THEN lag /\ \E j \in DOMAIN net : net[j].op = "load" /\ net[j].ans # net[i].ans
              ELSE lag \/ net[i].ans = Failed \/ net[i].late \/ net[i].arg # page.folderId
  /\ Take(i)
  /\ UNCHANGED rows

-----------------------------------------------------------------------------
(* Walking.  The effect over folderId loads the folder it is set to.       *)

Go(d) ==
  /\ d # page.folderId
  /\ page' = [page EXCEPT !.folderId = d]
  /\ Send("load", d)
  /\ UNCHANGED <<rows, lag>>

\* The rows of the listing, with the button that deletes one.
OpenFolder == page.data # None /\ \E d \in page.data.folders : Go(d)

\* Home, or a folder on the way to the listed one.
Breadcrumb ==
  \/ Go(Home)
  \/ page.data # None /\ \E d \in page.data.trail : Go(d)

-----------------------------------------------------------------------------
(* Uploading.  The button is disabled during a batch; dropping is not.     *)

DoUpload ==
  /\ \E left \in 0 .. 1 :
       Send("upload", [folder |-> page.folderId, left |-> left])
  /\ page' = [page EXCEPT !.uploading = TRUE]
  /\ UNCHANGED <<rows, lag>>

\* The folder is the one of the rendering in which the batch began, and it is
\* also the one that load() fetches at the end.  An error ends the batch, and
\* what was uploaded of it is not shown.
Uploaded(i) ==
  /\ Answered(i, "upload")
  /\ LET in == net[i].arg
     IN  IF net[i].ans # Failed /\ in.left > 0
           THEN TakeAndSend(i, "upload", [in EXCEPT !.left = 0]) /\ UNCHANGED <<page, lag>>
           ELSE /\ page' = [page EXCEPT !.uploading = FALSE]
                /\ IF net[i].ans = Failed
                     THEN Take(i) /\ lag' = TRUE
                     ELSE TakeAndSend(i, "load", in.folder) /\ UNCHANGED lag
  /\ UNCHANGED rows

-----------------------------------------------------------------------------
(* Folders are made, folders and files deleted.  Each write is followed by *)
(* a load of the folder that was open when the handler began.              *)

ToggleNewFolder ==
  /\ page' = [page EXCEPT !.showNewFolder = ~@]
  /\ UNCHANGED <<rows, net, lag>>

CreateFolder ==
  /\ page.showNewFolder
  /\ Send("create", [parent |-> page.folderId])
  /\ UNCHANGED <<rows, page, lag>>

FolderCreated(i) ==
  /\ Answered(i, "create")
  /\ IF net[i].ans = Failed
       THEN Take(i) /\ UNCHANGED page
       ELSE /\ page' = [page EXCEPT !.showNewFolder = FALSE]
            /\ TakeAndSend(i, "load", net[i].arg.parent)
  /\ UNCHANGED <<rows, lag>>

RemoveFolder ==
  /\ page.data # None
  /\ \E d \in page.data.folders :
       Send("removeFolder", [folder |-> d, shown |-> page.folderId])
  /\ UNCHANGED <<rows, page, lag>>

RemoveFile ==
  /\ page.data # None
  /\ \E f \in page.data.files : Send("removeFile", [file |-> f, shown |-> page.folderId])
  /\ UNCHANGED <<rows, page, lag>>

Removed(i) ==
  /\ Answered(i, "removeFolder") \/ Answered(i, "removeFile")
  /\ IF net[i].ans = Failed THEN Take(i) ELSE TakeAndSend(i, "load", net[i].arg.shown)
  /\ UNCHANGED <<rows, page, lag>>

-----------------------------------------------------------------------------
(* The backend.                                                            *)

With(f, x, y) == [z \in DOMAIN f \cup {x} |-> IF z = x THEN y ELSE f[z]]

ServeBrowse(i) ==
  /\ Sent(i, "load")
  /\ IF There(net[i].arg) THEN ServeRead(i, "load", Within(net[i].arg))
                          ELSE ServeRefusal(i, "load")

\* A folder that is not there fails the foreign key.
ServeUpload(i) ==
  /\ Sent(i, "upload")
  /\ IF There(net[i].arg.folder)
       THEN \E f \in File \ DOMAIN rows.files :
              ServeWrite(i, "upload",
                         [rows EXCEPT !.files = With(@, f, net[i].arg.folder)], Done)
       ELSE ServeRefusal(i, "upload")

ServeCreate(i) ==
  /\ Sent(i, "create")
  /\ IF There(net[i].arg.parent)
       THEN \E d \in Folder \ DOMAIN rows.folders :
              ServeWrite(i, "create",
                         [rows EXCEPT !.folders = With(@, d, net[i].arg.parent)], Done)
       ELSE ServeRefusal(i, "create")

WithoutFolder(d) ==
  [folders |-> [g \in DOMAIN rows.folders |-> IF g \in Below(d) THEN None ELSE rows.folders[g]],
   files   |-> [f \in DOMAIN rows.files |->
                  IF rows.files[f] \in Below(d) THEN None ELSE rows.files[f]]]

ServeRemoveFolder(i) ==
  /\ Sent(i, "removeFolder")
  /\ LET d == net[i].arg.folder
     IN  IF There(d) THEN ServeWrite(i, "removeFolder", WithoutFolder(d), Done)
                     ELSE ServeRefusal(i, "removeFolder")

ServeRemoveFile(i) ==
  /\ Sent(i, "removeFile")
  /\ LET f == net[i].arg.file
     IN  IF rows.files[f] # None
           THEN ServeWrite(i, "removeFile", [rows EXCEPT !.files[f] = None], Done)
           ELSE ServeRefusal(i, "removeFile")

\* The same user deletes a folder in another tab.
Elsewhere == \E d \in DOMAIN rows.folders : There(d) /\ Foreign(WithoutFolder(d))

Next ==
  \/ OpenFolder \/ Breadcrumb \/ DoUpload
  \/ ToggleNewFolder \/ CreateFolder \/ RemoveFolder \/ RemoveFile
  \/ \E i \in DOMAIN net :
       \/ Load(i) \/ Uploaded(i) \/ FolderCreated(i) \/ Removed(i)
       \/ ServeBrowse(i) \/ ServeUpload(i) \/ ServeCreate(i)
       \/ ServeRemoveFolder(i) \/ ServeRemoveFile(i)
  \/ Elsewhere

-----------------------------------------------------------------------------
TypeOK ==
  /\ page \in State
  /\ \A d \in DOMAIN rows.folders : rows.folders[d] \in Place \cup {None}
  /\ \A f \in DOMAIN rows.files : rows.files[f] \in Place \cup {None}
  /\ Len(net) <= MaxCalls /\ \A i \in DOMAIN net : Request(net[i])
  /\ lag \in BOOLEAN

\* When nothing is under way the page lists the open folder as it is, unless
\* the tree was changed elsewhere, an answer was lost, a batch failed, the user
\* left a folder while a write to it was under way, or a listing came after a
\* later one: it stays, also when it is of the folder before the open one.
ListIsOfTheFolder == Quiet /\ ~lag => page.data = Within(page.folderId)
=============================================================================
