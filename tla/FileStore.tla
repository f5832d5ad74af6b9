------------------------------ MODULE FileStore ------------------------------
(***************************************************************************)
(* What the FAT32 driver promises its callers (the interface of            *)
(* lib-header/fat32.h, as filesystem/fat32.c keeps it): folders with       *)
(* places for subfolders and files, calls and their codes, and nothing     *)
(* lost when the machine is switched off.  There are no clusters, no       *)
(* chains, no FAT and no disk here; Fat32Store shows that the driver       *)
(* implements it.                                                          *)
(*                                                                         *)
(* The promise is kept as long as the callers keep theirs: intact becomes  *)
(* FALSE with the first call that the driver is not made for, and nothing  *)
(* is promised from then on.                                               *)
(***************************************************************************)
EXTENDS Integers

CONSTANTS
    Handles,   \* what callers name a folder by
    Root,      \* the root folder's handle
    Places,    \* where a folder keeps its entries
    Names, NoName, RootName, RootLike, Exts, NoExt,
    Payloads, Size,
    Buffers    \* the sizes of the buffers callers read into

VARIABLES
    folders,  \* the folders there are, each with its name and its entries
    on,       \* the machine runs
    request,  \* the last call
    ret,      \* its code
    intact    \* the callers have kept to the rules

storeVars == <<folders, on, request, ret, intact>>

Nothing            == [kind |-> "nothing"]
Folder(name, h)    == [kind |-> "folder", name |-> name, handle |-> h]
File(name, ext, p) == [kind |-> "file", name |-> name, ext |-> ext, contents |-> p]

NewFolder(name) == [name |-> name, entries |-> [x \in Places |-> Nothing]]

Requests ==
    [call : {"read"}, folder : Handles, name : Names, ext : Exts, buffer : Buffers]
    \cup [call : {"readDirectory", "deleteFile"}, folder : Handles, name : Names, ext : Exts]
    \cup [call : {"makeFolder", "deleteFolder"}, folder : Handles, name : Names]
    \cup [call : {"storeFile"}, folder : Handles, name : Names, ext : Exts, data : Payloads]

NoRequest == [call |-> "none"]

Init ==
    /\ folders = [h \in {Root} |-> NewFolder(RootName)]
    /\ on = FALSE
    /\ request = NoRequest
    /\ ret = 0
    /\ intact = TRUE

-----------------------------------------------------------------------------
IsFolder(h)   == h \in DOMAIN folders
Entries(h, x) == folders[h].entries[x]
IsEmpty(h)    == \A x \in Places : Entries(h, x) = Nothing

Put(h, x, entry) == [folders EXCEPT ![h].entries[x] = entry]

(* The places of folder h with a subfolder or a file of that name.         *)
FoldersNamed(h, name) ==
    {x \in Places : IsFolder(h) /\ Entries(h, x).kind = "folder" /\ Entries(h, x).name = name}
FilesNamed(h, name, ext) ==
    {x \in Places : /\ IsFolder(h) /\ Entries(h, x).kind = "file"
                    /\ Entries(h, x).name = name /\ Entries(h, x).ext = ext}
SomeFile(h, name) == \E ext \in Exts : FilesNamed(h, name, ext) # {}

(* A folder answers to its own name too.                                   *)
IsOwnName(h, name) == IsFolder(h) /\ folders[h].name = name

Answers(code) == ret' = code /\ UNCHANGED folders

(* Of two files of one name either may be the one that is found, and a     *)
(* file that is named like its folder is not found.                        *)
Read(h, name, ext, buffer) ==
    \/ \E x \in FilesNamed(h, name, ext) :
          Answers(IF buffer < Size[Entries(h, x).contents] THEN 2 ELSE 0)
    \/ ext = NoExt /\ FoldersNamed(h, name) # {} /\ Answers(1)
    \/ FilesNamed(h, name, ext) = {} /\ (ext # NoExt \/ FoldersNamed(h, name) = {}) /\ Answers(3)
    \/ ext = NoExt /\ IsOwnName(h, name) /\ Answers(3)

(* Asked for another extension, or without a name, read_directory says     *)
(* that what it found is not a folder.                                     *)
ReadDirectory(h, name, ext) ==
    \/ ext = NoExt /\ FoldersNamed(h, name) # {} /\ Answers(0)
    \/ (name = NoName \/ SomeFile(h, name)) /\ Answers(1)
    \/ ext # NoExt /\ FoldersNamed(h, name) # {} /\ Answers(1)
    \/ FoldersNamed(h, name) = {} /\ ~SomeFile(h, name) /\ Answers(2)

(* Names of subfolders are different from one another's and the folder's.  *)
MakeFolder(h, name) ==
    \/ ~IsFolder(h) /\ Answers(2)
    \/ (IsOwnName(h, name) \/ FoldersNamed(h, name) # {}) /\ Answers(1)
    \/ /\ IsFolder(h) /\ ~IsOwnName(h, name) /\ FoldersNamed(h, name) = {}
       /\ ret' = 0
       /\ \E x \in Places, new \in Handles \ DOMAIN folders :
             /\ Entries(h, x) = Nothing
             /\ folders' = [f \in DOMAIN folders \cup {new} |->
                               IF f = new THEN NewFolder(name)
                               ELSE Put(h, x, Folder(name, new))[f]]

StoreFile(h, name, ext, p) ==
    \/ ~IsFolder(h) /\ Answers(2)
    \/ /\ IsFolder(h)
       /\ ret' = 0
       /\ \E x \in Places : Entries(h, x) = Nothing /\ folders' = Put(h, x, File(name, ext, p))

DeleteFile(h, name, ext) ==
    \/ /\ ret' = 0
       /\ \E x \in FilesNamed(h, name, ext) : folders' = Put(h, x, Nothing)
    \/ FilesNamed(h, name, ext) = {} /\ Answers(1)
    \/ ext = NoExt /\ IsOwnName(h, name) /\ Answers(1)

(* A folder that lists something stays; a file found in its place, or what *)
(* has no name, is taken for one that does.                                *)
DeleteFolder(h, name) ==
    \/ \E x \in FoldersNamed(h, name) :
          LET gone == Entries(h, x).handle
          IN  /\ name \notin RootLike
              /\ \/ ~IsEmpty(gone) /\ Answers(2)
                 \/ /\ IsEmpty(gone) /\ ret' = 0
                    /\ folders' = [f \in DOMAIN folders \ {gone} |-> Put(h, x, Nothing)[f]]
    \/ name \notin RootLike /\ (SomeFile(h, name) \/ name = NoName) /\ Answers(2)
    \/ name \in RootLike /\ (SomeFile(h, name) \/ FoldersNamed(h, name) # {}) /\ Answers(-1)
    \/ FoldersNamed(h, name) = {} /\ Answers(1)

Performs(r) ==
    \/ r.call = "read"          /\ Read(r.folder, r.name, r.ext, r.buffer)
    \/ r.call = "readDirectory" /\ ReadDirectory(r.folder, r.name, r.ext)
    \/ r.call = "makeFolder"    /\ MakeFolder(r.folder, r.name)
    \/ r.call = "storeFile"     /\ StoreFile(r.folder, r.name, r.ext, r.data)
    \/ r.call = "deleteFile"    /\ DeleteFile(r.folder, r.name, r.ext)
    \/ r.call = "deleteFolder"  /\ DeleteFolder(r.folder, r.name)

Call == on /\ on' /\ \E r \in Requests : request' = r /\ Performs(r)

(* Switching the machine off and on loses nothing.                         *)
SwitchOn  == ~on /\ on' /\ UNCHANGED <<folders, request, ret>>
SwitchOff == on /\ ~on' /\ Answers(0) /\ request' = NoRequest

Next == ~intact' \/ (intact /\ intact' /\ (Call \/ SwitchOn \/ SwitchOff))

Spec == Init /\ [][Next]_storeVars

=============================================================================
