------------------------------ MODULE Fat32Store ------------------------------
(***************************************************************************)
(* The FAT32 driver implements the file store: the folders read off the    *)
(* disk's tables, with each file's contents read off its first cluster,    *)
(* change with every call as FileStore says.                               *)
(***************************************************************************)
EXTENDS Fat32Driver

VARIABLE request  \* the call that was made last

requestVars == <<disk, fat, status, ret, mishaps, request>>

Makes(call, parent, name) ==
    request' = [call |-> call, folder |-> parent, name |-> name]
MakesWith(call, parent, name, ext) ==
    request' = [call |-> call, folder |-> parent, name |-> name, ext |-> ext]
Reads(parent, name, ext, buffer) ==
    request' = [call |-> "read", folder |-> parent, name |-> name, ext |-> ext, buffer |-> buffer]
Stores(parent, name, ext, p) ==
    request' = [call |-> "storeFile", folder |-> parent, name |-> name, ext |-> ext, data |-> p]

RequestInit == Init /\ request = [call |-> "none"]

(* The steps of Fat32Driver, each with the request it serves.              *)
FolderRequest(parent, name) ==
    \/ /\ \/ WriteInvalidParent(parent)
          \/ MakeDirectoryExists(parent, name)
          \/ MakeDirectory(parent, name)
       /\ Makes("makeFolder", parent, name)
    \/ /\ \/ DeleteNotFound(parent, name, NoExt, TRUE)
          \/ DeleteFolderRefused(parent, name)
          \/ DeleteFolder(parent, name)
       /\ Makes("deleteFolder", parent, name)

FileRequest(parent, name, ext) ==
    \/ ReadDirectory(parent, name, ext) /\ MakesWith("readDirectory", parent, name, ext)
    \/ \E buffer \in 0 .. MaxSize :
          Read(parent, name, ext, buffer) /\ Reads(parent, name, ext, buffer)
    \/ \E p \in Payloads :
          /\ WriteInvalidParent(parent) \/ StoreFile(parent, name, ext, p)
          /\ Stores(parent, name, ext, p)
    \/ /\ \/ DeleteNotFound(parent, name, ext, FALSE)
          \/ DeleteFile(parent, name, ext)
          \/ DeleteFileAstray(parent, name, ext)
       /\ MakesWith("deleteFile", parent, name, ext)

RequestNext ==
    \/ PowerOff /\ request' = [call |-> "none"]
    \/ (FormatAtBoot \/ LoadAtBoot) /\ UNCHANGED request
    \/ \E parent \in Clusters, name \in AllNames :
          \/ FolderRequest(parent, name)
          \/ \E ext \in AllExts : FileRequest(parent, name, ext)

RequestSpec == RequestInit /\ [][RequestNext]_requestVars

-----------------------------------------------------------------------------
(* The file store on the disk.                                             *)

EntryStored(d, entry) ==
    IF ~entry.used THEN [kind |-> "nothing"]
    ELSE IF entry.dir
      THEN [kind |-> "folder", name |-> entry.name, handle |-> entry.cluster]
      ELSE [kind |-> "file", name |-> entry.name, ext |-> entry.ext,
            contents |-> d[entry.cluster].payload]

(* Slot 0 of a table holds the folder's own name.                          *)
FolderStored(d, c) ==
    [name    |-> d[c].table[0].name,
     entries |-> [i \in Slots \ {0} |-> EntryStored(d, d[c].table[i])]]

(* A disk without the signature will be given a root directory.            *)
FoldersStored(d) ==
    IF d[BOOT_SECTOR] = Boot
      THEN [c \in {x \in Clusters : d[x].kind = "dir"} |-> FolderStored(d, c)]
      ELSE [c \in {ROOT_CLUSTER_NUMBER} |->
              [name |-> RootName, entries |-> [i \in Slots \ {0} |-> [kind |-> "nothing"]]]]

Store == INSTANCE FileStore WITH
    Handles <- Clusters, Root <- ROOT_CLUSTER_NUMBER, Places <- Slots \ {0},
    Names <- AllNames, Exts <- AllExts, Buffers <- 0 .. MaxSize,
    folders <- FoldersStored(disk), on <- (status = "on"), intact <- (mishaps = {})

(* Every call does to the folders on the disk, and returns, what the file  *)
(* store promises, until a caller breaks the rules.                        *)
ImplementsFileStore == Store!Spec

=============================================================================
