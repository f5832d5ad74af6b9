---------------------------- MODULE Fat32PowerCut ----------------------------
(***************************************************************************)
(* The FAT32 driver on a disk that takes its writes one cluster at a time. *)
(* A call of Fat32Driver is computed at once, and disk is what the disk is *)
(* going to hold; the clusters it writes are queued in the order of its    *)
(* write_clusters calls and reach the media one by one (write_blocks waits *)
(* for each).  The power may be cut between any two of them, and the next  *)
(* boot finds the media.                                                   *)
(***************************************************************************)
EXTENDS Fat32Driver, Sequences

CONSTANT MaxCuts  \* how many kinds of calls a power cut may interrupt

(* A cluster written twice by a call gets the same contents both times     *)
(* unless an unassigned cluster number is written, which is left out here. *)
ASSUME NoGarbageAssumption == Tolerated \cap {"noCluster", "emptySlot"} = {}

VARIABLES
    media,  \* what the platters hold
    queue,  \* the clusters still to be written by the call under way, in order
    call,   \* the kind of that call
    cut     \* the kinds of calls a power cut has interrupted (history)

cutVars == <<disk, fat, status, ret, mishaps, media, queue, call, cut>>

Calls == {"format", "makeDirectory", "storeFile", "deleteFolder", "deleteFile"}

CutTypeOK ==
    /\ TypeOK
    /\ media \in [Clusters -> Content]
    /\ queue \in Seq(Clusters)
    /\ call \in Calls
    /\ cut \subseteq Calls

CutInit ==
    /\ Init
    /\ media = disk
    /\ queue = <<>>
    /\ call = "format"
    /\ cut = {}

-----------------------------------------------------------------------------
Idle == queue = <<>>

Writes(kind, clusters) ==
    /\ queue' = clusters
    /\ call' = kind
    /\ UNCHANGED <<media, cut>>

WritesNothing == UNCHANGED <<media, queue, call, cut>>

(* create_fat32: the signature goes first.                                 *)
CutFormat ==
    /\ Idle
    /\ FormatAtBoot
    /\ Writes("format", <<BOOT_SECTOR, FAT_CLUSTER_NUMBER, ROOT_CLUSTER_NUMBER>>)

CutLoad == Idle /\ LoadAtBoot /\ WritesNothing

CutMakeDirectory(parent, name) ==
    /\ Idle
    /\ MakeDirectory(parent, name)
    /\ Writes("makeDirectory", <<First(Free(fat)), parent, FAT_CLUSTER_NUMBER>>)

CutStoreFile(parent, name, ext, p) ==
    \E list \in [1 .. Size[p] -> Clusters], m \in 0 .. Size[p] :
        /\ Idle
        /\ StoreFileIn(parent, name, ext, p, list, m)
        /\ Writes("storeFile", list \o <<parent, FAT_CLUSTER_NUMBER>>)

CutDeleteFolder(parent, name) ==
    LET c == Table(parent)[TargetSlot(Table(parent), name, NoExt, TRUE)].cluster
    IN  /\ Idle
        /\ DeleteFolder(parent, name)
        /\ Writes("deleteFolder", <<FAT_CLUSTER_NUMBER, parent, c, FAT_CLUSTER_NUMBER>>)

BugOneTooFew(map, c) == Walk(map, c, Cardinality(Chain(map, c)) - 1)

(* The clusters of a chain in the order of the walk.                       *)
WalkedClusters(map, c) == Walk(map, c, Cardinality(Chain(map, c)))

BugFatFirst(parent, c) == <<FAT_CLUSTER_NUMBER>> \o WalkedClusters(fat, c) \o <<parent>>

(* The entry goes first and the FAT last.                                  *)
DeleteFileOrder(parent, c) == <<parent>> \o WalkedClusters(fat, c) \o <<FAT_CLUSTER_NUMBER>>

CutDeleteFile(parent, name, ext) ==
    LET c == Table(parent)[TargetSlot(Table(parent), name, ext, FALSE)].cluster
    IN  /\ Idle
        /\ DeleteFile(parent, name, ext)
        /\ Writes("deleteFile", DeleteFileOrder(parent, c))

(* A file whose chain has no end: on a circle, the walk from the boot      *)
(* cluster follows the first one, and the FAT if that one ends.            *)
AstrayOrder(parent, c) ==
    <<parent>> \o WalkedClusters(fat, c)
        \o (IF Circles(fat, c) THEN WalkedClusters(AfterCircle(fat, c), BOOT_SECTOR) ELSE <<>>)
        \o (IF EraseEnds(fat, c) THEN <<FAT_CLUSTER_NUMBER>> ELSE <<>>)

CutDeleteFileAstray(parent, name, ext) ==
    LET c == Table(parent)[TargetSlot(Table(parent), name, ext, FALSE)].cluster
    IN  /\ Idle
        /\ DeleteFileAstray(parent, name, ext)
        /\ Writes("deleteFile", AstrayOrder(parent, c))

CutNoWrite(parent, name, ext) ==
    /\ Idle
    /\ \/ WriteInvalidParent(parent)
       \/ MakeDirectoryExists(parent, name)
       \/ DeleteNotFound(parent, name, ext, TRUE)
       \/ DeleteNotFound(parent, name, ext, FALSE)
       \/ DeleteFolderRefused(parent, name)
       \/ ReadDirectory(parent, name, ext)
       \/ \E buffer \in 0 .. MaxSize : Read(parent, name, ext, buffer)
    /\ WritesNothing

WriteCluster ==
    /\ ~Idle
    /\ media' = [media EXCEPT ![Head(queue)] = disk[Head(queue)]]
    /\ queue' = Tail(queue)
    /\ UNCHANGED <<vars, call, cut>>

(* The power goes, in the middle of a call or between two; memory is lost. *)
PowerCut ==
    /\ status \in {"on", "hung"}
    /\ cut' = (IF Idle THEN cut ELSE cut \cup {call})
    /\ Cardinality(cut') <= MaxCuts
    /\ disk' = media
    /\ fat' = NoMap
    /\ status' = "off"
    /\ Return(0)
    /\ queue' = <<>>
    /\ UNCHANGED <<mishaps, media, call>>

CutNext ==
    \/ CutFormat
    \/ CutLoad
    \/ \E parent \in Clusters, name \in AllNames :
          \/ CutMakeDirectory(parent, name)
          \/ CutDeleteFolder(parent, name)
          \/ \E ext \in AllExts :
                \/ CutNoWrite(parent, name, ext)
                \/ \E p \in Payloads : CutStoreFile(parent, name, ext, p)
                \/ CutDeleteFile(parent, name, ext)
                \/ CutDeleteFileAstray(parent, name, ext)
    \/ WriteCluster
    \/ PowerCut

CutSpec == CutInit /\ [][CutNext]_cutVars

-----------------------------------------------------------------------------
(* Properties.                                                             *)

MediaMap      == MapOn(media)
MediaListings == ListingsOn(media)

(* When a call is over, everything it changed is on the media.             *)
CallsAreWritten == Idle => media = disk

(* Whenever the power may fail, at most one entry, the one the call under  *)
(* way is about, is not on the media as the disk will list it, with its    *)
(* chain and its data.                                                     *)
OthersSurviveCut ==
    (cut = {} /\ mishaps = {} /\ call # "format") =>
        LET whole == {s \in Listings \cap MediaListings :
                        /\ EntryAt(s) = EntryOn(media, s)
                        /\ Chain(MediaMap, EntryAt(s).cluster) = ChainAt(s)
                        /\ Ends(MediaMap, EntryAt(s).cluster)
                        /\ EntryAt(s).dir \/ \A c \in ChainAt(s) : media[c] = disk[c]}
        IN  Cardinality((Listings \cup MediaListings) \ whole) <= 1

(* An interrupted delete of a file leaves clusters allocated to nobody,    *)
(* and nothing worse: no later sequence of calls shares or loses a chain.  *)
InterruptedDeleteOnlyLeaks ==
    cut \subseteq {"deleteFile"} => OwnedOnce /\ NothingDangles /\ ReadBack /\ NeverHangs

(* fat32.h on initialize_filesystem_fat32: an empty storage is given a     *)
(* file system with an initialized root directory, so a running system has *)
(* a root directory.                                                       *)
RunningHasRoot == status = "on" => IsDirectory(ROOT_CLUSTER_NUMBER)

=============================================================================
