--------------------------------- MODULE Shell ---------------------------------
(***************************************************************************)
(* The shell (user-shell.c) on top of the FAT32 driver, and the inserter   *)
(* that puts files on the disk image before the machine is started.  A     *)
(* command is a sequence of system calls; the power may go between two of  *)
(* them.  The name typed for a file is a pair of a name and an extension.  *)
(*                                                                         *)
(* Commands that only print are not here: ls prints the entries Seen, and  *)
(* whereis prints nothing.  Files fit in one cluster: cat and cp read into *)
(* a buffer of one cluster.                                                *)
(***************************************************************************)
EXTENDS Fat32Driver, Sequences, SequencesExt

CONSTANTS
    LeftoverExts,   \* extensions an unassigned char[3] may hold
    LeftoverNames,  \* names that a dotted name and unassigned bytes may make
    TableBytes,     \* the bytes of a folder's table, as the contents of a file
    Typed,          \* bound: the names typed
    MaxDepth        \* bound: the longest path (path_cluster has 20 elements)

ASSUME LeftoverAssumption == LeftoverExts \subseteq AllExts /\ LeftoverNames \subseteq Names
ASSUME TableAssumption    == TableBytes \in Payloads
ASSUME TypedAssumption    == Typed \subseteq Names \X AllExts
ASSUME DepthAssumption    == MaxDepth \in 1 .. 20
ASSUME OneClusterFiles    == MaxSize = 1

VARIABLES
    pc,           \* where the shell is, see Places
    path,         \* path_cluster: the folders from the root to the current one
    current_dir,  \* the shell's copy of the current folder's table
    call,         \* the command being executed with its locals, or NoCall
    contents,     \* the payloads listed when the command began (history)
    doomed,       \* those the command may remove (history)
    atRisk,       \* those the code may lose though it was not asked to (history)
    holes         \* was an entry in front of another removed? (history)

shellVars == <<pc, path, current_dir, call, contents, doomed, atRisk, holes>>
allVars   == <<vars, shellVars>>
history   == <<contents, doomed, atRisk>>

(* prompt: waiting for a command; found: a slot of the name typed; read:   *)
(* its file was read; destRead, looked, sourceGone, movable: on the way    *)
(* through mv; inserter, inserted: the host program runs.                  *)
Places == {"off", "inserter", "inserted", "prompt", "found", "read",
           "destRead", "looked", "sourceGone", "movable"}

Commands  == {"cat", "cp", "rm", "mv"}
NoPayload == "none"
FullNames == AllNames \X AllExts
FullName(entry) == <<entry.name, entry.ext>>
TypedNames == {name[1] : name \in Typed}

Calls == [cmd: Commands,
          file: FullNames, target: FullNames,  \* the names typed
          at: Slots,                           \* the slot the scan has come to
          dest: FullNames, into: Clusters,     \* the name and folder it writes to
          cl: Payloads \cup {NoPayload}]       \* what its buffer holds
NoCall == [cmd |-> "none"]

ShellTypeOK ==
    /\ TypeOK
    /\ pc \in Places
    /\ path \in Seq(Clusters) /\ Len(path) \in 1 .. MaxDepth
    /\ current_dir \in Tables
    /\ IF pc \in {"off", "inserter", "inserted", "prompt"} THEN call = NoCall ELSE call \in Calls
    /\ contents \subseteq Payloads /\ doomed \subseteq Payloads
    /\ atRisk \subseteq Payloads \cup {NoPayload}
    /\ holes \in BOOLEAN

ShellInit ==
    /\ Init
    /\ pc = "off"
    /\ path = <<ROOT_CLUSTER_NUMBER>>
    /\ current_dir = EmptyTable
    /\ call = NoCall
    /\ contents = {} /\ doomed = {} /\ atRisk = {}
    /\ holes = FALSE

-----------------------------------------------------------------------------
(* The disk as the shell sees it.                                          *)

TableOn(d, c) == IF d[c].kind = "dir" THEN d[c].table ELSE EmptyTable

(* The payloads of the files the disk lists; those under a name in one     *)
(* folder; and the one among them that the driver finds for the name.      *)
PayloadsOf(S) == {disk[EntryAt(s).cluster].payload :
                    s \in {r \in Listings \cap S : disk[EntryAt(r).cluster].kind = "data"}}
AllContents == PayloadsOf(Listings)
ContentsOf(folder, name) ==
    PayloadsOf({folder} \X Matching(Table(folder), name[1], name[2]))
FirstOf(folder, name) ==
    PayloadsOf({<<folder, First(Matching(Table(folder), name[1], name[2]))>>})

(* Loops over a table stop at the first slot without a name.               *)
Seen(t) == {i \in Slots : \A j \in 0 .. i : t[j].name # NoName}

(* The slots from k on whose name is the one typed.  (Bug...: see          *)
(* Fat32Driver.)                                                           *)
BugByName(t, k, name) == {i \in Seen(t) : i >= k /\ t[i].name = name[1]}
BugNoProgress(t, k, name) == {i \in Seen(t) : FullName(t[i]) = name}
MatchesFrom(t, k, name) == {i \in Seen(t) : i >= k /\ FullName(t[i]) = name}

(* The request cp and mv make of the target: of a name without a dot the   *)
(* extension is not assigned, of one with a dot the rest of the name.      *)
Landing(name) ==
    IF name[2] = NoExt THEN {name[1]} \X LeftoverExts
    ELSE ({name[1]} \cup LeftoverNames) \X {name[2]}

-----------------------------------------------------------------------------
(* Power, the inserter and boot.                                           *)

(* A command, or the machine, starts: what is listed now must stay.        *)
Watch(may, risk) == contents' = AllContents /\ doomed' = may /\ atRisk' = risk

StartInserter ==
    /\ pc = "off"
    /\ FormatAtBoot \/ LoadAtBoot
    /\ pc' = "inserter"
    /\ Watch({}, {})
    /\ UNCHANGED <<path, current_dir, call, holes>>

(* Nobody gives it the number of a file's cluster that mv has filled with  *)
(* a table, nor such a file.                                               *)
Insert(parent, name) ==
    /\ pc = "inserter"
    /\ disk[parent] # Data(TableBytes, 1)
    /\ \/ WriteInvalidParent(parent)
       \/ MakeDirectoryExists(parent, name)
       \/ MakeDirectory(parent, name)
       \/ \E p \in Payloads \ {TableBytes} : StoreFile(parent, name, NoExt, p)
    /\ pc' = "inserted"
    /\ UNCHANGED <<path, current_dir, call, history, holes>>

EndInserter ==
    /\ pc = "inserted"
    /\ PowerOff
    /\ pc' = "off"
    /\ UNCHANGED <<path, current_dir, call, history, holes>>

(* The shell's own file is left out: the kernel boots a disk it is on.     *)
StartShell ==
    /\ pc = "off"
    /\ LoadAtBoot
    /\ pc' = "prompt"
    /\ path' = <<ROOT_CLUSTER_NUMBER>>
    /\ current_dir' = TableOn(disk, ROOT_CLUSTER_NUMBER)
    /\ Watch({}, {})
    /\ UNCHANGED <<call, holes>>

Cut ==
    /\ pc \notin {"off", "inserter", "inserted"}
    /\ PowerOff
    /\ pc' = "off"
    /\ atRisk' = IF pc \in {"sourceGone", "movable"} THEN atRisk \cup {call.cl} ELSE atRisk
    /\ call' = NoCall
    /\ UNCHANGED <<path, current_dir, contents, doomed, holes>>

-----------------------------------------------------------------------------
(* The prompt.                                                             *)

cwd == current_dir[0].cluster

BugNotRefreshed(d, c) == current_dir
Refreshed(d, c) == TableOn(d, c)

(* The end of a command: main clears its arguments, and printPath reads    *)
(* the current folder again.                                               *)
Prompt(newPath) ==
    /\ pc' = "prompt"
    /\ call' = NoCall
    /\ path' = newPath
    /\ current_dir' = Refreshed(disk', Last(newPath))

BugDropsFirst(p) == IF Len(p) > 1 THEN Tail(p) ELSE p
Parent(p) == IF Len(p) > 1 THEN Front(p) ELSE p

ChangeToParent ==
    /\ pc = "prompt" /\ status = "on"
    /\ Watch({}, {})
    /\ UNCHANGED <<vars, holes>>
    /\ Prompt(Parent(path))

(* cd without a folder; an empty line is taken for it.                     *)
ChangeToRoot ==
    /\ pc = "prompt" /\ status = "on"
    /\ Watch({}, {})
    /\ UNCHANGED <<vars, holes>>
    /\ Prompt(<<Head(path)>>)

(* read_directory returns the table of the first folder of the name, and   *)
(* that table's first entry its cluster.                                   *)
FolderFound(name, ext) ==
    LET entry == Table(cwd)[First(Matching(Table(cwd), name, ext) \ {0})]
    IN  Table(entry.cluster)[0].cluster

BugEntersFiles(code) == code \in {0, 1}
Entered(code) == code = 0

ChangeDirectory(name) ==
    /\ pc = "prompt"
    /\ Len(path) < MaxDepth
    /\ ReadDirectory(cwd, name, NoExt)
    /\ Prompt(IF Entered(ret') THEN Append(path, FolderFound(name, NoExt)) ELSE path)
    /\ Watch({}, {})
    /\ UNCHANGED holes

MakeDirectoryCommand(name) ==
    /\ pc = "prompt"
    /\ \/ WriteInvalidParent(cwd)
       \/ MakeDirectoryExists(cwd, name)
       \/ MakeDirectory(cwd, name)
    /\ Prompt(path)
    /\ Watch({}, {})
    /\ UNCHANGED holes

(* Bound: a command begins when the disk and each table have room for what *)
(* it may write; full ones are the subject of Fat32Driver.                 *)
Roomy == /\ Free(fat) # {}
         /\ \A c \in Clusters : disk[c].kind = "dir" => Unused(disk[c].table) # {}

(* The entry under the scan, and the one the driver finds for its name.    *)
source == current_dir[call.at]

(* What the command is asked to remove: the file named, or those mv is to  *)
(* replace.                                                                *)
MayRemove(c, from, to) ==
    CASE c = "rm" -> FirstOf(cwd, from)
      [] c = "mv" -> ContentsOf(cwd, to) \ FirstOf(cwd, from)
      [] OTHER    -> {}

IsBorne(name) == Matching(Table(cwd), name[1], name[2]) \ {0} # {}

(* What the code may lose on top: mv reads whatever bears its target's     *)
(* name over the contents it moves, and with an extension nobody typed it  *)
(* replaces files nobody named.                                            *)
MayLose(c, from, to, dest) ==
    IF c # "mv" THEN {}
    ELSE (IF dest # from /\ IsBorne(dest) THEN FirstOf(cwd, from) ELSE {})
         \cup (IF dest # to THEN ContentsOf(cwd, dest) \ FirstOf(cwd, from) ELSE {})

Begin(c, from, to) ==
    /\ pc = "prompt" /\ status = "on"
    /\ Roomy
    /\ MatchesFrom(current_dir, 0, from) # {}
    /\ c \in {"cat", "rm"} => to = from   \* these have one operand
    /\ \E dest \in Landing(to) :
          /\ call' = [cmd |-> c, file |-> from, target |-> to,
                      at |-> First(MatchesFrom(current_dir, 0, from)),
                      dest |-> dest, into |-> cwd, cl |-> NoPayload]
          /\ Watch(MayRemove(c, from, to), MayLose(c, from, to, dest))
    /\ pc' = "found"
    /\ UNCHANGED <<vars, path, current_dir, holes>>

-----------------------------------------------------------------------------
(* The steps cat, cp, rm and mv share.                                     *)

(* What a read of a name in the current folder leaves in the buffer.       *)
BufferAfter(name, ext) ==
    LET c == Table(cwd)[First(Matching(Table(cwd), name, ext))].cluster
    IN  IF ret' = 0 /\ disk[c].kind = "data" THEN disk[c].payload ELSE call.cl

ReadSource ==
    /\ pc = "found"
    /\ Read(cwd, source.name, source.ext, source.size)
    /\ call' = [call EXCEPT !.cl = BufferAfter(source.name, source.ext)]
    /\ pc' = "read"
    /\ UNCHANGED <<path, current_dir, history, holes>>

(* The name is not a file's: on to the next entry of that name.            *)
TryNext ==
    LET rest == MatchesFrom(current_dir, call.at + 1, call.file)
    IN  /\ pc = "read" /\ status = "on" /\ ret # 0
        /\ UNCHANGED <<vars, history, holes>>
        /\ \/ rest = {} /\ Prompt(path)
           \/ /\ rest # {}
              /\ call' = [call EXCEPT !.at = First(rest)]
              /\ pc' = "found"
              /\ UNCHANGED <<path, current_dir>>

Succeeded(c) == pc = "read" /\ status = "on" /\ ret = 0 /\ call.cmd = c

(* cat prints the buffer; cp refuses to copy a file to itself.             *)
DoneReading ==
    /\ Succeeded("cat") \/ (Succeeded("cp") /\ call.file = call.target)
    /\ UNCHANGED <<vars, history, holes>>
    /\ Prompt(path)

WriteBuffer(folder) ==
    \/ WriteInvalidParent(folder)
    \/ call.cl # NoPayload /\ StoreFile(folder, call.dest[1], call.dest[2], call.cl)

(* The request's size is the source file's, never 0, so that the driver    *)
(* takes no request for a folder's.                                        *)
Delete(name, ext) ==
    LET slot == TargetSlot(Table(cwd), name, ext, FALSE)
    IN  /\ \/ DeleteNotFound(cwd, name, ext, FALSE)
           \/ DeleteFile(cwd, name, ext)
           \/ DeleteFileAstray(cwd, name, ext)
        /\ holes' = (holes \/ (slot # 0 /\ \E i \in Slots : i > slot /\ Table(cwd)[i].used))

-----------------------------------------------------------------------------
(* cp, rm and mv after the source was read.                                *)

CopyWrite ==
    /\ Succeeded("cp") /\ call.file # call.target
    /\ WriteBuffer(cwd)
    /\ Prompt(path)
    /\ UNCHANGED <<history, holes>>

RemoveDelete ==
    /\ Succeeded("rm")
    /\ Delete(source.name, source.ext)
    /\ Prompt(path)
    /\ UNCHANGED history

(* mv looks whether the target is a file by reading it, into the buffer    *)
(* that holds what is moved.                                               *)
MoveReadTarget ==
    /\ Succeeded("mv")
    /\ Read(cwd, call.dest[1], call.dest[2], source.size)
    /\ call' = [call EXCEPT !.cl = BufferAfter(call.dest[1], call.dest[2])]
    /\ pc' = "destRead"
    /\ UNCHANGED <<path, current_dir, history, holes>>

(* The target is a file or nothing.                                        *)
MoveDeleteSource ==
    /\ pc = "destRead" /\ ret \in {0, 3}
    /\ Delete(source.name, source.ext)
    /\ pc' = "sourceGone"
    /\ UNCHANGED <<path, current_dir, call, history>>

MoveDeleteTarget ==
    /\ pc = "sourceGone" /\ status = "on"
    /\ IF ret = 0 THEN Delete(call.dest[1], call.dest[2]) ELSE UNCHANGED <<vars, holes>>
    /\ pc' = "movable"
    /\ UNCHANGED <<path, current_dir, call, history>>

(* The target is something else: read_directory twice, the first time with *)
(* the same buffer, the second with one of its own and the name as it was  *)
(* typed.  A folder's table has then replaced the contents to move.        *)
MoveLookForFolder ==
    /\ pc = "destRead" /\ ret \in {1, 2}
    /\ ReadDirectory(cwd, call.dest[1], call.dest[2])
    /\ IF ret' = 0
         THEN /\ call' = [call EXCEPT !.into = FolderFound(call.target[1], NoExt),
                                       !.cl   = TableBytes]
              /\ pc' = "looked"
              /\ UNCHANGED <<path, current_dir>>
         ELSE Prompt(path)
    /\ UNCHANGED <<history, holes>>

MoveOutOfFolder ==
    /\ pc = "looked"
    /\ Delete(source.name, source.ext)
    /\ pc' = "movable"
    /\ UNCHANGED <<path, current_dir, call, history>>

MoveWrite ==
    /\ pc = "movable"
    /\ WriteBuffer(call.into)
    /\ Prompt(path)
    /\ UNCHANGED <<history, holes>>

CommandStep ==
    \/ ReadSource \/ TryNext \/ DoneReading
    \/ CopyWrite \/ RemoveDelete
    \/ MoveReadTarget \/ MoveDeleteSource \/ MoveDeleteTarget
    \/ MoveLookForFolder \/ MoveOutOfFolder \/ MoveWrite

ShellNext ==
    \/ StartInserter \/ EndInserter \/ StartShell \/ Cut
    \/ \E parent \in Clusters, name \in TypedNames : Insert(parent, name)
    \/ ChangeToParent \/ ChangeToRoot
    \/ \E name \in TypedNames : ChangeDirectory(name) \/ MakeDirectoryCommand(name)
    \/ \E c \in Commands, from \in Typed, to \in Typed : Begin(c, from, to)
    \/ CommandStep

ShellSpec == ShellInit /\ [][ShellNext]_allVars

(* The shell is the only program: a scan it began goes on.                 *)
Scan == ReadSource \/ TryNext
FairShellSpec == ShellSpec /\ WF_allVars(Scan)

-----------------------------------------------------------------------------
(* Properties.                                                             *)

Running == pc \notin {"off", "inserter", "inserted"}

(* Every write so far found the clusters and the slot it needed: one that  *)
(* does not writes the boot sector or a folder's own entry.                *)
RoomFound == mishaps \cap {"noCluster", "noSlot"} = {}

(* The path at the prompt is a path of the disk: each folder on it is      *)
(* listed in the one before.  (No command removes a folder.)               *)
PathIsReal ==
    RoomFound /\ Running =>
        /\ path[1] = ROOT_CLUSTER_NUMBER
        /\ \A i \in 1 .. Len(path) - 1 :
              \E s \in Listings : s[1] = path[i] /\ EntryAt(s).dir /\ EntryAt(s).cluster = path[i + 1]

(* The shell works on a copy of the current folder; it is the folder's     *)
(* table whenever a command begins.                                        *)
CopyIsFresh ==
    RoomFound /\ pc = "prompt" =>
        current_dir = TableOn(disk, Last(path)) /\ cwd = Last(path)

(* No command loses contents it was not asked to remove: what was listed   *)
(* when it began is listed or, on the way through mv, in its buffer.  The  *)
(* code has three ways to lose more.  Two are decided when mv begins (see  *)
(* MayLose): something other than the source bears the target's name, or   *)
(* the extension of the target was not typed.  The third is a power cut    *)
(* between mv's delete and its write.  (Not stated for a folder deleted as *)
(* a file, the mishap wrongKind.)                                          *)
NothingForgotten ==
    mishaps = {} =>
        contents \subseteq AllContents \cup doomed \cup atRisk
                             \cup (IF pc \in {"sourceGone", "movable"} THEN {call.cl} ELSE {})

(* The loops of ls, cat, cp, rm and mv come to every entry, as long as no  *)
(* entry was removed in front of another one.                              *)
EveryEntrySeen ==
    RoomFound /\ ~holes => \A s \in Listings : s[2] \in Seen(disk[s[1]].table)

(* The one loop of a command ends: the scan goes forward whatever the      *)
(* driver answers, to a file or to the prompt.                             *)
ScanEnds == pc = "found" ~> pc \in {"prompt", "off"} \/ (pc = "read" /\ ret = 0)

-----------------------------------------------------------------------------
(* README.md on mv: "move file or folder in current dir to the destination": *)
(* what was moved is there afterwards.                                     *)
MoveKeepsContents ==
    pc = "prompt" /\ mishaps = {} => contents \subseteq AllContents \cup doomed

=============================================================================
