----------------------------- MODULE ShellProofs -----------------------------
(***************************************************************************)
(* Theorems about Shell, for every size of the disk, any names and paths   *)
(* of any permitted length: as long as the writes find room, the path at   *)
(* the prompt is a path of the disk and the copy of its table fresh, the   *)
(* scans come to every entry, and no command forgets what it moves.        *)
(***************************************************************************)
EXTENDS Shell, Fat32StoreProofs

-----------------------------------------------------------------------------
(* A step of the shell is a call, or a change of the power, or none.       *)

LEMMA CallsOfDriver ==
    ASSUME NEW parent \in Clusters, NEW name \in AllNames, NEW ext \in AllExts
    PROVE  /\ WriteInvalidParent(parent) => DriverCall
           /\ MakeDirectoryExists(parent, name) => DriverCall
           /\ MakeDirectory(parent, name) => DriverCall
           /\ ReadDirectory(parent, name, ext) => DriverCall
           /\ \A buffer \in 0 .. MaxSize : Read(parent, name, ext, buffer) => DriverCall
           /\ \A p \in Payloads : StoreFile(parent, name, ext, p) => DriverCall
           /\ DeleteNotFound(parent, name, ext, FALSE) => DriverCall
           /\ DeleteFile(parent, name, ext) => DriverCall
           /\ DeleteFileAstray(parent, name, ext) => DriverCall
<1>1. WriteInvalidParent(parent) => DriverCall
    BY DEF DriverCall
<1>2. DirectoryCall(parent, name) => DriverCall
    BY DEF DriverCall
<1>3. FileCall(parent, name, ext) => DriverCall
    BY DEF DriverCall
<1>4. /\ MakeDirectoryExists(parent, name) => DirectoryCall(parent, name)
      /\ MakeDirectory(parent, name) => DirectoryCall(parent, name)
    BY DEF DirectoryCall
<1>5. /\ ReadDirectory(parent, name, ext) => FileCall(parent, name, ext)
      /\ \A buffer \in 0 .. MaxSize : Read(parent, name, ext, buffer) => FileCall(parent, name, ext)
      /\ \A p \in Payloads : StoreFile(parent, name, ext, p) => FileCall(parent, name, ext)
      /\ DeleteNotFound(parent, name, ext, FALSE) => FileCall(parent, name, ext)
      /\ DeleteFile(parent, name, ext) => FileCall(parent, name, ext)
      /\ DeleteFileAstray(parent, name, ext) => FileCall(parent, name, ext)
    BY DEF FileCall
<1> QED
    BY <1>1, <1>2, <1>3, <1>4, <1>5

(* The names that are typed, and those the commands make of them.          *)
LEMMA NamesTyped ==
    /\ \A name \in Typed : name[1] \in Names /\ name \in FullNames
    /\ \A name \in TypedNames : name \in Names
    /\ \A name \in Typed : \A dest \in Landing(name) : dest[1] \in Names /\ dest \in FullNames
    /\ Names \subseteq AllNames /\ NoExt \in AllExts /\ NoName \notin Names
<1>1. Names \subseteq AllNames /\ NoExt \in AllExts /\ NoName \notin Names
    BY NameAssumption DEF AllNames, AllExts
<1>2. \A name \in Typed : name[1] \in Names /\ name[2] \in AllExts /\ name = <<name[1], name[2]>>
    BY TypedAssumption
<1>3. ASSUME NEW name \in Typed, NEW dest \in Landing(name)
      PROVE  dest[1] \in Names /\ dest \in FullNames
    BY <1>1, <1>2, LeftoverAssumption DEF Landing, FullNames
<1> QED
    BY <1>1, <1>2, <1>3 DEF FullNames, TypedNames

LEMMA CommandTyped ==
    ASSUME ShellTypeOK, call # NoCall
    PROVE  /\ call \in Calls /\ pc \notin {"off", "inserter", "inserted", "prompt"}
           /\ call.file \in FullNames /\ call.target \in FullNames /\ call.dest \in FullNames
           /\ call.at \in Slots /\ call.into \in Clusters /\ call.cl \in Payloads \cup {NoPayload}
BY DEF ShellTypeOK, Calls

LEMMA InCommand ==
    ASSUME ShellTypeOK, pc \notin {"off", "inserter", "inserted", "prompt"}
    PROVE  call \in Calls
BY DEF ShellTypeOK

LEMMA CopyTyped ==
    ASSUME ShellTypeOK
    PROVE  /\ cwd \in Clusters
           /\ \A i \in Slots : /\ current_dir[i] \in Entry
                               /\ current_dir[i].name \in AllNames /\ current_dir[i].ext \in AllExts
                               /\ current_dir[i].size \in 0 .. MaxSize
BY Numbers DEF ShellTypeOK, cwd, Tables, Entry

LEMMA WriteBufferCalls ==
    ASSUME call \in Calls, NEW folder \in Clusters, WriteBuffer(folder)
    PROVE  /\ DriverCall
           /\ \/ WriteInvalidParent(folder)
              \/ /\ call.cl \in Payloads /\ call.dest[1] \in AllNames /\ call.dest[2] \in AllExts
                 /\ StoreFile(folder, call.dest[1], call.dest[2], call.cl)
<1>1. call.dest[1] \in AllNames /\ call.dest[2] \in AllExts /\ call.cl \in Payloads \cup {NoPayload}
    BY DEF Calls, FullNames
<1>2. CASE WriteInvalidParent(folder)
    BY <1>1, <1>2, CallsOfDriver
<1>3. CASE call.cl # NoPayload /\ StoreFile(folder, call.dest[1], call.dest[2], call.cl)
    BY <1>1, <1>3, CallsOfDriver
<1> QED
    BY <1>2, <1>3 DEF WriteBuffer

LEMMA DeleteCalls ==
    ASSUME ShellTypeOK, NEW name \in AllNames, NEW ext \in AllExts, Delete(name, ext)
    PROVE  /\ DriverCall
           /\ \/ DeleteNotFound(cwd, name, ext, FALSE)
              \/ DeleteFile(cwd, name, ext) \/ DeleteFileAstray(cwd, name, ext)
           /\ holes' \in BOOLEAN
<1>1. \/ DeleteNotFound(cwd, name, ext, FALSE)
      \/ DeleteFile(cwd, name, ext) \/ DeleteFileAstray(cwd, name, ext)
    BY DEF Delete
<1>2. holes' \in BOOLEAN
    BY DEF Delete, ShellTypeOK
<1> QED
    BY <1>1, <1>2, CallsOfDriver, CopyTyped

LEMMA ReadCalls ==
    ASSUME ShellTypeOK, NEW name \in AllNames, NEW ext \in AllExts, NEW buffer \in 0 .. MaxSize
    PROVE  /\ Read(cwd, name, ext, buffer) => DriverCall
           /\ ReadDirectory(cwd, name, ext) => DriverCall
BY CopyTyped, CallsOfDriver

LEMMA CommandPlace ==
    ASSUME ShellTypeOK, CommandStep
    PROVE  /\ pc \notin {"off", "inserter", "inserted", "prompt"}
           /\ call \in Calls /\ call.at \in Slots /\ call.into \in Clusters
           /\ source.name \in AllNames /\ source.ext \in AllExts /\ source.size \in 0 .. MaxSize
           /\ call.dest[1] \in AllNames /\ call.dest[2] \in AllExts
<1>1. pc \notin {"off", "inserter", "inserted", "prompt"}
    BY DEF CommandStep, ReadSource, TryNext, DoneReading, Succeeded, CopyWrite, RemoveDelete,
           MoveReadTarget, MoveDeleteSource, MoveDeleteTarget, MoveLookForFolder,
           MoveOutOfFolder, MoveWrite
<1>2. call \in Calls /\ call.at \in Slots /\ call.into \in Clusters
    BY <1>1, InCommand DEF Calls
<1> QED
    BY <1>1, <1>2, CopyTyped DEF source, Calls, FullNames

(* The driver's part of the steps of a command.                            *)
LEMMA CommandSteps ==
    ASSUME ShellTypeOK, CommandStep
    PROVE  DriverCall \/ UNCHANGED vars
<1>2. call \in Calls /\ call.into \in Clusters
    BY CommandPlace
<1>3. /\ source.name \in AllNames /\ source.ext \in AllExts /\ source.size \in 0 .. MaxSize
      /\ call.dest[1] \in AllNames /\ call.dest[2] \in AllExts
    BY CommandPlace
<1>4. CASE ReadSource
    BY <1>3, <1>4, ReadCalls DEF ReadSource
<1>5. CASE TryNext
    BY <1>5 DEF TryNext
<1>6. CASE DoneReading
    BY <1>6 DEF DoneReading
<1>7. CASE CopyWrite
    BY <1>2, <1>7, CopyTyped, WriteBufferCalls DEF CopyWrite
<1>8. CASE RemoveDelete
    BY <1>3, <1>8, DeleteCalls DEF RemoveDelete
<1>9. CASE MoveReadTarget
    BY <1>3, <1>9, ReadCalls DEF MoveReadTarget
<1>10. CASE MoveDeleteSource
    BY <1>3, <1>10, DeleteCalls DEF MoveDeleteSource
<1>11. CASE MoveDeleteTarget
    BY <1>3, <1>11, DeleteCalls DEF MoveDeleteTarget
<1>12. CASE MoveLookForFolder
    <2>1. 0 \in 0 .. MaxSize
        BY SizeAssumption
    <2> QED
        BY <1>3, <1>12, <2>1, ReadCalls DEF MoveLookForFolder
<1>13. CASE MoveOutOfFolder
    BY <1>3, <1>13, DeleteCalls DEF MoveOutOfFolder
<1>14. CASE MoveWrite
    BY <1>2, <1>14, WriteBufferCalls DEF MoveWrite
<1> QED
    BY <1>4, <1>5, <1>6, <1>7, <1>8, <1>9, <1>10, <1>11, <1>12, <1>13, <1>14
       DEF CommandStep

LEMMA InsertCalls ==
    ASSUME NEW parent \in Clusters, NEW name \in TypedNames, Insert(parent, name)
    PROVE  DriverCall
<1>1. name \in AllNames /\ NoExt \in AllExts
    BY NamesTyped
<1> QED
    BY <1>1, CallsOfDriver DEF Insert

LEMMA PromptCalls ==
    ASSUME ShellTypeOK, NEW name \in TypedNames,
           ChangeDirectory(name) \/ MakeDirectoryCommand(name)
    PROVE  DriverCall
<1>1. name \in AllNames /\ NoExt \in AllExts
    BY NamesTyped
<1> QED
    BY <1>1, CopyTyped, CallsOfDriver DEF ChangeDirectory, MakeDirectoryCommand

LEMMA ShellSteps ==
    ASSUME ShellTypeOK, [ShellNext]_allVars
    PROVE  [Next]_vars
<1>1. CASE UNCHANGED allVars
    BY <1>1 DEF allVars
<1>2. CASE StartInserter \/ EndInserter \/ StartShell \/ Cut
    BY <1>2 DEF StartInserter, EndInserter, StartShell, Cut, Next
<1>3. CASE \E parent \in Clusters, name \in TypedNames : Insert(parent, name)
    BY <1>3, InsertCalls DEF Next
<1>4. CASE ChangeToParent \/ ChangeToRoot
    BY <1>4 DEF ChangeToParent, ChangeToRoot
<1>5. CASE \E name \in TypedNames : ChangeDirectory(name) \/ MakeDirectoryCommand(name)
    BY <1>5, PromptCalls DEF Next
<1>6. CASE \E c \in Commands, from \in Typed, to \in Typed : Begin(c, from, to)
    BY <1>6 DEF Begin
<1>7. CASE CommandStep
    BY <1>7, CommandSteps DEF Next
<1> QED
    BY <1>1, <1>2, <1>3, <1>4, <1>5, <1>6, <1>7 DEF ShellNext

-----------------------------------------------------------------------------
(* Type correctness.                                                       *)

LEMMA TableOnTyped ==
    ASSUME NEW d \in [Clusters -> Content], NEW c \in Clusters
    PROVE  TableOn(d, c) \in Tables
BY Parts, TablesTyped DEF TableOn

LEMMA PayloadsTyped ==
    ASSUME TypeOK, NEW S
    PROVE  PayloadsOf(S) \subseteq Payloads
<1> SUFFICES ASSUME NEW s \in Listings, disk[EntryAt(s).cluster].kind = "data"
             PROVE  disk[EntryAt(s).cluster].payload \in Payloads
    BY DEF PayloadsOf
<1>1. disk \in [Clusters -> Content] /\ EntryAt(s).cluster \in Clusters
    BY ListingPlace DEF TypeOK, Listings, EntryAt, Entry
<1> QED
    BY <1>1, Parts

LEMMA WatchTyped ==
    ASSUME ShellTypeOK, NEW may \in SUBSET Payloads, NEW risk \in SUBSET Payloads,
           Watch(may, risk)
    PROVE  /\ contents' \subseteq Payloads /\ doomed' \subseteq Payloads
           /\ atRisk' \subseteq Payloads \cup {NoPayload}
BY PayloadsTyped DEF Watch, AllContents, ShellTypeOK

LEMMA PathTyped ==
    ASSUME ShellTypeOK
    PROVE  /\ path \in Seq(Clusters) /\ Len(path) \in 1 .. MaxDepth /\ Len(path) \in Nat
           /\ Parent(path) \in Seq(Clusters) /\ Len(Parent(path)) \in 1 .. MaxDepth
           /\ Parent(path) = IF Len(path) > 1 THEN SubSeq(path, 1, Len(path) - 1) ELSE path
           /\ <<Head(path)>> \in Seq(Clusters) /\ Len(<<Head(path)>>) \in 1 .. MaxDepth
           /\ Head(path) = path[1]
<1>1. path \in Seq(Clusters) /\ Len(path) \in 1 .. MaxDepth /\ Len(path) \in Nat /\ MaxDepth \in Nat
    BY DepthAssumption DEF ShellTypeOK
<1>2. /\ Parent(path) = IF Len(path) > 1 THEN SubSeq(path, 1, Len(path) - 1) ELSE path
    BY DEF Parent, Front
<1>3. Parent(path) \in Seq(Clusters) /\ Len(Parent(path)) \in 1 .. MaxDepth
    BY <1>1, <1>2
<1>4. Head(path) \in Clusters /\ Head(path) = path[1]
    BY <1>1
<1>5. <<Head(path)>> \in Seq(Clusters) /\ Len(<<Head(path)>>) \in 1 .. MaxDepth
    BY <1>1, <1>4
<1> QED
    BY <1>1, <1>2, <1>3, <1>4, <1>5

LEMMA PromptTyped ==
    ASSUME TypeOK', NEW newPath \in Seq(Clusters), Len(newPath) \in 1 .. MaxDepth, Prompt(newPath)
    PROVE  /\ pc' = "prompt" /\ call' = NoCall /\ path' = newPath
           /\ current_dir' = TableOn(disk', Last(newPath)) /\ current_dir' \in Tables
           /\ Last(newPath) \in Clusters
<1>1. Last(newPath) \in Clusters
    BY DepthAssumption DEF Last
<1> QED
    BY <1>1, TableOnTyped DEF Prompt, Refreshed, TypeOK

(* What a command that begins is about.                                    *)
LEMMA MatchesInSlots ==
    ASSUME NEW t, NEW k, NEW name, MatchesFrom(t, k, name) # {}
    PROVE  /\ First(MatchesFrom(t, k, name)) \in MatchesFrom(t, k, name)
           /\ First(MatchesFrom(t, k, name)) \in Slots
<1>1. MatchesFrom(t, k, name) \in SUBSET Slots
    BY DEF MatchesFrom, Seen
<1>2. MatchesFrom(t, k, name) \in SUBSET Nat
    BY <1>1, Numbers
<1> QED
    BY <1>1, <1>2, FirstIn

LEMMA FolderFoundTyped ==
    ASSUME ShellTypeOK, NEW name, NEW ext
    PROVE  FolderFound(name, ext) \in Clusters
<1> DEFINE S == Matching(Table(cwd), name, ext) \ {0}
           entry == Table(cwd)[First(S)]
<1>1. First(S) \in Slots
    <2>1. S \in SUBSET Slots /\ S \in SUBSET Nat
        BY Numbers DEF Matching, Named
    <2> QED
        BY <2>1, FirstIn, Numbers
<1>2. TypeOK /\ entry.cluster \in Clusters
    BY <1>1, CopyTyped, TableTyped DEF ShellTypeOK, Tables, Entry
<1>3. Table(entry.cluster)[0].cluster \in Clusters
    BY <1>2, TableTyped, Numbers DEF Tables, Entry
<1> QED
    BY <1>3 DEF FolderFound

LEMMA BufferTyped ==
    ASSUME ShellTypeOK, call \in Calls, NEW name, NEW ext
    PROVE  BufferAfter(name, ext) \in Payloads \cup {NoPayload}
<1> DEFINE c == Table(cwd)[First(Matching(Table(cwd), name, ext))].cluster
<1>1. TypeOK /\ c \in Clusters
    BY SlotsFound, CopyTyped, TableTyped DEF ShellTypeOK, Tables, Entry
<1>2. disk[c].kind = "data" => disk[c].payload \in Payloads
    BY <1>1, Parts DEF TypeOK
<1>3. call.cl \in Payloads \cup {NoPayload}
    BY DEF Calls
<1> QED
    BY <1>2, <1>3 DEF BufferAfter

LEMMA BeginTyped ==
    ASSUME ShellTypeOK, NEW c \in Commands, NEW from \in Typed, NEW to \in Typed, Begin(c, from, to)
    PROVE  ShellTypeOK'
<1>1. PICK dest \in Landing(to) :
          /\ call' = [cmd |-> c, file |-> from, target |-> to,
                      at |-> First(MatchesFrom(current_dir, 0, from)),
                      dest |-> dest, into |-> cwd, cl |-> NoPayload]
          /\ Watch(MayRemove(c, from, to), MayLose(c, from, to, dest))
    BY DEF Begin
<1>2. MayRemove(c, from, to) \in SUBSET Payloads /\ MayLose(c, from, to, dest) \in SUBSET Payloads
    BY PayloadsTyped DEF MayRemove, MayLose, FirstOf, ContentsOf, ShellTypeOK
<1>3. call' \in Calls
    <2>1. First(MatchesFrom(current_dir, 0, from)) \in Slots
        BY MatchesInSlots DEF Begin
    <2> QED
        BY <1>1, <2>1, NamesTyped, CopyTyped DEF Calls
<1>4. TypeOK'
    BY DEF Begin, ShellTypeOK, TypeOK, vars
<1>5. /\ contents' \subseteq Payloads /\ doomed' \subseteq Payloads
      /\ atRisk' \subseteq Payloads \cup {NoPayload}
    BY <1>1, <1>2, WatchTyped
<1> QED
    BY <1>3, <1>4, <1>5 DEF Begin, ShellTypeOK, Places

LEMMA CommandStepTyped ==
    ASSUME ShellTypeOK, CommandStep, TypeOK'
    PROVE  ShellTypeOK'
<1>1. /\ call \in Calls /\ pc \notin {"off", "inserter", "inserted", "prompt"}
      /\ source.name \in AllNames /\ source.ext \in AllExts
      /\ call.dest[1] \in AllNames /\ call.dest[2] \in AllExts
    BY CommandPlace
<1>2. path \in Seq(Clusters) /\ Len(path) \in 1 .. MaxDepth
    BY PathTyped
<1>3. /\ current_dir \in Tables /\ holes \in BOOLEAN /\ contents \subseteq Payloads
      /\ doomed \subseteq Payloads /\ atRisk \subseteq Payloads \cup {NoPayload} /\ pc \in Places
    BY DEF ShellTypeOK
<1>4. Prompt(path) => /\ pc' = "prompt" /\ call' = NoCall /\ path' = path
                      /\ current_dir' \in Tables
    BY <1>2, PromptTyped
<1>5. \A name, ext, c :
         c = BufferAfter(name, ext) => [call EXCEPT !.cl = c] \in Calls /\ c \in Payloads \cup {NoPayload}
    BY <1>1, BufferTyped DEF Calls
<1>6. call.cl \in Payloads \cup {NoPayload}
    BY <1>1 DEF Calls
<1>7. CASE ReadSource
    BY <1>1, <1>2, <1>3, <1>5, <1>7 DEF ReadSource, history, ShellTypeOK, Places
<1>8. CASE TryNext
    <2> DEFINE rest == MatchesFrom(current_dir, call.at + 1, call.file)
    <2>1. CASE rest = {} /\ Prompt(path)
        BY <1>2, <1>3, <1>4, <1>8, <2>1 DEF TryNext, history, ShellTypeOK, Places
    <2>2. CASE rest # {} /\ call' = [call EXCEPT !.at = First(rest)] /\ pc' = "found"
               /\ UNCHANGED <<path, current_dir>>
        <3>1. First(rest) \in Slots
            BY <2>2, MatchesInSlots
        <3>2. call' \in Calls
            BY <1>1, <2>2, <3>1 DEF Calls
        <3> QED
            BY <1>2, <1>3, <1>8, <2>2, <3>2 DEF TryNext, history, ShellTypeOK, Places
    <2> QED
        BY <1>8, <2>1, <2>2 DEF TryNext
<1>9. CASE DoneReading
    BY <1>2, <1>3, <1>4, <1>9 DEF DoneReading, history, ShellTypeOK, Places
<1>10. CASE CopyWrite
    BY <1>2, <1>3, <1>4, <1>10 DEF CopyWrite, history, ShellTypeOK, Places
<1>11. CASE RemoveDelete
    BY <1>1, <1>2, <1>3, <1>4, <1>11, DeleteCalls DEF RemoveDelete, history, ShellTypeOK, Places
<1>12. CASE MoveReadTarget
    BY <1>1, <1>2, <1>3, <1>5, <1>12 DEF MoveReadTarget, history, ShellTypeOK, Places
<1>13. CASE MoveDeleteSource \/ MoveDeleteTarget \/ MoveOutOfFolder
    BY <1>1, <1>2, <1>3, <1>13, DeleteCalls
       DEF MoveDeleteSource, MoveDeleteTarget, MoveOutOfFolder, history, ShellTypeOK, Places
<1>14. CASE MoveLookForFolder
    <2>1. [call EXCEPT !.into = FolderFound(call.target[1], NoExt), !.cl = TableBytes] \in Calls
        BY <1>1, FolderFoundTyped, TableAssumption DEF Calls
    <2> QED
        BY <1>1, <1>2, <1>3, <1>4, <1>14, <2>1 DEF MoveLookForFolder, history, ShellTypeOK, Places
<1>15. CASE MoveWrite
    BY <1>2, <1>3, <1>4, <1>15 DEF MoveWrite, history, ShellTypeOK, Places
<1> QED
    BY <1>7, <1>8, <1>9, <1>10, <1>11, <1>12, <1>13, <1>14, <1>15 DEF CommandStep

LEMMA PromptStepTyped ==
    ASSUME ShellTypeOK, TypeOK',
           \/ ChangeToParent \/ ChangeToRoot
           \/ \E name \in TypedNames : ChangeDirectory(name) \/ MakeDirectoryCommand(name)
    PROVE  ShellTypeOK'
<1>1. Watch({}, {}) /\ UNCHANGED holes
    BY DEF ChangeToParent, ChangeToRoot, ChangeDirectory, MakeDirectoryCommand
<1>2. PICK newPath \in Seq(Clusters) : Len(newPath) \in 1 .. MaxDepth /\ Prompt(newPath)
    <2>1. CASE ChangeToParent \/ ChangeToRoot
        BY <2>1, PathTyped DEF ChangeToParent, ChangeToRoot
    <2>2. ASSUME NEW name \in TypedNames, ChangeDirectory(name)
          PROVE  \E newPath \in Seq(Clusters) : Len(newPath) \in 1 .. MaxDepth /\ Prompt(newPath)
        <3> DEFINE c == FolderFound(name, NoExt)
        <3>1. c \in Clusters
            BY FolderFoundTyped
        <3> HIDE DEF c
        <3>2. path \in Seq(Clusters) /\ Len(path) \in 1 .. MaxDepth /\ MaxDepth \in Nat
            BY PathTyped, DepthAssumption
        <3>3. Append(path, c) \in Seq(Clusters) /\ Len(Append(path, c)) = Len(path) + 1
            BY <3>1, <3>2
        <3>4. Len(path) < MaxDepth /\ (Prompt(Append(path, c)) \/ Prompt(path))
            BY <2>2 DEF ChangeDirectory, c
        <3>5. Len(Append(path, c)) \in 1 .. MaxDepth
            BY <3>2, <3>3, <3>4
        <3> QED
            BY <3>2, <3>3, <3>4, <3>5
    <2>3. ASSUME NEW name \in TypedNames, MakeDirectoryCommand(name)
          PROVE  \E newPath \in Seq(Clusters) : Len(newPath) \in 1 .. MaxDepth /\ Prompt(newPath)
        BY <2>3, PathTyped DEF MakeDirectoryCommand
    <2> QED
        BY <2>1, <2>2, <2>3
<1>3. /\ pc' = "prompt" /\ call' = NoCall /\ path' = newPath /\ current_dir' \in Tables
    BY <1>2, PromptTyped
<1>4. /\ contents' \subseteq Payloads /\ doomed' \subseteq Payloads
      /\ atRisk' \subseteq Payloads \cup {NoPayload}
    BY <1>1, WatchTyped
<1>5. holes' \in BOOLEAN
    BY <1>1 DEF ShellTypeOK
<1> QED
    BY <1>2, <1>3, <1>4, <1>5 DEF ShellTypeOK, Places

LEMMA PowerStepTyped ==
    ASSUME ShellTypeOK, TypeOK', StartInserter \/ EndInserter \/ StartShell \/ Cut
    PROVE  ShellTypeOK'
<1>1. CASE StartInserter
    <2>1. /\ contents' \subseteq Payloads /\ doomed' \subseteq Payloads
          /\ atRisk' \subseteq Payloads \cup {NoPayload}
        BY <1>1, WatchTyped DEF StartInserter
    <2> QED
        BY <1>1, <2>1 DEF StartInserter, ShellTypeOK, Places
<1>2. CASE EndInserter
    BY <1>2 DEF EndInserter, ShellTypeOK, Places, history
<1>3. CASE StartShell
    <2>1. /\ contents' \subseteq Payloads /\ doomed' \subseteq Payloads
          /\ atRisk' \subseteq Payloads \cup {NoPayload}
        BY <1>3, WatchTyped DEF StartShell
    <2>2. current_dir' \in Tables
        BY <1>3, TableOnTyped, Numbers DEF StartShell, ShellTypeOK, TypeOK
    <2>3. path' \in Seq(Clusters) /\ Len(path') \in 1 .. MaxDepth
        BY <1>3, Numbers, DepthAssumption DEF StartShell
    <2> QED
        BY <1>3, <2>1, <2>2, <2>3 DEF StartShell, ShellTypeOK, Places
<1>4. CASE Cut
    <2>1. pc \in {"sourceGone", "movable"} => call.cl \in Payloads \cup {NoPayload}
        BY InCommand DEF Calls
    <2> QED
        BY <1>4, <2>1 DEF Cut, ShellTypeOK, Places
<1> QED
    BY <1>1, <1>2, <1>3, <1>4

LEMMA InsertTyped ==
    ASSUME ShellTypeOK, TypeOK', NEW parent \in Clusters, NEW name \in TypedNames,
           Insert(parent, name)
    PROVE  ShellTypeOK'
BY DEF Insert, ShellTypeOK, Places, history

LEMMA ShellTypesKept ==
    ASSUME ShellTypeOK, [ShellNext]_allVars
    PROVE  ShellTypeOK'
<1>1. TypeOK'
    BY ShellSteps, TypesKept DEF ShellTypeOK
<1>2. CASE UNCHANGED allVars
    BY <1>2, <1>1 DEF allVars, shellVars, ShellTypeOK
<1>3. CASE StartInserter \/ EndInserter \/ StartShell \/ Cut
    BY <1>1, <1>3, PowerStepTyped
<1>4. CASE \E parent \in Clusters, name \in TypedNames : Insert(parent, name)
    BY <1>1, <1>4, InsertTyped
<1>5. CASE \/ ChangeToParent \/ ChangeToRoot
           \/ \E name \in TypedNames : ChangeDirectory(name) \/ MakeDirectoryCommand(name)
    BY <1>1, <1>5, PromptStepTyped
<1>6. CASE \E c \in Commands, from \in Typed, to \in Typed : Begin(c, from, to)
    BY <1>6, BeginTyped
<1>7. CASE CommandStep
    BY <1>1, <1>7, CommandStepTyped
<1> QED
    BY <1>2, <1>3, <1>4, <1>5, <1>6, <1>7 DEF ShellNext

LEMMA ShellTypesStart == ShellInit => ShellTypeOK
<1> SUFFICES ASSUME ShellInit PROVE ShellTypeOK
    OBVIOUS
<1>1. TypeOK
    BY Contents, Values DEF ShellInit, Init, TypeOK
<1>2. path \in Seq(Clusters) /\ Len(path) \in 1 .. MaxDepth
    BY Numbers, DepthAssumption DEF ShellInit
<1> QED
    BY <1>1, <1>2, TablesTyped DEF ShellInit, ShellTypeOK, Places

(* The shell's copies, cluster numbers and scans stay in range, whatever   *)
(* the disk holds.                                                         *)
THEOREM ShellTypeCorrect == ShellSpec => []ShellTypeOK
<1>1. ShellInit => ShellTypeOK
    BY ShellTypesStart
<1>2. ShellTypeOK /\ [ShellNext]_allVars => ShellTypeOK'
    BY ShellTypesKept
<1> QED
    BY <1>1, <1>2, PTL DEF ShellSpec

-----------------------------------------------------------------------------
(* What the shell relies on in the tables: the first entry of each holds   *)
(* the folder's own cluster and, as long as no entry was removed in front  *)
(* of another, the entries in use come first.                              *)

SelfNamed == \A c \in Clusters : disk[c].kind = "dir" => disk[c].table[0].cluster = c

Dense == \A c \in Clusters : disk[c].kind = "dir" =>
            \A i, j \in Slots : i < j /\ disk[c].table[j].used => disk[c].table[i].used

(* A call adds an entry at the first free place x of a table, and no table *)
(* but a new folder's.                                                     *)
Adds(parent, x, entry) ==
    /\ x \in Slots \ {0} /\ ~disk[parent].table[x].used
    /\ \A i \in Slots : i < x => disk[parent].table[i].used
    /\ Replaces(disk, disk', parent, x, entry) /\ entry.used
    /\ \A f \in Clusters : disk[f].kind = "dir" => disk'[f].kind = "dir"
    /\ \A f \in Clusters : disk'[f].kind = "dir" /\ disk[f].kind # "dir" =>
          \E name \in AllNames : disk'[f] = Dir(NewTable(name, f))

LEMMA NewTableShape ==
    ASSUME NEW name \in AllNames, NEW c \in Clusters
    PROVE  /\ NewTable(name, c)[0].cluster = c
           /\ \A i \in Slots : NewTable(name, c)[i].used <=> i = 0
<1>1. /\ NewTable(name, c)[0] = DirEntry(name, c)
      /\ \A i \in Slots \ {0} : NewTable(name, c)[i] = EmptyEntry
    BY Numbers DEF NewTable
<1>2. DirEntry(name, c).cluster = c /\ DirEntry(name, c).used /\ ~EmptyEntry.used
    BY DEF DirEntry, EmptyEntry
<1> HIDE DEF NewTable
<1> QED
    BY <1>1, <1>2

LEMMA AddsKeepsShape ==
    ASSUME Ready, NEW parent \in Clusters, NEW x, NEW entry, Adds(parent, x, entry), SelfNamed
    PROVE  SelfNamed' /\ (Dense => Dense')
<1> DEFINE t == disk[parent].table
<1>1. /\ disk[parent].kind = "dir" /\ t \in Tables
      /\ disk'[parent].kind = "dir" /\ disk'[parent].table = [t EXCEPT ![x] = entry]
    BY ReadyFacts, Kinds DEF Adds, Replaces
<1>2. /\ x \in Slots /\ x # 0 /\ disk'[parent].table[x] = entry
      /\ \A i \in Slots \ {x} : disk'[parent].table[i] = t[i]
    BY <1>1 DEF Adds, Tables
<1>3. ASSUME NEW f \in Clusters, disk'[f].kind = "dir", f # parent
      PROVE  \/ disk[f].kind = "dir" /\ disk'[f] = disk[f]
             \/ disk'[f].table[0].cluster = f /\ \A i \in Slots : disk'[f].table[i].used <=> i = 0
    <2>1. CASE disk[f].kind = "dir"
        BY <1>3, <2>1 DEF Adds, Replaces
    <2>2. CASE disk[f].kind # "dir"
        <3>1. PICK name \in AllNames : disk'[f] = Dir(NewTable(name, f))
            BY <1>3, <2>2 DEF Adds
        <3> QED
            BY <3>1, Kinds, NewTableShape
    <2> QED
        BY <2>1, <2>2
<1>4. SelfNamed'
    <2> SUFFICES ASSUME NEW f \in Clusters, disk'[f].kind = "dir"
                 PROVE  disk'[f].table[0].cluster = f
        BY DEF SelfNamed
    <2>1. CASE f = parent
        BY <1>1, <1>2, <2>1, Numbers DEF SelfNamed
    <2> QED
        BY <1>3, <2>1 DEF SelfNamed
<1>5. ASSUME Dense PROVE Dense'
    <2> SUFFICES ASSUME NEW f \in Clusters, disk'[f].kind = "dir", NEW i \in Slots, NEW j \in Slots,
                        i < j, disk'[f].table[j].used
                 PROVE  disk'[f].table[i].used
        BY DEF Dense
    <2>1. CASE f = parent
        <3>1. CASE j = x
            BY <1>2, <2>1, <3>1, Numbers DEF Adds
        <3>2. CASE j # x
            <4>1. t[j].used
                BY <1>2, <2>1, <3>2
            <4>2. t[i].used
                BY <1>1, <1>5, <4>1 DEF Dense
            <4> QED
                BY <1>2, <2>1, <4>2 DEF Adds
        <3> QED
            BY <3>1, <3>2
    <2>2. CASE f # parent
        <3>1. CASE disk[f].kind = "dir" /\ disk'[f] = disk[f]
            BY <1>5, <3>1 DEF Dense
        <3>2. CASE \A k \in Slots : disk'[f].table[k].used <=> k = 0
            <4>1. j = 0 /\ i \in Nat
                BY <3>2, Numbers
            <4> QED
                BY <4>1
        <3> QED
            BY <1>3, <2>2, <3>1, <3>2
    <2> QED
        BY <2>1, <2>2
<1> QED
    BY <1>4, <1>5

LEMMA AddsKeepsListings ==
    ASSUME Ready, NEW parent \in Clusters, NEW x, NEW entry, Adds(parent, x, entry)
    PROVE  /\ \A s \in ListingsOn(disk) :
                 /\ s \in ListingsOn(disk') /\ EntryOn(disk', s) = EntryOn(disk, s)
                 /\ ~EntryOn(disk, s).dir =>
                       disk'[EntryOn(disk, s).cluster] = disk[EntryOn(disk, s).cluster]
           /\ <<parent, x>> \in ListingsOn(disk') /\ EntryOn(disk', <<parent, x>>) = entry
<1>1. disk[parent].kind = "dir" /\ disk[parent].table \in Tables
    BY ReadyFacts DEF Adds, Replaces
<1>2. <<parent, x>> \notin ListingsOn(disk)
    BY DEF Adds, ListingsOn
<1>3. ASSUME NEW s \in ListingsOn(disk)
      PROVE  /\ s \in ListingsOn(disk') /\ EntryOn(disk', s) = EntryOn(disk, s)
             /\ ~EntryOn(disk, s).dir =>
                   disk'[EntryOn(disk, s).cluster] = disk[EntryOn(disk, s).cluster]
    <2>1. disk'[s[1]].kind = "dir"
        BY DEF Adds, ListingsOn
    <2>2. s # <<parent, x>>
        BY <1>2
    <2>3. Replaces(disk, disk', parent, x, entry)
        BY DEF Adds
    <2>4. disk[parent].table \in Tables
        BY <1>1
    <2>5. s \in ListingsOn(disk') /\ EntryOn(disk', s) = EntryOn(disk, s)
        BY <2>1, <2>2, <2>3, <2>4, KeptListing
    <2> QED
        BY <2>2, <2>3, <2>5 DEF Replaces
<1>4. <<parent, x>> \in ListingsOn(disk') /\ EntryOn(disk', <<parent, x>>) = entry
    BY <1>1, NewListing DEF Adds
<1> QED
    BY <1>3, <1>4

(* The writes add an entry; finding room and given a name they are guilty  *)
(* of nothing.                                                             *)
LEMMA NamedWriteRegular ==
    ASSUME Regular, RoomFound', NEW parent, NEW name \in Names, NEW found, NEW needed,
           Provoke(WriteMishaps(parent, name, found, needed))
    PROVE  Regular'
<1>1. name # NoName
    BY NamesTyped
<1>2. mishaps' = mishaps \cup WriteMishaps(parent, name, found, needed)
    BY DEF Provoke
<1>3. "noSlot" \notin mishaps' /\ "noCluster" \notin mishaps'
    BY DEF RoomFound
<1> QED
    BY <1>1, <1>2, <1>3 DEF WriteMishaps, Regular

LEMMA MakeDirectoryAdds ==
    ASSUME Ready, Regular, RoomFound', NEW parent \in Clusters, NEW name \in Names,
           MakeDirectory(parent, name)
    PROVE  /\ Regular' /\ TablesTidy'
           /\ \E x, entry : Adds(parent, x, entry)
<1>0. name \in AllNames
    BY NamesTyped
<1>1. Regular'
    BY NamedWriteRegular DEF MakeDirectory
<1>2. TablesTidy'
    BY <1>0, <1>1, MakeDirectoryTidy
<1>3. PICK x \in Slots \ {0}, c \in Usable :
          /\ \A i \in Slots : i < x => disk[parent].table[i].used
          /\ ~disk[parent].table[x].used /\ disk[c] = Blank /\ c # parent
          /\ Replaces(disk, disk', parent, x, DirEntry(name, c))
          /\ disk'[c] = Dir(NewTable(name, c))
          /\ \A f \in Clusters \ {c} : disk'[f].kind = "dir" <=> disk[f].kind = "dir"
    BY <1>0, <1>1, MakeDirectoryEffect
<1>4. DirEntry(name, c).used
    BY DEF DirEntry
<1>5. \A f \in Clusters : disk[f].kind = "dir" => disk'[f].kind = "dir"
    BY <1>3, Kinds
<1>6. \A f \in Clusters : disk'[f].kind = "dir" /\ disk[f].kind # "dir" =>
          \E n \in AllNames : disk'[f] = Dir(NewTable(n, f))
    BY <1>0, <1>3
<1>7. Adds(parent, x, DirEntry(name, c))
    BY <1>3, <1>4, <1>5, <1>6 DEF Adds
<1> QED
    BY <1>1, <1>2, <1>7

LEMMA StoreFileAdds ==
    ASSUME Ready, Regular, RoomFound', NEW parent \in Clusters, NEW name \in Names,
           NEW ext \in AllExts, NEW p \in Payloads, StoreFile(parent, name, ext, p)
    PROVE  /\ Regular' /\ TablesTidy'
           /\ \E x, c : Adds(parent, x, FileEntry(name, ext, p, c)) /\ disk'[c].payload = p
<1>0. name \in AllNames
    BY NamesTyped
<1>1. Regular'
    BY NamedWriteRegular DEF StoreFile, StoreFileIn
<1>2. TablesTidy'
    BY <1>0, <1>1, StoreFileTidy
<1>3. PICK x \in Slots \ {0}, c \in Usable :
          /\ \A i \in Slots : i < x => disk[parent].table[i].used
          /\ ~disk[parent].table[x].used
          /\ Replaces(disk, disk', parent, x, FileEntry(name, ext, p, c))
          /\ disk'[c].payload = p
          /\ \A f \in Clusters : disk'[f].kind = "dir" <=> disk[f].kind = "dir"
    BY <1>0, <1>1, StoreFileEffect
<1>4. FileEntry(name, ext, p, c).used
    BY DEF FileEntry
<1>7. Adds(parent, x, FileEntry(name, ext, p, c))
    BY <1>3, <1>4 DEF Adds
<1> QED
    BY <1>1, <1>2, <1>3, <1>7

-----------------------------------------------------------------------------
(* The path.                                                               *)

(* Each folder of p is listed in the one before, and none comes twice.     *)
RealPath(d, p) ==
    /\ p[1] = ROOT_CLUSTER_NUMBER
    /\ \A i \in 1 .. Len(p) - 1 :
          \E s \in ListingsOn(d) : s[1] = p[i] /\ EntryOn(d, s).dir /\ EntryOn(d, s).cluster = p[i + 1]
    /\ \A i, j \in 1 .. Len(p) : p[i] = p[j] => i = j

LEMMA RealPathIsReal ==
    ASSUME RealPath(disk, path)
    PROVE  PathIsReal
BY DEF RealPath, PathIsReal, Listings, EntryAt

LEMMA PathFoldersOn ==
    ASSUME NEW map, NEW d, d[ROOT_CLUSTER_NUMBER].kind = "dir", EntriesOwn(map, d),
           NEW p \in Seq(Clusters), Len(p) >= 1, RealPath(d, p)
    PROVE  \A i \in 1 .. Len(p) : p[i] \in Clusters /\ d[p[i]].kind = "dir"
<1> SUFFICES ASSUME NEW i \in 1 .. Len(p) PROVE d[p[i]].kind = "dir"
    OBVIOUS
<1>1. CASE i = 1
    BY <1>1 DEF RealPath
<1>2. CASE i # 1
    <2>1. PICK k \in 1 .. Len(p) - 1 : k + 1 = i
        <3>1. i - 1 \in 1 .. Len(p) - 1 /\ (i - 1) + 1 = i
            BY <1>2
        <3> QED
            BY <3>1
    <2>2. PICK s \in ListingsOn(d) : EntryOn(d, s).dir /\ EntryOn(d, s).cluster = p[k + 1]
        BY DEF RealPath
    <2> QED
        BY <2>1, <2>2 DEF EntriesOwn
<1> QED
    BY <1>1, <1>2

LEMMA PathFolders ==
    ASSUME Ready, NEW p \in Seq(Clusters), Len(p) >= 1, RealPath(disk, p)
    PROVE  \A i \in 1 .. Len(p) : p[i] \in Clusters /\ disk[p[i]].kind = "dir"
BY PathFoldersOn, ReadyFacts DEF WellLinked, Reserved

(* What the last folder of a path lists is not on the path.                *)
LEMMA PathEntry ==
    ASSUME Ready, NEW p \in Seq(Clusters), Len(p) >= 1, RealPath(disk, p),
           NEW s \in ListingsOn(disk), s[1] = p[Len(p)]
    PROVE  \A i \in 1 .. Len(p) : EntryOn(disk, s).cluster # p[i]
<1> SUFFICES ASSUME NEW i \in 1 .. Len(p), EntryOn(disk, s).cluster = p[i] PROVE FALSE
    OBVIOUS
<1>1. EntryOn(disk, s).cluster \in Usable
    BY ListingTarget
<1>2. i # 1
    BY <1>1, Numbers DEF RealPath
<1>3. i - 1 \in 1 .. Len(p) - 1 /\ (i - 1) + 1 = i
    BY <1>2
<1>4. PICK r \in ListingsOn(disk) : r[1] = p[i - 1] /\ EntryOn(disk, r).cluster = p[i]
    BY <1>3 DEF RealPath
<1>5. r = s
    BY <1>4, ReadyFacts DEF WellLinked, EntriesOwn
<1>6. p[i - 1] = p[Len(p)] /\ i - 1 \in 1 .. Len(p) /\ Len(p) \in 1 .. Len(p)
    BY <1>3, <1>4, <1>5
<1> QED
    BY <1>3, <1>6 DEF RealPath

LEMMA PathStays ==
    ASSUME NEW d, NEW e, NEW p, RealPath(d, p),
           \A i \in 1 .. Len(p) - 1, s \in ListingsOn(d) : s[1] = p[i] =>
              s \in ListingsOn(e) /\ EntryOn(e, s) = EntryOn(d, s)
    PROVE  RealPath(e, p)
<1>1. ASSUME NEW i \in 1 .. Len(p) - 1
      PROVE  \E s \in ListingsOn(e) : s[1] = p[i] /\ EntryOn(e, s).dir /\ EntryOn(e, s).cluster = p[i + 1]
    <2>1. PICK s \in ListingsOn(d) :
              s[1] = p[i] /\ EntryOn(d, s).dir /\ EntryOn(d, s).cluster = p[i + 1]
        BY DEF RealPath
    <2>2. s \in ListingsOn(e) /\ EntryOn(e, s) = EntryOn(d, s)
        BY <2>1
    <2> QED
        BY <2>1, <2>2
<1> QED
    BY <1>1 DEF RealPath

LEMMA PathPrefix ==
    ASSUME NEW d, NEW p \in Seq(Clusters), RealPath(d, p), NEW n \in 1 .. Len(p)
    PROVE  RealPath(d, SubSeq(p, 1, n))
<1> DEFINE q == SubSeq(p, 1, n)
<1>1. Len(q) = n /\ \A i \in 1 .. n : q[i] = p[i]
    OBVIOUS
<1> HIDE DEF q
<1>2. \A i \in 1 .. n - 1 : i \in 1 .. Len(p) - 1 /\ q[i] = p[i] /\ q[i + 1] = p[i + 1]
    BY <1>1
<1>3. q[1] = ROOT_CLUSTER_NUMBER
    BY <1>1 DEF RealPath
<1>5. ASSUME NEW i \in 1 .. Len(q) - 1
      PROVE  \E s \in ListingsOn(d) : s[1] = q[i] /\ EntryOn(d, s).dir /\ EntryOn(d, s).cluster = q[i + 1]
    <2>1. i \in 1 .. Len(p) - 1 /\ q[i] = p[i] /\ q[i + 1] = p[i + 1]
        BY <1>1, <1>2
    <2> QED
        BY <2>1 DEF RealPath
<1>6. \A i, j \in 1 .. Len(q) : q[i] = q[j] => i = j
    BY <1>1 DEF RealPath
<1>4. RealPath(d, q)
    BY <1>3, <1>5, <1>6 DEF RealPath
<1> QED
    BY <1>4 DEF q

LEMMA PathExtended ==
    ASSUME Ready, NEW p \in Seq(Clusters), Len(p) >= 1, RealPath(disk, p),
           NEW s \in ListingsOn(disk), s[1] = p[Len(p)], EntryOn(disk, s).dir
    PROVE  RealPath(disk, Append(p, EntryOn(disk, s).cluster))
<1> DEFINE c == EntryOn(disk, s).cluster
           q == Append(p, c)
<1>1. \A i \in 1 .. Len(p) : c # p[i]
    BY PathEntry
<1>2. c \in Clusters
    BY ListingTarget
<1> HIDE DEF c
<1>3. Len(q) = Len(p) + 1 /\ q[Len(p) + 1] = c /\ \A i \in 1 .. Len(p) : q[i] = p[i]
    BY <1>2
<1> HIDE DEF q
<1>4. q[1] = ROOT_CLUSTER_NUMBER
    BY <1>3 DEF RealPath
<1>5. ASSUME NEW i \in 1 .. Len(q) - 1
      PROVE  \E r \in ListingsOn(disk) :
                r[1] = q[i] /\ EntryOn(disk, r).dir /\ EntryOn(disk, r).cluster = q[i + 1]
    <2>1. CASE i = Len(p)
        BY <1>3, <2>1 DEF c
    <2>2. CASE i # Len(p)
        <3>1. i \in 1 .. Len(p) - 1 /\ q[i] = p[i] /\ q[i + 1] = p[i + 1]
            BY <1>3, <2>2
        <3> QED
            BY <3>1 DEF RealPath
    <2> QED
        BY <2>1, <2>2
<1>6. ASSUME NEW i \in 1 .. Len(q), NEW j \in 1 .. Len(q), q[i] = q[j]
      PROVE  i = j
    <2>1. CASE i \in 1 .. Len(p) /\ j \in 1 .. Len(p)
        BY <1>3, <1>6, <2>1 DEF RealPath
    <2>2. CASE i = Len(p) + 1 \/ j = Len(p) + 1
        BY <1>1, <1>3, <1>6, <2>2
    <2> QED
        BY <1>3, <2>1, <2>2
<1>7. RealPath(disk, q)
    BY <1>4, <1>5, <1>6 DEF RealPath
<1> QED
    BY <1>7 DEF c, q

-----------------------------------------------------------------------------
(* delete in the current folder.                                           *)

(* The shell runs and knows where it is.                                   *)
AtHome ==
    /\ Ready /\ Regular /\ SelfNamed
    /\ path \in Seq(Clusters) /\ Len(path) >= 1
    /\ RealPath(disk, path)
    /\ cwd = path[Len(path)]
    /\ holes \in BOOLEAN

LEMMA HomeFolder ==
    ASSUME AtHome
    PROVE  /\ cwd \in Clusters /\ disk[cwd].kind = "dir" /\ IsDirectory(cwd)
           /\ Table(cwd) = disk[cwd].table /\ Table(cwd) \in Tables /\ Tidy(Table(cwd))
           /\ Len(path) \in 1 .. Len(path)
<1>1. Len(path) \in 1 .. Len(path)
    BY DEF AtHome
<1>2. cwd \in Clusters /\ disk[cwd].kind = "dir"
    BY <1>1, PathFolders DEF AtHome
<1> QED
    BY <1>1, <1>2, ReadyFacts DEF AtHome

(* A slot a name leads to is in use, and its cluster is not on the path.   *)
LEMMA FoundInHome ==
    ASSUME AtHome, NEW name \in Names, NEW ext, NEW i \in Slots, i # 0,
           Table(cwd)[i].name = name
    PROVE  /\ Table(cwd)[i].used
           /\ <<cwd, i>> \in ListingsOn(disk) /\ EntryOn(disk, <<cwd, i>>) = Table(cwd)[i]
           /\ \A j \in 1 .. Len(path) : Table(cwd)[i].cluster # path[j]
           /\ Table(cwd)[i].cluster # cwd
<1>1. Table(cwd)[i].used
    <2>1. EmptyEntry.name = NoName
        BY DEF EmptyEntry
    <2> QED
        BY <2>1, HomeFolder, NamesTyped DEF Tidy
<1>2. <<cwd, i>> \in ListingsOn(disk) /\ EntryOn(disk, <<cwd, i>>) = Table(cwd)[i]
    BY <1>1, HomeFolder, FoundListing DEF AtHome, Ready
<1>3. \A j \in 1 .. Len(path) : Table(cwd)[i].cluster # path[j]
    <2>1. <<cwd, i>>[1] = path[Len(path)]
        BY DEF AtHome
    <2> QED
        BY <1>2, <2>1, PathEntry DEF AtHome
<1> QED
    BY <1>1, <1>2, <1>3, HomeFolder DEF AtHome

LEMMA DeleteOutcome ==
    ASSUME AtHome, NEW name \in Names, NEW ext \in AllExts, Delete(name, ext)
    PROVE  /\ Regular'
           /\ \/ /\ TargetSlot(Table(cwd), name, ext, FALSE) = 0
                 /\ disk' = disk /\ mishaps' = mishaps /\ holes' = holes
              \/ \E x \in Slots \ {0} :
                    /\ RemovesAsFile(cwd, name, ext, x)
                    /\ ~holes' => ~holes /\ \A i \in Slots : i > x => ~disk[cwd].table[i].used
<1> DEFINE x == TargetSlot(Table(cwd), name, ext, FALSE)
           entry == Table(cwd)[x]
<1>0. name \in AllNames /\ cwd \in Clusters
    BY NamesTyped, HomeFolder
<1>1. CASE DeleteNotFound(cwd, name, ext, FALSE)
    <2>1. x = 0 /\ disk' = disk /\ mishaps' = mishaps
        BY <1>1 DEF DeleteNotFound
    <2>2. holes' = holes
        BY <2>1 DEF Delete, AtHome
    <2> QED
        BY <2>1, <2>2 DEF Regular, AtHome
<1>2. CASE DeleteFile(cwd, name, ext) \/ DeleteFileAstray(cwd, name, ext)
    <2>1. x # 0
        BY <1>2 DEF DeleteFile, DeleteFileAstray
    <2>2. x \in Slots /\ entry.name = name /\ entry.ext = ext
        <3> DEFINE t == Table(cwd)
        <3> HIDE DEF t
        <3>1. x = First(Matching(t, name, ext))
            BY DEF t, TargetSlot
        <3>2. First(Matching(t, name, ext)) # 0
            BY <2>1, <3>1
        <3>3. LET i == First(Matching(t, name, ext))
              IN  i \in Slots \ {0} /\ t[i].name = name /\ t[i].ext = ext
            BY <3>2, FoundSlot
        <3> QED
            BY <3>1, <3>3 DEF t
    <2>3. entry.used /\ entry.cluster # cwd
        BY <2>1, <2>2, FoundInHome
    <2>4. Regular'
        BY <1>2, <2>3 DEF DeleteFile, DeleteFileAstray, Provoke, DeleteMishaps, Regular, AtHome
    <2>5. PICK y \in Slots \ {0} : RemovesAsFile(cwd, name, ext, y)
        BY <1>0, <1>2, <2>3, <2>4, DeleteEffect DEF AtHome
    <2>6. y = x
        BY <2>5 DEF RemovesAsFile
    <2>7. ~holes' => ~holes /\ \A i \in Slots : i > x => ~disk[cwd].table[i].used
        BY <2>1, HomeFolder DEF Delete
    <2> HIDE DEF x
    <2> QED
        BY <2>4, <2>5, <2>6, <2>7
<1> QED
    BY <1>1, <1>2 DEF Delete

LEMMA RemovesKeepsListings ==
    ASSUME AtHome, NEW name, NEW ext, NEW x \in Slots \ {0}, RemovesAsFile(cwd, name, ext, x)
    PROVE  /\ \A s \in ListingsOn(disk) :
                 s # <<cwd, x>> /\ s[1] # disk[cwd].table[x].cluster =>
                    s \in ListingsOn(disk') /\ EntryOn(disk', s) = EntryOn(disk, s)
           /\ \A s \in ListingsOn(disk) : s # <<cwd, x>> /\ ~EntryOn(disk, s).dir =>
                 disk'[EntryOn(disk, s).cluster] = disk[EntryOn(disk, s).cluster]
           /\ \A s \in ListingsOn(disk') :
                 s # <<cwd, x>> /\ s \in ListingsOn(disk) /\ EntryOn(disk', s) = EntryOn(disk, s)
<1> DEFINE c == disk[cwd].table[x].cluster
           t == disk[cwd].table
<1>1. /\ Replaces(disk, disk', cwd, x, EmptyEntry)
      /\ \A f \in Clusters \ {c} : disk'[f].kind = "dir" <=> disk[f].kind = "dir"
      /\ disk'[c] = Blank
    BY DEF RemovesAsFile
<1>2. \A s \in ListingsOn(disk) : s # <<cwd, x>> /\ s[1] # c =>
         s \in ListingsOn(disk') /\ EntryOn(disk', s) = EntryOn(disk, s)
    <2> HIDE DEF c
    <2> QED
        BY <1>1, HomeFolder, OthersKept DEF AtHome
<1>3. \A s \in ListingsOn(disk) : s # <<cwd, x>> /\ ~EntryOn(disk, s).dir =>
         disk'[EntryOn(disk, s).cluster] = disk[EntryOn(disk, s).cluster]
    BY <1>1 DEF Replaces
<1>4. ASSUME NEW s \in ListingsOn(disk')
      PROVE  s # <<cwd, x>> /\ s \in ListingsOn(disk) /\ EntryOn(disk', s) = EntryOn(disk, s)
    <2>1. /\ s \in Clusters \X (Slots \ {0}) /\ s = <<s[1], s[2]>>
          /\ disk'[s[1]].kind = "dir" /\ disk'[s[1]].table[s[2]].used
        BY DEF ListingsOn
    <2>2. disk[s[1]].kind = "dir"
        BY <1>1, <2>1, Kinds
    <2>3. CASE s[1] = cwd
        <3>1. disk'[cwd].table = [t EXCEPT ![x] = EmptyEntry] /\ t \in Tables
            BY <1>1, HomeFolder, Kinds DEF Replaces
        <3>2. s[2] # x
            BY <2>1, <2>3, <3>1 DEF Tables, EmptyEntry
        <3>3. disk'[cwd].table[s[2]] = t[s[2]]
            BY <2>1, <3>1, <3>2 DEF Tables
        <3> QED
            BY <2>1, <2>2, <2>3, <3>2, <3>3 DEF ListingsOn, EntryOn
    <2>4. CASE s[1] # cwd
        <3>1. disk'[s[1]] = disk[s[1]]
            BY <1>1, <2>1, <2>2, <2>4 DEF Replaces
        <3> QED
            BY <2>1, <2>2, <2>4, <3>1 DEF ListingsOn, EntryOn
    <2> QED
        BY <2>3, <2>4
<1> QED
    BY <1>2, <1>3, <1>4

LEMMA RemovesKeepsShape ==
    ASSUME AtHome, NEW name \in Names, NEW ext, NEW x \in Slots \ {0},
           RemovesAsFile(cwd, name, ext, x)
    PROVE  /\ SelfNamed' /\ TablesTidy'
           /\ Dense /\ (\A i \in Slots : i > x => ~disk[cwd].table[i].used) => Dense'
           /\ RealPath(disk', path)
<1> DEFINE c == disk[cwd].table[x].cluster
           t == disk[cwd].table
           u == [t EXCEPT ![x] = EmptyEntry]
<1>1. /\ Replaces(disk, disk', cwd, x, EmptyEntry) /\ t[x].name = name
      /\ \A f \in Clusters \ {c} : disk'[f].kind = "dir" <=> disk[f].kind = "dir"
      /\ disk'[c] = Blank
    BY DEF RemovesAsFile
<1>2. TablesTidy'
    BY HomeFolder, RemovesAsFileTidy DEF AtHome
<1>3. /\ disk'[cwd].table = u /\ t \in Tables /\ disk[cwd].kind = "dir"
      /\ u[x] = EmptyEntry /\ \A i \in Slots \ {x} : u[i] = t[i]
      /\ ~EmptyEntry.used
    BY <1>1, HomeFolder, Kinds DEF Replaces, Tables, EmptyEntry
<1>4. \A f \in Clusters \ {cwd} : disk'[f].kind = "dir" => disk[f].kind = "dir" /\ disk'[f] = disk[f]
    BY <1>1, Kinds DEF Replaces
<1> HIDE DEF u
<1>5. SelfNamed'
    <2> SUFFICES ASSUME NEW f \in Clusters, disk'[f].kind = "dir"
                 PROVE  disk'[f].table[0].cluster = f
        BY DEF SelfNamed
    <2>1. CASE f = cwd
        BY <1>3, <2>1, Numbers DEF SelfNamed, AtHome
    <2> QED
        BY <1>4, <2>1 DEF SelfNamed, AtHome
<1>6. ASSUME Dense, \A i \in Slots : i > x => ~t[i].used
      PROVE  Dense'
    <2> SUFFICES ASSUME NEW f \in Clusters, disk'[f].kind = "dir", NEW i \in Slots, NEW j \in Slots,
                        i < j, disk'[f].table[j].used
                 PROVE  disk'[f].table[i].used
        BY DEF Dense
    <2>1. CASE f = cwd
        <3>1. j # x /\ t[j].used
            BY <1>3, <2>1
        <3>2. i \in Nat /\ j \in Nat /\ x \in Nat
            BY Numbers
        <3>3. i # x
            BY <1>6, <3>1, <3>2
        <3>4. t[i].used
            BY <1>3, <1>6, <2>1, <3>1 DEF Dense
        <3> QED
            BY <1>3, <2>1, <3>3, <3>4
    <2>2. CASE f # cwd
        BY <1>4, <1>6, <2>2 DEF Dense
    <2> QED
        BY <2>1, <2>2
<1>7. \A j \in 1 .. Len(path) : c # path[j]
    BY <1>1, HomeFolder, FoundInHome
<1>8. ASSUME NEW i \in 1 .. Len(path) - 1, NEW s \in ListingsOn(disk), s[1] = path[i]
      PROVE  s \in ListingsOn(disk') /\ EntryOn(disk', s) = EntryOn(disk, s)
    <2>1. i \in 1 .. Len(path) /\ i # Len(path) /\ Len(path) \in 1 .. Len(path)
        BY DEF AtHome
    <2>2. s[1] # c
        BY <1>7, <1>8, <2>1
    <2>3. path[i] # path[Len(path)]
        BY <2>1 DEF AtHome, RealPath
    <2>4. s # <<cwd, x>>
        BY <1>8, <2>3 DEF AtHome
    <2> HIDE DEF c
    <2> QED
        BY <2>2, <2>4, RemovesKeepsListings DEF c
<1>9. RealPath(disk', path)
    BY <1>8, PathStays DEF AtHome
<1> QED
    BY <1>2, <1>5, <1>6, <1>9
-----------------------------------------------------------------------------
(* The invariant.                                                          *)

TablesKept == RoomFound => Regular /\ TablesTidy /\ SelfNamed /\ (~holes => Dense)

PowerAgrees == pc = "off" <=> status = "off"

(* The scan for the name typed has not written anything yet.               *)
Scanning == pc \in {"found", "read", "destRead", "looked"}

Situated ==
    RoomFound /\ Running =>
        /\ RealPath(disk, path)
        /\ cwd = path[Len(path)]
        /\ pc = "prompt" \/ Scanning => current_dir = TableOn(disk, path[Len(path)])

InCall == pc \notin {"off", "inserter", "inserted", "prompt"}

CallKept ==
    InCall => /\ call.target \in Typed /\ call.dest \in Landing(call.target)
              /\ Scanning => call.at \in MatchesFrom(current_dir, 0, call.file)

ShellInv ==
    /\ ShellTypeOK /\ DiskInvariant /\ PowerAgrees
    /\ TablesKept /\ Situated /\ CallKept

LEMMA RegularIsSound == Regular => Sound
BY DEF Regular, Sound

LEMMA ShellReady ==
    ASSUME ShellInv, RoomFound, pc # "off"
    PROVE  Ready /\ Regular /\ SelfNamed /\ (~holes => Dense) /\ status = "on"
<1>1. Regular /\ TablesTidy /\ SelfNamed /\ (~holes => Dense) /\ status # "off" /\ TypeOK
    BY DEF ShellInv, TablesKept, PowerAgrees, ShellTypeOK
<1>2. Formatted
    BY <1>1, RegularIsSound DEF ShellInv, DiskInvariant, Virgin
<1>3. status = "on"
    BY <1>1, <1>2 DEF TypeOK, Formatted, Bootable
<1> QED
    BY <1>1, <1>2, <1>3 DEF Ready

LEMMA ShellAtHome ==
    ASSUME ShellInv, RoomFound, Running
    PROVE  AtHome
<1>1. Ready /\ Regular /\ SelfNamed
    BY ShellReady DEF Running
<1>2. path \in Seq(Clusters) /\ Len(path) >= 1 /\ holes \in BOOLEAN
    BY DepthAssumption DEF ShellInv, ShellTypeOK
<1> QED
    BY <1>1, <1>2 DEF AtHome, ShellInv, Situated

LEMMA CommandRuns == InCall => Running /\ pc # "off"
BY DEF InCall, Running

(* The names the commands hand to the driver are never empty.              *)
LEMMA CommandNames ==
    ASSUME ShellInv, InCall
    PROVE  /\ call \in Calls /\ call.dest[1] \in Names /\ call.dest[2] \in AllExts
           /\ call.into \in Clusters /\ call.at \in Slots
           /\ Scanning => /\ source.name \in Names /\ source.ext \in AllExts
                          /\ <<source.name, source.ext>> = call.file
<1>1. call \in Calls /\ call.dest[1] \in Names /\ call.at \in Slots
    BY NamesTyped DEF ShellInv, ShellTypeOK, CallKept, InCall, Calls
<1>2. call.dest[2] \in AllExts /\ call.into \in Clusters
    BY <1>1 DEF Calls, FullNames
<1>3. ASSUME Scanning
      PROVE  /\ source.name \in Names /\ source.ext \in AllExts
             /\ <<source.name, source.ext>> = call.file
    <2>1. call.at \in Seen(current_dir) /\ FullName(current_dir[call.at]) = call.file
        BY <1>3 DEF ShellInv, CallKept, MatchesFrom
    <2>2. call.at \in 0 .. call.at
        <3>1. call.at \in Nat
            BY <1>1, Numbers
        <3> QED
            BY <3>1
    <2>3. current_dir[call.at].name # NoName
        BY <2>1, <2>2 DEF Seen
    <2>4. current_dir[call.at].name \in AllNames /\ current_dir[call.at].ext \in AllExts
        BY <1>1, CopyTyped DEF ShellInv
    <2> QED
        BY <2>1, <2>3, <2>4 DEF source, FullName, AllNames
<1> QED
    BY <1>1, <1>2, <1>3

LEMMA RoomStays ==
    ASSUME ShellTypeOK, [ShellNext]_allVars, RoomFound'
    PROVE  RoomFound
BY ShellSteps, MishapsStay DEF RoomFound

-----------------------------------------------------------------------------
(* What the calls of the shell do to the tables.                           *)

(* All that is listed stays, and the tables keep their shape.              *)
Grows ==
    /\ Regular' /\ TablesTidy' /\ SelfNamed' /\ (Dense => Dense')
    /\ \A s \in ListingsOn(disk) :
          /\ s \in ListingsOn(disk') /\ EntryOn(disk', s) = EntryOn(disk, s)
          /\ ~EntryOn(disk, s).dir =>
                disk'[EntryOn(disk, s).cluster] = disk[EntryOn(disk, s).cluster]

LEMMA SameDiskGrows ==
    ASSUME Ready, Regular', SelfNamed, disk' = disk
    PROVE  Grows
BY DEF Grows, Ready, TablesTidy, SelfNamed, Dense

LEMMA GrowsKeepsPath ==
    ASSUME Grows, NEW p, RealPath(disk, p)
    PROVE  RealPath(disk', p)
BY PathStays DEF Grows

LEMMA ReadGrows ==
    ASSUME Ready, Regular, SelfNamed, NEW parent \in Clusters, NEW name \in Names, NEW ext, NEW buffer,
           Read(parent, name, ext, buffer)
    PROVE  Grows /\ disk' = disk
<1>1. PICK idx \in Slots :
          /\ idx = First(Matching(Table(parent), name, ext))
          /\ Provoke(IF idx # 0 /\ ~Table(parent)[idx].used THEN {"emptySlot"} ELSE {})
          /\ UNCHANGED disk
    BY DEF Read
<1>2. idx # 0 => Table(parent)[idx].used
    <2> SUFFICES ASSUME idx # 0 PROVE Table(parent)[idx].used
        OBVIOUS
    <2> DEFINE t == Table(parent)
    <2>1. t[idx].name = name
        <3> HIDE DEF t
        <3> QED
            BY <1>1, FoundSlot DEF t
    <2> QED
        BY <2>1, SlotFacts, NamesTyped
<1>3. Regular'
    BY <1>1, <1>2 DEF Provoke, Regular
<1> QED
    BY <1>1, <1>3, SameDiskGrows

LEMMA AddsGrows ==
    ASSUME Ready, SelfNamed, Regular', TablesTidy',
           NEW parent \in Clusters, NEW x, NEW entry, Adds(parent, x, entry)
    PROVE  Grows
BY AddsKeepsShape, AddsKeepsListings DEF Grows

LEMMA MakeDirectoryGrows ==
    ASSUME Ready, Regular, SelfNamed, RoomFound', NEW parent \in Clusters, NEW name \in Names,
           \/ WriteInvalidParent(parent)
           \/ MakeDirectoryExists(parent, name)
           \/ MakeDirectory(parent, name)
    PROVE  Grows
<1>1. CASE WriteInvalidParent(parent) \/ MakeDirectoryExists(parent, name)
    <2>1. disk' = disk /\ Regular'
        BY <1>1 DEF WriteInvalidParent, MakeDirectoryExists, Regular
    <2> QED
        BY <2>1, SameDiskGrows
<1>2. CASE MakeDirectory(parent, name)
    BY <1>2, MakeDirectoryAdds, AddsGrows
<1> QED
    BY <1>1, <1>2

LEMMA StoreFileGrows ==
    ASSUME Ready, Regular, SelfNamed, RoomFound', NEW parent \in Clusters, NEW name \in Names,
           NEW ext \in AllExts, NEW p \in Payloads, StoreFile(parent, name, ext, p)
    PROVE  Grows
BY StoreFileAdds, AddsGrows

LEMMA WriteBufferGrows ==
    ASSUME Ready, Regular, SelfNamed, RoomFound', call \in Calls, call.dest[1] \in Names,
           NEW folder \in Clusters, WriteBuffer(folder)
    PROVE  Grows
<1>1. CASE WriteInvalidParent(folder)
    <2>1. disk' = disk /\ Regular'
        BY <1>1 DEF WriteInvalidParent, Regular
    <2> QED
        BY <2>1, SameDiskGrows
<1>2. CASE /\ call.cl \in Payloads /\ call.dest[1] \in AllNames /\ call.dest[2] \in AllExts
           /\ StoreFile(folder, call.dest[1], call.dest[2], call.cl)
    BY <1>2, StoreFileGrows
<1> QED
    BY <1>1, <1>2, WriteBufferCalls
-----------------------------------------------------------------------------
(* Steps of the shell keep the tables and the path.                        *)

(* What a step has to leave behind, whatever the shell does next.          *)
Keeps ==
    /\ Regular' /\ TablesTidy' /\ SelfNamed'
    /\ (~holes => Dense) => (~holes' => Dense')
    /\ \A p : p = path => RealPath(disk', p)

LEMMA GrowsIsKeeping ==
    ASSUME Grows, RealPath(disk, path), holes' = holes
    PROVE  Keeps
BY GrowsKeepsPath DEF Grows, Keeps

LEMMA DeleteKeeps ==
    ASSUME AtHome, NEW name \in Names, NEW ext \in AllExts, Delete(name, ext)
    PROVE  Keeps
<1>1. CASE disk' = disk /\ mishaps' = mishaps /\ holes' = holes
    BY <1>1, SameDiskGrows, GrowsIsKeeping DEF AtHome, Regular
<1>2. ASSUME NEW x \in Slots \ {0}, RemovesAsFile(cwd, name, ext, x),
             ~holes' => ~holes /\ \A i \in Slots : i > x => ~disk[cwd].table[i].used
      PROVE  Keeps
    <2>1. Regular'
        BY DeleteOutcome
    <2>2. /\ SelfNamed' /\ TablesTidy' /\ RealPath(disk', path)
          /\ Dense /\ (\A i \in Slots : i > x => ~disk[cwd].table[i].used) => Dense'
        BY <1>2, RemovesKeepsShape
    <2> QED
        BY <1>2, <2>1, <2>2 DEF Keeps
<1> QED
    BY <1>1, <1>2, DeleteOutcome

LEMMA CommandKeeps ==
    ASSUME ShellInv, RoomFound, RoomFound', CommandStep
    PROVE  Keeps
<1>1. InCall /\ AtHome /\ holes \in BOOLEAN /\ cwd \in Clusters
    BY CommandPlace, ShellAtHome, CommandRuns, CopyTyped DEF ShellInv, ShellTypeOK, InCall
<1>2. Ready /\ Regular /\ SelfNamed /\ RealPath(disk, path)
    BY <1>1 DEF AtHome
<1>3. /\ call \in Calls /\ call.dest[1] \in Names /\ call.dest[2] \in AllExts
      /\ call.into \in Clusters
      /\ Scanning => source.name \in Names /\ source.ext \in AllExts
    BY <1>1, CommandNames
<1>4. CASE ReadSource
    <2>1. Grows /\ holes' = holes
        BY <1>1, <1>2, <1>3, <1>4, ReadGrows DEF ReadSource, Scanning
    <2> QED
        BY <1>2, <2>1, GrowsIsKeeping
<1>5. CASE TryNext \/ DoneReading
    <2>1. disk' = disk /\ Regular' /\ holes' = holes
        BY <1>2, <1>5 DEF TryNext, DoneReading, vars, Regular
    <2> QED
        BY <1>2, <2>1, SameDiskGrows, GrowsIsKeeping
<1>6. CASE CopyWrite \/ MoveWrite
    <2>1. Grows /\ holes' = holes
        BY <1>1, <1>2, <1>3, <1>6, WriteBufferGrows DEF CopyWrite, MoveWrite
    <2> QED
        BY <1>2, <2>1, GrowsIsKeeping
<1>7. CASE RemoveDelete \/ MoveDeleteSource \/ MoveOutOfFolder
    <2>1. Delete(source.name, source.ext) /\ Scanning
        BY <1>7 DEF RemoveDelete, MoveDeleteSource, MoveOutOfFolder, Succeeded, Scanning
    <2> QED
        BY <1>1, <1>3, <2>1, DeleteKeeps
<1>8. CASE MoveReadTarget
    <2>1. Grows /\ holes' = holes
        BY <1>1, <1>2, <1>3, <1>8, ReadGrows DEF MoveReadTarget
    <2> QED
        BY <1>2, <2>1, GrowsIsKeeping
<1>9. CASE MoveDeleteTarget
    <2>1. CASE Delete(call.dest[1], call.dest[2])
        BY <1>1, <1>3, <2>1, DeleteKeeps
    <2>2. CASE UNCHANGED <<vars, holes>>
        <3>1. disk' = disk /\ Regular' /\ holes' = holes
            BY <1>2, <2>2 DEF vars, Regular
        <3> QED
            BY <1>2, <3>1, SameDiskGrows, GrowsIsKeeping
    <2> QED
        BY <1>9, <2>1, <2>2 DEF MoveDeleteTarget
<1>10. CASE MoveLookForFolder
    <2>1. disk' = disk /\ Regular' /\ holes' = holes
        BY <1>2, <1>10 DEF MoveLookForFolder, ReadDirectory, Regular
    <2> QED
        BY <1>2, <2>1, SameDiskGrows, GrowsIsKeeping
<1> QED
    BY <1>4, <1>5, <1>6, <1>7, <1>8, <1>9, <1>10 DEF CommandStep

(* Where a command ends, the shell knows its place.                        *)
LEMMA PromptSituates ==
    ASSUME TypeOK', Formatted', SelfNamed',
           NEW newPath \in Seq(Clusters), Len(newPath) \in 1 .. MaxDepth,
           RealPath(disk', newPath), Prompt(newPath)
    PROVE  Situated' /\ ~InCall'
<1>1. /\ pc' = "prompt" /\ path' = newPath /\ Len(newPath) >= 1 /\ Len(newPath) \in 1 .. Len(newPath)
      /\ current_dir' = TableOn(disk', newPath[Len(newPath)])
    BY DepthAssumption DEF Prompt, Refreshed, Last
<1>2. disk'[ROOT_CLUSTER_NUMBER].kind = "dir" /\ EntriesOwn(SavedMap', disk')
    BY DEF Formatted, Bootable, WellLinked
<1>3. /\ newPath[Len(newPath)] \in Clusters
      /\ disk'[newPath[Len(newPath)]].kind = "dir"
    BY <1>1, <1>2, PathFoldersOn
<1>4. current_dir'[0].cluster = newPath[Len(newPath)]
    BY <1>1, <1>3 DEF TableOn, SelfNamed
<1> QED
    BY <1>1, <1>4 DEF Situated, cwd, InCall

LEMMA CommandSituates ==
    ASSUME ShellInv, RoomFound, CommandStep, Keeps, TypeOK', Formatted'
    PROVE  Situated'
<1>1. path \in Seq(Clusters) /\ Len(path) \in 1 .. MaxDepth
    BY PathTyped DEF ShellInv
<1>2. RealPath(disk', path) /\ SelfNamed'
    BY DEF Keeps
<1>3. CASE Prompt(path)
    BY <1>1, <1>2, <1>3, PromptSituates
<1>4. CASE path' = path /\ current_dir' = current_dir /\ pc' # "prompt"
           /\ (Scanning' => Scanning /\ disk' = disk)
    <2>1. InCall
        BY CommandPlace DEF ShellInv, InCall
    <2>2. cwd = path[Len(path)] /\ (Scanning => current_dir = TableOn(disk, path[Len(path)]))
        BY <2>1, CommandRuns DEF ShellInv, Situated
    <2>3. cwd' = path'[Len(path')]
        BY <1>4, <2>2 DEF cwd
    <2> QED
        BY <1>2, <1>4, <2>2, <2>3 DEF Situated
<1>5. \/ Prompt(path)
      \/ path' = path /\ current_dir' = current_dir /\ pc' # "prompt"
           /\ (Scanning' => Scanning /\ disk' = disk)
    <2>1. CASE ReadSource \/ MoveReadTarget
        BY <2>1 DEF ReadSource, MoveReadTarget, Succeeded, Read, Scanning
    <2>2. CASE TryNext
        BY <2>2 DEF TryNext, vars, Scanning
    <2>3. CASE DoneReading \/ CopyWrite \/ RemoveDelete \/ MoveWrite
        BY <2>3 DEF DoneReading, CopyWrite, RemoveDelete, MoveWrite
    <2>4. CASE MoveDeleteSource \/ MoveDeleteTarget \/ MoveOutOfFolder
        BY <2>4 DEF MoveDeleteSource, MoveDeleteTarget, MoveOutOfFolder, Scanning
    <2>5. CASE MoveLookForFolder
        BY <2>5 DEF MoveLookForFolder, ReadDirectory, Scanning
    <2> QED
        BY <2>1, <2>2, <2>3, <2>4, <2>5 DEF CommandStep
<1> QED
    BY <1>3, <1>4, <1>5
LEMMA CommandCalls ==
    ASSUME ShellInv, CommandStep, ShellTypeOK'
    PROVE  CallKept'
<1> SUFFICES ASSUME InCall'
             PROVE  /\ call'.dest = call.dest /\ call'.target = call.target
                    /\ Scanning' => /\ call'.at \in MatchesFrom(current_dir, 0, call.file)
                                    /\ current_dir' = current_dir /\ call'.file = call.file
    <2>1. InCall
        BY CommandPlace DEF ShellInv, InCall
    <2> QED
        BY <2>1 DEF ShellInv, CallKept
<1>1. InCall /\ call \in Calls
    BY CommandPlace DEF ShellInv, InCall
<1>2. Scanning => call.at \in MatchesFrom(current_dir, 0, call.file)
    BY <1>1 DEF ShellInv, CallKept
<1>3. ~Prompt(path)
    BY DEF Prompt, InCall
<1>4. CASE ReadSource \/ MoveReadTarget
    BY <1>1, <1>2, <1>4 DEF ReadSource, MoveReadTarget, Succeeded, Scanning, Calls
<1>5. CASE TryNext
    <2> DEFINE rest == MatchesFrom(current_dir, call.at + 1, call.file)
    <2>1. /\ rest # {} /\ call' = [call EXCEPT !.at = First(rest)] /\ UNCHANGED current_dir
        BY <1>3, <1>5 DEF TryNext
    <2>2. First(rest) \in rest
        BY <2>1, MatchesInSlots
    <2>3. First(rest) \in MatchesFrom(current_dir, 0, call.file)
        <3>1. \A i \in Slots : i >= 0
            BY Numbers
        <3> QED
            BY <2>2, <3>1 DEF MatchesFrom, Seen
    <2> HIDE DEF rest
    <2> QED
        BY <1>1, <2>1, <2>3 DEF Calls
<1>6. CASE DoneReading \/ CopyWrite \/ RemoveDelete \/ MoveWrite
    BY <1>3, <1>6 DEF DoneReading, CopyWrite, RemoveDelete, MoveWrite
<1>7. CASE MoveDeleteSource \/ MoveDeleteTarget \/ MoveOutOfFolder
    BY <1>7 DEF MoveDeleteSource, MoveDeleteTarget, MoveOutOfFolder, Scanning
<1>8. CASE MoveLookForFolder
    BY <1>1, <1>2, <1>3, <1>8 DEF MoveLookForFolder, Scanning, Calls
<1> QED
    BY <1>4, <1>5, <1>6, <1>7, <1>8 DEF CommandStep

LEMMA BeginKeeps ==
    ASSUME ShellInv, NEW c \in Commands, NEW from \in Typed, NEW to \in Typed, Begin(c, from, to)
    PROVE  TablesKept' /\ Situated' /\ CallKept'
<1>1. PICK dest \in Landing(to) :
          call' = [cmd |-> c, file |-> from, target |-> to,
                   at |-> First(MatchesFrom(current_dir, 0, from)),
                   dest |-> dest, into |-> cwd, cl |-> NoPayload]
    BY DEF Begin
<1>2. /\ pc' = "found" /\ pc = "prompt" /\ UNCHANGED <<vars, path, current_dir, holes>>
      /\ First(MatchesFrom(current_dir, 0, from)) \in MatchesFrom(current_dir, 0, from)
    BY MatchesInSlots DEF Begin
<1>3. TablesKept'
    BY <1>2 DEF ShellInv, TablesKept, vars, RoomFound, Regular, TablesTidy, SelfNamed, Dense
<1>4. Situated'
    BY <1>2 DEF ShellInv, Situated, vars, RoomFound, Running, Scanning, cwd
<1>5. CallKept'
    BY <1>1, <1>2, NamesTyped DEF CallKept
<1> QED
    BY <1>3, <1>4, <1>5

(* The entry cd finds and the folder its first entry names.                *)
LEMMA EnteredFolder ==
    ASSUME AtHome, NEW name \in Names, ReadDirectory(cwd, name, NoExt), ret' = 0
    PROVE  \E s \in ListingsOn(disk) :
              /\ s[1] = path[Len(path)] /\ EntryOn(disk, s).dir
              /\ EntryOn(disk, s).cluster = FolderFound(name, NoExt)
<1> DEFINE t == Table(cwd)
           S == Matching(t, name, NoExt) \ {0}
           i == First(S)
<1>1. S # {} /\ t[i].dir
    <2>1. ReadDirectoryCode(t, name, NoExt) = 0
        BY DEF ReadDirectory, Return
    <2> QED
        BY <2>1 DEF ReadDirectoryCode
<1>2. i \in S
    <2>1. S \in SUBSET Nat
        BY Numbers DEF Matching, Named
    <2> QED
        BY <1>1, <2>1, FirstIn
<1>3. i \in Slots /\ i # 0 /\ t[i].name = name
    BY <1>2 DEF Matching, Named
<1> HIDE DEF i
<1>4. /\ <<cwd, i>> \in ListingsOn(disk) /\ EntryOn(disk, <<cwd, i>>) = t[i]
    BY <1>3, FoundInHome
<1>5. disk[t[i].cluster].kind = "dir" /\ t[i].cluster \in Clusters
    BY <1>1, <1>4, ListingTarget DEF AtHome
<1>6. Table(t[i].cluster)[0].cluster = t[i].cluster
    BY <1>5 DEF AtHome, SelfNamed, Table
<1>7. FolderFound(name, NoExt) = t[i].cluster
    BY <1>6 DEF FolderFound, i
<1>8. <<cwd, i>>[1] = path[Len(path)]
    BY DEF AtHome
<1> QED
    BY <1>1, <1>4, <1>7, <1>8

LEMMA PromptKeeps ==
    ASSUME ShellInv, RoomFound, RoomFound', TypeOK', (Regular' => Formatted'),
           \/ ChangeToParent \/ ChangeToRoot
           \/ \E name \in TypedNames : ChangeDirectory(name) \/ MakeDirectoryCommand(name)
    PROVE  TablesKept' /\ Situated' /\ ~InCall'
<1>1. pc = "prompt" /\ AtHome /\ holes' = holes /\ cwd \in Clusters
    BY ShellAtHome, CopyTyped
       DEF ShellInv, Running, ChangeToParent, ChangeToRoot, ChangeDirectory, MakeDirectoryCommand
<1>2. /\ Ready /\ Regular /\ SelfNamed /\ RealPath(disk, path)
      /\ path \in Seq(Clusters) /\ Len(path) \in 1 .. Len(path) /\ Len(path) >= 1
    BY <1>1, HomeFolder DEF AtHome
<1>3. /\ Grows
      /\ \E newPath \in Seq(Clusters) :
            Len(newPath) \in 1 .. MaxDepth /\ Prompt(newPath) /\ RealPath(disk, newPath)
    <2>1. CASE ChangeToParent \/ ChangeToRoot
        <3>1. disk' = disk /\ Regular'
            BY <1>2, <2>1 DEF ChangeToParent, ChangeToRoot, vars, Regular
        <3>2. RealPath(disk, Parent(path))
            <4>1. CASE Len(path) > 1
                <5>1. Len(path) - 1 \in 1 .. Len(path)
                    BY <1>2, <4>1
                <5>2. RealPath(disk, SubSeq(path, 1, Len(path) - 1))
                    BY <1>2, <5>1, PathPrefix
                <5> QED
                    BY <4>1, <5>2, PathTyped DEF ShellInv
            <4>2. CASE ~(Len(path) > 1)
                BY <1>2, <4>2, PathTyped DEF ShellInv
            <4> QED
                BY <4>1, <4>2
        <3>3. RealPath(disk, <<Head(path)>>)
            BY <1>2, PathTyped DEF ShellInv, RealPath
        <3> QED
            BY <1>2, <2>1, <3>1, <3>2, <3>3, SameDiskGrows, PathTyped
               DEF ShellInv, ChangeToParent, ChangeToRoot
    <2>2. ASSUME NEW name \in TypedNames, ChangeDirectory(name)
          PROVE  /\ Grows
                 /\ \E newPath \in Seq(Clusters) :
                       Len(newPath) \in 1 .. MaxDepth /\ Prompt(newPath) /\ RealPath(disk, newPath)
        <3> DEFINE c == FolderFound(name, NoExt)
        <3>1. disk' = disk /\ Regular' /\ ReadDirectory(cwd, name, NoExt) /\ name \in Names
            BY <1>2, <2>2, NamesTyped DEF ChangeDirectory, ReadDirectory, Regular
        <3>2. Grows
            BY <1>2, <3>1, SameDiskGrows
        <3>3. CASE ret' = 0
            <4>1. PICK s \in ListingsOn(disk) :
                      /\ s[1] = path[Len(path)] /\ EntryOn(disk, s).dir
                      /\ EntryOn(disk, s).cluster = c
                BY <1>1, <3>1, <3>3, EnteredFolder
            <4>2. RealPath(disk, Append(path, c))
                BY <1>2, <4>1, PathExtended
            <4>3. Prompt(Append(path, c)) /\ Len(path) < MaxDepth
                BY <2>2, <3>3 DEF ChangeDirectory, Entered
            <4>4. c \in Clusters /\ MaxDepth \in Nat
                BY FolderFoundTyped, DepthAssumption DEF ShellInv
            <4> HIDE DEF c
            <4>5. /\ Append(path, c) \in Seq(Clusters) /\ Len(Append(path, c)) = Len(path) + 1
                  /\ Len(path) \in Nat
                BY <1>2, <4>4
            <4>6. Len(Append(path, c)) \in 1 .. MaxDepth
                BY <4>3, <4>4, <4>5
            <4> QED
                BY <3>2, <4>2, <4>3, <4>5, <4>6
        <3>4. CASE ret' # 0
            BY <1>2, <2>2, <3>2, <3>4, PathTyped DEF ShellInv, ChangeDirectory, Entered
        <3> QED
            BY <3>3, <3>4
    <2>3. ASSUME NEW name \in TypedNames, MakeDirectoryCommand(name)
          PROVE  /\ Grows
                 /\ \E newPath \in Seq(Clusters) :
                       Len(newPath) \in 1 .. MaxDepth /\ Prompt(newPath) /\ RealPath(disk, newPath)
        <3>1. Grows
            BY <1>1, <1>2, <2>3, NamesTyped, MakeDirectoryGrows DEF MakeDirectoryCommand
        <3>2. Prompt(path) /\ RealPath(disk, path)
            BY <1>2, <2>3 DEF MakeDirectoryCommand
        <3> QED
            BY <3>1, <3>2, PathTyped DEF ShellInv
    <2> QED
        BY <2>1, <2>2, <2>3
<1>4. PICK newPath \in Seq(Clusters) :
          Len(newPath) \in 1 .. MaxDepth /\ Prompt(newPath) /\ RealPath(disk', newPath)
    BY <1>3, GrowsKeepsPath
<1>5. Formatted' /\ SelfNamed'
    BY <1>3 DEF Grows
<1>6. Situated' /\ ~InCall'
    BY <1>4, <1>5, PromptSituates
<1>7. TablesKept'
    BY <1>1, <1>3 DEF Grows, TablesKept, ShellInv
<1> QED
    BY <1>6, <1>7
LEMMA SameDiskKeepsTables ==
    ASSUME TablesKept, disk' = disk, mishaps' = mishaps, holes' = holes
    PROVE  TablesKept'
BY DEF TablesKept, RoomFound, Regular, TablesTidy, SelfNamed, Dense

(* create_fat32 makes one table, the root's.                               *)
LEMMA FormatKeepsTables ==
    ASSUME ShellInv, FormatAtBoot, holes' = holes
    PROVE  TablesKept'
<1> SUFFICES ASSUME RoomFound'
             PROVE  Regular' /\ TablesTidy' /\ SelfNamed' /\ Dense'
    BY DEF TablesKept
<1>1. mishaps' = mishaps /\ RoomFound
    BY DEF FormatAtBoot, RoomFound
<1>2. Regular /\ Regular'
    BY <1>1 DEF ShellInv, TablesKept, Regular
<1>3. disk = [c \in Clusters |-> Blank]
    BY <1>2, RegularIsSound DEF ShellInv, DiskInvariant, FormatAtBoot, Virgin, Formatted, Bootable
<1>4. RootName \in AllNames /\ RootName # NoName
    BY NameAssumption DEF AllNames
<1> DEFINE t == NewTable(RootName, ROOT_CLUSTER_NUMBER)
<1>5. /\ Tidy(t) /\ t[0].cluster = ROOT_CLUSTER_NUMBER /\ \A i \in Slots : t[i].used <=> i = 0
    BY <1>4, NewTableTidy, NewTableShape, Numbers
<1> HIDE DEF t
<1>6. \A c \in Clusters : disk'[c].kind = "dir" => c = ROOT_CLUSTER_NUMBER /\ disk'[c].table = t
    BY <1>3, Kinds, Numbers DEF FormatAtBoot, t
<1>7. TablesTidy' /\ SelfNamed'
    BY <1>5, <1>6 DEF TablesTidy, SelfNamed
<1>8. Dense'
    <2>1. \A i, j \in Slots : i < j /\ t[j].used => t[i].used
        BY <1>5, Numbers
    <2> QED
        BY <1>6, <2>1 DEF Dense
<1> QED
    BY <1>2, <1>7, <1>8

LEMMA PowerStepKeeps ==
    ASSUME ShellInv, TypeOK', RoomFound' => (status' # "off" /\ Regular' => Formatted'),
           StartInserter \/ EndInserter \/ StartShell \/ Cut
    PROVE  PowerAgrees' /\ TablesKept' /\ Situated' /\ ~InCall'
<1>1. CASE StartInserter
    <2>1. CASE FormatAtBoot
        BY <1>1, <2>1, FormatKeepsTables
           DEF StartInserter, FormatAtBoot, PowerAgrees, Situated, Running, InCall
    <2>2. CASE LoadAtBoot
        BY <1>1, <2>2, SameDiskKeepsTables
           DEF StartInserter, LoadAtBoot, ShellInv, PowerAgrees, Situated, Running, InCall
    <2> QED
        BY <1>1, <2>1, <2>2 DEF StartInserter
<1>2. CASE EndInserter \/ Cut
    BY <1>2, SameDiskKeepsTables
       DEF EndInserter, Cut, PowerOff, ShellInv, PowerAgrees, Situated, Running, InCall
<1>3. CASE StartShell
    <2>1. /\ disk' = disk /\ mishaps' = mishaps /\ holes' = holes /\ status' = "on"
          /\ pc' = "prompt" /\ path' = <<ROOT_CLUSTER_NUMBER>>
          /\ current_dir' = TableOn(disk, ROOT_CLUSTER_NUMBER)
        BY <1>3 DEF StartShell, LoadAtBoot
    <2>2. TablesKept' /\ PowerAgrees' /\ ~InCall'
        BY <2>1, SameDiskKeepsTables DEF ShellInv, PowerAgrees, InCall
    <2>3. ASSUME RoomFound'
          PROVE  RealPath(disk', path') /\ cwd' = path'[Len(path')]
        <3>1. Formatted' /\ SelfNamed'
            BY <2>1, <2>2, <2>3 DEF TablesKept
        <3>2. disk[ROOT_CLUSTER_NUMBER].kind = "dir" /\ disk[ROOT_CLUSTER_NUMBER].table[0].cluster = ROOT_CLUSTER_NUMBER
            BY <2>1, <3>1, Numbers DEF Formatted, Bootable, SelfNamed
        <3>3. cwd' = ROOT_CLUSTER_NUMBER
            BY <2>1, <3>2 DEF cwd, TableOn
        <3>4. path'[1] = ROOT_CLUSTER_NUMBER /\ Len(path') = 1
            BY <2>1
        <3> QED
            BY <3>3, <3>4 DEF RealPath
    <2>4. Situated'
        BY <2>1, <2>3 DEF Situated
    <2> QED
        BY <2>2, <2>4
<1> QED
    BY <1>1, <1>2, <1>3

LEMMA InsertKeeps ==
    ASSUME ShellInv, NEW parent \in Clusters, NEW name \in TypedNames, Insert(parent, name)
    PROVE  TablesKept' /\ Situated' /\ ~InCall' /\ pc' # "off"
<1>1. pc = "inserter" /\ pc' = "inserted" /\ holes' = holes
    BY DEF Insert
<1>2. ASSUME RoomFound' PROVE Regular' /\ TablesTidy' /\ SelfNamed' /\ (~holes' => Dense')
    <2>1. RoomFound
        <3>1. mishaps \subseteq mishaps'
            BY InsertCalls, CallsRemember
        <3> QED
            BY <1>2, <3>1 DEF RoomFound
    <2>2. Ready /\ Regular /\ SelfNamed /\ (~holes => Dense)
        BY <1>1, <2>1, ShellReady
    <2>3. name \in Names /\ NoExt \in AllExts
        BY NamesTyped
    <2>4. CASE \/ WriteInvalidParent(parent)
               \/ MakeDirectoryExists(parent, name)
               \/ MakeDirectory(parent, name)
        BY <1>1, <1>2, <2>2, <2>3, <2>4, MakeDirectoryGrows DEF Grows
    <2>5. CASE \E p \in Payloads : StoreFile(parent, name, NoExt, p)
        BY <1>1, <1>2, <2>2, <2>3, <2>5, StoreFileGrows DEF Grows
    <2> QED
        BY <2>4, <2>5 DEF Insert
<1> QED
    BY <1>1, <1>2 DEF TablesKept, Situated, Running, InCall

LEMMA ShellInvKept ==
    ASSUME ShellInv, [ShellNext]_allVars
    PROVE  ShellInv'
<1>1. ShellTypeOK' /\ TypeOK /\ TypeOK'
    BY ShellTypesKept DEF ShellInv, ShellTypeOK
<1>2. DiskInvariant' /\ [Next]_vars
    BY <1>1, ShellSteps, InvariantKept DEF ShellInv
<1>3. status' # "off" /\ Regular' => Formatted'
    <2>1. Regular' => Sound'
        BY DEF Regular, Sound
    <2> QED
        BY <1>2, <2>1 DEF DiskInvariant, Virgin
<1>4. RoomFound' => RoomFound
    BY RoomStays DEF ShellInv
<1>5. ~InCall' => CallKept'
    BY DEF CallKept
<1>6. CASE UNCHANGED allVars
    <2>1. UNCHANGED <<vars, shellVars>>
        BY <1>6 DEF allVars
    <2> QED
        BY <1>1, <1>2, <2>1 DEF vars, shellVars, ShellInv, PowerAgrees, TablesKept, Situated,
           CallKept, RoomFound, Regular, TablesTidy, SelfNamed, Dense, Running, Scanning, InCall, cwd
<1>7. CASE StartInserter \/ EndInserter \/ StartShell \/ Cut
    BY <1>1, <1>2, <1>3, <1>5, <1>7, PowerStepKeeps DEF ShellInv
<1>8. CASE \E parent \in Clusters, name \in TypedNames : Insert(parent, name)
    <2>1. status' # "off"
        BY <1>8, InsertCalls, StaysOn
    <2> QED
        BY <1>1, <1>2, <1>5, <1>8, <2>1, InsertKeeps DEF ShellInv, PowerAgrees
<1>9. CASE \/ ChangeToParent \/ ChangeToRoot
           \/ \E name \in TypedNames : ChangeDirectory(name) \/ MakeDirectoryCommand(name)
    <2>1. pc = "prompt" /\ pc' = "prompt"
        BY <1>9 DEF ChangeToParent, ChangeToRoot, ChangeDirectory, MakeDirectoryCommand, Prompt
    <2>2. status' # "off"
        <3>1. CASE ChangeToParent \/ ChangeToRoot
            BY <3>1 DEF ChangeToParent, ChangeToRoot, vars
        <3>2. CASE \E name \in TypedNames : ChangeDirectory(name) \/ MakeDirectoryCommand(name)
            BY <3>2, PromptCalls, StaysOn DEF ShellInv
        <3> QED
            BY <1>9, <3>1, <3>2
    <2>3. PowerAgrees'
        BY <2>1, <2>2 DEF PowerAgrees
    <2>4. ASSUME RoomFound' PROVE TablesKept' /\ Situated'
        BY <1>1, <1>3, <1>4, <1>9, <2>2, <2>4, PromptKeeps
    <2>5. TablesKept' /\ Situated'
        BY <2>4 DEF TablesKept, Situated
    <2>6. ~InCall'
        BY <2>1 DEF InCall
    <2> QED
        BY <1>1, <1>2, <1>5, <2>3, <2>5, <2>6 DEF ShellInv
<1>10. CASE \E c \in Commands, from \in Typed, to \in Typed : Begin(c, from, to)
    <2>1. pc' # "off" /\ status' # "off"
        BY <1>10 DEF Begin, vars
    <2> QED
        BY <1>1, <1>2, <1>10, <2>1, BeginKeeps DEF ShellInv, PowerAgrees
<1>11. CASE CommandStep
    <2>1. pc # "off" /\ pc' # "off"
        BY <1>11, CommandPlace
           DEF ShellInv, CommandStep, ReadSource, TryNext, DoneReading, Prompt, CopyWrite,
               RemoveDelete, MoveReadTarget, MoveDeleteSource, MoveDeleteTarget,
               MoveLookForFolder, MoveOutOfFolder, MoveWrite
    <2>2. status' # "off"
        <3>1. status # "off"
            BY <2>1 DEF ShellInv, PowerAgrees
        <3> QED
            BY <1>11, <3>1, CommandSteps, StaysOn DEF ShellInv, vars
    <2>3. ASSUME RoomFound' PROVE TablesKept' /\ Situated'
        <3>1. Keeps
            BY <1>4, <1>11, <2>3, CommandKeeps
        <3>2. Formatted'
            BY <1>3, <2>2, <3>1 DEF Keeps
        <3>3. Situated'
            BY <1>1, <1>4, <1>11, <2>3, <3>1, <3>2, CommandSituates
        <3>4. ~holes => Dense
            BY <1>4, <2>3 DEF ShellInv, TablesKept
        <3> QED
            BY <3>1, <3>3, <3>4 DEF Keeps, TablesKept
    <2>4. TablesKept' /\ Situated'
        BY <2>3 DEF TablesKept, Situated
    <2>5. CallKept'
        BY <1>1, <1>11, CommandCalls
    <2> QED
        BY <1>1, <1>2, <2>1, <2>2, <2>4, <2>5 DEF ShellInv, PowerAgrees
<1> QED
    BY <1>6, <1>7, <1>8, <1>9, <1>10, <1>11 DEF ShellNext
-----------------------------------------------------------------------------

LEMMA ShellStartsRight == ShellInit => ShellInv
<1> SUFFICES ASSUME ShellInit PROVE ShellInv
    OBVIOUS
<1>1. ShellTypeOK
    BY ShellTypesStart
<1>2. DiskInvariant /\ PowerAgrees
    BY DEF ShellInit, Init, DiskInvariant, Virgin, PowerAgrees
<1>3. \A c \in Clusters : disk[c].kind # "dir"
    BY Kinds DEF ShellInit, Init
<1>4. TablesKept
    BY <1>3 DEF ShellInit, Init, TablesKept, Regular, TablesTidy, SelfNamed, Dense
<1>5. Situated /\ CallKept
    BY DEF ShellInit, Situated, Running, CallKept, InCall
<1> QED
    BY <1>1, <1>2, <1>4, <1>5 DEF ShellInv

LEMMA ShellInvariant == ShellSpec => []ShellInv
<1>1. ShellInit => ShellInv
    BY ShellStartsRight
<1>2. ShellInv /\ [ShellNext]_allVars => ShellInv'
    BY ShellInvKept
<1> QED
    BY <1>1, <1>2, PTL DEF ShellSpec

(* cd keeps the path: each folder on it is listed in the one before, for   *)
(* no command of the shell removes a folder it stands in.                  *)
THEOREM PathStaysReal == ShellSpec => []PathIsReal
<1>1. ShellInv => PathIsReal
    BY RealPathIsReal DEF ShellInv, Situated, PathIsReal
<1> QED
    BY <1>1, ShellInvariant, PTL

(* printPath's refresh is enough: a command never works on an old copy of  *)
(* the current folder's table.                                             *)
THEOREM CopyStaysFresh == ShellSpec => []CopyIsFresh
<1>1. ASSUME ShellInv PROVE CopyIsFresh
    <2> SUFFICES ASSUME RoomFound, pc = "prompt"
                 PROVE  current_dir = TableOn(disk, Last(path)) /\ cwd = Last(path)
        BY DEF CopyIsFresh
    <2>1. Last(path) = path[Len(path)]
        BY DEF Last
    <2> QED
        BY <1>1, <2>1 DEF ShellInv, Situated, Running
<1> QED
    BY <1>1, ShellInvariant, PTL

(* The loops of ls, cat, cp, rm and mv, which stop at the first nameless   *)
(* entry, miss none until an entry in front of another is removed.         *)
THEOREM ScansSeeAll == ShellSpec => []EveryEntrySeen
<1>1. ASSUME ShellInv PROVE EveryEntrySeen
    <2> SUFFICES ASSUME RoomFound, ~holes, NEW s \in Listings, NEW j \in 0 .. s[2]
                 PROVE  s[2] \in Slots /\ disk[s[1]].table[j].name # NoName
        BY DEF EveryEntrySeen, Seen, Listings, ListingsOn
    <2>1. TablesTidy /\ Dense
        BY <1>1 DEF ShellInv, TablesKept
    <2>2. /\ s[1] \in Clusters /\ s[2] \in Slots
          /\ disk[s[1]].kind = "dir" /\ disk[s[1]].table[s[2]].used
        BY DEF Listings, ListingsOn
    <2>3. j \in Slots /\ (j = s[2] \/ j < s[2])
        BY <2>2, SlotCountAssumption DEF Slots
    <2>4. disk[s[1]].table[j].used
        BY <2>1, <2>2, <2>3 DEF Dense
    <2> QED
        BY <2>1, <2>2, <2>3, <2>4 DEF TablesTidy, Tidy
<1> QED
    BY <1>1, ShellInvariant, PTL
-----------------------------------------------------------------------------
(* The contents the disk lists: all of them, those under a name in a       *)
(* folder, and that of the first entry of the name.                        *)

ContentsOn(d, S) == {d[EntryOn(d, s).cluster].payload :
                        s \in {r \in ListingsOn(d) \cap S : d[EntryOn(d, r).cluster].kind = "data"}}

Everything(d)              == ContentsOn(d, ListingsOn(d))
NamedContents(d, f, name)  == ContentsOn(d, {f} \X Matching(TableOn(d, f), name[1], name[2]))
FirstPlace(d, f, name)     == <<f, First(Matching(TableOn(d, f), name[1], name[2]))>>
FirstContents(d, f, name)  == ContentsOn(d, {FirstPlace(d, f, name)})

(* The file s lists holds p.                                               *)
Holds(d, s, p) == /\ s \in ListingsOn(d) /\ d[EntryOn(d, s).cluster].kind = "data"
                  /\ d[EntryOn(d, s).cluster].payload = p

LEMMA ContentsHeld ==
    ASSUME NEW d, NEW S
    PROVE  \A p : p \in ContentsOn(d, S) <=> \E s \in S : Holds(d, s, p)
BY DEF ContentsOn, Holds

LEMMA ContentsAre ==
    /\ AllContents = Everything(disk) /\ AllContents' = Everything(disk')
    /\ \A f, name : /\ ContentsOf(f, name) = NamedContents(disk, f, name)
                    /\ FirstOf(f, name) = FirstContents(disk, f, name)
<1>1. \A S : PayloadsOf(S) = ContentsOn(disk, S)
    BY DEF PayloadsOf, ContentsOn, Listings, EntryAt
<1>2. \A f : Table(f) = TableOn(disk, f)
    BY DEF Table, TableOn
<1>3. AllContents = Everything(disk)
    BY <1>1 DEF AllContents, Everything, Listings
<1>4. AllContents' = Everything(disk')
    BY DEF AllContents, Everything, PayloadsOf, ContentsOn, Listings, EntryAt
<1> QED
    BY <1>1, <1>2, <1>3, <1>4 DEF ContentsOf, FirstOf, NamedContents, FirstContents, FirstPlace

LEMMA EverythingHeld ==
    ASSUME NEW d
    PROVE  \A p : p \in Everything(d) <=> \E s : Holds(d, s, p)
BY ContentsHeld DEF Everything, Holds

(* The file in a place is what a file's entry there leads to.              *)
LEMMA HeldByFile ==
    ASSUME Ready, NEW s \in ListingsOn(disk)
    PROVE  EntryOn(disk, s).dir <=> disk[EntryOn(disk, s).cluster].kind # "data"
BY ListingTarget

LEMMA GrowsKeepsContents ==
    ASSUME Ready, Grows
    PROVE  Everything(disk) \subseteq Everything(disk')
<1> SUFFICES ASSUME NEW p \in Everything(disk) PROVE \E s : Holds(disk', s, p)
    BY EverythingHeld
<1>1. PICK s : Holds(disk, s, p)
    BY EverythingHeld
<1>2. s \in ListingsOn(disk) /\ ~EntryOn(disk, s).dir
    BY <1>1, HeldByFile DEF Holds
<1> QED
    BY <1>1, <1>2 DEF Grows, Holds

(* What write stores is listed.                                            *)
LEMMA StoredIsListed ==
    ASSUME Ready, Regular, RoomFound', Formatted', NEW parent \in Clusters, NEW name \in Names,
           NEW ext \in AllExts, NEW p \in Payloads, StoreFile(parent, name, ext, p)
    PROVE  p \in Everything(disk')
<1>1. PICK x, c : Adds(parent, x, FileEntry(name, ext, p, c)) /\ disk'[c].payload = p
    BY StoreFileAdds
<1> DEFINE s == <<parent, x>>
<1>2. s \in ListingsOn(disk') /\ EntryOn(disk', s) = FileEntry(name, ext, p, c)
    BY <1>1, AddsKeepsListings
<1>3. FileEntry(name, ext, p, c).cluster = c /\ ~FileEntry(name, ext, p, c).dir
    BY DEF FileEntry
<1>4. disk'[c].kind = "data"
    BY <1>2, <1>3 DEF Formatted, Bootable, WellLinked, EntriesOwn
<1> QED
    BY <1>1, <1>2, <1>3, <1>4, EverythingHeld DEF Holds

(* delete takes the contents of the first entry of the name, no others.    *)
DeletesFirst(name, ext) ==
    /\ Everything(disk) \subseteq Everything(disk') \cup FirstContents(disk, cwd, <<name, ext>>)
    /\ \A n : NamedContents(disk', cwd, n) \subseteq NamedContents(disk, cwd, n)
    /\ \A f \in Clusters : disk[f].kind = "dir" => disk'[f].kind = "dir"

LEMMA RemovedContents ==
    ASSUME AtHome, NEW name, NEW ext, NEW x \in Slots \ {0},
           RemovesAsFile(cwd, name, ext, x), mishaps' = {}
    PROVE  DeletesFirst(name, ext)
<1> DEFINE t == disk[cwd].table
           s == <<cwd, x>>
<1>1. /\ t[x].used /\ ~t[x].dir /\ x = TargetSlot(Table(cwd), name, ext, FALSE)
      /\ disk'[t[x].cluster] = Blank
      /\ \A f \in Clusters : f # t[x].cluster => (disk'[f].kind = "dir" <=> disk[f].kind = "dir")
    BY DEF RemovesAsFile
<1>2. Ready /\ cwd \in Clusters /\ disk[cwd].kind = "dir" /\ Table(cwd) = t
    BY HomeFolder DEF AtHome
<1>3. s \in ListingsOn(disk) /\ EntryOn(disk, s) = t[x]
    BY <1>1, <1>2 DEF ListingsOn, EntryOn
<1>4. disk[t[x].cluster].kind = "data"
    BY <1>1, <1>2, <1>3, HeldByFile
<1>5. s = FirstPlace(disk, cwd, <<name, ext>>)
    BY <1>1, <1>2 DEF FirstPlace, TargetSlot, TableOn
<1>6. ASSUME NEW p \in Everything(disk)
      PROVE  p \in Everything(disk') \cup FirstContents(disk, cwd, <<name, ext>>)
    <2>1. PICK r : Holds(disk, r, p)
        BY EverythingHeld
    <2>2. CASE r = s
        BY <1>5, <2>1, <2>2, ContentsHeld DEF FirstContents
    <2>3. CASE r # s
        <3>1. r \in ListingsOn(disk) /\ ~EntryOn(disk, r).dir
            BY <1>2, <2>1, HeldByFile DEF Holds
        <3>2. r[1] # t[x].cluster
            BY <1>4, <3>1 DEF ListingsOn
        <3>3. /\ r \in ListingsOn(disk') /\ EntryOn(disk', r) = EntryOn(disk, r)
              /\ disk'[EntryOn(disk, r).cluster] = disk[EntryOn(disk, r).cluster]
            BY <2>3, <3>1, <3>2, RemovesKeepsListings
        <3>4. Holds(disk', r, p)
            BY <2>1, <3>3 DEF Holds
        <3> QED
            BY <3>4, EverythingHeld
    <2> QED
        BY <2>2, <2>3
<1>7. ASSUME NEW n, NEW p \in NamedContents(disk', cwd, n)
      PROVE  p \in NamedContents(disk, cwd, n)
    <2>1. PICK r \in {cwd} \X Matching(TableOn(disk', cwd), n[1], n[2]) : Holds(disk', r, p)
        BY ContentsHeld DEF NamedContents
    <2>2. /\ r \in ListingsOn(disk') /\ disk'[EntryOn(disk', r).cluster].kind = "data"
          /\ disk'[EntryOn(disk', r).cluster].payload = p
        BY <2>1 DEF Holds
    <2>3. r # s /\ r \in ListingsOn(disk) /\ EntryOn(disk', r) = EntryOn(disk, r)
        BY <2>2, RemovesKeepsListings
    <2>4. r[1] = cwd /\ r[2] \in Slots /\ disk'[cwd].kind = "dir" /\ r = <<cwd, r[2]>>
        BY <2>1, <2>2 DEF ListingsOn, Matching, Named
    <2>5. TableOn(disk', cwd)[r[2]] = TableOn(disk, cwd)[r[2]]
        BY <1>2, <2>3, <2>4 DEF EntryOn, TableOn
    <2>6. r \in {cwd} \X Matching(TableOn(disk, cwd), n[1], n[2])
        BY <2>1, <2>4, <2>5 DEF Matching, Named
    <2>7. ~EntryOn(disk, r).dir
        <3>1. SUFFICES ASSUME EntryOn(disk, r).dir PROVE FALSE
            OBVIOUS
        <3>2. EntryOn(disk, r).cluster \in Clusters /\ disk[EntryOn(disk, r).cluster].kind = "dir"
            BY <1>2, <2>3, <3>1, ListingTarget
        <3> QED
            BY <1>1, <2>2, <2>3, <3>2, Kinds
    <2>8. disk'[EntryOn(disk, r).cluster] = disk[EntryOn(disk, r).cluster]
        BY <2>3, <2>7, RemovesKeepsListings
    <2>9. Holds(disk, r, p)
        BY <2>2, <2>3, <2>8 DEF Holds
    <2> QED
        BY <2>6, <2>9, ContentsHeld DEF NamedContents
<1>8. \A f \in Clusters : disk[f].kind = "dir" => disk'[f].kind = "dir"
    BY <1>1, <1>4
<1> QED
    BY <1>6, <1>7, <1>8 DEF DeletesFirst

LEMMA DeletedContents ==
    ASSUME AtHome, NEW name \in Names, NEW ext \in AllExts, Delete(name, ext), mishaps' = {}
    PROVE  DeletesFirst(name, ext)
<1>1. CASE disk' = disk
    BY <1>1 DEF DeletesFirst
<1>2. CASE \E x \in Slots \ {0} : RemovesAsFile(cwd, name, ext, x)
    BY <1>2, RemovedContents
<1> QED
    BY <1>1, <1>2, DeleteOutcome
-----------------------------------------------------------------------------
(* What the shell remembers of the command it is in.                       *)

(* Does an entry of the folder bear the name?                              *)
Borne(d, f, name) == Matching(TableOn(d, f), name[1], name[2]) \ {0} # {}

(* Before its delete, a command has lost nothing; what it is about to      *)
(* delete is held in its buffer, at risk, or it may remove it.  Reading a  *)
(* file a second time answers what it answered the first time.             *)
Remembers ==
    /\ Scanning => contents \subseteq Everything(disk)
    /\ pc = "read" /\ ret = 0 =>
          /\ Holds(disk, FirstPlace(disk, cwd, call.file), call.cl)
          /\ EntryOn(disk, FirstPlace(disk, cwd, call.file)).size <= source.size
    /\ pc = "destRead" /\ call.dest = call.file => ret = 0
    /\ pc \in {"destRead", "looked"} =>
          FirstContents(disk, cwd, call.file) \subseteq atRisk \cup {call.cl}
    /\ pc \in {"destRead", "looked", "sourceGone", "movable"} => call.cmd = "mv"
    /\ pc \in {"found", "read"} /\ call.cmd = "rm" =>
          FirstContents(disk, cwd, call.file) \subseteq doomed
    /\ Scanning /\ call.cmd = "mv" =>
          /\ NamedContents(disk, cwd, call.dest) \subseteq
                 doomed \cup atRisk \cup FirstContents(disk, cwd, call.file)
          /\ call.dest # call.file /\ Borne(disk, cwd, call.dest) =>
                 FirstContents(disk, cwd, call.file) \subseteq atRisk
    /\ pc = "sourceGone" =>
          NamedContents(disk, cwd, call.dest) \subseteq doomed \cup atRisk \cup {call.cl}
    /\ InCall => call.into \in Clusters /\ disk[call.into].kind = "dir"

Held == IF pc \in {"sourceGone", "movable"} THEN {call.cl} ELSE {}

Memory ==
    mishaps = {} => Remembers /\ contents \subseteq Everything(disk) \cup doomed \cup atRisk \cup Held

LEMMA IdleMemory ==
    ASSUME ~InCall', mishaps' = {} => contents' \subseteq Everything(disk') \cup doomed' \cup atRisk'
    PROVE  Memory'
<1>1. ~Scanning' /\ pc' \notin {"found", "read", "destRead", "looked", "sourceGone", "movable"}
    BY DEF InCall, Scanning
<1> QED
    BY <1>1 DEF Memory, Remembers

LEMMA FirstHeld ==
    ASSUME NEW d, NEW f, NEW name, NEW p, Holds(d, FirstPlace(d, f, name), p)
    PROVE  FirstContents(d, f, name) = {p}
BY ContentsHeld DEF FirstContents, Holds

LEMMA NoneFound == mishaps = {} => RoomFound /\ Regular
BY DEF RoomFound, Regular

(* Power, the inserter and the prompt.                                     *)
LEMMA IdleStepRemembers ==
    ASSUME ShellInv, ShellInv', Memory, mishaps' = {} => mishaps = {},
           \/ StartInserter \/ EndInserter \/ StartShell \/ Cut
           \/ \E parent \in Clusters, name \in TypedNames : Insert(parent, name)
           \/ ChangeToParent \/ ChangeToRoot
           \/ \E name \in TypedNames : ChangeDirectory(name) \/ MakeDirectoryCommand(name)
    PROVE  Memory'
<1>1. ~InCall'
    BY DEF StartInserter, EndInserter, StartShell, Cut, Insert, ChangeToParent, ChangeToRoot,
           ChangeDirectory, MakeDirectoryCommand, Prompt, InCall
<1> SUFFICES ASSUME mishaps' = {}
             PROVE  contents' \subseteq Everything(disk') \cup doomed' \cup atRisk'
    BY <1>1, IdleMemory
<1>2. mishaps = {} /\ RoomFound /\ Regular /\ RoomFound' /\ Regular'
    BY NoneFound DEF RoomFound, Regular
<1>3. contents \subseteq Everything(disk) \cup doomed \cup atRisk \cup Held
    BY <1>2 DEF Memory
<1>4. ~InCall => contents \subseteq Everything(disk) \cup doomed \cup atRisk
    BY <1>3 DEF Held, InCall
<1>5. \A may, risk : Watch(may, risk) => contents' = Everything(disk)
    BY ContentsAre DEF Watch
<1>6. CASE StartInserter
    <2>1. CASE FormatAtBoot
        <3>1. disk = [c \in Clusters |-> Blank]
            BY <1>2, <2>1, RegularIsSound
               DEF ShellInv, DiskInvariant, FormatAtBoot, Virgin, Formatted, Bootable
        <3>2. ListingsOn(disk) = {}
            BY <3>1, Kinds DEF ListingsOn
        <3>3. Everything(disk) = {}
            BY <3>2 DEF Everything, ContentsOn
        <3> QED
            BY <1>5, <1>6, <3>3 DEF StartInserter
    <2>2. CASE LoadAtBoot
        BY <1>5, <1>6, <2>2 DEF StartInserter, LoadAtBoot
    <2> QED
        BY <1>6, <2>1, <2>2 DEF StartInserter
<1>7. CASE EndInserter
    BY <1>4, <1>7 DEF EndInserter, PowerOff, history, InCall
<1>8. CASE StartShell
    BY <1>5, <1>8 DEF StartShell, LoadAtBoot
<1>9. CASE Cut
    BY <1>3, <1>9 DEF Cut, PowerOff, Held
<1>10. CASE \E parent \in Clusters, name \in TypedNames : Insert(parent, name)
    <2>1. PICK parent \in Clusters, name \in TypedNames : Insert(parent, name)
        BY <1>10
    <2>2. Ready /\ SelfNamed
        BY <1>2, <2>1, ShellReady DEF Insert
    <2>3. name \in Names /\ NoExt \in AllExts
        BY NamesTyped
    <2>4. Grows
        BY <1>2, <2>1, <2>2, <2>3, MakeDirectoryGrows, StoreFileGrows DEF Insert
    <2>5. Everything(disk) \subseteq Everything(disk')
        BY <2>2, <2>4, GrowsKeepsContents
    <2> QED
        BY <1>4, <2>1, <2>5 DEF Insert, history, InCall
<1>11. CASE \/ ChangeToParent \/ ChangeToRoot
            \/ \E name \in TypedNames : ChangeDirectory(name) \/ MakeDirectoryCommand(name)
    <2>1. contents' = Everything(disk)
        BY <1>5, <1>11 DEF ChangeToParent, ChangeToRoot, ChangeDirectory, MakeDirectoryCommand
    <2>2. CASE disk' = disk
        BY <2>1, <2>2
    <2>3. ASSUME NEW name \in TypedNames, MakeDirectoryCommand(name)
          PROVE  Everything(disk) \subseteq Everything(disk')
        <3>1. Ready /\ SelfNamed /\ cwd \in Clusters
            BY <1>2, <2>3, ShellReady, CopyTyped DEF MakeDirectoryCommand, ShellInv
        <3>2. Grows
            BY <1>2, <2>3, <3>1, NamesTyped, MakeDirectoryGrows DEF MakeDirectoryCommand
        <3> QED
            BY <3>1, <3>2, GrowsKeepsContents
    <2>4. disk' = disk \/ \E name \in TypedNames : MakeDirectoryCommand(name)
        BY <1>11 DEF ChangeToParent, ChangeToRoot, ChangeDirectory, ReadDirectory, vars
    <2> QED
        BY <2>1, <2>2, <2>3, <2>4
<1> QED
    BY <1>6, <1>7, <1>8, <1>9, <1>10, <1>11

LEMMA BeginRemembers ==
    ASSUME ShellInv, Memory, NEW c \in Commands, NEW from \in Typed, NEW to \in Typed,
           Begin(c, from, to)
    PROVE  Memory'
<1> SUFFICES ASSUME mishaps' = {}
             PROVE  Remembers' /\ contents' \subseteq Everything(disk')
    BY DEF Memory
<1>1. PICK dest \in Landing(to) :
          /\ call' = [cmd |-> c, file |-> from, target |-> to,
                      at |-> First(MatchesFrom(current_dir, 0, from)),
                      dest |-> dest, into |-> cwd, cl |-> NoPayload]
          /\ Watch(MayRemove(c, from, to), MayLose(c, from, to, dest))
    BY DEF Begin
<1>2. /\ pc' = "found" /\ pc = "prompt" /\ disk' = disk /\ cwd' = cwd /\ mishaps = {}
    BY DEF Begin, vars, cwd
<1>3. AtHome
    BY <1>2, NoneFound, ShellAtHome DEF Running
<1>4. /\ contents' = Everything(disk) /\ doomed' = MayRemove(c, from, to)
      /\ atRisk' = MayLose(c, from, to, dest)
    BY <1>1, ContentsAre DEF Watch
<1>5. c = "rm" => doomed' = FirstContents(disk, cwd, from)
    BY <1>4, ContentsAre DEF MayRemove
<1>6. c = "mv" => /\ NamedContents(disk, cwd, dest) \subseteq
                         doomed' \cup atRisk' \cup FirstContents(disk, cwd, from)
                  /\ dest # from /\ Borne(disk, cwd, dest) =>
                         FirstContents(disk, cwd, from) \subseteq atRisk'
    <2>1. IsBorne(dest) <=> Borne(disk, cwd, dest)
        BY DEF IsBorne, Borne, Table, TableOn
    <2> QED
        BY <1>4, <2>1, ContentsAre DEF MayRemove, MayLose
<1>7. cwd \in Clusters /\ disk[cwd].kind = "dir"
    BY <1>3, HomeFolder
<1>8. /\ call'.cmd = c /\ call'.file = from /\ call'.dest = dest /\ call'.into = cwd
      /\ pc' = "found" /\ disk' = disk /\ cwd' = cwd
    BY <1>1, <1>2
<1>9. Remembers'
    BY <1>4, <1>5, <1>6, <1>7, <1>8 DEF Remembers
<1> QED
    BY <1>2, <1>4, <1>9

(* delete looks for the first of them.                                     *)
LEMMA FirstAmongNamed ==
    ASSUME NEW d, NEW f, NEW name
    PROVE  FirstContents(d, f, name) \subseteq NamedContents(d, f, name)
<1> DEFINE S == Matching(TableOn(d, f), name[1], name[2])
<1> SUFFICES ASSUME NEW p, Holds(d, <<f, First(S)>>, p)
             PROVE  <<f, First(S)>> \in {f} \X S
    BY ContentsHeld DEF FirstContents, NamedContents, FirstPlace
<1>1. First(S) # 0
    BY DEF Holds, ListingsOn
<1>2. S \in SUBSET Nat
    BY Numbers DEF Matching, Named
<1> QED
    BY <1>1, <1>2, FirstIn

(* A read that succeeds leaves the contents of the name's first entry.     *)
LEMMA ReadBuffers ==
    ASSUME AtHome, NEW name \in Names, NEW ext, NEW buffer, Read(cwd, name, ext, buffer), ret' = 0
    PROVE  Holds(disk, FirstPlace(disk, cwd, <<name, ext>>), BufferAfter(name, ext))
<1> DEFINE t == Table(cwd)
           i == First(Matching(t, name, ext))
<1>1. i # 0 /\ ~t[i].dir
    BY DEF Read, Return
<1>2. i \in Slots \ {0} /\ t[i].name = name
    <2> HIDE DEF t
    <2> QED
        BY <1>1, FoundSlot
<1> HIDE DEF i
<1>3. <<cwd, i>> \in ListingsOn(disk) /\ EntryOn(disk, <<cwd, i>>) = t[i]
    BY <1>2, FoundInHome
<1>4. disk[t[i].cluster].kind = "data"
    BY <1>1, <1>3, HeldByFile DEF AtHome
<1>5. BufferAfter(name, ext) = disk[t[i].cluster].payload
    BY <1>4 DEF BufferAfter, i
<1>6. FirstPlace(disk, cwd, <<name, ext>>) = <<cwd, i>>
    BY DEF FirstPlace, TableOn, Table, i
<1> QED
    BY <1>3, <1>4, <1>5, <1>6 DEF Holds

(* It needs a buffer of the file's size, and an entry of the name.         *)
LEMMA ReadFits ==
    ASSUME AtHome, NEW name \in Names, NEW ext, NEW buffer, Read(cwd, name, ext, buffer), ret' = 0
    PROVE  /\ EntryOn(disk, FirstPlace(disk, cwd, <<name, ext>>)).size <= buffer
           /\ Borne(disk, cwd, <<name, ext>>)
<1> DEFINE t == Table(cwd)
           i == First(Matching(t, name, ext))
<1>1. i # 0 /\ buffer >= t[i].size
    BY DEF Read, Return
<1>2. TableOn(disk, cwd) = t /\ t = disk[cwd].table
    BY HomeFolder DEF TableOn
<1>3. i \in Matching(t, name, ext)
    <2>1. Matching(t, name, ext) \in SUBSET Nat
        BY Numbers DEF Matching, Named
    <2>2. Matching(t, name, ext) # {}
        BY <1>1 DEF First
    <2> QED
        BY <2>1, <2>2, FirstIn
<1>4. FirstPlace(disk, cwd, <<name, ext>>) = <<cwd, i>>
    BY <1>2 DEF FirstPlace
<1>5. EntryOn(disk, <<cwd, i>>) = t[i]
    BY <1>2 DEF EntryOn
<1> QED
    BY <1>1, <1>2, <1>3, <1>4, <1>5 DEF Borne

(* What could be read can be read again.                                   *)
LEMMA ReadAgain ==
    ASSUME AtHome, NEW name \in Names, NEW ext, NEW buffer \in Nat, NEW p,
           Holds(disk, FirstPlace(disk, cwd, <<name, ext>>), p),
           EntryOn(disk, FirstPlace(disk, cwd, <<name, ext>>)).size <= buffer,
           Read(cwd, name, ext, buffer), ret = 0
    PROVE  ret' = 0
<1> DEFINE t == Table(cwd)
           i == First(Matching(t, name, ext))
<1>1. TableOn(disk, cwd) = t /\ t = disk[cwd].table /\ t \in Tables
    BY HomeFolder DEF TableOn
<1>2. FirstPlace(disk, cwd, <<name, ext>>) = <<cwd, i>> /\ EntryOn(disk, <<cwd, i>>) = t[i]
    BY <1>1 DEF FirstPlace, EntryOn
<1> HIDE DEF i
<1>3. <<cwd, i>> \in ListingsOn(disk) /\ disk[t[i].cluster].kind = "data" /\ t[i].size <= buffer
    BY <1>2 DEF Holds
<1>4. i \in Slots /\ i # 0
    BY <1>3 DEF ListingsOn
<1>5. ~t[i].dir
    BY <1>2, <1>3, HeldByFile DEF AtHome
<1>6. t[i].size \in Nat
    BY <1>1, <1>4, SizeAssumption DEF Tables, Entry
<1>7. ~(buffer < t[i].size)
    BY <1>3, <1>6
<1> QED
    BY <1>4, <1>5, <1>7 DEF Read, Return, i

(* The folder mv goes to is the one its first request found.               *)
LEMMA MoveTargetFolder ==
    ASSUME AtHome, call.target \in Typed, call.dest \in Landing(call.target),
           ReadDirectory(cwd, call.dest[1], call.dest[2]), ret' = 0
    PROVE  LET c == FolderFound(call.target[1], NoExt)
           IN  c \in Clusters /\ disk[c].kind = "dir" /\ Borne(disk, cwd, call.dest)
<1> DEFINE t == Table(cwd)
           S == Matching(t, call.dest[1], call.dest[2]) \ {0}
           i == First(S)
<1>1. S # {} /\ t[i].dir
    <2>1. ReadDirectoryCode(t, call.dest[1], call.dest[2]) = 0
        BY DEF ReadDirectory, Return
    <2> QED
        BY <2>1 DEF ReadDirectoryCode
<1>2. i \in S
    <2>1. S \in SUBSET Nat
        BY Numbers DEF Matching, Named
    <2> QED
        BY <1>1, <2>1, FirstIn
<1>3. i \in Slots /\ t[i].ext = call.dest[2]
    BY <1>2 DEF Matching, Named
<1>4. call.dest[2] = NoExt
    BY <1>1, <1>3, HomeFolder DEF Tidy
<1>5. call.dest[1] = call.target[1] /\ call.target[1] \in Names
    BY <1>4, NamesTyped DEF Landing
<1>6. PICK s \in ListingsOn(disk) :
          EntryOn(disk, s).dir /\ EntryOn(disk, s).cluster = FolderFound(call.target[1], NoExt)
    BY <1>4, <1>5, EnteredFolder
<1>7. Borne(disk, cwd, call.dest)
    BY <1>1 DEF Borne, TableOn, Table
<1> QED
    BY <1>6, <1>7, ListingTarget DEF AtHome

(* The steps that leave the disk alone.                                    *)
LEMMA ReadingRemembers ==
    ASSUME ShellInv, ShellInv', mishaps = {}, mishaps' = {}, AtHome, InCall,
           Remembers, contents \subseteq Everything(disk) \cup doomed \cup atRisk \cup Held,
           ReadSource \/ MoveReadTarget \/ TryNext \/ DoneReading \/ MoveLookForFolder
    PROVE  Memory'
<1>1. disk' = disk
    BY DEF ReadSource, MoveReadTarget, TryNext, DoneReading, MoveLookForFolder, Read,
           ReadDirectory, vars
<1>2. Scanning /\ pc \notin {"sourceGone", "movable"}
    BY DEF ReadSource, MoveReadTarget, TryNext, DoneReading, MoveLookForFolder, Succeeded, Scanning
<1>3. contents \subseteq Everything(disk)
    BY <1>2 DEF Remembers
<1>4. /\ call \in Calls /\ call.into \in Clusters /\ disk[call.into].kind = "dir"
      /\ source.name \in Names /\ source.ext \in AllExts
      /\ <<source.name, source.ext>> = call.file
      /\ call.target \in Typed /\ call.dest \in Landing(call.target) /\ call.dest[1] \in Names
      /\ source.size \in Nat
    <2>1. source.size \in Nat
        BY CommandNames, CopyTyped, SizeAssumption DEF ShellInv, source, Entry
    <2> QED
        BY <1>2, <2>1, CommandNames DEF Remembers, ShellInv, CallKept
<1>5. CASE Prompt(path) /\ contents' = contents
    <2>1. ~InCall'
        BY <1>5 DEF Prompt, InCall
    <2> QED
        BY <1>1, <1>3, <1>5, <2>1, IdleMemory
<1>6. CASE ReadSource
    <2>1. /\ pc = "found" /\ pc' = "read" /\ cwd' = cwd /\ UNCHANGED <<contents, doomed, atRisk>>
          /\ call' = [call EXCEPT !.cl = BufferAfter(source.name, source.ext)]
          /\ Read(cwd, source.name, source.ext, source.size)
          /\ current_dir' = current_dir
        BY <1>6 DEF ReadSource, history, cwd
    <2>2. /\ call'.cl = BufferAfter(source.name, source.ext) /\ call'.cmd = call.cmd
          /\ call'.file = call.file /\ call'.dest = call.dest /\ call'.into = call.into
          /\ source' = source
        BY <1>4, <2>1 DEF Calls, source
    <2>3. ret' = 0 => /\ Holds(disk, FirstPlace(disk, cwd, call.file), call'.cl)
                      /\ EntryOn(disk, FirstPlace(disk, cwd, call.file)).size <= source.size
        BY <1>4, <2>1, <2>2, ReadBuffers, ReadFits
    <2>4. Remembers'
        BY <1>1, <1>2, <1>3, <1>4, <2>1, <2>2, <2>3 DEF Remembers, Scanning
    <2> QED
        BY <1>1, <1>3, <2>1, <2>4 DEF Memory
<1>7. CASE MoveReadTarget
    <2>1. /\ pc = "read" /\ ret = 0 /\ call.cmd = "mv" /\ pc' = "destRead" /\ cwd' = cwd
          /\ UNCHANGED <<contents, doomed, atRisk>>
          /\ call' = [call EXCEPT !.cl = BufferAfter(call.dest[1], call.dest[2])]
          /\ Read(cwd, call.dest[1], call.dest[2], source.size)
        BY <1>7 DEF MoveReadTarget, Succeeded, cwd, history
    <2>2. /\ call'.cmd = call.cmd /\ call'.cl = BufferAfter(call.dest[1], call.dest[2])
          /\ call'.file = call.file /\ call'.dest = call.dest /\ call'.into = call.into
        BY <1>4, <2>1 DEF Calls
    <2>3. /\ Holds(disk, FirstPlace(disk, cwd, call.file), call.cl)
          /\ EntryOn(disk, FirstPlace(disk, cwd, call.file)).size <= source.size
        BY <2>1 DEF Remembers
    <2>4. call.dest = <<call.dest[1], call.dest[2]>>
        BY <1>4 DEF Calls, FullNames
    <2>5. call.dest = call.file => ret' = 0
        BY <1>4, <2>1, <2>3, <2>4, ReadAgain
    <2>6. FirstContents(disk, cwd, call.file) \subseteq atRisk \cup {call'.cl}
        <3>1. CASE ret' # 0
            <4>1. call'.cl = call.cl
                BY <2>2, <3>1 DEF BufferAfter
            <4> QED
                BY <2>3, <4>1, FirstHeld
        <3>2. CASE ret' = 0 /\ call.dest = call.file
            <4>1. Holds(disk, FirstPlace(disk, cwd, call.file), call'.cl)
                BY <1>4, <2>1, <2>2, <2>4, <3>2, ReadBuffers
            <4> QED
                BY <4>1, FirstHeld
        <3>3. CASE ret' = 0 /\ call.dest # call.file
            <4>1. Borne(disk, cwd, call.dest)
                BY <1>4, <2>1, <2>4, <3>3, ReadFits
            <4> QED
                BY <1>2, <2>1, <3>3, <4>1 DEF Remembers
        <3> QED
            BY <3>1, <3>2, <3>3
    <2>7. Remembers'
        BY <1>1, <1>2, <1>3, <1>4, <2>1, <2>2, <2>5, <2>6 DEF Remembers, Scanning
    <2> QED
        BY <1>1, <1>3, <2>1, <2>7 DEF Memory
<1>8. CASE TryNext
    <2> DEFINE rest == MatchesFrom(current_dir, call.at + 1, call.file)
    <2>1. CASE Prompt(path)
        BY <1>5, <1>8, <2>1 DEF TryNext, history
    <2>2. CASE call' = [call EXCEPT !.at = First(rest)] /\ pc' = "found"
               /\ UNCHANGED <<path, current_dir>>
        <3>1. /\ call'.cmd = call.cmd
              /\ call'.file = call.file /\ call'.dest = call.dest /\ call'.into = call.into
            BY <1>4, <2>2 DEF Calls
        <3>2. pc = "read" /\ UNCHANGED <<contents, doomed, atRisk>> /\ cwd' = cwd
            BY <1>8, <2>2 DEF TryNext, history, cwd
        <3> QED
            BY <1>1, <1>2, <1>3, <1>4, <2>2, <3>1, <3>2 DEF Memory, Remembers, Scanning
    <2> QED
        BY <1>8, <2>1, <2>2 DEF TryNext
<1>9. CASE DoneReading
    BY <1>5, <1>9 DEF DoneReading, history
<1>10. CASE MoveLookForFolder
    <2>1. CASE Prompt(path)
        BY <1>5, <1>10, <2>1 DEF MoveLookForFolder, history
    <2>2. CASE ~Prompt(path)
        <3>1. /\ pc = "destRead" /\ ret # 0 /\ pc' = "looked" /\ ret' = 0 /\ cwd' = cwd
              /\ UNCHANGED <<contents, doomed, atRisk>>
              /\ ReadDirectory(cwd, call.dest[1], call.dest[2])
              /\ call' = [call EXCEPT !.into = FolderFound(call.target[1], NoExt),
                                      !.cl   = TableBytes]
            BY <1>10, <2>2 DEF MoveLookForFolder, history, cwd
        <3>2. /\ call'.into = FolderFound(call.target[1], NoExt) /\ call'.cmd = call.cmd
              /\ call'.file = call.file /\ call'.dest = call.dest
            BY <1>4, <3>1 DEF Calls
        <3>3. /\ call'.into \in Clusters /\ disk[call'.into].kind = "dir"
              /\ Borne(disk, cwd, call.dest)
            BY <1>4, <3>1, <3>2, MoveTargetFolder
        <3>4. FirstContents(disk, cwd, call.file) \subseteq atRisk
            BY <1>2, <3>1, <3>3 DEF Remembers
        <3>5. Remembers'
            BY <1>1, <1>2, <1>3, <3>1, <3>2, <3>3, <3>4 DEF Remembers, Scanning
        <3> QED
            BY <1>1, <1>3, <3>1, <3>5 DEF Memory
    <2> QED
        BY <2>1, <2>2
<1> QED
    BY <1>6, <1>7, <1>8, <1>9, <1>10

LEMMA DeletingRemembers ==
    ASSUME ShellInv, ShellInv', mishaps = {}, mishaps' = {}, AtHome, InCall,
           Remembers, contents \subseteq Everything(disk) \cup doomed \cup atRisk \cup Held,
           RemoveDelete \/ MoveDeleteSource \/ MoveDeleteTarget \/ MoveOutOfFolder
    PROVE  Memory'
<1>1. /\ call \in Calls /\ call.into \in Clusters /\ disk[call.into].kind = "dir"
      /\ call.dest[1] \in Names /\ call.dest[2] \in AllExts
      /\ call.dest = <<call.dest[1], call.dest[2]>>
      /\ Scanning => /\ source.name \in Names /\ source.ext \in AllExts
                     /\ <<source.name, source.ext>> = call.file
    BY CommandNames DEF Remembers, Calls, FullNames
<1>2. CASE RemoveDelete
    <2>1. /\ pc = "read" /\ call.cmd = "rm" /\ Delete(source.name, source.ext)
          /\ Prompt(path) /\ contents' = contents /\ doomed' = doomed
        BY <1>2 DEF RemoveDelete, Succeeded, history
    <2>2. DeletesFirst(source.name, source.ext)
        BY <1>1, <2>1, DeletedContents DEF Scanning
    <2>3. contents \subseteq Everything(disk') \cup doomed
        BY <1>1, <2>1, <2>2 DEF Remembers, Scanning, DeletesFirst
    <2>4. ~InCall'
        BY <2>1 DEF Prompt, InCall
    <2> QED
        BY <2>1, <2>3, <2>4, IdleMemory
<1>3. CASE MoveDeleteSource \/ MoveOutOfFolder
    <2>1. /\ pc \in {"destRead", "looked"} /\ Delete(source.name, source.ext)
          /\ pc' = (IF pc = "destRead" THEN "sourceGone" ELSE "movable")
          /\ UNCHANGED <<current_dir, call, contents, doomed, atRisk>> /\ cwd' = cwd
        BY <1>3 DEF MoveDeleteSource, MoveOutOfFolder, history, cwd
    <2>2. DeletesFirst(source.name, source.ext)
        BY <1>1, <2>1, DeletedContents DEF Scanning
    <2>3. FirstContents(disk, cwd, call.file) \subseteq atRisk \cup {call.cl}
        BY <2>1 DEF Remembers
    <2>4. contents \subseteq Everything(disk') \cup atRisk \cup {call.cl}
        BY <1>1, <2>1, <2>2, <2>3 DEF Remembers, Scanning, DeletesFirst
    <2>5. /\ call.cmd = "mv"
          /\ NamedContents(disk, cwd, call.dest) \subseteq doomed \cup atRisk \cup {call.cl}
        BY <2>1, <2>3 DEF Remembers, Scanning
    <2>6. NamedContents(disk', cwd, call.dest) \subseteq doomed \cup atRisk \cup {call.cl}
        BY <2>2, <2>5 DEF DeletesFirst
    <2>7. disk'[call.into].kind = "dir"
        BY <1>1, <2>2 DEF DeletesFirst
    <2> QED
        BY <1>1, <2>1, <2>4, <2>5, <2>6, <2>7 DEF Memory, Remembers, Held, Scanning
<1>4. CASE MoveDeleteTarget
    <2>1. /\ pc = "sourceGone" /\ pc' = "movable"
          /\ UNCHANGED <<current_dir, call, contents, doomed, atRisk>> /\ cwd' = cwd
          /\ call.cmd = "mv"
        BY <1>4 DEF MoveDeleteTarget, history, cwd, Remembers
    <2>2. NamedContents(disk, cwd, call.dest) \subseteq doomed \cup atRisk \cup {call.cl}
        BY <2>1 DEF Remembers
    <2>3. /\ Everything(disk) \subseteq Everything(disk') \cup NamedContents(disk, cwd, call.dest)
          /\ disk'[call.into].kind = "dir"
        <3>1. CASE disk' = disk
            BY <1>1, <3>1
        <3>2. CASE Delete(call.dest[1], call.dest[2])
            <4>1. DeletesFirst(call.dest[1], call.dest[2])
                BY <1>1, <3>2, DeletedContents
            <4>2. FirstContents(disk, cwd, call.dest) \subseteq NamedContents(disk, cwd, call.dest)
                BY FirstAmongNamed
            <4> QED
                BY <1>1, <4>1, <4>2 DEF DeletesFirst
        <3> QED
            BY <1>4, <3>1, <3>2 DEF MoveDeleteTarget, vars
    <2>4. contents \subseteq Everything(disk') \cup doomed \cup atRisk \cup {call.cl}
        BY <2>1, <2>2, <2>3 DEF Held
    <2> QED
        BY <1>1, <2>1, <2>3, <2>4 DEF Memory, Remembers, Held, Scanning
<1> QED
    BY <1>2, <1>3, <1>4

LEMMA WritingRemembers ==
    ASSUME ShellInv, ShellInv', mishaps = {}, mishaps' = {}, AtHome, InCall,
           Remembers, contents \subseteq Everything(disk) \cup doomed \cup atRisk \cup Held,
           CopyWrite \/ MoveWrite
    PROVE  Memory'
<1>1. /\ Ready /\ Regular /\ SelfNamed /\ RoomFound' /\ Regular'
    BY NoneFound DEF AtHome, RoomFound, Regular
<1>2. /\ call \in Calls /\ call.into \in Clusters /\ disk[call.into].kind = "dir"
      /\ call.dest[1] \in Names /\ call.dest[2] \in AllExts /\ cwd \in Clusters
    BY CommandNames, HomeFolder DEF Remembers
<1>3. /\ Prompt(path) /\ UNCHANGED <<contents, doomed, atRisk>>
      /\ \/ pc = "read" /\ WriteBuffer(cwd)
         \/ pc = "movable" /\ WriteBuffer(call.into)
    BY DEF CopyWrite, MoveWrite, Succeeded, history
<1>4. Grows
    BY <1>1, <1>2, <1>3, WriteBufferGrows
<1>5. Everything(disk) \subseteq Everything(disk')
    BY <1>1, <1>4, GrowsKeepsContents
<1>6. pc = "movable" => call.cl \in Everything(disk')
    <2> SUFFICES ASSUME pc = "movable" PROVE call.cl \in Everything(disk')
        OBVIOUS
    <2>1. ~WriteInvalidParent(call.into)
        BY <1>1, <1>2, ReadyFacts DEF WriteInvalidParent
    <2>2. call.cl \in Payloads /\ StoreFile(call.into, call.dest[1], call.dest[2], call.cl)
        BY <1>2, <1>3, <2>1, WriteBufferCalls
    <2>3. Formatted'
        <3>1. pc' # "off" /\ Sound'
            BY <1>1, <1>3 DEF Prompt, Regular, Sound
        <3> QED
            BY <3>1 DEF ShellInv, DiskInvariant, PowerAgrees, Virgin
    <2> QED
        BY <1>1, <1>2, <2>2, <2>3, StoredIsListed
<1>7. contents \subseteq Everything(disk') \cup doomed \cup atRisk
    BY <1>3, <1>5, <1>6 DEF Held
<1>8. ~InCall'
    BY <1>3 DEF Prompt, InCall
<1> QED
    BY <1>3, <1>7, <1>8, IdleMemory

LEMMA MemoryKept ==
    ASSUME ShellInv, ShellInv', Memory, [ShellNext]_allVars
    PROVE  Memory'
<1>1. mishaps' = {} => mishaps = {}
    BY ShellSteps, MishapsStay DEF ShellInv
<1>2. CASE UNCHANGED allVars
    <2>1. UNCHANGED <<vars, shellVars>>
        BY <1>2 DEF allVars
    <2> QED
        BY <2>1 DEF vars, shellVars, Memory, Remembers, Held, Scanning, InCall, cwd, source
<1>3. CASE CommandStep
    <2> SUFFICES ASSUME mishaps' = {} PROVE Memory'
        BY DEF Memory
    <2>1. mishaps = {} /\ InCall /\ AtHome
        BY <1>1, <1>3, CommandPlace, CommandRuns, NoneFound, ShellAtHome DEF ShellInv, InCall
    <2>2. Remembers /\ contents \subseteq Everything(disk) \cup doomed \cup atRisk \cup Held
        BY <2>1 DEF Memory
    <2>3. CASE ReadSource \/ MoveReadTarget \/ TryNext \/ DoneReading \/ MoveLookForFolder
        BY <2>1, <2>2, <2>3, ReadingRemembers
    <2>4. CASE RemoveDelete \/ MoveDeleteSource \/ MoveDeleteTarget \/ MoveOutOfFolder
        BY <2>1, <2>2, <2>4, DeletingRemembers
    <2>5. CASE CopyWrite \/ MoveWrite
        BY <2>1, <2>2, <2>5, WritingRemembers
    <2> QED
        BY <1>3, <2>3, <2>4, <2>5 DEF CommandStep
<1>4. CASE \E c \in Commands, from \in Typed, to \in Typed : Begin(c, from, to)
    BY <1>4, BeginRemembers
<1>5. CASE \/ StartInserter \/ EndInserter \/ StartShell \/ Cut
           \/ \E parent \in Clusters, name \in TypedNames : Insert(parent, name)
           \/ ChangeToParent \/ ChangeToRoot
           \/ \E name \in TypedNames : ChangeDirectory(name) \/ MakeDirectoryCommand(name)
    BY <1>1, <1>5, IdleStepRemembers
<1> QED
    BY <1>2, <1>3, <1>4, <1>5 DEF ShellNext

(* cat, cp, rm and mv, and what comes between: no file a command was not   *)
(* asked to remove is gone after it, but for the losses NothingForgotten   *)
(* names.                                                                  *)
THEOREM NothingIsForgotten == ShellSpec => []NothingForgotten
<1>1. ShellInit => Memory
    BY DEF ShellInit, Init, Memory, Remembers, Scanning, InCall
<1>2. ShellInv /\ ShellInv' /\ Memory /\ [ShellNext]_allVars => Memory'
    BY MemoryKept
<1>3. Memory => NothingForgotten
    BY ContentsAre DEF Memory, NothingForgotten, Held
<1> QED
    BY <1>1, <1>2, <1>3, ShellInvariant, PTL DEF ShellSpec

=============================================================================
