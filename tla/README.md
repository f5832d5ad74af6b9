# A TLA+ verification of OSOSOSO OS

OSOSOSO is a small 32-bit kernel in C: a FAT32-like file system on an ATA
disk, a keyboard driver, system calls, and one user program, a shell.  This
directory holds TLA+ models of its core, the TLC runs that check them and
TLAPS proofs of every safety invariant those runs check and of the refinement:
for the file system and its power cuts, the shell, the keyboard, the terminal
and the kernel's start.  Source paths below are relative to the repository.

## 1. The system

| Part | State | Operations | Talks to |
|---|---|---|---|
| FAT32 driver, `src/filesystem/fat32.c` | `driver_state.fat_table` (the FAT cached in memory); on disk: signature, FAT, directory tables, data | `initialize_filesystem_fat32`, `read`, `read_directory`, `write`, `delete` | disk driver; called by system calls 0 to 3, the kernel's start and the inserter |
| Disk driver, `src/filesystem/disk.c` | none, the disk itself | `read_blocks`, `write_blocks`, busy waiting | ATA ports |
| Keyboard driver, `src/keyboard/keyboard.c` | `keyboard_state` (on/off, extended mode, index, 256 bytes), `tracker` | `keyboard_isr`, activate, clear, get | controller port 0x60, screen, `pic_ack` |
| Interrupts, `src/interrupt/` | IDT, the interrupt controller's masks, the interrupt flag | `initialize_idt`, `pic_remap`, `activate_keyboard_interrupt`, `main_interrupt_handler`, `syscall` | everything |
| Shell, `src/user-shell.c` | `path_cluster`, `n_path`, a copy of the current folder's table | `cd`, `ls`, `mkdir`, `cat`, `cp`, `rm`, `mv`, `whereis` | system calls 0 to 9 |
| Inserter, `src/inserter/external-inserter.c` | the disk image | one `write` per run, on the host | FAT32 driver |
| Kernel start, `src/kernel.c` | none | `kernel_setup` | all drivers |
| Paging, `src/paging/paging.c` | page directory, next free frame | `allocate_single_user_page_frame` | kernel start, the processor's translation cache |
| Framebuffer, `src/framebuffer.c` | screen, `tracker` | `puts`, write, clear, cursor | keyboard driver, system call 5 |
| GDT/TSS, port I/O, memory helpers | constant tables or none | loaded once, single instructions | all |

There is one processor, one user program and no scheduler.  What is hard here
is not two threads but:

* **long call sequences**: a FAT and a tree of tables that every call rewrites
  (allocation, freeing while walking, holes in tables, tables and disks that
  are full);
* **two copies of the truth**: the FAT in memory and on disk, the shell's copy
  of the current folder;
* **power cuts** between the cluster writes of one call and between the calls
  of one command;
* **interrupts at any moment**: the keyboard can be pressed before, during and
  between system calls; one missing acknowledgement silences it for good;
* **ignored answers**: commands go on when one of their calls failed.

What makes each part correct: the file system's entries lead to disjoint
chains that end, everything allocated is listed, a file reads back as written,
a reboot goes on where the last call ended, a power cut harms at most the
entry being worked on; the line the shell gets is the line that was typed, and
Enter ends the wait; a command loses nothing it was not asked to remove, keeps
the path a path of the disk and comes to an end; what stands on the screen is
what is in the buffer, and the shell runs the command that stood there; the
kernel gets from the boot loader to the shell with every frame given once and
the kernel's out of the user's reach.  `PROJECT.json` lists the hazards line by
line with the properties that watch them.

## 2. The modules

| Module | What it is |
|---|---|
| `Fat32Driver` | the driver, one action per call outcome; its properties; the inductive invariant |
| `Fat32Loops` | the driver's loops over the FAT, an iteration a step, with the widths of their counters |
| `Fat32PowerCut` | the driver on a disk that takes one cluster at a time, with power cuts |
| `FileStore` | what the driver promises: folders, files, calls and codes, no clusters |
| `Fat32Store` | the driver with its requests, and the refinement mapping to `FileStore` |
| `Shell` | the shell's commands and the inserter on top of `Fat32Driver` |
| `Keyboard` | scancodes, controllers, interrupts, `keyboard_isr`, system call 4 |
| `Terminal` | the screen, the screen position, the line, its words and the command |
| `KernelStart` | from the boot loader to the shell: paging, allocation, interrupts, the stack |
| `MC...` | the instance of each for TLC |
| `Fat32InvariantProofs` | the driver's types, its inductive invariant and what follows from it |
| `Fat32StoreProofs` | the driver implements the file store, and nothing on the disk is lost: files read back, what is allocated is listed, folders stay reachable |
| `Fat32LoopsProofs` | the loops compute what `Fat32Driver` says, for counters of any width |
| `Fat32PowerCutProofs` | what a power cut can harm, on disks of any size |
| `ShellProofs` | the shell keeps its path, its copy of the folder and the user's files |
| `KeyboardProofs` | the keyboard is heard, and the line arrives as it was typed |
| `TerminalProofs` | the screen shows the line, and the shell runs what it shows |
| `KernelStartProofs` | the invariants of the kernel's start |

`Fat32PowerCut`, `Fat32Store` and `Shell` extend `Fat32Driver` and compose its
actions with their own state; `Fat32Loops` instantiates it to compare its
operators with the loops.  `Keyboard` and `Terminal` are two views of the
same handler: when it runs and what it does to the hardware, and what it draws.
Definitions named `Bug...` are wrong variants of the definition behind them;
the specification does not use them, they are there to show that a property
notices the mistake (`mutants` in `PROJECT.json`).

### Fat32Driver

State: `disk` (what each cluster holds), `fat` (the cached FAT), `status` (the
machine is off, on, or hung in a loop or a fault), `ret` (the code of the last
call) and `mishaps`, a history of what the code does not guard against.
A call runs inside an interrupt gate with interrupts off, so a call is one
step.  Each outcome is an action: `StoreFile` is `write` with data,
`MakeDirectory` without, `DeleteFile`/`DeleteFolder` the two halves of
`delete`, `WriteInvalidParent`, `MakeDirectoryExists`, `DeleteNotFound`,
`DeleteFolderRefused` the early returns; `Read` and `ReadDirectory` change
only the caller's buffer.  `DeleteFileAstray` (delete) and `Read` on a chain
without end model the loops over a damaged FAT.  delete empties the entries
behind it, so on a circle it comes back to an EMPTY one, which is cluster 0, and
goes on from there, over the boot sector.

Abstractions: a file's bytes are an opaque payload, sizes are in clusters, a
directory table is a function from slots to entries, the 0 of an EMPTY entry
doubles as cluster 0 as in the code; END_OF_FILE and the other value beyond
the map are distinct negative numbers.  Bytes that are not a table match no
name (a data cluster that looks like one is excluded), a virgin disk is all
zero, and unassigned array elements (`StackGarbage`) are cluster numbers
inside the map.

`mishaps` is used by properties only.  `noCluster` and `emptySlot` are the two
that make the code follow or write a number nobody assigned; a behaviour
without them is `Sound`, and the main properties are claimed for all Sound
behaviours, whatever else was provoked (full tables, folders deleted as files,
empty names).

### Fat32Loops

`Fat32Driver` says in one formula what a loop of `read`, `write` or `delete`
computes: `FirstFit` and `Linked` of write's search and its linking, `Chain`,
`Ends` and `Freed` of the walks, `Erased` and `EraseEnds` of a delete on a
circle.  `Fat32Loops` has the loops themselves, with `found` and `i` as 8-bit
counters beside the 16-bit `n_clusters`, and its properties compare the two.
A behaviour is one call; the FATs it starts from
include those a damaged disk can have (circles, links into free clusters, a FAT
of zeroes).  A walk beyond the map ends in `outside`, undefined in C and in
practice a fault.  `CallsEnd` claims nothing for files of more clusters than a
counter has values: there write never ends.

### FileStore and Fat32Store

`FileStore` is the driver as its callers know it: folders named by handles, each
with places that hold a subfolder, a file with its contents, or nothing.  Each
call is a formula over the request and the code; there are no clusters in it.
Where the driver's answer depends on which of two entries of one name comes
first in the table, the file store leaves the choice open.  `request` is the
last call; it makes the step a call of *that* name in *that* folder, so that a
driver that did something else, however sensible, would not implement it.

The mapping of `Fat32Store`: a folder is a cluster that holds a table, its name
the name in slot 0, its places the other slots, and a file's contents the
payload in the first cluster of its chain.  A disk without signature maps to the
store with an empty root, which is what the next boot makes of it.
`intact` is `mishaps = {}`: the promise is kept until a caller breaks the rules
(empty names, a folder deleted as a file or the reverse) or write runs out of
slots or clusters and returns 0 all the same (`fat32.c:253`, a mishap as well).

`lib-header/fat32.h:207` says that the extension of a `read_directory` request is
unused.  The code compares it (`fat32.c:102`), and so does `FileStore`: a folder,
which never has an extension, is found by requests without one, and a file of
the folder's name with another extension makes the answer 1 instead of 2.
`fat32_calls` has a file with an extension for this.

### Fat32PowerCut

`disk` is what the disk is going to hold when the call under way is over,
`media` what it holds, `queue` the clusters still to be written in the order of
the call's `write_clusters`.  `write_blocks` waits for each block, so writes
arrive in order.  A cut may come between any two; the next boot finds the
media.  A cut within the four blocks of one cluster is left out.  An action is
the driver's action and the order of its writes; `CutStoreFile` names the
clusters `write` found (`StoreFileIn`), since they are written in that order.

### Keyboard

The keyboard controller queues scancodes; the interrupt controller is edge
triggered, and a request in service blocks itself and lower priorities until
it is acknowledged.  Both are modelled from how the code uses them and marked
external.  Each branch of `keyboard_isr` is an action.  `cpu` is the phase the
processor is in: `boot`, `idt` (between `sti` at the end of `initialize_idt`
and the masking of the timer), `shell`, `call`, `wait` and `copy` (system
call 4).  Interrupt gates clear the interrupt flag, so a handler is one step;
only system call 4 enables interrupts.  The screen is in `Terminal`: an arrow
key copies a character from it, here any character.  Not modelled: the overflow of
the controller's own queue, and scancodes from before `pic_remap`.

### Shell

`pc` says where the shell is, `call` holds the locals of the command being
executed, `current_dir` the copy of the table.  A command starts with `Begin`
and makes one driver call per step, so that the power can go between two.
`Prompt` is the common end: main clears its arguments, `printPath` reads the
current folder again.  The scan of the table for the typed name (`ReadSource`,
`TryNext`) is the loop `cat`, `cp`, `rm` and `mv` share.  `ls` prints the
entries `Seen`; `whereis` prints nothing.  The inserter is included since it
is how files get on the disk.

`mv` has one buffer for all it reads (`user-shell.c:437`, `461`): the source; then
the target, if that is a file it can read (`MoveReadTarget`); then the target's
table, if it is a folder (`MoveLookForFolder`, which leaves `TableBytes`, the bytes of
a table as a file's contents, in `call.cl`).  Whatever the buffer holds last is what
it writes.  The inserter is never given such a file, nor its cluster as a
parent: a file that looks like a folder is excluded as in `Fat32Driver`.

Three history variables are read by `NothingForgotten` alone: `contents`, what the
disk listed when the command began; `doomed`, what the names *typed* give it to
remove (`MayRemove`); and `atRisk`, what the code can be seen to lose on top before the
command has made a call (`MayLose`): the source, when something other than the source
bears the target's name, and what stands under the target's name with an
extension nobody typed.  `Cut` adds what the buffer holds when the power goes
between mv's delete and its write.  Everything else has to be listed still after
every step.

Left out: files longer than a cluster, the shell's own file, `cp` and `mv` without a target.  The extension of a target
typed without one is never assigned in the code; it is any of `LeftoverExts`.
Sizes are in clusters.  So two things the code does with sizes in bytes are out of
sight: `rm` and `mv` read whole clusters into a buffer of the file's bytes on the
stack (`user-shell.c:384`, `437`), and what they overwrite behind it is not
modelled; and `mv` onto a file longer than the source, but of as many
clusters, gets the code 2 and moves nothing, where the model moves.
How the line becomes words, and words a command, is in `Terminal`.

### Terminal

`display` is `tracker`, the screen and the hardware cursor.  C does not say
whether `get_resolution_row` (which wraps the tracker and may clear the screen)
or `get_resolution_col` is evaluated first, so an operation has the set of
displays either order leads to.  Each key is an action that does what its branch
of `keyboard_isr` does to the buffer *and* the screen.  Then come the shell's
steps: `ReadLine` (system call 4), `ParseInput` (the copy and `parse_input`),
`Recognise` (system call 7), `Clear` (system call 6), and `Puts` for whatever
commands and the prompt print.

What the code leaves unassigned is a choice: the words before the first line
(`Leftovers`), the upper bytes of `retcode` (`above`), and the memory behind a
line of 16 characters, which has no terminator (`Tails`).  Mishaps, for one line:
`arrow` (an arrow key put a character of the screen into the line), `rubbed`
(then a backspace: the driver blanks the screen where the cursor is and the
buffer in front of it), `torn` (the screen was cleared under the line, or the
line taken back over the top).

### KernelStart

`pc` follows `kernel_loader.s` and `kernel_setup`; `pde` is the page directory,
`tlb` what the processor has cached of it, loaded and dropped at any moment
(`Caches`, `Evicts`), as the architecture allows.  `update_page_directory_entry`
is three steps (flag, address, invalidation) because in between the processor
may cache a half-written entry.  `tss` records what a stack for interrupts needs:
the base in the descriptor, the register loaded after it, `esp0`.  Keyboard
interrupts come at any step after `initialize_idt`.

The disk holds the shell, a folder or a too large file of that name, or nothing;
the code of the read is not looked at.  `outcome` is `halted` in the page
fault's handler (the screen stays as it is, nothing goes on), `reset` when an
interrupt finds no stack, `lost` when the kernel's page is gone from under it.
`kernel_setup` allocates addresses 0 and 10; the constant `Requests` has other
lists too, as the allocator's interface allows, so that its limit and its tests
are reached.  Addresses are in KiB, and of 1024 pages the two the allocator
accepts are kept.

## 3. The runs

| Run | Bounds | Shows |
|---|---|---|
| `fat32_calls` | 6 clusters (3 usable), 3 slots, names `a` and the root's, an extension, payloads of 1 and 2 clusters; full tables, full disks, mismatched deletes and unused slots allowed | all properties of `Fat32Driver`, and that it implements `FileStore` |
| `fat32_loops` | 8 clusters, counters of 2 bits, files of up to 5 clusters; 32 FATs for write, 376 for read and delete | `WriteAsDescribed`, `StoredInOrder`, `DeleteAsDescribed`, `ReadAsDescribed`, `CallsEnd` |
| `power_cut` | as `fat32_calls` without mishaps, one kind of call interrupted | `OthersSurviveCut`, `InterruptedDeleteOnlyLeaks`, `CallsAreWritten` |
| `keyboard` | a buffer of 2, two characters, 4 scancodes per line | `LineAsTyped`, `Heard`, `StaysInBuffer`, `EnterDelivers` |
| `terminal` | a screen of 2 rows of 3, buffer and line of 4, one letter and the blank, commands `a` and `aa` | `EchoIsLine`, `RunsWhatIsShown`, `NoWordLeft` |
| `shell` | 6 clusters, 4 slots, names `a`, `d`, `a.txt`, two payloads and a table's bytes, paths of 3 | `PathIsReal`, `CopyIsFresh`, `NothingForgotten`, `EveryEntrySeen`, `ScanEnds` |
| `kernel_start` | 7 lists of addresses, among them what `kernel_setup` asks for and one that uses up the memory | `FramesApart`, `FramesExist`, `NoStaleTranslation`, `KernelIsProtected`, `ShellRuns`, `NoReset`, `ShellStarts` |

Why the bounds are enough to be of interest: three usable clusters give files
of two clusters interleaved with holes, a disk that fills up, and a folder
inside a folder; three slots give a full table and a hole in front of an
entry; one name besides the root's suffices because names are only compared;
a buffer of two is passed by three keys.  In `keyboard` four scancodes since the
last line allow an arrow key, a character and Enter.  In `shell` a command
starts only when a cluster and a slot of every table are free (`Roomy`), since
full disks are the subject of `fat32_calls`.  In `fat32_loops` a 2-bit counter
has four values, so that files of three, four and five clusters fall below, on
and beyond the edge that 255, 256 and 257 clusters are in the code; write starts
from every set of free clusters, the walks from every FAT with links among three
clusters, whichever value the boot cluster's entry has of three, and one full of
zeroes.  In `terminal` a line of four characters wraps
a row, fills the shell's buffer without a terminator and, after prompts of any
length, runs over the end of the screen; one command's name is the beginning of
the other's.

State constraints: `Undamaged` (`fat32_calls`: a behaviour is followed up to the
call that damages the disk), `OneExtension` (`fat32_calls`: at most one entry, a file
`a` of one cluster, bears the extension, and while it does callers keep to the
rules), `Followed` (`power_cut`), `TwoInserted` (`shell`).
Views: `WithoutRequest` (`fat32_calls`) leaves out which call was the last,
`Live` (`terminal`) what is overwritten before it is read again; both leave every
state that differs in anything a step or a property reads.

Deadlock is not checked in `keyboard` and `keyboard_ignored` (a few scancodes and
a silenced keyboard really stop the system), `shell` and `shell_move` (the inputs
are bounded), `fat32_loops` (a behaviour is one call) and `kernel_start` (the
page fault's handler halts).

Each module has a type invariant.  Those of `Fat32Driver`, `Keyboard` and
`Terminal` are part of a run, and in the last it says something: between two
steps the tracker is on the screen.

### What the code does that its documentation does not say

Each of these runs checks one statement of a comment or of the repository's
README and finds a behaviour of the code that contradicts it:

| Run | Statement | What the code does |
|---|---|---|
| `fat32_duplicate` | write returns 1 if the file exists (`lib-header/fat32.h:227`) | the test compares an address with 0 and never holds |
| `fat32_delete_full` | delete removes an *empty* directory, buffer_size is unused (`fat32.h:233`) | with a nonzero buffer_size a folder is deleted unlooked at |
| `cut_format` | an empty storage is given a file system (`fat32.h:175`) | the signature is written first, a cut leaves a disk that never gets a root |
| `keyboard_ignored` | "Ignore any other extended scancode" (`keyboard.c:122`) | it is not acknowledged either, and no later key is heard |
| `shell_move` | mv moves a file to the destination (`README.md:62`) | it reads whatever the target is into the buffer it moves: into a folder, the folder's table arrives (`user-shell.c:538`, the run); onto an existing file, that file's old contents (`:520`) |

Other places where the code is known to go wrong are recorded as mishaps or in
the history variables `atRisk` and `holes`, and the properties are stated up to
them: a key pressed while nobody waits for a line, a timer interrupt before
the mask, an arrow key at the end of the buffer, a full disk or table on which
write returns 0, a mv onto or into something, an extension the stack completes, a power cut
between mv's delete and its write, a folder that mv deletes as a file, holes in a
table.  A property with such a premise is not vacuous: the runs take plenty of
behaviours without them, and the mutants fail within them.

### Fairness

`Keyboard`: a deliverable interrupt is eventually taken, a system call and the
boot sequence go on (weak fairness: nothing else runs on the processor), and
the shell asks for its next line again and again.  The last is strong fairness on `ReadLine`,
since interrupts and other calls may come in between; it is an assumption about
the shell, of which `ScanEnds` is the part that is not obvious.
`Shell`: the scan a command is in goes on (weak fairness on `Scan`): it is the
only program.  `Fat32Loops`: a call goes on (weak fairness on `Next`), since
interrupts are off.  `KernelStart`: the kernel takes its next step (weak fairness
on `KernelStep`); handlers return, and the processor's caching is not something
a step waits for.  Nothing is assumed of the user, the power or the inserter.

## 4. The proofs

All theorems hold for every value of the constants their modules' `ASSUME`s
allow (more than 3 clusters, more than one slot, files of at most 255 clusters,
any names, payloads and `Tolerated`; any number of cuts; any FAT and counters of
any width; any names typed, number of commands and paths of up to 20 folders; any
buffer size, characters and number of keys; any screen, any commands of which
none abbreviates an earlier one; any list of page addresses).
TLC evaluates the assumptions in every run.

| Theorem | Statement |
|---|---|
| `Fat32InvariantProofs!TypeCorrect` | `Spec => []TypeOK` |
| `Fat32InvariantProofs!DiskStaysConsistent` | `Spec => []DiskInvariant` |
| `Fat32InvariantProofs!ChainsApart` | `Spec => []OwnedOnce` |
| `Fat32InvariantProofs!EntriesLead` | `Spec => []NothingDangles` |
| `Fat32InvariantProofs!RebootsRestore` | `Spec => []RebootRestores` |
| `Fat32InvariantProofs!CallsReturn` | `Spec => []NeverHangs` |
| `Fat32LoopsProofs!WriteKeepsWord` | `Spec => []WriteAsDescribed` |
| `Fat32LoopsProofs!FilesAreStored` | `Spec => []StoredInOrder` |
| `Fat32LoopsProofs!DeleteKeepsWord` | `Spec => []DeleteAsDescribed` |
| `Fat32LoopsProofs!ReadKeepsWord` | `Spec => []ReadAsDescribed` |
| `Fat32StoreProofs!FoldersHaveOwnNames` | `Spec => []FolderNamesDiffer` |
| `Fat32StoreProofs!FileStoreImplemented` | `RequestSpec => ImplementsFileStore` |
| `Fat32StoreProofs!FilesReadBack` | `Spec => []ReadBack` |
| `Fat32StoreProofs!NothingIsLost` | `Spec => []NothingLeaks` |
| `Fat32StoreProofs!FoldersStayReachable` | `Spec => []EveryFolderReachable` |
| `Fat32PowerCutProofs!CallsReachMedia` | `CutSpec => []CallsAreWritten` |
| `Fat32PowerCutProofs!CutsSpareOthers` | `CutSpec => []OthersSurviveCut` |
| `Fat32PowerCutProofs!InterruptedDeletesLeak` | `CutSpec => []InterruptedDeleteOnlyLeaks` |
| `ShellProofs!ShellTypeCorrect` | `ShellSpec => []ShellTypeOK` |
| `ShellProofs!PathStaysReal` | `ShellSpec => []PathIsReal` |
| `ShellProofs!CopyStaysFresh` | `ShellSpec => []CopyIsFresh` |
| `ShellProofs!ScansSeeAll` | `ShellSpec => []EveryEntrySeen` |
| `ShellProofs!NothingIsForgotten` | `ShellSpec => []NothingForgotten` |
| `KeyboardProofs!TypeCorrect` | `Spec => []TypeOK` |
| `KeyboardProofs!LinesArriveAsTyped` | `Spec => []LineAsTyped` |
| `KeyboardProofs!AlwaysHeard` | `Spec => []Heard` |
| `KeyboardProofs!BufferHolds` | `Spec => []StaysInBuffer` |
| `TerminalProofs!TypeCorrect` | `Spec => []TypeOK` |
| `TerminalProofs!EchoIsFaithful` | `Spec => []EchoIsLine` |
| `TerminalProofs!ShownIsRun` | `Spec => []RunsWhatIsShown` |
| `TerminalProofs!NoWordIsLeft` | `Spec => []NoWordLeft` |
| `KernelStartProofs!FramesStayApart` | `Spec => []FramesApart` |
| `KernelStartProofs!FramesAlwaysExist` | `Spec => []FramesExist` |
| `KernelStartProofs!TranslationsAreFresh` | `Spec => []NoStaleTranslation` |
| `KernelStartProofs!KernelStaysProtected` | `Spec => []KernelIsProtected` |
| `KernelStartProofs!ShellIsWhatRuns` | `Spec => []ShellRuns` |
| `KernelStartProofs!NeverResets` | `Spec => []NoReset` |

### The disk

`OwnedOnce` is not inductive: it speaks of chains, least sets that
every call changes in one place, and says nothing of clusters no entry leads
to.  `DiskInvariant` is.  While the behaviour is Sound, the disk is untouched
or `Formatted`: its signature, FAT and root are there, the FAT in memory is the
one on the disk, every allocated cluster is a table or a file's (`Filled`), and
it is `WellLinked`, four statements about single links:

* `LinksApart`: a link leads from a usable cluster to an allocated one, no two
  to the same;
* `KindsAgree`: free clusters are blank, a table's cluster ends its chain;
* `DataInOrder`: the link of a file's k-th cluster leads to its (k+1)-th, and
  the last one ends the chain, so no chain circles;
* `EntriesOwn`: an entry leads to a cluster no link and no other entry leads
  to.

`Filled` stands apart (`Bootable` is `Formatted` without it) because it is what
an interrupted delete breaks, and all it breaks.  Lemmas show that allocating, linking, freeing and blanking keep these, one per
kind of call; `ChainOfFile`, `ListingChain` and their companions go from links to
chains, and the theorems follow.  TLC checks `DiskInvariant` in `fat32_calls`.

### The file store

Callers that keep to the rules (`mishaps = {}`) also keep the tables `Tidy`: a
table starts with the folder's own entry, an entry in use has a name, an unused
slot is blank, and no two folders of a table share a name.  `TablesStayTidy` is
proved together with `DiskInvariant`; without it the driver would not implement
the file store (a search by name can match a slot that is not in use).  Four
lemmas (`MakeDirectoryEffect` and so on) then say what a call does to the tables:
it `Replaces` one entry and leaves every other listing and every other file's
first cluster alone.  `PutStored` turns a replaced entry into a `Put` of the
file store, and each outcome of each call is matched with the file store's
formula for the same request and the same code.

### Nothing is lost

From the same effects come two more invariants.  `Reachable`: every set that holds
the root and with a folder its subfolders holds all tables; the interesting
case is deleting a folder, which listed nothing.  `NoOrphans`: an
allocated cluster that is a table or the first of a file has a listing, any
other one a link that leads to it.  That it then lies on the chain of a
listing is an argument by the least index among the clusters that do not
(`OwnedIsListed`): the cluster in front of it has a lower one.  `ReadBack`
needs no invariant of its own: `WalkInOrder` goes along the links in the same
way, after `WalkExists` has shown that the recursive function `Walk` is one.
No induction theorem of the library is used; least counterexamples
(`LeastNumber`) take its place.

### The loops

Each loop has an invariant that says how far it has come.  The search of
`write` has filled `found` places, or all of them if `found` has wrapped, with
different free clusters below `i`; after a wrap it goes on over the places it
has filled, which stay free and different, though no longer ascending: hence two
theorems, one of the formula for files below the edge and one of what is
stored for files on it.  In the link loop the entries of the first `i` places
are linked and the rest of the FAT is as before.  A walk has visited a set of
clusters closed under the links but for the next one to come, so it is contained
in the chain, and the chain in it once the walk is over: the chain is the least
closed set, and no iteration has to be counted.  delete's second
round, after a circle, is the same argument from the boot cluster on the FAT the
first round left.  `Walk` is shown to be a function by a least counterexample,
as below.

### Power cuts

`CallsAreWritten` rests on `Pending`: where the media differ from the disk the
cluster is in the queue.  It needs of every call that the queue it makes names
all the clusters its action changes, which for `delete` means that the walk
visits all of the chain.

`OthersSurviveCut` does not depend on the order of the writes, and the proof
says so: while a call is under way the media are, cluster by cluster, what the
disk was before or what it is to be (`Between`), and the two differ by one entry
(`OneEntryMoves`): one place in one table, and clusters no *other* entry's chain
comes to.  One lemma per call shows the second from the disk's invariant, and
`OthersWhole` concludes for any mixture.

`InterruptedDeleteOnlyLeaks` does depend on it.  `HalfDeleted` describes the media
after any number of a delete's writes: the table without the entry, the chain
blanked up to some cluster, the FAT untouched.  The blanked set is closed under
predecessors and no listed entry leads into it, so what is left is still
`WellLinked` (`BlankedConsistent`); were the FAT written before the last cluster, a
free cluster would hold data.  The next boot therefore finds a `Bootable`
disk, all calls keep it so, and chains stay apart, end and read back without
`Filled`.  The theorem holds for any number of interrupted deletes with any calls in
between.

### The shell

`RoomFound` is a premise of `PathIsReal`, `CopyIsFresh` and `EveryEntrySeen`:
every write so far found the clusters and the slot it needed.  In the run it is
always true (`Tolerated`); the theorems allow every mishap, and the first proof
attempt failed without the premise, rightly so: a write that finds no room
returns 0 and has written the boot sector or a folder's own entry, and it is
from that entry that `cd` takes the number of the cluster it goes to.

The first three follow from one invariant, `ShellInv`, on top of `DiskInvariant`:

* `TablesKept`: the tables are `Tidy` as above, each names itself in slot 0
  (`SelfNamed`), and until an entry is removed in front of another the entries
  in use come first (`Dense`);
* `Situated`: the path leads from the root by listings and *comes twice to no
  folder*, the current folder is its last, and the copy is the table on the disk
  at the prompt and while a command scans;
* `CallKept`: a scan is at an entry of the copy that matches the typed name, and a
  command's destination is one its target stands for.

A driver call either adds an entry and keeps all others with what they lead to
(`Grows`), or removes the first entry of a name (`RemovesAsFile`).  The second is
the hard one, for nothing stops `mv` from deleting a folder as if it were a file.
What saves the path is that it repeats no folder: the entry goes from the
*last* folder of the path, and an entry there leads to none of the
folders before it, as two entries never lead to one cluster (`OwnedOnce`).

`NothingForgotten` needs to know what a command remembers between its calls,
with the power going between any two (`Memory`): as long as a command scans,
nothing has gone; what it deletes next is in its buffer, at risk, or what the
user named; what it writes over bears the name of its
destination; and the folder it writes to is a folder still.  The risks were told
before its first call, so the proof has to know why no later read adds one.  When the
target is the source, mv reads the same file a second time: `ReadAgain` shows that this
succeeds as the first time did (the entry is the same and the buffer as long),
and leaves the same contents.  When it is not, a second read that succeeds,
of a file or of a folder's table, has found an entry of the target's name
(`ReadFits`, `MoveTargetFolder`), and then the source was at risk from the start.  `DeletesFirst` says
that the delete takes the contents of the first entry of the name and no others.
TLC checked `ShellInv` and `Memory` on the states of the run `shell` before
they were proved.

### Keyboard and kernel start

`Heard` and `StaysInBuffer` follow from an invariant of four parts: the types;
that the driver listens only while the shell waits (`ListensInWait`); that
nothing in service blocks the keyboard, and a waiting scancode has made its
request (`NothingBlocks`); and the bound of the buffer's index.

`LineAsTyped` compares the buffer with `LineOf` the keys pressed, a function that
takes one key after the other.  The keys the driver has taken and the ones still
queued are at every moment all that were pressed (`QueueIsLast`), and the
buffer is the line of the taken ones (`LineSoFar`), which `TakesNext` extends by a
key and every branch of `keyboard_isr` follows.  `LinesExist` shows that the
recursive function is one.

`KernelStartProofs` has the types, `NoStaleTranslation`, and four statements
about the page directory and the steps: what is known within the three steps of
an allocation (`Allocating`), that frames in the directory were given before the
next free one and given once (`FramesGiven`), which entries user mode may use
(`UserFlags`), and what has been done at each step of the start (`Done`).

### The terminal

First the screen: a tracker moved by a place, or to the next row, is at most one
place off the screen, and whatever order C evaluates row and column in, the next
operation brings it back (`ResolvedFacts`, and one lemma per operation).  Then
the line: `EchoIsLine` is kept together with `Quiet` (between two lines the index is
0 and the cursor at the tracker) and `Filled` (without arrow keys the buffer is
filled exactly up to the index).  `Filled` is what a backspace needs: the place it
blanks on the screen holds nothing of the line.

Then the words.  `LineEntered` says that after Enter the buffer is the line on the
screen and zeroes.  `ParsedLists` goes through `parse_input` by a least counterexample
over the number of words there is still room for: from a place between two words
the parser returns a list of all words behind it, in order, if there is `Roomy`
space, two characters per word but for the first; `OneWord` says that the next
word the parser copies is the next of the line, and that none lies before it.  A
line shorter than the shell's buffer always leaves that room (`WordsAssumption`).
Last, `NameIsIt`: since no name abbreviates an earlier one (`NamesAssumption`, true
of the eight names of system call 7), the first name that the comparison accepts
for a name is that name.

### Only model-checked

Liveness: `EnterDelivers`, `ScanEnds`, `ShellStarts` and `CallsEnd`.  Their
proofs need ENABLED, which is out of this prover's reach.  What each run's
counter or measure is can be read from the model: the scan goes forward, a walk
visits a cluster once.

The mishap `noName` is left to the proofs: in `fat32_calls` nobody gives an
empty name to write, in the theorems anybody may.

## 5. Not modelled

* The constant code and data descriptors of the GDT and the register contents of
  the jump to user mode: constants written once.
* The ATA register protocol, a cut within one cluster, port I/O and the memory
  helpers: single instructions and byte loops.
* Colours, and the wording of what is printed.
* The stack behind the buffers of `rm` and `mv`, which are as long as the file and
  filled in whole clusters (`user-shell.c:384`, `437`).
* Files longer than a cluster in `Shell`: `cat` and `cp` read into a cluster on
  the stack and pass the file's size as its size (`user-shell.c:148`), so what
  follows is undefined.  Paths deeper than `MaxDepth` for the same reason: `cd`
  does not look at the length of `path_cluster` (`user-shell.c:350`).
* The overflow of the keyboard controller's own queue.
* `test.c`, `src/disk.c` and `src/command/`: not linked into the system.

## 6. Plan

Done: the FAT32 driver with its loops, its abstract file store and the
refinement; power cuts; the keyboard, the screen and the command line; the
shell; paging and the kernel's start; the proofs above.

Left: the shell with commands that start on a full disk (`Roomy` dropped from
`Begin`), for which the driver's answers are proved already; the order of the
cluster writes within the calls of a command, which would join `Shell` with
`Fat32PowerCut`.
