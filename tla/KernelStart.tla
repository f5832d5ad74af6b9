------------------------------ MODULE KernelStart ------------------------------
(***************************************************************************)
(* From the boot loader to the shell: kernel_loader.s, kernel_setup        *)
(* (kernel.c), the page allocator (paging/paging.c), and what gdt.c and    *)
(* interrupt.c prepare for interrupts from the shell.                      *)
(*                                                                         *)
(* The processor is modelled from how the code uses it.  It translates by  *)
(* the page directory and caches translations of present entries whenever  *)
(* it likes (paging.h:53-54), until an invlpg; an address without an entry *)
(* raises the page fault, whose handler halts with interrupts off; and an  *)
(* interrupt from user mode takes its stack from the task state segment.   *)
(*                                                                         *)
(* Addresses are in KiB.  Of the 1024 pages only the two are kept that the *)
(* tables start with, which are those the allocator accepts.               *)
(***************************************************************************)
EXTENDS Integers, Sequences

CONSTANTS
    Requests  \* lists of virtual addresses that kernel_setup allocates

ASSUME RequestsAssumption == Requests \subseteq Seq(Nat)

UserPage   == 0
KernelPage == 768                  \* 0x300, virtual address 0xC0000000
Pages      == {UserPage, KernelPage}

PAGE_FRAME_SIZE == 4096            \* 4 MiB
FirstPhysical   == 1024            \* 0x100000
LastPhysical    == 130944          \* 0x07FE0000, "default QEMU config"
KernelFrame     == 0

(* What the root directory of the disk holds under the name "shell".       *)
Disks == {"file", "folder", "tooLarge", "nothing"}

VARIABLES
    pc,         \* the next step, see Steps
    pde,        \* _paging_kernel_page_directory
    tlb,        \* cached translations; not present: none is cached
    last_available_physical_addr,  \* page_driver_state
    wanted,     \* addresses still to be allocated
    disk,       \* never changes
    shellIn,    \* the frames the shell was read into
    interrupts, \* the table is loaded and interrupts are enabled
    tss,        \* [base, tr, esp0]: the descriptor has the segment's base,
                \*   the task register has loaded it, the segment has a stack
    outcome     \* "running", "halted" in the page fault handler, "reset" by
                \*   an interrupt without a stack, "lost" without the kernel

tables == <<pde, tlb, last_available_physical_addr>>
vars   == <<pc, tables, wanted, disk, shellIn, interrupts, tss, outcome>>

Entries    == [present : BOOLEAN, user : BOOLEAN, frame : 0 .. 1023]
NotPresent == [present |-> FALSE, user |-> FALSE, frame |-> 0]

(* The order of kernel_loader.s and kernel_setup; the steps of an          *)
(* allocation come between "allocate" and itself.                          *)
BugStackLate == <<"unmap", "forget", "idt", "install_tss", "load_tr", "allocate",
                  "read", "execute", "set_stack">>
BugReadFirst == <<"unmap", "forget", "idt", "install_tss", "load_tr", "read",
                  "allocate", "set_stack", "execute">>
Setup == <<"unmap", "forget", "idt", "install_tss", "load_tr", "allocate",
           "read", "set_stack", "execute">>
Steps == {Setup[i] : i \in DOMAIN Setup}
            \cup {"set_flag", "set_address", "flush", "user", "call"}

After(step) ==
    LET i == CHOOSE i \in DOMAIN Setup : Setup[i] = step IN Setup[i + 1]

TypeOK ==
    /\ pc \in Steps
    /\ pde \in [Pages -> Entries] /\ tlb \in [Pages -> Entries]
    /\ last_available_physical_addr \in {PAGE_FRAME_SIZE * n : n \in 1 .. 31}
    /\ wanted \in Seq(Nat)
    /\ disk \in Disks
    /\ shellIn \subseteq 0 .. 1023
    /\ interrupts \in BOOLEAN
    /\ tss \in [base : BOOLEAN, tr : BOOLEAN, esp0 : BOOLEAN]
    /\ outcome \in {"running", "halted", "reset", "lost"}

(* Paging is on with the tables of paging.c, the loader runs at its        *)
(* physical address, and the multiboot loader left interrupts off.         *)
Init ==
    /\ pc = "unmap"
    /\ pde = [p \in Pages |-> [present |-> TRUE, user |-> FALSE, frame |-> KernelFrame]]
    /\ tlb = pde
    /\ last_available_physical_addr = PAGE_FRAME_SIZE
    /\ wanted \in Requests
    /\ disk \in Disks
    /\ shellIn = {}
    /\ interrupts = FALSE
    /\ tss = [base |-> FALSE, tr |-> FALSE, esp0 |-> FALSE]
    /\ outcome = "running"

-----------------------------------------------------------------------------
(* The processor's memory unit.                                            *)

Translation(p) == IF tlb[p].present THEN tlb[p] ELSE pde[p]

Caches(p) ==
    /\ outcome = "running"
    /\ pde[p].present
    /\ tlb' = [tlb EXCEPT ![p] = Translation(p)]
    /\ UNCHANGED <<pc, pde, last_available_physical_addr, wanted, disk, shellIn,
                   interrupts, tss, outcome>>

Evicts(p) ==
    /\ outcome = "running"
    /\ tlb' = [tlb EXCEPT ![p] = NotPresent]
    /\ UNCHANGED <<pc, pde, last_available_physical_addr, wanted, disk, shellIn,
                   interrupts, tss, outcome>>

flush_single_tlb(p) == tlb' = [tlb EXCEPT ![p] = NotPresent]

KernelIsMapped ==
    Translation(KernelPage).present /\ Translation(KernelPage).frame = KernelFrame

(* The kernel's next instruction is fetched from its page.                 *)
At(step) == outcome = "running" /\ pc = step /\ KernelIsMapped

LosesKernel ==
    /\ outcome = "running"
    /\ ~KernelIsMapped
    /\ outcome' = "lost"
    /\ UNCHANGED <<pc, tables, wanted, disk, shellIn, interrupts, tss>>

-----------------------------------------------------------------------------
(* kernel_loader.s, and what kernel_setup prepares before the allocations. *)

(* mov dword [_paging_kernel_page_directory], 0                            *)
Unmap ==
    /\ At("unmap")
    /\ pc' = After("unmap")
    /\ pde' = [pde EXCEPT ![UserPage] = NotPresent]
    /\ UNCHANGED <<tlb, last_available_physical_addr, wanted, disk, shellIn,
                   interrupts, tss, outcome>>

(* invlpg [0]                                                              *)
Forget ==
    /\ At("forget")
    /\ pc' = After("forget")
    /\ flush_single_tlb(UserPage)
    /\ UNCHANGED <<pde, last_available_physical_addr, wanted, disk, shellIn,
                   interrupts, tss, outcome>>

initialize_idt ==
    /\ At("idt")
    /\ pc' = After("idt")
    /\ interrupts' = TRUE
    /\ UNCHANGED <<tables, wanted, disk, shellIn, tss, outcome>>

gdt_install_tss ==
    /\ At("install_tss")
    /\ pc' = After("install_tss")
    /\ tss' = [tss EXCEPT !.base = TRUE]
    /\ UNCHANGED <<tables, wanted, disk, shellIn, interrupts, outcome>>

(* ltr copies the descriptor as it is.                                     *)
set_tss_register ==
    /\ At("load_tr")
    /\ pc' = After("load_tr")
    /\ tss' = [tss EXCEPT !.tr = tss.base]
    /\ UNCHANGED <<tables, wanted, disk, shellIn, interrupts, outcome>>

-----------------------------------------------------------------------------
(* allocate_single_user_page_frame and update_page_directory_entry.        *)

page_index(virtual_addr) == (virtual_addr \div PAGE_FRAME_SIZE) % 1024

Allocatable(virtual_addr) ==
    \/ virtual_addr < 4096
    \/ virtual_addr >= 3145728 /\ virtual_addr < 3149824

BugStartTested(addr)    == addr >= FirstPhysical /\ addr < LastPhysical
FrameIsAvailable(addr) ==
    LET new_physical_addr == addr + PAGE_FRAME_SIZE
    IN  new_physical_addr >= FirstPhysical /\ new_physical_addr < LastPhysical

(* kernel_setup does not look at the code.                                 *)
AllocateRefused ==
    /\ At("allocate") /\ wanted # <<>>
    /\ ~(Allocatable(Head(wanted)) /\ FrameIsAvailable(last_available_physical_addr))
    /\ wanted' = Tail(wanted)
    /\ UNCHANGED <<pc, tables, disk, shellIn, interrupts, tss, outcome>>

AllocateBegins ==
    /\ At("allocate") /\ wanted # <<>>
    /\ Allocatable(Head(wanted)) /\ FrameIsAvailable(last_available_physical_addr)
    /\ pc' = "set_flag"
    /\ UNCHANGED <<tables, wanted, disk, shellIn, interrupts, tss, outcome>>

(* The entry is present before it has its address.                         *)
SetFlag ==
    /\ At("set_flag")
    /\ pc' = "set_address"
    /\ pde' = [pde EXCEPT ![page_index(Head(wanted))].present = TRUE,
                          ![page_index(Head(wanted))].user = TRUE]
    /\ UNCHANGED <<tlb, last_available_physical_addr, wanted, disk, shellIn,
                   interrupts, tss, outcome>>

SetAddress ==
    /\ At("set_address")
    /\ pc' = "flush"
    /\ pde' = [pde EXCEPT ![page_index(Head(wanted))].frame =
                   (last_available_physical_addr \div PAGE_FRAME_SIZE) % 1024]
    /\ UNCHANGED <<tlb, last_available_physical_addr, wanted, disk, shellIn,
                   interrupts, tss, outcome>>

BugForgotten(p) == tlb' = tlb
Invalidated(p)  == flush_single_tlb(p)

BugNotAdvanced(addr) == addr
Advanced(addr)       == addr + PAGE_FRAME_SIZE

Flush ==
    /\ At("flush")
    /\ pc' = "allocate"
    /\ Invalidated(page_index(Head(wanted)))
    /\ last_available_physical_addr' = Advanced(last_available_physical_addr)
    /\ wanted' = Tail(wanted)
    /\ UNCHANGED <<pde, disk, shellIn, interrupts, tss, outcome>>

AllocateEnds ==
    /\ At("allocate") /\ wanted = <<>>
    /\ pc' = After("allocate")
    /\ UNCHANGED <<tables, wanted, disk, shellIn, interrupts, tss, outcome>>

-----------------------------------------------------------------------------
(* The shell.                                                              *)

(* read(request) into address 0.  Its code is not looked at: whatever the  *)
(* disk holds, the kernel goes on.                                         *)
ReadShell ==
    /\ At("read")
    /\ disk = "file" => Translation(UserPage).present
    /\ pc' = After("read")
    /\ shellIn' = IF disk = "file" THEN shellIn \cup {Translation(UserPage).frame} ELSE shellIn
    /\ UNCHANGED <<tables, wanted, disk, interrupts, tss, outcome>>

(* The page fault's handler halts, its gate having disabled interrupts.    *)
Halts ==
    /\ outcome' = "halted"
    /\ UNCHANGED <<pc, tables, wanted, disk, shellIn, interrupts, tss>>

ReadFaults ==
    /\ At("read")
    /\ disk = "file" /\ ~Translation(UserPage).present
    /\ Halts

ShellAtZero ==
    LET t == Translation(UserPage) IN t.present /\ t.user /\ t.frame \in shellIn

HasStack == tss.tr /\ tss.esp0

(* What is not the shell does what it likes, in the end a page fault.      *)
UserFaults ==
    /\ At("user")
    /\ HasStack /\ ~ShellAtZero
    /\ Halts

set_tss_kernel_current_stack ==
    /\ At("set_stack")
    /\ pc' = After("set_stack")
    /\ tss' = [tss EXCEPT !.esp0 = TRUE]
    /\ UNCHANGED <<tables, wanted, disk, shellIn, interrupts, outcome>>

kernel_execute_user_program ==
    /\ At("execute")
    /\ pc' = "user"
    /\ UNCHANGED <<tables, wanted, disk, shellIn, interrupts, tss, outcome>>

(* int 0x30 and the handler's iret.                                        *)
SystemCall ==
    /\ At("user") /\ HasStack
    /\ pc' = "call"
    /\ UNCHANGED <<tables, wanted, disk, shellIn, interrupts, tss, outcome>>

SystemCallReturns ==
    /\ At("call")
    /\ pc' = "user"
    /\ UNCHANGED <<tables, wanted, disk, shellIn, interrupts, tss, outcome>>

(* A keyboard interrupt; the handler returns to what it interrupted, if    *)
(* the processor has a stack for it when it comes from user mode.          *)
Interrupt ==
    /\ interrupts
    /\ At(pc)
    /\ outcome' = IF pc = "user" /\ ~HasStack THEN "reset" ELSE "running"
    /\ UNCHANGED <<pc, tables, wanted, disk, shellIn, interrupts, tss>>

-----------------------------------------------------------------------------
KernelStep ==
    \/ Unmap \/ Forget
    \/ initialize_idt \/ gdt_install_tss \/ set_tss_register
    \/ AllocateRefused \/ AllocateBegins
    \/ SetFlag \/ SetAddress \/ Flush
    \/ AllocateEnds
    \/ ReadShell
    \/ set_tss_kernel_current_stack \/ kernel_execute_user_program

Next ==
    \/ KernelStep
    \/ LosesKernel \/ ReadFaults \/ UserFaults \/ Interrupt
    \/ SystemCall \/ SystemCallReturns
    \/ \E p \in Pages : Caches(p) \/ Evicts(p)

Spec == Init /\ [][Next]_vars

(* The processor goes on.                                                  *)
FairSpec == Spec /\ WF_vars(KernelStep)

-----------------------------------------------------------------------------
(* Properties.                                                             *)

(* Each page has a frame of its own, and the next frame to give belongs to *)
(* no page; but for the loader's identity page and an entry that is being  *)
(* changed.                                                                *)
FramesApart ==
    pc \notin {"unmap", "set_address"} =>
        /\ pde[UserPage].present => pde[UserPage].frame # pde[KernelPage].frame
        /\ pc # "flush" =>
              \A p \in Pages : PAGE_FRAME_SIZE * pde[p].frame < last_available_physical_addr

(* A frame that is given ends within the memory there is.                  *)
FramesExist ==
    \A p \in Pages : PAGE_FRAME_SIZE * (pde[p].frame + 1) <= LastPhysical

(* A translation the processor has cached is the directory's, unless that  *)
(* entry is being changed: nobody reads or runs through a stale one.       *)
NoStaleTranslation ==
    \A p \in Pages :
        tlb[p].present /\ tlb[p] # pde[p] =>
            \/ pc = "forget" /\ p = UserPage
            \/ pc \in {"set_address", "flush"} /\ p = page_index(Head(wanted))

(* The user's program cannot reach the kernel's frame, and the shell was   *)
(* not read over the kernel, even though an entry being changed leads to   *)
(* the kernel's frame for a moment.                                        *)
KernelIsProtected ==
    /\ KernelFrame \notin shellIn
    /\ pc \in {"user", "call"} =>
          \A p \in Pages : Translation(p).present /\ Translation(p).user
                               => Translation(p).frame # KernelFrame

(* When the disk has a shell, it is what runs at address 0 and not what a  *)
(* page mapped there earlier or later holds.                               *)
ShellRuns == pc \in {"user", "call"} /\ disk = "file" => ShellAtZero

(* No interrupt finds the processor in user mode without a stack.          *)
NoReset == outcome # "reset"

(* kernel_setup reaches the shell when the disk has one, as long as it     *)
(* asks for the user's page and not for the kernel's.                      *)
AsksForUserPage ==
    /\ \E i \in DOMAIN wanted : wanted[i] < 4096
    /\ \A i \in DOMAIN wanted : Allocatable(wanted[i]) => wanted[i] < 4096

ShellStarts == pc = "unmap" /\ disk = "file" /\ AsksForUserPage ~> pc = "user"

=============================================================================
