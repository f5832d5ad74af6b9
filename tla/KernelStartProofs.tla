--------------------------- MODULE KernelStartProofs ---------------------------
(***************************************************************************)
(* Theorems about KernelStart, for every list of addresses that            *)
(* kernel_setup may be made to allocate.                                   *)
(*                                                                         *)
(* The invariant has four parts, each in terms of the page directory       *)
(* alone; what the processor sees through its cache follows from           *)
(* NoStaleTranslation, which is inductive as it stands.                    *)
(***************************************************************************)
EXTENDS KernelStart, SequenceTheorems, TLAPS

(* A page that is being allocated was asked for, may be allocated, and     *)
(* there is a frame for it.                                                *)
Allocating ==
    pc \in {"set_flag", "set_address", "flush"} =>
        /\ wanted # <<>>
        /\ Allocatable(Head(wanted))
        /\ FrameIsAvailable(last_available_physical_addr)

(* Frames in the directory were given before the next one, and are given   *)
(* once; frame 0 is the kernel's, and that of an entry without address.    *)
FramesGiven ==
    /\ \A p \in Pages :
          IF pc = "flush" /\ p = page_index(Head(wanted))
            THEN PAGE_FRAME_SIZE * pde[p].frame = last_available_physical_addr
            ELSE PAGE_FRAME_SIZE * pde[p].frame < last_available_physical_addr
    /\ pc # "unmap" =>
          \/ pde[UserPage].frame # pde[KernelPage].frame
          \/ /\ pde[UserPage].frame = 0
             /\ pde[UserPage].present => pc = "set_address" /\ page_index(Head(wanted)) = UserPage

(* The user may reach a page from when it is allocated for him, and the    *)
(* kernel's then has another frame.                                        *)
UserFlags ==
    /\ pde[UserPage].present => pc = "unmap" \/ pde[UserPage].user
    /\ pde[KernelPage].user /\ pde[KernelPage].frame = KernelFrame
          => pc = "set_address" /\ page_index(Head(wanted)) = KernelPage

AfterRead == {"set_stack", "execute", "user", "call"}

(* What the steps up to pc have done.                                      *)
Done ==
    /\ pc \in AfterRead /\ disk = "file" =>
          pde[UserPage].present /\ pde[UserPage].frame \in shellIn
    /\ KernelFrame \notin shellIn
    /\ pc \notin {"unmap", "forget", "idt", "install_tss"} => tss.base
    /\ pc \notin {"unmap", "forget", "idt", "install_tss", "load_tr"} => tss.tr
    /\ pc \in {"execute", "user", "call"} => tss.esp0
    /\ pc \in {"user", "call"} => pde[KernelPage].frame = KernelFrame
    /\ outcome # "reset"

IInv == TypeOK /\ Allocating /\ FramesGiven /\ UserFlags /\ NoStaleTranslation /\ Done

-----------------------------------------------------------------------------
(* The steps of kernel_setup, one after the other.                         *)
LEMMA StepsAre ==
    Steps = {"unmap", "forget", "idt", "install_tss", "load_tr", "allocate", "read",
             "set_stack", "execute", "set_flag", "set_address", "flush", "user", "call"}
BY DEF Steps, Setup

LEMMA AfterIs ==
    /\ After("unmap") = "forget"
    /\ After("forget") = "idt"
    /\ After("idt") = "install_tss"
    /\ After("install_tss") = "load_tr"
    /\ After("load_tr") = "allocate"
    /\ After("allocate") = "read"
    /\ After("read") = "set_stack"
    /\ After("set_stack") = "execute"
<1> DEFINE Index(s) == CHOOSE i \in DOMAIN Setup : Setup[i] = s
<1>1. \A i, j \in DOMAIN Setup : Setup[i] = Setup[j] => i = j
  BY DEF Setup
<1>2. \A i \in DOMAIN Setup : Index(Setup[i]) = i
  BY <1>1
<1>3. \A i \in 1 .. 8 : After(Setup[i]) = Setup[i + 1]
  <2> TAKE i \in 1 .. 8
  <2>1. i \in DOMAIN Setup
    BY DEF Setup
  <2> QED
    BY <2>1, <1>2 DEF After
<1>4. /\ Setup[1] = "unmap" /\ Setup[2] = "forget" /\ Setup[3] = "idt"
      /\ Setup[4] = "install_tss" /\ Setup[5] = "load_tr" /\ Setup[6] = "allocate"
      /\ Setup[7] = "read" /\ Setup[8] = "set_stack" /\ Setup[9] = "execute"
  BY DEF Setup
<1> HIDE DEF Index
<1>5. \A i \in 1 .. 8 : i \in {1, 2, 3, 4, 5, 6, 7, 8}
  OBVIOUS
<1> QED
  BY <1>3, <1>4

(* The allocator accepts addresses of the two pages only.                  *)
LEMMA PageOfAllocatable ==
    ASSUME NEW v \in Nat, Allocatable(v)
    PROVE  page_index(v) \in Pages
BY DEF Allocatable, page_index, Pages, UserPage, KernelPage, PAGE_FRAME_SIZE

(* The address of a frame is whole, and it is the entry's.                 *)
LEMMA FrameOfAddress ==
    ASSUME NEW addr \in {PAGE_FRAME_SIZE * n : n \in 1 .. 31}
    PROVE  /\ addr \in Nat
           /\ (addr \div PAGE_FRAME_SIZE) % 1024 \in 1 .. 31
           /\ PAGE_FRAME_SIZE * ((addr \div PAGE_FRAME_SIZE) % 1024) = addr
BY DEF PAGE_FRAME_SIZE

LEMMA NextAddress ==
    ASSUME NEW addr \in {PAGE_FRAME_SIZE * n : n \in 1 .. 31}, FrameIsAvailable(addr)
    PROVE  addr + PAGE_FRAME_SIZE \in {PAGE_FRAME_SIZE * n : n \in 1 .. 31}
<1>1. PICK n \in 1 .. 31 : addr = PAGE_FRAME_SIZE * n
  OBVIOUS
<1>2. n + 1 \in 1 .. 31 /\ addr + PAGE_FRAME_SIZE = PAGE_FRAME_SIZE * (n + 1)
  BY <1>1 DEF FrameIsAvailable, PAGE_FRAME_SIZE, FirstPhysical, LastPhysical
<1> QED
  BY <1>2

(* The state's own next address, and its entries.                          *)
LEMMA TypeFacts ==
    ASSUME TypeOK
    PROVE  /\ last_available_physical_addr \in Nat
           /\ last_available_physical_addr > 0
           /\ (last_available_physical_addr \div PAGE_FRAME_SIZE) % 1024 \in 1 .. 31
           /\ PAGE_FRAME_SIZE * ((last_available_physical_addr \div PAGE_FRAME_SIZE) % 1024)
                 = last_available_physical_addr
           /\ \A p \in Pages : pde[p] \in Entries /\ pde[p].frame \in 0 .. 1023 /\ pde[p].frame \in Nat
<1>1. last_available_physical_addr \in {PAGE_FRAME_SIZE * n : n \in 1 .. 31}
  BY DEF TypeOK
<1>2. /\ last_available_physical_addr \in Nat
      /\ (last_available_physical_addr \div PAGE_FRAME_SIZE) % 1024 \in 1 .. 31
      /\ PAGE_FRAME_SIZE * ((last_available_physical_addr \div PAGE_FRAME_SIZE) % 1024)
            = last_available_physical_addr
  BY <1>1, FrameOfAddress
<1>3. last_available_physical_addr > 0
  BY <1>2 DEF PAGE_FRAME_SIZE
<1>4. \A p \in Pages : pde[p] \in Entries
  BY DEF TypeOK
<1>5. \A e \in Entries : e.frame \in 0 .. 1023 /\ e.frame \in Nat
  BY DEF Entries
<1> QED
  BY <1>2, <1>3, <1>4, <1>5

-----------------------------------------------------------------------------
(* The invariant.                                                          *)

LEMMA InitInv == Init => IInv
<1> SUFFICES ASSUME Init PROVE IInv
  OBVIOUS
<1>1. TypeOK
  <2>1. last_available_physical_addr \in {PAGE_FRAME_SIZE * n : n \in 1 .. 31}
    BY DEF Init, PAGE_FRAME_SIZE
  <2>2. pde \in [Pages -> Entries] /\ tlb \in [Pages -> Entries]
    BY DEF Init, Entries, KernelFrame
  <2>3. wanted \in Seq(Nat) /\ pc \in Steps
    BY StepsAre, RequestsAssumption DEF Init
  <2> QED
    BY <2>1, <2>2, <2>3 DEF Init, TypeOK
<1>2. Allocating /\ FramesGiven /\ UserFlags /\ NoStaleTranslation /\ Done
  BY DEF Init, Allocating, FramesGiven, UserFlags, NoStaleTranslation, Done, AfterRead,
         Pages, UserPage, KernelPage, KernelFrame, PAGE_FRAME_SIZE
<1> QED
  BY <1>1, <1>2 DEF IInv

(* Steps that touch neither the directory nor the cache.                   *)
LEMMA QuietInv ==
    ASSUME IInv,
           \/ initialize_idt \/ gdt_install_tss \/ set_tss_register
           \/ AllocateRefused \/ AllocateBegins \/ AllocateEnds
           \/ set_tss_kernel_current_stack \/ kernel_execute_user_program
           \/ LosesKernel \/ ReadFaults \/ UserFaults \/ Interrupt
           \/ SystemCall \/ SystemCallReturns
    PROVE  IInv'
<1>0. /\ UNCHANGED <<pde, tlb, last_available_physical_addr, disk, shellIn>>
      /\ UNCHANGED wanted \/ AllocateRefused
      /\ pc \in {"idt", "install_tss", "load_tr", "allocate", "set_stack", "execute", "user", "call"}
           \/ UNCHANGED <<pc, wanted, interrupts, tss>>
  BY DEF initialize_idt, gdt_install_tss, set_tss_register, AllocateRefused, AllocateBegins,
         AllocateEnds, set_tss_kernel_current_stack, kernel_execute_user_program, LosesKernel,
         ReadFaults, UserFaults, Halts, Interrupt, SystemCall, SystemCallReturns, At, tables
<1>1. TypeOK'
  <2>1. wanted' \in Seq(Nat)
    <3>1. CASE UNCHANGED wanted
      BY <3>1 DEF IInv, TypeOK
    <3>2. CASE AllocateRefused
      BY <3>2, HeadTailProperties DEF AllocateRefused, IInv, TypeOK
    <3> QED
      BY <1>0, <3>1, <3>2
  <2>2. pc' \in Steps
    BY AfterIs, StepsAre
       DEF IInv, TypeOK, initialize_idt, gdt_install_tss, set_tss_register, AllocateRefused,
           AllocateBegins, AllocateEnds, set_tss_kernel_current_stack,
           kernel_execute_user_program, LosesKernel, ReadFaults, UserFaults, Halts, Interrupt,
           SystemCall, SystemCallReturns, At, tables
  <2>3. interrupts' \in BOOLEAN
    <3>1. UNCHANGED interrupts \/ interrupts' = TRUE
      BY DEF initialize_idt, gdt_install_tss, set_tss_register, AllocateRefused,
               AllocateBegins, AllocateEnds, set_tss_kernel_current_stack,
               kernel_execute_user_program, LosesKernel, ReadFaults, UserFaults, Halts,
               Interrupt, SystemCall, SystemCallReturns, At, tables
    <3> QED
      BY <3>1 DEF IInv, TypeOK
  <2>4. outcome' \in {"running", "halted", "reset", "lost"}
    <3>1. UNCHANGED outcome \/ outcome' \in {"running", "halted", "reset", "lost"}
      BY DEF initialize_idt, gdt_install_tss, set_tss_register, AllocateRefused,
               AllocateBegins, AllocateEnds, set_tss_kernel_current_stack,
               kernel_execute_user_program, LosesKernel, ReadFaults, UserFaults, Halts,
               Interrupt, SystemCall, SystemCallReturns, At, tables
    <3> QED
      BY <3>1 DEF IInv, TypeOK
  <2>5. tss' \in [base : BOOLEAN, tr : BOOLEAN, esp0 : BOOLEAN]
    <3>1. \/ UNCHANGED tss
          \/ tss' = [tss EXCEPT !.base = TRUE]
          \/ tss' = [tss EXCEPT !.tr = tss.base]
          \/ tss' = [tss EXCEPT !.esp0 = TRUE]
      BY DEF initialize_idt, gdt_install_tss, set_tss_register, AllocateRefused,
               AllocateBegins, AllocateEnds, set_tss_kernel_current_stack,
               kernel_execute_user_program, LosesKernel, ReadFaults, UserFaults, Halts,
               Interrupt, SystemCall, SystemCallReturns, At, tables
    <3>2. tss \in [base : BOOLEAN, tr : BOOLEAN, esp0 : BOOLEAN] /\ tss.base \in BOOLEAN
      BY DEF IInv, TypeOK
    <3>3. CASE UNCHANGED tss
      BY <3>2, <3>3
    <3>4. CASE tss' = [tss EXCEPT !.base = TRUE]
      BY <3>2, <3>4
    <3>5. CASE tss' = [tss EXCEPT !.tr = tss.base]
      BY <3>2, <3>5
    <3>6. CASE tss' = [tss EXCEPT !.esp0 = TRUE]
      BY <3>2, <3>6
    <3> QED
      BY <3>1, <3>3, <3>4, <3>5, <3>6
  <2> QED
    BY <1>0, <2>1, <2>2, <2>3, <2>4, <2>5 DEF IInv, TypeOK
<1>2. Allocating'
  BY <1>0, AfterIs
     DEF IInv, Allocating, initialize_idt, gdt_install_tss, set_tss_register, AllocateRefused,
         AllocateBegins, AllocateEnds, set_tss_kernel_current_stack,
         kernel_execute_user_program, LosesKernel, ReadFaults, UserFaults, Halts, Interrupt,
         SystemCall, SystemCallReturns, At
(* Where they go to and come from there is no entry half changed.          *)
<1>3. /\ \/ UNCHANGED <<pc, wanted>>
         \/ pc \notin {"unmap", "forget", "set_flag", "set_address", "flush"}
      /\ pc' \in {"unmap", "forget", "set_address", "flush"} => UNCHANGED <<pc, wanted>>
  BY <1>0, AfterIs
     DEF initialize_idt, gdt_install_tss, set_tss_register, AllocateRefused, AllocateBegins,
         AllocateEnds, set_tss_kernel_current_stack, kernel_execute_user_program, LosesKernel,
         ReadFaults, UserFaults, Halts, Interrupt, SystemCall, SystemCallReturns, At
<1>4. FramesGiven' /\ UserFlags' /\ NoStaleTranslation'
  BY <1>0, <1>3 DEF IInv, FramesGiven, UserFlags, NoStaleTranslation
<1>5. Done'
  <2>1. pc' \in AfterRead => pc \in AfterRead
    BY AfterIs
       DEF AfterRead, initialize_idt, gdt_install_tss, set_tss_register, AllocateRefused,
           AllocateBegins, AllocateEnds, set_tss_kernel_current_stack,
           kernel_execute_user_program, LosesKernel, ReadFaults, UserFaults, Halts, Interrupt,
           SystemCall, SystemCallReturns, At
  <2>2. /\ pc' \notin {"unmap", "forget", "idt", "install_tss"} => tss'.base
        /\ pc' \notin {"unmap", "forget", "idt", "install_tss", "load_tr"} => tss'.tr
        /\ pc' \in {"execute", "user", "call"} => tss'.esp0
    BY SMTT(20), AfterIs
       DEF IInv, TypeOK, Done, initialize_idt, gdt_install_tss, set_tss_register, AllocateRefused,
           AllocateBegins, AllocateEnds, set_tss_kernel_current_stack,
           kernel_execute_user_program, LosesKernel, ReadFaults, UserFaults, Halts, Interrupt,
           SystemCall, SystemCallReturns, At
  <2>3. pc' \in {"user", "call"} => pde[KernelPage].frame = KernelFrame
    BY AfterIs
       DEF IInv, Done, NoStaleTranslation, Pages, UserPage, KernelPage, Translation,
           KernelIsMapped, initialize_idt, gdt_install_tss, set_tss_register, AllocateRefused,
           AllocateBegins, AllocateEnds, set_tss_kernel_current_stack,
           kernel_execute_user_program, LosesKernel, ReadFaults, UserFaults, Halts, Interrupt,
           SystemCall, SystemCallReturns, At
  <2>4. outcome' # "reset"
    BY DEF IInv, Done, HasStack, initialize_idt, gdt_install_tss, set_tss_register,
           AllocateRefused, AllocateBegins, AllocateEnds, set_tss_kernel_current_stack,
           kernel_execute_user_program, LosesKernel, ReadFaults, UserFaults, Halts, Interrupt,
           SystemCall, SystemCallReturns, At
  <2> QED
    BY <1>0, <2>1, <2>2, <2>3, <2>4 DEF IInv, Done
<1> QED
  BY <1>1, <1>2, <1>4, <1>5 DEF IInv

(* The loader's steps, and those of the processor's cache.                 *)
LEMMA UnmapInv ==
    ASSUME IInv, Unmap
    PROVE  IInv'
<1>1. TypeOK'
  <2>1. pde' \in [Pages -> Entries]
    <3>1. NotPresent \in Entries
      BY DEF NotPresent, Entries
    <3> QED
      BY <3>1 DEF IInv, TypeOK, Unmap
  <2> QED
    BY <2>1, AfterIs, StepsAre DEF IInv, TypeOK, Unmap, At
<1>2. /\ pc = "unmap" /\ pc' = "forget"
      /\ pde'[UserPage] = NotPresent /\ pde'[KernelPage] = pde[KernelPage]
      /\ UNCHANGED <<tlb, last_available_physical_addr, wanted, disk, shellIn, interrupts,
                     tss, outcome>>
  BY AfterIs DEF IInv, TypeOK, Unmap, At, Pages, UserPage, KernelPage
<1>3. pde[KernelPage].frame = KernelFrame /\ last_available_physical_addr > 0
  <2>1. last_available_physical_addr > 0
    BY TypeFacts DEF IInv
  <2>2. pde[KernelPage].frame = KernelFrame
    BY <1>2 DEF IInv, NoStaleTranslation, Unmap, At, KernelIsMapped, Translation, Pages,
                UserPage, KernelPage
  <2> QED
    BY <2>1, <2>2
<1>4. Allocating' /\ UserFlags' /\ NoStaleTranslation' /\ Done'
  BY <1>2 DEF IInv, Allocating, UserFlags, NoStaleTranslation, Done, AfterRead, NotPresent,
              Pages, UserPage, KernelPage
<1>5. FramesGiven'
  BY <1>2, <1>3 DEF IInv, FramesGiven, NotPresent, Pages, UserPage, KernelPage, KernelFrame,
                    PAGE_FRAME_SIZE
<1> QED
  BY <1>1, <1>4, <1>5 DEF IInv

LEMMA CacheInv ==
    ASSUME IInv, Forget \/ \E p \in Pages : Caches(p) \/ Evicts(p)
    PROVE  IInv'
<1>1. /\ UNCHANGED <<pde, last_available_physical_addr, wanted, disk, shellIn, interrupts,
                     tss, outcome>>
      /\ UNCHANGED pc \/ (pc = "forget" /\ pc' = "idt" /\ ~tlb'[UserPage].present)
      /\ \A p \in Pages : tlb'[p] \in {tlb[p], NotPresent, pde[p]}
  BY AfterIs DEF IInv, TypeOK, Forget, Caches, Evicts, flush_single_tlb, At, Translation,
                 NotPresent, Pages, UserPage, KernelPage
<1>2. TypeOK'
  <2>1. tlb' \in [Pages -> Entries]
    <3>1. \E p \in Pages : tlb' \in {[tlb EXCEPT ![p] = NotPresent], [tlb EXCEPT ![p] = Translation(p)]}
      BY DEF Forget, Caches, Evicts, flush_single_tlb, Pages
    <3>2. NotPresent \in Entries /\ \A p \in Pages : Translation(p) \in Entries
      <4>1. NotPresent \in Entries
        BY DEF NotPresent, Entries
      <4>2. \A p \in Pages : pde[p] \in Entries /\ tlb[p] \in Entries
        BY DEF IInv, TypeOK
      <4> QED
        BY <4>1, <4>2 DEF Translation
    <3> QED
      BY <3>1, <3>2 DEF IInv, TypeOK
  <2> QED
    BY <1>1, <2>1, StepsAre DEF IInv, TypeOK
<1>3. Allocating' /\ FramesGiven' /\ UserFlags' /\ Done'
  BY <1>1 DEF IInv, Allocating, FramesGiven, UserFlags, Done, AfterRead
<1>4. NoStaleTranslation'
  BY <1>1 DEF IInv, NoStaleTranslation, NotPresent, Pages, UserPage
<1> QED
  BY <1>2, <1>3, <1>4 DEF IInv

-----------------------------------------------------------------------------
(* The steps of one allocation.                                            *)

(* What they start from: the page and the frame there is for it.           *)
LEMMA AllocatingFacts ==
    ASSUME IInv, pc \in {"set_flag", "set_address", "flush"}
    PROVE  /\ page_index(Head(wanted)) \in Pages
           /\ Tail(wanted) \in Seq(Nat)
           /\ last_available_physical_addr + PAGE_FRAME_SIZE
                 \in {PAGE_FRAME_SIZE * n : n \in 1 .. 31}
<1>1. wanted # <<>> /\ wanted \in Seq(Nat) /\ Allocatable(Head(wanted))
      /\ FrameIsAvailable(last_available_physical_addr)
  BY DEF IInv, TypeOK, Allocating
<1>2. Head(wanted) \in Nat /\ Tail(wanted) \in Seq(Nat)
  BY <1>1, HeadTailProperties
<1> QED
  BY <1>1, <1>2, PageOfAllocatable, NextAddress DEF IInv, TypeOK

LEMMA SetFlagInv ==
    ASSUME IInv, SetFlag
    PROVE  IInv'
<1> DEFINE p0 == page_index(Head(wanted))
<1>1. p0 \in Pages /\ p0' = p0 /\ pde \in [Pages -> Entries]
  BY AllocatingFacts DEF SetFlag, At, IInv, TypeOK
<1>2. /\ pc = "set_flag" /\ pc' = "set_address"
      /\ pde' = [pde EXCEPT ![p0].present = TRUE, ![p0].user = TRUE]
      /\ UNCHANGED <<tlb, last_available_physical_addr, wanted, disk, shellIn, interrupts,
                     tss, outcome>>
  BY DEF SetFlag, At
<1>3. /\ pde' \in [Pages -> Entries]
      /\ \A p \in Pages \ {p0} : pde'[p] = pde[p]
      /\ pde'[p0].present /\ pde'[p0].user /\ pde'[p0].frame = pde[p0].frame
  <2> HIDE DEF p0
  <2>1. pde' = [pde EXCEPT ![p0] = [pde[p0] EXCEPT !.present = TRUE, !.user = TRUE]]
    BY <1>1, <1>2
  <2>2. pde[p0] \in Entries
    BY <1>1
  <2>3. [pde[p0] EXCEPT !.present = TRUE, !.user = TRUE] \in Entries
    BY ZenonT(30), <2>2 DEF Entries
  <2>4. /\ [pde[p0] EXCEPT !.present = TRUE, !.user = TRUE].present
        /\ [pde[p0] EXCEPT !.present = TRUE, !.user = TRUE].user
        /\ [pde[p0] EXCEPT !.present = TRUE, !.user = TRUE].frame = pde[p0].frame
    BY <2>2 DEF Entries
  <2> QED
    BY <1>1, <2>1, <2>3, <2>4
<1> HIDE DEF p0
<1>4. TypeOK'
  BY <1>2, <1>3, StepsAre DEF IInv, TypeOK
<1>5. Allocating' /\ NoStaleTranslation' /\ Done'
  <2>1. Allocating' /\ Done'
    BY <1>2 DEF IInv, Allocating, Done, AfterRead
  <2>2. NoStaleTranslation'
    BY <1>1, <1>2, <1>3 DEF IInv, NoStaleTranslation, p0
  <2> QED
    BY <2>1, <2>2
<1>6. FramesGiven' /\ UserFlags'
  <2>1. \A p \in Pages : pde'[p].frame = pde[p].frame
    BY <1>1, <1>3
  <2>2. p0 = UserPage \/ p0 = KernelPage
    BY <1>1 DEF Pages
  <2>3. FramesGiven'
    BY <1>1, <1>2, <1>3, <2>1, <2>2 DEF IInv, FramesGiven, Pages, p0
  <2>4. UserFlags'
    BY <1>1, <1>2, <1>3, <2>1, <2>2 DEF IInv, UserFlags, Pages, p0
  <2> QED
    BY <2>3, <2>4
<1> QED
  BY <1>4, <1>5, <1>6 DEF IInv

LEMMA SetAddressInv ==
    ASSUME IInv, SetAddress
    PROVE  IInv'
<1> DEFINE p0 == page_index(Head(wanted))
           f0 == (last_available_physical_addr \div PAGE_FRAME_SIZE) % 1024
<1>1. p0 \in Pages /\ p0' = p0 /\ pde \in [Pages -> Entries]
  BY AllocatingFacts DEF SetAddress, At, IInv, TypeOK
<1>2. /\ pc = "set_address" /\ pc' = "flush"
      /\ pde' = [pde EXCEPT ![p0].frame = f0]
      /\ UNCHANGED <<tlb, last_available_physical_addr, wanted, disk, shellIn, interrupts,
                     tss, outcome>>
  BY DEF SetAddress, At
<1>3. f0 \in 1 .. 31 /\ PAGE_FRAME_SIZE * f0 = last_available_physical_addr
  BY TypeFacts DEF IInv
<1> HIDE DEF f0
<1>4. /\ pde' \in [Pages -> Entries]
      /\ \A p \in Pages \ {p0} : pde'[p] = pde[p]
      /\ pde'[p0].present = pde[p0].present /\ pde'[p0].user = pde[p0].user
      /\ pde'[p0].frame = f0
  <2> HIDE DEF p0
  <2>1. pde[p0] \in Entries /\ pde' = [pde EXCEPT ![p0] = [pde[p0] EXCEPT !.frame = f0]]
    BY <1>1, <1>2
  <2> DEFINE entry == [pde[p0] EXCEPT !.frame = f0]
  <2>2. /\ entry \in Entries /\ entry.frame = f0
        /\ entry.present = pde[p0].present /\ entry.user = pde[p0].user
    BY <1>3, <2>1 DEF Entries
  <2> HIDE DEF entry
  <2>3. pde' = [pde EXCEPT ![p0] = entry]
    BY <2>1 DEF entry
  <2> QED
    BY <1>1, <2>2, <2>3
<1> HIDE DEF p0
<1>5. TypeOK'
  BY <1>2, <1>4, StepsAre DEF IInv, TypeOK
<1>6. Allocating' /\ Done'
  BY <1>2 DEF IInv, Allocating, Done, AfterRead
<1>7. NoStaleTranslation'
  BY <1>1, <1>2, <1>4 DEF IInv, NoStaleTranslation, p0
<1>8. \A p \in Pages : pde[p].frame \in Nat /\ pde[p].frame < f0
  <2>1. \A p \in Pages : pde[p].frame \in Nat
    BY TypeFacts DEF IInv
  <2>2. \A p \in Pages : PAGE_FRAME_SIZE * pde[p].frame < PAGE_FRAME_SIZE * f0
    BY <1>2, <1>3 DEF IInv, FramesGiven
  <2> QED
    BY <1>3, <2>1, <2>2 DEF PAGE_FRAME_SIZE
<1>9. p0 = UserPage \/ p0 = KernelPage
  BY <1>1 DEF Pages
<1>10. FramesGiven'
  <2>1. \A p \in Pages : IF p = p0 THEN PAGE_FRAME_SIZE * pde'[p].frame = last_available_physical_addr
                         ELSE PAGE_FRAME_SIZE * pde'[p].frame < last_available_physical_addr
    BY <1>2, <1>3, <1>4 DEF IInv, FramesGiven, p0
  <2>2. pde'[UserPage].frame # pde'[KernelPage].frame
    BY <1>3, <1>4, <1>8, <1>9 DEF Pages, UserPage, KernelPage
  <2> QED
    BY <1>1, <1>2, <2>1, <2>2 DEF FramesGiven, p0
<1>11. UserFlags'
  <2>1. pde'[UserPage].present => pde'[UserPage].user
    BY <1>2, <1>4, <1>9 DEF IInv, UserFlags, Pages
  <2>2. ~(pde'[KernelPage].user /\ pde'[KernelPage].frame = KernelFrame)
    BY <1>2, <1>3, <1>4, <1>9 DEF IInv, UserFlags, Pages, KernelFrame, p0
  <2> QED
    BY <2>1, <2>2 DEF UserFlags
<1> QED
  BY <1>5, <1>6, <1>7, <1>10, <1>11 DEF IInv

LEMMA FlushInv ==
    ASSUME IInv, Flush
    PROVE  IInv'
<1> DEFINE p0 == page_index(Head(wanted))
<1>1. p0 \in Pages /\ pde \in [Pages -> Entries] /\ tlb \in [Pages -> Entries]
  BY AllocatingFacts DEF Flush, At, IInv, TypeOK
<1>2. /\ pc = "flush" /\ pc' = "allocate"
      /\ tlb' = [tlb EXCEPT ![p0] = NotPresent]
      /\ last_available_physical_addr' = last_available_physical_addr + PAGE_FRAME_SIZE
      /\ wanted' = Tail(wanted)
      /\ UNCHANGED <<pde, disk, shellIn, interrupts, tss, outcome>>
  BY DEF Flush, At, Invalidated, flush_single_tlb, Advanced
<1>3. wanted' \in Seq(Nat) /\ last_available_physical_addr' \in {PAGE_FRAME_SIZE * n : n \in 1 .. 31}
  BY <1>2, AllocatingFacts
<1> HIDE DEF p0
<1>4. TypeOK'
  <2>1. NotPresent \in Entries
    BY DEF NotPresent, Entries
  <2>2. tlb' \in [Pages -> Entries]
    BY <1>1, <1>2, <2>1
  <2> QED
    BY <1>2, <1>3, <2>2, StepsAre DEF IInv, TypeOK
<1>5. Allocating' /\ Done'
  BY <1>2 DEF IInv, Allocating, Done, AfterRead
<1>6. NoStaleTranslation'
  BY <1>1, <1>2 DEF IInv, NoStaleTranslation, NotPresent, p0
<1>7. FramesGiven'
  <2>1. \A p \in Pages : PAGE_FRAME_SIZE * pde[p].frame < last_available_physical_addr'
    <3> TAKE p \in Pages
    <3>1. last_available_physical_addr \in Nat /\ pde[p].frame \in Nat
      BY TypeFacts DEF IInv
    <3> QED
      BY <1>2, <3>1 DEF IInv, FramesGiven, PAGE_FRAME_SIZE
  <2> QED
    BY <1>2, <2>1 DEF IInv, FramesGiven
<1>8. UserFlags'
  BY <1>2 DEF IInv, UserFlags
<1> QED
  BY <1>4, <1>5, <1>6, <1>7, <1>8 DEF IInv

LEMMA ReadShellInv ==
    ASSUME IInv, ReadShell
    PROVE  IInv'
<1>1. /\ pc = "read" /\ pc' = "set_stack"
      /\ UNCHANGED <<tables, wanted, disk, interrupts, tss, outcome>>
  BY AfterIs DEF ReadShell, At
(* The processor translates as the directory says.                         *)
<1>2. \A p \in Pages : Translation(p) = pde[p]
  BY <1>1 DEF IInv, NoStaleTranslation, Translation
<1>3. pde[KernelPage].frame = KernelFrame
  BY <1>2 DEF ReadShell, At, KernelIsMapped, Pages
<1>4. disk = "file" =>
         /\ pde[UserPage].present /\ pde[UserPage].frame # KernelFrame
         /\ pde[UserPage].frame \in 0 .. 1023
         /\ shellIn' = shellIn \cup {pde[UserPage].frame}
  <2>1. pde[UserPage] \in Entries /\ UserPage \in Pages /\ KernelPage \in Pages
    BY DEF IInv, TypeOK, Pages
  <2>2. pde[UserPage].frame \in 0 .. 1023
    BY <2>1 DEF Entries
  <2> SUFFICES ASSUME disk = "file"
               PROVE  /\ pde[UserPage].present /\ pde[UserPage].frame # KernelFrame
                      /\ shellIn' = shellIn \cup {pde[UserPage].frame}
    BY <2>2
  <2>3. pde[UserPage].present /\ shellIn' = shellIn \cup {pde[UserPage].frame}
    BY <1>2, <2>1 DEF ReadShell
  <2>4. pde[UserPage].frame # KernelFrame
    BY <1>1, <1>3, <2>1, <2>3 DEF IInv, FramesGiven, Pages, KernelFrame
  <2> QED
    BY <2>3, <2>4
<1>5. disk # "file" => shellIn' = shellIn
  BY DEF ReadShell
<1>6. TypeOK'
  <2>1. \A f \in shellIn' : f \in 0 .. 1023
    <3> SUFFICES ASSUME NEW f \in shellIn' PROVE f \in 0 .. 1023
      OBVIOUS
    <3>1. f \in shellIn \/ (f = pde[UserPage].frame /\ disk = "file")
      BY <1>4, <1>5
    <3>2. CASE f \in shellIn
      BY <3>2 DEF IInv, TypeOK
    <3>3. CASE f = pde[UserPage].frame /\ disk = "file"
      BY <1>4, <3>3
    <3> QED
      BY <3>1, <3>2, <3>3
  <2>2. shellIn' \subseteq 0 .. 1023
    BY <2>1, Zenon
  <2>3. pc' \in Steps
    BY <1>1, StepsAre
  <2> QED
    BY <1>1, <2>2, <2>3 DEF IInv, TypeOK, tables
<1>7. Allocating' /\ FramesGiven' /\ UserFlags' /\ NoStaleTranslation'
  BY <1>1 DEF IInv, Allocating, FramesGiven, UserFlags, NoStaleTranslation, tables
<1>8. Done'
  BY <1>1, <1>4, <1>5 DEF IInv, Done, AfterRead, tables
<1> QED
  BY <1>6, <1>7, <1>8 DEF IInv

-----------------------------------------------------------------------------
(* The strengthened invariant holds at every moment of the start.          *)
THEOREM Invariance == Spec => []IInv
<1>1. IInv /\ [Next]_vars => IInv'
  <2> SUFFICES ASSUME IInv, [Next]_vars PROVE IInv'
    OBVIOUS
  <2>1. CASE UNCHANGED vars
    BY <2>1 DEF vars, tables, IInv, TypeOK, Allocating, FramesGiven, UserFlags,
                NoStaleTranslation, Done, AfterRead
  <2>2. CASE Unmap
    BY <2>2, UnmapInv
  <2>3. CASE Forget \/ \E p \in Pages : Caches(p) \/ Evicts(p)
    BY <2>3, CacheInv
  <2>4. CASE SetFlag
    BY <2>4, SetFlagInv
  <2>5. CASE SetAddress
    BY <2>5, SetAddressInv
  <2>6. CASE Flush
    BY <2>6, FlushInv
  <2>7. CASE ReadShell
    BY <2>7, ReadShellInv
  <2> QED
    BY <2>1, <2>2, <2>3, <2>4, <2>5, <2>6, <2>7, QuietInv DEF Next, KernelStep
<1> QED
  BY InitInv, <1>1, PTL DEF Spec

(* Each variable keeps its type, the next frame's address among them.      *)
THEOREM TypeCorrect == Spec => []TypeOK
<1>1. IInv => TypeOK
  BY DEF IInv
<1> QED
  BY <1>1, Invariance, PTL

(* However many pages are asked for, and of whatever addresses, no two get *)
(* one frame, and the next frame to give is free.                          *)
THEOREM FramesStayApart == Spec => []FramesApart
<1>1. IInv => FramesApart
  <2> SUFFICES ASSUME IInv, pc \notin {"unmap", "set_address"} PROVE FramesApart
    BY DEF FramesApart
  <2>1. pde[UserPage].present => pde[UserPage].frame # pde[KernelPage].frame
    BY DEF IInv, FramesGiven
  <2>2. pc # "flush" =>
           \A p \in Pages : PAGE_FRAME_SIZE * pde[p].frame < last_available_physical_addr
    BY DEF IInv, FramesGiven
  <2> QED
    BY <2>1, <2>2 DEF FramesApart
<1> QED
  BY <1>1, Invariance, PTL

(* The allocator's limit keeps every frame within memory.                  *)
THEOREM FramesAlwaysExist == Spec => []FramesExist
<1>1. IInv => FramesExist
  <2> SUFFICES ASSUME IInv, NEW p \in Pages
               PROVE  PAGE_FRAME_SIZE * (pde[p].frame + 1) <= LastPhysical
    BY DEF FramesExist
  <2>1. PICK n \in 1 .. 31 : last_available_physical_addr = PAGE_FRAME_SIZE * n
    BY DEF IInv, TypeOK
  <2>2. pde[p].frame \in Nat
    BY TypeFacts DEF IInv
  <2>3. CASE pc = "flush" /\ p = page_index(Head(wanted))
    <3>1. PAGE_FRAME_SIZE * pde[p].frame = last_available_physical_addr
      BY <2>3 DEF IInv, FramesGiven
    <3>2. FrameIsAvailable(last_available_physical_addr)
      BY <2>3 DEF IInv, Allocating
    <3> QED
      BY <2>1, <2>2, <3>1, <3>2 DEF FrameIsAvailable, PAGE_FRAME_SIZE, FirstPhysical, LastPhysical
  <2>4. CASE ~(pc = "flush" /\ p = page_index(Head(wanted)))
    <3>1. PAGE_FRAME_SIZE * pde[p].frame < last_available_physical_addr
      BY <2>4 DEF IInv, FramesGiven
    <3> QED
      BY <2>1, <2>2, <3>1 DEF PAGE_FRAME_SIZE, LastPhysical
  <2> QED
    BY <2>3, <2>4
<1> QED
  BY <1>1, Invariance, PTL

(* The invalidations of the loader and of the allocator are enough.        *)
THEOREM TranslationsAreFresh == Spec => []NoStaleTranslation
<1>1. IInv => NoStaleTranslation
  BY DEF IInv
<1> QED
  BY <1>1, Invariance, PTL

(* User mode never sees the kernel's frame.                                *)
THEOREM KernelStaysProtected == Spec => []KernelIsProtected
<1>1. IInv => KernelIsProtected
  <2> SUFFICES ASSUME IInv, pc \in {"user", "call"}, NEW p \in Pages,
                      Translation(p).present, Translation(p).user
               PROVE  Translation(p).frame # KernelFrame
    BY DEF IInv, Done, KernelIsProtected
  <2>1. Translation(p) = pde[p]
    BY DEF IInv, NoStaleTranslation, Translation
  <2>2. pde[KernelPage].frame = KernelFrame
    BY DEF IInv, Done
  <2>3. p = UserPage \/ p = KernelPage
    BY DEF Pages
  <2>4. CASE p = UserPage
    BY <2>1, <2>2, <2>4 DEF IInv, FramesGiven, KernelFrame
  <2>5. CASE p = KernelPage
    BY <2>1, <2>2, <2>5 DEF IInv, UserFlags
  <2> QED
    BY <2>3, <2>4, <2>5
<1> QED
  BY <1>1, Invariance, PTL

(* What runs at address 0 is what was read there.                          *)
THEOREM ShellIsWhatRuns == Spec => []ShellRuns
<1>1. IInv => ShellRuns
  <2> SUFFICES ASSUME IInv, pc \in {"user", "call"}, disk = "file"
               PROVE  ShellAtZero
    BY DEF ShellRuns
  <2>1. Translation(UserPage) = pde[UserPage]
    BY DEF IInv, NoStaleTranslation, Translation, Pages
  <2>2. pde[UserPage].present /\ pde[UserPage].frame \in shellIn
    BY DEF IInv, Done, AfterRead
  <2>3. pde[UserPage].user
    BY <2>2 DEF IInv, UserFlags
  <2> QED
    BY <2>1, <2>2, <2>3 DEF ShellAtZero
<1> QED
  BY <1>1, Invariance, PTL

(* The stack is there before user mode is.                                 *)
THEOREM NeverResets == Spec => []NoReset
<1>1. IInv => NoReset
  BY DEF IInv, Done, NoReset
<1> QED
  BY <1>1, Invariance, PTL

=============================================================================
