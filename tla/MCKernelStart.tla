---------------------------- MODULE MCKernelStart ----------------------------
(* The start of the kernel with what kernel_setup allocates, addresses 0   *)
(* and 10 in bytes; and, as the allocator's interface allows, with no page,*)
(* a refused address, the kernel's own page and more than memory holds.    *)
EXTENDS KernelStart

MCRequests == {<<0, 0>>, <<>>, <<4096>>, <<4096, 2048>>, <<0, 3145728>>, <<3149824, 0, 0>>,
               [i \in 1 .. 32 |-> 4 * i]}

=============================================================================
