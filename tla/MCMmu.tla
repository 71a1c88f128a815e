------------------------------- MODULE MCMmu --------------------------------
(***************************************************************************)
(* The layout of the QEMU virt board in small: 16 entries per table, RAM   *)
(* at l1 index 1, the UART at l1 index 0, the ECAM at l1 index 8, a        *)
(* 64-bit BAR at l0 index 1.                                               *)
(***************************************************************************)
EXTENDS Mmu

\* The image ends 1 to 8 pages behind the initial pages.
MCHeapStarts == 264 .. 271

\* A range of two level-3 tables (the ECAM), a BAR of one page.
MCDevices == {<< 2048, 18 >>, << 4100, 1 >>}

\* A page; a few; the frame buffer: about the reach of two level-3 tables.
MCRequests == {1, 3, 31}
=============================================================================
