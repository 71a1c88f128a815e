-------------------------- MODULE MCPageAllocator ---------------------------
(***************************************************************************)
(* Real addresses.  The heap starts where the kernel image ends: at        *)
(* 0x40118000 for an image of about the size the sources build to, and     *)
(* with 1 to 5 pages left before the 2 MB boundary at 0x40200000, so that  *)
(* blocks of four pages end before it, at it and behind it.                *)
(***************************************************************************)
EXTENDS PageAllocator

MCHeapStarts == {1074888704} \cup {1075838976 - k * 4096 : k \in 1 .. 5}

\* No byte, the struct of a GPU command, exactly a page, a page and a byte,
\* and the 800 x 1280 x 4 bytes of the frame buffer.
MCSizes == {0, 24, 4096, 4097, 4096000}

\* map_page_for_pagetable's four pages, and one page too many.
MCBlockSizes == {4, 4097}
=============================================================================
