--------------------------- MODULE PageAllocator ----------------------------
(***************************************************************************)
(* The bump allocator of page_allocator/page_bump_allocator.c, byte exact. *)
(* current_free is the C variable.  allocs is a history of what was handed *)
(* out: the range a caller may use after each call, in the order of calls. *)
(* Sizes are those of kernel_allocator.c's kalloc, which rounds its        *)
(* argument up to whole pages before it calls palloc.                      *)
(***************************************************************************)
EXTENDS Integers, Sequences

CONSTANTS
  HeapStarts,  \* possible values of kernel_heap_start (it follows the kernel image)
  Sizes,       \* sizes asked of kalloc, in bytes
  BlockSizes,  \* page counts asked of palloc_continuous_block
  MaxCalls     \* bound on the length of a run

PAGESIZE      == 4096
BLOCK_SIZE_L2 == 2097152

ASSUME PageAllocatorAssumption ==
  /\ HeapStarts \subseteq Nat
  /\ \A h \in HeapStarts : h % PAGESIZE = 0
  /\ Sizes \subseteq Nat
  /\ BlockSizes \subseteq Nat
  /\ MaxCalls \in Nat

VARIABLES current_free, allocs

vars == << current_free, allocs >>

\* pointer += a - 1; pointer &= ~(a - 1), with a = PAGESIZE at every call.
allign_addr(addr) == ((addr + PAGESIZE - 1) \div PAGESIZE) * PAGESIZE

\* A mutant of allign: the missing bytes are not made up to a page.
allign_nothing(size) == size

allign(size) ==
  IF size % PAGESIZE > 0 THEN size + PAGESIZE - (size % PAGESIZE) ELSE size

Granted(start, len, kind) == [start |-> start, len |-> len, kind |-> kind]

Init ==
  /\ current_free \in HeapStarts
  /\ allocs = << >>

\* A mutant of palloc: the size is rounded down to whole pages.
palloc_round_down(size) ==
  LET start_add == allign_addr(current_free)
  IN  /\ current_free' = start_add + (size \div PAGESIZE) * PAGESIZE
      /\ allocs' = Append(allocs, Granted(start_add, allign(size), "data"))

\* kalloc's call palloc(allign(size)), which rounds a second time.
palloc(size) ==
  LET alligned_size == allign(allign(size))
      start_add     == allign_addr(current_free)
  IN  /\ current_free' = start_add + alligned_size
      /\ allocs' = Append(allocs, Granted(start_add, alligned_size, "data"))

\* The bytes that are left before the next 2 MB boundary.
pages_left(start_add) == BLOCK_SIZE_L2 - (start_add % BLOCK_SIZE_L2)

\* A mutant of palloc_continuous_block: a request for too many pages is
\* answered by an error code, -1, which no caller tells from an address.
palloc_continuous_block_error_code(nr_of_pages) ==
  LET here == allign_addr(current_free)
      len  == nr_of_pages * PAGESIZE
      start_add == IF nr_of_pages > 4096 THEN -1 ELSE here
  IN  /\ current_free' = start_add + len
      /\ allocs' = Append(allocs, Granted(start_add, len, "tables"))

\* More than 4096 pages are refused: the log line says so, and the returned
\* address has nothing reserved behind it.  Otherwise pages_left, a number of
\* BYTES, is compared with the number of PAGES, so the third branch, which
\* moves on to the next 2 MB block, is only for requests that never come.
palloc_continuous_block(nr_of_pages) ==
  LET here == allign_addr(current_free)
      next == ((here + BLOCK_SIZE_L2) \div BLOCK_SIZE_L2) * BLOCK_SIZE_L2
      start_add ==
        IF nr_of_pages > 4096 \/ pages_left(here) >= nr_of_pages THEN here ELSE next
      len == IF nr_of_pages > 4096 THEN 0 ELSE nr_of_pages * PAGESIZE
  IN  /\ current_free' = start_add + len
      /\ allocs' = Append(allocs, Granted(start_add, len, "tables"))

Next ==
  /\ Len(allocs) < MaxCalls
  /\ \/ \E size \in Sizes : palloc(size)
     \/ \E nr_of_pages \in BlockSizes : palloc_continuous_block(nr_of_pages)

Spec == Init /\ [][Next]_vars

-----------------------------------------------------------------------------

AddressRange == [start : Nat, len : Nat, kind : {"data", "tables"}]

TypeOK ==
  /\ current_free \in Nat
  /\ allocs \in Seq(AddressRange)

\* Every range handed out is made of whole pages: map_addr refuses a size that
\* is not page aligned and the MMU ignores the low bits of an address, so a
\* range that did not start on a page would share its first page.
WholePages ==
  \A i \in 1 .. Len(allocs) :
    allocs[i].start % PAGESIZE = 0 /\ allocs[i].len % PAGESIZE = 0

\* The allocator promises its clients disjoint ranges (RangeAllocator): in no
\* order of palloc and palloc_continuous_block calls does one return memory
\* that an earlier one reserved, however sizes and 2 MB boundaries fall.
Promise == INSTANCE RangeAllocator
GrantsAreDisjoint == Promise!Spec

\* page_bump_allocator.c:24 promises of palloc_continuous_block a block that
\* lies under one level-3 table, which map_page_for_table_h relies on when it
\* writes the entries of all four pages into one table.
BlockInOneL3Table ==
  \A i \in 1 .. Len(allocs) :
    LET a == allocs[i] IN
      a.kind = "tables" /\ a.len > 0
        => a.start \div BLOCK_SIZE_L2 = (a.start + a.len - 1) \div BLOCK_SIZE_L2
=============================================================================
