-------------------------------- MODULE Mmu ---------------------------------
(***************************************************************************)
(* The on-demand page tables of mmu/mmu.c, with the users that share its   *)
(* page allocator: kalloc (kernel_allocator.c), init_uart, init_pci_driver *)
(* and alloc_bar_memory (register_device_memory).                          *)
(*                                                                         *)
(* Addresses are page numbers and a table has F entries instead of 512.    *)
(* Memory is the set of its VALID descriptors: an entry that is not there  *)
(* is an entry whose bit 0 is clear.  Every access of the code to a table  *)
(* goes through Touch: once the MMU is on, it is translated by the very    *)
(* tables the code is editing, and it faults when the translation is gone. *)
(*                                                                         *)
(* The functions of mmu.c are operators from one machine state to the next *)
(* (records s), so that an action can make the calls its handler makes, in *)
(* their order.  One call of mmu_map_4kb is one step.                      *)
(***************************************************************************)
EXTENDS Integers, FiniteSets

CONSTANTS
  F,           \* entries per table
  Base,        \* BASE_ADDRESS: the page at which RAM starts
  HeapStarts,  \* possible pages of kernel_heap_start (it follows the image)
  HeapEnd,     \* bound on the heap: no call starts above it
  Uart,        \* the page of the UART's registers
  Devices,     \* <<first page, pages>> given to register_device_memory
  Requests,    \* sizes asked of kalloc, in pages
  MaxCalls,    \* bound on the calls of kalloc and register_device_memory
  MaxBoots     \* bound on the boots (1: no reset)

\* The seven pages of linker.ld for the MMU's initialisation.
L0 == Base
L1 == Base + 1
L2 == Base + 2
L3 == Base + 3
Tmp1 == Base + 4
Tmp2 == Base + 5
Tmp3 == Base + 6
InitPages == Base .. Base + 6
KernelStart == Base + 7

ASSUME MmuAssumption ==
  /\ F \in Nat /\ F > 6
  /\ Base \in Nat /\ Base % F = 0
  /\ HeapStarts \subseteq Nat
  /\ \A h \in HeapStarts : h >= KernelStart
  /\ HeapEnd \in Nat
  /\ Uart \in Nat
  /\ Devices \subseteq Nat \X Nat
  /\ Requests \subseteq Nat
  /\ MaxCalls \in Nat
  /\ MaxBoots \in Nat

\* What one level-1 entry covers from Base on: linker.ld puts the image and the
\* heap there, the board all of its RAM, and no registers of a device.
Reach == Base .. Base + F * F - 1

ASSUME LayoutAssumption ==
  /\ Base % (F * F) = 0
  /\ Base + F * F <= F * F * F * F
  /\ Uart \notin Reach /\ Uart < F * F * F * F
  /\ \A d \in Devices : \A p \in d[1] .. d[1] + d[2] - 1 :
       p \notin Reach /\ p < F * F * F * F

VARIABLES
  m,       \* the machine: memory, allocator pointer, MMU state (see Machine)
  job,     \* the call that is running
  calls,   \* calls of kalloc and register_device_memory so far
  boots,   \* boots so far
  image,   \* pages of the kernel image of this boot
  data,    \* pages kalloc has reserved for its callers in this boot
  device   \* pages mapped as device memory in this boot

vars == << m, job, calls, boots, image, data, device >>

Attr == {"table", "normal", "device"}

\* mem: the valid descriptors; free: current_free; on: SCTLR_EL1.M;
\* fault: what an access has run into; ret: the pointer a function returned.
\* tables[k]: history, the pages taken as level-k tables.  clash: history, the
\* two ways in which the code links a table into a slot it should not.
Machine ==
  [mem    : SUBSET [tab : Nat, idx : 0 .. F - 1, to : Nat, attr : Attr],
   free   : Nat,
   on     : BOOLEAN,
   fault  : {"none", "abort", "stray", "noreturn"},
   ret    : Nat,
   tables : [0 .. 3 -> SUBSET Nat],
   clash  : SUBSET {"overwrite", "straddle"}]

Job ==
  [kind : {"none", "kernel", "uart", "kalloc", "device"},
   next : Nat, left : Nat, clear : Nat]

Idle == [kind |-> "none", next |-> 0, left |-> 0, clear |-> 0]

-----------------------------------------------------------------------------
\* A mutant of Idx: the & 0x1FF is missing.
Idx_no_mask(k, p) ==
  IF k = 0 THEN p \div (F * F * F)
  ELSE IF k = 1 THEN p \div (F * F)
  ELSE IF k = 2 THEN p \div F
  ELSE p

\* (va >> BLOCK_SIZE_SHIFT_Lk) & 0x1FF
Idx(k, p) ==
  CASE k = 0 -> (p \div (F * F * F)) % F
    [] k = 1 -> (p \div (F * F)) % F
    [] k = 2 -> (p \div F) % F
    [] OTHER -> p % F

\* The pages that the i-th entries of the tables in T point to.
Hop(mem, T, i) == {e.to : e \in {d \in mem : d.tab \in T /\ d.idx = i}}

\* What the walk of the hardware makes of page p: {} is a translation fault.
Frames(mem, p) ==
  Hop(mem, Hop(mem, Hop(mem, Hop(mem, {L0}, Idx(0, p)), Idx(1, p)), Idx(2, p)), Idx(3, p))

\* An access of the code to page p.  It aborts where nothing is mapped.  Where
\* another page is mapped the access would go astray: the model stops there.
Translated(s, frames, p) ==
  IF frames = {p} THEN s
  ELSE [s EXCEPT !.fault = IF frames = {} THEN "abort" ELSE "stray"]

Failed(s) == s.fault # "none"

Touch(s, p) ==
  IF s.on /\ ~Failed(s) THEN Translated(s, Frames(s.mem, p), p) ELSE s

\* entry & 1
Valid(s, tab, i) == \E e \in s.mem : e.tab = tab /\ e.idx = i

Put(mem, tab, i, to, attr) ==
  {e \in mem : ~(e.tab = tab /\ e.idx = i)}
    \cup {[tab |-> tab, idx |-> i, to |-> to, attr |-> attr]}

SetMem(s, mem) == IF Failed(s) THEN s ELSE [s EXCEPT !.mem = mem]

\* tab[i] = attr | to
Write(s, tab, i, to, attr) == SetMem(Touch(s, tab), Put(s.mem, tab, i, to, attr))

\* zero_out_page(tab)
Zero(s, tab) == SetMem(Touch(s, tab), {e \in s.mem : e.tab # tab})

-----------------------------------------------------------------------------
(***************************************************************************)
(* map_page_for_table_h: b is the block of four pages, b (new_pagetable),  *)
(* b+1, b+2 and b+3 (the new tables of level 1, 2 and 3).  A slot that is  *)
(* taken is only reported in the log.                                      *)
(***************************************************************************)
\* The new level-3 table becomes accessible through the temporary one ...
ReachNewL3(s, parent, b) ==
  Write(Write(s, parent, Idx(2, b + 3), Tmp3, "table"),
        Tmp3, Idx(3, b + 3), b + 3, "normal")

\* ... is zeroed, and then maps itself.
MapNewL3(s, b) ==
  Write(Zero(s, b + 3), b + 3, Idx(3, b + 3), b + 3, "normal")

\* A mutant of LinkL3: the new level-3 table does not map new_pagetable.
LinkL3_forgets_page(s, parent, b) ==
  IF Valid(s, parent, Idx(2, b + 3)) THEN Touch(s, parent)
  ELSE MapNewL3(ReachNewL3(s, parent, b), b)

\* level == 3: last, the new level-3 table also maps new_pagetable.
LinkL3(s, parent, b) ==
  IF Valid(s, parent, Idx(2, b + 3)) THEN Touch(s, parent)
  ELSE Write(MapNewL3(ReachNewL3(s, parent, b), b), b + 3, Idx(3, b), b, "normal")

\* level == 2: the new level-2 table is mapped by the new level-3 table, then
\* zeroed and linked to it, while Tmp2 and Tmp3 still make the translation.
MapNewL2(s, b) ==
  Write(Zero(Write(s, b + 3, Idx(3, b + 2), b + 2, "normal"), b + 2),
        b + 2, Idx(2, b + 3), b + 3, "table")

LinkL2(s, parent, b) ==
  IF Valid(s, parent, Idx(1, b + 3)) THEN Touch(s, parent)
  ELSE MapNewL2(LinkL3(Write(s, parent, Idx(1, b + 3), Tmp2, "table"), Tmp2, b), b)

\* level == 1: the same for the new level-1 table.
MapNewL1(s, b) ==
  Write(Zero(Write(s, b + 3, Idx(3, b + 1), b + 1, "normal"), b + 1),
        b + 1, Idx(1, b + 3), b + 2, "table")

LinkL1(s, parent, b) ==
  IF Valid(s, parent, Idx(0, b + 3)) THEN Touch(s, parent)
  ELSE MapNewL1(LinkL2(Write(s, parent, Idx(0, b + 3), Tmp1, "table"), Tmp1, b), b)

\* A mutant of palloc_continuous_block: only three pages are reserved.
palloc_three_pages(s) == [s EXCEPT !.free = @ + 3, !.ret = s.free]

\* palloc_continuous_block(4), see PageAllocator.
palloc_continuous_block(s) == [s EXCEPT !.free = @ + 4, !.ret = s.free]

\* The table that entry i of table tab points to, for a valid entry.
Child(s, tab, i) == CHOOSE p \in Hop(s.mem, {tab}, i) : TRUE

\* History: page p becomes a table of level k.
Take(s, k, p) == [s EXCEPT !.tables[k] = @ \cup {p}]

\* History: the code is about to link a table where it should not.
Note(s, what, happened) ==
  [s EXCEPT !.clash = IF happened /\ ~Failed(s) THEN @ \cup {what} ELSE @]

\* The block starts in the reach of one level-3 table and ends in the next.
Straddles(b) == b \div F # (b + 3) \div F

\* The three paths of map_page_for_pagetable that link new tables: the slot
\* that covers the new block is free in l0_table, in its l1 table, or in its
\* l2 table.  The last two leave some temporary tables as they are.
UseL3(s, b) == Take(Note(s, "straddle", Straddles(b)), 3, b + 3)
UseL2(s, b) == Take(UseL3(s, b), 2, b + 2)
UseL1(s, b) == Take(UseL2(s, b), 1, b + 1)

FillL0(s, b) ==
  Zero(Zero(Zero(Write(LinkL1(UseL1(s, b), L0, b), L0, Idx(0, b), b + 1, "table"),
                 Tmp1), Tmp2), Tmp3)

FillL1(s, l1, b) ==
  Zero(Zero(Write(LinkL2(UseL2(s, b), l1, b), l1, Idx(1, b), b + 2, "table"), Tmp1), Tmp2)

FillL2(s, l2, b) ==
  Zero(Write(LinkL3(UseL3(s, b), l2, b), l2, Idx(2, b), b + 3, "table"), Tmp1)

\* The common case, a free entry in an existing level-3 table.  When even that
\* is taken the function ends without a return statement.
FillL3(s, l3, b) ==
  IF Valid(s, l3, Idx(3, b))
    THEN [s EXCEPT !.fault = IF Failed(s) THEN @ ELSE "noreturn"]
    ELSE Write(s, l3, Idx(3, b), b, "normal")

\* The rest of map_page_for_pagetable, for the block b that a, the state after
\* its allocation, has just reserved.
MapBlock(a, b) ==
  LET l1 == Child(a, L0, Idx(0, b))
      l2 == Child(a, l1, Idx(1, b))
      l3 == Child(a, l2, Idx(2, b))
      t1 == Touch(Touch(a, L0), l1)
      t2 == Touch(t1, l2)
  IN  IF ~Valid(a, L0, Idx(0, b)) THEN FillL0(Touch(a, L0), b)
      ELSE IF ~Valid(a, l1, Idx(1, b)) THEN FillL1(t1, l1, b)
      ELSE IF ~Valid(a, l2, Idx(2, b)) THEN FillL2(t2, l2, b)
      ELSE FillL3(Touch(t2, l3), l3, b)

\* The new page is not zeroed: what RAM holds there are its first entries.
map_page_for_pagetable(s) == MapBlock(palloc_continuous_block(s), s.free)

\* a: the state after map_page_for_pagetable, whose result goes into entry i of
\* tab, a table of level k.  That entry was found free BEFORE the call, which
\* may have filled it meanwhile for its own block: that link is overwritten.
Install(a, k, tab, i) ==
  Touch(Write(Note(Take(a, k + 1, a.ret), "overwrite", Valid(a, tab, i)),
              tab, i, a.ret, "table"), tab)

EnsureTable(s, k, tab, i) ==
  IF Failed(s) \/ Valid(s, tab, i) THEN s
  ELSE Install(map_page_for_pagetable(s), k, tab, i)

Follow(s, tab, i) ==
  IF Failed(s) THEN s ELSE [s EXCEPT !.ret = Child(s, tab, i)]

\* The code reads an entry of the table it holds a pointer to.
Read(s) == Touch(s, s.ret)

\* One level of mmu_map_4kb: from the level-k table s.ret to the table of
\* level k+1 below it that covers page p.
NextTable(s, k, p) ==
  Follow(EnsureTable(Read(s), k, s.ret, Idx(k, p)), s.ret, Idx(k, p))

\* A mutant of MapPage: device memory gets the attributes of normal memory.
MapPage_one_attr(s, p, attr) ==
  IF Failed(s) \/ Valid(s, s.ret, Idx(3, p)) THEN s
  ELSE Write(s, s.ret, Idx(3, p), p, "normal")

\* The last level: a page that has a mapping is only reported in the log.
MapPage(s, p, attr) ==
  IF Failed(s) \/ Valid(s, s.ret, Idx(3, p)) THEN s
  ELSE Write(s, s.ret, Idx(3, p), p, attr)

mmu_map_4kb(s, p, attr) ==
  MapPage(Read(NextTable(NextTable(NextTable([s EXCEPT !.ret = L0], 0, p), 1, p), 2, p)), p, attr)

-----------------------------------------------------------------------------
\* init_mmu up to its call of map_addr, on a RAM that holds the descriptors mem.
BootMem(mem) ==
  {e \in mem : e.tab \notin {L0, L1, L2, L3}} \cup
  {[tab |-> L0, idx |-> Idx(0, L0), to |-> L1, attr |-> "table"],
   [tab |-> L1, idx |-> Idx(1, L0), to |-> L2, attr |-> "table"],
   [tab |-> L2, idx |-> Idx(2, L0), to |-> L3, attr |-> "table"]} \cup
  {[tab |-> L3, idx |-> i, to |-> Base + i, attr |-> "normal"] : i \in 0 .. 6}

BootMachine(mem, h) ==
  [mem |-> BootMem(mem), free |-> h, on |-> FALSE, fault |-> "none", ret |-> L0,
   tables |-> [k \in 0 .. 3 |-> CASE k = 0 -> {L0} [] k = 1 -> {L1, Tmp1}
                                  [] k = 2 -> {L2, Tmp2} [] OTHER -> {L3, Tmp3}],
   clash |-> {}]

BootJob(h) == [kind |-> "kernel", next |-> KernelStart, left |-> h - KernelStart, clear |-> 0]

Init ==
  \E h \in HeapStarts :
    /\ m = BootMachine({}, h)
    /\ job = BootJob(h)
    /\ image = KernelStart .. h - 1
    /\ calls = 0
    /\ boots = 1
    /\ data = {}
    /\ device = {}

\* One round of map_addr's loop.
MapAddrStep ==
  /\ ~Failed(m)
  /\ job.kind \in {"kernel", "kalloc"}
  /\ job.left > 0
  /\ m' = mmu_map_4kb(m, job.next, "normal")
  /\ job' = [job EXCEPT !.next = @ + 1, !.left = @ - 1]
  /\ UNCHANGED << calls, boots, image, data, device >>

\* One round of register_device_memory's loop.
RegisterDeviceStep ==
  /\ ~Failed(m)
  /\ job.kind \in {"uart", "device"}
  /\ job.left > 0
  /\ m' = mmu_map_4kb(m, job.next, "device")
  /\ job' = [job EXCEPT !.next = @ + 1, !.left = @ - 1]
  /\ device' = device \cup {job.next}
  /\ UNCHANGED << calls, boots, image, data >>

\* init_mmu goes on: the image is mapped, init_uart is called.
InitUart ==
  /\ ~Failed(m)
  /\ job.kind = "kernel"
  /\ job.left = 0
  /\ job' = [kind |-> "uart", next |-> Uart, left |-> 1, clear |-> 0]
  /\ UNCHANGED << m, calls, boots, image, data, device >>

\* ... and ends: ttbr0_el1 and sctlr_el1 are written.
EnableMmu ==
  /\ ~Failed(m)
  /\ job.kind = "uart"
  /\ job.left = 0
  /\ m' = [m EXCEPT !.on = TRUE]
  /\ job' = Idle
  /\ UNCHANGED << calls, boots, image, data, device >>

Ready == ~Failed(m) /\ m.on /\ job = Idle /\ calls < MaxCalls /\ m.free < HeapEnd

\* kalloc starts: palloc reserves the pages before any of them is mapped.
kalloc(n) ==
  /\ Ready
  /\ m' = [m EXCEPT !.free = @ + n]
  /\ data' = data \cup (m.free .. m.free + n - 1)
  /\ job' = [kind |-> "kalloc", next |-> m.free, left |-> n, clear |-> n]
  /\ calls' = calls + 1
  /\ UNCHANGED << boots, image, device >>

\* kalloc's loop over the mapped bytes, one page.
ClearPage ==
  /\ ~Failed(m)
  /\ job.kind = "kalloc"
  /\ job.left = 0
  /\ job.clear > 0
  /\ m' = Zero(m, job.next - job.clear)
  /\ job' = [job EXCEPT !.clear = @ - 1]
  /\ UNCHANGED << calls, boots, image, data, device >>

register_device_memory(d) ==
  /\ Ready
  /\ job' = [kind |-> "device", next |-> d[1], left |-> d[2], clear |-> 0]
  /\ calls' = calls + 1
  /\ UNCHANGED << m, boots, image, data, device >>

Return ==
  /\ ~Failed(m)
  /\ job.kind \in {"kalloc", "device"}
  /\ job.left = 0
  /\ job.clear = 0
  /\ job' = Idle
  /\ UNCHANGED << m, calls, boots, image, data, device >>

\* .gdbinit's reset and reload (QEMU's system_reset): the CPU starts again with
\* the image's initial data, while RAM above the image keeps its contents.
Reset ==
  /\ boots < MaxBoots
  /\ \E h \in HeapStarts :
       /\ m' = BootMachine(m.mem, h)
       /\ job' = BootJob(h)
       /\ image' = KernelStart .. h - 1
  /\ boots' = boots + 1
  /\ data' = {}
  /\ device' = {}
  /\ UNCHANGED calls

Next ==
  \/ MapAddrStep
  \/ RegisterDeviceStep
  \/ InitUart
  \/ EnableMmu
  \/ \E n \in Requests : kalloc(n)
  \/ ClearPage
  \/ \E d \in Devices : register_device_memory(d)
  \/ Return

Spec == Init /\ [][Next]_vars
ResetSpec == Init /\ [][Next \/ Reset]_vars

-----------------------------------------------------------------------------
TypeOK ==
  /\ m \in Machine
  /\ job \in Job
  /\ calls \in Nat
  /\ boots \in Nat
  /\ image \subseteq Nat
  /\ data \subseteq Nat
  /\ device \subseteq Nat

\* The tables the hardware can reach from ttbr0.
Targets(mem, T) == {e.to : e \in {d \in mem : d.tab \in T}}
Live(mem) ==
  LET t1 == Targets(mem, {L0})
      t2 == Targets(mem, t1)
  IN  {L0} \cup t1 \cup t2 \cup Targets(mem, t2)

\* All translations: a walk of k hops is the part va of the address it has
\* used and the page it has come to; Walks adds a hop.
Walks(mem, W) ==
  UNION {{[va |-> w.va * F + e.idx, pa |-> e.to, attr |-> e.attr] :
            e \in {d \in mem : d.tab = w.pa}} : w \in W}
Translations(mem) ==
  Walks(mem, Walks(mem, Walks(mem, Walks(mem, {[va |-> 0, pa |-> L0, attr |-> "table"]}))))

\* No page is both a table the hardware walks and memory kalloc gave to a
\* caller: page tables and data come from one allocator, and tables are
\* allocated while kalloc is still mapping what it has reserved.  Otherwise
\* the caller's stores, or kalloc's own clearing, would rewrite the mapping.
TablesPrivate == Live(m.mem) \cap data = {}

\* The code edits the tables through the mapping they define.  It loses a page
\* it needs only after one of two clashes: it has linked a table over a link in
\* use ("overwrite"), or a block of table pages lies under two level-3 tables
\* while its entries are written into one ("straddle").
FaultOnlyByClash == Failed(m) => m.clash # {}

\* Between calls the address space is exactly what was asked for, one to one
\* and with the right attributes: the seven initial pages, the image, kalloc's
\* pages and all tables in use (so that they can be edited later) as normal
\* memory, the registered ranges as device memory, and nothing else.  The two
\* clashes, which break it, are what MappedBeforeUse is about.
MappingExact ==
  LET normal == InitPages \cup image \cup data \cup Live(m.mem)
  IN  m.on /\ job = Idle /\ ~Failed(m) /\ m.clash = {}
        => Translations(m.mem) =
             {[va |-> p, pa |-> p, attr |-> "normal"] : p \in normal} \cup
             {[va |-> p, pa |-> p, attr |-> "device"] : p \in device}

\* mmu.md:9: "The mmu maps the memory that is going to be allocated."  So
\* kalloc, which clears the memory, never faults.
MappedBeforeUse == ~(Failed(m) /\ job.kind = "kalloc")
=============================================================================
