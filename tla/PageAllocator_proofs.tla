------------------------ MODULE PageAllocator_proofs ------------------------
(***************************************************************************)
(* Proofs about the bump allocator, for every heap start, every size and   *)
(* every number of calls.  The addresses only ever move up: IInv says that *)
(* every range lies below current_free and above all earlier ranges.       *)
(***************************************************************************)
EXTENDS PageAllocator, TLAPS

End(r) == r.start + r.len

\* Ranges are stacked: each ends before the next starts and before
\* current_free, which only then can be handed out again.
Stacked ==
  /\ \A i \in 1 .. Len(allocs) : End(allocs[i]) <= current_free
  /\ \A i, j \in 1 .. Len(allocs) : i < j => End(allocs[i]) <= allocs[j].start

IInv == TypeOK /\ WholePages /\ Stacked

\* Rounding an address up (allign_addr) yields a page address at or above it.
LEMMA AllignAddr ==
  ASSUME NEW a \in Nat
  PROVE  /\ allign_addr(a) \in Nat
         /\ allign_addr(a) >= a
         /\ allign_addr(a) % PAGESIZE = 0
BY DEF allign_addr, PAGESIZE

\* Rounding a size up (allign) yields whole pages and never less than asked.
LEMMA Allign ==
  ASSUME NEW n \in Nat
  PROVE  /\ allign(n) \in Nat
         /\ allign(n) >= n
         /\ allign(n) % PAGESIZE = 0
BY DEF allign, PAGESIZE

\* What every successful or refused call does: it hands out one range of whole
\* pages that starts at or above current_free, and moves current_free to its end.
Bump ==
  \E r \in AddressRange :
    /\ r.start >= current_free
    /\ r.start % PAGESIZE = 0
    /\ r.len % PAGESIZE = 0
    /\ current_free' = End(r)
    /\ allocs' = Append(allocs, r)

\* palloc is such a call, for every size.
LEMMA PallocBumps ==
  ASSUME TypeOK, NEW size \in Nat, palloc(size)
  PROVE  Bump
<1> DEFINE s == allign_addr(current_free)
           n == allign(allign(size))
           r == Granted(s, n, "data")
<1>1. /\ s \in Nat /\ s >= current_free /\ s % PAGESIZE = 0
  BY AllignAddr DEF TypeOK
<1>2. /\ n \in Nat /\ n % PAGESIZE = 0
  <2>1. allign(size) \in Nat
    BY Allign
  <2> QED BY <2>1, Allign
<1>3. r \in AddressRange /\ r.start = s /\ r.len = n
  BY <1>1, <1>2 DEF Granted, AddressRange
<1>4. current_free' = s + n /\ allocs' = Append(allocs, r)
  BY DEF palloc
<1> HIDE DEF s, n, r
<1> QED BY <1>1, <1>2, <1>3, <1>4 DEF Bump, End

\* palloc_continuous_block is such a call, for every number of pages: also
\* when it refuses, and when it goes on to the next 2 MB block.
LEMMA BlockBumps ==
  ASSUME TypeOK, NEW nr_of_pages \in Nat, palloc_continuous_block(nr_of_pages)
  PROVE  Bump
<1> DEFINE here == allign_addr(current_free)
           next == ((here + BLOCK_SIZE_L2) \div BLOCK_SIZE_L2) * BLOCK_SIZE_L2
           s == IF nr_of_pages > 4096 \/ pages_left(here) >= nr_of_pages
                  THEN here ELSE next
           n == IF nr_of_pages > 4096 THEN 0 ELSE nr_of_pages * PAGESIZE
           r == Granted(s, n, "tables")
<1>1. /\ here \in Nat /\ here >= current_free /\ here % PAGESIZE = 0
  BY AllignAddr DEF TypeOK
<1>2. /\ next \in Nat /\ next >= here /\ next % PAGESIZE = 0
  BY <1>1 DEF BLOCK_SIZE_L2, PAGESIZE
<1>3. /\ s \in Nat /\ s >= current_free /\ s % PAGESIZE = 0
  <2> HIDE DEF here, next
  <2> current_free \in Nat
    BY DEF TypeOK
  <2> QED BY <1>1, <1>2
<1>4. n \in Nat /\ n % PAGESIZE = 0
  BY DEF PAGESIZE
<1>5. r \in AddressRange /\ r.start = s /\ r.len = n
  BY <1>3, <1>4 DEF Granted, AddressRange
<1>6. current_free' = s + n /\ allocs' = Append(allocs, r)
  BY DEF palloc_continuous_block
<1> HIDE DEF s, n, r
<1> QED BY <1>3, <1>4, <1>5, <1>6 DEF Bump, End

\* Handing out a range above everything keeps the invariant.
LEMMA BumpKeepsIInv ==
  ASSUME IInv, Bump
  PROVE  IInv'
<1>1. PICK r \in AddressRange :
        /\ r.start >= current_free
        /\ r.start % PAGESIZE = 0
        /\ r.len % PAGESIZE = 0
        /\ current_free' = End(r)
        /\ allocs' = Append(allocs, r)
  BY DEF Bump
<1>2. /\ current_free \in Nat
      /\ allocs \in Seq(AddressRange)
      /\ r.start \in Nat /\ r.len \in Nat
  BY DEF IInv, TypeOK, AddressRange
<1>3. /\ Len(allocs) \in Nat
      /\ Len(allocs') = Len(allocs) + 1
      /\ \A i \in 1 .. Len(allocs) : allocs'[i] = allocs[i] /\ allocs[i] \in AddressRange
      /\ allocs'[Len(allocs) + 1] = r
  BY <1>1, <1>2
<1>4. \A i \in 1 .. Len(allocs) : End(allocs[i]) \in Nat /\ allocs[i].start \in Nat
  BY <1>3 DEF End, AddressRange
<1>5. TypeOK'
  BY <1>1, <1>2 DEF TypeOK, End
<1>6. WholePages'
  BY <1>1, <1>3 DEF IInv, WholePages
<1>7. Stacked'
  <2>1. current_free' >= current_free /\ current_free' \in Nat
    BY <1>1, <1>2 DEF End
  <2>2. \A i \in 1 .. Len(allocs') : End(allocs'[i]) <= current_free'
    <3> TAKE i \in 1 .. Len(allocs')
    <3>1. CASE i = Len(allocs) + 1
      BY <3>1, <1>1, <1>3, <2>1
    <3>2. CASE i \in 1 .. Len(allocs)
      <4>1. End(allocs[i]) <= current_free
        BY <3>2 DEF IInv, Stacked
      <4> QED BY <3>2, <4>1, <1>2, <1>3, <1>4, <2>1
    <3> QED BY <3>1, <3>2, <1>3
  <2>3. \A i, j \in 1 .. Len(allocs') :
          i < j => End(allocs'[i]) <= allocs'[j].start
    <3> SUFFICES ASSUME NEW i \in 1 .. Len(allocs'), NEW j \in 1 .. Len(allocs'), i < j
                 PROVE  End(allocs'[i]) <= allocs'[j].start
      OBVIOUS
    <3>1. i \in 1 .. Len(allocs)
      BY <1>3
    <3>2. CASE j = Len(allocs) + 1
      <4>1. End(allocs[i]) <= current_free
        BY <3>1 DEF IInv, Stacked
      <4> QED BY <3>1, <3>2, <4>1, <1>1, <1>2, <1>3, <1>4
    <3>3. CASE j \in 1 .. Len(allocs)
      BY <3>1, <3>3, <1>3 DEF IInv, Stacked
    <3> QED BY <3>2, <3>3, <1>3
  <2> QED BY <2>2, <2>3 DEF Stacked
<1> QED BY <1>5, <1>6, <1>7 DEF IInv

LEMMA InitIInv == Init => IInv
BY PageAllocatorAssumption DEF Init, IInv, TypeOK, WholePages, Stacked, AddressRange

LEMMA NextBumps == IInv /\ Next => Bump
<1> SUFFICES ASSUME IInv, Next PROVE Bump
  OBVIOUS
<1>1. TypeOK
  BY DEF IInv
<1>2. CASE \E size \in Sizes : palloc(size)
  BY <1>1, <1>2, PallocBumps, PageAllocatorAssumption
<1>3. CASE \E nr_of_pages \in BlockSizes : palloc_continuous_block(nr_of_pages)
  BY <1>1, <1>3, BlockBumps, PageAllocatorAssumption
<1> QED BY <1>2, <1>3 DEF Next

LEMMA NextIInv == IInv /\ [Next]_vars => IInv'
<1> SUFFICES ASSUME IInv, [Next]_vars PROVE IInv'
  OBVIOUS
<1>1. CASE Next
  BY <1>1, NextBumps, BumpKeepsIInv
<1>2. CASE UNCHANGED vars
  BY <1>2 DEF vars, IInv, TypeOK, WholePages, Stacked
<1> QED BY <1>1, <1>2

\* The variables of the allocator keep their types, and the ranges stay stacked.
THEOREM AllocatorInvariant == Spec => []IInv
BY InitIInv, NextIInv, PTL DEF Spec

\* Type correctness, for every heap start and all sizes asked of it.
THEOREM AllocatorTypes == Spec => []TypeOK
<1>1. IInv => TypeOK
  BY DEF IInv
<1> QED BY <1>1, AllocatorInvariant, PTL

\* Every range is made of whole pages, whatever sizes kalloc is asked for.
THEOREM RangesAreWholePages == Spec => []WholePages
<1>1. IInv => WholePages
  BY DEF IInv
<1> QED BY <1>1, AllocatorInvariant, PTL

\* One call of the bump allocator is one grant of the abstract allocator.
LEMMA BumpIsGrant == IInv /\ Bump => Promise!Grant
<1> SUFFICES ASSUME IInv, Bump PROVE Promise!Grant
  OBVIOUS
<1>1. PICK r \in AddressRange :
        /\ r.start >= current_free
        /\ allocs' = Append(allocs, r)
  BY DEF Bump
<1>2. /\ current_free \in Nat
      /\ allocs \in Seq(AddressRange)
      /\ r.start \in Nat /\ r.len \in Nat
  BY DEF IInv, TypeOK, AddressRange
<1>3. /\ Len(allocs') = Len(allocs) + 1
      /\ \A i \in 1 .. Len(allocs) : allocs'[i] = allocs[i] /\ allocs[i] \in AddressRange
      /\ allocs'[Len(allocs) + 1] = r
  BY <1>1, <1>2
<1>4. \A i \in 1 .. Len(allocs) : Promise!Apart(allocs[i], r)
  <2> TAKE i \in 1 .. Len(allocs)
  <2>1. End(allocs[i]) <= current_free
    BY DEF IInv, Stacked
  <2>2. End(allocs[i]) \in Nat
    BY <1>3 DEF End, AddressRange
  <2>3. End(allocs[i]) <= r.start
    BY <2>1, <2>2, <1>1, <1>2
  <2> QED BY <2>3 DEF End, Promise!Apart
<1> QED BY <1>3, <1>4 DEF Promise!Grant

\* The bump allocator keeps the promise its clients rely on: in every sequence
\* of palloc and palloc_continuous_block calls the ranges are disjoint.
THEOREM AllocatorKeepsPromise == Spec => GrantsAreDisjoint
<1>1. Init => Promise!Init
  BY DEF Init, Promise!Init
<1>2. IInv /\ [Next]_vars => [Promise!Grant]_allocs
  BY NextBumps, BumpIsGrant DEF vars
<1> QED BY <1>1, <1>2, AllocatorInvariant, PTL
        DEF Spec, GrantsAreDisjoint, Promise!Spec
=============================================================================
