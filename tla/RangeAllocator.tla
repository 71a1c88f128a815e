--------------------------- MODULE RangeAllocator ---------------------------
(***************************************************************************)
(* What the kernel's clients need from any page allocator (bump allocator  *)
(* today, buddy allocator in the README's milestones): a sequence of       *)
(* granted address ranges, one per call, none of which overlaps an earlier *)
(* one, since no range is ever given back.                                 *)
(***************************************************************************)
EXTENDS Integers, Sequences

VARIABLE allocs  \* the ranges granted so far, in the order of the calls

\* Two address ranges have no byte in common.
Apart(a, b) ==
  \/ a.start + a.len <= b.start
  \/ b.start + b.len <= a.start

\* One call grants one range, apart from all those granted before it.
Grant ==
  /\ Len(allocs') = Len(allocs) + 1
  /\ \A i \in 1 .. Len(allocs) :
       /\ allocs'[i] = allocs[i]
       /\ Apart(allocs[i], allocs'[Len(allocs) + 1])

Init == allocs = << >>

Spec == Init /\ [][Grant]_allocs
=============================================================================
