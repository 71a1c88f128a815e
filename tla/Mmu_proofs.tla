----------------------------- MODULE Mmu_proofs -----------------------------
(***************************************************************************)
(* Proofs about the page tables, for every number of entries per table,    *)
(* every heap start, every list of devices and requests: the types, and    *)
(* that tables and data never share a page (TablesPrivate).                *)
(*                                                                         *)
(* TablesPrivate is not inductive: nothing in it says that the entries of  *)
(* a level-2 table point to level-3 tables, or that a new page has no      *)
(* entries yet.  Good does: it sorts the pages used as tables by level.    *)
(***************************************************************************)
EXTENDS Mmu, TLAPS

Descriptor == [tab : Nat, idx : 0 .. F - 1, to : Nat, attr : Attr]

\* A descriptor lies in a table, and above level 3 it points one level down.
Linked(tables, e) ==
  \E k \in 0 .. 3 : e.tab \in tables[k] /\ (k < 3 => e.to \in tables[k + 1])

Good(s) ==
  /\ s \in Machine
  /\ L0 \in s.tables[0] /\ Tmp1 \in s.tables[1]
  /\ Tmp2 \in s.tables[2] /\ Tmp3 \in s.tables[3]
  /\ \A k \in 0 .. 3 : \A p \in s.tables[k] : p < s.free
  /\ \A j, k \in 0 .. 3 : \A p \in s.tables[j] : p \in s.tables[k] => j = k
  /\ \A e \in s.mem : Linked(s.tables, e)

\* What the accesses to memory leave alone.
Same(s, t) == t.tables = s.tables /\ t.free = s.free /\ t.ret = s.ret

Kept(s, t) == Good(t) /\ Same(s, t)

\* Page p is no table yet.
Fresh(s, p) == p \in Nat /\ p < s.free /\ \A k \in 0 .. 3 : p \notin s.tables[k]

-----------------------------------------------------------------------------
\* An index fits into a table.
LEMMA IdxInTable ==
  ASSUME NEW k, NEW p \in Nat
  PROVE  Idx(k, p) \in 0 .. F - 1
<1>1. \A x \in Int : x % F \in 0 .. F - 1
  BY MmuAssumption
<1>2. \A q \in Nat \ {0} : p \div q \in Int
  OBVIOUS
<1>3. F \in Nat \ {0}
  BY MmuAssumption
<1>4. F * F \in Nat \ {0}
  BY <1>3
<1>5. F * F * F \in Nat \ {0}
  BY <1>3, <1>4
<1> QED BY <1>1, <1>2, <1>3, <1>4, <1>5 DEF Idx

\* A fault changes nothing but the fault.
LEMMA FaultKeeps ==
  ASSUME NEW s, Good(s), NEW f \in {"none", "abort", "stray", "noreturn"}
  PROVE  Kept(s, [s EXCEPT !.fault = f]) /\ [s EXCEPT !.fault = f].mem = s.mem
<1> DEFINE t == [s EXCEPT !.fault = f]
<1>1. t \in Machine
  BY DEF Good, Machine
<1>2. t.tables = s.tables /\ t.free = s.free /\ t.ret = s.ret /\ t.mem = s.mem
  BY DEF Good, Machine
<1> HIDE DEF t
<1>3. Good(t)
  BY <1>1, <1>2 DEF Good
<1> QED BY <1>2, <1>3 DEF Kept, Same, t

\* An access keeps the tables.
LEMMA TouchKeeps ==
  ASSUME NEW s, Good(s), NEW p
  PROVE  Kept(s, Touch(s, p)) /\ Touch(s, p).mem = s.mem
<1>1. Kept(s, s)
  BY DEF Kept, Same
<1> QED BY <1>1, FaultKeeps DEF Touch, Translated

\* So does replacing the contents of memory by descriptors that are linked.
LEMMA SetMemKeeps ==
  ASSUME NEW s, Good(s), NEW mem \in SUBSET Descriptor,
         \A e \in mem : Linked(s.tables, e)
  PROVE  Kept(s, SetMem(s, mem))
<1> DEFINE t == [s EXCEPT !.mem = mem]
<1>1. t \in Machine
  BY DEF Good, Machine, Descriptor
<1>2. t.tables = s.tables /\ t.free = s.free /\ t.ret = s.ret /\ t.mem = mem
  BY DEF Good, Machine
<1> HIDE DEF t
<1>3. Good(t)
  BY <1>1, <1>2 DEF Good
<1>4. Kept(s, t) /\ Kept(s, s)
  BY <1>2, <1>3 DEF Kept, Same
<1> QED BY <1>4 DEF SetMem, t

\* A store into a table, of a link to a table of the next level, or into a
\* level-3 table, of anything.
LEMMA WriteKeeps ==
  ASSUME NEW s, Good(s), NEW k \in 0 .. 3, NEW tab \in s.tables[k],
         NEW i \in 0 .. F - 1, NEW to \in Nat, NEW attr \in Attr,
         k < 3 => to \in s.tables[k + 1]
  PROVE  Kept(s, Write(s, tab, i, to, attr))
<1> DEFINE t == Touch(s, tab)
           mem == Put(s.mem, tab, i, to, attr)
           new == [tab |-> tab, idx |-> i, to |-> to, attr |-> attr]
<1>1. Kept(s, t)
  BY TouchKeeps
<1>2. tab \in Nat
  BY DEF Good, Machine
<1>3. new \in Descriptor /\ Linked(s.tables, new)
  BY <1>2 DEF Descriptor, Linked
<1>4. mem \in SUBSET Descriptor /\ \A e \in mem : Linked(s.tables, e)
  <2>1. s.mem \in SUBSET Descriptor
    BY DEF Good, Machine, Descriptor
  <2>2. \A e \in mem : e \in s.mem \/ e = new
    BY DEF Put
  <2> QED BY <2>1, <2>2, <1>3 DEF Good
<1> HIDE DEF t, mem
<1>5. Good(t) /\ t.tables = s.tables
  BY <1>1 DEF Kept, Same
<1>6. Kept(t, SetMem(t, mem))
  BY <1>4, <1>5, SetMemKeeps
<1> QED BY <1>1, <1>6 DEF Kept, Same, Write, t, mem

\* Clearing a page, table or not, only removes descriptors.
LEMMA ZeroKeeps ==
  ASSUME NEW s, Good(s), NEW tab
  PROVE  Kept(s, Zero(s, tab))
<1> DEFINE t == Touch(s, tab)
           mem == {e \in s.mem : e.tab # tab}
<1>1. Kept(s, t)
  BY TouchKeeps
<1>2. mem \in SUBSET Descriptor /\ \A e \in mem : Linked(s.tables, e)
  BY DEF Good, Machine, Descriptor
<1> HIDE DEF t, mem
<1>3. Good(t) /\ t.tables = s.tables
  BY <1>1 DEF Kept, Same
<1>4. Kept(t, SetMem(t, mem))
  BY <1>2, <1>3, SetMemKeeps
<1> QED BY <1>1, <1>4 DEF Kept, Same, Zero, t, mem

LEMMA NoteKeeps ==
  ASSUME NEW s, Good(s), NEW what \in {"overwrite", "straddle"}, NEW happened
  PROVE  Kept(s, Note(s, what, happened)) /\ Note(s, what, happened).mem = s.mem
<1> DEFINE c == IF happened /\ ~Failed(s) THEN s.clash \cup {what} ELSE s.clash
           t == [s EXCEPT !.clash = c]
<1>1. s.clash \in SUBSET {"overwrite", "straddle"}
  BY DEF Good, Machine
<1>2. c \in SUBSET {"overwrite", "straddle"}
  BY <1>1
<1>3. Note(s, what, happened) = t
  BY DEF Note
<1> HIDE DEF c
<1>4. t \in Machine
  BY <1>2 DEF Good, Machine
<1>5. t.tables = s.tables /\ t.free = s.free /\ t.ret = s.ret /\ t.mem = s.mem
  BY DEF Good, Machine
<1> HIDE DEF t
<1>6. Good(t)
  BY <1>4, <1>5 DEF Good
<1> QED BY <1>3, <1>5, <1>6 DEF Kept, Same

\* A page that is no table yet becomes one; it holds no descriptor.
LEMMA TakeKeeps ==
  ASSUME NEW s, Good(s), NEW k \in 0 .. 3, NEW p, Fresh(s, p)
  PROVE  LET t == Take(s, k, p) IN
         /\ Good(t)
         /\ t.free = s.free /\ t.ret = s.ret /\ t.mem = s.mem
         /\ t.tables = [s.tables EXCEPT ![k] = @ \cup {p}]
<1> DEFINE T == [s.tables EXCEPT ![k] = @ \cup {p}]
           t == Take(s, k, p)
<1>1. s.tables \in [0 .. 3 -> SUBSET Nat]
  BY DEF Good, Machine
<1>2. T \in [0 .. 3 -> SUBSET Nat]
  BY <1>1 DEF Fresh
<1>3. t = [s EXCEPT !.tables = T]
  BY DEF Take, Good, Machine
<1>4. \A j \in 0 .. 3 : T[j] = IF j = k THEN s.tables[j] \cup {p} ELSE s.tables[j]
  BY <1>1
<1> HIDE DEF T
<1>5. t \in Machine
  BY <1>2, <1>3 DEF Good, Machine
<1>6. t.tables = T /\ t.free = s.free /\ t.ret = s.ret /\ t.mem = s.mem
  BY <1>3 DEF Good, Machine
<1> HIDE DEF t
<1>7. \A j \in 0 .. 3 : \A q \in T[j] : q < s.free
  BY <1>4 DEF Good, Fresh
<1>8. \A i, j \in 0 .. 3 : \A q \in T[i] : q \in T[j] => i = j
  BY <1>4 DEF Good, Fresh
<1>9. \A e \in s.mem : Linked(T, e)
  <2> TAKE e \in s.mem
  <2>1. PICK j \in 0 .. 3 : e.tab \in s.tables[j] /\ (j < 3 => e.to \in s.tables[j + 1])
    BY DEF Good, Linked
  <2>2. e.tab \in T[j]
    BY <2>1, <1>4
  <2>3. j < 3 => j + 1 \in 0 .. 3
    OBVIOUS
  <2>4. j < 3 => e.to \in T[j + 1]
    BY <2>1, <2>3, <1>4
  <2> QED BY <2>2, <2>4 DEF Linked
<1>10. L0 \in T[0] /\ Tmp1 \in T[1] /\ Tmp2 \in T[2] /\ Tmp3 \in T[3]
  BY <1>4 DEF Good
<1>11. Good(t)
  BY <1>5, <1>6, <1>7, <1>8, <1>9, <1>10 DEF Good
<1> QED BY <1>6, <1>11 DEF t, T

\* The two kinds of store: a link one level down, any page at level 3.
LEMMA WriteLink ==
  ASSUME NEW s, Good(s), NEW k \in 0 .. 2, NEW tab \in s.tables[k], NEW p \in Nat,
         NEW to \in s.tables[k + 1]
  PROVE  Kept(s, Write(s, tab, Idx(k, p), to, "table"))
<1>1. k + 1 \in 0 .. 3 /\ k \in 0 .. 3
  OBVIOUS
<1>2. to \in Nat /\ "table" \in Attr
  BY <1>1 DEF Good, Machine, Attr
<1> QED BY <1>1, <1>2, IdxInTable, WriteKeeps

LEMMA WritePage ==
  ASSUME NEW s, Good(s), NEW tab \in s.tables[3], NEW p \in Nat, NEW to \in Nat,
         NEW attr \in Attr
  PROVE  Kept(s, Write(s, tab, Idx(3, p), to, attr))
<1>1. 3 \in 0 .. 3 /\ ~(3 < 3) /\ Idx(3, p) \in 0 .. F - 1
  BY IdxInTable
<1> QED BY <1>1, WriteKeeps

-----------------------------------------------------------------------------
\* Linking new tables, once they are counted as tables of their levels, is a
\* sequence of stores that go one level down.
LEMMA LinkL3Keeps ==
  ASSUME NEW s, Good(s), NEW parent \in s.tables[2], NEW b \in Nat,
         b + 3 \in s.tables[3]
  PROVE  Kept(s, LinkL3(s, parent, b))
<1> DEFINE s1 == Write(s, parent, Idx(2, b + 3), Tmp3, "table")
           s2 == Write(s1, Tmp3, Idx(3, b + 3), b + 3, "normal")
           s3 == Zero(s2, b + 3)
           s4 == Write(s3, b + 3, Idx(3, b + 3), b + 3, "normal")
           s5 == Write(s4, b + 3, Idx(3, b), b, "normal")
<1>1. Tmp3 \in s.tables[3] /\ "normal" \in Attr
  BY DEF Good, Attr
<1>2. 2 \in 0 .. 2 /\ 2 + 1 = 3 /\ b + 3 \in Nat
  OBVIOUS
<1>3. Kept(s, s1)
  BY <1>1, <1>2, WriteLink
<1>4. Kept(s, s2)
  <2> HIDE DEF s1
  <2>1. Good(s1) /\ Same(s, s1)
    BY <1>3 DEF Kept
  <2>2. Kept(s1, s2)
    BY <2>1, <1>1, <1>2, WritePage DEF Same
  <2> QED BY <2>1, <2>2 DEF Kept, Same
<1>5. Kept(s, s3)
  <2> HIDE DEF s2
  <2>1. Kept(s2, s3)
    BY <1>4, ZeroKeeps DEF Kept
  <2> QED BY <1>4, <2>1 DEF Kept, Same
<1>6. Kept(s, s4)
  <2> HIDE DEF s3
  <2>1. Good(s3) /\ Same(s, s3)
    BY <1>5 DEF Kept
  <2>2. Kept(s3, s4)
    BY <2>1, <1>1, <1>2, WritePage DEF Same
  <2> QED BY <2>1, <2>2 DEF Kept, Same
<1>7. Kept(s, s5)
  <2> HIDE DEF s4
  <2>1. Good(s4) /\ Same(s, s4)
    BY <1>6 DEF Kept
  <2>2. Kept(s4, s5)
    BY <2>1, <1>1, <1>2, WritePage DEF Same
  <2> QED BY <2>1, <2>2 DEF Kept, Same
<1> QED BY <1>7, TouchKeeps DEF LinkL3, MapNewL3, ReachNewL3

LEMMA MapNewL2Keeps ==
  ASSUME NEW s, Good(s), NEW b \in Nat,
         b + 2 \in s.tables[2], b + 3 \in s.tables[3]
  PROVE  Kept(s, MapNewL2(s, b))
<1> DEFINE s1 == Write(s, b + 3, Idx(3, b + 2), b + 2, "normal")
           s2 == Zero(s1, b + 2)
           s3 == Write(s2, b + 2, Idx(2, b + 3), b + 3, "table")
<1>1. "normal" \in Attr
  BY DEF Attr
<1>2. /\ 2 \in 0 .. 2 /\ 2 + 1 = 3 /\ 1 \in 0 .. 2 /\ 1 + 1 = 2
      /\ b + 1 \in Nat /\ b + 2 \in Nat /\ b + 3 \in Nat
  OBVIOUS
<1>3. Kept(s, s1)
  BY <1>1, <1>2, WritePage
<1>4. Kept(s, s2)
  <2> HIDE DEF s1
  <2>1. Kept(s1, s2)
    BY <1>3, ZeroKeeps DEF Kept
  <2> QED BY <1>3, <2>1 DEF Kept, Same
<1>5. Kept(s, s3)
  <2> HIDE DEF s2
  <2>1. Good(s2) /\ Same(s, s2)
    BY <1>4 DEF Kept
  <2>2. Kept(s2, s3)
    BY <2>1, <1>2, WriteLink DEF Same
  <2> QED BY <2>1, <2>2 DEF Kept, Same
<1> QED BY <1>5 DEF MapNewL2

LEMMA MapNewL1Keeps ==
  ASSUME NEW s, Good(s), NEW b \in Nat,
         b + 1 \in s.tables[1], b + 2 \in s.tables[2], b + 3 \in s.tables[3]
  PROVE  Kept(s, MapNewL1(s, b))
<1> DEFINE s1 == Write(s, b + 3, Idx(3, b + 1), b + 1, "normal")
           s2 == Zero(s1, b + 1)
           s3 == Write(s2, b + 1, Idx(1, b + 3), b + 2, "table")
<1>1. "normal" \in Attr
  BY DEF Attr
<1>2. /\ 2 \in 0 .. 2 /\ 2 + 1 = 3 /\ 1 \in 0 .. 2 /\ 1 + 1 = 2
      /\ b + 1 \in Nat /\ b + 2 \in Nat /\ b + 3 \in Nat
  OBVIOUS
<1>3. Kept(s, s1)
  BY <1>1, <1>2, WritePage
<1>4. Kept(s, s2)
  <2> HIDE DEF s1
  <2>1. Kept(s1, s2)
    BY <1>3, ZeroKeeps DEF Kept
  <2> QED BY <1>3, <2>1 DEF Kept, Same
<1>5. Kept(s, s3)
  <2> HIDE DEF s2
  <2>1. Good(s2) /\ Same(s, s2)
    BY <1>4 DEF Kept
  <2>2. Kept(s2, s3)
    BY <2>1, <1>2, WriteLink DEF Same
  <2> QED BY <2>1, <2>2 DEF Kept, Same
<1> QED BY <1>5 DEF MapNewL1

LEMMA LinkL2Keeps ==
  ASSUME NEW s, Good(s), NEW parent \in s.tables[1], NEW b \in Nat,
         b + 2 \in s.tables[2], b + 3 \in s.tables[3]
  PROVE  Kept(s, LinkL2(s, parent, b))
<1> DEFINE s1 == Write(s, parent, Idx(1, b + 3), Tmp2, "table")
           s2 == LinkL3(s1, Tmp2, b)
           s3 == MapNewL2(s2, b)
<1>1. Tmp2 \in s.tables[2]
  BY DEF Good
<1>2. 1 \in 0 .. 2 /\ 1 + 1 = 2 /\ b + 3 \in Nat
  OBVIOUS
<1>3. Kept(s, s1)
  BY <1>1, <1>2, WriteLink
<1>4. Kept(s, s2)
  <2> HIDE DEF s1
  <2>1. Good(s1) /\ Same(s, s1)
    BY <1>3 DEF Kept
  <2>2. Kept(s1, s2)
    BY <2>1, <1>1, LinkL3Keeps DEF Same
  <2> QED BY <2>1, <2>2 DEF Kept, Same
<1>5. Kept(s, s3)
  <2> HIDE DEF s2
  <2>1. Good(s2) /\ Same(s, s2)
    BY <1>4 DEF Kept
  <2>2. Kept(s2, s3)
    BY <2>1, MapNewL2Keeps DEF Same
  <2> QED BY <2>1, <2>2 DEF Kept, Same
<1> QED BY <1>5, TouchKeeps DEF LinkL2

LEMMA LinkL1Keeps ==
  ASSUME NEW s, Good(s), NEW parent \in s.tables[0], NEW b \in Nat,
         b + 1 \in s.tables[1], b + 2 \in s.tables[2], b + 3 \in s.tables[3]
  PROVE  Kept(s, LinkL1(s, parent, b))
<1> DEFINE s1 == Write(s, parent, Idx(0, b + 3), Tmp1, "table")
           s2 == LinkL2(s1, Tmp1, b)
           s3 == MapNewL1(s2, b)
<1>1. Tmp1 \in s.tables[1]
  BY DEF Good
<1>2. 0 \in 0 .. 2 /\ 0 + 1 = 1 /\ b + 3 \in Nat
  OBVIOUS
<1>3. Kept(s, s1)
  BY <1>1, <1>2, WriteLink
<1>4. Kept(s, s2)
  <2> HIDE DEF s1
  <2>1. Good(s1) /\ Same(s, s1)
    BY <1>3 DEF Kept
  <2>2. Kept(s1, s2)
    BY <2>1, <1>1, LinkL2Keeps DEF Same
  <2> QED BY <2>1, <2>2 DEF Kept, Same
<1>5. Kept(s, s3)
  <2> HIDE DEF s2
  <2>1. Good(s2) /\ Same(s, s2)
    BY <1>4 DEF Kept
  <2>2. Kept(s2, s3)
    BY <2>1, MapNewL1Keeps DEF Same
  <2> QED BY <2>1, <2>2 DEF Kept, Same
<1> QED BY <1>5, TouchKeeps DEF LinkL1

-----------------------------------------------------------------------------
\* t is s with some pages of N as additional tables.
Grown(s, t, N) ==
  /\ Good(t) /\ t.free = s.free /\ t.ret = s.ret
  /\ \A k \in 0 .. 3 : s.tables[k] \subseteq t.tables[k]
                       /\ t.tables[k] \subseteq s.tables[k] \cup N

LEMMA KeptIsGrown ==
  ASSUME NEW s, NEW t, NEW N, Kept(s, t)
  PROVE  Grown(s, t, N)
BY DEF Kept, Same, Grown

LEMMA GrownTransitive ==
  ASSUME NEW s, NEW t, NEW u, NEW N, Grown(s, t, N), Grown(t, u, N)
  PROVE  Grown(s, u, N)
<1>1. Good(u) /\ u.free = s.free /\ u.ret = s.ret
  BY DEF Grown
<1>2. \A k \in 0 .. 3 : s.tables[k] \subseteq u.tables[k]
                        /\ u.tables[k] \subseteq s.tables[k] \cup N
  <2> TAKE k \in 0 .. 3
  <2>1. s.tables[k] \subseteq t.tables[k] /\ t.tables[k] \subseteq s.tables[k] \cup N
    BY DEF Grown
  <2>2. t.tables[k] \subseteq u.tables[k] /\ u.tables[k] \subseteq t.tables[k] \cup N
    BY DEF Grown
  <2> QED BY <2>1, <2>2
<1> QED BY <1>1, <1>2 DEF Grown

LEMMA TakeGrows ==
  ASSUME NEW s, Good(s), NEW k \in 0 .. 3, NEW p, Fresh(s, p), NEW N, p \in N
  PROVE  Grown(s, Take(s, k, p), N) /\ p \in Take(s, k, p).tables[k]
<1> DEFINE t == Take(s, k, p)
<1>1. /\ Good(t) /\ t.free = s.free /\ t.ret = s.ret
      /\ t.tables = [s.tables EXCEPT ![k] = @ \cup {p}]
  BY TakeKeeps
<1>2. s.tables \in [0 .. 3 -> SUBSET Nat]
  BY DEF Good, Machine
<1> HIDE DEF t
<1> QED BY <1>1, <1>2 DEF Grown, t

LEMMA GrownWidens ==
  ASSUME NEW s, NEW t, NEW N, NEW M, Grown(s, t, N), N \subseteq M
  PROVE  Grown(s, t, M)
BY DEF Grown

LEMMA GrownKeepsFresh ==
  ASSUME NEW s, NEW t, NEW N, Grown(s, t, N), NEW p, Fresh(s, p), p \notin N
  PROVE  Fresh(t, p)
BY DEF Grown, Fresh

LEMMA UseL3Grows ==
  ASSUME NEW s, Good(s), NEW b \in Nat, Fresh(s, b + 3)
  PROVE  /\ Grown(s, UseL3(s, b), {b + 3})
         /\ b + 3 \in UseL3(s, b).tables[3]
<1> DEFINE t == Note(s, "straddle", Straddles(b))
<1>1. Kept(s, t)
  BY NoteKeeps
<1> HIDE DEF t
<1>2. Good(t) /\ Fresh(t, b + 3) /\ Grown(s, t, {b + 3})
  BY <1>1, KeptIsGrown DEF Kept, Same, Fresh
<1>3. /\ Grown(t, Take(t, 3, b + 3), {b + 3})
      /\ b + 3 \in Take(t, 3, b + 3).tables[3]
  <2>1. 3 \in 0 .. 3 /\ b + 3 \in {b + 3}
    OBVIOUS
  <2> QED BY <1>2, <2>1, TakeGrows
<1> QED BY <1>2, <1>3, GrownTransitive DEF UseL3, t

LEMMA UseL2Grows ==
  ASSUME NEW s, Good(s), NEW b \in Nat, Fresh(s, b + 2), Fresh(s, b + 3)
  PROVE  /\ Grown(s, UseL2(s, b), {b + 2, b + 3})
         /\ b + 2 \in UseL2(s, b).tables[2]
         /\ b + 3 \in UseL2(s, b).tables[3]
<1> DEFINE t == UseL3(s, b)
           N == {b + 2, b + 3}
<1>1. Grown(s, t, {b + 3}) /\ b + 3 \in t.tables[3]
  BY UseL3Grows
<1> HIDE DEF t
<1>2. Good(t) /\ Fresh(t, b + 2)
  <2>1. b + 2 \notin {b + 3}
    OBVIOUS
  <2>2. Fresh(t, b + 2)
    BY <1>1, <2>1, GrownKeepsFresh
  <2> QED BY <1>1, <2>2 DEF Grown
<1>3. /\ Grown(t, Take(t, 2, b + 2), N)
      /\ b + 2 \in Take(t, 2, b + 2).tables[2]
  <2>1. 2 \in 0 .. 3 /\ b + 2 \in N
    OBVIOUS
  <2> QED BY <1>2, <2>1, TakeGrows
<1>4. Grown(s, t, N)
  BY <1>1, GrownWidens
<1>5. b + 3 \in Take(t, 2, b + 2).tables[3]
  <2>1. 3 \in 0 .. 3
    OBVIOUS
  <2> QED BY <1>1, <1>3, <2>1 DEF Grown
<1> QED BY <1>3, <1>4, <1>5, GrownTransitive DEF UseL2, t

LEMMA UseL1Grows ==
  ASSUME NEW s, Good(s), NEW b \in Nat,
         Fresh(s, b + 1), Fresh(s, b + 2), Fresh(s, b + 3)
  PROVE  /\ Grown(s, UseL1(s, b), {b + 1, b + 2, b + 3})
         /\ b + 1 \in UseL1(s, b).tables[1]
         /\ b + 2 \in UseL1(s, b).tables[2]
         /\ b + 3 \in UseL1(s, b).tables[3]
<1> DEFINE t == UseL2(s, b)
           N == {b + 1, b + 2, b + 3}
<1>1. /\ Grown(s, t, {b + 2, b + 3})
      /\ b + 2 \in t.tables[2] /\ b + 3 \in t.tables[3]
  BY UseL2Grows
<1> HIDE DEF t
<1>2. Good(t) /\ Fresh(t, b + 1)
  <2>1. b + 1 \notin {b + 2, b + 3}
    OBVIOUS
  <2>2. Fresh(t, b + 1)
    BY <1>1, <2>1, GrownKeepsFresh
  <2> QED BY <1>1, <2>2 DEF Grown
<1>3. /\ Grown(t, Take(t, 1, b + 1), N)
      /\ b + 1 \in Take(t, 1, b + 1).tables[1]
  <2>1. 1 \in 0 .. 3 /\ b + 1 \in N
    OBVIOUS
  <2> QED BY <1>2, <2>1, TakeGrows
<1>4. Grown(s, t, N)
  BY <1>1, GrownWidens
<1>5. /\ b + 2 \in Take(t, 1, b + 1).tables[2]
      /\ b + 3 \in Take(t, 1, b + 1).tables[3]
  <2>1. 2 \in 0 .. 3 /\ 3 \in 0 .. 3
    OBVIOUS
  <2> QED BY <1>1, <1>3, <2>1 DEF Grown
<1> QED BY <1>3, <1>4, <1>5, GrownTransitive DEF UseL1, t

\* The four paths of map_page_for_pagetable add pages of the new block, never
\* its first, as tables.
LEMMA FillL3Grows ==
  ASSUME NEW s, Good(s), NEW l3 \in s.tables[3], NEW b \in Nat, NEW N
  PROVE  Grown(s, FillL3(s, l3, b), N)
<1>1. CASE Valid(s, l3, Idx(3, b))
  <2>1. s.fault \in {"none", "abort", "stray", "noreturn"}
    BY DEF Good, Machine
  <2>2. Kept(s, [s EXCEPT !.fault = IF Failed(s) THEN s.fault ELSE "noreturn"])
    BY <2>1, FaultKeeps
  <2> QED BY <1>1, <2>2, KeptIsGrown DEF FillL3
<1>2. CASE ~Valid(s, l3, Idx(3, b))
  <2>1. "normal" \in Attr
    BY DEF Attr
  <2>2. Kept(s, Write(s, l3, Idx(3, b), b, "normal"))
    BY <2>1, WritePage
  <2> QED BY <1>2, <2>2, KeptIsGrown DEF FillL3
<1> QED BY <1>1, <1>2

LEMMA FillL2Grows ==
  ASSUME NEW s, Good(s), NEW l2 \in s.tables[2], NEW b \in Nat, Fresh(s, b + 3)
  PROVE  Grown(s, FillL2(s, l2, b), {b + 3})
<1> DEFINE s1 == UseL3(s, b)
           s2 == LinkL3(s1, l2, b)
           s3 == Write(s2, l2, Idx(2, b), b + 3, "table")
           s4 == Zero(s3, Tmp1)
<1>0. 2 \in 0 .. 3 /\ 2 \in 0 .. 2 /\ 2 + 1 = 3
  OBVIOUS
<1>1. Grown(s, s1, {b + 3}) /\ Good(s1) /\ l2 \in s1.tables[2] /\ b + 3 \in s1.tables[3]
  BY <1>0, UseL3Grows DEF Grown
<1> HIDE DEF s1
<1>2. Kept(s1, s2)
  BY <1>1, LinkL3Keeps
<1> HIDE DEF s2
<1>3. Kept(s1, s3)
  <2>1. Good(s2) /\ Same(s1, s2)
    BY <1>2 DEF Kept
  <2>2. Kept(s2, s3)
    BY <2>1, <1>0, <1>1, WriteLink DEF Same
  <2> QED BY <2>1, <2>2 DEF Kept, Same
<1> HIDE DEF s3
<1>4. Kept(s1, s4)
  <2>1. Kept(s3, s4)
    BY <1>3, ZeroKeeps DEF Kept
  <2> QED BY <1>3, <2>1 DEF Kept, Same
<1> QED BY <1>1, <1>4, KeptIsGrown, GrownTransitive DEF FillL2, s1, s2, s3

LEMMA FillL1Grows ==
  ASSUME NEW s, Good(s), NEW l1 \in s.tables[1], NEW b \in Nat,
         Fresh(s, b + 2), Fresh(s, b + 3)
  PROVE  Grown(s, FillL1(s, l1, b), {b + 2, b + 3})
<1> DEFINE s1 == UseL2(s, b)
           s2 == LinkL2(s1, l1, b)
           s3 == Write(s2, l1, Idx(1, b), b + 2, "table")
           s4 == Zero(s3, Tmp1)
           s5 == Zero(s4, Tmp2)
<1>0. 1 \in 0 .. 3 /\ 1 \in 0 .. 2 /\ 1 + 1 = 2
  OBVIOUS
<1>1. /\ Grown(s, s1, {b + 2, b + 3}) /\ Good(s1) /\ l1 \in s1.tables[1]
      /\ b + 2 \in s1.tables[2] /\ b + 3 \in s1.tables[3]
  BY <1>0, UseL2Grows DEF Grown
<1> HIDE DEF s1
<1>2. Kept(s1, s2)
  BY <1>1, LinkL2Keeps
<1> HIDE DEF s2
<1>3. Kept(s1, s3)
  <2>1. Good(s2) /\ Same(s1, s2)
    BY <1>2 DEF Kept
  <2>2. Kept(s2, s3)
    BY <2>1, <1>0, <1>1, WriteLink DEF Same
  <2> QED BY <2>1, <2>2 DEF Kept, Same
<1> HIDE DEF s3
<1>4. Kept(s1, s4)
  <2>1. Kept(s3, s4)
    BY <1>3, ZeroKeeps DEF Kept
  <2> QED BY <1>3, <2>1 DEF Kept, Same
<1> HIDE DEF s4
<1>5. Kept(s1, s5)
  <2>1. Kept(s4, s5)
    BY <1>4, ZeroKeeps DEF Kept
  <2> QED BY <1>4, <2>1 DEF Kept, Same
<1> QED BY <1>1, <1>5, KeptIsGrown, GrownTransitive DEF FillL1, s1, s2, s3, s4

LEMMA FillL0Grows ==
  ASSUME NEW s, Good(s), NEW b \in Nat,
         Fresh(s, b + 1), Fresh(s, b + 2), Fresh(s, b + 3)
  PROVE  Grown(s, FillL0(s, b), {b + 1, b + 2, b + 3})
<1> DEFINE s1 == UseL1(s, b)
           s2 == LinkL1(s1, L0, b)
           s3 == Write(s2, L0, Idx(0, b), b + 1, "table")
           s4 == Zero(s3, Tmp1)
           s5 == Zero(s4, Tmp2)
           s6 == Zero(s5, Tmp3)
<1>0. 0 \in 0 .. 2 /\ 0 + 1 = 1
  OBVIOUS
<1>1. /\ Grown(s, s1, {b + 1, b + 2, b + 3}) /\ Good(s1) /\ L0 \in s1.tables[0]
      /\ b + 1 \in s1.tables[1] /\ b + 2 \in s1.tables[2] /\ b + 3 \in s1.tables[3]
  BY UseL1Grows DEF Grown, Good
<1> HIDE DEF s1
<1>2. Kept(s1, s2)
  BY <1>1, LinkL1Keeps
<1> HIDE DEF s2
<1>3. Kept(s1, s3)
  <2>1. Good(s2) /\ Same(s1, s2)
    BY <1>2 DEF Kept
  <2>2. Kept(s2, s3)
    BY <2>1, <1>0, <1>1, WriteLink DEF Same
  <2> QED BY <2>1, <2>2 DEF Kept, Same
<1> HIDE DEF s3
<1>4. Kept(s1, s4)
  <2>1. Kept(s3, s4)
    BY <1>3, ZeroKeeps DEF Kept
  <2> QED BY <1>3, <2>1 DEF Kept, Same
<1> HIDE DEF s4
<1>5. Kept(s1, s5)
  <2>1. Kept(s4, s5)
    BY <1>4, ZeroKeeps DEF Kept
  <2> QED BY <1>4, <2>1 DEF Kept, Same
<1> HIDE DEF s5
<1>6. Kept(s1, s6)
  <2>1. Kept(s5, s6)
    BY <1>5, ZeroKeeps DEF Kept
  <2> QED BY <1>5, <2>1 DEF Kept, Same
<1> QED BY <1>1, <1>6, KeptIsGrown, GrownTransitive DEF FillL0, s1, s2, s3, s4, s5

\* The pages of the block that map_page_for_pagetable may use as tables.
Spare(b) == {b + 1, b + 2, b + 3}

\* An entry of a table of level k < 3 points to a table of level k+1.
LEMMA ChildIsTable ==
  ASSUME NEW s, Good(s), NEW k \in 0 .. 2, NEW tab \in s.tables[k], NEW i,
         Valid(s, tab, i)
  PROVE  Child(s, tab, i) \in s.tables[k + 1]
<1>1. Child(s, tab, i) \in Hop(s.mem, {tab}, i)
  BY DEF Child, Valid, Hop
<1>2. PICK e \in s.mem : e.tab = tab /\ e.to = Child(s, tab, i)
  BY <1>1 DEF Hop
<1>3. PICK j \in 0 .. 3 : e.tab \in s.tables[j] /\ (j < 3 => e.to \in s.tables[j + 1])
  BY DEF Good, Linked
<1>4. j = k
  BY <1>2, <1>3 DEF Good
<1> QED BY <1>2, <1>3, <1>4

\* map_page_for_pagetable, once the block is allocated: whatever the tables
\* look like, it only adds pages b+1 to b+3 to them.
LEMMA MapBlockGrows ==
  ASSUME NEW a, Good(a), NEW b \in Nat,
         Fresh(a, b + 1), Fresh(a, b + 2), Fresh(a, b + 3)
  PROVE  Grown(a, MapBlock(a, b), Spare(b))
<1> DEFINE l1 == Child(a, L0, Idx(0, b))
           l2 == Child(a, l1, Idx(1, b))
           l3 == Child(a, l2, Idx(2, b))
           t0 == Touch(a, L0)
           t1 == Touch(t0, l1)
           t2 == Touch(t1, l2)
           t3 == Touch(t2, l3)
<1>1. Kept(a, t0)
  BY TouchKeeps
<1>2. Kept(a, t1)
  <2> HIDE DEF t0, l1
  <2>1. Kept(t0, t1)
    BY <1>1, TouchKeeps DEF Kept
  <2> QED BY <1>1, <2>1 DEF Kept, Same
<1>3. Kept(a, t2)
  <2> HIDE DEF t1, l2
  <2>1. Kept(t1, t2)
    BY <1>2, TouchKeeps DEF Kept
  <2> QED BY <1>2, <2>1 DEF Kept, Same
<1>4. Kept(a, t3)
  <2> HIDE DEF t2, l3
  <2>1. Kept(t2, t3)
    BY <1>3, TouchKeeps DEF Kept
  <2> QED BY <1>3, <2>1 DEF Kept, Same
<1> DEFINE r == MapBlock(a, b)
<1>5. r = IF ~Valid(a, L0, Idx(0, b)) THEN FillL0(t0, b)
          ELSE IF ~Valid(a, l1, Idx(1, b)) THEN FillL1(t1, l1, b)
          ELSE IF ~Valid(a, l2, Idx(2, b)) THEN FillL2(t2, l2, b)
          ELSE FillL3(t3, l3, b)
  BY DEF MapBlock
<1>6. \A t : Kept(a, t) => /\ Good(t) /\ t.tables = a.tables /\ Grown(a, t, Spare(b))
                           /\ Fresh(t, b + 1) /\ Fresh(t, b + 2) /\ Fresh(t, b + 3)
  BY KeptIsGrown DEF Kept, Same, Fresh
<1>7. L0 \in a.tables[0] /\ 0 \in 0 .. 2 /\ 1 \in 0 .. 2 /\ 2 \in 0 .. 2
      /\ 0 + 1 = 1 /\ 1 + 1 = 2 /\ 2 + 1 = 3
  BY DEF Good
<1> HIDE DEF l1, l2, l3, t0, t1, t2, t3, r
<1>8. CASE ~Valid(a, L0, Idx(0, b))
  <2>1. Grown(t0, FillL0(t0, b), Spare(b))
    BY <1>1, <1>6, FillL0Grows DEF Spare
  <2>8. Grown(a, t0, Spare(b))
    BY <1>1, <1>6
  <2>9. Grown(a, FillL0(t0, b), Spare(b))
    BY <2>8, <2>1, GrownTransitive
  <2> QED BY <1>5, <1>8, <2>9 DEF r
<1>9. CASE Valid(a, L0, Idx(0, b)) /\ ~Valid(a, l1, Idx(1, b))
  <2>1. l1 \in t1.tables[1]
    BY <1>2, <1>6, <1>7, <1>9, ChildIsTable DEF l1
  <2>2. Grown(t1, FillL1(t1, l1, b), {b + 2, b + 3})
    BY <1>2, <1>6, <2>1, FillL1Grows
  <2>3. Grown(t1, FillL1(t1, l1, b), Spare(b))
    BY <2>2, GrownWidens DEF Spare
  <2>8. Grown(a, t1, Spare(b))
    BY <1>2, <1>6
  <2>9. Grown(a, FillL1(t1, l1, b), Spare(b))
    BY <2>8, <2>3, GrownTransitive
  <2> QED BY <1>5, <1>9, <2>9 DEF r
<1>10. CASE Valid(a, L0, Idx(0, b)) /\ Valid(a, l1, Idx(1, b)) /\ ~Valid(a, l2, Idx(2, b))
  <2>1. l1 \in a.tables[1]
    BY <1>7, <1>10, ChildIsTable DEF l1
  <2>2. l2 \in a.tables[2]
    BY <1>7, <1>10, <2>1, ChildIsTable DEF l2
  <2>3. Grown(t2, FillL2(t2, l2, b), {b + 3})
    BY <1>3, <1>6, <2>2, FillL2Grows
  <2>4. Grown(t2, FillL2(t2, l2, b), Spare(b))
    BY <2>3, GrownWidens DEF Spare
  <2>8. Grown(a, t2, Spare(b))
    BY <1>3, <1>6
  <2>9. Grown(a, FillL2(t2, l2, b), Spare(b))
    BY <2>8, <2>4, GrownTransitive
  <2> QED BY <1>5, <1>10, <2>9 DEF r
<1>11. CASE Valid(a, L0, Idx(0, b)) /\ Valid(a, l1, Idx(1, b)) /\ Valid(a, l2, Idx(2, b))
  <2>1. l1 \in a.tables[1]
    BY <1>7, <1>11, ChildIsTable DEF l1
  <2>2. l2 \in a.tables[2]
    BY <1>7, <1>11, <2>1, ChildIsTable DEF l2
  <2>3. l3 \in a.tables[3]
    BY <1>7, <1>11, <2>2, ChildIsTable DEF l3
  <2>4. Grown(t3, FillL3(t3, l3, b), Spare(b))
    BY <1>4, <1>6, <2>3, FillL3Grows
  <2>8. Grown(a, t3, Spare(b))
    BY <1>4, <1>6
  <2>9. Grown(a, FillL3(t3, l3, b), Spare(b))
    BY <2>8, <2>4, GrownTransitive
  <2> QED BY <1>5, <1>11, <2>9 DEF r
<1> QED BY <1>8, <1>9, <1>10, <1>11

-----------------------------------------------------------------------------
\* What a call of the MMU may do to the machine: it allocates upwards, keeps
\* its tables, and takes new ones only from what was free before the call.
Advances(s, t) ==
  /\ Good(t) /\ s.free <= t.free
  /\ \A k \in 0 .. 3 : /\ s.tables[k] \subseteq t.tables[k]
                       /\ \A p \in t.tables[k] : p \in s.tables[k] \/ s.free <= p

LEMMA FreeIsNat ==
  ASSUME NEW s, Good(s)
  PROVE  s.free \in Nat /\ s.ret \in Nat /\ \A k \in 0 .. 3 : s.tables[k] \subseteq Nat
BY DEF Good, Machine

LEMMA KeptAdvances ==
  ASSUME NEW s, Good(s), NEW t, Kept(s, t)
  PROVE  Advances(s, t)
BY FreeIsNat DEF Kept, Same, Advances

LEMMA AdvancesTransitive ==
  ASSUME NEW s, Good(s), NEW t, NEW u, Advances(s, t), Advances(t, u)
  PROVE  Advances(s, u)
<1>1. /\ Good(t) /\ Good(u)
      /\ s.free \in Nat /\ t.free \in Nat /\ u.free \in Nat
      /\ s.free <= t.free /\ t.free <= u.free
  BY FreeIsNat DEF Advances
<1>2. \A k \in 0 .. 3 : /\ s.tables[k] \subseteq u.tables[k]
                        /\ \A p \in u.tables[k] : p \in s.tables[k] \/ s.free <= p
  <2> TAKE k \in 0 .. 3
  <2>1. s.tables[k] \subseteq u.tables[k]
    BY DEF Advances
  <2>2. \A p \in u.tables[k] : p \in s.tables[k] \/ s.free <= p
    <3> TAKE p \in u.tables[k]
    <3>1. p \in Nat
      BY <1>1, FreeIsNat
    <3>2. p \in t.tables[k] \/ t.free <= p
      BY DEF Advances
    <3>3. p \in t.tables[k] => p \in s.tables[k] \/ s.free <= p
      BY DEF Advances
    <3> QED BY <1>1, <3>1, <3>2, <3>3
  <2> QED BY <2>1, <2>2
<1> QED BY <1>1, <1>2 DEF Advances

\* palloc_continuous_block: the four pages of the block are no tables yet.
LEMMA PallocAdvances ==
  ASSUME NEW s, Good(s)
  PROVE  LET a == palloc_continuous_block(s) IN
         /\ Good(a) /\ a.tables = s.tables /\ a.mem = s.mem
         /\ a.ret = s.free /\ a.free = s.free + 4
         /\ Fresh(a, s.free) /\ Fresh(a, s.free + 1)
         /\ Fresh(a, s.free + 2) /\ Fresh(a, s.free + 3)
<1> DEFINE a == palloc_continuous_block(s)
<1>1. s.free \in Nat /\ \A k \in 0 .. 3 : s.tables[k] \subseteq Nat
  BY FreeIsNat
<1>2. a \in Machine
  <2> DEFINE f == s.free + 4
             b == s.free
  <2>1. f \in Nat /\ b \in Nat
    BY <1>1
  <2>2. a = [[s EXCEPT !.free = f] EXCEPT !.ret = b]
    BY DEF palloc_continuous_block, Good, Machine
  <2> HIDE DEF a, f, b
  <2>3. [s EXCEPT !.free = f] \in Machine
    BY <2>1 DEF Good, Machine
  <2> QED BY <2>1, <2>2, <2>3 DEF Machine
<1>3. a.tables = s.tables /\ a.mem = s.mem /\ a.ret = s.free /\ a.free = s.free + 4
  BY DEF palloc_continuous_block, Good, Machine
<1> HIDE DEF a
<1>4. \A k \in 0 .. 3 : \A p \in a.tables[k] : p < s.free /\ p < a.free
  BY <1>1, <1>3 DEF Good
<1>5. Good(a)
  BY <1>2, <1>3, <1>4 DEF Good
<1>6. \A p \in Nat : s.free <= p /\ p < a.free => Fresh(a, p)
  BY <1>1, <1>4 DEF Fresh
<1>7. /\ s.free <= s.free + 1 /\ s.free <= s.free + 2 /\ s.free <= s.free + 3
      /\ s.free + 1 < s.free + 4 /\ s.free + 2 < s.free + 4 /\ s.free + 3 < s.free + 4
      /\ s.free < s.free + 4 /\ s.free <= s.free
      /\ s.free + 1 \in Nat /\ s.free + 2 \in Nat /\ s.free + 3 \in Nat
  BY <1>1
<1>8. /\ Fresh(a, s.free) /\ Fresh(a, s.free + 1)
      /\ Fresh(a, s.free + 2) /\ Fresh(a, s.free + 3)
  BY <1>1, <1>3, <1>6, <1>7
<1> QED BY <1>3, <1>5, <1>8 DEF a

\* map_page_for_pagetable returns a page that is no table yet; its caller
\* makes it one.
LEMMA MapPageForPagetableAdvances ==
  ASSUME NEW s, Good(s)
  PROVE  LET r == map_page_for_pagetable(s) IN
         Advances(s, r) /\ Fresh(r, r.ret) /\ s.free <= r.ret
<1> DEFINE a == palloc_continuous_block(s)
           b == s.free
           r == MapBlock(a, b)
<1>1. /\ Good(a) /\ a.tables = s.tables /\ a.ret = b /\ a.free = b + 4
      /\ Fresh(a, b) /\ Fresh(a, b + 1) /\ Fresh(a, b + 2) /\ Fresh(a, b + 3)
  BY PallocAdvances
<1>2. b \in Nat
  BY FreeIsNat
<1> HIDE DEF a
<1>3. Grown(a, r, Spare(b))
  BY <1>1, <1>2, MapBlockGrows
<1> HIDE DEF r
<1>4. Fresh(r, b)
  <2>1. b \notin Spare(b)
    BY <1>2 DEF Spare
  <2> QED BY <1>1, <1>3, <2>1, GrownKeepsFresh
<1>5. Good(r) /\ r.free = b + 4 /\ r.ret = b
  BY <1>1, <1>3 DEF Grown
<1>6. \A k \in 0 .. 3 : /\ s.tables[k] \subseteq r.tables[k]
                        /\ \A p \in r.tables[k] : p \in s.tables[k] \/ b <= p
  <2> TAKE k \in 0 .. 3
  <2>1. s.tables[k] \subseteq r.tables[k] /\ r.tables[k] \subseteq s.tables[k] \cup Spare(b)
    BY <1>1, <1>3 DEF Grown
  <2>2. \A p \in Spare(b) : b <= p
    BY <1>2 DEF Spare
  <2> QED BY <2>1, <2>2
<1>7. Advances(s, r)
  BY <1>2, <1>5, <1>6 DEF Advances
<1> QED BY <1>2, <1>4, <1>5, <1>7 DEF map_page_for_pagetable, r, a

\* The new table is linked into the slot of a table one level up.
LEMMA InstallAdvances ==
  ASSUME NEW a, Good(a), NEW k \in 0 .. 2, NEW tab \in a.tables[k], NEW p \in Nat,
         Fresh(a, a.ret), NEW f \in Nat, f <= a.ret
  PROVE  LET r == Install(a, k, tab, Idx(k, p)) IN
         /\ Good(r) /\ r.free = a.free
         /\ \A j \in 0 .. 3 : /\ a.tables[j] \subseteq r.tables[j]
                              /\ \A q \in r.tables[j] : q \in a.tables[j] \/ f <= q
<1> DEFINE i  == Idx(k, p)
           s1 == Take(a, k + 1, a.ret)
           s2 == Note(s1, "overwrite", Valid(a, tab, i))
           s3 == Write(s2, tab, i, a.ret, "table")
           s4 == Touch(s3, tab)
<1>1. k + 1 \in 0 .. 3 /\ k \in 0 .. 3
  OBVIOUS
<1>2. /\ Grown(a, s1, {a.ret}) /\ a.ret \in s1.tables[k + 1]
  BY <1>1, TakeGrows
<1> HIDE DEF s1
<1>3. Good(s1) /\ tab \in s1.tables[k]
  BY <1>1, <1>2 DEF Grown
<1>4. Kept(s1, s2)
  BY <1>3, NoteKeeps
<1> HIDE DEF s2
<1>5. Kept(s1, s3)
  <2>1. Good(s2) /\ Same(s1, s2)
    BY <1>4 DEF Kept
  <2>2. tab \in s2.tables[k] /\ a.ret \in s2.tables[k + 1]
    BY <1>2, <1>3, <2>1 DEF Same
  <2>3. Kept(s2, s3)
    BY <2>1, <2>2, WriteLink
  <2> QED BY <2>1, <2>3 DEF Kept, Same
<1> HIDE DEF s3
<1>6. Kept(s1, s4)
  <2>1. Kept(s3, s4)
    BY <1>5, TouchKeeps DEF Kept
  <2> QED BY <1>5, <2>1 DEF Kept, Same
<1>7. s4 = Install(a, k, tab, i)
  BY DEF Install, s3, s2, s1
<1> HIDE DEF s4
<1>8. Good(s4) /\ s4.free = a.free /\ s4.tables = s1.tables
  BY <1>2, <1>6 DEF Kept, Same, Grown
<1>9. \A j \in 0 .. 3 : /\ a.tables[j] \subseteq s4.tables[j]
                        /\ \A q \in s4.tables[j] : q \in a.tables[j] \/ f <= q
  BY <1>2, <1>8 DEF Grown
<1> QED BY <1>7, <1>8, <1>9

\* A store that did not fault has made its entry valid.
LEMMA WriteMakesValid ==
  ASSUME NEW s, Good(s), NEW tab, NEW i, NEW to, NEW attr,
         ~Failed(Touch(Write(s, tab, i, to, attr), tab))
  PROVE  Valid(Touch(Write(s, tab, i, to, attr), tab), tab, i)
<1> DEFINE t == Touch(s, tab)
           new == [tab |-> tab, idx |-> i, to |-> to, attr |-> attr]
           w == SetMem(t, Put(s.mem, tab, i, to, attr))
           u == Touch(w, tab)
<1>1. w = Write(s, tab, i, to, attr) /\ ~Failed(u)
  BY DEF Write
<1>2. Good(t)
  BY TouchKeeps DEF Kept
<1>3. Failed(t) => w = t
  BY DEF SetMem
<1>4. ~Failed(w)
  <2> HIDE DEF w
  <2> QED BY <1>1 DEF Touch
<1>5. w = [t EXCEPT !.mem = Put(s.mem, tab, i, to, attr)]
  <2> HIDE DEF t
  <2> QED BY <1>3, <1>4 DEF SetMem
<1>6. w.mem = Put(s.mem, tab, i, to, attr)
  <2> HIDE DEF t
  <2> QED BY <1>2, <1>5 DEF Good, Machine
<1>7. u.mem = w.mem
  <2>1. \A x \in {"abort", "stray"} : [w EXCEPT !.fault = x].mem = w.mem
    <3> HIDE DEF t
    <3> QED BY <1>2, <1>5 DEF Good, Machine
  <2> HIDE DEF w
  <2> QED BY <1>1, <2>1 DEF Touch, Translated, Failed
<1>8. new \in u.mem /\ new.tab = tab /\ new.idx = i
  BY <1>6, <1>7 DEF Put
<1> HIDE DEF u, new
<1>9. Valid(u, tab, i)
  BY <1>8 DEF Valid
<1> QED BY <1>1, <1>9 DEF u

LEMMA EnsureTableAdvances ==
  ASSUME NEW s, Good(s), NEW k \in 0 .. 2, NEW tab \in s.tables[k], NEW p \in Nat
  PROVE  LET r == EnsureTable(s, k, tab, Idx(k, p)) IN
         Advances(s, r) /\ (~Failed(r) => Valid(r, tab, Idx(k, p)))
<1> DEFINE i == Idx(k, p)
           a == map_page_for_pagetable(s)
           r == EnsureTable(s, k, tab, i)
           v == Install(a, k, tab, i)
<1>1. CASE Failed(s) \/ Valid(s, tab, i)
  <2>1. r = s
    BY <1>1 DEF EnsureTable
  <2>2. Advances(s, s)
    BY KeptAdvances DEF Kept, Same
  <2> HIDE DEF r, i
  <2> QED BY <1>1, <2>1, <2>2 DEF r, i
<1>2. CASE ~(Failed(s) \/ Valid(s, tab, i))
  <2>1. r = v
    BY <1>2 DEF EnsureTable
  <2>2. Advances(s, a) /\ Fresh(a, a.ret) /\ s.free <= a.ret
    BY MapPageForPagetableAdvances
  <2>3. s.free \in Nat
    BY FreeIsNat
  <2>4. ~Failed(v) => Valid(v, tab, i)
    <3> DEFINE x == Note(Take(a, k + 1, a.ret), "overwrite", Valid(a, tab, i))
    <3>1. v = Touch(Write(x, tab, i, a.ret, "table"), tab)
      BY DEF Install
    <3>2. Good(x)
      <4>1. Good(a) /\ k + 1 \in 0 .. 3
        BY <2>2 DEF Advances
      <4> DEFINE y == Take(a, k + 1, a.ret)
      <4>2. Good(y)
        BY <4>1, <2>2, TakeKeeps
      <4> HIDE DEF y
      <4>3. Good(Note(y, "overwrite", Valid(a, tab, i)))
        BY <4>2, NoteKeeps DEF Kept
      <4> QED BY <4>3 DEF y
    <3> HIDE DEF x, v, a, i
    <3> QED BY <3>1, <3>2, WriteMakesValid
  <2> HIDE DEF a
  <2>5. Good(a) /\ tab \in a.tables[k] /\ k \in 0 .. 3
    BY <2>2 DEF Advances
  <2>6. /\ Good(v) /\ v.free = a.free
        /\ \A j \in 0 .. 3 : /\ a.tables[j] \subseteq v.tables[j]
                             /\ \A q \in v.tables[j] : q \in a.tables[j] \/ s.free <= q
    BY <2>2, <2>3, <2>5, InstallAdvances
  <2> HIDE DEF v
  <2>7. Advances(s, v)
    BY <2>2, <2>6 DEF Advances
  <2> HIDE DEF r, i
  <2> QED BY <2>1, <2>4, <2>7 DEF r, i
<1> QED BY <1>1, <1>2

\* One level of mmu_map_4kb: unless it faults it goes on at a table one level
\* down.
LEMMA NextTableAdvances ==
  ASSUME NEW s, Good(s), NEW k \in 0 .. 2, NEW p \in Nat,
         ~Failed(s) => s.ret \in s.tables[k]
  PROVE  LET r == NextTable(s, k, p) IN
         Advances(s, r) /\ (~Failed(r) => r.ret \in r.tables[k + 1])
<1> DEFINE i == Idx(k, p)
           t == Read(s)
           u == EnsureTable(t, k, s.ret, i)
           r == Follow(u, s.ret, i)
<1>1. r = NextTable(s, k, p)
  BY DEF NextTable
<1>2. CASE Failed(s)
  <2>1. t = s
    BY <1>2 DEF Read, Touch
  <2>2. u = s
    BY <1>2, <2>1 DEF EnsureTable
  <2>3. r = s
    BY <1>2, <2>2 DEF Follow
  <2>4. Advances(s, s)
    BY KeptAdvances DEF Kept, Same
  <2> HIDE DEF r
  <2> QED BY <1>1, <1>2, <2>3, <2>4
<1>3. CASE ~Failed(s)
  <2>1. Kept(s, t)
    BY TouchKeeps DEF Read
  <2> HIDE DEF t
  <2>2. Good(t) /\ s.ret \in t.tables[k] /\ Advances(s, t)
    BY <1>3, <2>1, KeptAdvances DEF Kept, Same
  <2>3. Advances(t, u) /\ (~Failed(u) => Valid(u, s.ret, i))
    BY <2>2, EnsureTableAdvances
  <2> HIDE DEF u
  <2>4. Advances(s, u) /\ Good(u)
    BY <2>2, <2>3, AdvancesTransitive DEF Advances
  <2>5. CASE Failed(u)
    <3>1. r = u
      BY <2>5 DEF Follow
    <3> HIDE DEF r
    <3> QED BY <1>1, <2>4, <2>5, <3>1
  <2>6. CASE ~Failed(u)
    <3> DEFINE c == Child(u, s.ret, i)
    <3>1. r = [u EXCEPT !.ret = c]
      BY <2>6 DEF Follow
    <3>2. s.ret \in u.tables[k]
      BY <2>2, <2>3 DEF Advances
    <3>3. c \in u.tables[k + 1]
      BY <2>3, <2>4, <2>6, <3>2, ChildIsTable
    <3> HIDE DEF c, r
    <3>4. k + 1 \in 0 .. 3
      OBVIOUS
    <3>5. c \in Nat
      BY <2>4, <3>3, <3>4, FreeIsNat
    <3>6. /\ r \in Machine /\ r.ret = c /\ r.tables = u.tables
          /\ r.free = u.free /\ r.mem = u.mem
      BY <2>4, <3>1, <3>5 DEF Good, Machine
    <3>7. Good(r)
      BY <2>4, <3>6 DEF Good
    <3>8. Advances(s, r)
      BY <2>4, <3>6, <3>7 DEF Advances
    <3> QED BY <1>1, <3>3, <3>6, <3>8
  <2> QED BY <2>5, <2>6
<1> QED BY <1>2, <1>3

\* mmu_map_4kb, for every page, attribute and contents of the tables: it only
\* writes to pages that are tables before the call or were free before it.
LEMMA MapAdvances ==
  ASSUME NEW s, Good(s), NEW p \in Nat, NEW attr \in Attr
  PROVE  Advances(s, mmu_map_4kb(s, p, attr))
<1> DEFINE s0 == [s EXCEPT !.ret = L0]
           s1 == NextTable(s0, 0, p)
           s2 == NextTable(s1, 1, p)
           s3 == NextTable(s2, 2, p)
           s4 == Read(s3)
           s5 == MapPage(s4, p, attr)
<1>0. /\ 0 \in 0 .. 2 /\ 1 \in 0 .. 2 /\ 2 \in 0 .. 2
      /\ 0 + 1 = 1 /\ 1 + 1 = 2 /\ 2 + 1 = 3
  OBVIOUS
<1>1. Advances(s, s0) /\ s0.ret \in s0.tables[0]
  <2>1. L0 \in Nat
    BY MmuAssumption DEF L0
  <2>2. /\ s0 \in Machine /\ s0.ret = L0 /\ s0.tables = s.tables
        /\ s0.free = s.free /\ s0.mem = s.mem
    BY <2>1 DEF Good, Machine
  <2> HIDE DEF s0
  <2>3. Good(s0)
    BY <2>2 DEF Good
  <2>4. s.free \in Nat
    BY FreeIsNat
  <2> QED BY <2>2, <2>3, <2>4 DEF Advances, Good
<1> HIDE DEF s0
<1>2. Advances(s, s1) /\ (~Failed(s1) => s1.ret \in s1.tables[1])
  <2>1. Good(s0)
    BY <1>1 DEF Advances
  <2>2. Advances(s0, s1) /\ (~Failed(s1) => s1.ret \in s1.tables[1])
    BY <2>1, <1>0, <1>1, NextTableAdvances
  <2> HIDE DEF s1
  <2> QED BY <1>1, <2>2, AdvancesTransitive
<1> HIDE DEF s1
<1>3. Advances(s, s2) /\ (~Failed(s2) => s2.ret \in s2.tables[2])
  <2>1. Good(s1)
    BY <1>2 DEF Advances
  <2>2. Advances(s1, s2) /\ (~Failed(s2) => s2.ret \in s2.tables[2])
    BY <2>1, <1>0, <1>2, NextTableAdvances
  <2> HIDE DEF s2
  <2> QED BY <1>2, <2>2, AdvancesTransitive
<1> HIDE DEF s2
<1>4. Advances(s, s3) /\ (~Failed(s3) => s3.ret \in s3.tables[3])
  <2>1. Good(s2)
    BY <1>3 DEF Advances
  <2>2. Advances(s2, s3) /\ (~Failed(s3) => s3.ret \in s3.tables[3])
    BY <2>1, <1>0, <1>3, NextTableAdvances
  <2> HIDE DEF s3
  <2> QED BY <1>3, <2>2, AdvancesTransitive
<1> HIDE DEF s3
<1>5. Advances(s, s4) /\ Good(s4) /\ (~Failed(s4) => s4.ret \in s4.tables[3])
  <2>1. Good(s3)
    BY <1>4 DEF Advances
  <2>2. Kept(s3, s4)
    BY <2>1, TouchKeeps DEF Read
  <2>3. Failed(s3) => Failed(s4)
    BY DEF Read, Touch
  <2> HIDE DEF s4
  <2>4. Advances(s3, s4)
    BY <2>1, <2>2, KeptAdvances
  <2> QED BY <1>4, <2>2, <2>3, <2>4, AdvancesTransitive DEF Kept, Same
<1> HIDE DEF s4
<1>6. Advances(s, s5)
  <2>1. CASE Failed(s4) \/ Valid(s4, s4.ret, Idx(3, p))
    BY <1>5, <2>1 DEF MapPage
  <2>2. CASE ~(Failed(s4) \/ Valid(s4, s4.ret, Idx(3, p)))
    <3> DEFINE w == Write(s4, s4.ret, Idx(3, p), p, attr)
    <3>1. s5 = w
      BY <2>2 DEF MapPage
    <3>2. Kept(s4, w)
      BY <1>5, <2>2, WritePage
    <3> HIDE DEF w
    <3>3. Advances(s4, w)
      BY <1>5, <3>2, KeptAdvances
    <3> QED BY <1>5, <3>1, <3>3, AdvancesTransitive
  <2> QED BY <2>1, <2>2
<1> QED BY <1>6 DEF mmu_map_4kb, s4, s3, s2, s1, s0

-----------------------------------------------------------------------------
(***************************************************************************)
(* The inductive invariant: the memory is sorted into tables (Good), and   *)
(* everything kalloc has reserved lies below the allocator's pointer, from *)
(* where new tables come, and is no table now.                             *)
(***************************************************************************)
DataApart ==
  \A p \in data : p \in Nat /\ p < m.free /\ \A k \in 0 .. 3 : p \notin m.tables[k]

IInv == TypeOK /\ Good(m) /\ DataApart

\* Whatever advances the machine does not make a table of reserved pages.
LEMMA AdvanceKeepsDataApart ==
  ASSUME Good(m), DataApart, Advances(m, m'), data' = data
  PROVE  DataApart'
<1>1. m.free \in Nat /\ m'.free \in Nat /\ m.free <= m'.free
  BY FreeIsNat DEF Advances
<1> SUFFICES ASSUME NEW p \in data
             PROVE  p \in Nat /\ p < m'.free /\ \A k \in 0 .. 3 : p \notin m'.tables[k]
  BY DEF DataApart
<1>2. p \in Nat /\ p < m.free /\ \A k \in 0 .. 3 : p \notin m.tables[k]
  BY DEF DataApart
<1>3. \A k \in 0 .. 3 : p \notin m'.tables[k]
  BY <1>1, <1>2 DEF Advances
<1> QED BY <1>1, <1>2, <1>3

\* The reachable tables are tables, so Good and DataApart give TablesPrivate.
LEMMA IInvImpliesTablesPrivate ==
  ASSUME Good(m), DataApart
  PROVE  TablesPrivate
<1> DEFINE T(k) == m.tables[k]
           t1 == Targets(m.mem, {L0})
           t2 == Targets(m.mem, t1)
           t3 == Targets(m.mem, t2)
<1>1. \A k \in 0 .. 2 : \A e \in m.mem : e.tab \in T(k) => e.to \in T(k + 1)
  <2> TAKE k \in 0 .. 2
  <2> TAKE e \in m.mem
  <2> HAVE e.tab \in T(k)
  <2>1. PICK j \in 0 .. 3 : e.tab \in m.tables[j] /\ (j < 3 => e.to \in m.tables[j + 1])
    BY DEF Good, Linked
  <2>2. j = k
    BY <2>1 DEF Good
  <2> QED BY <2>1, <2>2
<1>2. 0 \in 0 .. 2 /\ 1 \in 0 .. 2 /\ 2 \in 0 .. 2 /\ 0 + 1 = 1 /\ 1 + 1 = 2 /\ 2 + 1 = 3
  OBVIOUS
<1>3. \A e \in m.mem : /\ e.tab \in T(0) => e.to \in T(1)
                       /\ e.tab \in T(1) => e.to \in T(2)
                       /\ e.tab \in T(2) => e.to \in T(3)
  <2> HIDE DEF T
  <2> QED BY <1>1, <1>2
<1>4. L0 \in T(0)
  BY DEF Good
<1> HIDE DEF T
<1>5. t1 \subseteq T(1)
  BY <1>3, <1>4 DEF Targets
<1>6. t2 \subseteq T(2)
  <2> HIDE DEF t1
  <2> QED BY <1>3, <1>5 DEF Targets
<1>7. t3 \subseteq T(3)
  <2> HIDE DEF t2
  <2> QED BY <1>3, <1>6 DEF Targets
<1>8. Live(m.mem) = {L0} \cup t1 \cup t2 \cup t3
  BY DEF Live
<1>9. \A p \in data : p \notin T(0) /\ p \notin T(1) /\ p \notin T(2) /\ p \notin T(3)
  <2>1. 0 \in 0 .. 3 /\ 1 \in 0 .. 3 /\ 2 \in 0 .. 3 /\ 3 \in 0 .. 3
    OBVIOUS
  <2> QED BY <2>1 DEF DataApart, T
<1> HIDE DEF t1, t2, t3
<1> QED BY <1>4, <1>5, <1>6, <1>7, <1>8, <1>9 DEF TablesPrivate

\* A machine as it is at boot has the right type.
LEMMA MachineAtBoot ==
  ASSUME NEW mem \in SUBSET [tab : Nat, idx : 0 .. F - 1, to : Nat, attr : Attr],
         NEW tables \in [0 .. 3 -> SUBSET Nat],
         NEW free \in Nat, NEW ret \in Nat
  PROVE  [mem |-> mem, free |-> free, on |-> FALSE, fault |-> "none", ret |-> ret,
          tables |-> tables, clash |-> {}] \in Machine
<1> DEFINE M == SUBSET [tab : Nat, idx : 0 .. F - 1, to : Nat, attr : Attr]
           T == [0 .. 3 -> SUBSET Nat]
           C == SUBSET {"overwrite", "straddle"}
<1>1. mem \in M /\ tables \in T /\ {} \in C
  OBVIOUS
<1> HIDE DEF M, T, C
<1>2. [mem |-> mem, free |-> free, on |-> FALSE, fault |-> "none", ret |-> ret,
       tables |-> tables, clash |-> {}]
        \in [mem : M, free : Nat, on : BOOLEAN,
             fault : {"none", "abort", "stray", "noreturn"}, ret : Nat,
             tables : T, clash : C]
  BY <1>1
<1> QED BY <1>2 DEF Machine, M, T, C

LEMMA InitIInv == Init => IInv
<1> SUFFICES ASSUME NEW h \in HeapStarts,
                    m = BootMachine({}, h), job = BootJob(h), image = KernelStart .. h - 1,
                    calls = 0, boots = 1, data = {}, device = {}
             PROVE  IInv
  BY DEF Init
<1> DEFINE T == [k \in 0 .. 3 |-> CASE k = 0 -> {L0} [] k = 1 -> {L1, Tmp1}
                                    [] k = 2 -> {L2, Tmp2} [] OTHER -> {L3, Tmp3}]
           mem == BootMem({})
<1>1. /\ h \in Nat /\ h >= KernelStart /\ KernelStart \in Nat
      /\ Base \in Nat /\ KernelStart = Base + 7
  BY MmuAssumption DEF KernelStart
<1>2. /\ L0 \in Nat /\ L1 \in Nat /\ L2 \in Nat /\ L3 \in Nat
      /\ Tmp1 \in Nat /\ Tmp2 \in Nat /\ Tmp3 \in Nat
      /\ L0 < h /\ L1 < h /\ L2 < h /\ L3 < h /\ Tmp1 < h /\ Tmp2 < h /\ Tmp3 < h
  BY <1>1 DEF L0, L1, L2, L3, Tmp1, Tmp2, Tmp3
<1>3. /\ T[0] = {L0} /\ T[1] = {L1, Tmp1} /\ T[2] = {L2, Tmp2} /\ T[3] = {L3, Tmp3}
      /\ T \in [0 .. 3 -> SUBSET Nat]
  BY <1>2
<1>4. \A j, k \in 0 .. 3 : \A p \in T[j] : p \in T[k] => j = k
  <2>1. /\ L0 = Base /\ L1 = Base + 1 /\ L2 = Base + 2 /\ L3 = Base + 3
        /\ Tmp1 = Base + 4 /\ Tmp2 = Base + 5 /\ Tmp3 = Base + 6
    BY DEF L0, L1, L2, L3, Tmp1, Tmp2, Tmp3
  <2> HIDE DEF T
  <2> QED BY <1>1, <1>3, <2>1
<1>5. \A k \in 0 .. 3 : \A p \in T[k] : p < h
  <2> HIDE DEF T
  <2> QED BY <1>2, <1>3
<1>6. mem \in SUBSET Descriptor
  <2> SUFFICES ASSUME NEW e \in mem PROVE e \in Descriptor
    OBVIOUS
  <2>1. \A k \in Nat : Idx(k, L0) \in 0 .. F - 1
    BY <1>2, IdxInTable
  <2>2. \A i \in 0 .. 6 : i \in 0 .. F - 1 /\ Base + i \in Nat
    BY MmuAssumption
  <2>3. "table" \in Attr /\ "normal" \in Attr
    BY DEF Attr
  <2>4. \/ e = [tab |-> L0, idx |-> Idx(0, L0), to |-> L1, attr |-> "table"]
        \/ e = [tab |-> L1, idx |-> Idx(1, L0), to |-> L2, attr |-> "table"]
        \/ e = [tab |-> L2, idx |-> Idx(2, L0), to |-> L3, attr |-> "table"]
        \/ \E i \in 0 .. 6 : e = [tab |-> L3, idx |-> i, to |-> Base + i, attr |-> "normal"]
    BY DEF BootMem
  <2>5. Idx(0, L0) \in 0 .. F - 1 /\ Idx(1, L0) \in 0 .. F - 1 /\ Idx(2, L0) \in 0 .. F - 1
    BY <2>1
  <2>6. CASE e = [tab |-> L0, idx |-> Idx(0, L0), to |-> L1, attr |-> "table"]
    BY <1>2, <2>3, <2>5, <2>6 DEF Descriptor
  <2>7. CASE e = [tab |-> L1, idx |-> Idx(1, L0), to |-> L2, attr |-> "table"]
    BY <1>2, <2>3, <2>5, <2>7 DEF Descriptor
  <2>8. CASE e = [tab |-> L2, idx |-> Idx(2, L0), to |-> L3, attr |-> "table"]
    BY <1>2, <2>3, <2>5, <2>8 DEF Descriptor
  <2>9. CASE \E i \in 0 .. 6 : e = [tab |-> L3, idx |-> i, to |-> Base + i, attr |-> "normal"]
    <3>1. PICK i \in 0 .. 6 : e = [tab |-> L3, idx |-> i, to |-> Base + i, attr |-> "normal"]
      BY <2>9
    <3>2. L3 \in Nat /\ i \in 0 .. F - 1 /\ Base + i \in Nat
      BY <1>2, <2>2
    <3> QED BY <2>3, <3>1, <3>2 DEF Descriptor
  <2> QED BY <2>4, <2>6, <2>7, <2>8, <2>9
<1>7. \A e \in mem : Linked(T, e)
  <2> TAKE e \in mem
  <2> HIDE DEF T
  <2>1. /\ 0 \in 0 .. 3 /\ 1 \in 0 .. 3 /\ 2 \in 0 .. 3 /\ 3 \in 0 .. 3 /\ ~(3 < 3)
        /\ 0 + 1 = 1 /\ 1 + 1 = 2 /\ 2 + 1 = 3
    OBVIOUS
  <2>2. \/ e.tab = L0 /\ e.to = L1
        \/ e.tab = L1 /\ e.to = L2
        \/ e.tab = L2 /\ e.to = L3
        \/ e.tab = L3
    BY DEF BootMem
  <2>3. CASE e.tab = L0 /\ e.to = L1
    BY <1>3, <2>1, <2>3 DEF Linked
  <2>4. CASE e.tab = L1 /\ e.to = L2
    BY <1>3, <2>1, <2>4 DEF Linked
  <2>5. CASE e.tab = L2 /\ e.to = L3
    BY <1>3, <2>1, <2>5 DEF Linked
  <2>6. CASE e.tab = L3
    BY <1>3, <2>1, <2>6 DEF Linked
  <2> QED BY <2>2, <2>3, <2>4, <2>5, <2>6
<1> HIDE DEF T, mem
<1>8. m = [mem |-> mem, free |-> h, on |-> FALSE, fault |-> "none", ret |-> L0,
           tables |-> T, clash |-> {}]
  BY DEF BootMachine, T, mem
<1>9. m \in Machine
  <2>1. mem \in SUBSET [tab : Nat, idx : 0 .. F - 1, to : Nat, attr : Attr]
    BY <1>6 DEF Descriptor
  <2>2. T \in [0 .. 3 -> SUBSET Nat]
    BY <1>3
  <2>3. h \in Nat /\ L0 \in Nat
    BY <1>1, <1>2
  <2>4. [mem |-> mem, free |-> h, on |-> FALSE, fault |-> "none", ret |-> L0,
         tables |-> T, clash |-> {}] \in Machine
    BY <2>1, <2>2, <2>3, MachineAtBoot
  <2> QED BY <1>8, <2>4, Zenon
<1>10. Good(m)
  BY <1>3, <1>4, <1>5, <1>7, <1>8, <1>9 DEF Good
<1>11. job \in Job
  <2>1. h - KernelStart \in Nat
    BY <1>1
  <2> QED BY <1>1, <2>1 DEF BootJob, Job
<1>12. image \subseteq Nat
  BY <1>1
<1>13. TypeOK
  BY <1>9, <1>11, <1>12 DEF TypeOK
<1>14. DataApart
  BY DEF DataApart
<1> QED BY <1>10, <1>13, <1>14 DEF IInv

\* One round of a loop over pages keeps the type of the job.
LEMMA JobAdvances ==
  ASSUME NEW j \in Job, j.left > 0
  PROVE  [j EXCEPT !.next = @ + 1, !.left = @ - 1] \in Job
<1>1. j.next + 1 \in Nat /\ j.left - 1 \in Nat
  BY DEF Job
<1> QED BY <1>1 DEF Job

\* Every step of a boot keeps the invariant.
LEMMA NextIInv == IInv /\ [Next]_vars => IInv'
<1> SUFFICES ASSUME IInv, [Next]_vars PROVE IInv'
  OBVIOUS
<1> USE DEF IInv
<1>0. /\ m \in Machine /\ job \in Job /\ calls \in Nat /\ boots \in Nat
      /\ image \subseteq Nat /\ data \subseteq Nat /\ device \subseteq Nat
      /\ m.free \in Nat /\ job.next \in Nat /\ job.left \in Nat /\ job.clear \in Nat
  BY FreeIsNat DEF TypeOK, Job
<1>1. CASE MapAddrStep
  <2>1. "normal" \in Attr
    BY DEF Attr
  <2>2. Advances(m, m')
    BY <1>0, <1>1, <2>1, MapAdvances DEF MapAddrStep
  <2>3. job' \in Job
    BY <1>0, <1>1, JobAdvances DEF MapAddrStep
  <2>4. DataApart'
    BY <1>1, <2>2, AdvanceKeepsDataApart DEF MapAddrStep
  <2> QED BY <1>0, <1>1, <2>2, <2>3, <2>4 DEF MapAddrStep, TypeOK, Advances, Good
<1>2. CASE RegisterDeviceStep
  <2>1. "device" \in Attr
    BY DEF Attr
  <2>2. Advances(m, m')
    BY <1>0, <1>2, <2>1, MapAdvances DEF RegisterDeviceStep
  <2>3. job' \in Job /\ device' \subseteq Nat
    BY <1>0, <1>2, JobAdvances DEF RegisterDeviceStep
  <2>4. DataApart'
    BY <1>2, <2>2, AdvanceKeepsDataApart DEF RegisterDeviceStep
  <2> QED BY <1>0, <1>2, <2>2, <2>3, <2>4 DEF RegisterDeviceStep, TypeOK, Advances, Good
<1>3. CASE InitUart
  <2>1. job' \in Job
    BY <1>3, MmuAssumption DEF InitUart, Job
  <2> QED BY <1>0, <1>3, <2>1 DEF InitUart, TypeOK, DataApart
<1>4. CASE EnableMmu
  <2>1. job' \in Job
    BY <1>4 DEF EnableMmu, Job, Idle
  <2>2. m' \in Machine /\ m'.tables = m.tables /\ m'.mem = m.mem /\ m'.free = m.free
    BY <1>0, <1>4 DEF EnableMmu, Machine
  <2>3. Good(m')
    BY <2>2 DEF Good
  <2> QED BY <1>0, <1>4, <2>1, <2>2, <2>3 DEF EnableMmu, TypeOK, DataApart
<1>5. ASSUME NEW n \in Requests, kalloc(n) PROVE IInv'
  <2>1. n \in Nat
    BY MmuAssumption
  <2>2. job' \in Job /\ calls' \in Nat /\ data' \subseteq Nat
    BY <1>0, <1>5, <2>1 DEF kalloc, Job
  <2>3. /\ m' \in Machine /\ m'.tables = m.tables /\ m'.mem = m.mem
        /\ m'.free = m.free + n
    BY <1>0, <1>5, <2>1 DEF kalloc, Machine
  <2>4. \A k \in 0 .. 3 : \A p \in m.tables[k] : p \in Nat /\ p < m.free
    BY <1>0 DEF Good, Machine
  <2>5. Good(m')
    BY <1>0, <2>1, <2>3, <2>4 DEF Good
  <2>6. DataApart'
    <3> SUFFICES ASSUME NEW p \in data'
                 PROVE  p \in Nat /\ p < m'.free /\ \A k \in 0 .. 3 : p \notin m'.tables[k]
      BY DEF DataApart
    <3>1. CASE p \in data
      BY <1>0, <2>1, <2>3, <3>1 DEF DataApart
    <3>2. CASE p \in m.free .. m.free + n - 1
      BY <1>0, <2>1, <2>3, <2>4, <3>2
    <3> QED BY <1>5, <3>1, <3>2 DEF kalloc
  <2> QED BY <1>0, <1>5, <2>2, <2>3, <2>5, <2>6 DEF kalloc, TypeOK
<1>6. CASE ClearPage
  <2>1. job' \in Job
    BY <1>0, <1>6 DEF ClearPage, Job
  <2>2. Kept(m, m')
    BY <1>6, ZeroKeeps DEF ClearPage
  <2>3. Good(m') /\ m' \in Machine /\ m'.tables = m.tables /\ m'.free = m.free
    BY <2>2 DEF Kept, Same, Good
  <2> QED BY <1>0, <1>6, <2>1, <2>3 DEF ClearPage, TypeOK, DataApart
<1>7. ASSUME NEW d \in Devices, register_device_memory(d) PROVE IInv'
  <2>1. d[1] \in Nat /\ d[2] \in Nat
    BY MmuAssumption
  <2>2. job' \in Job /\ calls' \in Nat
    BY <1>0, <1>7, <2>1 DEF register_device_memory, Job
  <2> QED BY <1>0, <1>7, <2>2 DEF register_device_memory, TypeOK, DataApart
<1>8. CASE Return
  <2>1. job' \in Job
    BY <1>8 DEF Return, Job, Idle
  <2> QED BY <1>0, <1>8, <2>1 DEF Return, TypeOK, DataApart
<1>9. CASE UNCHANGED vars
  BY <1>9 DEF vars, TypeOK, DataApart
<1> QED BY <1>1, <1>2, <1>3, <1>4, <1>5, <1>6, <1>7, <1>8, <1>9 DEF Next

-----------------------------------------------------------------------------
\* From the boot on, without a reset, the memory stays sorted into tables of
\* the four levels, and what kalloc has reserved stays out of them.
THEOREM MmuInvariant == Spec => []IInv
<1> QED BY InitIInv, NextIInv, PTL DEF Spec

\* The types: in particular no index that mmu.c computes from an address lies
\* outside a table, so no descriptor is written behind one.
THEOREM MmuTypes == Spec => []TypeOK
<1>1. IInv => TypeOK
  BY DEF IInv
<1> QED BY <1>1, MmuInvariant, PTL

\* No page is a table the hardware walks and memory of a caller of kalloc, for
\* every size of table, layout and sequence of requests, even after the two
\* clashes of map_page_for_pagetable.
THEOREM TablesStayPrivate == Spec => []TablesPrivate
<1>1. IInv => TablesPrivate
  BY IInvImpliesTablesPrivate DEF IInv
<1> QED BY <1>1, MmuInvariant, PTL
=============================================================================
