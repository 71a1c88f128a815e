------------------------- MODULE MmuMapping_proofs --------------------------
(***************************************************************************)
(* Proofs about what the page tables map: FaultOnlyByClash and, between    *)
(* calls, MappingExact, for every layout within LayoutAssumption, as long  *)
(* as the allocator stays in the memory one level-1 entry covers (the code *)
(* never compares it with anything).                                       *)
(*                                                                         *)
(* Neither is inductive.  Every table lies at a place in the address space *)
(* of its own: `at` says at which, and every entry points to what belongs  *)
(* to its own place (Placed).  So the pages that are mapped are mapped to  *)
(* themselves, and which pages those are is a matter of counting (Sound).  *)
(***************************************************************************)
EXTENDS Mmu_proofs

RamEnd == Base + F * F

\* The tables that are linked, and the pages that are mapped as memory of either
\* kind; the temporary table Tmp3 keeps its old entries, but is not linked.
LinkedTables(mem) == {e.to : e \in {d \in mem : d.attr = "table"}}
Normal(mem) == {e.to : e \in {d \in mem : d.attr = "normal" /\ d.tab # Tmp3}}
Device(mem) == {e.to : e \in {d \in mem : d.attr = "device" /\ d.tab # Tmp3}}

Functional(mem) == \A e, f \in mem : e.tab = f.tab /\ e.idx = f.idx => e = f

\* The links above the level-2 table that covers RAM.
Root1 == [tab |-> L0, idx |-> Idx(0, Base), to |-> L1, attr |-> "table"]
Root2 == [tab |-> L1, idx |-> Idx(1, Base), to |-> L2, attr |-> "table"]

\* The attribute tells the level, the temporary tables are out of use, and a
\* table that has entries is linked.
Ordered(s) ==
  \A e \in s.mem :
    /\ e.attr = "table" <=> e.tab \notin s.tables[3]
    /\ e.tab \notin {Tmp1, Tmp2}
    /\ e.attr = "table" => e.to \notin {Tmp1, Tmp2, Tmp3}
    /\ e.tab \in {L0, Tmp3} \cup LinkedTables(s.mem)

\* at[t] is the place of table t: what is left of the addresses it translates
\* when the indices into it and into the tables below are dropped.
Placed(s, at) ==
  /\ at \in [Nat -> Nat] /\ at[L0] = 0
  /\ \A e \in s.mem :
       /\ e.attr = "table" => at[e.to] = at[e.tab] * F + e.idx
       /\ e.attr # "table" /\ e.tab # Tmp3 => e.to = at[e.tab] * F + e.idx
       /\ e.attr = "normal" /\ e.tab # Tmp3 => e.to \in Reach /\ e.to < s.free
       /\ e.attr = "device" /\ e.tab # Tmp3 => e.to \notin Reach

Shape(s, at) ==
  /\ Good(s)
  /\ Functional(s.mem)
  /\ Root1 \in s.mem /\ Root2 \in s.mem
  /\ Ordered(s)
  /\ Placed(s, at)

\* R: the pages asked for as memory, D: as device memory.  tab: a table in use,
\* at place v.
Sound(s, R, D, tab, v) ==
  /\ ~Failed(s) /\ s.clash = {} /\ s.free <= RamEnd
  /\ Normal(s.mem) = InitPages \cup LinkedTables(s.mem) \cup R
  /\ Device(s.mem) = D
  /\ tab \in {L0} \cup LinkedTables(s.mem)
  /\ \E at : Shape(s, at) /\ at[tab] = v

-----------------------------------------------------------------------------
\* Division with remainder.
LEMMA Quotient ==
  ASSUME NEW x \in Int, NEW d \in Nat \ {0}
  PROVE  /\ x \div d \in Int /\ x % d \in 0 .. d - 1
         /\ x = (x \div d) * d + (x % d)
         /\ x \in Nat => x \div d \in Nat
<1>1. /\ x \div d \in Int /\ x % d \in 0 .. d - 1
      /\ x = d * (x \div d) + (x % d)
  BY Z3
<1> DEFINE q == x \div d
           r == x % d
<1> HIDE DEF q, r
<1>2. /\ q \in Int /\ r \in 0 .. d - 1 /\ x = q * d + r
  BY <1>1 DEF q, r
<1>3. ASSUME x \in Nat, q < 0 PROVE FALSE
  <2>1. q <= -1 /\ q * d <= (-1) * d
    BY <1>2, <1>3, Z3
  <2> QED BY <1>2, <1>3, <2>1
<1> QED BY <1>2, <1>3 DEF q, r

LEMMA QuotientOfMultiple ==
  ASSUME NEW x \in Nat, NEW d \in Nat \ {0}, x % d = 0
  PROVE  x \div d \in Nat /\ x = (x \div d) * d
<1> DEFINE q == x \div d
           r == x % d
<1>1. q \in Nat /\ r = 0 /\ x = q * d + r
  BY Quotient
<1> HIDE DEF q, r
<1>2. q * d \in Int
  BY <1>1, Z3
<1>3. x = q * d
  BY <1>1, <1>2
<1> QED BY <1>1, <1>3 DEF q

LEMMA UniqueQuotient ==
  ASSUME NEW d \in Nat \ {0}, NEW q \in Int, NEW r \in 0 .. d - 1
  PROVE  (q * d + r) \div d = q /\ (q * d + r) % d = r
<1> DEFINE x == q * d + r
           p == x \div d
           m0 == x % d
<1>0. x \in Int
  BY Z3
<1> HIDE DEF x
<1>1. p \in Int /\ m0 \in 0 .. d - 1 /\ x = p * d + m0
  BY <1>0, Quotient
<1> HIDE DEF p, m0
<1>2. q * d + r = p * d + m0
  BY <1>1 DEF x
<1>3. ASSUME q > p PROVE FALSE
  <2>1. (q - p) * d = m0 - r
    BY <1>1, <1>2, Z3
  <2>2. (q - p) * d >= d
    BY <1>1, <1>3, Z3
  <2> QED BY <1>1, <2>1, <2>2
<1>4. ASSUME p > q PROVE FALSE
  <2>1. (p - q) * d = r - m0
    BY <1>1, <1>2, Z3
  <2>2. (p - q) * d >= d
    BY <1>1, <1>4, Z3
  <2> QED BY <1>1, <2>1, <2>2
<1>5. q = p
  BY <1>1, <1>3, <1>4
<1> QED BY <1>1, <1>2, <1>5 DEF x, p, m0

\* Dividing twice is dividing by the product.
LEMMA QuotientTwice ==
  ASSUME NEW x \in Nat, NEW a \in Nat \ {0}, NEW b \in Nat \ {0}
  PROVE  (x \div a) \div b = x \div (a * b)
<1> DEFINE q == x \div a
           r == x % a
           q2 == q \div b
           r2 == q % b
<1>1. q \in Int /\ r \in 0 .. a - 1 /\ x = q * a + r
  BY Quotient
<1> HIDE DEF q, r
<1>2. q2 \in Int /\ r2 \in 0 .. b - 1 /\ q = q2 * b + r2
  BY <1>1, Quotient
<1> HIDE DEF q2, r2
<1> DEFINE c == a * b
           s == r2 * a + r
<1>3. c \in Nat \ {0}
  BY Z3
<1>4. x = q2 * c + s
  <2>1. q * a = (q2 * b) * a + r2 * a
    BY <1>1, <1>2, Z3
  <2>2. (q2 * b) * a = q2 * c
    BY <1>2, Z3
  <2> QED BY <1>1, <1>2, <2>1, <2>2, Z3
<1>5. s \in 0 .. c - 1
  <2>1. r2 * a <= (b - 1) * a /\ r2 * a >= 0 /\ r2 * a \in Int
    BY <1>2, Z3
  <2>2. (b - 1) * a = c - a
    BY Z3
  <2> QED BY <1>1, <1>3, <2>1, <2>2
<1> HIDE DEF c, s
<1>6. x \div c = q2
  BY <1>2, <1>3, <1>4, <1>5, UniqueQuotient
<1> QED BY <1>6 DEF c, q2, q

-----------------------------------------------------------------------------
\* The place, at level k, of the table that translates page p.
Place(k, p) ==
  CASE k = 0 -> 0
    [] k = 1 -> p \div (F * F * F)
    [] k = 2 -> p \div (F * F)
    [] OTHER -> p \div F

LEMMA FIsPositive ==
  /\ F \in Nat \ {0} /\ F * F \in Nat \ {0} /\ F * F * F \in Nat \ {0}
  /\ F > 6 /\ F * F >= F
<1>1. F \in Nat /\ F > 6
  BY MmuAssumption
<1>2. F * F \in Nat /\ F * F >= F
  BY <1>1, Z3
<1>3. F * F * F \in Nat /\ F * F * F >= F * F
  BY <1>1, <1>2, Z3
<1> QED BY <1>1, <1>2, <1>3

\* One level further down, and at the end the page.
LEMMA PlaceOfChild ==
  ASSUME NEW p \in Nat, p < F * F * F * F
  PROVE  /\ \A k \in 0 .. 3 : Place(k, p) \in Nat
         /\ \A k \in 0 .. 2 : Place(k + 1, p) = Place(k, p) * F + Idx(k, p)
         /\ p = Place(3, p) * F + Idx(3, p)
<1> DEFINE F2 == F * F
           F3 == F * F * F
           x1 == p \div F3
           x2 == p \div F2
           x3 == p \div F
<1>1. F \in Nat \ {0} /\ F2 \in Nat \ {0} /\ F3 \in Nat \ {0}
  BY FIsPositive
<1>2. x1 \in Nat /\ x2 \in Nat /\ x3 \in Nat
  BY <1>1, Quotient
<1>3. x2 \div F = x1
  BY <1>1, QuotientTwice
<1>4. x3 \div F = x2
  BY <1>1, QuotientTwice
<1>5. x1 < F
  <2>0. p \in Int /\ F3 \in Nat \ {0}
    BY <1>1
  <2>1. p = x1 * F3 + (p % F3) /\ p % F3 \in 0 .. F3 - 1
    BY <2>0, Quotient, Zenon
  <2>2. F * F3 = F * F * F * F
    BY <1>1, Z3
  <2>3. CASE x1 >= F
    <3> HIDE DEF x1, F3
    <3>1. x1 * F3 >= F * F3
      BY <1>1, <1>2, <2>3, Z3
    <3> QED BY <1>1, <1>2, <2>1, <2>2, <3>1
  <2> QED BY <1>1, <1>2, <2>3
<1> HIDE DEF x1, x2, x3
<1>6. x1 % F = x1
  <2>1. x1 \in 0 .. F - 1 /\ 0 * F + x1 = x1 /\ 0 \in Int
    BY <1>1, <1>2, <1>5
  <2> QED BY <1>1, <2>1, UniqueQuotient
<1>7. x2 = x1 * F + (x2 % F) /\ x3 = x2 * F + (x3 % F)
  <2>1. x2 \in Int /\ x3 \in Int
    BY <1>2
  <2>2. x2 = (x2 \div F) * F + (x2 % F) /\ x3 = (x3 \div F) * F + (x3 % F)
    BY <1>1, <2>1, Quotient, Zenon
  <2> QED BY <1>3, <1>4, <2>2, Zenon
<1>9. p = x3 * F + (p % F)
  BY <1>1, Quotient DEF x3
<1>10. Place(0, p) = 0 /\ Place(1, p) = x1 /\ Place(2, p) = x2 /\ Place(3, p) = x3
  BY DEF Place, x1, x2, x3
<1>11. Idx(0, p) = x1 % F /\ Idx(1, p) = x2 % F /\ Idx(2, p) = x3 % F /\ Idx(3, p) = p % F
  BY DEF Idx, x1, x2, x3
<1>12. \A k \in 0 .. 3 : k = 0 \/ k = 1 \/ k = 2 \/ k = 3
  OBVIOUS
<1>13. \A k \in 0 .. 2 : k = 0 \/ k = 1 \/ k = 2
  OBVIOUS
<1>14. \A k \in 0 .. 3 : Place(k, p) \in Nat
  BY <1>2, <1>10, <1>12
<1>15. x1 = 0 * F + x1
  BY <1>1, <1>2
<1>16. \A k \in 0 .. 2 : Place(k + 1, p) = Place(k, p) * F + Idx(k, p)
  <2>1. 0 + 1 = 1 /\ 1 + 1 = 2 /\ 2 + 1 = 3
    OBVIOUS
  <2> QED BY <1>6, <1>7, <1>10, <1>11, <1>13, <1>15, <2>1
<1> QED BY <1>9, <1>10, <1>11, <1>14, <1>16

\* All pages of the reach lie below the same entries of level 0 and level 1.
LEMMA InReach ==
  ASSUME NEW p \in Reach
  PROVE  /\ p \in Nat /\ p < F * F * F * F
         /\ \A k \in 0 .. 2 : Place(k, p) = Place(k, Base)
         /\ Idx(0, p) = Idx(0, Base) /\ Idx(1, p) = Idx(1, Base)
         /\ Place(2, p) = Place(2, Base)
<1> DEFINE F2 == F * F
           B == Base \div F2
           x2 == p \div F2
<1>1. F \in Nat \ {0} /\ F2 \in Nat \ {0} /\ Base \in Nat /\ Base % F2 = 0
  BY FIsPositive, MmuAssumption, LayoutAssumption
<1>2. p \in Nat /\ p >= Base /\ p - Base \in 0 .. F2 - 1 /\ p < F * F * F * F
  <2>1. F * F * F * F \in Nat
    BY <1>1, Z3
  <2> QED BY <1>1, <2>1, LayoutAssumption DEF Reach
<1>3. B \in Nat /\ Base = B * F2
  BY <1>1, QuotientOfMultiple, Zenon
<1> HIDE DEF B
<1>4. p = B * F2 + (p - Base)
  <2>1. B * F2 = Base
    BY <1>3
  <2> QED BY <1>1, <1>2, <2>1
<1>5. x2 = B
  <2>1. (B * F2 + (p - Base)) \div F2 = B
    BY <1>1, <1>2, <1>3, UniqueQuotient
  <2> QED BY <1>4, <2>1
<1>6. p \div (F * F * F) = x2 \div F /\ Base \div (F * F * F) = B \div F
  BY <1>1, <1>2, QuotientTwice DEF B
<1>7. \A k \in 0 .. 2 : k = 0 \/ k = 1 \/ k = 2
  OBVIOUS
<1>8. Place(0, p) = Place(0, Base) /\ Place(1, p) = Place(1, Base) /\ Place(2, p) = Place(2, Base)
  BY <1>5, <1>6 DEF Place, B
<1> QED BY <1>2, <1>5, <1>6, <1>7, <1>8 DEF Idx, B

-----------------------------------------------------------------------------
\* An entry is found where it is, and nothing else.
LEMMA HopOfEntry ==
  ASSUME NEW mem, Functional(mem), NEW e \in mem
  PROVE  Hop(mem, {e.tab}, e.idx) = {e.to}
BY DEF Functional, Hop

LEMMA PathGivesFrame ==
  ASSUME NEW mem, Functional(mem), NEW p,
         NEW e0 \in mem, NEW e1 \in mem, NEW e2 \in mem, NEW e3 \in mem,
         e0.tab = L0, e1.tab = e0.to, e2.tab = e1.to, e3.tab = e2.to, e3.to = p,
         e0.idx = Idx(0, p), e1.idx = Idx(1, p), e2.idx = Idx(2, p), e3.idx = Idx(3, p)
  PROVE  Frames(mem, p) = {p}
<1>1. Hop(mem, {L0}, Idx(0, p)) = {e0.to}
  BY HopOfEntry
<1>2. Hop(mem, {e0.to}, Idx(1, p)) = {e1.to}
  BY HopOfEntry
<1>3. Hop(mem, {e1.to}, Idx(2, p)) = {e2.to}
  BY HopOfEntry
<1>4. Hop(mem, {e2.to}, Idx(3, p)) = {p}
  BY HopOfEntry
<1> QED BY <1>1, <1>2, <1>3, <1>4 DEF Frames

LEMMA PutIsFunctional ==
  ASSUME NEW mem, Functional(mem), NEW tab, NEW i, NEW to, NEW attr
  PROVE  Functional(Put(mem, tab, i, to, attr))
BY DEF Functional, Put

LEMMA PutInFreeEntry ==
  ASSUME NEW s, NEW tab, NEW i, ~Valid(s, tab, i), NEW to, NEW attr
  PROVE  Put(s.mem, tab, i, to, attr)
           = s.mem \cup {[tab |-> tab, idx |-> i, to |-> to, attr |-> attr]}
BY DEF Put, Valid

-----------------------------------------------------------------------------
\* Accesses to pages that are mapped at themselves.
LEMMA TouchWorks ==
  ASSUME NEW s, NEW p, Frames(s.mem, p) = {p}
  PROVE  Touch(s, p) = s
BY DEF Touch, Translated

LEMMA WriteWorks ==
  ASSUME NEW s, ~Failed(s), NEW tab, Frames(s.mem, tab) = {tab}, NEW i, NEW to, NEW attr
  PROVE  Write(s, tab, i, to, attr) = [s EXCEPT !.mem = Put(s.mem, tab, i, to, attr)]
BY TouchWorks DEF Write, SetMem

LEMMA ZeroWorks ==
  ASSUME NEW s, ~Failed(s), NEW tab, Frames(s.mem, tab) = {tab}
  PROVE  Zero(s, tab) = [s EXCEPT !.mem = {e \in s.mem : e.tab # tab}]
BY TouchWorks DEF Zero, SetMem

\* The fields of a machine with another memory.
LEMMA OtherMemory ==
  ASSUME NEW s \in Machine, NEW x
  PROVE  LET t == [s EXCEPT !.mem = x] IN
         /\ t.mem = x /\ t.free = s.free /\ t.on = s.on /\ t.fault = s.fault
         /\ t.ret = s.ret /\ t.tables = s.tables /\ t.clash = s.clash
         /\ \A y : [t EXCEPT !.mem = y] = [s EXCEPT !.mem = y]
BY DEF Machine

LEMMA LessMemory ==
  ASSUME NEW s, Good(s), NEW mem, mem \subseteq s.mem
  PROVE  Good([s EXCEPT !.mem = mem])
<1> DEFINE t == [s EXCEPT !.mem = mem]
<1>1. s \in Machine
  BY DEF Good
<1>2. t \in Machine
  BY <1>1 DEF Machine
<1>3. t.mem = mem /\ t.free = s.free /\ t.tables = s.tables
  BY <1>1, OtherMemory
<1> HIDE DEF t
<1> QED BY <1>2, <1>3 DEF Good, t

-----------------------------------------------------------------------------
\* Where tables are.
LEMMA LevelOfLink ==
  ASSUME NEW s, Good(s), Ordered(s), NEW e \in s.mem
  PROVE  /\ e.attr = "table" =>
              \E k \in 0 .. 2 : e.tab \in s.tables[k] /\ e.to \in s.tables[k + 1]
         /\ e.attr # "table" => e.tab \in s.tables[3]
         /\ e.tab \in Nat /\ e.to \in Nat /\ e.idx \in 0 .. F - 1
         /\ e.attr \in {"table", "normal", "device"}
<1>1. e \in Descriptor
  BY DEF Good, Machine, Descriptor
<1>2. PICK k \in 0 .. 3 : e.tab \in s.tables[k] /\ (k < 3 => e.to \in s.tables[k + 1])
  BY DEF Good, Linked
<1>3. e.attr = "table" => k \in 0 .. 2
  BY <1>2 DEF Ordered
<1>4. e.attr # "table" => e.tab \in s.tables[3]
  BY DEF Ordered
<1> QED BY <1>1, <1>2, <1>3, <1>4 DEF Descriptor, Attr

LEMMA OneLevel ==
  ASSUME NEW s, Good(s), NEW p
  PROVE  \A j, k \in 0 .. 3 : p \in s.tables[j] /\ p \in s.tables[k] => j = k
BY DEF Good

\* The tables at the root are tables of their levels.
LEMMA RootLevels ==
  ASSUME NEW s, NEW at, Shape(s, at)
  PROVE  /\ L0 \in s.tables[0] /\ L1 \in s.tables[1] /\ L2 \in s.tables[2]
         /\ Tmp1 \in s.tables[1] /\ Tmp2 \in s.tables[2] /\ Tmp3 \in s.tables[3]
         /\ L0 # Tmp3 /\ L1 # Tmp3 /\ L2 # Tmp3
<1>1. Good(s) /\ Ordered(s) /\ Root1 \in s.mem /\ Root2 \in s.mem
  BY DEF Shape
<1>2. L0 \in s.tables[0] /\ Tmp1 \in s.tables[1] /\ Tmp2 \in s.tables[2] /\ Tmp3 \in s.tables[3]
  BY <1>1 DEF Good
<1>3. /\ Root1.tab = L0 /\ Root1.to = L1 /\ Root1.attr = "table"
      /\ Root2.tab = L1 /\ Root2.to = L2 /\ Root2.attr = "table"
  BY DEF Root1, Root2
<1>4. L1 \in s.tables[1]
  <2>1. PICK k \in 0 .. 2 : L0 \in s.tables[k] /\ L1 \in s.tables[k + 1]
    BY <1>1, <1>3, LevelOfLink
  <2>2. k = 0
    BY <1>1, <1>2, <2>1, OneLevel
  <2> QED BY <2>1, <2>2
<1>5. L2 \in s.tables[2]
  <2>1. PICK k \in 0 .. 2 : L1 \in s.tables[k] /\ L2 \in s.tables[k + 1]
    BY <1>1, <1>3, LevelOfLink
  <2>2. k = 1
    BY <1>1, <1>4, <2>1, OneLevel
  <2> QED BY <2>1, <2>2
<1> QED BY <1>1, <1>2, <1>4, <1>5, OneLevel

\* A table with entries below level 0 is linked by a table one level up.
LEMMA Parent ==
  ASSUME NEW s, NEW at, Shape(s, at), NEW k \in 1 .. 3, NEW e \in s.mem,
         e.tab \in s.tables[k], e.tab # Tmp3
  PROVE  \E d \in s.mem : /\ d.attr = "table" /\ d.to = e.tab /\ d.tab \in s.tables[k - 1]
                          /\ at[e.tab] = at[d.tab] * F + d.idx /\ d.tab # Tmp3
<1>1. Good(s) /\ Ordered(s) /\ Placed(s, at)
  BY DEF Shape
<1>2. e.tab # L0
  <2>1. 0 \in 0 .. 3 /\ k \in 0 .. 3 /\ k # 0 /\ L0 \in s.tables[0]
    BY <1>1 DEF Good
  <2> QED BY <1>1, <2>1, OneLevel
<1>3. PICK d \in s.mem : d.attr = "table" /\ d.to = e.tab
  BY <1>1, <1>2 DEF Ordered, LinkedTables
<1>4. PICK j \in 0 .. 2 : d.tab \in s.tables[j] /\ d.to \in s.tables[j + 1]
  BY <1>1, <1>3, LevelOfLink
<1>5. j + 1 = k
  <2>1. j + 1 \in 0 .. 3 /\ k \in 0 .. 3
    OBVIOUS
  <2> QED BY <1>1, <1>3, <1>4, <2>1, OneLevel
<1>6. at[e.tab] = at[d.tab] * F + d.idx
  BY <1>1, <1>3 DEF Placed
<1>7. d.tab # Tmp3
  <2>1. j \in 0 .. 3 /\ 3 \in 0 .. 3 /\ j # 3 /\ Tmp3 \in s.tables[3]
    BY <1>1 DEF Good
  <2> QED BY <1>1, <1>4, <2>1, OneLevel
<1>8. j = k - 1
  BY <1>5
<1> QED BY <1>3, <1>4, <1>6, <1>7, <1>8

\* The only table of level 0 that has entries is L0.
LEMMA TopIsL0 ==
  ASSUME NEW s, NEW at, Shape(s, at), NEW e \in s.mem, e.tab \in s.tables[0]
  PROVE  e.tab = L0
<1>1. Good(s) /\ Ordered(s) /\ Tmp3 \in s.tables[3]
  BY DEF Shape, Good
<1>2. e.tab # Tmp3
  <2>1. 0 \in 0 .. 3 /\ 3 \in 0 .. 3 /\ 0 # 3
    OBVIOUS
  <2> QED BY <1>1, <2>1, OneLevel
<1>3. ASSUME NEW d \in s.mem, d.attr = "table", d.to = e.tab PROVE FALSE
  <2>1. PICK j \in 0 .. 2 : d.tab \in s.tables[j] /\ d.to \in s.tables[j + 1]
    BY <1>1, <1>3, LevelOfLink
  <2>2. j + 1 \in 0 .. 3 /\ 0 \in 0 .. 3 /\ j + 1 # 0
    OBVIOUS
  <2> QED BY <1>1, <1>3, <2>1, <2>2, OneLevel
<1> QED BY <1>1, <1>2, <1>3 DEF Ordered, LinkedTables

\* What the indices on the way to an entry of level 3 are.
LEMMA IndicesOfPath ==
  ASSUME NEW i0 \in 0 .. F - 1, NEW i1 \in 0 .. F - 1,
         NEW i2 \in 0 .. F - 1, NEW i3 \in 0 .. F - 1, NEW p,
         p = ((i0 * F + i1) * F + i2) * F + i3
  PROVE  /\ p \in Nat
         /\ i0 = Idx(0, p) /\ i1 = Idx(1, p) /\ i2 = Idx(2, p) /\ i3 = Idx(3, p)
<1> DEFINE x1 == i0
           x2 == x1 * F + i1
           x3 == x2 * F + i2
<1>1. F \in Nat \ {0} /\ F * F \in Nat \ {0} /\ F * F * F \in Nat \ {0}
  BY FIsPositive
<1>2. x1 \in Nat /\ i1 \in Nat /\ i2 \in Nat /\ i3 \in Nat
  OBVIOUS
<1>3. x2 \in Nat
  <2> HIDE DEF x1
  <2> QED BY <1>1, <1>2, Z3
<1>4. x3 \in Nat
  <2> HIDE DEF x2
  <2> QED BY <1>1, <1>2, <1>3, Z3
<1>5. p = x3 * F + i3
  OBVIOUS
<1> HIDE DEF x3
<1>6. p \in Nat /\ x3 \in Int
  BY <1>1, <1>2, <1>4, <1>5, Z3
<1>7. p \div F = x3 /\ p % F = i3
  BY <1>1, <1>5, <1>6, UniqueQuotient
<1>8. x3 \div F = x2 /\ x3 % F = i2
  <2> HIDE DEF x2
  <2>1. x3 = x2 * F + i2 /\ x2 \in Int
    BY <1>3 DEF x3
  <2> QED BY <1>1, <2>1, UniqueQuotient
<1> HIDE DEF x2
<1>9. x2 \div F = x1 /\ x2 % F = i1
  <2> HIDE DEF x1
  <2>1. x2 = x1 * F + i1 /\ x1 \in Int
    BY <1>2 DEF x2
  <2> QED BY <1>1, <2>1, UniqueQuotient
<1>10. x1 % F = x1
  <2>1. x1 \in 0 .. F - 1 /\ 0 * F + x1 = x1 /\ 0 \in Int
    BY <1>1, <1>2
  <2> QED BY <1>1, <2>1, UniqueQuotient
<1>11. p \div (F * F) = x2
  BY <1>1, <1>6, <1>7, <1>8, QuotientTwice
<1>12. p \div (F * F * F) = x1
  <2>1. (p \div (F * F)) \div F = p \div (F * F * F)
    BY <1>1, <1>6, QuotientTwice
  <2> QED BY <1>9, <1>11, <2>1
<1> QED BY <1>6, <1>7, <1>8, <1>9, <1>10, <1>11, <1>12 DEF Idx

\* The whole way to an entry of a level-3 table in use.
LEMMA PathToEntry ==
  ASSUME NEW s, NEW at, Shape(s, at), NEW e \in s.mem, e.attr # "table", e.tab # Tmp3
  PROVE  \E e0, e1, e2 \in s.mem :
           /\ e0.tab = L0 /\ e1.tab = e0.to /\ e2.tab = e1.to /\ e.tab = e2.to
           /\ e0.attr = "table" /\ e1.attr = "table" /\ e2.attr = "table"
           /\ e2.tab \in s.tables[2] /\ e1.tab \in s.tables[1]
           /\ e0.idx = Idx(0, e.to) /\ e1.idx = Idx(1, e.to)
           /\ e2.idx = Idx(2, e.to) /\ e.idx = Idx(3, e.to)
           /\ e.to = ((e0.idx * F + e1.idx) * F + e2.idx) * F + e.idx
<1>1. Good(s) /\ Ordered(s) /\ Placed(s, at)
  BY DEF Shape
<1>2. e.tab \in s.tables[3]
  BY <1>1, LevelOfLink
<1>3. PICK e2 \in s.mem : /\ e2.attr = "table" /\ e2.to = e.tab /\ e2.tab \in s.tables[2]
                          /\ at[e.tab] = at[e2.tab] * F + e2.idx /\ e2.tab # Tmp3
  <2>1. 3 \in 1 .. 3 /\ 3 - 1 = 2
    OBVIOUS
  <2> QED BY <1>2, <2>1, Parent
<1>4. PICK e1 \in s.mem : /\ e1.attr = "table" /\ e1.to = e2.tab /\ e1.tab \in s.tables[1]
                          /\ at[e2.tab] = at[e1.tab] * F + e1.idx /\ e1.tab # Tmp3
  <2>1. 2 \in 1 .. 3 /\ 2 - 1 = 1
    OBVIOUS
  <2> QED BY <1>3, <2>1, Parent
<1>5. PICK e0 \in s.mem : /\ e0.attr = "table" /\ e0.to = e1.tab /\ e0.tab \in s.tables[0]
                          /\ at[e1.tab] = at[e0.tab] * F + e0.idx /\ e0.tab # Tmp3
  <2>1. 1 \in 1 .. 3 /\ 1 - 1 = 0
    OBVIOUS
  <2> QED BY <1>4, <2>1, Parent
<1>6. e0.tab = L0
  BY <1>5, TopIsL0
<1>7. /\ e0.idx \in 0 .. F - 1 /\ e1.idx \in 0 .. F - 1
      /\ e2.idx \in 0 .. F - 1 /\ e.idx \in 0 .. F - 1
  BY <1>1, LevelOfLink
<1>8. e.to = at[e.tab] * F + e.idx /\ at[L0] = 0
  BY <1>1 DEF Placed
<1>9. at[e1.tab] = e0.idx
  <2>1. 0 * F + e0.idx = e0.idx
    BY <1>7, FIsPositive
  <2> QED BY <1>5, <1>6, <1>8, <2>1
<1>10. e.to = ((e0.idx * F + e1.idx) * F + e2.idx) * F + e.idx
  BY <1>3, <1>4, <1>8, <1>9, Zenon
<1>11. /\ e0.idx = Idx(0, e.to) /\ e1.idx = Idx(1, e.to)
       /\ e2.idx = Idx(2, e.to) /\ e.idx = Idx(3, e.to)
  BY <1>7, <1>10, IndicesOfPath
<1> QED BY <1>3, <1>4, <1>5, <1>6, <1>10, <1>11

\* What is mapped as normal memory is mapped through L1 and L2, at itself, by
\* every memory that has the entries of the tables in use.
LEMMA NormalIsMapped ==
  ASSUME NEW s, NEW at, Shape(s, at), NEW p \in Normal(s.mem),
         NEW mem, Functional(mem), \A e \in s.mem : e.tab # Tmp3 => e \in mem
  PROVE  Frames(mem, p) = {p}
<1>1. PICK e3 \in s.mem : e3.attr = "normal" /\ e3.tab # Tmp3 /\ e3.to = p
  BY DEF Normal
<1>2. PICK e0, e1, e2 \in s.mem :
        /\ e0.tab = L0 /\ e1.tab = e0.to /\ e2.tab = e1.to /\ e3.tab = e2.to
        /\ e2.tab \in s.tables[2] /\ e1.tab \in s.tables[1]
        /\ e0.idx = Idx(0, p) /\ e1.idx = Idx(1, p)
        /\ e2.idx = Idx(2, p) /\ e3.idx = Idx(3, p)
  BY <1>1, PathToEntry
<1>3. L0 # Tmp3 /\ Tmp3 \in s.tables[3] /\ Good(s)
  BY RootLevels DEF Shape
<1>4. e0.tab # Tmp3 /\ e1.tab # Tmp3 /\ e2.tab # Tmp3
  <2>1. 1 \in 0 .. 3 /\ 2 \in 0 .. 3 /\ 3 \in 0 .. 3 /\ 1 # 3 /\ 2 # 3
    OBVIOUS
  <2> QED BY <1>2, <1>3, <2>1, OneLevel
<1>5. e0 \in mem /\ e1 \in mem /\ e2 \in mem /\ e3 \in mem
  BY <1>1, <1>4
<1> QED BY <1>1, <1>2, <1>5, PathGivesFrame

\* The link above every level-3 table that covers pages of the reach is in L2.
LEMMA NormalIsUnderL2 ==
  ASSUME NEW s, NEW at, Shape(s, at), NEW e \in s.mem, e.attr = "normal", e.tab # Tmp3
  PROVE  \E d \in s.mem : d.tab = L2 /\ d.idx = Idx(2, e.to) /\ d.to = e.tab
<1>1. PICK e0, e1, e2 \in s.mem :
        /\ e0.tab = L0 /\ e1.tab = e0.to /\ e2.tab = e1.to /\ e.tab = e2.to
        /\ e0.idx = Idx(0, e.to) /\ e1.idx = Idx(1, e.to) /\ e2.idx = Idx(2, e.to)
  BY PathToEntry
<1>2. e.to \in Reach
  BY DEF Shape, Placed
<1>3. e0.idx = Idx(0, Base) /\ e1.idx = Idx(1, Base)
  BY <1>1, <1>2, InReach
<1>4. Functional(s.mem) /\ Root1 \in s.mem /\ Root2 \in s.mem
  BY DEF Shape
<1>5. e0 = Root1
  <2>1. Root1.tab = L0 /\ Root1.idx = Idx(0, Base)
    BY DEF Root1
  <2> QED BY <1>1, <1>3, <1>4, <2>1 DEF Functional
<1>6. e1 = Root2
  <2>1. Root2.tab = L1 /\ Root2.idx = Idx(1, Base) /\ Root1.to = L1
    BY DEF Root1, Root2
  <2> QED BY <1>1, <1>3, <1>4, <1>5, <2>1 DEF Functional
<1>7. e2.tab = L2
  BY <1>1, <1>6 DEF Root2
<1> QED BY <1>1, <1>7

-----------------------------------------------------------------------------
\* How the shape grows.  More tables and a larger heap leave it as it is.
LEMMA ShapeKeeps ==
  ASSUME NEW s, NEW at, Shape(s, at), NEW t, Good(t), t.mem = s.mem,
         s.free <= t.free, \A k \in 0 .. 3 : s.tables[k] \subseteq t.tables[k]
  PROVE  Shape(t, at)
<1>1. Good(s) /\ Ordered(s) /\ Placed(s, at)
  BY DEF Shape
<1>2. ASSUME NEW e \in t.mem
      PROVE  e.attr = "table" <=> e.tab \notin t.tables[3]
  <2>1. e \in s.mem /\ 3 \in 0 .. 3
    OBVIOUS
  <2>2. CASE e.attr = "table"
    <3>1. PICK k \in 0 .. 2 : e.tab \in s.tables[k]
      BY <1>1, <2>1, <2>2, LevelOfLink
    <3>2. k \in 0 .. 3 /\ k # 3
      OBVIOUS
    <3>3. e.tab \in t.tables[k]
      BY <3>1, <3>2
    <3> QED BY <2>1, <2>2, <3>2, <3>3, OneLevel
  <2>3. CASE e.attr # "table"
    BY <1>1, <2>1, <2>3, LevelOfLink
  <2> QED BY <2>2, <2>3
<1>3. Ordered(t)
  BY <1>1, <1>2 DEF Ordered
<1>4. Placed(t, at)
  <2>1. s.free \in Nat /\ t.free \in Nat
    BY <1>1, FreeIsNat
  <2>2. \A e \in s.mem : e.to \in Nat
    BY <1>1, LevelOfLink
  <2> QED BY <1>1, <2>1, <2>2 DEF Placed
<1> QED BY <1>3, <1>4 DEF Shape

\* Another entry of Tmp3.
LEMMA TmpKeepsShape ==
  ASSUME NEW s, NEW at, Shape(s, at), NEW t, Good(t),
         s.free <= t.free, t.tables = s.tables,
         NEW i, NEW to, t.mem = Put(s.mem, Tmp3, i, to, "normal")
  PROVE  /\ Shape(t, at)
         /\ LinkedTables(t.mem) = LinkedTables(s.mem)
         /\ Normal(t.mem) = Normal(s.mem) /\ Device(t.mem) = Device(s.mem)
<1> DEFINE new == [tab |-> Tmp3, idx |-> i, to |-> to, attr |-> "normal"]
<1>1. Good(s) /\ Functional(s.mem) /\ Ordered(s) /\ Placed(s, at)
  BY DEF Shape
<1>2. \A e : e.tab # Tmp3 => (e \in t.mem <=> e \in s.mem)
  BY DEF Put
<1>3. \A e \in t.mem : e \in s.mem \/ e = new
  BY DEF Put
<1>4. new.tab = Tmp3 /\ new.attr = "normal" /\ Tmp3 \in s.tables[3]
  BY <1>1 DEF Good
<1> HIDE DEF new
<1>5. \A e \in s.mem : e.attr = "table" => e.tab # Tmp3
  BY <1>1, <1>4 DEF Ordered
<1>6. \A e \in t.mem : e.attr = "table" => e.tab # Tmp3
  BY <1>3, <1>4, <1>5
<1>7. LinkedTables(t.mem) = LinkedTables(s.mem)
  BY <1>2, <1>5, <1>6 DEF LinkedTables
<1>8. Normal(t.mem) = Normal(s.mem) /\ Device(t.mem) = Device(s.mem)
  BY <1>2 DEF Normal, Device
<1>9. Functional(t.mem)
  BY <1>1, PutIsFunctional
<1>10. Root1 \in t.mem /\ Root2 \in t.mem
  <2>1. Root1.attr = "table" /\ Root2.attr = "table"
    BY DEF Root1, Root2
  <2> QED BY <1>2, <1>5, <2>1 DEF Shape
<1>11. Ordered(t)
  <2> SUFFICES ASSUME NEW e \in t.mem
               PROVE  /\ e.attr = "table" <=> e.tab \notin t.tables[3]
                      /\ e.tab \notin {Tmp1, Tmp2}
                      /\ e.attr = "table" => e.to \notin {Tmp1, Tmp2, Tmp3}
                      /\ e.tab \in {L0, Tmp3} \cup LinkedTables(t.mem)
    BY DEF Ordered
  <2>1. CASE e \in s.mem
    BY <1>1, <1>7, <2>1 DEF Ordered
  <2>2. CASE e = new
    <3>1. Tmp3 # Tmp1 /\ Tmp3 # Tmp2
      BY MmuAssumption DEF Tmp1, Tmp2, Tmp3
    <3> QED BY <1>4, <2>2, <3>1
  <2> QED BY <1>3, <2>1, <2>2
<1>12. Placed(t, at)
  <2>1. s.free \in Nat /\ t.free \in Nat
    BY <1>1, FreeIsNat
  <2>2. \A e \in s.mem : e.to \in Nat
    BY <1>1, LevelOfLink
  <2>3. \A e \in t.mem : e.tab # Tmp3 \/ e.attr = "table" => e \in s.mem
    BY <1>3, <1>4
  <2> QED BY <1>1, <2>1, <2>2, <2>3 DEF Placed
<1> QED BY <1>7, <1>8, <1>9, <1>10, <1>11, <1>12 DEF Shape

\* A new table b without entries is linked into a free entry: its place follows
\* from that of the table above it.
Links(s, t, tab, i, b) ==
  /\ Good(t) /\ s.free <= t.free
  /\ \A k \in 0 .. 3 : s.tables[k] \subseteq t.tables[k]
  /\ tab \in {L0} \cup LinkedTables(s.mem) /\ tab \notin t.tables[3]
  /\ i \in 0 .. F - 1 /\ ~Valid(s, tab, i)
  /\ b \in Nat /\ b \notin {L0, Tmp1, Tmp2, Tmp3}
  /\ \A e \in s.mem : e.tab # b /\ (e.attr = "table" => e.to # b)
  /\ t.mem = s.mem \cup {[tab |-> tab, idx |-> i, to |-> b, attr |-> "table"]}

LEMMA LinkAdds ==
  ASSUME NEW s, NEW t, NEW tab, NEW i, NEW b, Links(s, t, tab, i, b)
  PROVE  /\ LinkedTables(t.mem) = LinkedTables(s.mem) \cup {b}
         /\ Normal(t.mem) = Normal(s.mem) /\ Device(t.mem) = Device(s.mem)
         /\ tab # b
<1> DEFINE new == [tab |-> tab, idx |-> i, to |-> b, attr |-> "table"]
<1>1. new.to = b /\ new.attr = "table"
  OBVIOUS
<1>2. t.mem = s.mem \cup {new}
  BY DEF Links
<1> HIDE DEF new
<1>3. LinkedTables(t.mem) = LinkedTables(s.mem) \cup {b}
  BY <1>1, <1>2 DEF LinkedTables
<1>4. Normal(t.mem) = Normal(s.mem) /\ Device(t.mem) = Device(s.mem)
  BY <1>1, <1>2 DEF Normal, Device
<1>5. tab # b
  BY DEF Links, LinkedTables
<1> QED BY <1>3, <1>4, <1>5

LEMMA LinkKeepsShape ==
  ASSUME NEW s, NEW at, Shape(s, at), NEW t, NEW tab, NEW i, NEW b, Links(s, t, tab, i, b)
  PROVE  Shape(t, [at EXCEPT ![b] = at[tab] * F + i])
<1> SUFFICES ASSUME Good(t),
         s.free <= t.free, \A k \in 0 .. 3 : s.tables[k] \subseteq t.tables[k],
         tab \in {L0} \cup LinkedTables(s.mem), tab \notin t.tables[3],
         i \in 0 .. F - 1, ~Valid(s, tab, i),
         b \in Nat, b \notin {L0, Tmp1, Tmp2, Tmp3},
         \A e \in s.mem : e.tab # b /\ (e.attr = "table" => e.to # b),
         t.mem = s.mem \cup {[tab |-> tab, idx |-> i, to |-> b, attr |-> "table"]}
  PROVE  Shape(t, [at EXCEPT ![b] = at[tab] * F + i])
  BY DEF Links
<1> DEFINE new == [tab |-> tab, idx |-> i, to |-> b, attr |-> "table"]
           at2 == [at EXCEPT ![b] = at[tab] * F + i]
           s2 == [t EXCEPT !.mem = s.mem]
<1>1. Good(s) /\ Functional(s.mem) /\ Ordered(s) /\ Placed(s, at)
  BY DEF Shape
<1>2. Good(s2) /\ s2.mem = s.mem /\ s2.free = t.free /\ s2.tables = t.tables
  BY LessMemory DEF Good, Machine
<1> HIDE DEF s2
<1>3. Ordered(s2) /\ Placed(s2, at)
  BY <1>2, ShapeKeeps DEF Shape
<1>4. new.tab = tab /\ new.idx = i /\ new.to = b /\ new.attr = "table"
  OBVIOUS
<1>5. t.mem = s.mem \cup {new}
  OBVIOUS
<1> HIDE DEF new
<1>6. LinkedTables(t.mem) = LinkedTables(s.mem) \cup {b}
  BY <1>4, <1>5 DEF LinkedTables
<1>8. Functional(t.mem)
  BY <1>1, <1>4, <1>5 DEF Functional, Valid
<1>9. tab # b
  BY DEF LinkedTables
<1>10. Ordered(t)
  <2> SUFFICES ASSUME NEW e \in t.mem
               PROVE  /\ e.attr = "table" <=> e.tab \notin t.tables[3]
                      /\ e.tab \notin {Tmp1, Tmp2}
                      /\ e.attr = "table" => e.to \notin {Tmp1, Tmp2, Tmp3}
                      /\ e.tab \in {L0, Tmp3} \cup LinkedTables(t.mem)
    BY DEF Ordered
  <2>1. CASE e \in s.mem
    BY <1>2, <1>3, <1>6, <2>1 DEF Ordered
  <2>2. CASE e = new
    <3>1. L0 # Tmp1 /\ L0 # Tmp2
      BY MmuAssumption DEF L0, Tmp1, Tmp2
    <3>2. tab \notin {Tmp1, Tmp2}
      BY <1>1, <3>1 DEF Ordered, LinkedTables
    <3> QED BY <1>4, <1>6, <2>2, <3>2
  <2> QED BY <1>5, <2>1, <2>2
<1>11. Placed(t, at2)
  <2>1. at \in [Nat -> Nat] /\ at[L0] = 0
    BY <1>1 DEF Placed
  <2>2. tab \in Nat
    <3>1. L0 \in Nat
      BY MmuAssumption DEF L0
    <3> QED BY <1>1, <3>1, LevelOfLink DEF LinkedTables
  <2>3. at[tab] * F + i \in Nat
    <3>1. at[tab] \in Nat /\ F \in Nat /\ i \in Nat
      BY <2>1, <2>2, FIsPositive
    <3> QED BY <3>1, Z3
  <2>4. at2 \in [Nat -> Nat] /\ at2[b] = at[tab] * F + i /\ \A q \in Nat : q # b => at2[q] = at[q]
    BY <2>1, <2>3
  <2> HIDE DEF at2
  <2>5. at2[L0] = 0 /\ at2[tab] = at[tab]
    <3>1. L0 \in Nat
      BY MmuAssumption DEF L0
    <3> QED BY <1>9, <2>1, <2>2, <2>4, <3>1
  <2>6. ASSUME NEW e \in s.mem
        PROVE  /\ at2[e.tab] = at[e.tab]
               /\ e.attr = "table" => at2[e.to] = at[e.to]
    <3>1. e.tab \in Nat /\ e.to \in Nat
      BY <1>1, LevelOfLink
    <3> QED BY <2>4, <3>1
  <2> SUFFICES ASSUME NEW e \in t.mem
               PROVE  /\ e.attr = "table" => at2[e.to] = at2[e.tab] * F + e.idx
                      /\ e.attr # "table" /\ e.tab # Tmp3 => e.to = at2[e.tab] * F + e.idx
                      /\ e.attr = "normal" /\ e.tab # Tmp3 => e.to \in Reach /\ e.to < t.free
                      /\ e.attr = "device" /\ e.tab # Tmp3 => e.to \notin Reach
    BY <2>4, <2>5 DEF Placed
  <2>7. CASE e \in s.mem
    <3>1. /\ e.attr = "table" => at[e.to] = at[e.tab] * F + e.idx
          /\ e.attr # "table" /\ e.tab # Tmp3 => e.to = at[e.tab] * F + e.idx
          /\ e.attr = "normal" /\ e.tab # Tmp3 => e.to \in Reach /\ e.to < t.free
          /\ e.attr = "device" /\ e.tab # Tmp3 => e.to \notin Reach
      BY <1>2, <1>3, <2>7 DEF Placed
    <3> QED BY <2>6, <2>7, <3>1, Zenon
  <2>8. CASE e = new
    BY <1>4, <2>4, <2>5, <2>8
  <2> QED BY <1>5, <2>7, <2>8
<1>12. Root1 \in t.mem /\ Root2 \in t.mem
  BY <1>5 DEF Shape
<1> QED BY <1>8, <1>10, <1>11, <1>12 DEF Shape

\* Page p is entered into a free entry of a level-3 table in use, at its place.
Enters(s, at, t, tab, i, p, attr) ==
  /\ Good(t) /\ s.free <= t.free /\ t.tables = s.tables
  /\ tab \in LinkedTables(s.mem) /\ tab \in s.tables[3]
  /\ i \in 0 .. F - 1 /\ ~Valid(s, tab, i) /\ p = at[tab] * F + i
  /\ \/ attr = "normal" /\ p \in Reach /\ p < t.free
     \/ attr = "device" /\ p \notin Reach
  /\ t.mem = s.mem \cup {[tab |-> tab, idx |-> i, to |-> p, attr |-> attr]}

LEMMA PageKeepsShape ==
  ASSUME NEW s, NEW at, Shape(s, at), NEW t, NEW tab, NEW i, NEW p, NEW attr,
         Enters(s, at, t, tab, i, p, attr)
  PROVE  /\ Shape(t, at)
         /\ LinkedTables(t.mem) = LinkedTables(s.mem)
         /\ attr = "normal" => /\ Normal(t.mem) = Normal(s.mem) \cup {p}
                               /\ Device(t.mem) = Device(s.mem)
         /\ attr = "device" => /\ Normal(t.mem) = Normal(s.mem)
                               /\ Device(t.mem) = Device(s.mem) \cup {p}
<1> SUFFICES ASSUME Good(t), s.free <= t.free, t.tables = s.tables,
         tab \in LinkedTables(s.mem), tab \in s.tables[3],
         i \in 0 .. F - 1, ~Valid(s, tab, i), p = at[tab] * F + i,
         \/ attr = "normal" /\ p \in Reach /\ p < t.free
         \/ attr = "device" /\ p \notin Reach,
         t.mem = s.mem \cup {[tab |-> tab, idx |-> i, to |-> p, attr |-> attr]}
  PROVE  /\ Shape(t, at)
         /\ LinkedTables(t.mem) = LinkedTables(s.mem)
         /\ attr = "normal" => /\ Normal(t.mem) = Normal(s.mem) \cup {p}
                               /\ Device(t.mem) = Device(s.mem)
         /\ attr = "device" => /\ Normal(t.mem) = Normal(s.mem)
                               /\ Device(t.mem) = Device(s.mem) \cup {p}
  BY DEF Enters
<1> DEFINE new == [tab |-> tab, idx |-> i, to |-> p, attr |-> attr]
<1>1. Good(s) /\ Functional(s.mem) /\ Ordered(s) /\ Placed(s, at)
  BY DEF Shape
<1>2. new.tab = tab /\ new.idx = i /\ new.to = p /\ new.attr = attr /\ attr # "table"
  OBVIOUS
<1>3. t.mem = s.mem \cup {new}
  OBVIOUS
<1> HIDE DEF new
<1>4. tab \notin {Tmp1, Tmp2, Tmp3}
  BY <1>1 DEF Ordered, LinkedTables
<1>5. LinkedTables(t.mem) = LinkedTables(s.mem)
  BY <1>2, <1>3 DEF LinkedTables
<1>6. /\ attr = "normal" => /\ Normal(t.mem) = Normal(s.mem) \cup {p}
                            /\ Device(t.mem) = Device(s.mem)
      /\ attr = "device" => /\ Normal(t.mem) = Normal(s.mem)
                            /\ Device(t.mem) = Device(s.mem) \cup {p}
  <2>1. CASE attr = "normal"
    BY <1>2, <1>3, <1>4, <2>1 DEF Normal, Device
  <2>2. CASE attr = "device"
    BY <1>2, <1>3, <1>4, <2>2 DEF Normal, Device
  <2> QED BY <2>1, <2>2
<1>7. Functional(t.mem)
  BY <1>1, <1>2, <1>3 DEF Functional, Valid
<1>8. Ordered(t)
  <2> SUFFICES ASSUME NEW e \in t.mem
               PROVE  /\ e.attr = "table" <=> e.tab \notin t.tables[3]
                      /\ e.tab \notin {Tmp1, Tmp2}
                      /\ e.attr = "table" => e.to \notin {Tmp1, Tmp2, Tmp3}
                      /\ e.tab \in {L0, Tmp3} \cup LinkedTables(t.mem)
    BY DEF Ordered
  <2>1. CASE e \in s.mem
    BY <1>1, <1>5, <2>1 DEF Ordered
  <2>2. CASE e = new
    BY <1>2, <1>4, <1>5, <2>2
  <2> QED BY <1>3, <2>1, <2>2
<1>9. Placed(t, at)
  <2>1. s.free \in Nat /\ t.free \in Nat
    BY <1>1, FreeIsNat
  <2> SUFFICES ASSUME NEW e \in t.mem
               PROVE  /\ e.attr = "table" => at[e.to] = at[e.tab] * F + e.idx
                      /\ e.attr # "table" /\ e.tab # Tmp3 => e.to = at[e.tab] * F + e.idx
                      /\ e.attr = "normal" /\ e.tab # Tmp3 => e.to \in Reach /\ e.to < t.free
                      /\ e.attr = "device" /\ e.tab # Tmp3 => e.to \notin Reach
    BY <1>1 DEF Placed
  <2>2. CASE e \in s.mem
    <3>1. e.to \in Nat
      BY <1>1, <2>2, LevelOfLink
    <3> QED BY <1>1, <2>1, <2>2, <3>1 DEF Placed
  <2>3. CASE e = new
    BY <1>2, <2>3
  <2> QED BY <1>3, <2>2, <2>3
<1>10. Root1 \in t.mem /\ Root2 \in t.mem
  BY <1>3 DEF Shape
<1> QED BY <1>5, <1>6, <1>7, <1>8, <1>9, <1>10 DEF Shape

-----------------------------------------------------------------------------
\* A clash is never forgotten during a boot.
Clashed(s) == "clash" \in DOMAIN s /\ s.clash # {}

LEMMA AccessKeepsClash ==
  ASSUME NEW s, Clashed(s), NEW tab
  PROVE  /\ Clashed(Touch(s, tab))
         /\ \A mem : Clashed(SetMem(s, mem))
         /\ \A k, p : Clashed(Take(s, k, p))
         /\ \A what, happened : Clashed(Note(s, what, happened))
<1>1. Clashed(Touch(s, tab))
  BY DEF Touch, Translated, Clashed
<1>2. \A mem : Clashed(SetMem(s, mem))
  BY DEF SetMem, Clashed
<1>3. \A k, p : Clashed(Take(s, k, p))
  BY DEF Take, Clashed
<1>4. \A what, happened : Clashed(Note(s, what, happened))
  BY DEF Note, Clashed
<1> QED BY <1>1, <1>2, <1>3, <1>4

LEMMA StoreKeepsClash ==
  ASSUME NEW s, Clashed(s), NEW tab
  PROVE  /\ \A i, to, attr : Clashed(Write(s, tab, i, to, attr))
         /\ Clashed(Zero(s, tab))
<1> DEFINE t == Touch(s, tab)
<1>1. Clashed(t)
  BY AccessKeepsClash
<1> HIDE DEF t
<1>2. \A mem : Clashed(SetMem(t, mem))
  BY <1>1, AccessKeepsClash
<1> QED BY <1>2 DEF Write, Zero, t

LEMMA LinksKeepClash ==
  ASSUME NEW s, Clashed(s), NEW b, NEW parent
  PROVE  /\ Clashed(LinkL3(s, parent, b))
         /\ Clashed(LinkL2(s, parent, b))
         /\ Clashed(LinkL1(s, parent, b))
<1>1. \A t, p : Clashed(t) => Clashed(LinkL3(t, p, b))
  BY AccessKeepsClash, StoreKeepsClash DEF LinkL3, MapNewL3, ReachNewL3
<1>2. \A t, p : Clashed(t) => Clashed(LinkL2(t, p, b))
  BY <1>1, AccessKeepsClash, StoreKeepsClash DEF LinkL2, MapNewL2
<1>3. \A t, p : Clashed(t) => Clashed(LinkL1(t, p, b))
  BY <1>2, AccessKeepsClash, StoreKeepsClash DEF LinkL1, MapNewL1
<1> QED BY <1>1, <1>2, <1>3

LEMMA FillsKeepClash ==
  ASSUME NEW s, Clashed(s), NEW b, NEW tab
  PROVE  /\ Clashed(FillL0(s, b)) /\ Clashed(FillL1(s, tab, b))
         /\ Clashed(FillL2(s, tab, b)) /\ Clashed(FillL3(s, tab, b))
<1>1. Clashed(UseL3(s, b))
  BY AccessKeepsClash DEF UseL3
<1>2. Clashed(UseL2(s, b))
  BY <1>1, AccessKeepsClash DEF UseL2
<1>3. Clashed(UseL1(s, b))
  BY <1>2, AccessKeepsClash DEF UseL1
<1>4. Clashed(FillL0(s, b))
  BY <1>3, LinksKeepClash, StoreKeepsClash DEF FillL0
<1>5. Clashed(FillL1(s, tab, b))
  BY <1>2, LinksKeepClash, StoreKeepsClash DEF FillL1
<1>6. Clashed(FillL2(s, tab, b))
  BY <1>1, LinksKeepClash, StoreKeepsClash DEF FillL2
<1>7. Clashed(FillL3(s, tab, b))
  <2>1. \A x : Clashed([s EXCEPT !.fault = x])
    BY DEF Clashed
  <2> QED BY <2>1, StoreKeepsClash DEF FillL3
<1> QED BY <1>4, <1>5, <1>6, <1>7

LEMMA BlockKeepsClash ==
  ASSUME NEW s, Clashed(s)
  PROVE  Clashed(map_page_for_pagetable(s))
<1> DEFINE a == palloc_continuous_block(s)
           b == s.free
<1>1. Clashed(a)
  BY DEF palloc_continuous_block, Clashed
<1> HIDE DEF a, b
<1>2. Clashed(MapBlock(a, b))
  <2> DEFINE l1 == Child(a, L0, Idx(0, b))
             l2 == Child(a, l1, Idx(1, b))
             l3 == Child(a, l2, Idx(2, b))
             t0 == Touch(a, L0)
             t1 == Touch(t0, l1)
             t2 == Touch(t1, l2)
             t3 == Touch(t2, l3)
             r == MapBlock(a, b)
  <2>1. r = IF ~Valid(a, L0, Idx(0, b)) THEN FillL0(t0, b)
            ELSE IF ~Valid(a, l1, Idx(1, b)) THEN FillL1(t1, l1, b)
            ELSE IF ~Valid(a, l2, Idx(2, b)) THEN FillL2(t2, l2, b)
            ELSE FillL3(t3, l3, b)
    BY DEF MapBlock
  <2> HIDE DEF r, l1, l2, l3
  <2>2. Clashed(t0)
    BY <1>1, AccessKeepsClash
  <2> HIDE DEF t0
  <2>3. Clashed(t1)
    BY <2>2, AccessKeepsClash
  <2> HIDE DEF t1
  <2>4. Clashed(t2)
    BY <2>3, AccessKeepsClash
  <2> HIDE DEF t2
  <2>5. Clashed(t3)
    BY <2>4, AccessKeepsClash
  <2> HIDE DEF t3
  <2>6. Clashed(r)
    BY <2>1, <2>2, <2>3, <2>4, <2>5, FillsKeepClash
  <2> QED BY <2>6 DEF r
<1> QED BY <1>2 DEF map_page_for_pagetable, a, b

LEMMA EnsureKeepsClash ==
  ASSUME NEW s, Clashed(s), NEW k, NEW tab, NEW i
  PROVE  Clashed(EnsureTable(s, k, tab, i))
<1> DEFINE a == map_page_for_pagetable(s)
           n == Note(Take(a, k + 1, a.ret), "overwrite", Valid(a, tab, i))
           w == Write(n, tab, i, a.ret, "table")
           v == Touch(w, tab)
<1>1. Clashed(a)
  BY BlockKeepsClash
<1> HIDE DEF a
<1>2. Clashed(n)
  BY <1>1, AccessKeepsClash
<1> HIDE DEF n
<1>3. Clashed(w)
  BY <1>2, StoreKeepsClash
<1> HIDE DEF w
<1>4. Clashed(v)
  BY <1>3, AccessKeepsClash
<1> QED BY <1>4 DEF EnsureTable, Install, a, n, w, v

LEMMA NextTableKeepsClash ==
  ASSUME NEW s, Clashed(s), NEW k, NEW p
  PROVE  Clashed(NextTable(s, k, p))
<1>1. Clashed(Read(s))
  BY AccessKeepsClash DEF Read
<1>2. Clashed(EnsureTable(Read(s), k, s.ret, Idx(k, p)))
  BY <1>1, EnsureKeepsClash
<1>3. \A t, tab, i : Clashed(t) => Clashed(Follow(t, tab, i))
  BY DEF Follow, Clashed
<1> QED BY <1>2, <1>3 DEF NextTable

LEMMA MapKeepsClash ==
  ASSUME NEW s, Clashed(s), NEW p, NEW attr
  PROVE  Clashed(mmu_map_4kb(s, p, attr))
<1> DEFINE s0 == [s EXCEPT !.ret = L0]
           s1 == NextTable(s0, 0, p)
           s2 == NextTable(s1, 1, p)
           s3 == NextTable(s2, 2, p)
           s4 == Read(s3)
           s5 == MapPage(s4, p, attr)
<1>1. Clashed(s0)
  BY DEF Clashed
<1> HIDE DEF s0
<1>2. Clashed(s1)
  BY <1>1, NextTableKeepsClash
<1> HIDE DEF s1
<1>3. Clashed(s2)
  BY <1>2, NextTableKeepsClash
<1> HIDE DEF s2
<1>4. Clashed(s3)
  BY <1>3, NextTableKeepsClash
<1> HIDE DEF s3
<1>5. Clashed(s4)
  BY <1>4, AccessKeepsClash DEF Read
<1> HIDE DEF s4
<1>6. Clashed(s5)
  BY <1>5, StoreKeepsClash DEF MapPage
<1> QED BY <1>6 DEF mmu_map_4kb, s0, s1, s2, s3, s4, s5

-----------------------------------------------------------------------------
\* Every table can be edited, and so far every link went where it should.
Usable(s, at) ==
  /\ Shape(s, at) /\ ~Failed(s) /\ s.clash = {}
  /\ InitPages \cup LinkedTables(s.mem) \subseteq Normal(s.mem)

LEMMA InitPagesAre ==
  /\ L0 \in InitPages /\ L1 \in InitPages /\ L2 \in InitPages
  /\ L3 \in InitPages /\ Tmp1 \in InitPages /\ Tmp2 \in InitPages /\ Tmp3 \in InitPages
  /\ InitPages \subseteq Nat /\ Base \in Nat
  /\ \A p \in InitPages : p < KernelStart
BY MmuAssumption DEF InitPages, L0, L1, L2, L3, Tmp1, Tmp2, Tmp3, KernelStart

LEMMA TableIsMapped ==
  ASSUME NEW s, NEW at, Usable(s, at), NEW p \in InitPages \cup LinkedTables(s.mem),
         NEW mem, Functional(mem), \A e \in s.mem : e.tab # Tmp3 => e \in mem
  PROVE  Frames(mem, p) = {p}
BY NormalIsMapped DEF Usable

LEMMA WriteTo ==
  ASSUME NEW s \in Machine, ~Failed(s), NEW mem, NEW tab, Frames(mem, tab) = {tab},
         NEW i, NEW to, NEW attr
  PROVE  Write([s EXCEPT !.mem = mem], tab, i, to, attr)
           = [s EXCEPT !.mem = Put(mem, tab, i, to, attr)]
<1> DEFINE t == [s EXCEPT !.mem = mem]
<1>1. t.mem = mem /\ t.fault = s.fault /\ \A y : [t EXCEPT !.mem = y] = [s EXCEPT !.mem = y]
  BY DEF Machine
<1> HIDE DEF t
<1>2. Write(t, tab, i, to, attr) = [t EXCEPT !.mem = Put(t.mem, tab, i, to, attr)]
  BY <1>1, WriteWorks DEF Failed
<1> QED BY <1>1, <1>2 DEF t

LEMMA ZeroAt ==
  ASSUME NEW s \in Machine, ~Failed(s), NEW mem, NEW tab, Frames(mem, tab) = {tab}
  PROVE  Zero([s EXCEPT !.mem = mem], tab) = [s EXCEPT !.mem = {e \in mem : e.tab # tab}]
<1> DEFINE t == [s EXCEPT !.mem = mem]
<1>1. t.mem = mem /\ t.fault = s.fault /\ \A y : [t EXCEPT !.mem = y] = [s EXCEPT !.mem = y]
  BY DEF Machine
<1> HIDE DEF t
<1>2. Zero(t, tab) = [t EXCEPT !.mem = {e \in t.mem : e.tab # tab}]
  BY <1>1, ZeroWorks DEF Failed
<1> QED BY <1>1, <1>2 DEF t

LEMMA SameMemory ==
  ASSUME NEW s \in Machine
  PROVE  s = [s EXCEPT !.mem = s.mem]
BY DEF Machine

\* Pages that are no tables have no entries and no links.
LEMMA UnusedPage ==
  ASSUME NEW s, Good(s), NEW p, \A k \in 0 .. 3 : p \notin s.tables[k]
  PROVE  /\ \A e \in s.mem : e.tab # p
         /\ Ordered(s) => \A e \in s.mem : e.attr = "table" => e.to # p
<1>1. \A e \in s.mem : e.tab # p
  BY DEF Good, Linked
<1>2. ASSUME Ordered(s), NEW e \in s.mem, e.attr = "table" PROVE e.to # p
  <2>1. PICK k \in 0 .. 2 : e.to \in s.tables[k + 1]
    BY <1>2, LevelOfLink
  <2>2. k + 1 \in 0 .. 3
    OBVIOUS
  <2> QED BY <2>1, <2>2
<1> QED BY <1>1, <1>2

\* The links at the root, and what they mean for the pages of the reach.
LEMMA RootPlaces ==
  ASSUME NEW s, NEW at, Shape(s, at)
  PROVE  at[L1] = Place(1, Base) /\ at[L2] = Place(2, Base)
<1>1. Placed(s, at) /\ Root1 \in s.mem /\ Root2 \in s.mem
  BY DEF Shape
<1>2. /\ Root1.tab = L0 /\ Root1.idx = Idx(0, Base) /\ Root1.to = L1 /\ Root1.attr = "table"
      /\ Root2.tab = L1 /\ Root2.idx = Idx(1, Base) /\ Root2.to = L2 /\ Root2.attr = "table"
  BY DEF Root1, Root2
<1>3. Base \in Reach
  BY FIsPositive, MmuAssumption DEF Reach
<1>4. /\ Place(1, Base) = Place(0, Base) * F + Idx(0, Base)
      /\ Place(2, Base) = Place(1, Base) * F + Idx(1, Base)
  <2>1. 0 \in 0 .. 2 /\ 1 \in 0 .. 2 /\ 0 + 1 = 1 /\ 1 + 1 = 2
    OBVIOUS
  <2> QED BY <1>3, <2>1, InReach, PlaceOfChild
<1>5. Place(0, Base) = 0 /\ at[L0] = 0
  BY <1>1 DEF Place, Placed
<1>6. at[L1] = at[L0] * F + Idx(0, Base) /\ at[L2] = at[L1] * F + Idx(1, Base)
  BY <1>1, <1>2 DEF Placed
<1> QED BY <1>4, <1>5, <1>6, Zenon

LEMMA ChildOfEntry ==
  ASSUME NEW s, Functional(s.mem), NEW e \in s.mem
  PROVE  Valid(s, e.tab, e.idx) /\ Child(s, e.tab, e.idx) = e.to
<1>1. Hop(s.mem, {e.tab}, e.idx) = {e.to}
  BY HopOfEntry
<1> QED BY <1>1 DEF Valid, Child

LEMMA RootChildren ==
  ASSUME NEW s, NEW at, Shape(s, at), NEW p \in Reach
  PROVE  /\ Valid(s, L0, Idx(0, p)) /\ Child(s, L0, Idx(0, p)) = L1
         /\ Valid(s, L1, Idx(1, p)) /\ Child(s, L1, Idx(1, p)) = L2
<1>1. Functional(s.mem) /\ Root1 \in s.mem /\ Root2 \in s.mem
  BY DEF Shape
<1>2. Idx(0, p) = Idx(0, Base) /\ Idx(1, p) = Idx(1, Base)
  BY InReach
<1>3. /\ Root1.tab = L0 /\ Root1.idx = Idx(0, Base) /\ Root1.to = L1
      /\ Root2.tab = L1 /\ Root2.idx = Idx(1, Base) /\ Root2.to = L2
  BY DEF Root1, Root2
<1>4. Valid(s, L0, Idx(0, Base)) /\ Child(s, L0, Idx(0, Base)) = L1
  BY <1>1, <1>3, ChildOfEntry
<1>5. Valid(s, L1, Idx(1, Base)) /\ Child(s, L1, Idx(1, Base)) = L2
  BY <1>1, <1>3, ChildOfEntry
<1> QED BY <1>2, <1>4, <1>5

\* A block that ends in the level-3 table it starts in.
LEMMA OneL3Table ==
  ASSUME NEW b \in Nat, ~Straddles(b)
  PROVE  Idx(2, b) = Idx(2, b + 3) /\ Idx(3, b) # Idx(3, b + 3)
<1> DEFINE q == b \div F
           r1 == b % F
           r2 == (b + 3) % F
<1>1. (b + 3) \div F = q
  BY DEF Straddles
<1>2. b \in Int /\ b + 3 \in Int /\ F \in Nat \ {0}
  BY FIsPositive
<1>3. b = q * F + r1 /\ r1 \in 0 .. F - 1
  BY <1>2, Quotient, Zenon
<1>4. b + 3 = q * F + r2 /\ r2 \in 0 .. F - 1
  <2>1. b + 3 = ((b + 3) \div F) * F + r2 /\ r2 \in 0 .. F - 1
    BY <1>2, Quotient, Zenon
  <2> QED BY <1>1, <2>1, Zenon
<1>5. q \in Int
  BY <1>2, Quotient
<1> HIDE DEF q, r1, r2
<1> DEFINE x == q * F
<1>6. x \in Int
  BY <1>2, <1>5, Z3
<1>7. b = x + r1 /\ b + 3 = x + r2
  BY <1>3, <1>4
<1> HIDE DEF x
<1>8. r1 # r2
  BY <1>3, <1>4, <1>6, <1>7
<1> QED BY <1>1, <1>8 DEF Idx, q, r1, r2

-----------------------------------------------------------------------------
(***************************************************************************)
(* The path of map_page_for_pagetable that needs a new level-3 table: its  *)
(* accesses all work, and in the end the new table is linked, maps itself  *)
(* and the new page, and Tmp3 has an entry more.                           *)
(***************************************************************************)
NewL3(mem, b) ==
  Put(mem, Tmp3, Idx(3, b + 3), b + 3, "normal") \cup
  {[tab |-> L2, idx |-> Idx(2, b), to |-> b + 3, attr |-> "table"],
   [tab |-> b + 3, idx |-> Idx(3, b + 3), to |-> b + 3, attr |-> "normal"],
   [tab |-> b + 3, idx |-> Idx(3, b), to |-> b, attr |-> "normal"]}

LEMMA PutAdds ==
  ASSUME NEW mem, NEW tab, NEW i, \A e \in mem : ~(e.tab = tab /\ e.idx = i),
         NEW to, NEW attr
  PROVE  Put(mem, tab, i, to, attr)
           = mem \cup {[tab |-> tab, idx |-> i, to |-> to, attr |-> attr]}
BY DEF Put

LEMMA NewL3Works ==
  ASSUME NEW s, NEW at, Usable(s, at), NEW b \in Nat, b + 3 \in Reach, ~Straddles(b),
         ~Valid(s, L2, Idx(2, b)), b + 3 >= KernelStart,
         \A e \in s.mem : e.tab # b + 3
  PROVE  Zero(Write(LinkL3(s, L2, b), L2, Idx(2, b), b + 3, "table"), Tmp1)
           = [s EXCEPT !.mem = NewL3(s.mem, b)]
<1> DEFINE c == Idx(2, b)
           i == Idx(3, b)
           j == Idx(3, b + 3)
           n == b + 3
           link == [tab |-> L2, idx |-> c, to |-> Tmp3, attr |-> "table"]
           tmp  == [tab |-> Tmp3, idx |-> j, to |-> n, attr |-> "normal"]
           self == [tab |-> n, idx |-> j, to |-> n, attr |-> "normal"]
           page == [tab |-> n, idx |-> i, to |-> b, attr |-> "normal"]
           last == [tab |-> L2, idx |-> c, to |-> n, attr |-> "table"]
           m0 == s.mem
           m1 == Put(m0, L2, c, Tmp3, "table")
           m2 == Put(m1, Tmp3, j, n, "normal")
           m3 == {e \in m2 : e.tab # n}
           m4 == Put(m3, n, j, n, "normal")
           m5 == Put(m4, n, i, b, "normal")
           m6 == Put(m5, L2, c, n, "table")
           m7 == {e \in m6 : e.tab # Tmp1}
<1>1. /\ s \in Machine /\ ~Failed(s) /\ Functional(m0) /\ Ordered(s) /\ Good(s)
      /\ Root1 \in m0 /\ Root2 \in m0
  BY DEF Usable, Shape, Good
<1>2. Idx(2, b + 3) = c /\ i # j
  BY OneL3Table
<1>3. /\ L0 # L1 /\ L1 # L2 /\ L0 # L2 /\ L2 # Tmp3 /\ L2 # Tmp1 /\ Tmp3 # Tmp1
      /\ L0 # Tmp3 /\ L1 # Tmp3
      /\ n # L0 /\ n # L1 /\ n # L2 /\ n # Tmp3 /\ n # Tmp1 /\ n \in Nat
  <2>1. /\ L0 = Base /\ L1 = Base + 1 /\ L2 = Base + 2 /\ Tmp1 = Base + 4 /\ Tmp3 = Base + 6
        /\ KernelStart = Base + 7 /\ Base \in Nat
    BY MmuAssumption DEF L0, L1, L2, Tmp1, Tmp3, KernelStart
  <2> QED BY <2>1
<1>4. /\ Root1.tab = L0 /\ Root1.to = L1 /\ Root1.idx = Idx(0, n)
      /\ Root2.tab = L1 /\ Root2.to = L2 /\ Root2.idx = Idx(1, n)
  BY InReach DEF Root1, Root2
<1>5. \A e \in m0 : e.tab # n /\ ~(e.tab = L2 /\ e.idx = c) /\ e.tab # Tmp1
  BY <1>1 DEF Valid, Ordered
<1>6. /\ link.tab = L2 /\ link.idx = c /\ link.to = Tmp3
      /\ tmp.tab = Tmp3 /\ tmp.idx = j /\ tmp.to = n
      /\ self.tab = n /\ self.idx = j /\ self.to = n
      /\ page.tab = n /\ page.idx = i /\ page.to = b
      /\ last.tab = L2 /\ last.idx = c /\ last.to = n
  OBVIOUS
<1>7. m1 = m0 \cup {link}
  BY <1>5, PutAdds
<1>8. m2 = {e \in m1 : ~(e.tab = Tmp3 /\ e.idx = j)} \cup {tmp}
  BY DEF Put
<1>9. Put(m0, Tmp3, j, n, "normal") = {e \in m0 : ~(e.tab = Tmp3 /\ e.idx = j)} \cup {tmp}
  BY DEF Put
<1>10. m6 = {e \in m5 : ~(e.tab = L2 /\ e.idx = c)} \cup {last}
  BY DEF Put
<1>11. Functional(m1)
  BY <1>1, PutIsFunctional
<1> HIDE DEF m1
<1>12. Functional(m2)
  BY <1>11, PutIsFunctional
<1> HIDE DEF m2, link, tmp, self, page, last
<1>13. m3 = m2
  BY <1>3, <1>5, <1>6, <1>7, <1>8
<1> HIDE DEF m3
<1>14. m4 = m2 \cup {self}
  <2>1. \A e \in m3 : ~(e.tab = n /\ e.idx = j)
    BY <1>3, <1>5, <1>6, <1>7, <1>8, <1>13
  <2>2. m4 = m3 \cup {self}
    BY <2>1, PutAdds DEF self
  <2> QED BY <1>13, <2>2
<1>15. Functional(m4)
  BY <1>12, <1>13, PutIsFunctional
<1> HIDE DEF m4
<1>16. m5 = m2 \cup {self, page}
  <2>1. \A e \in m4 : ~(e.tab = n /\ e.idx = i)
    BY <1>2, <1>3, <1>5, <1>6, <1>7, <1>8, <1>14
  <2>2. m5 = m4 \cup {page}
    BY <2>1, PutAdds DEF page
  <2> QED BY <1>14, <2>2
<1>17. Functional(m5)
  BY <1>15, PutIsFunctional
<1> HIDE DEF m5
<1>18. Functional(m6)
  BY <1>17, PutIsFunctional
<1> HIDE DEF m6
<1>19. m6 = NewL3(m0, b)
  <2>1. NewL3(m0, b) = Put(m0, Tmp3, j, n, "normal") \cup {last, self, page}
    BY DEF NewL3, last, self, page
  <2>2. \A e : e \in m6 <=> e \in Put(m0, Tmp3, j, n, "normal") \cup {last, self, page}
    BY <1>3, <1>5, <1>6, <1>7, <1>8, <1>9, <1>10, <1>16
  <2> QED BY <2>1, <2>2
<1>20. m7 = m6
  BY <1>3, <1>5, <1>6, <1>7, <1>8, <1>10, <1>16
<1>21. /\ \A e \in m0 : e.tab # Tmp3 => e \in m1
       /\ \A e \in m0 : e.tab # Tmp3 => e \in m2
       /\ \A e \in m0 : e.tab # Tmp3 => e \in m4
       /\ \A e \in m0 : e.tab # Tmp3 => e \in m5
       /\ \A e \in m0 : e.tab # Tmp3 => e \in m6
  BY <1>5, <1>7, <1>8, <1>10, <1>14, <1>16
<1>22. L2 \in InitPages /\ Tmp3 \in InitPages /\ Tmp1 \in InitPages
  BY InitPagesAre
<1>23. /\ Frames(m0, L2) = {L2} /\ Frames(m1, Tmp3) = {Tmp3}
       /\ Frames(m5, L2) = {L2} /\ Frames(m6, Tmp1) = {Tmp1}
  BY <1>1, <1>11, <1>17, <1>18, <1>21, <1>22, TableIsMapped
<1>24. Frames(m2, n) = {n}
  <2>1. Root1 \in m2 /\ Root2 \in m2 /\ link \in m2 /\ tmp \in m2
    BY <1>1, <1>3, <1>4, <1>6, <1>7, <1>8
  <2> HIDE DEF c, j, n
  <2> QED BY <1>2, <1>4, <1>6, <1>12, <2>1, PathGivesFrame DEF n, j
<1>25. Frames(m4, n) = {n}
  <2>1. Root1 \in m4 /\ Root2 \in m4 /\ link \in m4 /\ tmp \in m4
    BY <1>1, <1>3, <1>4, <1>6, <1>7, <1>8, <1>14
  <2> HIDE DEF c, j, n
  <2> QED BY <1>2, <1>4, <1>6, <1>15, <2>1, PathGivesFrame DEF n, j
<1> DEFINE At(x) == [s EXCEPT !.mem = x]
<1>26. Write(s, L2, c, Tmp3, "table") = At(m1)
  <2>1. s = At(m0)
    BY <1>1, SameMemory
  <2>2. Write(At(m0), L2, c, Tmp3, "table") = At(Put(m0, L2, c, Tmp3, "table"))
    BY <1>1, <1>23, WriteTo
  <2> QED BY <2>1, <2>2, Zenon DEF m1
<1>27. Write(At(m1), Tmp3, j, n, "normal") = At(m2)
  <2>1. Write(At(m1), Tmp3, j, n, "normal") = At(Put(m1, Tmp3, j, n, "normal"))
    BY <1>1, <1>23, WriteTo
  <2> QED BY <2>1, Zenon DEF m2
<1>28. Zero(At(m2), n) = At(m3)
  <2>1. Zero(At(m2), n) = At({e \in m2 : e.tab # n})
    BY <1>1, <1>24, ZeroAt
  <2> QED BY <2>1, Zenon DEF m3
<1>29. Write(At(m3), n, j, n, "normal") = At(m4)
  <2>1. Write(At(m3), n, j, n, "normal") = At(Put(m3, n, j, n, "normal"))
    BY <1>1, <1>13, <1>24, WriteTo
  <2> QED BY <2>1, Zenon DEF m4
<1>30. Write(At(m4), n, i, b, "normal") = At(m5)
  <2>1. Write(At(m4), n, i, b, "normal") = At(Put(m4, n, i, b, "normal"))
    BY <1>1, <1>25, WriteTo
  <2> QED BY <2>1, Zenon DEF m5
<1>31. Write(At(m5), L2, c, n, "table") = At(m6)
  <2>1. Write(At(m5), L2, c, n, "table") = At(Put(m5, L2, c, n, "table"))
    BY <1>1, <1>23, WriteTo
  <2> QED BY <2>1, Zenon DEF m6
<1>32. Zero(At(m6), Tmp1) = At(m7)
  BY <1>1, <1>23, ZeroAt
<1> HIDE DEF At, m7
<1>33. LinkL3(s, L2, b) = At(m5)
  <2>1. ReachNewL3(s, L2, b) = At(m2)
    BY <1>2, <1>26, <1>27, Zenon DEF ReachNewL3
  <2>2. MapNewL3(At(m2), b) = At(m4)
    BY <1>28, <1>29, Zenon DEF MapNewL3
  <2>3. LinkL3(s, L2, b)
          = Write(MapNewL3(ReachNewL3(s, L2, b), b), b + 3, Idx(3, b), b, "normal")
    BY <1>2 DEF LinkL3
  <2> QED BY <1>30, <2>1, <2>2, <2>3, Zenon
<1> QED BY <1>19, <1>20, <1>31, <1>32, <1>33, Zenon DEF At

\* What map_page_for_pagetable adds: page b, and N, the new level-3 table if it
\* needs one.
Adds(s, at, r, b) ==
  \E at2, N :
    /\ Shape(r, at2) /\ ~Failed(r) /\ r.clash = {}
    /\ LinkedTables(r.mem) = LinkedTables(s.mem) \cup N
    /\ Normal(r.mem) = Normal(s.mem) \cup N \cup {b}
    /\ Device(r.mem) = Device(s.mem)
    /\ \A q \in {L0} \cup LinkedTables(s.mem) : at2[q] = at[q]

\* The common case: the entry is free, as the page is above all that is mapped.
LEMMA FillL3Adds ==
  ASSUME NEW s, NEW at, Usable(s, at), NEW b \in Reach, b < s.free,
         NEW l3 \in LinkedTables(s.mem), l3 \in s.tables[3], at[l3] = Place(3, b),
         \A e \in s.mem : e.attr = "normal" /\ e.tab # Tmp3 => e.to < b
  PROVE  Adds(s, at, FillL3(s, l3, b), b)
<1> DEFINE i == Idx(3, b)
           t == FillL3(s, l3, b)
           new == Put(s.mem, l3, i, b, "normal")
<1>1. s \in Machine /\ Good(s) /\ Functional(s.mem) /\ Ordered(s) /\ Placed(s, at) /\ Shape(s, at)
      /\ ~Failed(s) /\ s.clash = {}
  BY DEF Usable, Shape, Good
<1>2. b \in Nat /\ b = at[l3] * F + i /\ i \in 0 .. F - 1
  BY InReach, PlaceOfChild, IdxInTable
<1>3. l3 # Tmp3
  BY <1>1 DEF Ordered, LinkedTables
<1>4. ~Valid(s, l3, i)
  <2> SUFFICES ASSUME NEW e \in s.mem, e.tab = l3, e.idx = i PROVE FALSE
    BY DEF Valid
  <2>1. e.attr # "table" /\ e.attr \in {"table", "normal", "device"}
    BY <1>1, LevelOfLink DEF Ordered
  <2>2. e.to = b
    BY <1>1, <1>2, <1>3, <2>1 DEF Placed
  <2>3. CASE e.attr = "normal"
    BY <1>2, <1>3, <2>2, <2>3
  <2>4. CASE e.attr = "device"
    BY <1>1, <1>3, <2>2, <2>4 DEF Placed
  <2> QED BY <2>1, <2>3, <2>4
<1>5. Frames(s.mem, l3) = {l3}
  BY <1>1, TableIsMapped
<1>6. t = [s EXCEPT !.mem = new]
  BY <1>1, <1>4, <1>5, WriteWorks DEF FillL3
<1>7. Good(t)
  BY <1>1, <1>2, FillL3Grows DEF Grown
<1>8. t.mem = new /\ t.free = s.free /\ t.tables = s.tables /\ ~Failed(t) /\ t.clash = {}
  <2> HIDE DEF t, new
  <2> QED BY <1>1, <1>6 DEF Machine, Failed
<1>9. new = s.mem \cup {[tab |-> l3, idx |-> i, to |-> b, attr |-> "normal"]}
  BY <1>4, PutInFreeEntry
<1> HIDE DEF t, new, i
<1>10. s.free <= t.free
  BY <1>1, <1>8, FreeIsNat
<1>11. /\ Shape(t, at)
       /\ LinkedTables(t.mem) = LinkedTables(s.mem)
       /\ Normal(t.mem) = Normal(s.mem) \cup {b}
       /\ Device(t.mem) = Device(s.mem)
  <2>1. /\ Shape(t, at)
        /\ LinkedTables(t.mem) = LinkedTables(s.mem)
        /\ Normal(t.mem) = Normal(s.mem) \cup {b}
        /\ Device(t.mem) = Device(s.mem)
    <3>1. Enters(s, at, t, l3, i, b, "normal")
      BY <1>1, <1>2, <1>4, <1>7, <1>8, <1>9, <1>10 DEF Enters
    <3> QED BY <1>1, <3>1, PageKeepsShape
  <2> QED BY <2>1
<1>12. Adds(s, at, t, b)
  <2> DEFINE N == {}
  <2>1. /\ LinkedTables(t.mem) = LinkedTables(s.mem) \cup N
        /\ Normal(t.mem) = Normal(s.mem) \cup N \cup {b}
    BY <1>11
  <2> HIDE DEF N
  <2> QED BY <1>8, <1>11, <2>1 DEF Adds
<1> QED BY <1>12 DEF t

\* A new level-3 table.
LEMMA NewL3KeepsShape ==
  ASSUME NEW s, NEW at, Shape(s, at), NEW t, Good(t),
         s.free <= t.free, t.tables = s.tables,
         NEW b \in Reach, b + 3 \in Reach, b + 3 < t.free, ~Straddles(b),
         ~Valid(s, L2, Idx(2, b)), b + 3 >= KernelStart,
         \A e \in s.mem : e.tab # b + 3 /\ (e.attr = "table" => e.to # b + 3),
         b + 3 \in s.tables[3], t.mem = NewL3(s.mem, b)
  PROVE  \E at2 :
           /\ Shape(t, at2)
           /\ LinkedTables(t.mem) = LinkedTables(s.mem) \cup {b + 3}
           /\ Normal(t.mem) = Normal(s.mem) \cup {b + 3} \cup {b}
           /\ Device(t.mem) = Device(s.mem)
           /\ \A q \in {L0} \cup LinkedTables(s.mem) : at2[q] = at[q]
<1> DEFINE c == Idx(2, b)
           i == Idx(3, b)
           j == Idx(3, b + 3)
           n == b + 3
           self == [tab |-> n, idx |-> j, to |-> n, attr |-> "normal"]
           page == [tab |-> n, idx |-> i, to |-> b, attr |-> "normal"]
           last == [tab |-> L2, idx |-> c, to |-> n, attr |-> "table"]
           x0 == Put(s.mem, Tmp3, j, n, "normal")
           x1 == x0 \cup {last}
           x2 == x1 \cup {self}
           x3 == x2 \cup {page}
           u0 == [t EXCEPT !.mem = x0]
           u1 == [t EXCEPT !.mem = x1]
           u2 == [t EXCEPT !.mem = x2]
           at2 == [at EXCEPT ![n] = at[L2] * F + c]
<1>1. Good(s) /\ Functional(s.mem) /\ Ordered(s) /\ Placed(s, at) /\ t \in Machine
  BY DEF Shape, Good
<1>2. /\ b \in Nat /\ n \in Nat /\ b < t.free /\ t.free \in Nat
      /\ c \in 0 .. F - 1 /\ i \in 0 .. F - 1 /\ j \in 0 .. F - 1
  BY InReach, IdxInTable, FreeIsNat
<1>3. i # j /\ Idx(2, n) = c
  BY <1>2, OneL3Table
<1>4. n \notin {L0, Tmp1, Tmp2, Tmp3} /\ n # L2 /\ L2 # Tmp3
  <2>1. \A p \in InitPages : p \in Nat /\ p < KernelStart
    BY InitPagesAre
  <2>2. KernelStart \in Nat
    BY MmuAssumption DEF KernelStart
  <2>3. L2 # Tmp3
    BY MmuAssumption DEF L2, Tmp3
  <2>4. \A p \in InitPages : p # n
    BY <1>2, <2>1, <2>2
  <2> QED BY <2>3, <2>4, InitPagesAre
<1>5. t.mem = x3
  BY DEF NewL3
<1>6. x0 \subseteq t.mem /\ x1 \subseteq t.mem /\ x2 \subseteq t.mem
  BY <1>5
<1>7. Good(u0) /\ Good(u1) /\ Good(u2)
  BY <1>6, LessMemory
<1>8. /\ u0.mem = x0 /\ u0.free = t.free /\ u0.tables = t.tables
      /\ u1.mem = x1 /\ u1.free = t.free /\ u1.tables = t.tables
      /\ u2.mem = x2 /\ u2.free = t.free /\ u2.tables = t.tables
  BY <1>1 DEF Machine
<1> HIDE DEF u0, u1, u2
<1>9. \A e \in x0 : e \in s.mem \/ (e.tab = Tmp3 /\ e.attr = "normal")
  BY DEF Put
<1>10. /\ last.tab = L2 /\ last.idx = c /\ self.tab = n /\ self.idx = j
  OBVIOUS
<1> HIDE DEF x0
<1>11. /\ Shape(u0, at) /\ LinkedTables(x0) = LinkedTables(s.mem)
       /\ Normal(x0) = Normal(s.mem) /\ Device(x0) = Device(s.mem)
  BY <1>7, <1>8, TmpKeepsShape DEF x0
<1>12. /\ Shape(u1, at2) /\ LinkedTables(x1) = LinkedTables(s.mem) \cup {n}
       /\ Normal(x1) = Normal(s.mem) /\ Device(x1) = Device(s.mem)
  <2>1. L2 \in {L0} \cup LinkedTables(u0.mem)
    BY <1>11 DEF Shape, Root2, LinkedTables
  <2>2. L2 \notin u1.tables[3]
    <3>1. L2 \in s.tables[2] /\ 2 \in 0 .. 3 /\ 3 \in 0 .. 3 /\ 2 # 3
      BY RootLevels
    <3> QED BY <1>1, <1>8, <3>1, OneLevel
  <2>3. ~Valid(u0, L2, c)
    BY <1>4, <1>8, <1>9 DEF Valid
  <2>4. \A e \in u0.mem : e.tab # n /\ (e.attr = "table" => e.to # n)
    BY <1>4, <1>8, <1>9
  <2>5. u1.mem = u0.mem \cup {[tab |-> L2, idx |-> c, to |-> n, attr |-> "table"]}
    BY <1>8
  <2>6. u0.free <= u1.free /\ \A k \in 0 .. 3 : u0.tables[k] \subseteq u1.tables[k]
    BY <1>2, <1>8
  <2>7. /\ Shape(u1, at2)
        /\ LinkedTables(u1.mem) = LinkedTables(u0.mem) \cup {n}
        /\ Normal(u1.mem) = Normal(u0.mem) /\ Device(u1.mem) = Device(u0.mem)
    <3> HIDE DEF c, n, x1, last, i, j, x2, x3, self, page
    <3>1. Links(u0, u1, L2, c, n)
      BY <1>2, <1>4, <1>7, <2>1, <2>2, <2>3, <2>4, <2>5, <2>6 DEF Links
    <3>2. Shape(u0, at)
      BY <1>11
    <3>3. Shape(u1, [at EXCEPT ![n] = at[L2] * F + c])
      BY <3>1, <3>2, LinkKeepsShape
    <3>4. /\ LinkedTables(u1.mem) = LinkedTables(u0.mem) \cup {n}
          /\ Normal(u1.mem) = Normal(u0.mem) /\ Device(u1.mem) = Device(u0.mem)
      BY <3>1, LinkAdds
    <3> QED BY <3>3, <3>4 DEF at2
  <2> QED BY <1>8, <1>11, <2>7
<1>13. at2[n] = Place(3, b) /\ \A q \in {L0} \cup LinkedTables(s.mem) : at2[q] = at[q]
  <2>1. at \in [Nat -> Nat]
    BY <1>1 DEF Placed
  <2>2. at2[n] = at[L2] * F + c
    BY <1>2, <2>1
  <2>3. at[L2] = Place(2, b)
    BY RootPlaces, InReach
  <2>4. Place(3, b) = Place(2, b) * F + Idx(2, b)
    <3>1. 2 \in 0 .. 2 /\ 2 + 1 = 3
      OBVIOUS
    <3> QED BY <3>1, InReach, PlaceOfChild
  <2>5. n \notin {L0} \cup LinkedTables(s.mem)
    BY <1>4 DEF LinkedTables
  <2>6. {L0} \cup LinkedTables(s.mem) \subseteq Nat
    <3>1. L0 \in Nat
      BY InitPagesAre
    <3> QED BY <1>1, <3>1, LevelOfLink DEF LinkedTables
  <2> QED BY <2>1, <2>2, <2>3, <2>4, <2>5, <2>6
<1>14. b = at2[n] * F + i /\ n = at2[n] * F + j
  <2>1. b = Place(3, b) * F + i
    BY InReach, PlaceOfChild
  <2>2. n = Place(3, n) * F + j
    BY InReach, PlaceOfChild
  <2>3. Place(3, n) = Place(3, b)
    BY DEF Straddles, Place
  <2> HIDE DEF at2, i, j, n
  <2> QED BY <1>13, <2>1, <2>2, <2>3
<1> HIDE DEF at2
<1>15. \A e \in x1 : e.tab # n
  BY <1>4, <1>9, <1>10
<1> HIDE DEF x1
<1>16. \A e \in x2 : e.tab = n => e.idx = j
  BY <1>10, <1>15
<1> HIDE DEF x2
<1>17. /\ Shape(u2, at2) /\ LinkedTables(x2) = LinkedTables(x1)
       /\ Normal(x2) = Normal(x1) \cup {n} /\ Device(x2) = Device(x1)
  <2>1. n \in LinkedTables(u1.mem) /\ n \in u1.tables[3]
    BY <1>8, <1>12
  <2>2. ~Valid(u1, n, j)
    BY <1>8, <1>15 DEF Valid
  <2>3. u2.mem = u1.mem \cup {[tab |-> n, idx |-> j, to |-> n, attr |-> "normal"]}
    BY <1>8 DEF x2
  <2>4. u1.free <= u2.free /\ u2.tables = u1.tables /\ n < u2.free
    BY <1>2, <1>8
  <2> HIDE DEF n, i, j
  <2>5. n \in Reach
    BY DEF n
  <2>6. /\ Shape(u2, at2) /\ LinkedTables(u2.mem) = LinkedTables(u1.mem)
        /\ Normal(u2.mem) = Normal(u1.mem) \cup {n}
        /\ Device(u2.mem) = Device(u1.mem)
    <3>1. Enters(u1, at2, u2, n, j, n, "normal")
      BY <1>2, <1>7, <1>14, <2>1, <2>2, <2>3, <2>4, <2>5 DEF Enters
    <3> QED BY <1>12, <3>1, PageKeepsShape
  <2> QED BY <1>8, <2>6
<1>18. /\ Shape(t, at2) /\ LinkedTables(t.mem) = LinkedTables(x2)
       /\ Normal(t.mem) = Normal(x2) \cup {b} /\ Device(t.mem) = Device(x2)
  <2>1. n \in LinkedTables(u2.mem) /\ n \in u2.tables[3]
    BY <1>8, <1>12, <1>17
  <2>2. ~Valid(u2, n, i)
    BY <1>3, <1>8, <1>16 DEF Valid
  <2>3. t.mem = u2.mem \cup {[tab |-> n, idx |-> i, to |-> b, attr |-> "normal"]}
    BY <1>5, <1>8
  <2>4. u2.free <= t.free /\ t.tables = u2.tables
    BY <1>2, <1>8
  <2> HIDE DEF n, i, j
  <2>6. /\ Shape(t, at2) /\ LinkedTables(t.mem) = LinkedTables(u2.mem)
        /\ Normal(t.mem) = Normal(u2.mem) \cup {b}
        /\ Device(t.mem) = Device(u2.mem)
    <3>1. Enters(u2, at2, t, n, i, b, "normal")
      BY <1>2, <1>14, <2>1, <2>2, <2>3, <2>4 DEF Enters
    <3> QED BY <1>17, <3>1, PageKeepsShape
  <2> QED BY <1>8, <2>6
<1>19. LinkedTables(t.mem) = LinkedTables(s.mem) \cup {n}
  BY <1>12, <1>17, <1>18
<1>20. Normal(t.mem) = Normal(s.mem) \cup {n} \cup {b} /\ Device(t.mem) = Device(s.mem)
  BY <1>12, <1>17, <1>18
<1> QED BY <1>13, <1>18, <1>19, <1>20

LEMMA NoteAdds ==
  ASSUME NEW s \in Machine, ~Failed(s), NEW what
  PROVE  /\ \A happened : happened => Clashed(Note(s, what, happened))
         /\ \A happened : ~happened => Note(s, what, happened) = s
BY DEF Note, Machine, Clashed

\* Unless the new block straddles two level-3 tables, the code can do all it
\* needs for a new level-3 table.
LEMMA FillL2Adds ==
  ASSUME NEW s, NEW at, Usable(s, at), NEW b \in Reach, b + 3 \in Reach, b + 3 < s.free,
         b + 3 >= KernelStart, Fresh(s, b + 3), ~Valid(s, L2, Idx(2, b))
  PROVE  Clashed(FillL2(s, L2, b)) \/ Adds(s, at, FillL2(s, L2, b), b)
<1> DEFINE t == FillL2(s, L2, b)
           x == Note(s, "straddle", Straddles(b))
           u == Take(x, 3, b + 3)
<1>1. /\ s \in Machine /\ Good(s) /\ Ordered(s) /\ Shape(s, at) /\ ~Failed(s) /\ s.clash = {}
      /\ b \in Nat
  BY InReach DEF Usable, Shape, Good
<1>2. t = Zero(Write(LinkL3(u, L2, b), L2, Idx(2, b), b + 3, "table"), Tmp1)
  BY DEF FillL2, UseL3
<1>3. Good(t)
  <2>1. L2 \in s.tables[2]
    BY <1>1, RootLevels
  <2> QED BY <1>1, <2>1, FillL2Grows DEF Grown
<1> HIDE DEF t
<1>4. CASE Straddles(b)
  <2>1. Clashed(x)
    BY <1>1, <1>4, NoteAdds
  <2> HIDE DEF x
  <2>2. Clashed(u)
    BY <2>1, AccessKeepsClash
  <2> HIDE DEF u
  <2>3. Clashed(LinkL3(u, L2, b))
    BY <2>2, LinksKeepClash
  <2>4. Clashed(Write(LinkL3(u, L2, b), L2, Idx(2, b), b + 3, "table"))
    BY <2>3, StoreKeepsClash
  <2>5. Clashed(t)
    BY <1>2, <2>4, StoreKeepsClash
  <2> QED BY <2>5 DEF t
<1>5. CASE ~Straddles(b)
  <2>1. x = s
    BY <1>1, <1>5, NoteAdds
  <2> HIDE DEF x
  <2>2. u = Take(s, 3, b + 3)
    BY <2>1
  <2>3. /\ Good(u) /\ u.free = s.free /\ u.mem = s.mem
        /\ u.tables = [s.tables EXCEPT ![3] = @ \cup {b + 3}]
    BY <1>1, <2>2, TakeKeeps
  <2>4. u.fault = s.fault /\ u.clash = s.clash
    BY <1>1, <2>2 DEF Take, Machine
  <2> HIDE DEF u
  <2>5. s.tables \in [0 .. 3 -> SUBSET Nat] /\ s.free \in Nat
    BY <1>1 DEF Machine
  <2>6. b + 3 \in u.tables[3] /\ \A k \in 0 .. 3 : s.tables[k] \subseteq u.tables[k]
    BY <2>3, <2>5
  <2>7. Shape(u, at)
    BY <1>1, <2>3, <2>5, <2>6, ShapeKeeps
  <2>8. Usable(u, at)
    BY <2>3, <2>4, <2>7 DEF Usable, Failed
  <2>9. \A e \in s.mem : e.tab # b + 3 /\ (e.attr = "table" => e.to # b + 3)
    BY <1>1, UnusedPage DEF Fresh
  <2>10. ~Valid(u, L2, Idx(2, b))
    BY <2>3 DEF Valid
  <2>11. t = [u EXCEPT !.mem = NewL3(s.mem, b)]
    BY <1>1, <1>2, <1>5, <2>3, <2>8, <2>9, <2>10, NewL3Works
  <2>12. /\ t.mem = NewL3(s.mem, b) /\ t.free = s.free /\ t.tables = u.tables
         /\ ~Failed(t) /\ t.clash = {}
    <3>1. u \in Machine
      BY <2>3 DEF Good
    <3> DEFINE y == NewL3(s.mem, b)
    <3> HIDE DEF y
    <3>2. t = [u EXCEPT !.mem = y]
      BY <2>11 DEF y
    <3>3. t.mem = y /\ t.free = u.free /\ t.tables = u.tables /\ t.fault = u.fault /\ t.clash = u.clash
      BY <3>1, <3>2 DEF Machine
    <3> QED BY <1>1, <2>3, <2>4, <3>3 DEF Failed, y
  <2>13. PICK at2 :
           /\ Shape(t, at2)
           /\ LinkedTables(t.mem) = LinkedTables(u.mem) \cup {b + 3}
           /\ Normal(t.mem) = Normal(u.mem) \cup {b + 3} \cup {b}
           /\ Device(t.mem) = Device(u.mem)
           /\ \A q \in {L0} \cup LinkedTables(u.mem) : at2[q] = at[q]
    <3>1. u.free <= t.free /\ b + 3 < t.free /\ t.tables = u.tables /\ t.mem = NewL3(u.mem, b)
      BY <2>3, <2>5, <2>12
    <3>2. \A e \in u.mem : e.tab # b + 3 /\ (e.attr = "table" => e.to # b + 3)
      BY <2>3, <2>9
    <3> QED BY <1>3, <1>5, <2>6, <2>7, <2>10, <3>1, <3>2, NewL3KeepsShape
  <2>14. Adds(s, at, t, b)
    <3> DEFINE N == {b + 3}
    <3>1. /\ LinkedTables(t.mem) = LinkedTables(s.mem) \cup N
          /\ Normal(t.mem) = Normal(s.mem) \cup N \cup {b}
      BY <2>3, <2>13
    <3> HIDE DEF N
    <3> QED BY <2>3, <2>12, <2>13, <3>1 DEF Adds
  <2> QED BY <2>14 DEF t
<1> QED BY <1>4, <1>5

\* map_page_for_pagetable: below the end of the reach the roots of level 0 and
\* level 1 cover the new block, so it takes one of the two paths above.
LEMMA MapPageForPagetableAdds ==
  ASSUME NEW s, NEW at, Usable(s, at), s.free >= KernelStart, s.free + 4 <= RamEnd
  PROVE  LET r == map_page_for_pagetable(s) IN
         Clashed(r) \/ (Adds(s, at, r, s.free) /\ r.ret = s.free /\ r.free = s.free + 4)
<1> DEFINE a == palloc_continuous_block(s)
           b == s.free
           r == MapBlock(a, b)
           l1 == Child(a, L0, Idx(0, b))
           l2 == Child(a, l1, Idx(1, b))
           l3 == Child(a, l2, Idx(2, b))
           t0 == Touch(a, L0)
           t1 == Touch(t0, l1)
           t2 == Touch(t1, l2)
           t3 == Touch(t2, l3)
<1>1. s \in Machine /\ Good(s) /\ Functional(s.mem) /\ Shape(s, at) /\ Placed(s, at)
  BY DEF Usable, Shape, Good
<1>2. /\ Good(a) /\ a.tables = s.tables /\ a.mem = s.mem
      /\ a.ret = b /\ a.free = b + 4 /\ Fresh(a, b + 1) /\ Fresh(a, b + 2) /\ Fresh(a, b + 3)
  BY <1>1, PallocAdvances
<1>3. a.fault = s.fault /\ a.clash = s.clash
  BY <1>1 DEF palloc_continuous_block, Machine
<1> HIDE DEF a
<1>4. b \in Nat /\ b \in Reach /\ b + 3 \in Reach
  <2>1. b \in Nat /\ Base \in Nat /\ F * F \in Nat
    BY <1>1, FreeIsNat, FIsPositive, InitPagesAre
  <2>2. b >= Base
    BY <2>1 DEF KernelStart
  <2> QED BY <2>1, <2>2 DEF Reach, RamEnd
<1>5. Shape(a, at)
  <2>1. s.free <= a.free
    BY <1>2, <1>4
  <2> QED BY <1>1, <1>2, <2>1, ShapeKeeps
<1>6. Usable(a, at)
  BY <1>2, <1>3, <1>5 DEF Usable, Failed
<1>7. /\ Valid(a, L0, Idx(0, b)) /\ l1 = L1 /\ Valid(a, l1, Idx(1, b)) /\ l2 = L2
  BY <1>4, <1>5, RootChildren
<1>8. r = IF ~Valid(a, l2, Idx(2, b)) THEN FillL2(t2, l2, b) ELSE FillL3(t3, l3, b)
  BY <1>7 DEF MapBlock
<1> HIDE DEF l1, l2, l3, r
<1>9. Frames(a.mem, L0) = {L0} /\ Frames(a.mem, L1) = {L1} /\ Frames(a.mem, L2) = {L2}
  BY <1>1, <1>2, <1>6, InitPagesAre, TableIsMapped
<1>10. t2 = a
  <2>1. t0 = a
    BY <1>9, TouchWorks
  <2>2. Touch(a, l1) = a /\ Touch(a, l2) = a
    BY <1>7, <1>9, TouchWorks
  <2> QED BY <2>1, <2>2
<1> HIDE DEF t2
<1>11. CASE ~Valid(a, L2, Idx(2, b))
  <2>1. b + 3 < a.free /\ b + 3 >= KernelStart
    BY <1>2, <1>4, MmuAssumption DEF KernelStart
  <2>2. Clashed(FillL2(a, L2, b)) \/ Adds(a, at, FillL2(a, L2, b), b)
    BY <1>2, <1>4, <1>6, <1>11, <2>1, FillL2Adds
  <2>3. r = FillL2(a, L2, b)
    BY <1>7, <1>8, <1>10, <1>11
  <2>4. Grown(a, r, {b + 3})
    <3>1. L2 \in a.tables[2]
      BY <1>5, RootLevels
    <3> QED BY <1>2, <1>4, <2>3, <3>1, FillL2Grows
  <2>5. Adds(a, at, r, b) => Adds(s, at, r, b)
    BY <1>2 DEF Adds
  <2> QED BY <1>2, <2>2, <2>3, <2>4, <2>5 DEF map_page_for_pagetable, r, a, Grown
<1>12. CASE Valid(a, L2, Idx(2, b))
  <2>1. PICK e \in a.mem : e.tab = L2 /\ e.idx = Idx(2, b)
    BY <1>12 DEF Valid
  <2>2. l3 = e.to
    BY <1>1, <1>2, <1>7, <2>1, ChildOfEntry DEF l3
  <2>3. L2 \in a.tables[2]
    BY <1>5, RootLevels
  <2>4. e.attr = "table"
    <3>1. 2 \in 0 .. 3 /\ 3 \in 0 .. 3 /\ 2 # 3
      OBVIOUS
    <3> QED BY <1>2, <1>5, <2>1, <2>3, <3>1, LevelOfLink, OneLevel DEF Shape
  <2>5. l3 \in LinkedTables(a.mem)
    BY <2>2, <2>4 DEF LinkedTables
  <2>6. l3 \in a.tables[3]
    <3>1. 2 \in 0 .. 2 /\ 2 + 1 = 3
      OBVIOUS
    <3> QED BY <1>2, <1>7, <1>12, <2>3, <3>1, ChildIsTable DEF l3
  <2>7. at[l3] = Place(3, b)
    <3>1. at[l3] = at[L2] * F + Idx(2, b)
      BY <1>5, <2>1, <2>2, <2>4 DEF Shape, Placed
    <3>2. at[L2] = Place(2, b)
      BY <1>1, <1>4, RootPlaces, InReach
    <3>3. Place(3, b) = Place(2, b) * F + Idx(2, b)
      <4>1. 2 \in 0 .. 2 /\ 2 + 1 = 3
        OBVIOUS
      <4> QED BY <1>4, <4>1, InReach, PlaceOfChild
    <3> QED BY <3>1, <3>2, <3>3, Zenon
  <2>8. \A e1 \in a.mem : e1.attr = "normal" /\ e1.tab # Tmp3 => e1.to < b
    BY <1>1, <1>2 DEF Placed
  <2>9. t3 = a
    <3>1. Frames(a.mem, l3) = {l3}
      BY <1>1, <1>2, <1>6, <2>5, TableIsMapped
    <3> QED BY <1>10, <3>1, TouchWorks
  <2> HIDE DEF t3
  <2>10. Adds(a, at, FillL3(a, l3, b), b)
    <3>1. b < a.free
      BY <1>2, <1>4
    <3> QED BY <1>4, <1>6, <2>5, <2>6, <2>7, <2>8, <3>1, FillL3Adds
  <2>11. r = FillL3(a, l3, b)
    BY <1>7, <1>8, <1>12, <2>9
  <2>12. Grown(a, r, {})
    BY <1>2, <1>4, <2>6, <2>11, FillL3Grows
  <2>13. Adds(a, at, r, b) => Adds(s, at, r, b)
    BY <1>2 DEF Adds
  <2> QED BY <1>2, <2>10, <2>11, <2>12, <2>13 DEF map_page_for_pagetable, r, a, Grown
<1> QED BY <1>11, <1>12

-----------------------------------------------------------------------------
\* One level of mmu_map_4kb.
LEMMA BlockTakesFour ==
  ASSUME NEW s, Good(s)
  PROVE  map_page_for_pagetable(s).free = s.free + 4 /\ map_page_for_pagetable(s).ret = s.free
<1> DEFINE a == palloc_continuous_block(s)
           b == s.free
           r == MapBlock(a, b)
<1>1. /\ Good(a) /\ a.free = b + 4 /\ a.ret = b
      /\ Fresh(a, b + 1) /\ Fresh(a, b + 2) /\ Fresh(a, b + 3)
  BY PallocAdvances
<1>2. b \in Nat
  BY FreeIsNat
<1> HIDE DEF a
<1>3. Grown(a, r, Spare(b))
  BY <1>1, <1>2, MapBlockGrows
<1> HIDE DEF r
<1> QED BY <1>1, <1>3 DEF Grown, map_page_for_pagetable, r, a

LEMMA SoundIsUsable ==
  ASSUME NEW s, NEW R, NEW D, NEW tab, NEW v, Sound(s, R, D, tab, v)
  PROVE  \E at : Usable(s, at) /\ at[tab] = v
BY DEF Sound, Usable

\* A new table b is linked into an entry that is still free, and not over one
\* that the allocation has filled.
LEMMA InstallWorks ==
  ASSUME NEW s, NEW R, NEW D, NEW tab, NEW v, Sound(s, R, D, tab, v), NEW at, Usable(s, at),
         at[tab] = v,
         NEW a, Good(a), Adds(s, at, a, s.free), a.ret = s.free, Fresh(a, s.free),
         a.free <= RamEnd, NEW k \in 0 .. 2, tab \in a.tables[k],
         NEW i \in 0 .. F - 1, NEW r, r = Install(a, k, tab, i), Good(r), r.free = a.free
  PROVE  Clashed(r) \/ Sound(r, R, D, tab, v)
<1> DEFINE b == s.free
           u == Take(a, k + 1, b)
           x == Note(u, "overwrite", Valid(a, tab, i))
           w == Write(x, tab, i, b, "table")
           mem == Put(a.mem, tab, i, b, "table")
<1>1. r = Touch(w, tab)
  BY DEF Install
<1>2. PICK at2, N :
        /\ Shape(a, at2) /\ ~Failed(a) /\ a.clash = {}
        /\ LinkedTables(a.mem) = LinkedTables(s.mem) \cup N
        /\ Normal(a.mem) = Normal(s.mem) \cup N \cup {b}
        /\ Device(a.mem) = Device(s.mem)
        /\ \A q \in {L0} \cup LinkedTables(s.mem) : at2[q] = at[q]
  BY DEF Adds
<1>3. /\ Normal(s.mem) = InitPages \cup LinkedTables(s.mem) \cup R /\ Device(s.mem) = D
      /\ tab \in {L0} \cup LinkedTables(s.mem)
  BY DEF Sound
<1>4. Usable(a, at2)
  BY <1>2, <1>3 DEF Usable
<1>5. tab \in InitPages \cup LinkedTables(a.mem) /\ tab \in {L0} \cup LinkedTables(a.mem)
  BY <1>2, <1>3, InitPagesAre
<1>6. /\ Good(u) /\ u.free = a.free /\ u.mem = a.mem /\ k + 1 \in 0 .. 3
      /\ u.tables = [a.tables EXCEPT ![k + 1] = @ \cup {b}]
  BY TakeKeeps
<1>7. a \in Machine /\ u \in Machine /\ Functional(a.mem) /\ Ordered(a)
  BY <1>2, <1>6 DEF Good, Shape
<1>8. ~Failed(u) /\ u.clash = {}
  BY <1>2, <1>7 DEF Take, Machine, Failed
<1> HIDE DEF u
<1>9. CASE Valid(a, tab, i)
  <2>1. Clashed(x)
    BY <1>7, <1>8, <1>9, NoteAdds
  <2> HIDE DEF x
  <2>2. Clashed(w)
    BY <2>1, StoreKeepsClash
  <2> HIDE DEF w
  <2> QED BY <1>1, <2>2, AccessKeepsClash
<1>10. CASE ~Valid(a, tab, i)
  <2>1. x = u
    BY <1>7, <1>8, <1>10, NoteAdds
  <2> HIDE DEF x
  <2>2. Frames(u.mem, tab) = {tab}
    BY <1>4, <1>5, <1>6, <1>7, TableIsMapped
  <2>3. w = [u EXCEPT !.mem = mem]
    <3>1. Write(u, tab, i, b, "table") = [u EXCEPT !.mem = Put(u.mem, tab, i, b, "table")]
      BY <1>8, <2>2, WriteWorks
    <3> QED BY <1>6, <2>1, <3>1
  <2> HIDE DEF w
  <2>4. mem = a.mem \cup {[tab |-> tab, idx |-> i, to |-> b, attr |-> "table"]}
    BY <1>10, PutInFreeEntry
  <2>5. Functional(mem)
    BY <1>7, PutIsFunctional
  <2> HIDE DEF mem
  <2>6. /\ w.mem = mem /\ w.free = a.free /\ w.tables = u.tables
        /\ ~Failed(w) /\ w.clash = {}
    BY <1>6, <1>7, <1>8, <2>3 DEF Machine, Failed
  <2>7. r = w
    <3>1. \A e \in a.mem : e.tab # Tmp3 => e \in mem
      BY <2>4
    <3>2. Frames(w.mem, tab) = {tab}
      BY <1>4, <1>5, <2>5, <2>6, <3>1, TableIsMapped
    <3> QED BY <1>1, <3>2, TouchWorks
  <2>8. a.tables \in [0 .. 3 -> SUBSET Nat] /\ a.free \in Nat /\ b \in Nat
    BY <1>7 DEF Machine, Fresh
  <2>9. Links(a, r, tab, i, b)
    <3>1. \A j \in 0 .. 3 : a.tables[j] \subseteq r.tables[j]
      BY <1>6, <2>6, <2>7, <2>8
    <3>2. tab \notin r.tables[3]
      <4>1. k \in 0 .. 3 /\ 3 \in 0 .. 3 /\ k # 3
        OBVIOUS
      <4> QED BY <3>1, <4>1, OneLevel
    <3>3. b \notin {L0, Tmp1, Tmp2, Tmp3}
      <4>1. 0 \in 0 .. 3 /\ 1 \in 0 .. 3 /\ 2 \in 0 .. 3 /\ 3 \in 0 .. 3
        OBVIOUS
      <4> QED BY <1>2, <4>1, RootLevels DEF Fresh
    <3>4. \A e \in a.mem : e.tab # b /\ (e.attr = "table" => e.to # b)
      BY <1>7, UnusedPage DEF Fresh
    <3>5. a.free <= r.free
      BY <2>8
    <3>6. r.mem = a.mem \cup {[tab |-> tab, idx |-> i, to |-> b, attr |-> "table"]}
      BY <2>4, <2>6, <2>7
    <3> QED BY <1>5, <1>10, <2>8, <3>1, <3>2, <3>3, <3>4, <3>5, <3>6 DEF Links
  <2> DEFINE at3 == [at2 EXCEPT ![b] = at2[tab] * F + i]
  <2>10. Shape(a, at2)
    BY <1>2
  <2> HIDE DEF b
  <2>11. Shape(r, at3)
    BY <2>9, <2>10, LinkKeepsShape
  <2>12. LinkedTables(r.mem) = LinkedTables(a.mem) \cup {b}
    BY <2>9, LinkAdds
  <2>13. Normal(r.mem) = Normal(a.mem) /\ Device(r.mem) = Device(a.mem) /\ tab # b
    BY <2>9, LinkAdds
  <2>14. at3[tab] = v
    <3>1. at2[tab] = v
      BY <1>2, <1>3
    <3>2. at2 \in [Nat -> Nat] /\ tab \in Nat
      <4>1. k \in 0 .. 3
        OBVIOUS
      <4> QED BY <2>8, <2>10, <4>1 DEF Shape, Placed
    <3> QED BY <2>13, <3>1, <3>2
  <2> HIDE DEF at3
  <2>15. tab \in {L0} \cup LinkedTables(r.mem)
    BY <1>5, <2>12
  <2>16. Normal(r.mem) = InitPages \cup LinkedTables(r.mem) \cup R /\ Device(r.mem) = D
    BY <1>2, <1>3, <2>12, <2>13
  <2> QED BY <2>6, <2>7, <2>11, <2>14, <2>15, <2>16 DEF Sound
<1> QED BY <1>9, <1>10

LEMMA InstallKeepsClash ==
  ASSUME NEW a, Clashed(a), NEW k, NEW tab, NEW i
  PROVE  Clashed(Install(a, k, tab, i))
<1> DEFINE n == Note(Take(a, k + 1, a.ret), "overwrite", Valid(a, tab, i))
           w == Write(n, tab, i, a.ret, "table")
<1>1. Clashed(n)
  BY AccessKeepsClash
<1> HIDE DEF n
<1>2. Clashed(w)
  BY <1>1, StoreKeepsClash
<1> HIDE DEF w
<1>3. Clashed(Touch(w, tab))
  BY <1>2, AccessKeepsClash
<1> QED BY <1>3 DEF Install, w, n

LEMMA EnsureTableSound ==
  ASSUME NEW s, NEW R, NEW D, NEW tab, NEW v, Sound(s, R, D, tab, v),
         s.free >= KernelStart, NEW k \in 0 .. 2, tab \in s.tables[k], NEW p \in Nat,
         NEW r, r = EnsureTable(s, k, tab, Idx(k, p)), r.free <= RamEnd
  PROVE  Clashed(r) \/ Sound(r, R, D, tab, v)
<1> DEFINE i == Idx(k, p)
           a == map_page_for_pagetable(s)
<1>1. PICK at : Usable(s, at) /\ at[tab] = v
  BY SoundIsUsable
<1>2. Good(s) /\ ~Failed(s)
  BY <1>1 DEF Usable, Shape
<1>3. CASE Valid(s, tab, i)
  BY <1>3 DEF EnsureTable
<1>4. CASE ~Valid(s, tab, i)
  <2>1. r = Install(a, k, tab, i)
    BY <1>2, <1>4 DEF EnsureTable
  <2>2. Advances(s, a) /\ Fresh(a, s.free)
    BY <1>2, MapPageForPagetableAdvances, BlockTakesFour
  <2>3. a.free = s.free + 4 /\ a.ret = s.free /\ s.free \in Nat
    BY <1>2, BlockTakesFour, FreeIsNat
  <2>4. Good(a) /\ tab \in a.tables[k]
    BY <2>2 DEF Advances
  <2>5. i \in 0 .. F - 1
    BY IdxInTable
  <2>6. s.free + 4 <= RamEnd => Clashed(a) \/ Adds(s, at, a, s.free)
    BY <1>1, MapPageForPagetableAdds
  <2> HIDE DEF a
  <2>7. Good(r) /\ r.free = a.free
    <3>1. a.ret \in Nat /\ a.ret <= a.ret
      BY <2>3
    <3>2. Fresh(a, a.ret)
      BY <2>2, <2>3
    <3> QED BY <2>1, <2>4, <3>1, <3>2, InstallAdvances
  <2> HIDE DEF i
  <2>8. Clashed(a) => Clashed(r)
    BY <2>1, InstallKeepsClash
  <2>9. Adds(s, at, a, s.free) => Clashed(r) \/ Sound(r, R, D, tab, v)
    BY <1>1, <2>1, <2>2, <2>3, <2>4, <2>5, <2>7, InstallWorks
  <2> QED BY <2>3, <2>6, <2>7, <2>8, <2>9
<1> QED BY <1>3, <1>4

LEMMA NextTableSound ==
  ASSUME NEW s, NEW R, NEW D, NEW k \in 0 .. 2, NEW p \in Nat, p < F * F * F * F,
         Sound(s, R, D, s.ret, Place(k, p)), s.free >= KernelStart, s.ret \in s.tables[k],
         NEW r, r = NextTable(s, k, p), r.free <= RamEnd
  PROVE  Clashed(r) \/ Sound(r, R, D, r.ret, Place(k + 1, p))
<1> DEFINE i == Idx(k, p)
           tab == s.ret
           v == Place(k, p)
           u == EnsureTable(s, k, tab, i)
           c == Child(u, tab, i)
<1>1. PICK at : Usable(s, at) /\ at[tab] = v
  BY SoundIsUsable
<1>2. Good(s) /\ ~Failed(s) /\ Functional(s.mem)
  BY <1>1 DEF Usable, Shape
<1>3. Read(s) = s
  <2>1. tab \in InitPages \cup LinkedTables(s.mem)
    BY InitPagesAre DEF Sound
  <2>2. Frames(s.mem, tab) = {tab}
    BY <1>1, <1>2, <2>1, TableIsMapped
  <2> QED BY <2>2, TouchWorks DEF Read
<1>4. r = Follow(u, tab, i)
  BY <1>3 DEF NextTable
<1>5. Advances(s, u) /\ (~Failed(u) => Valid(u, tab, i))
  BY <1>2, EnsureTableAdvances
<1>6. Good(u) /\ u \in Machine /\ tab \in u.tables[k]
  BY <1>5 DEF Advances, Good
<1> HIDE DEF u
<1>7. u.free = r.free
  BY <1>4, <1>6 DEF Follow, Machine
<1>8. Clashed(u) \/ Sound(u, R, D, tab, v)
  BY <1>7, EnsureTableSound DEF u
<1>9. CASE Clashed(u)
  BY <1>4, <1>9 DEF Follow, Clashed
<1>10. CASE Sound(u, R, D, tab, v)
  <2>1. PICK at2 : Shape(u, at2) /\ at2[tab] = v
    BY <1>10 DEF Sound
  <2>2. ~Failed(u) /\ Functional(u.mem) /\ Ordered(u) /\ Placed(u, at2)
    BY <1>10, <2>1 DEF Sound, Shape
  <2>3. PICK e \in u.mem : e.tab = tab /\ e.idx = i
    BY <1>5, <2>2 DEF Valid
  <2>4. c = e.to
    BY <2>2, <2>3, ChildOfEntry
  <2>5. e.attr = "table"
    <3>1. k \in 0 .. 3 /\ 3 \in 0 .. 3 /\ k # 3
      OBVIOUS
    <3> QED BY <1>6, <2>2, <2>3, <3>1, LevelOfLink, OneLevel
  <2>6. at2[c] = v * F + i
    BY <2>1, <2>2, <2>3, <2>4, <2>5 DEF Placed
  <2>7. Place(k + 1, p) = v * F + i
    BY PlaceOfChild
  <2>8. c \in Nat /\ c \in LinkedTables(u.mem)
    BY <1>6, <2>2, <2>3, <2>4, <2>5, LevelOfLink DEF LinkedTables
  <2> HIDE DEF c, v, i
  <2>9. r = [u EXCEPT !.ret = c]
    BY <1>4, <2>2 DEF Follow, c
  <2>10. /\ r \in Machine /\ r.mem = u.mem /\ r.free = u.free /\ r.tables = u.tables
         /\ r.ret = c /\ r.fault = u.fault /\ r.clash = u.clash
    BY <1>6, <2>8, <2>9 DEF Machine
  <2>11. Good(r)
    BY <1>6, <2>10 DEF Good
  <2>12. Shape(r, at2)
    <3>1. u.free \in Nat
      BY <1>6, FreeIsNat
    <3>2. u.free <= r.free
      BY <2>10, <3>1
    <3> QED BY <2>1, <2>10, <2>11, <3>2, ShapeKeeps
  <2>13. Sound(r, R, D, c, Place(k + 1, p))
    BY <1>10, <2>6, <2>7, <2>8, <2>10, <2>12 DEF Sound, Failed
  <2> QED BY <2>10, <2>13
<1> QED BY <1>8, <1>9, <1>10

\* The last level: a page that has an entry already is mapped as it should be.
LEMMA MapPageSound ==
  ASSUME NEW s, NEW R, NEW D, NEW p \in Nat, p < F * F * F * F,
         Sound(s, R, D, s.ret, Place(3, p)), s.ret \in s.tables[3],
         NEW attr, \/ attr = "normal" /\ p \in Reach /\ p < s.free
                   \/ attr = "device" /\ p \notin Reach,
         NEW r, r = MapPage(s, p, attr)
  PROVE  \/ attr = "normal" /\ Sound(r, R \cup {p}, D, L0, 0)
         \/ attr = "device" /\ Sound(r, R, D \cup {p}, L0, 0)
<1> DEFINE i == Idx(3, p)
           tab == s.ret
<1>1. PICK at : Usable(s, at) /\ at[tab] = Place(3, p)
  BY SoundIsUsable
<1>2. /\ Good(s) /\ ~Failed(s) /\ s.clash = {} /\ Functional(s.mem) /\ Ordered(s)
      /\ Placed(s, at) /\ s \in Machine /\ Shape(s, at) /\ at[L0] = 0
  BY <1>1 DEF Usable, Shape, Good, Placed
<1>3. p = at[tab] * F + i /\ i \in 0 .. F - 1
  BY <1>1, PlaceOfChild, IdxInTable
<1>4. /\ Normal(s.mem) = InitPages \cup LinkedTables(s.mem) \cup R /\ Device(s.mem) = D
      /\ s.free <= RamEnd /\ tab \in {L0} \cup LinkedTables(s.mem)
  BY DEF Sound
<1>5. tab \in LinkedTables(s.mem) /\ tab # Tmp3
  <2>1. tab # L0
    <3>1. 0 \in 0 .. 3 /\ 3 \in 0 .. 3 /\ 0 # 3
      OBVIOUS
    <3> QED BY <1>2, <3>1, RootLevels, OneLevel
  <2> QED BY <1>2, <1>4, <2>1 DEF Ordered, LinkedTables
<1>6. CASE Valid(s, tab, i)
  <2>1. PICK e \in s.mem : e.tab = tab /\ e.idx = i
    BY <1>6 DEF Valid
  <2>2. e.attr # "table" /\ e.attr \in {"table", "normal", "device"}
    BY <1>2, <2>1, LevelOfLink DEF Ordered
  <2>3. e.to = p
    BY <1>2, <1>3, <1>5, <2>1, <2>2 DEF Placed
  <2>4. r = s
    BY <1>6 DEF MapPage
  <2>5. CASE attr = "normal"
    <3>1. e.attr = "normal"
      BY <1>2, <1>5, <2>1, <2>2, <2>3, <2>5 DEF Placed
    <3>2. p \in Normal(s.mem)
      BY <1>5, <2>1, <2>3, <3>1 DEF Normal
    <3>3. Normal(s.mem) = InitPages \cup LinkedTables(s.mem) \cup (R \cup {p})
      BY <1>4, <3>2
    <3>4. Sound(s, R \cup {p}, D, L0, 0)
      BY <1>2, <1>4, <3>3 DEF Sound
    <3> QED BY <2>4, <2>5, <3>4
  <2>6. CASE attr = "device"
    <3>1. e.attr = "device"
      BY <1>2, <1>5, <2>1, <2>2, <2>3, <2>6 DEF Placed
    <3>2. p \in Device(s.mem)
      BY <1>5, <2>1, <2>3, <3>1 DEF Device
    <3>3. Device(s.mem) = D \cup {p}
      BY <1>4, <3>2
    <3>4. Sound(s, R, D \cup {p}, L0, 0)
      BY <1>2, <1>4, <3>3 DEF Sound
    <3> QED BY <2>4, <2>6, <3>4
  <2> QED BY <2>5, <2>6
<1>7. CASE ~Valid(s, tab, i)
  <2> DEFINE mem == Put(s.mem, tab, i, p, attr)
  <2>1. r = Write(s, tab, i, p, attr)
    BY <1>2, <1>7 DEF MapPage
  <2>2. Frames(s.mem, tab) = {tab}
    BY <1>1, <1>2, <1>5, TableIsMapped
  <2>3. r = [s EXCEPT !.mem = mem]
    <3> HIDE DEF tab, i
    <3>1. Write(s, tab, i, p, attr) = [s EXCEPT !.mem = Put(s.mem, tab, i, p, attr)]
      BY <1>2, <2>2, WriteWorks
    <3> QED BY <2>1, <3>1
  <2>4. Good(r)
    <3>1. attr \in Attr
      BY DEF Attr
    <3> QED BY <1>2, <2>1, <3>1, WritePage DEF Kept
  <2>5. mem = s.mem \cup {[tab |-> tab, idx |-> i, to |-> p, attr |-> attr]}
    BY <1>7, PutInFreeEntry
  <2> HIDE DEF mem
  <2>6. /\ r.mem = mem /\ r.free = s.free /\ r.tables = s.tables
        /\ ~Failed(r) /\ r.clash = {}
    BY <1>2, <2>3 DEF Machine, Failed
  <2>7. s.free \in Nat
    BY <1>2, FreeIsNat
  <2>8. Enters(s, at, r, tab, i, p, attr)
    BY <1>3, <1>5, <1>7, <2>4, <2>5, <2>6, <2>7 DEF Enters
  <2> HIDE DEF tab, i
  <2>9. Shape(r, at) /\ LinkedTables(r.mem) = LinkedTables(s.mem)
    BY <1>2, <2>8, PageKeepsShape
  <2>10. CASE attr = "normal"
    <3>1. Normal(r.mem) = Normal(s.mem) \cup {p} /\ Device(r.mem) = Device(s.mem)
      BY <1>2, <2>8, <2>10, PageKeepsShape
    <3>2. Normal(r.mem) = InitPages \cup LinkedTables(r.mem) \cup (R \cup {p})
      BY <1>4, <2>9, <3>1
    <3>3. Sound(r, R \cup {p}, D, L0, 0)
      BY <1>2, <1>4, <2>6, <2>9, <3>1, <3>2 DEF Sound
    <3> QED BY <2>10, <3>3
  <2>11. CASE attr = "device"
    <3>1. Normal(r.mem) = Normal(s.mem) /\ Device(r.mem) = Device(s.mem) \cup {p}
      BY <1>2, <2>8, <2>11, PageKeepsShape
    <3>2. Normal(r.mem) = InitPages \cup LinkedTables(r.mem) \cup R
      BY <1>4, <2>9, <3>1
    <3>3. Sound(r, R, D \cup {p}, L0, 0)
      BY <1>2, <1>4, <2>6, <2>9, <3>1, <3>2 DEF Sound
    <3> QED BY <2>11, <3>3
  <2> QED BY <2>10, <2>11
<1> QED BY <1>6, <1>7

\* mmu_map_4kb: the page asked for is mapped, and nothing else but new tables.
LEMMA MapSound ==
  ASSUME NEW s, NEW R, NEW D, Sound(s, R, D, L0, 0), s.free >= KernelStart,
         NEW p \in Nat, p < F * F * F * F,
         NEW attr, \/ attr = "normal" /\ p \in Reach /\ p < s.free
                   \/ attr = "device" /\ p \notin Reach,
         NEW r, r = mmu_map_4kb(s, p, attr), r.free <= RamEnd
  PROVE  \/ Clashed(r)
         \/ attr = "normal" /\ Sound(r, R \cup {p}, D, L0, 0)
         \/ attr = "device" /\ Sound(r, R, D \cup {p}, L0, 0)
<1> DEFINE s0 == [s EXCEPT !.ret = L0]
           s1 == NextTable(s0, 0, p)
           s2 == NextTable(s1, 1, p)
           s3 == NextTable(s2, 2, p)
           s4 == Read(s3)
<1>0. /\ 0 \in 0 .. 2 /\ 1 \in 0 .. 2 /\ 2 \in 0 .. 2
      /\ 0 + 1 = 1 /\ 1 + 1 = 2 /\ 2 + 1 = 3 /\ KernelStart \in Nat /\ RamEnd \in Nat
  BY FIsPositive, InitPagesAre DEF KernelStart, RamEnd
<1>1. PICK at : Shape(s, at) /\ at[L0] = 0
  BY DEF Sound
<1>2. Good(s) /\ s \in Machine /\ L0 \in Nat /\ s.free \in Nat
  BY <1>1, FreeIsNat, InitPagesAre DEF Shape, Good
<1>3. /\ s0 \in Machine /\ s0.mem = s.mem /\ s0.free = s.free /\ s0.tables = s.tables
      /\ s0.ret = L0 /\ s0.fault = s.fault /\ s0.clash = s.clash
  BY <1>2 DEF Machine
<1>4. r = MapPage(s4, p, attr)
  BY DEF mmu_map_4kb
<1> HIDE DEF s0
<1>5. Good(s0) /\ s0.ret \in s0.tables[0]
  BY <1>2, <1>3 DEF Good
<1>6. Sound(s0, R, D, s0.ret, Place(0, p))
  <2>1. Shape(s0, at)
    <3>1. s.free <= s0.free
      BY <1>2, <1>3
    <3> QED BY <1>1, <1>3, <1>5, <3>1, ShapeKeeps
  <2>2. Place(0, p) = 0
    BY DEF Place
  <2> QED BY <1>1, <1>3, <2>1, <2>2 DEF Sound, Failed
<1>7. Advances(s0, s1) /\ (~Failed(s1) => s1.ret \in s1.tables[1])
  BY <1>0, <1>5, NextTableAdvances
<1>8. Good(s1) /\ s0.free <= s1.free /\ s1.free \in Nat
  BY <1>7, FreeIsNat DEF Advances
<1>9. s1.free <= RamEnd => Clashed(s1) \/ Sound(s1, R, D, s1.ret, Place(1, p))
  BY <1>0, <1>3, <1>5, <1>6, NextTableSound
<1> HIDE DEF s1
<1>10. Advances(s1, s2) /\ (~Failed(s2) => s2.ret \in s2.tables[2])
  BY <1>0, <1>7, <1>8, NextTableAdvances
<1>11. Good(s2) /\ s1.free <= s2.free /\ s2.free \in Nat
  BY <1>10, FreeIsNat DEF Advances
<1>12. Clashed(s1) => Clashed(s2)
  BY NextTableKeepsClash
<1>13. /\ Sound(s1, R, D, s1.ret, Place(1, p)) /\ s2.free <= RamEnd
       => Clashed(s2) \/ Sound(s2, R, D, s2.ret, Place(2, p))
  <2> SUFFICES ASSUME Sound(s1, R, D, s1.ret, Place(1, p)), s2.free <= RamEnd
               PROVE  Clashed(s2) \/ Sound(s2, R, D, s2.ret, Place(2, p))
    OBVIOUS
  <2>1. s1.ret \in s1.tables[1]
    BY <1>7 DEF Sound
  <2>2. s1.free >= KernelStart
    BY <1>0, <1>2, <1>3, <1>8
  <2> QED BY <1>0, <2>1, <2>2, NextTableSound
<1> HIDE DEF s2
<1>14. Advances(s2, s3) /\ (~Failed(s3) => s3.ret \in s3.tables[3])
  BY <1>0, <1>10, <1>11, NextTableAdvances
<1>15. Good(s3) /\ s2.free <= s3.free /\ s3.free \in Nat
  BY <1>14, FreeIsNat DEF Advances
<1>16. Clashed(s2) => Clashed(s3)
  BY NextTableKeepsClash
<1>17. /\ Sound(s2, R, D, s2.ret, Place(2, p)) /\ s3.free <= RamEnd
       => Clashed(s3) \/ Sound(s3, R, D, s3.ret, Place(3, p))
  <2> SUFFICES ASSUME Sound(s2, R, D, s2.ret, Place(2, p)), s3.free <= RamEnd
               PROVE  Clashed(s3) \/ Sound(s3, R, D, s3.ret, Place(3, p))
    OBVIOUS
  <2>1. s2.ret \in s2.tables[2]
    BY <1>10 DEF Sound
  <2>2. s2.free >= KernelStart
    BY <1>0, <1>2, <1>3, <1>8, <1>11
  <2> QED BY <1>0, <2>1, <2>2, NextTableSound
<1> HIDE DEF s3
<1>18. Kept(s3, s4) /\ (Failed(s3) => Failed(s4)) /\ (Clashed(s3) => Clashed(s4))
  BY <1>15, TouchKeeps, AccessKeepsClash DEF Read, Touch
<1> HIDE DEF s4
<1>19. r.free = s3.free
  <2>1. CASE Failed(s4) \/ Valid(s4, s4.ret, Idx(3, p))
    BY <1>4, <1>18, <2>1 DEF MapPage, Kept, Same
  <2>2. CASE ~(Failed(s4) \/ Valid(s4, s4.ret, Idx(3, p)))
    <3>1. r = Write(s4, s4.ret, Idx(3, p), p, attr)
      BY <1>4, <2>2 DEF MapPage
    <3>2. Good(s4) /\ s4.ret \in s4.tables[3] /\ attr \in Attr
      BY <1>14, <1>18, <2>2 DEF Kept, Same, Attr
    <3>3. Kept(s4, r)
      BY <3>1, <3>2, WritePage
    <3> QED BY <1>18, <3>3 DEF Kept, Same
  <2> QED BY <2>1, <2>2
<1>20. s3.free <= RamEnd /\ s2.free <= RamEnd /\ s1.free <= RamEnd
  BY <1>0, <1>8, <1>11, <1>15, <1>19
<1>21. CASE Clashed(s3)
  <2>1. Clashed(s4)
    BY <1>18, <1>21
  <2> QED BY <1>4, <2>1, StoreKeepsClash DEF MapPage
<1>22. CASE Sound(s3, R, D, s3.ret, Place(3, p))
  <2>1. s3.ret \in s3.tables[3]
    BY <1>14, <1>22 DEF Sound
  <2>2. s4 = s3
    <3>1. PICK at3 : Usable(s3, at3)
      BY <1>22, SoundIsUsable
    <3>2. s3.ret \in InitPages \cup LinkedTables(s3.mem)
      BY <1>22, InitPagesAre DEF Sound
    <3>3. Frames(s3.mem, s3.ret) = {s3.ret}
      <4>1. Functional(s3.mem)
        BY <3>1 DEF Usable, Shape
      <4> QED BY <3>1, <3>2, <4>1, TableIsMapped
    <3> QED BY <3>3, TouchWorks DEF Read, s4
  <2>3. s.free <= s3.free
    BY <1>2, <1>3, <1>8, <1>11, <1>15
  <2>4. \/ attr = "normal" /\ p \in Reach /\ p < s3.free
        \/ attr = "device" /\ p \notin Reach
    BY <1>2, <1>15, <2>3
  <2>5. r = MapPage(s3, p, attr)
    BY <1>4, <2>2
  <2> QED BY <1>22, <2>1, <2>4, <2>5, MapPageSound
<1> QED BY <1>9, <1>12, <1>13, <1>16, <1>17, <1>20, <1>21, <1>22

-----------------------------------------------------------------------------
(***************************************************************************)
(* The inductive invariant.  Pending: the pages the running call has still *)
(* to map; Asked: the memory that has been mapped so far, but for tables.  *)
(***************************************************************************)
Pending ==
  IF job.kind \in {"kernel", "kalloc"} THEN job.next .. job.next + job.left - 1 ELSE {}

Asked == (image \cup data) \ Pending

\* What is asked for as memory lies below the allocator's pointer, what is asked
\* for as device memory outside of the reach of RAM, and kalloc clears only
\* pages that it has reserved.
JobSound ==
  /\ m.free >= KernelStart
  /\ image \cup data \subseteq Base .. m.free - 1
  /\ Pending \subseteq image \cup data
  /\ job.kind \in {"uart", "device"} =>
       \A p \in job.next .. job.next + job.left - 1 : p \notin Reach /\ p < F * F * F * F
  /\ job.kind = "kalloc" =>
       /\ job.left <= job.clear
       /\ job.next + job.left - job.clear .. job.next + job.left - 1 \subseteq data

MapSoFar == m.free <= RamEnd => Clashed(m) \/ Sound(m, Asked, device, L0, 0)

MapInv == IInv /\ JobSound /\ MapSoFar

\* What the invariants say about the types.
LEMMA TypesOfMapInv ==
  ASSUME IInv
  PROVE  /\ Good(m) /\ m \in Machine /\ m.free \in Nat
         /\ job \in Job /\ job.next \in Nat /\ job.left \in Nat /\ job.clear \in Nat
         /\ KernelStart \in Nat /\ Base \in Nat /\ KernelStart = Base + 7 /\ RamEnd \in Nat
BY FreeIsNat, FIsPositive, MmuAssumption DEF IInv, TypeOK, Job, KernelStart, RamEnd

\* The tables of init_mmu have their places.
LEMMA ShapeAtBoot ==
  ASSUME NEW s, Good(s), s.free >= KernelStart, s.mem = BootMem({}),
         s.tables[3] = {L3, Tmp3}
  PROVE  /\ \E at : Shape(s, at) /\ at[L0] = 0
         /\ Normal(s.mem) = InitPages \cup LinkedTables(s.mem)
         /\ Device(s.mem) = {}
         /\ LinkedTables(s.mem) \subseteq InitPages
<1> DEFINE at == [x \in Nat |-> IF x = L1 THEN Place(1, Base)
                                ELSE IF x = L2 THEN Place(2, Base)
                                ELSE IF x = L3 THEN Place(3, Base) ELSE 0]
           e3(i) == [tab |-> L3, idx |-> i, to |-> Base + i, attr |-> "normal"]
           root3 == [tab |-> L2, idx |-> Idx(2, Base), to |-> L3, attr |-> "table"]
<1>1. /\ L0 = Base /\ L1 = Base + 1 /\ L2 = Base + 2 /\ L3 = Base + 3
      /\ Tmp1 = Base + 4 /\ Tmp2 = Base + 5 /\ Tmp3 = Base + 6
      /\ Base \in Nat /\ InitPages = Base .. Base + 6 /\ KernelStart = Base + 7
      /\ s.free \in Nat /\ s.free > Base + 6
  BY FreeIsNat, MmuAssumption DEF L0, L1, L2, L3, Tmp1, Tmp2, Tmp3, InitPages, KernelStart
<1>2. s.mem = {Root1, Root2, root3} \cup {e3(i) : i \in 0 .. 6}
  <2>1. Base = L0
    BY <1>1
  <2> QED BY <2>1 DEF BootMem, Root1, Root2
<1>3. /\ Base \in Reach /\ \A i \in 0 .. 6 : Base + i \in Reach /\ Base + i < s.free
  BY <1>1, FIsPositive DEF Reach
<1>4. Base < F * F * F * F
  BY <1>3, InReach
<1>5. /\ Place(0, Base) = 0
      /\ Place(1, Base) \in Nat /\ Place(2, Base) \in Nat /\ Place(3, Base) \in Nat
      /\ Place(1, Base) = Place(0, Base) * F + Idx(0, Base)
      /\ Place(2, Base) = Place(1, Base) * F + Idx(1, Base)
      /\ Place(3, Base) = Place(2, Base) * F + Idx(2, Base)
      /\ Base = Place(3, Base) * F + Idx(3, Base)
  <2>1. /\ 0 \in 0 .. 2 /\ 1 \in 0 .. 2 /\ 2 \in 0 .. 2 /\ 0 + 1 = 1 /\ 1 + 1 = 2 /\ 2 + 1 = 3
        /\ 1 \in 0 .. 3 /\ 2 \in 0 .. 3 /\ 3 \in 0 .. 3
    OBVIOUS
  <2>2. Place(0, Base) = 0
    BY DEF Place
  <2>3. /\ \A k \in 0 .. 3 : Place(k, Base) \in Nat
        /\ \A k \in 0 .. 2 : Place(k + 1, Base) = Place(k, Base) * F + Idx(k, Base)
        /\ Base = Place(3, Base) * F + Idx(3, Base)
    BY <1>1, <1>4, PlaceOfChild
  <2> QED BY <2>1, <2>2, <2>3, Zenon
<1>6. Idx(3, Base) = 0
  BY MmuAssumption DEF Idx
<1>7. \A i \in 0 .. 6 : Base + i = Place(3, Base) * F + i
  <2>1. Base = Place(3, Base) * F + 0
    BY <1>5, <1>6
  <2> DEFINE x == Place(3, Base) * F
  <2>2. x \in Int
    BY <1>5, FIsPositive, Z3
  <2>3. Base = x + 0
    BY <2>1
  <2> HIDE DEF x
  <2>4. \A i \in 0 .. 6 : Base + i = x + i
    BY <2>2, <2>3
  <2> QED BY <2>4 DEF x
<1>8. /\ at \in [Nat -> Nat] /\ at[L0] = 0
      /\ at[L1] = Place(1, Base) /\ at[L2] = Place(2, Base) /\ at[L3] = Place(3, Base)
  BY <1>1, <1>5
<1> HIDE DEF at, root3
<1>9. /\ Root1.tab = L0 /\ Root1.idx = Idx(0, Base) /\ Root1.to = L1 /\ Root1.attr = "table"
      /\ Root2.tab = L1 /\ Root2.idx = Idx(1, Base) /\ Root2.to = L2 /\ Root2.attr = "table"
      /\ root3.tab = L2 /\ root3.idx = Idx(2, Base) /\ root3.to = L3 /\ root3.attr = "table"
  BY DEF Root1, Root2, root3
<1>10. \A i \in 0 .. 6 : /\ e3(i).tab = L3 /\ e3(i).idx = i
                         /\ e3(i).to = Base + i /\ e3(i).attr = "normal"
  OBVIOUS
<1>11. \A e \in s.mem : e = Root1 \/ e = Root2 \/ e = root3 \/ \E i \in 0 .. 6 : e = e3(i)
  BY <1>2
<1>12. Root1 \in s.mem /\ Root2 \in s.mem /\ root3 \in s.mem /\ \A i \in 0 .. 6 : e3(i) \in s.mem
  BY <1>2
<1> HIDE DEF e3
<1>13. LinkedTables(s.mem) = {L1, L2, L3}
  <2>1. \A e \in s.mem : e.attr = "table" => e.to \in {L1, L2, L3}
    BY <1>9, <1>10, <1>11
  <2> QED BY <1>9, <1>12, <2>1 DEF LinkedTables
<1>14. /\ L1 # L2 /\ L1 # L3 /\ L2 # L3 /\ L0 # L1 /\ L0 # L2 /\ L0 # L3
       /\ L0 # Tmp3 /\ L1 # Tmp3 /\ L2 # Tmp3 /\ L3 # Tmp3
  BY <1>1
<1>15. Normal(s.mem) = InitPages
  <2>1. \A i \in 0 .. 6 : Base + i \in Normal(s.mem)
    BY <1>10, <1>12, <1>14 DEF Normal
  <2>2. \A p \in InitPages : p - Base \in 0 .. 6 /\ Base + (p - Base) = p
    <3>1. Base \in Nat /\ InitPages = Base .. Base + 6
      BY <1>1
    <3> QED BY <3>1, SMT
  <2>3. \A p \in InitPages : p \in Normal(s.mem)
    BY <2>1, <2>2
  <2>4. \A e \in s.mem : e.attr = "normal" => e.to \in InitPages
    BY <1>1, <1>9, <1>10, <1>11
  <2>5. \A p \in Normal(s.mem) : p \in InitPages
    BY <2>4 DEF Normal
  <2> QED BY <2>3, <2>5
<1>16. Device(s.mem) = {}
  BY <1>9, <1>10, <1>11 DEF Device
<1>17. Functional(s.mem)
  BY <1>9, <1>10, <1>11, <1>14 DEF Functional
<1>18. Ordered(s)
  <2>1. \A e \in s.mem : \/ e.tab \in {L0, L1, L2} /\ e.attr = "table" /\ e.to \in {L1, L2, L3}
                         \/ e.tab = L3 /\ e.attr = "normal"
    BY <1>9, <1>10, <1>11
  <2>2. /\ {L0, L1, L2, L3} \cap {Tmp1, Tmp2, Tmp3} = {}
        /\ {L0, L1, L2} \cap {L3, Tmp3} = {}
    BY <1>1
  <2> QED BY <1>13, <2>1, <2>2 DEF Ordered
<1>19. Placed(s, at)
  <2> SUFFICES ASSUME NEW e \in s.mem
               PROVE  /\ e.attr = "table" => at[e.to] = at[e.tab] * F + e.idx
                      /\ e.attr # "table" /\ e.tab # Tmp3 => e.to = at[e.tab] * F + e.idx
                      /\ e.attr = "normal" /\ e.tab # Tmp3 => e.to \in Reach /\ e.to < s.free
                      /\ e.attr = "device" /\ e.tab # Tmp3 => e.to \notin Reach
    BY <1>8 DEF Placed
  <2>1. CASE e = Root1
    BY <1>5, <1>8, <1>9, <2>1, Zenon
  <2>2. CASE e = Root2
    BY <1>5, <1>8, <1>9, <2>2, Zenon
  <2>3. CASE e = root3
    BY <1>5, <1>8, <1>9, <2>3, Zenon
  <2>4. CASE \E i \in 0 .. 6 : e = e3(i)
    <3>1. PICK i \in 0 .. 6 : e = e3(i)
      BY <2>4
    <3>2. e.tab = L3 /\ e.idx = i /\ e.to = Base + i /\ e.attr = "normal"
      BY <1>10, <3>1
    <3>3. e.to = at[e.tab] * F + e.idx
      BY <1>7, <1>8, <3>2
    <3> QED BY <1>3, <3>2, <3>3
  <2> QED BY <1>11, <2>1, <2>2, <2>3, <2>4
<1>20. Shape(s, at)
  BY <1>12, <1>17, <1>18, <1>19 DEF Shape
<1>21. {L1, L2, L3} \subseteq InitPages
  BY <1>1
<1> QED BY <1>8, <1>13, <1>15, <1>16, <1>20, <1>21

LEMMA InitMapInv == Init => MapInv
<1> SUFFICES ASSUME Init PROVE MapInv
  OBVIOUS
<1>1. PICK h \in HeapStarts :
        /\ m = BootMachine({}, h) /\ job = BootJob(h) /\ image = KernelStart .. h - 1
        /\ data = {} /\ device = {}
  BY DEF Init
<1>2. IInv
  BY InitIInv
<1>3. /\ Good(m) /\ m \in Machine /\ KernelStart \in Nat /\ h \in Nat /\ h >= KernelStart
      /\ Base \in Nat /\ KernelStart = Base + 7
  BY <1>2, TypesOfMapInv, MmuAssumption
<1>4. /\ m.mem = BootMem({}) /\ m.free = h /\ m.fault = "none" /\ m.clash = {}
      /\ m.tables[3] = {L3, Tmp3}
  BY <1>1 DEF BootMachine
<1>5. /\ job.kind = "kernel" /\ job.next = KernelStart /\ job.left = h - KernelStart
      /\ job.clear = 0
  BY <1>1 DEF BootJob
<1>6. Pending = image
  <2>1. KernelStart + (h - KernelStart) - 1 = h - 1
    BY <1>3
  <2> QED BY <1>1, <1>5, <2>1 DEF Pending
<1>7. Asked = {}
  BY <1>1, <1>6 DEF Asked
<1>8. JobSound
  <2>1. image \subseteq Base .. h - 1
    BY <1>1, <1>3
  <2> QED BY <1>1, <1>3, <1>4, <1>5, <1>6, <2>1 DEF JobSound
<1>9. MapSoFar
  <2>1. /\ \E at : Shape(m, at) /\ at[L0] = 0
        /\ Normal(m.mem) = InitPages \cup LinkedTables(m.mem)
        /\ Device(m.mem) = {}
    BY <1>3, <1>4, ShapeAtBoot
  <2> QED BY <1>1, <1>4, <1>7, <2>1 DEF MapSoFar, Sound, Failed
<1> QED BY <1>2, <1>8, <1>9 DEF MapInv

\* What is sound stays so while the memory and the tables stay what they are.
LEMMA SoundKeeps ==
  ASSUME NEW s, NEW R, NEW D, NEW tab, NEW v, Sound(s, R, D, tab, v),
         NEW t, Good(t), t.mem = s.mem, t.tables = s.tables, t.fault = s.fault,
         t.clash = s.clash, s.free <= t.free, t.free <= RamEnd
  PROVE  Sound(t, R, D, tab, v)
<1>1. PICK at : Shape(s, at) /\ at[tab] = v
  BY DEF Sound
<1>2. Shape(t, at)
  BY <1>1, ShapeKeeps
<1> QED BY <1>1, <1>2 DEF Sound, Failed

\* One more page of a loop: it is not pending any more.
LEMMA RoundOfLoop ==
  ASSUME job \in Job, job.left > 0,
         job' = [job EXCEPT !.next = @ + 1, !.left = @ - 1]
  PROVE  /\ job'.kind = job.kind /\ job'.clear = job.clear
         /\ job'.next = job.next + 1 /\ job'.left = job.left - 1
         /\ job.next \in job.next .. job.next + job.left - 1
         /\ job'.next .. job'.next + job'.left - 1
              = (job.next .. job.next + job.left - 1) \ {job.next}
<1>1. /\ job.next \in Nat /\ job.left \in Nat
      /\ job'.kind = job.kind /\ job'.clear = job.clear
      /\ job'.next = job.next + 1 /\ job'.left = job.left - 1
  BY DEF Job
<1> DEFINE n == job.next
           l == job.left
<1>2. n \in Nat /\ l \in Nat /\ l > 0
  BY <1>1
<1> HIDE DEF n, l
<1>3. n + 1 .. n + 1 + (l - 1) - 1 = (n .. n + l - 1) \ {n}
  BY <1>2
<1> QED BY <1>1, <1>2, <1>3 DEF n, l

\* The pages asked for as memory lie in the reach of RAM.
LEMMA AskedInReach ==
  ASSUME IInv, JobSound, m.free <= RamEnd, NEW p \in image \cup data
  PROVE  p \in Nat /\ p \in Reach /\ p < m.free /\ p < F * F * F * F
<1>1. m.free \in Nat /\ Base \in Nat /\ RamEnd \in Nat /\ p \in Base .. m.free - 1
  BY TypesOfMapInv DEF JobSound
<1>2. p \in Nat /\ p < m.free /\ p \in Reach
  <2>1. F * F \in Nat
    BY FIsPositive
  <2> QED BY <1>1, <2>1 DEF Reach, RamEnd
<1> QED BY <1>2, InReach

\* Every call of mmu_map_4kb that a loop makes adds the page asked for.
LEMMA MapAddrStepKeeps ==
  ASSUME MapInv, MapAddrStep, IInv'
  PROVE  JobSound' /\ MapSoFar'
<1>1. /\ ~Failed(m) /\ job.kind \in {"kernel", "kalloc"} /\ job.left > 0
      /\ m' = mmu_map_4kb(m, job.next, "normal")
      /\ job' = [job EXCEPT !.next = @ + 1, !.left = @ - 1]
      /\ image' = image /\ data' = data /\ device' = device
  BY DEF MapAddrStep
<1>2. IInv /\ JobSound /\ MapSoFar
  BY DEF MapInv
<1>3. /\ Good(m) /\ job \in Job /\ m.free \in Nat /\ KernelStart \in Nat /\ Base \in Nat
      /\ job.next \in Nat /\ job.left \in Nat /\ job.clear \in Nat /\ RamEnd \in Nat
  BY <1>2, TypesOfMapInv
<1>4. /\ job'.kind = job.kind /\ job'.clear = job.clear
      /\ job'.next = job.next + 1 /\ job'.left = job.left - 1
      /\ job.next \in job.next .. job.next + job.left - 1
      /\ job'.next .. job'.next + job'.left - 1
           = (job.next .. job.next + job.left - 1) \ {job.next}
  BY <1>1, <1>3, RoundOfLoop
<1>5. job.next \in Pending /\ Pending' = Pending \ {job.next}
  BY <1>1, <1>4 DEF Pending
<1>6. job.next \in image \cup data
  BY <1>2, <1>5 DEF JobSound
<1>7. Asked' = Asked \cup {job.next}
  BY <1>1, <1>5, <1>6 DEF Asked
<1>8. Advances(m, m') /\ m'.free \in Nat /\ m.free <= m'.free
  <2>1. "normal" \in Attr
    BY DEF Attr
  <2>2. Advances(m, m')
    BY <1>1, <1>3, <2>1, MapAdvances
  <2> QED BY <2>2, FreeIsNat DEF Advances
<1>9. JobSound'
  <2>1. image' \cup data' \subseteq Base .. m'.free - 1
    <3>1. image \cup data \subseteq Base .. m.free - 1
      BY <1>2 DEF JobSound
    <3>2. Base .. m.free - 1 \subseteq Base .. m'.free - 1
      BY <1>3, <1>8
    <3> QED BY <1>1, <3>1, <3>2
  <2>2. m'.free >= KernelStart /\ Pending' \subseteq image' \cup data'
    BY <1>1, <1>2, <1>3, <1>5, <1>8 DEF JobSound
  <2>3. job'.kind \notin {"uart", "device"}
    BY <1>1, <1>4
  <2>4. ASSUME job'.kind = "kalloc"
        PROVE  /\ job'.left <= job'.clear
               /\ job'.next + job'.left - job'.clear .. job'.next + job'.left - 1 \subseteq data'
    <3>1. /\ job.left <= job.clear
          /\ job.next + job.left - job.clear .. job.next + job.left - 1 \subseteq data
      BY <1>2, <1>4, <2>4 DEF JobSound
    <3>2. job'.next + job'.left = job.next + job.left /\ job'.left <= job.left
      BY <1>3, <1>4
    <3> QED BY <1>1, <1>3, <1>4, <3>1, <3>2
  <2> QED BY <2>1, <2>2, <2>3, <2>4 DEF JobSound
<1>10. MapSoFar'
  <2> SUFFICES ASSUME m'.free <= RamEnd
               PROVE  Clashed(m') \/ Sound(m', Asked', device', L0, 0)
    BY DEF MapSoFar
  <2>1. m.free <= RamEnd
    BY <1>3, <1>8
  <2>2. CASE Clashed(m)
    BY <1>1, <2>2, MapKeepsClash
  <2>3. CASE Sound(m, Asked, device, L0, 0)
    <3>1. m.free >= KernelStart
      BY <1>2 DEF JobSound
    <3>2. /\ job.next \in Nat /\ job.next \in Reach /\ job.next < m.free
          /\ job.next < F * F * F * F
      BY <1>2, <1>6, <2>1, AskedInReach
    <3> DEFINE attr == "normal"
               p == job.next
               r == m'
    <3>3. /\ p \in Nat /\ p < F * F * F * F /\ r.free <= RamEnd
          /\ \/ attr = "normal" /\ p \in Reach /\ p < m.free
             \/ attr = "device" /\ p \notin Reach
          /\ attr # "device" /\ r = mmu_map_4kb(m, p, attr)
      BY <1>1, <3>2
    <3> HIDE DEF attr, p, r
    <3>4. Clashed(r) \/ Sound(r, Asked \cup {p}, device, L0, 0)
      BY <2>3, <3>1, <3>3, MapSound
    <3> QED BY <1>1, <1>7, <3>4 DEF p, r
  <2> QED BY <1>2, <2>1, <2>2, <2>3 DEF MapSoFar
<1> QED BY <1>9, <1>10

LEMMA RegisterDeviceStepKeeps ==
  ASSUME MapInv, RegisterDeviceStep, IInv'
  PROVE  JobSound' /\ MapSoFar'
<1>1. /\ ~Failed(m) /\ job.kind \in {"uart", "device"} /\ job.left > 0
      /\ m' = mmu_map_4kb(m, job.next, "device")
      /\ job' = [job EXCEPT !.next = @ + 1, !.left = @ - 1]
      /\ image' = image /\ data' = data /\ device' = device \cup {job.next}
  BY DEF RegisterDeviceStep
<1>2. IInv /\ JobSound /\ MapSoFar
  BY DEF MapInv
<1>3. /\ Good(m) /\ job \in Job /\ m.free \in Nat /\ KernelStart \in Nat /\ Base \in Nat
      /\ job.next \in Nat /\ job.left \in Nat /\ job.clear \in Nat /\ RamEnd \in Nat
  BY <1>2, TypesOfMapInv
<1>4. /\ job'.kind = job.kind /\ job'.clear = job.clear
      /\ job.next \in job.next .. job.next + job.left - 1
      /\ job'.next .. job'.next + job'.left - 1
           = (job.next .. job.next + job.left - 1) \ {job.next}
  BY <1>1, <1>3, RoundOfLoop
<1>5. Pending = {} /\ Pending' = {} /\ Asked' = Asked
  BY <1>1, <1>4 DEF Pending, Asked
<1>6. \A p \in job.next .. job.next + job.left - 1 : p \notin Reach /\ p < F * F * F * F
  BY <1>1, <1>2 DEF JobSound
<1>7. Advances(m, m') /\ m'.free \in Nat /\ m.free <= m'.free
  <2>1. "device" \in Attr
    BY DEF Attr
  <2>2. Advances(m, m')
    BY <1>1, <1>3, <2>1, MapAdvances
  <2> QED BY <2>2, FreeIsNat DEF Advances
<1>8. JobSound'
  <2>1. image' \cup data' \subseteq Base .. m'.free - 1
    <3>1. image \cup data \subseteq Base .. m.free - 1
      BY <1>2 DEF JobSound
    <3>2. Base .. m.free - 1 \subseteq Base .. m'.free - 1
      BY <1>3, <1>7
    <3> QED BY <1>1, <3>1, <3>2
  <2>2. m'.free >= KernelStart /\ Pending' \subseteq image' \cup data'
    BY <1>2, <1>3, <1>5, <1>7 DEF JobSound
  <2>3. \A p \in job'.next .. job'.next + job'.left - 1 : p \notin Reach /\ p < F * F * F * F
    BY <1>4, <1>6
  <2>4. job'.kind # "kalloc"
    BY <1>1, <1>4
  <2> QED BY <2>1, <2>2, <2>3, <2>4 DEF JobSound
<1>9. MapSoFar'
  <2> SUFFICES ASSUME m'.free <= RamEnd
               PROVE  Clashed(m') \/ Sound(m', Asked', device', L0, 0)
    BY DEF MapSoFar
  <2>1. m.free <= RamEnd
    BY <1>3, <1>7
  <2>2. CASE Clashed(m)
    BY <1>1, <2>2, MapKeepsClash
  <2>3. CASE Sound(m, Asked, device, L0, 0)
    <3>1. m.free >= KernelStart
      BY <1>2 DEF JobSound
    <3>2. job.next \notin Reach /\ job.next < F * F * F * F
      BY <1>4, <1>6
    <3>3. Clashed(m') \/ Sound(m', Asked, device \cup {job.next}, L0, 0)
      BY <1>1, <1>3, <2>3, <3>1, <3>2, MapSound
    <3> QED BY <1>1, <1>5, <3>3
  <2> QED BY <1>2, <2>1, <2>2, <2>3 DEF MapSoFar
<1> QED BY <1>8, <1>9

\* kalloc's new pages are all pending.
LEMMA KallocKeeps ==
  ASSUME MapInv, NEW n \in Requests, kalloc(n), IInv'
  PROVE  JobSound' /\ MapSoFar'
<1>1. /\ Ready /\ m' = [m EXCEPT !.free = @ + n]
      /\ data' = data \cup (m.free .. m.free + n - 1)
      /\ job' = [kind |-> "kalloc", next |-> m.free, left |-> n, clear |-> n]
      /\ image' = image /\ device' = device
  BY DEF kalloc
<1>2. IInv /\ JobSound /\ MapSoFar
  BY DEF MapInv
<1>3. /\ Good(m) /\ m \in Machine /\ m.free \in Nat /\ KernelStart \in Nat /\ Base \in Nat
      /\ KernelStart = Base + 7 /\ RamEnd \in Nat /\ n \in Nat /\ Good(m')
  BY <1>2, TypesOfMapInv, MmuAssumption DEF IInv
<1>4. /\ m'.free = m.free + n /\ m'.mem = m.mem /\ m'.tables = m.tables
      /\ m'.fault = m.fault /\ m'.clash = m.clash
  BY <1>1, <1>3 DEF Machine
<1>5. /\ job.kind = "none" /\ job'.kind = "kalloc" /\ job'.next = m.free
      /\ job'.left = n /\ job'.clear = n
  BY <1>1 DEF Ready, Idle
<1>6. Pending = {} /\ Pending' = m.free .. m.free + n - 1
  BY <1>5 DEF Pending
<1>7. \A p \in image \cup data : p \in Base .. m.free - 1
  BY <1>2 DEF JobSound
<1>8. \A p \in image \cup data : p \notin Pending'
  BY <1>3, <1>6, <1>7
<1>9. Asked' = Asked
  BY <1>1, <1>6, <1>8 DEF Asked
<1>10. JobSound'
  <2>1. m'.free >= KernelStart /\ m.free >= KernelStart
    BY <1>2, <1>3, <1>4 DEF JobSound
  <2>2. m.free .. m.free + n - 1 \subseteq Base .. m'.free - 1
    BY <1>3, <1>4, <2>1
  <2>3. Base .. m.free - 1 \subseteq Base .. m'.free - 1
    BY <1>3, <1>4
  <2>4. image' \cup data' \subseteq Base .. m'.free - 1
    BY <1>1, <1>7, <2>2, <2>3
  <2>5. Pending' \subseteq image' \cup data'
    BY <1>1, <1>6
  <2>6. m.free + n - n .. m.free + n - 1 \subseteq data'
    BY <1>1, <1>3
  <2>7. job'.left <= job'.clear
    BY <1>3, <1>5
  <2> QED BY <1>5, <2>1, <2>4, <2>5, <2>6, <2>7 DEF JobSound
<1>11. MapSoFar'
  <2> SUFFICES ASSUME m'.free <= RamEnd
               PROVE  Clashed(m') \/ Sound(m', Asked', device', L0, 0)
    BY DEF MapSoFar
  <2>1. m.free <= m'.free /\ m.free <= RamEnd
    BY <1>3, <1>4
  <2>2. CASE Clashed(m)
    BY <1>3, <1>4, <2>2 DEF Clashed, Good, Machine
  <2>3. CASE Sound(m, Asked, device, L0, 0)
    BY <1>1, <1>3, <1>4, <1>9, <2>1, <2>3, SoundKeeps
  <2> QED BY <1>2, <2>1, <2>2, <2>3 DEF MapSoFar
<1> QED BY <1>10, <1>11

\* The page that kalloc clears is mapped and no table: no descriptor changes.
LEMMA ClearPageKeeps ==
  ASSUME MapInv, ClearPage, IInv'
  PROVE  JobSound' /\ MapSoFar'
<1> DEFINE p == job.next - job.clear
<1>1. /\ ~Failed(m) /\ job.kind = "kalloc" /\ job.left = 0 /\ job.clear > 0
      /\ m' = Zero(m, p) /\ job' = [job EXCEPT !.clear = @ - 1]
      /\ image' = image /\ data' = data /\ device' = device
  BY DEF ClearPage
<1>2. IInv /\ JobSound /\ MapSoFar /\ DataApart
  BY DEF MapInv, IInv
<1>3. /\ Good(m) /\ m \in Machine /\ m.free \in Nat /\ job \in Job
      /\ job.next \in Nat /\ job.left \in Nat /\ job.clear \in Nat
  BY <1>2, TypesOfMapInv
<1>4. /\ job'.kind = job.kind /\ job'.next = job.next /\ job'.left = job.left
      /\ job'.clear = job.clear - 1
  BY <1>1, <1>3 DEF Job
<1>5. Kept(m, m') /\ m'.free = m.free
  BY <1>1, <1>3, ZeroKeeps DEF Kept, Same
<1>6. Pending = {} /\ Pending' = {}
  BY <1>1, <1>3, <1>4 DEF Pending
<1>7. Asked = image \cup data /\ Asked' = Asked
  BY <1>1, <1>6 DEF Asked
<1>8. job.next + job.left - job.clear .. job.next + job.left - 1 \subseteq data
  BY <1>1, <1>2 DEF JobSound
<1>9. p \in data
  <2>1. p \in job.next + job.left - job.clear .. job.next + job.left - 1
    BY <1>1, <1>3
  <2> QED BY <1>8, <2>1
<1>10. JobSound'
  <2>1. job'.left <= job'.clear
    BY <1>1, <1>3, <1>4
  <2>2. job'.next + job'.left - job'.clear .. job'.next + job'.left - 1
          \subseteq job.next + job.left - job.clear .. job.next + job.left - 1
    BY <1>1, <1>3, <1>4
  <2>3. job'.kind \notin {"uart", "device"}
    BY <1>1, <1>4
  <2> QED BY <1>1, <1>2, <1>5, <1>6, <1>8, <2>1, <2>2, <2>3 DEF JobSound
<1> HIDE DEF p
<1>11. MapSoFar'
  <2> SUFFICES ASSUME m'.free <= RamEnd
               PROVE  Clashed(m') \/ Sound(m', Asked', device', L0, 0)
    BY DEF MapSoFar
  <2>1. m.free <= RamEnd
    BY <1>5
  <2>2. CASE Clashed(m)
    BY <1>1, <2>2, StoreKeepsClash
  <2>3. CASE Sound(m, Asked, device, L0, 0)
    <3>1. PICK at : Shape(m, at)
      BY <2>3 DEF Sound
    <3>2. p \in Normal(m.mem)
      BY <1>7, <1>9, <2>3 DEF Sound
    <3>3. Frames(m.mem, p) = {p}
      <4>1. Functional(m.mem) /\ \A e \in m.mem : e.tab # Tmp3 => e \in m.mem
        BY <3>1 DEF Shape
      <4> QED BY <3>1, <3>2, <4>1, NormalIsMapped
    <3>4. \A e \in m.mem : e.tab # p
      <4> SUFFICES ASSUME NEW e \in m.mem, e.tab = p PROVE FALSE
        OBVIOUS
      <4>1. PICK k \in 0 .. 3 : e.tab \in m.tables[k]
        BY <1>3 DEF Good, Linked
      <4> QED BY <1>2, <1>9, <4>1 DEF DataApart
    <3>5. {e \in m.mem : e.tab # p} = m.mem
      BY <3>4
    <3>6. Zero(m, p) = [m EXCEPT !.mem = {e \in m.mem : e.tab # p}]
      BY <1>1, <3>3, ZeroWorks
    <3>7. m' = m
      BY <1>1, <1>3, <3>5, <3>6 DEF Machine
    <3> QED BY <1>1, <1>7, <2>3, <3>7
  <2> QED BY <1>2, <2>1, <2>2, <2>3 DEF MapSoFar
<1> QED BY <1>10, <1>11

LEMMA NextMapInv == MapInv /\ [Next]_vars => MapInv'
<1> SUFFICES ASSUME MapInv, [Next]_vars PROVE MapInv'
  OBVIOUS
<1>1. IInv /\ JobSound /\ MapSoFar
  BY DEF MapInv
<1>2. IInv'
  BY <1>1, NextIInv
<1>3. /\ Good(m) /\ m \in Machine /\ m.free \in Nat /\ job \in Job
      /\ job.next \in Nat /\ job.left \in Nat /\ job.clear \in Nat
      /\ Good(m') /\ m'.free \in Nat
  <2>1. Good(m') /\ m'.free \in Nat
    BY <1>2, FreeIsNat DEF IInv
  <2> QED BY <1>1, <2>1, TypesOfMapInv
<1> SUFFICES JobSound' /\ MapSoFar'
  BY <1>2 DEF MapInv
\* A call begins or ends that has mapped everything: the machine is the same.
<1>4. ASSUME m' = m, image' = image, data' = data, device' = device,
             Pending = {}, Pending' = {}, job'.kind # "kalloc",
             job'.kind \in {"uart", "device"} =>
               \A p \in job'.next .. job'.next + job'.left - 1 :
                 p \notin Reach /\ p < F * F * F * F
      PROVE  JobSound' /\ MapSoFar'
  <2>1. Asked' = Asked
    BY <1>4 DEF Asked
  <2>2. JobSound'
    BY <1>1, <1>4 DEF JobSound
  <2>3. MapSoFar'
    BY <1>1, <1>4, <2>1 DEF MapSoFar
  <2> QED BY <2>2, <2>3
<1>5. CASE MapAddrStep
  BY <1>2, <1>5, MapAddrStepKeeps
<1>6. CASE RegisterDeviceStep
  BY <1>2, <1>6, RegisterDeviceStepKeeps
<1>7. CASE InitUart
  <2>1. /\ m' = m /\ image' = image /\ data' = data /\ device' = device
        /\ job.kind = "kernel" /\ job.left = 0
        /\ job'.kind = "uart" /\ job'.next = Uart /\ job'.left = 1
    BY <1>7 DEF InitUart
  <2>2. Pending = {} /\ Pending' = {}
    BY <1>3, <2>1 DEF Pending
  <2>3. \A p \in Uart .. Uart + 1 - 1 : p \notin Reach /\ p < F * F * F * F
    <3>1. Uart \in Nat /\ Uart \notin Reach /\ Uart < F * F * F * F
      BY MmuAssumption, LayoutAssumption
    <3>2. \A p \in Uart .. Uart + 1 - 1 : p = Uart
      BY <3>1
    <3> QED BY <3>1, <3>2
  <2> QED BY <1>4, <2>1, <2>2, <2>3
<1>8. CASE EnableMmu
  <2>1. /\ m' = [m EXCEPT !.on = TRUE] /\ image' = image /\ data' = data /\ device' = device
        /\ job.kind = "uart" /\ job' = Idle
    BY <1>8 DEF EnableMmu
  <2>2. /\ m'.free = m.free /\ m'.mem = m.mem /\ m'.tables = m.tables
        /\ m'.fault = m.fault /\ m'.clash = m.clash
    BY <1>3, <2>1 DEF Machine
  <2>3. Pending = {} /\ Pending' = {} /\ job'.kind = "none"
    BY <2>1 DEF Pending, Idle
  <2>4. Asked' = Asked
    BY <2>1, <2>3 DEF Asked
  <2>5. JobSound'
    BY <1>1, <2>1, <2>2, <2>3 DEF JobSound
  <2>6. MapSoFar'
    <3> SUFFICES ASSUME m'.free <= RamEnd
                 PROVE  Clashed(m') \/ Sound(m', Asked', device', L0, 0)
      BY DEF MapSoFar
    <3>1. CASE Clashed(m)
      BY <1>3, <2>1, <2>2, <3>1 DEF Clashed, Machine
    <3>2. CASE Sound(m, Asked, device, L0, 0)
      <4>1. m.free <= m'.free
        BY <1>3, <2>2
      <4> QED BY <1>3, <2>1, <2>2, <2>4, <3>2, <4>1, SoundKeeps
    <3> QED BY <1>1, <2>2, <3>1, <3>2 DEF MapSoFar
  <2> QED BY <2>5, <2>6
<1>9. ASSUME NEW n \in Requests, kalloc(n) PROVE JobSound' /\ MapSoFar'
  BY <1>2, <1>9, KallocKeeps
<1>10. CASE ClearPage
  BY <1>2, <1>10, ClearPageKeeps
<1>11. ASSUME NEW d \in Devices, register_device_memory(d) PROVE JobSound' /\ MapSoFar'
  <2>1. /\ m' = m /\ image' = image /\ data' = data /\ device' = device
        /\ job = Idle
        /\ job'.kind = "device" /\ job'.next = d[1] /\ job'.left = d[2]
    BY <1>11 DEF register_device_memory, Ready
  <2>2. Pending = {} /\ Pending' = {}
    BY <2>1 DEF Pending, Idle
  <2>3. \A p \in d[1] .. d[1] + d[2] - 1 : p \notin Reach /\ p < F * F * F * F
    BY LayoutAssumption
  <2> QED BY <1>4, <2>1, <2>2, <2>3
<1>12. CASE Return
  <2>1. /\ m' = m /\ image' = image /\ data' = data /\ device' = device
        /\ job.kind \in {"kalloc", "device"} /\ job.left = 0 /\ job'.kind = "none"
    BY <1>12 DEF Return, Idle
  <2>2. Pending = {} /\ Pending' = {}
    BY <1>3, <2>1 DEF Pending
  <2> QED BY <1>4, <2>1, <2>2
<1>13. CASE UNCHANGED vars
  <2>1. /\ m' = m /\ image' = image /\ data' = data /\ device' = device /\ job' = job
    BY <1>13 DEF vars
  <2>2. Pending' = Pending
    BY <2>1 DEF Pending
  <2>3. Asked' = Asked
    BY <2>1, <2>2 DEF Asked
  <2> QED BY <1>1, <2>1, <2>2, <2>3 DEF JobSound, MapSoFar
<1> QED BY <1>5, <1>6, <1>7, <1>8, <1>9, <1>10, <1>11, <1>12, <1>13 DEF Next

-----------------------------------------------------------------------------
\* From the boot on, without a reset, and until the allocator has used up what
\* one level-1 entry covers, the tables map what has been asked for, or one of
\* the two clashes of map_page_for_pagetable has happened.
THEOREM MapInvariant == Spec => []MapInv
<1> QED BY InitMapInv, NextMapInv, PTL DEF Spec

\* The code, which edits the tables through the mapping they define, never
\* accesses a page that is not mapped, and map_page_for_pagetable never runs
\* off its end, unless a table was linked over a link in use, or a block of
\* table pages has straddled two level-3 tables, before.
THEOREM FaultsOnlyByClash == Spec => [](m.free <= RamEnd => FaultOnlyByClash)
<1>1. MapInv => (m.free <= RamEnd => FaultOnlyByClash)
  BY DEF MapInv, MapSoFar, Sound, Clashed, FaultOnlyByClash
<1> QED BY <1>1, MapInvariant, PTL

-----------------------------------------------------------------------------
\* Where the entries of a table in use point, level by level.
LEMMA EntryOfLevel ==
  ASSUME NEW s, NEW at, Shape(s, at), NEW k \in 0 .. 2, NEW e \in s.mem,
         e.tab \in s.tables[k]
  PROVE  e.attr = "table" /\ e.to \in s.tables[k + 1] /\ e.tab # Tmp3
<1>1. Good(s) /\ Ordered(s) /\ Tmp3 \in s.tables[3]
  BY RootLevels DEF Shape
<1>2. k \in 0 .. 3 /\ 3 \in 0 .. 3 /\ k # 3
  OBVIOUS
<1>3. e.tab \notin s.tables[3]
  BY <1>1, <1>2, OneLevel
<1>4. e.attr = "table"
  BY <1>1, <1>3 DEF Ordered
<1>5. PICK j \in 0 .. 2 : e.tab \in s.tables[j] /\ e.to \in s.tables[j + 1]
  BY <1>1, <1>4, LevelOfLink
<1>6. j = k
  <2>1. j \in 0 .. 3
    OBVIOUS
  <2> QED BY <1>1, <1>2, <1>5, <2>1, OneLevel
<1> QED BY <1>1, <1>3, <1>4, <1>5, <1>6

\* The tables the hardware can reach are L0 and the tables that are linked.
LEMMA LiveTables ==
  ASSUME NEW s, NEW at, Shape(s, at)
  PROVE  Live(s.mem) = {L0} \cup LinkedTables(s.mem)
<1> DEFINE t1 == Targets(s.mem, {L0})
           t2 == Targets(s.mem, t1)
           t3 == Targets(s.mem, t2)
<1>0. /\ 0 \in 0 .. 2 /\ 1 \in 0 .. 2 /\ 2 \in 0 .. 2 /\ 1 \in 1 .. 3 /\ 2 \in 1 .. 3
      /\ 0 + 1 = 1 /\ 1 + 1 = 2 /\ 2 + 1 = 3 /\ 1 - 1 = 0 /\ 2 - 1 = 1
  OBVIOUS
<1>1. L0 \in s.tables[0] /\ L0 # Tmp3 /\ Good(s) /\ Ordered(s)
  BY RootLevels DEF Shape
<1>2. \A e \in s.mem : /\ e.tab \in s.tables[0] =>
                            e.attr = "table" /\ e.to \in s.tables[1] /\ e.tab # Tmp3
                       /\ e.tab \in s.tables[1] =>
                            e.attr = "table" /\ e.to \in s.tables[2] /\ e.tab # Tmp3
                       /\ e.tab \in s.tables[2] =>
                            e.attr = "table" /\ e.to \in s.tables[3] /\ e.tab # Tmp3
  BY <1>0, EntryOfLevel
<1>3. \A p \in t1 : p \in LinkedTables(s.mem) /\ p \in s.tables[1]
  BY <1>1, <1>2 DEF Targets, LinkedTables
<1>4. \A p \in t2 : p \in LinkedTables(s.mem) /\ p \in s.tables[2]
  <2> HIDE DEF t1
  <2> QED BY <1>2, <1>3 DEF Targets, LinkedTables
<1>5. \A p \in t3 : p \in LinkedTables(s.mem)
  <2> HIDE DEF t2
  <2> QED BY <1>2, <1>4 DEF Targets, LinkedTables
<1>6. \A e \in s.mem : e.tab = L0 => e.to \in t1
  BY DEF Targets
<1>7. \A e \in s.mem : e.tab \in t1 => e.to \in t2
  BY DEF Targets
<1>8. \A e \in s.mem : e.tab \in t2 => e.to \in t3
  BY DEF Targets
<1>9. Live(s.mem) = {L0} \cup t1 \cup t2 \cup t3
  BY DEF Live
<1> HIDE DEF t1, t2, t3
<1>10. \A e \in s.mem : e.tab \in s.tables[0] => e.to \in t1
  BY <1>6, TopIsL0
<1>11. \A e \in s.mem : e.tab \in s.tables[1] => e.to \in t2
  <2> SUFFICES ASSUME NEW e \in s.mem, e.tab \in s.tables[1] PROVE e.to \in t2
    OBVIOUS
  <2>1. PICK d \in s.mem : d.to = e.tab /\ d.tab \in s.tables[0]
    BY <1>0, <1>2, Parent
  <2> QED BY <1>7, <1>10, <2>1
<1>12. \A e \in s.mem : e.tab \in s.tables[2] => e.to \in t3
  <2> SUFFICES ASSUME NEW e \in s.mem, e.tab \in s.tables[2] PROVE e.to \in t3
    OBVIOUS
  <2>1. PICK d \in s.mem : d.to = e.tab /\ d.tab \in s.tables[1]
    BY <1>0, <1>2, Parent
  <2> QED BY <1>8, <1>11, <2>1
<1>13. \A p \in LinkedTables(s.mem) : p \in t1 \/ p \in t2 \/ p \in t3
  <2> SUFFICES ASSUME NEW e \in s.mem, e.attr = "table"
               PROVE  e.to \in t1 \/ e.to \in t2 \/ e.to \in t3
    BY DEF LinkedTables
  <2>1. PICK k \in 0 .. 2 : e.tab \in s.tables[k]
    BY <1>1, LevelOfLink
  <2>2. k = 0 \/ k = 1 \/ k = 2
    OBVIOUS
  <2> QED BY <1>10, <1>11, <1>12, <2>1, <2>2
<1> QED BY <1>3, <1>4, <1>5, <1>9, <1>13

\* A walk of four hops.
Walk(mem, e0, e1, e2, e3) ==
  /\ e0 \in mem /\ e1 \in mem /\ e2 \in mem /\ e3 \in mem
  /\ e0.tab = L0 /\ e1.tab = e0.to /\ e2.tab = e1.to /\ e3.tab = e2.to

Address(e0, e1, e2, e3) == (((0 * F + e0.idx) * F + e1.idx) * F + e2.idx) * F + e3.idx

LEMMA TranslationsAreWalks ==
  ASSUME NEW mem
  PROVE  \A x : x \in Translations(mem) <=>
           \E e0, e1, e2, e3 :
             /\ Walk(mem, e0, e1, e2, e3)
             /\ x = [va |-> Address(e0, e1, e2, e3), pa |-> e3.to, attr |-> e3.attr]
<1> DEFINE root == [va |-> 0, pa |-> L0, attr |-> "table"]
           W1 == Walks(mem, {root})
           W2 == Walks(mem, W1)
           W3 == Walks(mem, W2)
           W4 == Walks(mem, W3)
           at(v, e) == [va |-> v * F + e.idx, pa |-> e.to, attr |-> e.attr]
<1>1. \A W, x : x \in Walks(mem, W) <=>
        \E w \in W : \E e \in mem : e.tab = w.pa /\ x = at(w.va, e)
  BY DEF Walks
<1>2. root.va = 0 /\ root.pa = L0
  OBVIOUS
<1>3. \A v, e : at(v, e).va = v * F + e.idx /\ at(v, e).pa = e.to
  OBVIOUS
<1> HIDE DEF root, at
<1>4. \A x : x \in W1 <=> \E e0 \in mem : e0.tab = L0 /\ x = at(0, e0)
  BY <1>1, <1>2
<1> HIDE DEF W1
<1>5. \A x : x \in W2 <=> \E e0, e1 \in mem : /\ e0.tab = L0 /\ e1.tab = e0.to
                                              /\ x = at(0 * F + e0.idx, e1)
  BY <1>1, <1>3, <1>4
<1> HIDE DEF W2
<1>6. \A x : x \in W3 <=> \E e0, e1, e2 \in mem :
                            /\ e0.tab = L0 /\ e1.tab = e0.to /\ e2.tab = e1.to
                            /\ x = at((0 * F + e0.idx) * F + e1.idx, e2)
  BY <1>1, <1>3, <1>5
<1> HIDE DEF W3
<1>7. \A x : x \in W4 <=> \E e0, e1, e2, e3 \in mem :
                            /\ e0.tab = L0 /\ e1.tab = e0.to /\ e2.tab = e1.to /\ e3.tab = e2.to
                            /\ x = at(((0 * F + e0.idx) * F + e1.idx) * F + e2.idx, e3)
  <2> DEFINE v(e0, e1, e2) == ((0 * F + e0.idx) * F + e1.idx) * F + e2.idx
             Hops(e0, e1, e2, e3) ==
               e0.tab = L0 /\ e1.tab = e0.to /\ e2.tab = e1.to /\ e3.tab = e2.to
             w(e0, e1, e2) == at((0 * F + e0.idx) * F + e1.idx, e2)
  <2>1. \A e0, e1, e2 : w(e0, e1, e2).va = v(e0, e1, e2) /\ w(e0, e1, e2).pa = e2.to
    BY <1>3
  <2>2. \A x : x \in W3 <=> \E e0, e1, e2 \in mem :
                              /\ e0.tab = L0 /\ e1.tab = e0.to /\ e2.tab = e1.to
                              /\ x = w(e0, e1, e2)
    BY <1>6
  <2> HIDE DEF v, w
  <2> SUFFICES ASSUME NEW x
               PROVE  x \in W4 <=> \E e0, e1, e2, e3 \in mem :
                        Hops(e0, e1, e2, e3) /\ x = at(v(e0, e1, e2), e3)
    BY Zenon DEF v
  <2>3. ASSUME x \in W4
        PROVE  \E e0, e1, e2, e3 \in mem :
                 Hops(e0, e1, e2, e3) /\ x = at(v(e0, e1, e2), e3)
    <3>1. PICK y \in W3 : \E e3 \in mem : e3.tab = y.pa /\ x = at(y.va, e3)
      BY <1>1, <2>3
    <3>2. PICK e3 \in mem : e3.tab = y.pa /\ x = at(y.va, e3)
      BY <3>1
    <3>3. PICK e0, e1, e2 \in mem : /\ e0.tab = L0 /\ e1.tab = e0.to /\ e2.tab = e1.to
                                    /\ y = w(e0, e1, e2)
      BY <2>2
    <3>4. y.va = v(e0, e1, e2) /\ y.pa = e2.to
      BY <2>1, <3>3
    <3>5. Hops(e0, e1, e2, e3) /\ x = at(v(e0, e1, e2), e3)
      BY <3>2, <3>3, <3>4
    <3> QED BY <3>5
  <2>4. ASSUME NEW e0 \in mem, NEW e1 \in mem, NEW e2 \in mem, NEW e3 \in mem,
               Hops(e0, e1, e2, e3), x = at(v(e0, e1, e2), e3)
        PROVE  x \in W4
    <3>1. w(e0, e1, e2) \in W3
      BY <2>2, <2>4
    <3>2. e3.tab = w(e0, e1, e2).pa /\ x = at(w(e0, e1, e2).va, e3)
      BY <2>1, <2>4
    <3> QED BY <1>1, <3>1, <3>2
  <2> QED BY <2>3, <2>4
<1>8. Translations(mem) = W4
  BY DEF Translations, W1, W2, W3, root
<1> HIDE DEF W4
<1> QED BY <1>7, <1>8 DEF Walk, Address, at

\* Every page mapped is mapped at itself, with the attribute of its entry.
LEMMA TranslationsAreExact ==
  ASSUME NEW s, NEW at, Shape(s, at)
  PROVE  Translations(s.mem) =
           {[va |-> p, pa |-> p, attr |-> "normal"] : p \in Normal(s.mem)} \cup
           {[va |-> p, pa |-> p, attr |-> "device"] : p \in Device(s.mem)}
<1>0. /\ 0 \in 0 .. 2 /\ 1 \in 0 .. 2 /\ 2 \in 0 .. 2
      /\ 0 + 1 = 1 /\ 1 + 1 = 2 /\ 2 + 1 = 3
  OBVIOUS
<1>1. Good(s) /\ Ordered(s) /\ Placed(s, at) /\ L0 \in s.tables[0] /\ F \in Nat
  BY RootLevels, FIsPositive DEF Shape
<1>2. ASSUME NEW e0, NEW e1, NEW e2, NEW e3, Walk(s.mem, e0, e1, e2, e3)
      PROVE  /\ e3.tab # Tmp3 /\ e3.attr \in {"normal", "device"}
             /\ e3.to = Address(e0, e1, e2, e3)
  <2>1. /\ e0 \in s.mem /\ e1 \in s.mem /\ e2 \in s.mem /\ e3 \in s.mem
        /\ e0.tab = L0 /\ e1.tab = e0.to /\ e2.tab = e1.to /\ e3.tab = e2.to
    BY <1>2 DEF Walk
  <2>2. e0.attr = "table" /\ e0.to \in s.tables[1]
    BY <1>0, <1>1, <2>1, EntryOfLevel
  <2>3. e1.attr = "table" /\ e1.to \in s.tables[2]
    BY <1>0, <2>1, <2>2, EntryOfLevel
  <2>4. e2.attr = "table" /\ e2.to \in s.tables[3]
    BY <1>0, <2>1, <2>3, EntryOfLevel
  <2>5. e3.attr # "table" /\ e3.tab # Tmp3
    BY <1>1, <2>1, <2>4 DEF Ordered
  <2>6. e3.attr \in {"normal", "device"}
    BY <1>1, <2>1, <2>5, LevelOfLink
  <2>7. /\ at[L0] = 0
        /\ at[e1.tab] = at[e0.tab] * F + e0.idx
        /\ at[e2.tab] = at[e1.tab] * F + e1.idx
        /\ at[e3.tab] = at[e2.tab] * F + e2.idx
        /\ e3.to = at[e3.tab] * F + e3.idx
    BY <1>1, <2>1, <2>2, <2>3, <2>4, <2>5 DEF Placed
  <2>8. e3.to = Address(e0, e1, e2, e3)
    BY <2>1, <2>7, Zenon DEF Address
  <2> QED BY <2>5, <2>6, <2>8
<1>3. ASSUME NEW x \in Translations(s.mem)
      PROVE  \/ \E p \in Normal(s.mem) : x = [va |-> p, pa |-> p, attr |-> "normal"]
             \/ \E p \in Device(s.mem) : x = [va |-> p, pa |-> p, attr |-> "device"]
  <2>1. PICK e0, e1, e2, e3 :
          /\ Walk(s.mem, e0, e1, e2, e3)
          /\ x = [va |-> Address(e0, e1, e2, e3), pa |-> e3.to, attr |-> e3.attr]
    BY <1>3, TranslationsAreWalks
  <2>2. /\ e3.tab # Tmp3 /\ e3.attr \in {"normal", "device"}
        /\ e3.to = Address(e0, e1, e2, e3)
    BY <1>2, <2>1
  <2>3. e3 \in s.mem
    BY <2>1 DEF Walk
  <2>4. x = [va |-> e3.to, pa |-> e3.to, attr |-> e3.attr]
    BY <2>1, <2>2
  <2>5. CASE e3.attr = "normal"
    BY <2>2, <2>3, <2>4, <2>5 DEF Normal
  <2>6. CASE e3.attr = "device"
    BY <2>2, <2>3, <2>4, <2>6 DEF Device
  <2> QED BY <2>2, <2>5, <2>6
<1>4. ASSUME NEW e \in s.mem, e.attr # "table", e.tab # Tmp3
      PROVE  [va |-> e.to, pa |-> e.to, attr |-> e.attr] \in Translations(s.mem)
  <2>1. PICK e0, e1, e2 \in s.mem :
          /\ e0.tab = L0 /\ e1.tab = e0.to /\ e2.tab = e1.to /\ e.tab = e2.to
          /\ e0.idx = Idx(0, e.to)
          /\ e.to = ((e0.idx * F + e1.idx) * F + e2.idx) * F + e.idx
    BY <1>4, PathToEntry
  <2>2. Walk(s.mem, e0, e1, e2, e)
    BY <2>1 DEF Walk
  <2>3. 0 * F + e0.idx = e0.idx
    BY <1>1, LevelOfLink
  <2>4. Address(e0, e1, e2, e) = e.to
    BY <2>1, <2>3, Zenon DEF Address
  <2> QED BY <2>2, <2>4, TranslationsAreWalks
<1>5. \A p \in Normal(s.mem) :
        [va |-> p, pa |-> p, attr |-> "normal"] \in Translations(s.mem)
  BY <1>4 DEF Normal
<1>6. \A p \in Device(s.mem) :
        [va |-> p, pa |-> p, attr |-> "device"] \in Translations(s.mem)
  BY <1>4 DEF Device
<1> QED BY <1>3, <1>5, <1>6

\* Between calls the address space is what was asked for, one to one and with
\* the right attributes, and every table in use can be edited: for every size
\* of table, layout, list of devices and sequence of requests, until a clash.
THEOREM ExactMapping == Spec => [](m.free <= RamEnd => MappingExact)
<1>1. MapInv => (m.free <= RamEnd => MappingExact)
  <2> SUFFICES ASSUME MapInv, m.free <= RamEnd, job = Idle, m.clash = {}
               PROVE  Translations(m.mem) =
                        {[va |-> p, pa |-> p, attr |-> "normal"] :
                           p \in InitPages \cup image \cup data \cup Live(m.mem)} \cup
                        {[va |-> p, pa |-> p, attr |-> "device"] : p \in device}
    BY DEF MappingExact
  <2>1. Sound(m, Asked, device, L0, 0)
    BY DEF MapInv, MapSoFar, Clashed
  <2>2. PICK at : Shape(m, at)
    BY <2>1 DEF Sound
  <2>3. Asked = image \cup data
    BY DEF Asked, Pending, Idle
  <2>4. Live(m.mem) = {L0} \cup LinkedTables(m.mem)
    BY <2>2, LiveTables
  <2>5. L0 \in InitPages
    BY InitPagesAre
  <2>6. Normal(m.mem) = InitPages \cup image \cup data \cup Live(m.mem)
    BY <2>1, <2>3, <2>4, <2>5 DEF Sound
  <2>7. Device(m.mem) = device
    BY <2>1 DEF Sound
  <2> QED BY <2>2, <2>6, <2>7, TranslationsAreExact
<1> QED BY <1>1, MapInvariant, PTL
=============================================================================
