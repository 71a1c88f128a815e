-------------------------- MODULE RecursionTheorems --------------------------
(***************************************************************************)
(* What the proofs about recursive functions rest on: induction, stated    *)
(* for a set of numbers, and the existence of a function that is defined   *)
(* by recursion on a number.                                               *)
(***************************************************************************)
EXTENDS Integers, WellFoundedInduction, TLAPS

\* A set of naturals that is not empty has a least element.
LEMMA LeastNat ==
  ASSUME NEW T, T \subseteq Nat, T # {}
  PROVE  \E x \in T : \A y \in T : x <= y
<1> DEFINE R == OpToRel(<, Nat)
<1>1. \E x \in T : \A y \in T : ~(<< y, x >> \in R)
  BY NatLessThanWellFounded, WFMin
<1>2. \A x, y \in Nat : << y, x >> \in R <=> y < x
  BY DEF OpToRel
<1> HIDE DEF R
<1>3. PICK x \in T : \A y \in T : ~(<< y, x >> \in R)
  BY <1>1
<1>4. ASSUME NEW y \in T PROVE x <= y
  <2>1. x \in Nat /\ y \in Nat
    OBVIOUS
  <2>2. ~(y < x)
    BY <1>2, <1>3, <2>1, Zenon
  <2> QED BY <2>1, <2>2
<1> QED BY <1>4

\* Induction up to n.
LEMMA InductionUpTo ==
  ASSUME NEW n \in Nat, NEW S, 0 \in S, \A i \in 1 .. n : i - 1 \in S => i \in S
  PROVE  0 .. n \subseteq S
<1> DEFINE T == (0 .. n) \ S
<1> SUFFICES ASSUME T # {} PROVE FALSE
  OBVIOUS
<1>1. PICK x \in T : \A y \in T : x <= y
  <2>1. T \subseteq Nat
    OBVIOUS
  <2> HIDE DEF T
  <2> QED BY <2>1, LeastNat
<1>2. x # 0 /\ x - 1 \in 0 .. n /\ x \in 1 .. n
  BY <1>1
<1>3. x - 1 \notin T
  BY <1>1
<1> QED BY <1>1, <1>2, <1>3

\* g starts with a and goes on by the function step.
Recursion(g, a, step, n) == g[0] = a /\ \A i \in 1 .. n : g[i] = step[<< g[i - 1], i >>]

\* There is such a function on 0 .. n.
LEMMA RecursionUpTo ==
  ASSUME NEW S, NEW a \in S, NEW step \in [S \X Nat -> S], NEW n \in Nat
  PROVE  \E g \in [0 .. n -> S] : Recursion(g, a, step, n)
<1> DEFINE Good == {k \in 0 .. n : \E g \in [0 .. k -> S] : Recursion(g, a, step, k)}
<1>1. 0 \in Good
  <2> DEFINE g == [i \in 0 .. 0 |-> a]
  <2>1. g \in [0 .. 0 -> S] /\ g[0] = a
    OBVIOUS
  <2> HIDE DEF g
  <2>2. Recursion(g, a, step, 0) /\ 0 \in 0 .. n
    BY <2>1 DEF Recursion
  <2> QED BY <2>1, <2>2
<1>2. ASSUME NEW k \in 1 .. n, k - 1 \in Good PROVE k \in Good
  <2>1. PICK g \in [0 .. k - 1 -> S] : Recursion(g, a, step, k - 1)
    BY <1>2
  <2> DEFINE h == [i \in 0 .. k |-> IF i = k THEN step[<< g[k - 1], k >>] ELSE g[i]]
  <2>2. g[k - 1] \in S /\ k \in Nat
    OBVIOUS
  <2>3. step[<< g[k - 1], k >>] \in S
    BY <2>2
  <2>4. h \in [0 .. k -> S]
    BY <2>3
  <2>5. \A i \in 0 .. k - 1 : h[i] = g[i]
    OBVIOUS
  <2>6. h[k] = step[<< g[k - 1], k >>] /\ h[0] = a
    BY <2>1 DEF Recursion
  <2> HIDE DEF h
  <2>7. ASSUME NEW i \in 1 .. k PROVE h[i] = step[<< h[i - 1], i >>]
    <3>1. h[i - 1] = g[i - 1]
      <4>1. i - 1 \in 0 .. k - 1
        OBVIOUS
      <4> QED BY <2>5, <4>1
    <3>2. CASE i = k
      BY <2>6, <3>1, <3>2
    <3>3. CASE i # k
      <4>1. i \in 1 .. k - 1 /\ i \in 0 .. k - 1
        BY <3>3
      <4> QED BY <2>1, <2>5, <3>1, <4>1 DEF Recursion
    <3> QED BY <3>2, <3>3
  <2>8. Recursion(h, a, step, k)
    BY <2>6, <2>7 DEF Recursion
  <2> QED BY <2>4, <2>8
<1>3. n \in Good
  <2> HIDE DEF Good
  <2>1. 0 .. n \subseteq Good
    BY <1>1, <1>2, InductionUpTo
  <2> QED BY <2>1
<1> QED BY <1>3

\* A function applied again and again.
Iteration(g, a, next, n) == g[0] = a /\ \A i \in 1 .. n : g[i] = next[g[i - 1]]

LEMMA IterationUpTo ==
  ASSUME NEW S, NEW a \in S, NEW next \in [S -> S], NEW n \in Nat
  PROVE  \E g \in [0 .. n -> S] : Iteration(g, a, next, n)
<1> DEFINE step == [x \in S \X Nat |-> next[x[1]]]
<1>1. step \in [S \X Nat -> S]
  OBVIOUS
<1>2. \A s \in S, i \in Nat : step[<< s, i >>] = next[s]
  OBVIOUS
<1> HIDE DEF step
<1>3. PICK g \in [0 .. n -> S] : Recursion(g, a, step, n)
  BY <1>1, RecursionUpTo
<1>4. ASSUME NEW i \in 1 .. n PROVE g[i] = next[g[i - 1]]
  <2>1. g[i - 1] \in S /\ i \in Nat
    OBVIOUS
  <2>2. g[i] = step[<< g[i - 1], i >>]
    BY <1>3 DEF Recursion
  <2> QED BY <1>2, <2>1, <2>2
<1>5. Iteration(g, a, next, n)
  BY <1>3, <1>4 DEF Iteration, Recursion
<1> QED BY <1>5

\* f at n follows from f at a smaller number.
Descent(f, a, less, step, n) ==
  f[0] = a /\ \A i \in 1 .. n : f[i] = step[<< f[less[i]], i >>]

LEMMA DescentUpTo ==
  ASSUME NEW S, NEW a \in S, NEW step \in [S \X Nat -> S],
         NEW less \in [Nat -> Nat], \A i \in Nat \ {0} : less[i] < i, NEW n \in Nat
  PROVE  \E f \in [0 .. n -> S] : Descent(f, a, less, step, n)
<1> DEFINE Good == {k \in 0 .. n : \E f \in [0 .. k -> S] : Descent(f, a, less, step, k)}
<1>1. 0 \in Good
  <2> DEFINE f == [i \in 0 .. 0 |-> a]
  <2>1. f \in [0 .. 0 -> S] /\ f[0] = a
    OBVIOUS
  <2> HIDE DEF f
  <2>2. Descent(f, a, less, step, 0) /\ 0 \in 0 .. n
    BY <2>1 DEF Descent
  <2> QED BY <2>1, <2>2
<1>2. ASSUME NEW k \in 1 .. n, k - 1 \in Good PROVE k \in Good
  <2>1. PICK f \in [0 .. k - 1 -> S] : Descent(f, a, less, step, k - 1)
    BY <1>2
  <2> DEFINE h == [i \in 0 .. k |-> IF i = k THEN step[<< f[less[k]], k >>] ELSE f[i]]
  <2>2. \A i \in 1 .. k : less[i] \in 0 .. i - 1
    OBVIOUS
  <2>3. f[less[k]] \in S /\ k \in Nat
    BY <2>2
  <2>4. step[<< f[less[k]], k >>] \in S
    BY <2>3
  <2>5. h \in [0 .. k -> S]
    BY <2>4
  <2>6. /\ \A i \in 0 .. k - 1 : h[i] = f[i]
        /\ h[k] = step[<< f[less[k]], k >>]
    <3>1. \A i \in 0 .. k - 1 : i \in 0 .. k /\ i # k
      OBVIOUS
    <3>2. k \in 0 .. k
      OBVIOUS
    <3> QED BY <3>1, <3>2, Zenon
  <2>7. h[0] = a
    BY <2>1, <2>6 DEF Descent
  <2> HIDE DEF h
  <2>8. ASSUME NEW i \in 1 .. k PROVE h[i] = step[<< h[less[i]], i >>]
    <3>1. h[less[i]] = f[less[i]]
      <4>1. less[i] \in 0 .. k - 1
        BY <2>2
      <4> QED BY <2>6, <4>1
    <3>2. CASE i = k
      BY <2>6, <3>1, <3>2
    <3>3. CASE i # k
      <4>1. i \in 1 .. k - 1 /\ i \in 0 .. k - 1
        BY <3>3
      <4>2. f[i] = step[<< f[less[i]], i >>]
        BY <2>1, <4>1 DEF Descent
      <4> QED BY <2>6, <3>1, <4>1, <4>2
    <3> QED BY <3>2, <3>3
  <2>9. Descent(h, a, less, step, k)
    BY <2>7, <2>8 DEF Descent
  <2> QED BY <2>5, <2>9
<1>3. n \in Good
  <2> HIDE DEF Good
  <2>1. 0 .. n \subseteq Good
    BY <1>1, <1>2, InductionUpTo
  <2> QED BY <2>1
<1> QED BY <1>3

\* Two of them agree as far as both go.
LEMMA DescentUnique ==
  ASSUME NEW a, NEW step, NEW less \in [Nat -> Nat], \A i \in Nat \ {0} : less[i] < i,
         NEW m \in Nat, NEW n \in Nat, m <= n,
         NEW f, Descent(f, a, less, step, m), NEW g, Descent(g, a, less, step, n)
  PROVE  f[m] = g[m]
<1> DEFINE T == {i \in 0 .. m : f[i] # g[i]}
<1> SUFFICES ASSUME T # {} PROVE FALSE
  OBVIOUS
<1>1. PICK x \in T : \A y \in T : x <= y
  <2>1. T \subseteq Nat
    OBVIOUS
  <2> HIDE DEF T
  <2> QED BY <2>1, LeastNat
<1>2. x \in 1 .. m /\ x \in 1 .. n
  BY <1>1 DEF Descent
<1>3. less[x] \in 0 .. m /\ less[x] < x
  BY <1>2
<1>4. f[less[x]] = g[less[x]]
  BY <1>1, <1>3
<1>5. f[x] = step[<< f[less[x]], x >>] /\ g[x] = step[<< g[less[x]], x >>]
  BY <1>2 DEF Descent
<1> QED BY <1>1, <1>4, <1>5

\* There is one on all numbers.
LEMMA DescentExists ==
  ASSUME NEW S, NEW a \in S, NEW step \in [S \X Nat -> S],
         NEW less \in [Nat -> Nat], \A i \in Nat \ {0} : less[i] < i
  PROVE  \E f \in [Nat -> S] : \A n \in Nat : Descent(f, a, less, step, n)
<1> DEFINE Is(f, n) == f \in [0 .. n -> S] /\ Descent(f, a, less, step, n)
           upto == [n \in Nat |-> CHOOSE f : Is(f, n)]
           all == [n \in Nat |-> upto[n][n]]
<1>1. ASSUME NEW n \in Nat PROVE Is(upto[n], n)
  <2>1. \E f : Is(f, n)
    BY DescentUpTo
  <2> HIDE DEF Is
  <2> QED BY <2>1
<1> HIDE DEF upto
<1>2. all \in [Nat -> S]
  <2>1. \A n \in Nat : upto[n][n] \in S
    BY <1>1
  <2> QED BY <2>1
<1>3. \A m, n \in Nat : m <= n => upto[n][m] = all[m]
  <2> SUFFICES ASSUME NEW m \in Nat, NEW n \in Nat, m <= n
               PROVE  upto[m][m] = upto[n][m]
    OBVIOUS
  <2>1. Descent(upto[m], a, less, step, m) /\ Descent(upto[n], a, less, step, n)
    BY <1>1
  <2> QED BY <2>1, DescentUnique
<1>4. ASSUME NEW i \in Nat \ {0} PROVE all[i] = step[<< all[less[i]], i >>]
  <2>1. upto[i][i] = step[<< upto[i][less[i]], i >>]
    <3>1. Descent(upto[i], a, less, step, i) /\ i \in 1 .. i
      BY <1>1
    <3> QED BY <3>1 DEF Descent
  <2>2. less[i] \in Nat /\ less[i] <= i
    OBVIOUS
  <2>3. upto[i][less[i]] = all[less[i]] /\ upto[i][i] = all[i]
    BY <1>3, <2>2
  <2> QED BY <2>1, <2>3
<1>5. all[0] = a
  <2>1. Descent(upto[0], a, less, step, 0)
    BY <1>1
  <2> QED BY <2>1 DEF Descent
<1> HIDE DEF all
<1>6. \A n \in Nat : Descent(all, a, less, step, n)
  BY <1>4, <1>5 DEF Descent
<1> QED BY <1>2, <1>6
=============================================================================
