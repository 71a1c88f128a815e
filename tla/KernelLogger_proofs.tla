------------------------- MODULE KernelLogger_proofs -------------------------
(***************************************************************************)
(* What holds of the texts for every format, every argument and every size *)
(* of the buffer.  The recursive functions of the model exist by           *)
(* RecursionTheorems; Logging carries the place in the format, the         *)
(* arguments that are left and the text through the loop.                  *)
(***************************************************************************)
EXTENDS KernelLogger, SequenceTheorems, RecursionTheorems, TLAPS

-----------------------------------------------------------------------------
\* The conversions.
LEMMA Division ==
  \A v \in Int : v \div 16 \in Int /\ v % 16 \in 0 .. 15 /\ v % 10 \in 0 .. 9
  BY SMT

LEMMA DigitsAreCharacters ==
  \A v \in Int : Digits[(v % 16) + 1] \in Characters /\ Digits[(v % 10) + 1] \in Characters
<1>1. \A i \in 1 .. 16 : Digits[i] \in Characters
  BY LoggerAssumption
<1> SUFFICES ASSUME NEW v \in Int
             PROVE  Digits[(v % 16) + 1] \in Characters /\ Digits[(v % 10) + 1] \in Characters
  OBVIOUS
<1>2. (v % 16) + 1 \in 1 .. 16 /\ (v % 10) + 1 \in 1 .. 16
  BY Division
<1> QED
  BY <1>1, <1>2

\* The function behind int_to_str: the digits of a number are those of its tenth
\* and the last one.
DigitsBy(f) ==
  /\ f[0] = << >>
  /\ \A n \in Nat \ {0} : f[n] = Append(f[n \div 10], Digits[(n % 10) + 1])
  /\ \A value \in Int :
       int_to_str(value) = IF value = 0 THEN << "0" >> ELSE f[IF value > 0 THEN value ELSE 0]

LEMMA DigitsExist == \E f : DigitsBy(f)
<1> DEFINE digits[n \in Nat] ==
             IF n = 0 THEN << >> ELSE Append(digits[n \div 10], Digits[(n % 10) + 1])
           less == [n \in Nat |-> n \div 10]
           step == [x \in Seq(Characters) \X Nat |-> Append(x[1], Digits[(x[2] % 10) + 1])]
<1>1. ASSUME NEW value \in Int
      PROVE  int_to_str(value) =
               IF value = 0 THEN << "0" >> ELSE digits[IF value > 0 THEN value ELSE 0]
  BY Zenon DEF int_to_str
<1> HIDE DEF digits
<1>2. less \in [Nat -> Nat] /\ \A n \in Nat \ {0} : less[n] < n
  BY SMT
<1>3. step \in [Seq(Characters) \X Nat -> Seq(Characters)]
  <2>1. ASSUME NEW s \in Seq(Characters), NEW n \in Nat
        PROVE  Append(s, Digits[(n % 10) + 1]) \in Seq(Characters)
    <3>1. n \in Int
      OBVIOUS
    <3>2. Digits[(n % 10) + 1] \in Characters
      BY <3>1, DigitsAreCharacters
    <3> QED
      BY <3>2
  <2> QED
    BY <2>1
<1>4. << >> \in Seq(Characters)
  OBVIOUS
<1> HIDE DEF less, step
<1>5. PICK f \in [Nat -> Seq(Characters)] : \A n \in Nat : Descent(f, << >>, less, step, n)
  BY <1>2, <1>3, <1>4, DescentExists
<1>6. ASSUME NEW n \in Nat \ {0}
      PROVE  f[n] = Append(f[n \div 10], Digits[(n % 10) + 1]) /\ n \div 10 \in Nat
  <2>1. Descent(f, << >>, less, step, n) /\ n \in 1 .. n
    BY <1>5
  <2>2. f[n] = step[<< f[less[n]], n >>]
    BY <2>1 DEF Descent
  <2>3. less[n] = n \div 10 /\ less[n] \in Nat
    BY <1>2 DEF less
  <2>4. << f[less[n]], n >> \in Seq(Characters) \X Nat
    BY <2>3
  <2> QED
    BY <2>2, <2>3, <2>4 DEF step
<1>7. f[0] = << >>
  <2>1. Descent(f, << >>, less, step, 0)
    BY <1>5
  <2> QED
    BY <2>1 DEF Descent
<1>8. f = [n \in Nat |-> IF n = 0 THEN << >> ELSE Append(f[n \div 10], Digits[(n % 10) + 1])]
  <2>1. ASSUME NEW n \in Nat
        PROVE  f[n] = IF n = 0 THEN << >> ELSE Append(f[n \div 10], Digits[(n % 10) + 1])
    <3>1. CASE n = 0
      BY <1>7, <3>1
    <3>2. CASE n # 0
      BY <1>6, <3>2
    <3> QED
      BY <3>1, <3>2
  <2> QED
    BY <2>1
<1>9. digits = [n \in Nat |-> IF n = 0 THEN << >>
                              ELSE Append(digits[n \div 10], Digits[(n % 10) + 1])]
  BY <1>8 DEF digits
<1>10. \A n \in Nat \ {0} : digits[n] = Append(digits[n \div 10], Digits[(n % 10) + 1])
  BY <1>9
<1>11. digits[0] = << >>
  BY <1>9
<1>12. DigitsBy(digits)
  BY <1>1, <1>10, <1>11 DEF DigitsBy
<1> QED
  BY <1>12

\* A number below 10^k has at most k digits, and an int is below 10^10.
LEMMA DecimalLength ==
  ASSUME NEW value \in Int, value <= IntMax
  PROVE  int_to_str(value) \in Seq(Characters) /\ Len(int_to_str(value)) <= 10
<1>0. PICK digits : DigitsBy(digits)
  BY DigitsExist
<1>1. int_to_str(value) = IF value = 0 THEN << "0" >> ELSE digits[IF value > 0 THEN value ELSE 0]
  BY <1>0 DEF DigitsBy
<1>10. \A n \in Nat \ {0} : digits[n] = Append(digits[n \div 10], Digits[(n % 10) + 1])
  BY <1>0 DEF DigitsBy
<1>11. digits[0] = << >>
  BY <1>0 DEF DigitsBy
<1> DEFINE Short(bound, k) ==
             \A n \in Nat : n < bound => digits[n] \in Seq(Characters) /\ Len(digits[n]) <= k
<1>12. Short(1, 0)
  <2>1. digits[0] \in Seq(Characters) /\ Len(digits[0]) <= 0
    BY <1>11
  <2>2. \A n \in Nat : n < 1 => n = 0
    OBVIOUS
  <2> QED
    BY <2>1, <2>2, Zenon
<1>13. ASSUME NEW bound \in Nat, NEW k \in Nat, Short(bound, k), Short(1, 0)
       PROVE  Short(10 * bound, k + 1)
  <2> SUFFICES ASSUME NEW n \in Nat, n < 10 * bound
               PROVE  digits[n] \in Seq(Characters) /\ Len(digits[n]) <= k + 1
    OBVIOUS
  <2>1. CASE n = 0
    <3>1. digits[n] \in Seq(Characters) /\ Len(digits[n]) <= 0
      BY <1>13, <2>1
    <3> QED
      BY <3>1
  <2>2. CASE n # 0
    <3>1. n \div 10 \in Nat /\ n \div 10 < bound
      BY SMT
    <3>2. digits[n \div 10] \in Seq(Characters) /\ Len(digits[n \div 10]) <= k
      BY <1>13, <3>1
    <3>3. Digits[(n % 10) + 1] \in Characters
      <4>1. n \in Int
        OBVIOUS
      <4> QED
        BY <4>1, DigitsAreCharacters
    <3>4. digits[n] = Append(digits[n \div 10], Digits[(n % 10) + 1])
      BY <1>10, <2>2
    <3> DEFINE most == digits[n \div 10]
               last == Digits[(n % 10) + 1]
    <3>5. most \in Seq(Characters) /\ Len(most) <= k /\ last \in Characters
      BY <3>2, <3>3
    <3>6. digits[n] = Append(most, last)
      BY <3>4
    <3> HIDE DEF most, last
    <3> QED
      BY <3>5, <3>6, AppendProperties
  <2> QED
    BY <2>1, <2>2
<1> HIDE DEF Short
<1>14. Short(IntMax + 1, 10)
  <2>1. Short(10, 1)
    BY <1>13, <1>12, SMT
  <2>2. Short(100, 2)
    BY <1>13, <1>12, <2>1, SMT
  <2>3. Short(1000, 3)
    BY <1>13, <1>12, <2>2, SMT
  <2>4. Short(10000, 4)
    BY <1>13, <1>12, <2>3, SMT
  <2>5. Short(100000, 5)
    BY <1>13, <1>12, <2>4, SMT
  <2>6. Short(1000000, 6)
    BY <1>13, <1>12, <2>5, SMT
  <2>7. Short(10000000, 7)
    BY <1>13, <1>12, <2>6, SMT
  <2>8. Short(100000000, 8)
    BY <1>13, <1>12, <2>7, SMT
  <2>9. Short(1000000000, 9)
    BY <1>13, <1>12, <2>8, SMT
  <2>10. Short(10000000000, 10)
    BY <1>13, <1>12, <2>9, SMT
  <2> QED
    BY <2>10, SMT DEF Short, IntMax
<1>15. CASE value = 0
  BY <1>1, <1>15, LoggerAssumption, SMT
<1>16. CASE value # 0
  <2> DEFINE n == IF value > 0 THEN value ELSE 0
  <2>1. n \in Nat /\ n < IntMax + 1 /\ int_to_str(value) = digits[n]
    BY <1>1, <1>16, SMT DEF IntMax
  <2> HIDE DEF n
  <2> QED
    BY <1>14, <2>1 DEF Short
<1> QED
  BY <1>15, <1>16

\* The function behind to_hex: the number shifted by k digits.
ShiftedBy(f, value, n) ==
  /\ f \in [0 .. n -> Int]
  /\ f[0] = value /\ \A k \in 1 .. n : f[k] = f[k - 1] \div 16
  /\ to_hex(value, n) = << "0", "x" >> \o [i \in 1 .. n |-> Digits[(f[n - i] % 16) + 1]]

LEMMA ShiftedExist ==
  ASSUME NEW value \in Int, NEW n \in Nat
  PROVE  \E f : ShiftedBy(f, value, n)
<1> DEFINE shifted[k \in 0 .. n] == IF k = 0 THEN value ELSE shifted[k - 1] \div 16
           next == [v \in Int |-> v \div 16]
<1>1. to_hex(value, n) = << "0", "x" >> \o [i \in 1 .. n |-> Digits[(shifted[n - i] % 16) + 1]]
  BY Zenon DEF to_hex
<1> HIDE DEF shifted
<1>2. next \in [Int -> Int]
  BY Division
<1> HIDE DEF next
<1>3. PICK g \in [0 .. n -> Int] : Iteration(g, value, next, n)
  BY <1>2, IterationUpTo
<1>4. g = [k \in 0 .. n |-> IF k = 0 THEN value ELSE g[k - 1] \div 16]
  <2>1. ASSUME NEW k \in 0 .. n
        PROVE  g[k] = IF k = 0 THEN value ELSE g[k - 1] \div 16
    <3>1. CASE k = 0
      BY <1>3, <3>1 DEF Iteration
    <3>2. CASE k # 0
      <4>1. k \in 1 .. n /\ k - 1 \in 0 .. n
        BY <3>2
      <4>2. g[k] = next[g[k - 1]] /\ g[k - 1] \in Int
        BY <1>3, <4>1 DEF Iteration
      <4> QED
        BY <3>2, <4>2 DEF next
    <3> QED
      BY <3>1, <3>2
  <2> QED
    BY <2>1
<1>5. shifted = [k \in 0 .. n |-> IF k = 0 THEN value ELSE shifted[k - 1] \div 16]
  BY <1>4 DEF shifted
<1>6. \A k \in 0 .. n : shifted[k] \in Int
  <2> DEFINE S == {k \in 0 .. n : shifted[k] \in Int}
  <2>1. 0 \in S
    BY <1>5
  <2>2. ASSUME NEW k \in 1 .. n, k - 1 \in S PROVE k \in S
    <3>1. shifted[k] = shifted[k - 1] \div 16 /\ k \in 0 .. n
      BY <1>5
    <3>2. shifted[k - 1] \in Int
      BY <2>2
    <3>3. shifted[k - 1] \div 16 \in Int
      BY <3>2, Division, Zenon
    <3> QED
      BY <3>1, <3>3
  <2>3. 0 .. n \subseteq S
    <3> HIDE DEF S
    <3> QED
      BY <2>1, <2>2, InductionUpTo
  <2> QED
    BY <2>3
<1>7. shifted \in [0 .. n -> Int]
  BY <1>5, <1>6
<1>8. shifted[0] = value /\ \A k \in 1 .. n : shifted[k] = shifted[k - 1] \div 16
  BY <1>5
<1>9. ShiftedBy(shifted, value, n)
  BY <1>1, <1>7, <1>8, Zenon DEF ShiftedBy
<1> QED
  BY <1>9

LEMMA HexLength ==
  ASSUME NEW value \in Int, NEW n \in Nat
  PROVE  to_hex(value, n) \in Seq(Characters) /\ Len(to_hex(value, n)) = n + 2
<1>0. PICK shifted : ShiftedBy(shifted, value, n)
  BY ShiftedExist
<1> DEFINE body == [i \in 1 .. n |-> Digits[(shifted[n - i] % 16) + 1]]
<1>1. to_hex(value, n) = << "0", "x" >> \o body
  BY <1>0 DEF ShiftedBy
<1>6. \A k \in 0 .. n : shifted[k] \in Int
  BY <1>0 DEF ShiftedBy
<1>7. ASSUME NEW i \in 1 .. n PROVE Digits[(shifted[n - i] % 16) + 1] \in Characters
  <2>1. shifted[n - i] \in Int
    BY <1>6
  <2> QED
    BY <2>1, DigitsAreCharacters, Zenon
<1>8. body \in Seq(Characters) /\ Len(body) = n
  BY <1>7
<1> HIDE DEF body
<1>9. << "0", "x" >> \in Seq(Characters) /\ Len(<< "0", "x" >>) = 2
  BY LoggerAssumption
<1> QED
  BY <1>1, <1>8, <1>9, ConcatProperties

-----------------------------------------------------------------------------
\* Reading a numeral: the function goes from the digits before to those with
\* one more.
ReadBy(v, s, base, start, number) ==
  /\ v \in [0 .. Len(s) -> Int] /\ v[0] = start /\ v[Len(s)] = number
  /\ \A i \in 1 .. Len(s) : /\ Digit(s[i], base) \in 0 .. base - 1
                             /\ s[i] = Digits[Digit(s[i], base) + 1]
                             /\ v[i] = base * v[i - 1] + Digit(s[i], base)

LEMMA ReadingExists ==
  ASSUME NEW s, Len(s) \in Nat, NEW base \in Nat, Numeral(s, base), NEW start \in Int
  PROVE  \E v : ReadBy(v, s, base, start, Reading(s, base, start))
<1> DEFINE n == Len(s)
           d == [i \in 1 .. n |-> Digit(s[i], base)]
           step == [x \in Int \X Nat |-> IF x[2] \in 1 .. n THEN base * x[1] + d[x[2]] ELSE x[1]]
           f[i \in 0 .. n] == IF i = 0 THEN start ELSE base * f[i - 1] + Digit(s[i], base)
<1>1. ASSUME NEW i \in 1 .. n
      PROVE  Digit(s[i], base) \in 0 .. base - 1 /\ s[i] = Digits[Digit(s[i], base) + 1]
  <2>1. \E e \in 0 .. base - 1 : s[i] = Digits[e + 1]
    BY DEF Numeral
  <2> QED
    BY <2>1, Zenon DEF Digit
<1>2. Reading(s, base, start) = f[n]
  BY Zenon DEF Reading
<1> HIDE DEF f
<1>3. \A i \in 1 .. n : d[i] = Digit(s[i], base) /\ d[i] \in Int
  BY <1>1
<1> HIDE DEF d
<1>4. step \in [Int \X Nat -> Int]
      /\ \A q \in Int, i \in 1 .. n : step[<< q, i >>] = base * q + d[i]
  BY <1>3
<1> HIDE DEF step
<1>5. PICK g \in [0 .. n -> Int] : Recursion(g, start, step, n)
  BY <1>4, RecursionUpTo
<1>6. g[0] = start /\ \A i \in 1 .. n : g[i] = base * g[i - 1] + Digit(s[i], base)
  <2>1. \A i \in 1 .. n : i - 1 \in 0 .. n
    OBVIOUS
  <2>2. \A i \in 1 .. n : g[i - 1] \in Int
    BY <2>1
  <2>3. \A i \in 1 .. n : g[i] = step[<< g[i - 1], i >>]
    BY <1>5 DEF Recursion
  <2>4. \A i \in 1 .. n : g[i] = base * g[i - 1] + d[i]
    BY <1>4, <2>2, <2>3, Zenon
  <2> QED
    BY <1>3, <1>5, <2>4, Zenon DEF Recursion
<1>7. g = [i \in 0 .. n |-> IF i = 0 THEN start ELSE base * g[i - 1] + Digit(s[i], base)]
  <2>1. \A i \in 0 .. n : i = 0 \/ i \in 1 .. n
    OBVIOUS
  <2>2. \A i \in 0 .. n : g[i] = IF i = 0 THEN start ELSE base * g[i - 1] + Digit(s[i], base)
    BY <1>6, <2>1, Zenon
  <2> QED
    BY <1>5, <2>2, Zenon
<1>8. f = [i \in 0 .. n |-> IF i = 0 THEN start ELSE base * f[i - 1] + Digit(s[i], base)]
  BY <1>7, Zenon DEF f
<1>9. f[0] = start /\ \A i \in 1 .. n : f[i] = base * f[i - 1] + Digit(s[i], base)
  <2>1. 0 \in 0 .. n /\ \A i \in 1 .. n : i \in 0 .. n /\ i # 0
    OBVIOUS
  <2> QED
    BY <1>8, <2>1, Zenon
<1>10. \A i \in 0 .. n : f[i] = g[i]
  <2> DEFINE T == {i \in 0 .. n : f[i] = g[i]}
  <2>1. 0 \in T
    BY <1>6, <1>9
  <2>2. ASSUME NEW i \in 1 .. n, i - 1 \in T PROVE i \in T
    <3>1. f[i] = g[i]
      BY <1>6, <1>9, <2>2, Zenon
    <3> QED
      BY <3>1
  <2> HIDE DEF T
  <2>3. 0 .. n \subseteq T
    BY <2>1, <2>2, InductionUpTo
  <2> QED
    BY <2>3 DEF T
<1>11. f \in [0 .. n -> Int]
  <2>1. \A i \in 0 .. n : f[i] \in Int
    BY <1>10
  <2> QED
    BY <1>8, <2>1, Zenon
<1>12. ReadBy(f, s, base, start, Reading(s, base, start))
  BY <1>1, <1>2, <1>9, <1>11, Zenon DEF ReadBy
<1> QED
  BY <1>12

\* to_hex takes from the right what the reader puts together from the left; so
\* it makes the only n digits that read as the number.
LEMMA HexRight ==
  ASSUME NEW value \in Int, NEW n \in Nat, NEW s \in Seq(Characters), IsHex(s, n, value)
  PROVE  s = to_hex(value, n)
<1> DEFINE t == SubSeq(s, 3, Len(s))
           start == IF value < 0 THEN -1 ELSE 0
<1>1. /\ s = << "0", "x" >> \o t /\ Len(t) = n /\ Numeral(t, 16)
      /\ Reading(t, 16, start) = value
  BY Zenon DEF IsHex
<1>2. t = [i \in 1 .. n |-> t[i]]
  <2>1. Len(s) \in Int /\ 3 \in Int
    OBVIOUS
  <2>2. \A i \in 3 .. Len(s) : s[i] \in Characters
    OBVIOUS
  <2>3. t \in Seq(Characters)
    BY <2>1, <2>2, SubSeqProperties
  <2> HIDE DEF t
  <2> QED
    BY <1>1, <2>3
<1>3. start \in Int
  OBVIOUS
<1> HIDE DEF t, start
<1>4. PICK v : ReadBy(v, t, 16, start, value)
  <2>1. Len(t) \in Nat /\ 16 \in Nat
    BY <1>1
  <2> QED
    BY <1>1, <1>3, <2>1, ReadingExists
<1>5. PICK f : ShiftedBy(f, value, n)
  BY ShiftedExist
<1>6. ASSUME NEW i \in 1 .. n
      PROVE  /\ v[i] \in Int /\ v[i - 1] \in Int
             /\ v[i] \div 16 = v[i - 1] /\ t[i] = Digits[(v[i] % 16) + 1]
  <2>1. /\ Digit(t[i], 16) \in 0 .. 15 /\ t[i] = Digits[Digit(t[i], 16) + 1]
        /\ v[i] = 16 * v[i - 1] + Digit(t[i], 16)
    BY <1>1, <1>4 DEF ReadBy
  <2>2. v[i] \in Int /\ v[i - 1] \in Int
    BY <1>1, <1>4 DEF ReadBy
  <2>3. \A q \in Int, d \in 0 .. 15 : (16 * q + d) \div 16 = q /\ (16 * q + d) % 16 = d
    BY SMT
  <2>4. v[i] \div 16 = v[i - 1] /\ v[i] % 16 = Digit(t[i], 16)
    BY <2>1, <2>2, <2>3, Zenon
  <2> QED
    BY <2>1, <2>2, <2>4, Zenon
<1>7. \A k \in 0 .. n : f[k] = v[n - k]
  <2> DEFINE T == {k \in 0 .. n : f[k] = v[n - k]}
  <2>1. 0 \in T
    BY <1>1, <1>4, <1>5 DEF ReadBy, ShiftedBy
  <2>2. ASSUME NEW k \in 1 .. n, k - 1 \in T PROVE k \in T
    <3>1. f[k] = f[k - 1] \div 16
      BY <1>5 DEF ShiftedBy
    <3>2. f[k - 1] = v[n - k + 1]
      <4>1. f[k - 1] = v[n - (k - 1)]
        BY <2>2
      <4>2. n - (k - 1) = n - k + 1
        OBVIOUS
      <4> QED
        BY <4>1, <4>2, Zenon
    <3>3. v[n - k + 1] \div 16 = v[n - k]
      <4> DEFINE m == n - k + 1
      <4>1. m \in 1 .. n /\ m - 1 = n - k
        OBVIOUS
      <4> HIDE DEF m
      <4>2. v[m] \div 16 = v[m - 1]
        BY <1>6, <4>1
      <4> QED
        BY <4>1, <4>2 DEF m
    <3> QED
      BY <3>1, <3>2, <3>3
  <2> HIDE DEF T
  <2>3. 0 .. n \subseteq T
    BY <2>1, <2>2, InductionUpTo
  <2> QED
    BY <2>3 DEF T
<1>8. \A i \in 1 .. n : Digits[(f[n - i] % 16) + 1] = t[i]
  <2>1. \A i \in 1 .. n : n - i \in 0 .. n /\ n - (n - i) = i
    OBVIOUS
  <2> QED
    BY <1>6, <1>7, <2>1, Zenon
<1>9. t = [i \in 1 .. n |-> Digits[(f[n - i] % 16) + 1]]
  BY <1>2, <1>8, Zenon
<1> QED
  BY <1>1, <1>5, <1>9, Zenon DEF ShiftedBy

\* Likewise int_to_str: the first i digits are those of what they read as, which
\* is never zero since the first digit is not.
LEMMA DecimalRight ==
  ASSUME NEW value \in Nat, NEW s \in Seq(Characters), IsDecimal(s, value)
  PROVE  s = int_to_str(value)
<1> DEFINE n == Len(s)
<1>0. n \in Nat /\ n >= 1
  BY DEF IsDecimal
<1>1. Numeral(s, 10) /\ Reading(s, 10, 0) = value /\ (n > 1 => s[1] # "0")
  BY DEF IsDecimal
<1>2. PICK v : ReadBy(v, s, 10, 0, value)
  <2>1. 10 \in Nat /\ 0 \in Int
    OBVIOUS
  <2> QED
    BY <1>0, <1>1, <2>1, ReadingExists
<1>3. PICK f : DigitsBy(f)
  BY DigitsExist
<1>4. ASSUME NEW i \in 1 .. n
      PROVE  /\ Digit(s[i], 10) \in 0 .. 9 /\ s[i] = Digits[Digit(s[i], 10) + 1]
             /\ v[i] = 10 * v[i - 1] + Digit(s[i], 10) /\ v[i] \in Int /\ v[i - 1] \in Int
  BY <1>2 DEF ReadBy
<1>5. v[0] = 0 /\ v[n] = value
  BY <1>2 DEF ReadBy
<1>6. Digits[1] = "0"
  BY DEF Digits
<1>10. SubSeq(s, 1, 0) = << >> /\ SubSeq(s, 1, n) = s
       /\ \A i \in 1 .. n : Append(SubSeq(s, 1, i - 1), s[i]) = SubSeq(s, 1, i)
  OBVIOUS
<1>11. \A q \in Int, d \in 0 .. 9 : (10 * q + d) \div 10 = q /\ (10 * q + d) % 10 = d
  BY SMT
<1> HIDE DEF n
<1>7. CASE n > 1 \/ value # 0
  <2>1. v[1] > 0
    <3>1. 1 \in 1 .. n /\ 1 - 1 = 0
      BY <1>0
    <3>2. v[1] = Digit(s[1], 10) /\ Digit(s[1], 10) \in 0 .. 9 /\ s[1] = Digits[Digit(s[1], 10) + 1]
      BY <1>4, <1>5, <3>1
    <3>3. CASE n > 1
      <4>1. Digit(s[1], 10) # 0
        <5> SUFFICES ASSUME Digit(s[1], 10) = 0 PROVE FALSE
          OBVIOUS
        <5>1. s[1] = Digits[0 + 1] /\ 0 + 1 = 1
          BY <3>2
        <5> QED
          BY <1>1, <1>6, <3>3, <5>1, Zenon
      <4> QED
        BY <3>2, <4>1
    <3>4. CASE n = 1
      BY <1>5, <1>7, <3>2, <3>4
    <3> QED
      <4>1. n > 1 \/ n = 1
        BY <1>0
      <4> QED
        BY <3>3, <3>4, <4>1
  <2> DEFINE T == {i \in 0 .. n : /\ i > 0 => v[i] \in Nat /\ v[i] > 0
                                  /\ f[v[i]] = SubSeq(s, 1, i)}
  <2> HIDE DEF T
  <2>2. 0 \in T
    <3>1. f[v[0]] = << >>
      BY <1>3, <1>5 DEF DigitsBy
    <3>2. 0 \in 0 .. n /\ ~(0 > 0)
      BY <1>0
    <3> QED
      BY <1>10, <3>1, <3>2, Zenon DEF T
  <2>3. ASSUME NEW i \in 1 .. n, i - 1 \in T PROVE i \in T
    <3>0. /\ i - 1 > 0 => v[i - 1] \in Nat /\ v[i - 1] > 0
          /\ f[v[i - 1]] = SubSeq(s, 1, i - 1)
      BY <2>3, Zenon DEF T
    <3>1. v[i - 1] \in Nat
      <4>1. i - 1 = 0 \/ i - 1 > 0
        BY <1>0
      <4> QED
        BY <1>5, <3>0, <4>1
    <3>2. v[i] \in Nat \ {0}
      <4>1. CASE i = 1
        BY <1>4, <2>1, <4>1
      <4>2. CASE i # 1
        <5>1. v[i - 1] > 0
          BY <1>0, <3>0, <4>2
        <5> DEFINE a == v[i]
                   b == v[i - 1]
                   d == Digit(s[i], 10)
        <5>2. a = 10 * b + d /\ a \in Int /\ b \in Int /\ d \in 0 .. 9 /\ b > 0
          BY <1>4, <5>1
        <5> HIDE DEF a, b, d
        <5>4. a > 0
          BY <5>2
        <5>3. v[i] > 0
          BY <5>4 DEF a
        <5> QED
          BY <1>4, <5>3
      <4> QED
        BY <4>1, <4>2
    <3>3. f[v[i]] = Append(f[v[i] \div 10], Digits[(v[i] % 10) + 1])
      BY <1>3, <3>2 DEF DigitsBy
    <3>4. v[i] \div 10 = v[i - 1] /\ v[i] % 10 = Digit(s[i], 10)
      <4>1. /\ v[i] = 10 * v[i - 1] + Digit(s[i], 10) /\ v[i - 1] \in Int
            /\ Digit(s[i], 10) \in 0 .. 9
        BY <1>4
      <4> QED
        BY <1>11, <4>1, Zenon
    <3>5. f[v[i]] = Append(SubSeq(s, 1, i - 1), s[i])
      BY <1>4, <3>0, <3>3, <3>4, Zenon
    <3>6. v[i] \in Nat /\ v[i] > 0 /\ i \in 0 .. n
      BY <1>0, <3>2
    <3> QED
      BY <1>10, <3>5, <3>6, Zenon DEF T
  <2>4. 0 .. n \subseteq T
    BY <1>0, <2>2, <2>3, InductionUpTo
  <2>5. n \in T
    BY <1>0, <2>4
  <2>6. value > 0 /\ f[value] = SubSeq(s, 1, n)
    <3>1. n > 0
      BY <1>0
    <3> QED
      BY <1>5, <2>5, <3>1, Zenon DEF T
  <2>7. int_to_str(value) = f[value]
    <3>1. value \in Int /\ value # 0
      BY <2>6
    <3> QED
      BY <1>3, <2>6, <3>1, Zenon DEF DigitsBy
  <2> QED
    BY <1>10, <2>6, <2>7, Zenon
<1>8. CASE n = 1 /\ value = 0
  <2>1. 1 \in 1 .. n /\ 1 - 1 = 0
    BY <1>0
  <2>2. Digit(s[1], 10) = 0
    BY <1>4, <1>5, <1>8, <2>1
  <2>3. s[1] = Digits[0 + 1] /\ 0 + 1 = 1
    BY <1>4, <2>1, <2>2
  <2>4. s[1] = "0"
    BY <1>6, <2>3, Zenon
  <2>5. s = << "0" >>
    BY <1>8, <2>4 DEF n
  <2>6. int_to_str(value) = << "0" >>
    BY <1>3, <1>8 DEF DigitsBy
  <2> QED
    BY <2>5, <2>6
<1> QED
  BY <1>0, <1>7, <1>8

-----------------------------------------------------------------------------
\* Concat, part by part.
Upto(parts) ==
  LET f[i \in 0 .. Len(parts)] == IF i = 0 THEN << >> ELSE f[i - 1] \o parts[i]
  IN  f

Joined(u, S, n, parts) ==
  /\ u \in [0 .. n -> Seq(S)]
  /\ u[0] = << >>
  /\ \A i \in 1 .. n : u[i] = u[i - 1] \o parts[i]

LEMMA UptoParts ==
  ASSUME NEW S, NEW n \in Nat, NEW parts \in [1 .. n -> Seq(S)]
  PROVE  Joined(Upto(parts), S, n, parts) /\ Concat(parts) = Upto(parts)[n]
<1> DEFINE f[i \in 0 .. Len(parts)] == IF i = 0 THEN << >> ELSE f[i - 1] \o parts[i]
           step == [x \in Seq(S) \X Nat |-> IF x[2] \in 1 .. n THEN x[1] \o parts[x[2]] ELSE x[1]]
<1>1. Upto(parts) = f /\ Concat(parts) = f[Len(parts)]
  BY Zenon DEF Upto, Concat
<1>2. Len(parts) = n
  OBVIOUS
<1> HIDE DEF f
<1>3. step \in [Seq(S) \X Nat -> Seq(S)]
  <2>1. ASSUME NEW s \in Seq(S), NEW i \in 1 .. n PROVE s \o parts[i] \in Seq(S)
    <3>1. parts[i] \in Seq(S)
      OBVIOUS
    <3> QED
      BY <3>1, ConcatProperties
  <2> QED
    BY <2>1
<1>4. ASSUME NEW s \in Seq(S), NEW i \in 1 .. n PROVE step[<< s, i >>] = s \o parts[i]
  <2>1. << s, i >> \in Seq(S) \X Nat
    OBVIOUS
  <2> QED
    BY <2>1
<1>5. << >> \in Seq(S)
  OBVIOUS
<1> HIDE DEF step
<1>6. PICK g \in [0 .. n -> Seq(S)] : Recursion(g, << >>, step, n)
  BY <1>3, <1>5, RecursionUpTo
<1>7. g[0] = << >> /\ \A i \in 1 .. n : g[i] = g[i - 1] \o parts[i]
  <2>1. g[0] = << >> /\ \A i \in 1 .. n : g[i] = step[<< g[i - 1], i >>]
    BY <1>6 DEF Recursion
  <2>2. \A i \in 1 .. n : g[i - 1] \in Seq(S)
    <3>1. \A i \in 1 .. n : i - 1 \in 0 .. n
      OBVIOUS
    <3> QED
      BY <3>1
  <2> QED
    BY <1>4, <2>1, <2>2, Zenon
<1>8. g = [i \in 0 .. Len(parts) |-> IF i = 0 THEN << >> ELSE g[i - 1] \o parts[i]]
  <2>1. ASSUME NEW i \in 0 .. n
        PROVE  g[i] = IF i = 0 THEN << >> ELSE g[i - 1] \o parts[i]
    <3>1. i = 0 \/ i \in 1 .. n
      OBVIOUS
    <3> QED
      BY <1>7, <3>1, Zenon
  <2>2. \A i \in 0 .. n : g[i] = IF i = 0 THEN << >> ELSE g[i - 1] \o parts[i]
    BY <2>1
  <2> QED
    BY <1>2, <2>2, Zenon
<1>9. f = [i \in 0 .. Len(parts) |-> IF i = 0 THEN << >> ELSE f[i - 1] \o parts[i]]
  BY <1>8, Zenon DEF f
<1>10. f[0] = << >> /\ \A i \in 1 .. n : f[i] = f[i - 1] \o parts[i]
  <2>1. \A i \in 1 .. n : i \in 0 .. n /\ i # 0
    OBVIOUS
  <2>2. 0 \in 0 .. n
    OBVIOUS
  <2> QED
    BY <1>2, <1>9, <2>1, <2>2, Zenon
<1>11. \A i \in 0 .. n : f[i] \in Seq(S)
  <2> DEFINE T == {i \in 0 .. n : f[i] \in Seq(S)}
  <2>1. 0 \in T
    <3>1. f[0] \in Seq(S) /\ 0 \in 0 .. n
      BY <1>5, <1>10
    <3> QED
      BY <3>1
  <2>2. ASSUME NEW i \in 1 .. n, i - 1 \in T PROVE i \in T
    <3>1. parts[i] \in Seq(S) /\ f[i - 1] \in Seq(S) /\ i \in 0 .. n
      BY <2>2
    <3>2. f[i] = f[i - 1] \o parts[i]
      BY <1>10
    <3> DEFINE a == f[i - 1]
               b == parts[i]
    <3>3. a \in Seq(S) /\ b \in Seq(S) /\ f[i] = a \o b
      BY <3>1, <3>2
    <3> HIDE DEF a, b
    <3>4. f[i] \in Seq(S)
      BY <3>3, ConcatProperties
    <3> QED
      BY <3>1, <3>4
  <2>3. 0 .. n \subseteq T
    <3> HIDE DEF T
    <3> QED
      BY <2>1, <2>2, InductionUpTo
  <2> QED
    BY <2>3
<1>12. f \in [0 .. n -> Seq(S)]
  <2>1. DOMAIN f = 0 .. n /\ f = [i \in 0 .. n |-> f[i]]
    <3>1. f = [i \in 0 .. n |-> IF i = 0 THEN << >> ELSE f[i - 1] \o parts[i]]
      BY <1>2, <1>9
    <3> QED
      BY <3>1, Zenon
  <2> QED
    BY <1>11, <2>1, Zenon
<1> QED
  BY <1>1, <1>2, <1>10, <1>12 DEF Joined

\* What is joined first stays where it is.
Begins(s, t) == Len(s) <= Len(t) /\ \A m \in 1 .. Len(s) : t[m] = s[m]

LEMMA UptoPrefix ==
  ASSUME NEW S, NEW n \in Nat, NEW parts, NEW U, Joined(U, S, n, parts), NEW i \in 0 .. n,
         parts \in [1 .. n -> Seq(S)]
  PROVE  \A j \in i .. n : Begins(U[i], U[j])
<1> DEFINE Kept(j) == j >= i => /\ Len(U[i]) <= Len(U[j])
                                /\ \A m \in 1 .. Len(U[i]) : U[j][m] = U[i][m]
           T == {j \in 0 .. n : Kept(j)}
<1>1. /\ U \in [0 .. n -> Seq(S)]
      /\ \A j \in 1 .. n : U[j] = U[j - 1] \o parts[j]
  BY DEF Joined
<1>2. U[i] \in Seq(S)
  BY <1>1
<1>3. 0 \in T
  <2>1. 0 >= i => i = 0
    OBVIOUS
  <2>2. Len(U[i]) <= Len(U[i])
    BY <1>2
  <2> QED
    BY <2>1, <2>2
<1>4. ASSUME NEW j \in 1 .. n, j - 1 \in T PROVE j \in T
  <2>1. CASE i = j
    BY <1>2, <2>1
  <2>2. CASE j < i
    BY <2>2
  <2>3. CASE i < j
    <3> DEFINE a == U[j - 1]
               b == parts[j]
    <3>1. a \in Seq(S) /\ b \in Seq(S) /\ U[j] = a \o b
      <4>1. j - 1 \in 0 .. n
        OBVIOUS
      <4> QED
        BY <1>1, <4>1
    <3>2. Len(U[i]) <= Len(a) /\ \A m \in 1 .. Len(U[i]) : a[m] = U[i][m]
      BY <1>4, <2>3
    <3> HIDE DEF a, b
    <3>3. Len(U[j]) = Len(a) + Len(b) /\ \A m \in 1 .. Len(a) : U[j][m] = a[m]
      BY <3>1, ConcatProperties
    <3>4. Len(a) \in Nat /\ Len(b) \in Nat /\ Len(U[i]) \in Nat
      BY <1>2, <3>1
    <3>5. Len(U[i]) <= Len(U[j]) /\ \A m \in 1 .. Len(U[i]) : U[j][m] = U[i][m]
      <4>1. \A m \in 1 .. Len(U[i]) : m \in 1 .. Len(a)
        BY <3>2, <3>4
      <4>2. Len(U[i]) <= Len(U[j])
        BY <3>2, <3>3, <3>4
      <4> QED
        BY <3>2, <3>3, <4>1, <4>2, Zenon
    <3> QED
      BY <3>5
  <2> QED
    BY <2>1, <2>2, <2>3
<1>5. 0 .. n \subseteq T
  <2> HIDE DEF T
  <2> QED
    BY <1>3, <1>4, InductionUpTo
<1>6. \A j \in i .. n : Kept(j) /\ j >= i
  <2>1. \A j \in i .. n : j \in 0 .. n /\ j >= i
    OBVIOUS
  <2> QED
    BY <1>5, <2>1
<1> QED
  BY <1>6 DEF Begins

\* The part after k in the whole.
Placed(U, n, k, part) ==
  /\ U[k + 1] = U[k] \o part
  /\ Len(U[k]) \in Nat
  /\ Len(U[k + 1]) = Len(U[k]) + Len(part)
  /\ Len(U[k + 1]) <= Len(U[n])
  /\ \A j \in 1 .. Len(part) : U[n][Len(U[k]) + j] = part[j]

LEMMA UptoNext ==
  ASSUME NEW S, NEW n \in Nat, NEW parts, NEW U, Joined(U, S, n, parts),
         parts \in [1 .. n -> Seq(S)], NEW k \in 0 .. n, k < n
  PROVE  Placed(U, n, k, parts[k + 1])
<1> DEFINE a == U[k]
           b == parts[k + 1]
<1>1. k + 1 \in 1 .. n /\ k + 1 \in 0 .. n /\ n \in k + 1 .. n /\ (k + 1) - 1 = k
  OBVIOUS
<1>2. a \in Seq(S) /\ b \in Seq(S) /\ U[k + 1] = a \o b
  BY <1>1 DEF Joined
<1>3. Begins(U[k + 1], U[n])
  BY <1>1, UptoPrefix
<1> HIDE DEF a, b
<1>4. /\ Len(U[k + 1]) = Len(a) + Len(b)
      /\ \A m \in 1 .. Len(a) + Len(b) : U[k + 1][m] = IF m <= Len(a) THEN a[m] ELSE b[m - Len(a)]
  BY <1>2, ConcatProperties
<1>5. Len(a) \in Nat /\ Len(b) \in Nat
  BY <1>2
<1>6. ASSUME NEW j \in 1 .. Len(b) PROVE U[n][Len(a) + j] = b[j]
  <2> DEFINE m == Len(a) + j
  <2>1. m \in 1 .. Len(a) + Len(b) /\ ~(m <= Len(a)) /\ m - Len(a) = j
    BY <1>5
  <2> HIDE DEF m
  <2>2. U[k + 1][m] = b[j]
    BY <1>4, <2>1
  <2>3. U[n][m] = U[k + 1][m]
    BY <1>3, <1>4, <2>1 DEF Begins
  <2> QED
    BY <2>2, <2>3 DEF m
<1> QED
  BY <1>2, <1>3, <1>4, <1>5, <1>6 DEF a, b, Begins, Placed

-----------------------------------------------------------------------------
\* What a piece contributes to the format and to the arguments.
PartFormat(p) == IF p.directive = "" THEN p.arg ELSE << "%", p.directive >>
PartArguments(p) == IF p.directive \in {"", "%"} THEN << >> ELSE << p.arg >>

Formats(ps) == [i \in 1 .. Len(ps) |-> PartFormat(ps[i])]
ArgumentLists(ps) == [i \in 1 .. Len(ps) |-> PartArguments(ps[i])]
Texts(ps) == [i \in 1 .. Len(ps) |-> ps[i].shown]

Values == {p.arg : p \in Pieces}

LEMMA StringsOfCharacters ==
  ASSUME NEW s \in Strings
  PROVE  s \in Seq(Characters)
<1>1. s \in Seq(Characters \ {NUL})
  BY DEF Strings
<1>2. Len(s) \in Nat /\ s = [i \in 1 .. Len(s) |-> s[i]] /\ \A i \in 1 .. Len(s) : s[i] \in Characters
  BY <1>1
<1> QED
  BY <1>2

\* A negative int has no digits.
LEMMA NegativeGone ==
  ASSUME NEW value \in Int, ~(value >= 0)
  PROVE  int_to_str(value) = << >>
<1>1. PICK digits : DigitsBy(digits)
  BY DigitsExist
<1>2. int_to_str(value) = IF value = 0 THEN << "0" >> ELSE digits[IF value > 0 THEN value ELSE 0]
  BY <1>1 DEF DigitsBy
<1>3. digits[0] = << >>
  BY <1>1 DEF DigitsBy
<1>4. value # 0 /\ ~(value > 0)
  OBVIOUS
<1> QED
  BY <1>2, <1>3, <1>4

\* What is shown for a piece is what its conversion makes of the argument.
ConversionsRight ==
  \A p \in Pieces :
    /\ p.directive \in {"", "s", "c"} => p.shown = p.arg
    /\ p.directive = "u" => p.shown = int_to_str(p.arg)
    /\ p.directive = "x" => p.shown = to_hex(p.arg, 8)
    /\ p.directive = "p" => p.shown = to_hex(p.arg, 16)
    /\ p.directive = "%" => p.shown = << "%" >>

\* It is, since only one numeral reads as the argument.
LEMMA ConversionsAreRight == ConversionsRight
<1> SUFFICES ASSUME NEW p \in Pieces
             PROVE  /\ p.directive \in {"", "s", "c"} => p.shown = p.arg
                    /\ p.directive = "u" => p.shown = int_to_str(p.arg)
                    /\ p.directive = "x" => p.shown = to_hex(p.arg, 8)
                    /\ p.directive = "p" => p.shown = to_hex(p.arg, 16)
                    /\ p.directive = "%" => p.shown = << "%" >>
  BY DEF ConversionsRight
<1>1. /\ p.shown \in Seq(Characters)
      /\ p.directive \in {"", "s", "c"} => p.shown = p.arg
      /\ p.directive = "u" => /\ p.arg \in -IntMax - 1 .. IntMax
                              /\ p.arg >= 0 => IsDecimal(p.shown, p.arg)
                              /\ ~(p.arg >= 0) => p.shown = << >>
      /\ p.directive = "x" => p.arg \in -IntMax - 1 .. IntMax /\ IsHex(p.shown, 8, p.arg)
      /\ p.directive = "p" => p.arg \in Nat /\ IsHex(p.shown, 16, p.arg)
      /\ p.directive = "%" => p.shown = << "%" >>
  BY LoggerAssumption, StringsOfCharacters DEF PiecesOK
<1>2. IntMax \in Int
  BY SMT DEF IntMax
<1>3. ASSUME p.directive = "u" PROVE p.shown = int_to_str(p.arg)
  <2>1. p.arg \in Int
    BY <1>1, <1>2, <1>3
  <2>2. CASE p.arg >= 0
    <3>1. p.arg \in Nat
      BY <2>1, <2>2
    <3> QED
      BY <1>1, <1>3, <2>2, <3>1, DecimalRight
  <2>3. CASE ~(p.arg >= 0)
    BY <1>1, <1>3, <2>1, <2>3, NegativeGone
  <2> QED
    BY <2>2, <2>3
<1>4. ASSUME p.directive = "x" PROVE p.shown = to_hex(p.arg, 8)
  <2>1. p.arg \in Int /\ 8 \in Nat
    BY <1>1, <1>2, <1>4
  <2> QED
    BY <1>1, <1>4, <2>1, HexRight
<1>5. ASSUME p.directive = "p" PROVE p.shown = to_hex(p.arg, 16)
  <2>1. p.arg \in Int /\ 16 \in Nat
    BY <1>1, <1>5
  <2> QED
    BY <1>1, <1>5, <2>1, HexRight
<1> QED
  BY <1>1, <1>3, <1>4, <1>5

\* The part of s that fits.
Cut(s) == SubSeq(s, 1, IF Len(s) < MAX_TEXT_LENGTH THEN Len(s) ELSE MAX_TEXT_LENGTH - 1)

Fits(s) == s \in Seq(Characters) /\ Len(s) < MAX_TEXT_LENGTH

\* The loop has made no round yet.
Fresh == idx_input = 1 /\ output = << >>

Typed ==
  /\ pieces \in Seq(Pieces) /\ pieces # << >>
  /\ pass \in {"log", "uart", "sent", "abort"}
  /\ input \in Seq(Characters)
  /\ idx_input \in 1 .. Len(input) + 1
  /\ Fits(output) /\ Fits(text)
  /\ terminated \in BOOLEAN /\ (terminated \/ Fresh)
  /\ overrun \subseteq {<< 10, 10 >>, << 18, 18 >>}

\* The place behind piece k in the format and in the arguments, and the text so far.
FormatTo(ps, k) == Len(Upto(Formats(ps))[k])
ArgumentsTo(ps, k) == Len(Upto(ArgumentLists(ps))[k])
TextTo(ps, k) == Upto(Texts(ps))[k]

\* The arguments that are left are those of the pieces behind k.
Left(ps, k, args) ==
  /\ args \in Seq(Values) /\ Len(args) = Len(Arguments(ps)) - ArgumentsTo(ps, k)
  /\ \A j \in 1 .. Len(args) : args[j] = Arguments(ps)[ArgumentsTo(ps, k) + j]

\* The loop is behind piece k, and the output is the text so far, as far as it fits.
Behind(k) ==
  /\ idx_input = FormatTo(pieces, k) + 1
  /\ Left(pieces, k, va_list)
  /\ ConversionsRight => output = Cut(TextTo(pieces, k))

Logged ==
  pass = "log" =>
    /\ text = << >> /\ input = Format(pieces)
    /\ \E k \in 0 .. Len(pieces) : Behind(k)

\* No % is among the first n characters of the text.
Plain(n) == \A i \in 1 .. n : text[i] # "%"

\* The number of % right before place k of s is even: they are read in pairs.
EvenBefore(s, k) ==
  \E n \in Nat : /\ 2 * n < k
                 /\ Percents(s, k - 2 * n, k - 1)
                 /\ 2 * n + 1 < k => s[k - 2 * n - 1] # "%"

\* The UART's pass has read the text and nothing else, or stepped over its end.
Within ==
  \/ input = text /\ (pass = "uart" => EvenBefore(text, idx_input))
  \/ terminated /\ EndsInHalfADirective(text) /\ Begins(text, input)

\* The first n characters of the text are copied before anything else happens.
Copied(n) ==
  /\ pass = "abort" => n < Len(text)
  /\ pass = "uart" => /\ \A i \in 1 .. n : i <= Len(output) => output[i] = text[i]
                      /\ IF idx_input <= n THEN Len(output) = idx_input - 1 ELSE Len(output) >= n
                      /\ idx_input = n + 1 => Len(output) = n
  /\ pass = "sent" => /\ n <= Len(sent) /\ SubSeq(sent, 1, n) = SubSeq(text, 1, n)
                      /\ n = Len(text) => sent = text

Repeating ==
  pass # "log" =>
    /\ va_list = << >>
    /\ ConversionsRight => text = Expected
    /\ Within
    /\ text = << >> => ~terminated
    /\ \A n \in 1 .. Len(text) : Plain(n) => Copied(n)

Logging == Typed /\ Logged /\ Repeating

LEMMA PieceFacts ==
  ASSUME NEW p \in Pieces
  PROVE  /\ PartFormat(p) \in Seq(Characters) /\ PartArguments(p) \in Seq(Values)
         /\ p.shown \in Seq(Characters)
         /\ p.directive \in {"", "s", "c", "u", "x", "p", "%"}
         /\ p.directive = "" => /\ Len(PartFormat(p)) = 1 /\ PartFormat(p)[1] # "%"
                                /\ PartFormat(p) = p.arg
         /\ p.directive # "" => /\ Len(PartFormat(p)) = 2
                                /\ PartFormat(p)[1] = "%" /\ PartFormat(p)[2] = p.directive
         /\ p.directive \in {"", "%"} => Len(PartArguments(p)) = 0
         /\ p.directive \notin {"", "%"} => Len(PartArguments(p)) = 1 /\ PartArguments(p)[1] = p.arg
         /\ p.directive \in {"s", "c"} => p.arg \in Seq(Characters)
         /\ p.directive \in {"u", "x"} => p.arg \in Int /\ p.arg <= IntMax
         /\ p.directive = "p" => p.arg \in Int
<1>1. /\ p.shown \in Seq(Characters)
      /\ \/ p.directive = "" /\ p.arg \in Seq(Characters) /\ Len(p.arg) = 1 /\ p.arg[1] # "%"
         \/ p.directive = "s" /\ p.arg \in Seq(Characters)
         \/ p.directive = "c" /\ p.arg \in Seq(Characters) /\ Len(p.arg) <= 1
         \/ p.directive \in {"u", "x"} /\ p.arg \in -IntMax - 1 .. IntMax
         \/ p.directive = "p" /\ p.arg \in Nat
         \/ p.directive = "%"
  BY LoggerAssumption, StringsOfCharacters DEF PiecesOK
<1>2. p.directive \in {"", "s", "c", "u", "x", "p", "%"}
  BY <1>1
<1>3. p.arg \in Values
  BY DEF Values
<1>4. IntMax \in Int
  BY SMT DEF IntMax
<1>8. /\ p.directive \in {"s", "c"} => p.arg \in Seq(Characters)
      /\ p.directive \in {"u", "x"} => p.arg \in Int /\ p.arg <= IntMax
      /\ p.directive = "p" => p.arg \in Int
  <2>1. p.arg \in -IntMax - 1 .. IntMax => p.arg \in Int /\ p.arg <= IntMax
    BY <1>4
  <2>2. p.directive \in {"s", "c"} => p.arg \in Seq(Characters)
    BY <1>1
  <2>3. p.directive \in {"u", "x"} => p.arg \in -IntMax - 1 .. IntMax
    BY <1>1
  <2>4. p.directive = "p" => p.arg \in Nat
    BY <1>1
  <2> QED
    BY <2>1, <2>2, <2>3, <2>4
<1>5. "%" \in Characters /\ \A d \in {"s", "c", "u", "x", "p", "%"} : d \in Characters
  BY LoggerAssumption
<1>6. CASE p.directive = ""
  <2>1. PartFormat(p) = p.arg /\ PartArguments(p) = << >>
    BY <1>6 DEF PartFormat, PartArguments
  <2>2. PartArguments(p) \in Seq(Values) /\ Len(PartArguments(p)) = 0
    BY <2>1
  <2>3. Len(PartFormat(p)) = 1 /\ PartFormat(p)[1] # "%" /\ PartFormat(p) \in Seq(Characters)
    BY <1>1, <1>6, <2>1
  <2> QED
    BY <1>1, <1>2, <1>6, <1>8, <2>1, <2>2, <2>3
<1>7. CASE p.directive # ""
  <2>1. p.directive \in Characters /\ PartFormat(p) = << "%", p.directive >>
    BY <1>2, <1>5, <1>7 DEF PartFormat
  <2>2. CASE p.directive = "%"
    <3>1. PartArguments(p) = << >>
      BY <2>2 DEF PartArguments
    <3> QED
      BY <1>1, <1>5, <1>8, <2>1, <2>2, <3>1
  <2>3. CASE p.directive # "%"
    <3>1. PartArguments(p) = << p.arg >>
      BY <1>7, <2>3 DEF PartArguments
    <3>2. PartArguments(p) \in Seq(Values) /\ Len(PartArguments(p)) = 1 /\ PartArguments(p)[1] = p.arg
      BY <1>3, <3>1
    <3>3. /\ PartFormat(p) \in Seq(Characters) /\ Len(PartFormat(p)) = 2
          /\ PartFormat(p)[1] = "%" /\ PartFormat(p)[2] = p.directive
      BY <1>5, <2>1
    <3> QED
      BY <1>1, <1>2, <1>8, <1>7, <2>3, <3>2, <3>3
  <2> QED
    BY <2>2, <2>3
<1> QED
  BY <1>6, <1>7

LEMMA ForPieces ==
  ASSUME NEW ps \in Seq(Pieces)
  PROVE  /\ Formats(ps) \in [1 .. Len(ps) -> Seq(Characters)]
         /\ ArgumentLists(ps) \in [1 .. Len(ps) -> Seq(Values)]
         /\ Texts(ps) \in [1 .. Len(ps) -> Seq(Characters)]
         /\ Joined(Upto(Formats(ps)), Characters, Len(ps), Formats(ps))
         /\ Joined(Upto(ArgumentLists(ps)), Values, Len(ps), ArgumentLists(ps))
         /\ Joined(Upto(Texts(ps)), Characters, Len(ps), Texts(ps))
         /\ Format(ps) = Upto(Formats(ps))[Len(ps)]
         /\ Arguments(ps) = Upto(ArgumentLists(ps))[Len(ps)]
         /\ Concat(Texts(ps)) = Upto(Texts(ps))[Len(ps)]
         /\ \A i \in 1 .. Len(ps) : /\ ps[i] \in Pieces
                                    /\ Formats(ps)[i] = PartFormat(ps[i])
                                    /\ ArgumentLists(ps)[i] = PartArguments(ps[i])
                                    /\ Texts(ps)[i] = ps[i].shown
<1>1. Len(ps) \in Nat /\ \A i \in 1 .. Len(ps) : ps[i] \in Pieces
  OBVIOUS
<1>2. \A i \in 1 .. Len(ps) : /\ Formats(ps)[i] = PartFormat(ps[i])
                              /\ ArgumentLists(ps)[i] = PartArguments(ps[i])
                              /\ Texts(ps)[i] = ps[i].shown
  BY DEF Formats, ArgumentLists, Texts
<1>3. /\ Formats(ps) \in [1 .. Len(ps) -> Seq(Characters)]
      /\ ArgumentLists(ps) \in [1 .. Len(ps) -> Seq(Values)]
      /\ Texts(ps) \in [1 .. Len(ps) -> Seq(Characters)]
  BY <1>1, PieceFacts DEF Formats, ArgumentLists, Texts
<1>4. /\ Joined(Upto(Formats(ps)), Characters, Len(ps), Formats(ps))
      /\ Concat(Formats(ps)) = Upto(Formats(ps))[Len(ps)]
  BY <1>1, <1>3, UptoParts
<1>5. /\ Joined(Upto(ArgumentLists(ps)), Values, Len(ps), ArgumentLists(ps))
      /\ Concat(ArgumentLists(ps)) = Upto(ArgumentLists(ps))[Len(ps)]
  BY <1>1, <1>3, UptoParts
<1>6. /\ Joined(Upto(Texts(ps)), Characters, Len(ps), Texts(ps))
      /\ Concat(Texts(ps)) = Upto(Texts(ps))[Len(ps)]
  BY <1>1, <1>3, UptoParts
<1>7. Format(ps) = Concat(Formats(ps)) /\ Arguments(ps) = Concat(ArgumentLists(ps))
  BY Zenon DEF Format, Arguments, Formats, ArgumentLists, PartFormat, PartArguments
<1> QED
  BY <1>1, <1>2, <1>3, <1>4, <1>5, <1>6, <1>7

-----------------------------------------------------------------------------
\* Cutting the text off.
LEMMA FirstOnes ==
  ASSUME NEW s \in Seq(Characters), NEW m \in 0 .. Len(s)
  PROVE  /\ SubSeq(s, 1, m) \in Seq(Characters) /\ Len(SubSeq(s, 1, m)) = m
         /\ \A i \in 1 .. m : SubSeq(s, 1, m)[i] = s[i]
  OBVIOUS

LEMMA SameSequence ==
  ASSUME NEW s \in Seq(Characters), NEW t \in Seq(Characters), Len(s) = Len(t),
         \A i \in 1 .. Len(s) : s[i] = t[i]
  PROVE  s = t
  OBVIOUS

LEMMA CutFacts ==
  ASSUME NEW s \in Seq(Characters)
  PROVE  /\ Fits(Cut(s)) /\ Len(Cut(s)) = IF Len(s) < MAX_TEXT_LENGTH THEN Len(s) ELSE MAX_TEXT_LENGTH - 1
         /\ \A i \in 1 .. Len(Cut(s)) : Cut(s)[i] = s[i]
<1> DEFINE m == IF Len(s) < MAX_TEXT_LENGTH THEN Len(s) ELSE MAX_TEXT_LENGTH - 1
<1>1. m \in 0 .. Len(s) /\ m < MAX_TEXT_LENGTH
  BY LoggerAssumption
<1>2. Cut(s) = SubSeq(s, 1, m)
  BY DEF Cut
<1> HIDE DEF m
<1>3. Len(Cut(s)) = m /\ Cut(s) \in Seq(Characters) /\ \A i \in 1 .. m : Cut(s)[i] = s[i]
  BY <1>1, <1>2, FirstOnes
<1> QED
  BY <1>1, <1>3 DEF Fits, m

LEMMA CutSizes ==
  ASSUME NEW lw \in Nat, NEW ls \in Nat, NEW lc \in Nat, NEW m, NEW size \in Nat, size >= 2,
         lc = IF lw < size THEN lw ELSE size - 1,
         m = IF ls < size - 1 - lc THEN ls ELSE size - 1 - lc
  PROVE  /\ m \in 0 .. ls /\ lc <= lw /\ (lc # lw => m = 0)
         /\ lc + m = IF lw + ls < size THEN lw + ls ELSE size - 1
  OBVIOUS

LEMMA CutJoin ==
  ASSUME NEW w \in Seq(Characters), NEW s \in Seq(Characters), NEW c, c = Cut(w)
  PROVE  c \o SubSeq(s, 1, IF Len(s) < Room(Len(c)) THEN Len(s) ELSE Room(Len(c))) = Cut(w \o s)
<1> DEFINE M == MAX_TEXT_LENGTH
           m == IF Len(s) < Room(Len(c)) THEN Len(s) ELSE Room(Len(c))
           d == SubSeq(s, 1, m)
           v == w \o s
           e == Cut(v)
<1>1. Len(w) \in Nat /\ Len(s) \in Nat /\ M \in Nat /\ M >= 2
  BY LoggerAssumption
<1> HIDE DEF M
<1>2. /\ c \in Seq(Characters) /\ Len(c) = (IF Len(w) < M THEN Len(w) ELSE M - 1)
      /\ \A i \in 1 .. Len(c) : c[i] = w[i]
  BY CutFacts DEF Fits, M
<1>11. m = IF Len(s) < M - 1 - Len(c) THEN Len(s) ELSE M - 1 - Len(c)
  BY DEF Room, M
<1>3. /\ m \in 0 .. Len(s) /\ Len(c) <= Len(w) /\ (Len(c) # Len(w) => m = 0)
      /\ Len(c) + m = IF Len(w) + Len(s) < M THEN Len(w) + Len(s) ELSE M - 1
  <2> DEFINE lw == Len(w)
             ls == Len(s)
             lc == Len(c)
  <2>1. lw \in Nat /\ ls \in Nat /\ lc \in Nat
    BY <1>1, <1>2
  <2>2. lc = (IF lw < M THEN lw ELSE M - 1) /\ m = IF ls < M - 1 - lc THEN ls ELSE M - 1 - lc
    BY <1>2, <1>11
  <2> HIDE DEF m, lw, ls, lc
  <2>3. /\ m \in 0 .. ls /\ lc <= lw /\ (lc # lw => m = 0)
        /\ lc + m = IF lw + ls < M THEN lw + ls ELSE M - 1
    BY <1>1, <2>1, <2>2, CutSizes
  <2> QED
    BY <2>3 DEF lw, ls, lc
<1> HIDE DEF m
<1>4. d \in Seq(Characters) /\ Len(d) = m /\ \A i \in 1 .. m : d[i] = s[i]
  BY <1>3, FirstOnes
<1>5. /\ v \in Seq(Characters) /\ Len(v) = Len(w) + Len(s)
      /\ \A i \in 1 .. Len(w) + Len(s) : v[i] = IF i <= Len(w) THEN w[i] ELSE s[i - Len(w)]
  BY ConcatProperties
<1> HIDE DEF v, d
<1>6. /\ e \in Seq(Characters) /\ Len(e) = (IF Len(v) < M THEN Len(v) ELSE M - 1)
      /\ \A i \in 1 .. Len(e) : e[i] = v[i]
  BY <1>5, CutFacts DEF Fits, M
<1> HIDE DEF e
<1>7. /\ c \o d \in Seq(Characters) /\ Len(c \o d) = Len(c) + Len(d)
      /\ \A i \in 1 .. Len(c) + Len(d) : (c \o d)[i] = IF i <= Len(c) THEN c[i] ELSE d[i - Len(c)]
  BY <1>2, <1>4, ConcatProperties
<1>8. Len(c \o d) = Len(e) /\ Len(e) = Len(c) + m /\ Len(e) <= Len(w) + Len(s)
  <2>1. Len(c \o d) = Len(e)
    BY <1>3, <1>4, <1>5, <1>6, <1>7, Zenon
  <2>2. Len(e) = Len(c) + m
    BY <1>4, <1>7, <2>1, Zenon
  <2>3. Len(c) + m <= Len(w) + Len(s)
    BY <1>1, <1>2, <1>3
  <2> QED
    BY <2>1, <2>2, <2>3
<1>9. ASSUME NEW i \in 1 .. Len(e) PROVE (c \o d)[i] = e[i]
  <2>1. i \in 1 .. Len(c) + Len(d) /\ i \in 1 .. Len(w) + Len(s) /\ i \in Nat /\ i >= 1
    BY <1>1, <1>4, <1>6, <1>8
  <2>2. e[i] = v[i]
    BY <1>6
  <2>3. CASE i <= Len(c)
    <3>1. i \in 1 .. Len(c) /\ i <= Len(w)
      BY <1>1, <1>2, <2>1, <2>3
    <3>2. (c \o d)[i] = c[i] /\ v[i] = w[i] /\ c[i] = w[i]
      BY <1>2, <1>5, <1>7, <2>1, <3>1
    <3> QED
      BY <2>2, <3>2
  <2>4. CASE ~(i <= Len(c))
    <3>1. Len(c) = Len(w) /\ ~(i <= Len(w)) /\ i - Len(c) \in 1 .. m /\ i - Len(c) = i - Len(w)
      <4>1. Len(c) \in Nat /\ Len(w) \in Nat /\ m \in Nat /\ i \in 1 .. Len(c) + m
        BY <1>1, <1>2, <1>3, <1>8
      <4>2. m # 0
        BY <2>4, <4>1
      <4> QED
        BY <1>3, <2>4, <4>1, <4>2
    <3>2. (c \o d)[i] = d[i - Len(c)] /\ v[i] = s[i - Len(w)]
      BY <1>5, <1>7, <2>1, <2>4, <3>1
    <3>3. d[i - Len(c)] = s[i - Len(c)]
      BY <1>4, <3>1
    <3> QED
      BY <2>2, <3>1, <3>2, <3>3
  <2> QED
    BY <2>3, <2>4
<1>10. c \o d = e
  BY <1>6, <1>7, <1>8, <1>9, SameSequence
<1> QED
  BY <1>10 DEF d, m, e, v

\* Put leaves the text short enough.
LEMMA PutFits ==
  ASSUME Fits(output), NEW s \in Seq(Characters), Put(s)
  PROVE  Fits(output')
<1> DEFINE m == IF Len(s) < Room(Len(output)) THEN Len(s) ELSE Room(Len(output))
           d == SubSeq(s, 1, m)
<1>1. m \in 0 .. Len(s) /\ Len(output) + m < MAX_TEXT_LENGTH
  BY LoggerAssumption DEF Fits, Room
<1> HIDE DEF m
<1>2. d \in Seq(Characters) /\ Len(d) = m
  BY <1>1, FirstOnes
<1>3. output' = output \o d
  BY DEF Put, m
<1> HIDE DEF d
<1> QED
  BY <1>1, <1>2, <1>3, ConcatProperties DEF Fits

\* Once the buffer is full, what follows does not matter.
LEMMA CutFull ==
  ASSUME NEW w \in Seq(Characters), NEW v \in Seq(Characters), Begins(w, v),
         Len(Cut(w)) >= MAX_TEXT_LENGTH - 1
  PROVE  Cut(w) = Cut(v)
<1>1. /\ Fits(Cut(w)) /\ Len(Cut(w)) = IF Len(w) < MAX_TEXT_LENGTH THEN Len(w) ELSE MAX_TEXT_LENGTH - 1
      /\ \A i \in 1 .. Len(Cut(w)) : Cut(w)[i] = w[i]
  BY CutFacts
<1>2. /\ Fits(Cut(v)) /\ Len(Cut(v)) = IF Len(v) < MAX_TEXT_LENGTH THEN Len(v) ELSE MAX_TEXT_LENGTH - 1
      /\ \A i \in 1 .. Len(Cut(v)) : Cut(v)[i] = v[i]
  BY CutFacts
<1>3. Len(w) <= Len(v) /\ Len(w) \in Nat /\ Len(v) \in Nat
  BY DEF Begins
<1>4. Len(Cut(w)) = MAX_TEXT_LENGTH - 1 /\ Len(Cut(v)) = MAX_TEXT_LENGTH - 1
      /\ MAX_TEXT_LENGTH - 1 <= Len(w)
  BY <1>1, <1>2, <1>3, LoggerAssumption
<1>5. ASSUME NEW i \in 1 .. MAX_TEXT_LENGTH - 1 PROVE Cut(w)[i] = Cut(v)[i]
  <2>1. i \in 1 .. Len(w)
    BY <1>3, <1>4, LoggerAssumption
  <2> QED
    BY <1>1, <1>2, <1>4, <2>1 DEF Begins
<1> QED
  BY <1>1, <1>2, <1>4, <1>5, SameSequence DEF Fits

-----------------------------------------------------------------------------
\* The places behind the pieces.
LEMMA FirstPlace ==
  ASSUME NEW ps \in Seq(Pieces)
  PROVE  /\ FormatTo(ps, 0) = 0 /\ Left(ps, 0, Arguments(ps)) /\ Cut(TextTo(ps, 0)) = << >>
         /\ Format(ps) \in Seq(Characters)
<1> DEFINE n == Len(ps)
           F == Upto(Formats(ps))
           A == Upto(ArgumentLists(ps))
           W == Upto(Texts(ps))
<1>1. /\ Joined(F, Characters, n, Formats(ps)) /\ Format(ps) = F[n]
      /\ Joined(A, Values, n, ArgumentLists(ps)) /\ Arguments(ps) = A[n]
      /\ Joined(W, Characters, n, Texts(ps))
  BY ForPieces
<1>2. 0 \in 0 .. n /\ n \in 0 .. n
  OBVIOUS
<1> HIDE DEF F, A, W, n
<1>3. F[0] = << >> /\ A[0] = << >> /\ W[0] = << >>
  BY <1>1 DEF Joined
<1>4. F[n] \in Seq(Characters)
  BY <1>1, <1>2 DEF Joined
<1>5. A[n] \in Seq(Values)
  BY <1>1, <1>2 DEF Joined
<1>6. FormatTo(ps, 0) = 0 /\ ArgumentsTo(ps, 0) = 0
  BY <1>3 DEF FormatTo, ArgumentsTo, F, A
<1>7. Left(ps, 0, Arguments(ps))
  <2> DEFINE args == Arguments(ps)
  <2>1. args \in Seq(Values)
    BY <1>1, <1>5
  <2> HIDE DEF args
  <2>2. Len(args) = Len(args) - 0 /\ \A j \in 1 .. Len(args) : 0 + j = j
    BY <2>1
  <2>3. Len(args) = Len(args) - 0 /\ \A j \in 1 .. Len(args) : args[j] = args[0 + j]
    BY <2>2
  <2> QED
    BY <1>6, <2>1, <2>3 DEF Left, args
<1>8. Cut(TextTo(ps, 0)) = << >>
  <2>1. << >> \in Seq(Characters) /\ Len(<< >>) = 0
    OBVIOUS
  <2>2. Len(<< >>) < MAX_TEXT_LENGTH
    BY <2>1, LoggerAssumption
  <2>3. Cut(<< >>) = SubSeq(<< >>, 1, 0)
    BY <2>1, <2>2 DEF Cut
  <2>4. SubSeq(<< >>, 1, 0) = << >>
    BY SubSeqEmpty
  <2> QED
    BY <1>3, <2>3, <2>4 DEF TextTo, W
<1> QED
  BY <1>1, <1>4, <1>6, <1>7, <1>8

LEMMA NextFormat ==
  ASSUME NEW ps \in Seq(Pieces), NEW k \in 0 .. Len(ps), k < Len(ps),
         NEW p, p = ps[k + 1]
  PROVE  /\ p \in Pieces /\ k + 1 \in 0 .. Len(ps) /\ FormatTo(ps, k) \in Nat
         /\ FormatTo(ps, k + 1) = FormatTo(ps, k) + Len(PartFormat(p))
         /\ FormatTo(ps, k + 1) <= Len(Format(ps))
         /\ \A j \in 1 .. Len(PartFormat(p)) : Format(ps)[FormatTo(ps, k) + j] = PartFormat(p)[j]
<1> DEFINE n == Len(ps)
           F == Upto(Formats(ps))
           parts == Formats(ps)
<1>1. /\ Joined(F, Characters, n, parts) /\ Format(ps) = F[n] /\ parts \in [1 .. n -> Seq(Characters)]
      /\ n \in Nat /\ k + 1 \in 1 .. n
  BY ForPieces
<1>2. p \in Pieces /\ parts[k + 1] = PartFormat(p)
  BY <1>1, ForPieces
<1> HIDE DEF F, parts
<1>5. Placed(F, n, k, parts[k + 1])
  BY <1>1, UptoNext
<1>3. /\ Len(F[k]) \in Nat /\ Len(F[k + 1]) = Len(F[k]) + Len(parts[k + 1])
      /\ Len(F[k + 1]) <= Len(F[n])
      /\ \A j \in 1 .. Len(parts[k + 1]) : F[n][Len(F[k]) + j] = parts[k + 1][j]
  BY <1>5 DEF Placed
<1>4. k + 1 \in 0 .. n
  BY <1>1
<1> QED
  BY <1>1, <1>2, <1>3, <1>4 DEF FormatTo, F

LEMMA NextArguments ==
  ASSUME NEW ps \in Seq(Pieces), NEW k \in 0 .. Len(ps), k < Len(ps),
         NEW p, p = ps[k + 1]
  PROVE  /\ p \in Pieces /\ ArgumentsTo(ps, k) \in Nat
         /\ ArgumentsTo(ps, k + 1) = ArgumentsTo(ps, k) + Len(PartArguments(p))
         /\ ArgumentsTo(ps, k + 1) <= Len(Arguments(ps)) /\ Len(Arguments(ps)) \in Nat
         /\ \A j \in 1 .. Len(PartArguments(p)) :
              Arguments(ps)[ArgumentsTo(ps, k) + j] = PartArguments(p)[j]
<1> DEFINE n == Len(ps)
           A == Upto(ArgumentLists(ps))
           parts == ArgumentLists(ps)
<1>1. /\ Joined(A, Values, n, parts) /\ Arguments(ps) = A[n] /\ parts \in [1 .. n -> Seq(Values)]
      /\ n \in Nat /\ k + 1 \in 1 .. n
  BY ForPieces
<1>2. p \in Pieces /\ parts[k + 1] = PartArguments(p)
  BY <1>1, ForPieces
<1> HIDE DEF A, parts, n
<1>5. Placed(A, n, k, parts[k + 1])
  BY <1>1, UptoNext DEF n
<1>3. /\ Len(A[k]) \in Nat /\ Len(A[k + 1]) = Len(A[k]) + Len(parts[k + 1])
      /\ Len(A[k + 1]) <= Len(A[n])
      /\ \A j \in 1 .. Len(parts[k + 1]) : A[n][Len(A[k]) + j] = parts[k + 1][j]
  BY <1>5 DEF Placed
<1>4. Len(A[n]) \in Nat
  <2>1. A[n] \in Seq(Values)
    BY <1>1 DEF Joined
  <2> QED
    BY <2>1
<1> QED
  BY <1>1, <1>2, <1>3, <1>4 DEF ArgumentsTo, A

LEMMA NextText ==
  ASSUME NEW ps \in Seq(Pieces), NEW k \in 0 .. Len(ps), k < Len(ps)
  PROVE  /\ TextTo(ps, k) \in Seq(Characters)
         /\ TextTo(ps, k + 1) = TextTo(ps, k) \o ps[k + 1].shown
<1> DEFINE n == Len(ps)
           W == Upto(Texts(ps))
           parts == Texts(ps)
<1>1. /\ Joined(W, Characters, n, parts) /\ parts \in [1 .. n -> Seq(Characters)]
      /\ n \in Nat /\ k + 1 \in 1 .. n
  BY ForPieces
<1>2. parts[k + 1] = ps[k + 1].shown
  BY <1>1, ForPieces
<1> HIDE DEF W, parts, n
<1>5. Placed(W, n, k, parts[k + 1])
  BY <1>1, UptoNext DEF n
<1>3. W[k + 1] = W[k] \o parts[k + 1]
  BY <1>5 DEF Placed
<1>4. W[k] \in Seq(Characters)
  BY <1>1 DEF Joined, n
<1> QED
  BY <1>2, <1>3, <1>4 DEF TextTo, W

LEMMA LastPlace ==
  ASSUME NEW ps \in Seq(Pieces), NEW k \in 0 .. Len(ps), FormatTo(ps, k) < Len(Format(ps))
  PROVE  k < Len(ps)
<1>1. Len(ps) \in Nat /\ Format(ps) = Upto(Formats(ps))[Len(ps)]
  BY ForPieces
<1>2. FormatTo(ps, Len(ps)) = Len(Format(ps)) /\ Len(Format(ps)) \in Nat
  BY <1>1, FirstPlace DEF FormatTo
<1>3. k # Len(ps)
  BY <1>2
<1> QED
  BY <1>1, <1>3

\* Behind a piece that is not the last one there is more of the format.
LEMMA MoreFormat ==
  ASSUME NEW ps \in Seq(Pieces), NEW k \in 0 .. Len(ps), k < Len(ps)
  PROVE  FormatTo(ps, k) < Len(Format(ps))
<1> DEFINE p == ps[k + 1]
<1>1. /\ p \in Pieces /\ FormatTo(ps, k) \in Nat
      /\ FormatTo(ps, k + 1) = FormatTo(ps, k) + Len(PartFormat(p))
      /\ FormatTo(ps, k + 1) <= Len(Format(ps))
  BY NextFormat
<1>2. Len(PartFormat(p)) \in {1, 2}
  BY <1>1, PieceFacts
<1>3. Len(Format(ps)) \in Nat
  <2>1. Format(ps) \in Seq(Characters)
    BY FirstPlace
  <2> QED
    BY <2>1
<1> HIDE DEF p
<1>4. CASE Len(PartFormat(p)) = 1
  <2>1. FormatTo(ps, k + 1) = FormatTo(ps, k) + 1
    BY <1>1, <1>4
  <2> QED
    BY <1>1, <1>3, <2>1
<1>5. CASE Len(PartFormat(p)) = 2
  <2>1. FormatTo(ps, k + 1) = FormatTo(ps, k) + 2
    BY <1>1, <1>5
  <2> QED
    BY <1>1, <1>3, <2>1
<1> QED
  BY <1>2, <1>4, <1>5

\* va_arg takes the argument of the next piece.
LEMMA Taken ==
  ASSUME NEW ps \in Seq(Pieces), NEW k \in 0 .. Len(ps), k < Len(ps), NEW p, p = ps[k + 1],
         NEW args, Left(ps, k, args)
  PROVE  /\ p.directive \in {"", "%"} => Left(ps, k + 1, args)
         /\ p.directive \notin {"", "%"} =>
              args # << >> /\ Head(args) = p.arg /\ Left(ps, k + 1, Tail(args))
<1> DEFINE all == Arguments(ps)
           at == ArgumentsTo(ps, k)
           next == ArgumentsTo(ps, k + 1)
           part == PartArguments(p)
<1>1. /\ p \in Pieces /\ at \in Nat /\ next = at + Len(part) /\ next <= Len(all) /\ Len(all) \in Nat
      /\ \A j \in 1 .. Len(part) : all[at + j] = part[j]
  BY NextArguments
<1>2. /\ args \in Seq(Values) /\ Len(args) = Len(all) - at
      /\ \A j \in 1 .. Len(args) : args[j] = all[at + j]
  BY DEF Left
<1>3. /\ p.directive \in {"", "%"} => Len(part) = 0
      /\ p.directive \notin {"", "%"} => Len(part) = 1 /\ part[1] = p.arg
  BY <1>1, PieceFacts
<1> HIDE DEF all, at, next, part
<1>4. ASSUME p.directive \in {"", "%"} PROVE Left(ps, k + 1, args)
  <2>0. Len(part) = 0
    BY <1>3, <1>4
  <2>1. next = at
    BY <1>1, <2>0
  <2> QED
    BY <1>2, <2>1 DEF Left, all, at, next
<1>5. ASSUME p.directive \notin {"", "%"}
      PROVE  args # << >> /\ Head(args) = p.arg /\ Left(ps, k + 1, Tail(args))
  <2>0. Len(part) = 1 /\ part[1] = p.arg
    BY <1>3, <1>5
  <2>7. next = at + 1 /\ 1 \in 1 .. Len(part) /\ Len(args) \in Nat
    BY <1>1, <1>2, <2>0
  <2>8. all[at + 1] = p.arg
    BY <1>1, <2>0, <2>7
  <2>9. Len(args) >= 1
    BY <1>1, <1>2, <2>7
  <2>1. next = at + 1 /\ all[at + 1] = p.arg /\ Len(args) >= 1 /\ Len(args) \in Nat
    BY <2>7, <2>8, <2>9
  <2>2. args # << >> /\ Head(args) = args[1] /\ args[1] = p.arg
    BY <1>2, <2>1
  <2> DEFINE rest == Tail(args)
  <2>3. /\ rest \in Seq(Values) /\ Len(rest) = Len(args) - 1
        /\ \A j \in 1 .. Len(rest) : rest[j] = args[j + 1]
    BY <1>2, <2>2, HeadTailProperties
  <2> HIDE DEF rest
  <2>4. ASSUME NEW j \in 1 .. Len(rest) PROVE rest[j] = all[next + j]
    <3>1. j + 1 \in 1 .. Len(args) /\ at + (j + 1) = next + j
      <4>1. j \in 1 .. Len(args) - 1 /\ Len(args) \in Nat
        BY <2>1, <2>3
      <4>2. j + 1 \in 1 .. Len(args) /\ j \in Nat
        BY <4>1
      <4>3. next = at + 1 /\ at \in Nat
        BY <1>1, <2>7
      <4>4. at + (j + 1) = next + j
        BY <4>2, <4>3
      <4> QED
        BY <4>2, <4>4
    <3>2. args[j + 1] = all[at + (j + 1)]
      BY <1>2, <3>1
    <3> QED
      BY <2>3, <3>1, <3>2
  <2>5. Len(rest) = Len(all) - next
    <3>1. Len(rest) = Len(args) - 1 /\ Len(args) = Len(all) - at /\ next = at + 1
      BY <1>2, <2>3, <2>7
    <3>2. at \in Nat /\ Len(all) \in Nat
      BY <1>1
    <3> QED
      BY <3>1, <3>2
  <2>6. Left(ps, k + 1, rest)
    BY <2>3, <2>4, <2>5 DEF Left, all, next
  <2> QED
    BY <2>2, <2>6 DEF rest
<1> QED
  BY <1>4, <1>5

\* What the loop reads at idx when it is behind piece k.
ReadsPiece(ps, k, idx, p) ==
  /\ k < Len(ps) /\ p \in Pieces
  /\ Format(ps)[idx] = PartFormat(p)[1]
  /\ p.directive # "" => /\ idx < Len(Format(ps)) /\ Format(ps)[idx + 1] = PartFormat(p)[2]
                         /\ idx + 2 = FormatTo(ps, k + 1) + 1
  /\ p.directive = "" => idx + 1 = FormatTo(ps, k + 1) + 1
  /\ FormatTo(ps, k + 1) + 1 \in 1 .. Len(Format(ps)) + 1

LEMMA Reads ==
  ASSUME NEW ps \in Seq(Pieces), NEW k \in 0 .. Len(ps), NEW idx, idx = FormatTo(ps, k) + 1,
         idx \in Int, idx <= Len(Format(ps)), NEW p, p = ps[k + 1]
  PROVE  ReadsPiece(ps, k, idx, p)
<1> DEFINE all == Format(ps)
           at == FormatTo(ps, k)
           next == FormatTo(ps, k + 1)
           part == PartFormat(p)
<1>1. Len(all) \in Nat
  <2>1. all \in Seq(Characters)
    BY FirstPlace
  <2> HIDE DEF all
  <2> QED
    BY <2>1
<1>2. k < Len(ps)
  <2>1. at \in Nat \/ k = Len(ps) \/ k < Len(ps)
    OBVIOUS
  <2>2. k # Len(ps)
    <3>1. ASSUME k = Len(ps) PROVE FALSE
      <4>1. at = Len(all)
        BY <3>1, ForPieces DEF FormatTo
      <4>2. idx = Len(all) + 1
        BY <4>1
      <4> HIDE DEF all
      <4>3. idx <= Len(all)
        BY DEF all
      <4> QED
        BY <1>1, <4>2, <4>3
    <3> QED
      BY <3>1
  <2> QED
    BY <2>2
<1>3. /\ p \in Pieces /\ at \in Nat
      /\ next = at + Len(part) /\ next <= Len(all)
      /\ \A j \in 1 .. Len(part) : all[at + j] = part[j]
  BY <1>2, NextFormat
<1>4. p.directive = "" => Len(part) = 1
  BY <1>3, PieceFacts
<1>5. p.directive # "" => Len(part) = 2
  BY <1>3, PieceFacts
<1>6. idx = at + 1
  OBVIOUS
<1> HIDE DEF all, at, next, part
<1>7. CASE p.directive = ""
  <2>1. Len(part) = 1
    BY <1>4, <1>7
  <2>2. next = at + 1 /\ 1 \in 1 .. Len(part)
    BY <1>3, <2>1
  <2>3. all[idx] = part[1]
    BY <1>3, <1>6, <2>2
  <2>4. idx + 1 = next + 1 /\ next + 1 \in 1 .. Len(all) + 1
    BY <1>1, <1>3, <1>6, <2>2
  <2> QED
    BY <1>2, <1>3, <1>7, <2>3, <2>4 DEF ReadsPiece, all, at, next, part
<1>8. CASE p.directive # ""
  <2>1. Len(part) = 2
    BY <1>5, <1>8
  <2>2. next = at + 2 /\ 1 \in 1 .. Len(part) /\ 2 \in 1 .. Len(part)
    BY <1>3, <2>1
  <2>3. all[at + 1] = part[1] /\ all[at + 2] = part[2]
    BY <1>3, <2>2
  <2>4. idx + 1 = at + 2 /\ idx + 2 = next + 1 /\ next + 1 \in 1 .. Len(all) + 1 /\ idx < Len(all)
    BY <1>1, <1>3, <1>6, <2>2
  <2>5. all[idx] = part[1] /\ all[idx + 1] = part[2]
    BY <1>6, <2>3, <2>4
  <2> QED
    BY <1>2, <1>3, <1>8, <2>4, <2>5 DEF ReadsPiece, all, at, next, part
<1> QED
  BY <1>7, <1>8

LEMMA InitLogging == Init => Logging
<1> SUFFICES ASSUME Init PROVE Logging
  OBVIOUS
<1>1. pieces \in Seq(Pieces) /\ pieces # << >>
  <2>1. PICK n \in 1 .. MaxPieces : pieces \in [1 .. n -> Pieces]
    BY DEF Init
  <2>2. n \in Nat /\ n # 0 /\ pieces \in Seq(Pieces) /\ Len(pieces) = n
    BY <2>1, LoggerAssumption
  <2> QED
    BY <2>2
<1>2. /\ input = Format(pieces) /\ va_list = Arguments(pieces) /\ pass = "log" /\ idx_input = 1
      /\ output = << >> /\ terminated = FALSE /\ text = << >> /\ overrun = {}
  BY DEF Init
<1>3. /\ FormatTo(pieces, 0) = 0 /\ Left(pieces, 0, va_list) /\ output = Cut(TextTo(pieces, 0))
      /\ input \in Seq(Characters)
  BY <1>1, <1>2, FirstPlace
<1>4. Fits(<< >>)
  <2>1. << >> \in Seq(Characters) /\ Len(<< >>) = 0
    OBVIOUS
  <2> QED
    BY <2>1, LoggerAssumption DEF Fits
<1>5. idx_input \in 1 .. Len(input) + 1
  <2>1. Len(input) \in Nat
    BY <1>3
  <2> QED
    BY <1>2, <2>1
<1>6. Typed
  BY <1>1, <1>2, <1>3, <1>4, <1>5 DEF Typed, Fresh
<1>7. 0 \in 0 .. Len(pieces) /\ Behind(0)
  BY <1>1, <1>2, <1>3 DEF Behind
<1> QED
  BY <1>2, <1>6, <1>7 DEF Logging, Logged, Repeating

\* What the logger's pass stands at, and what it reads.
AtPiece(k, p) ==
  /\ k \in 0 .. Len(pieces) /\ k < Len(pieces) /\ k + 1 \in 0 .. Len(pieces)
  /\ p \in Pieces /\ p = pieces[k + 1]
  /\ Behind(k)
  /\ input[idx_input] = PartFormat(p)[1]
  /\ p.directive # "" => /\ idx_input < Len(input) /\ input[idx_input + 1] = PartFormat(p)[2]
                         /\ idx_input + 2 = FormatTo(pieces, k + 1) + 1
  /\ p.directive = "" => idx_input + 1 = FormatTo(pieces, k + 1) + 1
  /\ FormatTo(pieces, k + 1) + 1 \in 1 .. Len(input) + 1
  /\ p.directive \in {"", "%"} => Left(pieces, k + 1, va_list)
  /\ p.directive \notin {"", "%"} =>
       va_list # << >> /\ Head(va_list) = p.arg /\ Left(pieces, k + 1, Tail(va_list))

LEMMA NextPiece ==
  ASSUME Logging, pass = "log", InLoop
  PROVE  \E k, p : AtPiece(k, p)
<1>1. Typed /\ input = Format(pieces) /\ pieces \in Seq(Pieces)
  BY DEF Logging, Logged, Typed
<1>2. PICK k \in 0 .. Len(pieces) : Behind(k)
  BY DEF Logging, Logged
<1> DEFINE p == pieces[k + 1]
<1>3. idx_input = FormatTo(pieces, k) + 1 /\ Left(pieces, k, va_list)
  BY <1>2 DEF Behind
<1>4. idx_input \in Int /\ idx_input <= Len(Format(pieces))
  BY <1>1 DEF InLoop, Typed
<1>5. /\ k < Len(pieces) /\ p \in Pieces
      /\ input[idx_input] = PartFormat(p)[1]
      /\ p.directive # "" => /\ idx_input < Len(input) /\ input[idx_input + 1] = PartFormat(p)[2]
                             /\ idx_input + 2 = FormatTo(pieces, k + 1) + 1
      /\ p.directive = "" => idx_input + 1 = FormatTo(pieces, k + 1) + 1
      /\ FormatTo(pieces, k + 1) + 1 \in 1 .. Len(input) + 1
  <2> HIDE DEF p
  <2>1. p = pieces[k + 1]
    BY DEF p
  <2>2. k \in 0 .. Len(pieces) /\ pieces \in Seq(Pieces) /\ idx_input = FormatTo(pieces, k) + 1
    BY <1>1, <1>3
  <2>3. ReadsPiece(pieces, k, idx_input, p)
    BY <1>4, <2>1, <2>2, Reads
  <2> QED
    BY <1>1, <2>3, Zenon DEF ReadsPiece
<1>9. k < Len(pieces)
  BY <1>5
<1>6. /\ p.directive \in {"", "%"} => Left(pieces, k + 1, va_list)
      /\ p.directive \notin {"", "%"} =>
           va_list # << >> /\ Head(va_list) = p.arg /\ Left(pieces, k + 1, Tail(va_list))
  <2> HIDE DEF p
  <2>1. p = pieces[k + 1]
    BY DEF p
  <2> QED
    BY <1>1, <1>3, <1>9, <2>1, Taken, Zenon
<1>7. k + 1 \in 0 .. Len(pieces)
  BY <1>1, <1>9
<1>8. AtPiece(k, p)
  BY <1>2, <1>5, <1>6, <1>7 DEF AtPiece
<1> QED
  BY <1>8

\* A round of the logger's pass: behind the next piece, its text put.
LEMMA Round ==
  ASSUME Logging, pass = "log", NEW k, NEW p, AtPiece(k, p),
         UNCHANGED << pieces, pass, input, text >>, terminated' = TRUE,
         idx_input' = FormatTo(pieces, k + 1) + 1, Left(pieces, k + 1, va_list'),
         NEW s, s \in Seq(Characters), Put(s),
         ConversionsRight => s = p.shown,
         overrun' \subseteq {<< 10, 10 >>, << 18, 18 >>}
  PROVE  Logging'
<1>1. Typed /\ input = Format(pieces) /\ pieces \in Seq(Pieces) /\ text = << >> /\ Fits(output)
      /\ pieces # << >>
  BY DEF Logging, Logged, Typed
<1>2. Fits(output')
  BY <1>1, PutFits
<1>3. idx_input' \in 1 .. Len(input) + 1
  BY DEF AtPiece
<1>4. Typed'
  BY <1>1, <1>2, <1>3 DEF Typed, Fits
<1>5. ASSUME ConversionsRight
      PROVE  output' = Cut(TextTo(pieces, k + 1))
  <2>2. output = Cut(TextTo(pieces, k)) /\ s = p.shown /\ p = pieces[k + 1]
    BY <1>5 DEF AtPiece, Behind
  <2>3. /\ TextTo(pieces, k) \in Seq(Characters)
        /\ TextTo(pieces, k + 1) = TextTo(pieces, k) \o s
    <3>1. k \in 0 .. Len(pieces) /\ k < Len(pieces)
      BY DEF AtPiece
    <3> QED
      BY <1>1, <2>2, <3>1, NextText
  <2>4. output' = output \o SubSeq(s, 1, IF Len(s) < Room(Len(output)) THEN Len(s)
                                         ELSE Room(Len(output)))
    BY DEF Put
  <2>5. output' = Cut(TextTo(pieces, k) \o s)
    BY <2>2, <2>3, <2>4, CutJoin
  <2> QED
    BY <2>3, <2>5
<1>6. Behind(k + 1)'
  BY <1>5 DEF Behind
<1>7. k + 1 \in 0 .. Len(pieces')
  BY DEF AtPiece
<1>8. Logged'
  BY <1>1, <1>6, <1>7 DEF Logged
<1> QED
  BY <1>4, <1>8 DEF Logging, Repeating

LEMMA ConvertFacts ==
  ASSUME NEW s \in Seq(Characters), NEW size \in {10, 18}, Len(s) <= size, Convert(s, size),
         overrun \subseteq {<< 10, 10 >>, << 18, 18 >>}
  PROVE  Put(s) /\ overrun' \subseteq {<< 10, 10 >>, << 18, 18 >>}
<1>1. Len(s) \in Nat
  OBVIOUS
<1>2. (IF Len(s) < size THEN s ELSE SubSeq(s, 1, size)) = s
  <2>1. CASE Len(s) < size
    BY <2>1
  <2>2. CASE ~(Len(s) < size)
    <3>1. size = Len(s)
      BY <1>1, <2>2
    <3>2. SubSeq(s, 1, Len(s)) = s
      OBVIOUS
    <3> QED
      BY <2>2, <3>1, <3>2
  <2> QED
    BY <2>1, <2>2
<1>3. Put(s)
  BY <1>2, Zenon DEF Convert
<1>4. \A i \in size .. Len(s) : i = size
  BY <1>1
<1>5. overrun' = overrun \cup {<< size, i >> : i \in size .. Len(s)}
  BY DEF Convert
<1>6. overrun' \subseteq overrun \cup {<< size, size >>}
  BY <1>4, <1>5, Zenon
<1> QED
  BY <1>3, <1>6

\* The actions in the logger's pass.
LEMMA LogLiteral ==
  ASSUME Logging, pass = "log", Literal
  PROVE  Logging'
<1>1. InLoop
  BY DEF Literal
<1>2. PICK k, p : AtPiece(k, p)
  BY <1>1, NextPiece
<1>3. p \in Pieces /\ input[idx_input] = PartFormat(p)[1]
  BY <1>2 DEF AtPiece
<1>4. p.directive = ""
  BY <1>3, PieceFacts DEF Literal
<1>5. p.arg \in Seq(Characters) /\ Len(p.arg) = 1 /\ p.arg[1] = input[idx_input]
  BY <1>3, <1>4, PieceFacts
<1>6. << input[idx_input] >> = p.arg
  BY <1>5
<1>7. Put(p.arg)
  BY <1>6 DEF Literal
<1>8. ConversionsRight => p.arg = p.shown
  BY <1>3, <1>4 DEF ConversionsRight
<1>9. idx_input' = FormatTo(pieces, k + 1) + 1 /\ Left(pieces, k + 1, va_list')
  BY <1>2, <1>4 DEF AtPiece, Literal
<1>10. /\ UNCHANGED << pieces, pass, input, text >> /\ terminated' = TRUE
       /\ overrun' \subseteq {<< 10, 10 >>, << 18, 18 >>}
  BY DEF Literal, Terminate, Logging, Typed
<1> QED
  BY <1>2, <1>5, <1>7, <1>8, <1>9, <1>10, Round

\* The piece that a directive is read from.
LEMMA Directive ==
  ASSUME Logging, pass = "log", NEW c, IsDirective(c), NEW k, NEW p, AtPiece(k, p)
  PROVE  /\ p \in Pieces /\ p.directive = c /\ c # ""
         /\ UNCHANGED << pieces, pass, input, text >> /\ terminated' = TRUE
         /\ idx_input' = FormatTo(pieces, k + 1) + 1
         /\ c = "%" => Left(pieces, k + 1, va_list)
         /\ c # "%" => /\ va_list # << >> /\ Head(va_list) = p.arg
                       /\ va_list' = Tail(va_list) => Left(pieces, k + 1, va_list')
<1>1. /\ p \in Pieces /\ input[idx_input] = PartFormat(p)[1]
      /\ input[idx_input] = "%" /\ input[idx_input + 1] = c /\ idx_input' = idx_input + 2
      /\ UNCHANGED << pieces, pass, input, text >> /\ terminated' = TRUE
  BY DEF AtPiece, IsDirective, Terminate
<1>2. p.directive # ""
  BY <1>1, PieceFacts
<1>3. PartFormat(p)[2] = p.directive
  BY <1>1, <1>2, PieceFacts
<1>4. p.directive = c
  BY <1>1, <1>2, <1>3 DEF AtPiece
<1> QED
  BY <1>1, <1>2, <1>4 DEF AtPiece

\* The argument of the piece is the one that is taken.
LEMMA TakesArgument ==
  ASSUME Logging, pass = "log", NEW c, IsDirective(c), c # "%", NEW k, NEW p, AtPiece(k, p), NEW left
  PROVE  Argument(left) = {p.arg} /\ (Takes => va_list' = Tail(va_list))
<1>1. va_list # << >> /\ Head(va_list) = p.arg
  BY Directive, Zenon
<1> QED
  BY <1>1 DEF Argument, Takes

\* A directive with an argument whose text is s.
LEMMA Conversion ==
  ASSUME Logging, pass = "log", NEW c, IsDirective(c), c # "%", Takes, NEW k, NEW p, AtPiece(k, p),
         NEW s, s \in Seq(Characters), Put(s),
         ConversionsRight => s = p.shown,
         overrun' \subseteq {<< 10, 10 >>, << 18, 18 >>}
  PROVE  Logging'
<1>1. /\ UNCHANGED << pieces, pass, input, text >> /\ terminated' = TRUE
      /\ idx_input' = FormatTo(pieces, k + 1) + 1 /\ Left(pieces, k + 1, va_list')
  <2>1. va_list' = Tail(va_list)
    BY TakesArgument, Zenon
  <2>2. /\ UNCHANGED << pieces, pass, input, text >> /\ terminated' = TRUE
        /\ idx_input' = FormatTo(pieces, k + 1) + 1
        /\ va_list' = Tail(va_list) => Left(pieces, k + 1, va_list')
    BY Directive, Zenon
  <2> QED
    BY <2>1, <2>2
<1> QED
  BY <1>1, Round

LEMMA LogString ==
  ASSUME Logging, pass = "log", NEW c \in {"s", "c"}, IsDirective(c), Takes, UNCHANGED overrun,
         NEW left, NEW arg \in Argument(left), Put(arg)
  PROVE  Logging'
<1>1. InLoop
  BY DEF IsDirective
<1>2. PICK k, p : AtPiece(k, p)
  BY <1>1, NextPiece
<1>3. c # "%"
  OBVIOUS
<1>4. p \in Pieces /\ p.directive = c /\ arg = p.arg
  <2>1. p \in Pieces /\ p.directive = c
    BY <1>2, <1>3, Directive, Zenon
  <2>2. arg = p.arg
    BY <1>2, <1>3, TakesArgument, Zenon
  <2> QED
    BY <2>1, <2>2
<1>5. p.arg \in Seq(Characters) /\ Put(p.arg)
  BY <1>4, PieceFacts
<1>6. ConversionsRight => p.arg = p.shown
  BY <1>4 DEF ConversionsRight
<1>7. overrun' \subseteq {<< 10, 10 >>, << 18, 18 >>}
  BY DEF Logging, Typed
<1> QED
  BY <1>2, <1>3, <1>5, <1>6, <1>7, Conversion

LEMMA LogUnsigned ==
  ASSUME Logging, pass = "log", Unsigned
  PROVE  Logging'
<1>1. InLoop /\ IsDirective("u") /\ Takes
  BY DEF IsDirective, Unsigned
<1>9. PICK arg \in Argument(Leftovers) : Convert(int_to_str(arg), 10)
  BY DEF Unsigned
<1>2. PICK k, p : AtPiece(k, p)
  BY <1>1, NextPiece
<1>3. p \in Pieces /\ p.directive = "u" /\ arg = p.arg
  <2> DEFINE c == "u"
  <2>1. IsDirective(c) /\ c # "%"
    BY <1>1
  <2> HIDE DEF c
  <2>2. p \in Pieces /\ p.directive = c
    BY <1>2, <2>1, Directive, Zenon
  <2>3. arg = p.arg
    BY <1>2, <1>9, <2>1, TakesArgument, Zenon
  <2> QED
    BY <2>2, <2>3 DEF c
<1>4. p.arg \in Int /\ p.arg <= IntMax
  <2>1. p \in Pieces /\ p.directive \in {"u", "x"}
    BY <1>3
  <2> QED
    BY <2>1, PieceFacts, Zenon
<1> DEFINE s == int_to_str(p.arg)
<1>5. s \in Seq(Characters) /\ Len(s) <= 10
  BY <1>4, DecimalLength
<1> HIDE DEF s
<1>6. Convert(s, 10)
  BY <1>3, <1>9 DEF s
<1>7. Put(s) /\ overrun' \subseteq {<< 10, 10 >>, << 18, 18 >>}
  <2>1. overrun \subseteq {<< 10, 10 >>, << 18, 18 >>}
    BY DEF Logging, Typed
  <2> QED
    BY <1>5, <1>6, <2>1, ConvertFacts
<1>8. ConversionsRight => s = p.shown
  BY <1>3 DEF ConversionsRight, s
<1> QED
  BY <1>1, <1>2, <1>5, <1>7, <1>8, Conversion

LEMMA LogHex ==
  ASSUME Logging, pass = "log", NEW c, NEW digits, NEW size,
         \/ c = "x" /\ digits = 8 /\ size = 10
         \/ c = "p" /\ digits = 16 /\ size = 18,
         IsDirective(c), Takes, NEW left, NEW arg \in Argument(left),
         Convert(to_hex(arg, digits), size)
  PROVE  Logging'
<1>1. InLoop /\ c # "%"
  BY DEF IsDirective
<1>2. PICK k, p : AtPiece(k, p)
  BY <1>1, NextPiece
<1>3. p \in Pieces /\ p.directive = c /\ arg = p.arg
  <2>1. p \in Pieces /\ p.directive = c
    BY <1>2, Directive, Zenon
  <2>2. arg = p.arg
    BY <1>1, <1>2, TakesArgument, Zenon
  <2> QED
    BY <2>1, <2>2
<1>4. p.arg \in Int /\ digits \in Nat
  <2>1. CASE c = "x"
    <3>1. p \in Pieces /\ p.directive \in {"u", "x"}
      BY <1>3, <2>1
    <3>2. p.arg \in Int
      BY <3>1, PieceFacts, Zenon
    <3> QED
      BY <3>2
  <2>2. CASE c = "p"
    <3>1. p \in Pieces /\ p.directive = "p"
      BY <1>3, <2>2
    <3>2. p.arg \in Int
      BY <3>1, PieceFacts, Zenon
    <3> QED
      BY <3>2
  <2> QED
    BY <2>1, <2>2
<1> DEFINE s == to_hex(p.arg, digits)
<1>5. s \in Seq(Characters) /\ Len(s) = digits + 2
  BY <1>4, HexLength
<1> HIDE DEF s
<1>6. Convert(s, size) /\ size \in {10, 18} /\ Len(s) <= size
  BY <1>3, <1>5 DEF s
<1>7. Put(s) /\ overrun' \subseteq {<< 10, 10 >>, << 18, 18 >>}
  <2>1. overrun \subseteq {<< 10, 10 >>, << 18, 18 >>}
    BY DEF Logging, Typed
  <2> QED
    BY <1>5, <1>6, <2>1, ConvertFacts
<1>8. ConversionsRight => s = p.shown
  BY <1>3 DEF ConversionsRight, s
<1> QED
  BY <1>1, <1>2, <1>5, <1>7, <1>8, Conversion

LEMMA LogPercent ==
  ASSUME Logging, pass = "log", Percent
  PROVE  Logging'
<1>1. /\ InLoop /\ IsDirective("%") /\ Put(<< "%" >>) /\ va_list' = va_list
      /\ overrun' \subseteq {<< 10, 10 >>, << 18, 18 >>}
  BY DEF IsDirective, Percent, Logging, Typed
<1>2. PICK k, p : AtPiece(k, p)
  BY <1>1, NextPiece
<1>3. /\ p \in Pieces /\ p.directive = "%" /\ UNCHANGED << pieces, pass, input, text >>
      /\ terminated' = TRUE
      /\ idx_input' = FormatTo(pieces, k + 1) + 1 /\ Left(pieces, k + 1, va_list')
  BY <1>1, <1>2, Directive
<1>4. << "%" >> \in Seq(Characters)
  <2>1. "%" \in Characters
    BY LoggerAssumption
  <2> QED
    BY <2>1
<1>5. ConversionsRight => << "%" >> = p.shown
  BY <1>3 DEF ConversionsRight
<1> QED
  BY <1>1, <1>2, <1>3, <1>4, <1>5, Round

\* No piece is read by the other three actions.
LEMMA LogStaysInFormat ==
  ASSUME Logging, pass = "log", Unknown \/ StepOver \/ Abort
  PROVE  FALSE
<1>1. InLoop
  BY DEF Unknown, StepOver, Abort, IsDirective
<1>2. PICK k, p : AtPiece(k, p)
  BY <1>1, NextPiece
<1>3. CASE Unknown
  <2>1. PICK c \in {input[i] : i \in 1 .. Len(input)} \ {"s", "c", "u", "x", "p", "%"} : IsDirective(c)
    BY <1>3 DEF Unknown
  <2>2. p \in Pieces /\ p.directive = c /\ c # ""
    BY <1>2, <2>1, Directive
  <2> QED
    BY <2>1, <2>2, PieceFacts
<1>4. CASE StepOver \/ Abort
  <2>1. p \in Pieces /\ input[idx_input] = PartFormat(p)[1] /\ input[idx_input] = "%"
    BY <1>2, <1>4 DEF AtPiece, StepOver, Abort
  <2>2. p.directive # ""
    BY <2>1, PieceFacts
  <2>3. PartFormat(p)[2] = p.directive
    BY <2>1, <2>2, PieceFacts
  <2>4. idx_input < Len(input) /\ input[idx_input + 1] = p.directive /\ idx_input \in Int
        /\ Len(input) \in Int
    <3>1. idx_input < Len(input) /\ input[idx_input + 1] = PartFormat(p)[2]
      BY <1>2, <2>2, Zenon DEF AtPiece
    <3>2. input \in Seq(Characters) /\ idx_input \in 1 .. Len(input) + 1
      BY DEF Logging, Typed
    <3> QED
      BY <2>3, <3>1, <3>2
  <2>5. va_list = << >> /\ p.directive = "s"
    BY <1>4, <2>4 DEF StepOver, Abort
  <2> QED
    BY <1>2, <2>5 DEF AtPiece
<1> QED
  BY <1>3, <1>4

-----------------------------------------------------------------------------
\* What the logger's pass has made goes to the terminal and to the UART.
LEMMA TextsBegin ==
  ASSUME NEW ps \in Seq(Pieces), NEW k \in 0 .. Len(ps)
  PROVE  /\ TextTo(ps, k) \in Seq(Characters) /\ TextTo(ps, Len(ps)) \in Seq(Characters)
         /\ Begins(TextTo(ps, k), TextTo(ps, Len(ps)))
<1> DEFINE n == Len(ps)
           W == Upto(Texts(ps))
           parts == Texts(ps)
<1>1. Joined(W, Characters, n, parts) /\ parts \in [1 .. n -> Seq(Characters)] /\ n \in Nat
      /\ n \in k .. n /\ n \in 0 .. n
  BY ForPieces
<1> HIDE DEF W, parts, n
<1>2. k \in 0 .. n
  BY DEF n
<1>3. Begins(W[k], W[n])
  BY <1>1, <1>2, UptoPrefix
<1>4. W[k] \in Seq(Characters) /\ W[n] \in Seq(Characters)
  BY <1>1, <1>2 DEF Joined
<1> QED
  BY <1>3, <1>4 DEF TextTo, W, n

\* A run of % of even length, before place k, told by its first place a.
LEMMA EvenRun ==
  ASSUME NEW t, NEW k \in Nat, NEW n \in Nat, NEW a, a = k - 2 * n, a > 0, NEW last, last = k - 1,
         Percents(t, a, last), NEW b, b = a - 1, b > 0 => t[b] # "%"
  PROVE  EvenBefore(t, k)
<1>1. 2 * n < k /\ (2 * n + 1 < k => b > 0) /\ k - 2 * n - 1 = b
  <2> DEFINE d == 2 * n
  <2>1. d \in Nat /\ a = k - d
    OBVIOUS
  <2> HIDE DEF d
  <2>2. d < k /\ (d + 1 < k => b > 0) /\ k - d - 1 = b
    BY <2>1
  <2> QED
    BY <2>2 DEF d
<1> QED
  BY <1>1 DEF EvenBefore

LEMMA EvenRunIs ==
  ASSUME NEW t, NEW k \in Nat, EvenBefore(t, k)
  PROVE  \E n \in Nat, a \in Nat : /\ a = k - 2 * n /\ a > 0
                                  /\ Percents(t, a, k - 1) /\ (a - 1 > 0 => t[a - 1] # "%")
<1> SUFFICES ASSUME NEW n \in Nat,
                    2 * n < k,
                    Percents(t, k - 2 * n, k - 1),
                    2 * n + 1 < k => t[k - 2 * n - 1] # "%"
             PROVE  \E a \in Nat : /\ a = k - 2 * n /\ a > 0
                                   /\ Percents(t, a, k - 1) /\ (a - 1 > 0 => t[a - 1] # "%")
  BY Zenon DEF EvenBefore
<1> DEFINE d == 2 * n
<1>2. d < k /\ Percents(t, k - d, k - 1) /\ (d + 1 < k => t[k - d - 1] # "%")
  BY Zenon
<1>3. d \in Nat
  OBVIOUS
<1> HIDE DEF d
<1>4. k - d \in Nat /\ k - d > 0 /\ (k - d - 1 > 0 => d + 1 < k)
  BY <1>2, <1>3
<1>5. PICK a \in Nat : a = k - d
  BY <1>4
<1>6. a > 0 /\ Percents(t, a, k - 1) /\ (a - 1 > 0 => t[a - 1] # "%")
  BY <1>2, <1>4, <1>5, Zenon
<1>7. a = k - 2 * n
  BY <1>5, Zenon DEF d
<1> QED
  BY <1>6, <1>7, Zenon

LEMMA EvenAtFirst ==
  ASSUME NEW t
  PROVE  EvenBefore(t, 1)
<1>1. Percents(t, 1, 0) /\ 1 = 1 - 2 * 0 /\ 1 > 0 /\ 0 = 1 - 1 /\ ~(0 > 0)
  BY DEF Percents
<1> QED
  BY <1>1, EvenRun

\* The next character is no %.
LEMMA EvenBehindOther ==
  ASSUME NEW t, NEW k \in Nat, k >= 1, t[k] # "%"
  PROVE  EvenBefore(t, k + 1)
<1> DEFINE j == k + 1
<1>1. j \in Nat /\ 0 \in Nat /\ j = j - 2 * 0 /\ j > 0 /\ k = j - 1
  OBVIOUS
<1>2. Percents(t, j, k)
  BY DEF Percents
<1> HIDE DEF j
<1>3. EvenBefore(t, j)
  BY <1>1, <1>2, EvenRun
<1> QED
  BY <1>3 DEF j

\* The next two are %.
LEMMA EvenBehindPercents ==
  ASSUME NEW t, NEW k \in Nat, k >= 1, t[k] = "%", t[k + 1] = "%", EvenBefore(t, k)
  PROVE  EvenBefore(t, k + 2)
<1>1. PICK n \in Nat, a \in Nat : /\ a = k - 2 * n /\ a > 0
                                 /\ Percents(t, a, k - 1) /\ (a - 1 > 0 => t[a - 1] # "%")
  BY EvenRunIs
<1> DEFINE m == n + 1
           j == k + 2
           last == k + 1
           b == a - 1
<1>2. m \in Nat /\ j \in Nat /\ a = j - 2 * m /\ last = j - 1 /\ b = a - 1
  BY <1>1
<1>3. Percents(t, a, last)
  <2>1. \A i \in a .. k + 1 : i \in a .. k - 1 \/ i = k \/ i = k + 1
    BY <1>1
  <2>2. \A i \in a .. k - 1 : t[i] = "%"
    BY <1>1 DEF Percents
  <2>3. \A i \in a .. k + 1 : t[i] = "%"
    BY <2>1, <2>2
  <2> QED
    BY <2>3 DEF Percents
<1>4. b > 0 => t[b] # "%"
  BY <1>1
<1> HIDE DEF m, j, last, b
<1>5. EvenBefore(t, j)
  BY <1>1, <1>2, <1>3, <1>4, EvenRun
<1> QED
  BY <1>5 DEF j

\* A last % behind an even number of them has no letter.
LEMMA OddAtEnd ==
  ASSUME NEW t \in Seq(Characters), Len(t) >= 1, t[Len(t)] = "%", EvenBefore(t, Len(t))
  PROVE  EndsInHalfADirective(t)
<1> DEFINE k == Len(t)
<1>1. k \in Nat /\ t[k] = "%" /\ EvenBefore(t, k)
  OBVIOUS
<1> HIDE DEF k
<1>2. PICK n \in Nat, a \in Nat : /\ a = k - 2 * n /\ a > 0
                                 /\ Percents(t, a, k - 1) /\ (a - 1 > 0 => t[a - 1] # "%")
  BY <1>1, EvenRunIs
<1>3. Percents(t, a, k)
  <2>1. \A i \in a .. k : i \in a .. k - 1 \/ i = k
    BY <1>1, <1>2
  <2>2. \A i \in a .. k - 1 : t[i] = "%"
    BY <1>2 DEF Percents
  <2>3. \A i \in a .. k : t[i] = "%"
    BY <1>1, <2>1, <2>2
  <2> QED
    BY <2>3 DEF Percents
<1>4. n \in 0 .. k /\ 2 * n < k /\ (2 * n + 1 < k => a - 1 > 0)
  <2> DEFINE d == 2 * n
  <2>1. d \in Nat /\ n <= d /\ a = k - d
    BY <1>2
  <2> HIDE DEF d
  <2>2. n \in 0 .. k /\ d < k /\ (d + 1 < k => a - 1 > 0)
    BY <1>1, <1>2, <2>1
  <2> QED
    BY <2>2 DEF d
<1>5. Percents(t, k - 2 * n, k) /\ (2 * n + 1 < k => t[k - 2 * n - 1] # "%")
  BY <1>2, <1>3, <1>4
<1> QED
  BY <1>4, <1>5 DEF EndsInHalfADirective, k

LEMMA SendLogging ==
  ASSUME Logging, UartSend
  PROVE  Logging'
<1>1. /\ pass = "log" /\ ~InLoop /\ text' = output /\ pass' = "uart" /\ input' = output
      /\ va_list' = << >> /\ idx_input' = 1 /\ output' = << >> /\ terminated' = FALSE
      /\ UNCHANGED << pieces, overrun >>
  BY DEF UartSend, Finished
<1>2. /\ pieces \in Seq(Pieces) /\ pieces # << >> /\ Fits(output) /\ input = Format(pieces)
      /\ overrun \subseteq {<< 10, 10 >>, << 18, 18 >>}
  BY <1>1 DEF Logging, Typed, Logged
<1>3. PICK k \in 0 .. Len(pieces) : Behind(k)
  BY <1>1 DEF Logging, Logged
<1>4. << >> \in Seq(Characters) /\ Len(<< >>) = 0 /\ Fits(<< >>)
  <2>1. << >> \in Seq(Characters) /\ Len(<< >>) = 0
    OBVIOUS
  <2> QED
    BY <2>1, LoggerAssumption DEF Fits
<1>5. Typed'
  <2>1. input' \in Seq(Characters)
    BY <1>1, <1>2 DEF Fits
  <2>2. Len(input') \in Nat
    BY <2>1
  <2>3. idx_input' \in 1 .. Len(input') + 1
    BY <1>1, <2>2
  <2>4. Fits(output') /\ Fits(text')
    BY <1>1, <1>2, <1>4, Zenon
  <2> QED
    BY <1>1, <1>2, <2>1, <2>3, <2>4 DEF Typed, Fits, Fresh
<1>6. ASSUME ConversionsRight
      PROVE  text' = Expected'
  <2>2. output = Cut(TextTo(pieces, k))
    BY <1>3, <1>6 DEF Behind
  <2>3. Expected = Cut(TextTo(pieces, Len(pieces)))
    <3>1. Expected = Cut(Concat(Texts(pieces)))
      BY Zenon DEF Expected, Cut, Texts
    <3>2. Concat(Texts(pieces)) = TextTo(pieces, Len(pieces))
      BY <1>2, ForPieces DEF TextTo
    <3> QED
      BY <3>1, <3>2
  <2>4. Expected' = Expected
    BY <1>1 DEF Expected
  <2>5. CASE k = Len(pieces)
    BY <1>1, <2>2, <2>3, <2>4, <2>5
  <2>6. CASE k # Len(pieces)
    <3>1. k < Len(pieces)
      BY <1>2, <2>6
    <3>2. FormatTo(pieces, k) < Len(Format(pieces)) /\ FormatTo(pieces, k) \in Nat
      <4> DEFINE p == pieces[k + 1]
      <4>1. FormatTo(pieces, k) \in Nat
        BY <1>2, <3>1, NextFormat
      <4> QED
        BY <1>2, <3>1, <4>1, MoreFormat
    <3>3. idx_input <= Len(input)
      <4>1. Len(input) \in Nat /\ idx_input = FormatTo(pieces, k) + 1
            /\ FormatTo(pieces, k) < Len(input)
        <5>1. input \in Seq(Characters)
          BY DEF Logging, Typed
        <5>2. Len(input) \in Nat
          BY <5>1
        <5> QED
          BY <1>2, <1>3, <3>2, <5>2 DEF Behind
      <4> QED
        BY <3>2, <4>1
    <3>4. ~(Room(Len(output)) > 0)
      BY <1>1, <3>3 DEF InLoop
    <3>5. Len(output) >= MAX_TEXT_LENGTH - 1
      <4>1. output \in Seq(Characters)
        BY <1>2 DEF Fits
      <4>2. Len(output) \in Nat
        BY <4>1
      <4> QED
        BY <3>4, <4>2, LoggerAssumption DEF Room
    <3> DEFINE w == TextTo(pieces, k)
               v == TextTo(pieces, Len(pieces))
    <3>6. w \in Seq(Characters) /\ v \in Seq(Characters) /\ Begins(w, v)
      BY <1>2, TextsBegin
    <3>7. output = Cut(w) /\ Expected = Cut(v)
      BY <2>2, <2>3
    <3> HIDE DEF w, v
    <3>8. Cut(w) = Cut(v)
      BY <3>5, <3>6, <3>7, CutFull
    <3> QED
      BY <1>1, <2>4, <3>7, <3>8
  <2> QED
    BY <2>5, <2>6
<1>7. Repeating'
  <2>1. ASSUME NEW n \in 1 .. Len(text') PROVE Copied(n)'
    <3>1. n \in Nat /\ n >= 1
      BY <1>1, <1>2 DEF Fits
    <3>2. \A i \in 1 .. n : ~(i <= Len(output'))
      BY <1>1, <1>4, <3>1
    <3>3. Len(output') = idx_input' - 1 /\ idx_input' <= n /\ ~(idx_input' = n + 1)
      BY <1>1, <1>4, <3>1
    <3> QED
      BY <1>1, <3>2, <3>3 DEF Copied
  <2>2. Within'
    <3>1. EvenBefore(text', 1)
      BY EvenAtFirst
    <3> QED
      BY <1>1, <3>1 DEF Within
  <2> QED
    BY <1>1, <1>6, <2>1, <2>2 DEF Repeating
<1> QED
  BY <1>1, <1>5, <1>7 DEF Logging, Logged

\* A text that ends in half a directive is not plain, and not empty.
LEMMA HalfNotPlain ==
  ASSUME EndsInHalfADirective(text), text \in Seq(Characters)
  PROVE  ~Plain(Len(text)) /\ Len(text) >= 1
<1>1. PICK n \in 0 .. Len(text) :
        2 * n < Len(text) /\ \A i \in Len(text) - 2 * n .. Len(text) : text[i] = "%"
  BY DEF EndsInHalfADirective, Percents
<1>2. Len(text) \in Nat /\ Len(text) \in 1 .. Len(text) /\ Len(text) \in Len(text) - 2 * n .. Len(text)
  BY <1>1
<1> QED
  BY <1>1, <1>2 DEF Plain

\* In the UART's pass the input begins with the text.
LEMMA UartInput ==
  ASSUME Logging, pass = "uart"
  PROVE  /\ input \in Seq(Characters) /\ text \in Seq(Characters) /\ output \in Seq(Characters)
         /\ Len(input) \in Nat /\ Len(text) \in Nat /\ Len(output) \in Nat /\ idx_input \in Nat
         /\ Len(text) <= Len(input) /\ \A i \in 1 .. Len(text) : input[i] = text[i]
         /\ Plain(Len(text)) => input = text
         /\ InLoop => Len(text) >= 1
<1>1. /\ input \in Seq(Characters) /\ text \in Seq(Characters) /\ output \in Seq(Characters)
      /\ idx_input \in 1 .. Len(input) + 1 /\ Within
  BY DEF Logging, Typed, Repeating, Fits
<1>2. Len(input) \in Nat /\ Len(text) \in Nat /\ Len(output) \in Nat /\ idx_input \in Nat /\ idx_input >= 1
  BY <1>1
<1>3. CASE input = text
  <2>1. InLoop => Len(text) >= 1
    BY <1>2, <1>3 DEF InLoop
  <2> QED
    BY <1>1, <1>2, <1>3, <2>1
<1>4. CASE EndsInHalfADirective(text) /\ Begins(text, input)
  BY <1>1, <1>2, <1>4, HalfNotPlain DEF Begins
<1> QED
  BY <1>1, <1>3, <1>4 DEF Within

\* What Put appends leaves the text as it is.
LEMMA PutGoesOn ==
  ASSUME Fits(output), NEW s \in Seq(Characters), Put(s)
  PROVE  /\ Len(output') \in Nat /\ Len(output') >= Len(output)
         /\ \A i \in 1 .. Len(output) : output'[i] = output[i]
<1> DEFINE m == IF Len(s) < Room(Len(output)) THEN Len(s) ELSE Room(Len(output))
           d == SubSeq(s, 1, m)
<1>1. m \in 0 .. Len(s)
  BY LoggerAssumption DEF Fits, Room
<1> HIDE DEF m
<1>2. d \in Seq(Characters)
  BY <1>1, FirstOnes
<1>3. output' = output \o d /\ output \in Seq(Characters)
  BY DEF Put, m, Fits
<1> HIDE DEF d
<1>4. /\ Len(output') = Len(output) + Len(d) /\ Len(d) \in Nat /\ Len(output) \in Nat
      /\ \A i \in 1 .. Len(output) + Len(d) :
           output'[i] = IF i <= Len(output) THEN output[i] ELSE d[i - Len(output)]
  BY <1>2, <1>3, ConcatProperties
<1> QED
  BY <1>4

\* The UART's pass copies the characters before the first %.
LEMMA UartLiteral ==
  ASSUME Logging, pass = "uart", Literal
  PROVE  Logging'
<1>1. /\ input[idx_input] # "%" /\ Put(<< input[idx_input] >>) /\ idx_input' = idx_input + 1
      /\ UNCHANGED << pieces, pass, input, va_list, text, sent, overrun >> /\ terminated' = TRUE
      /\ idx_input <= Len(input) /\ Room(Len(output)) > 0 /\ InLoop
  BY DEF Literal, InLoop, Terminate
<1>2. /\ Typed /\ Repeating /\ input \in Seq(Characters) /\ text \in Seq(Characters)
      /\ idx_input \in 1 .. Len(input) + 1 /\ Fits(output) /\ va_list = << >> /\ Within
  BY DEF Logging, Repeating, Typed, Fits
<1>3. idx_input \in 1 .. Len(input) /\ idx_input + 1 \in 1 .. Len(input) + 1
  BY <1>1, <1>2
<1> DEFINE c == input[idx_input]
           s == << c >>
<1>4. c \in Characters
  BY <1>2, <1>3
<1> HIDE DEF c
<1>5. s \in Seq(Characters) /\ Len(s) = 1 /\ s[1] = c
  BY <1>4
<1> HIDE DEF s
<1>6. Put(s)
  BY <1>1 DEF s, c
<1>7. Fits(output')
  BY <1>2, <1>5, <1>6, PutFits
<1>8. Typed'
  BY <1>1, <1>2, <1>3, <1>7 DEF Typed, Fits
<1>9. output \in Seq(Characters) /\ Len(output) \in Nat
  <2>1. output \in Seq(Characters)
    BY <1>2 DEF Fits
  <2> QED
    BY <2>1
<1>10. output' = output \o s
  <2>1. Room(Len(output)) \in Int
    BY <1>9, LoggerAssumption DEF Room
  <2>2. (IF Len(s) < Room(Len(output)) THEN Len(s) ELSE Room(Len(output))) = 1
    BY <1>1, <1>5, <2>1
  <2>3. SubSeq(s, 1, 1) = s
    <3>1. SubSeq(s, 1, 1) \in Seq(Characters) /\ Len(SubSeq(s, 1, 1)) = 1
          /\ \A i \in 1 .. 1 : SubSeq(s, 1, 1)[i] = s[i]
      BY <1>5, FirstOnes
    <3> QED
      BY <1>5, <3>1, SameSequence
  <2> QED
    BY <1>6, <2>2, <2>3 DEF Put
<1>11. /\ Len(output') = Len(output) + 1 /\ output'[Len(output) + 1] = c
       /\ \A i \in 1 .. Len(output) : output'[i] = output[i]
  <2>1. /\ Len(output') = Len(output) + Len(s)
        /\ \A i \in 1 .. Len(output) + Len(s) :
             output'[i] = IF i <= Len(output) THEN output[i] ELSE s[i - Len(output)]
    BY <1>5, <1>9, <1>10, ConcatProperties
  <2> QED
    BY <1>5, <1>9, <2>1
<1>12. ASSUME NEW n \in 1 .. Len(text), Plain(n)
       PROVE  Copied(n)'
  <2>1. /\ \A i \in 1 .. n : i <= Len(output) => output[i] = text[i]
        /\ IF idx_input <= n THEN Len(output) = idx_input - 1 ELSE Len(output) >= n
        /\ idx_input = n + 1 => Len(output) = n
    BY <1>2, <1>12 DEF Repeating, Copied
  <2>2. n \in Nat /\ idx_input \in Nat /\ idx_input >= 1
    BY <1>2
  <2>3. idx_input <= n => c = text[idx_input]
    <3>1. \A i \in 1 .. Len(text) : input[i] = text[i]
      BY UartInput
    <3>2. idx_input <= n => idx_input \in 1 .. Len(text)
      BY <1>2, <2>2
    <3> QED
      BY <3>1, <3>2 DEF c
  <2>4. ASSUME NEW i \in 1 .. n, i <= Len(output') PROVE output'[i] = text[i]
    <3>1. CASE i <= Len(output)
      BY <1>11, <2>1, <2>4, <3>1
    <3>2. CASE ~(i <= Len(output))
      <4>1. i = Len(output) + 1 /\ Len(output) < n
        BY <1>9, <1>11, <2>2, <2>4, <3>2
      <4>2. idx_input <= n /\ i = idx_input
        BY <1>9, <2>1, <2>2, <4>1
      <4> QED
        BY <1>11, <2>3, <4>1, <4>2
    <3> QED
      BY <3>1, <3>2
  <2>5. /\ IF idx_input + 1 <= n THEN Len(output') = idx_input ELSE Len(output') >= n
        /\ idx_input + 1 = n + 1 => Len(output') = n
    BY <1>9, <1>11, <2>1, <2>2
  <2>6. (idx_input + 1) - 1 = idx_input
    BY <2>2
  <2> QED
    BY <1>1, <2>4, <2>5, <2>6 DEF Copied
<1>13. (\A n : Plain(n)' = Plain(n)) /\ Expected' = Expected
  BY <1>1 DEF Plain, Expected
<1>14. Within'
  <2>1. CASE input = text
    <3>1. EvenBefore(text, idx_input + 1)
      <4>1. text[idx_input] # "%" /\ idx_input \in Nat /\ idx_input >= 1
        BY <1>1, <1>2, <2>1
      <4> QED
        BY <4>1, EvenBehindOther
    <3> QED
      BY <1>1, <2>1, <3>1 DEF Within
  <2>2. CASE EndsInHalfADirective(text) /\ Begins(text, input)
    BY <1>1, <2>2 DEF Within
  <2> QED
    BY <1>2, <2>1, <2>2 DEF Within
<1>16. text # << >>
  BY <1>1, UartInput
<1>15. Repeating'
  BY <1>1, <1>2, <1>12, <1>13, <1>14, <1>16 DEF Repeating
<1> QED
  BY <1>1, <1>8, <1>15 DEF Logging, Logged

\* Where the UART's pass meets a %, the characters before the first one are
\* copied, and the whole text has one.
LEMMA UartPercent ==
  ASSUME Logging, pass = "uart", input[idx_input] = "%", idx_input <= Len(input),
         NEW n \in 1 .. Len(text), Plain(n)
  PROVE  /\ n \in Nat /\ idx_input \in Nat /\ n < idx_input /\ n < Len(text) /\ n <= Len(output)
         /\ \A i \in 1 .. n : output[i] = text[i]
<1>1. /\ input \in Seq(Characters) /\ text \in Seq(Characters) /\ output \in Seq(Characters)
      /\ Len(input) \in Nat /\ Len(text) \in Nat /\ Len(output) \in Nat /\ idx_input \in Nat
      /\ \A i \in 1 .. Len(text) : input[i] = text[i]
      /\ Plain(Len(text)) => input = text
  BY UartInput
<1>2. idx_input >= 1 /\ n \in Nat
  BY <1>1 DEF Logging, Typed
<1>3. n < idx_input
  <2> SUFFICES ASSUME ~(n < idx_input) PROVE FALSE
    OBVIOUS
  <2>1. idx_input \in 1 .. n /\ idx_input \in 1 .. Len(text)
    BY <1>1, <1>2
  <2> QED
    BY <1>1, <2>1 DEF Plain
<1>4. n < Len(text)
  <2> SUFFICES ASSUME n = Len(text) PROVE FALSE
    BY <1>1, <1>2
  <2>1. input = text
    BY <1>1
  <2> QED
    BY <1>1, <1>2, <1>3, <2>1
<1>5. n <= Len(output) /\ \A i \in 1 .. n : i <= Len(output) => output[i] = text[i]
  BY <1>1, <1>2, <1>3 DEF Logging, Repeating, Copied
<1>6. \A i \in 1 .. n : i <= Len(output)
  BY <1>1, <1>2, <1>5
<1> QED
  BY <1>1, <1>2, <1>3, <1>4, <1>5, <1>6

\* From there on it stays so, as long as the output only grows.
LEMMA CopiedGoesOn ==
  ASSUME Logging, pass = "uart", input[idx_input] = "%", idx_input <= Len(input), InLoop,
         UNCHANGED << text, sent, pass >>, idx_input' = idx_input + 2,
         Len(output') \in Nat, Len(output') >= Len(output),
         \A i \in 1 .. Len(output) : output'[i] = output[i]
  PROVE  (\A n \in 1 .. Len(text) : Plain(n) => Copied(n)') /\ text # << >>
<1>1. ASSUME NEW n \in 1 .. Len(text), Plain(n) PROVE Copied(n)'
  <2>1. /\ n \in Nat /\ idx_input \in Nat /\ n < idx_input /\ n <= Len(output) /\ Len(output) \in Nat
        /\ \A i \in 1 .. n : output[i] = text[i]
    BY <1>1, UartPercent, UartInput
  <2>2. ~(idx_input' <= n) /\ Len(output') >= n /\ ~(idx_input' = n + 1)
    BY <2>1
  <2>3. \A i \in 1 .. n : output'[i] = text[i]
    <3>1. \A i \in 1 .. n : i \in 1 .. Len(output)
      BY <2>1
    <3> QED
      BY <2>1, <3>1
  <2> QED
    BY <2>2, <2>3 DEF Copied
<1>2. text # << >>
  BY UartInput
<1> QED
  BY <1>1, <1>2

\* There the text that s becomes is put, and the letter skipped.
LEMMA UartDirective ==
  ASSUME Logging, pass = "uart", NEW c, IsDirective(c), va_list' = << >>,
         NEW s, s \in Seq(Characters), Put(s),
         overrun' \subseteq {<< 10, 10 >>, << 18, 18 >>}
  PROVE  Logging'
<1>1. /\ input[idx_input] = "%" /\ idx_input < Len(input) /\ input[idx_input + 1] = c
      /\ idx_input' = idx_input + 2 /\ InLoop /\ idx_input <= Len(input)
      /\ UNCHANGED << pieces, pass, input, text, sent >> /\ terminated' = TRUE
  BY DEF IsDirective, Terminate, InLoop
<1>2. /\ Typed /\ Repeating /\ Within /\ input \in Seq(Characters) /\ text \in Seq(Characters)
      /\ idx_input \in 1 .. Len(input) + 1 /\ Fits(output)
  BY DEF Logging, Repeating, Typed, Fits
<1>3. Len(input) \in Nat /\ idx_input \in Nat /\ idx_input >= 1
  BY <1>2
<1>4. (\A n \in 1 .. Len(text) : Plain(n) => Copied(n)') /\ text # << >>
  BY <1>1, <1>2, PutGoesOn, CopiedGoesOn
<1>5. Typed'
  <2>1. idx_input' \in 1 .. Len(input) + 1
    BY <1>1, <1>3
  <2>2. Fits(output')
    BY <1>2, PutFits
  <2> QED
    BY <1>1, <1>2, <2>1, <2>2 DEF Typed, Fits
<1>6. Within'
  <2>1. CASE EndsInHalfADirective(text) /\ Begins(text, input)
    BY <1>1, <2>1 DEF Within
  <2>2. CASE input = text /\ EvenBefore(text, idx_input)
    <3>1. CASE c = "%"
      <4>1. EvenBefore(text, idx_input + 2)
        BY <1>1, <1>3, <2>2, <3>1, EvenBehindPercents
      <4> QED
        BY <1>1, <2>2, <4>1 DEF Within
    <3>2. CASE c # "%"
      <4>1. idx_input + 1 \in Nat /\ idx_input + 1 >= 1 /\ (idx_input + 1) + 1 = idx_input + 2
        BY <1>3
      <4>2. text[idx_input + 1] # "%"
        BY <1>1, <2>2, <3>2
      <4>3. EvenBefore(text, idx_input + 2)
        <5> DEFINE k == idx_input + 1
        <5>1. k \in Nat /\ k >= 1 /\ text[k] # "%" /\ k + 1 = idx_input + 2
          BY <4>1, <4>2
        <5> HIDE DEF k
        <5>2. EvenBefore(text, k + 1)
          BY <5>1, EvenBehindOther
        <5> QED
          BY <5>1, <5>2
      <4> QED
        BY <1>1, <2>2, <4>3 DEF Within
    <3> QED
      BY <3>1, <3>2
  <2> QED
    BY <1>2, <2>1, <2>2 DEF Within
<1>7. (\A n : Plain(n)' = Plain(n)) /\ Expected' = Expected
  BY <1>1 DEF Plain, Expected
<1>8. Repeating'
  BY <1>1, <1>2, <1>4, <1>6, <1>7 DEF Repeating
<1> QED
  BY <1>1, <1>5, <1>8 DEF Logging, Logged

\* No argument is left: what is taken is chosen.
LEMMA UartTakes ==
  ASSUME Logging, pass = "uart", NEW left
  PROVE  Argument(left) = left /\ (Takes => va_list' = << >>)
  BY DEF Logging, Repeating, Argument, Takes

LEMMA UartText ==
  ASSUME Logging, pass = "uart", NEW c, IsDirective(c), Takes, UNCHANGED overrun,
         NEW arg \in Argument(Garbage), Put(arg)
  PROVE  Logging'
<1>1. arg \in Seq(Characters)
  BY LoggerAssumption, UartTakes, StringsOfCharacters
<1>2. va_list' = << >> /\ overrun' \subseteq {<< 10, 10 >>, << 18, 18 >>}
  BY UartTakes DEF Logging, Typed
<1> QED
  BY <1>1, <1>2, UartDirective

LEMMA UartNumber ==
  ASSUME Logging, pass = "uart", NEW c, IsDirective(c), Takes,
         NEW s, s \in Seq(Characters), NEW size \in {10, 18}, Len(s) <= size, Convert(s, size)
  PROVE  Logging'
<1>1. overrun \subseteq {<< 10, 10 >>, << 18, 18 >>}
  BY DEF Logging, Typed
<1>2. Put(s) /\ overrun' \subseteq {<< 10, 10 >>, << 18, 18 >>}
  BY <1>1, ConvertFacts
<1>3. va_list' = << >>
  BY UartTakes
<1> QED
  BY <1>2, <1>3, UartDirective

LEMMA UartUnsigned ==
  ASSUME Logging, pass = "uart", Unsigned
  PROVE  Logging'
<1>1. PICK arg \in Argument(Leftovers) : Convert(int_to_str(arg), 10)
  BY DEF Unsigned
<1>2. arg \in Int /\ arg <= IntMax
  <2>1. IntMax \in Int
    BY SMT DEF IntMax
  <2>2. arg \in -IntMax - 1 .. IntMax
    BY LoggerAssumption, UartTakes
  <2> QED
    BY <2>1, <2>2
<1> DEFINE s == int_to_str(arg)
           c == "u"
           size == 10
<1>3. s \in Seq(Characters) /\ Len(s) <= size /\ size \in {10, 18}
  BY <1>2, DecimalLength
<1>4. IsDirective(c) /\ Takes /\ Convert(s, size)
  BY <1>1 DEF Unsigned
<1> HIDE DEF s, c, size
<1> QED
  BY <1>3, <1>4, UartNumber

LEMMA UartHex ==
  ASSUME Logging, pass = "uart", NEW c, NEW digits, NEW size,
         \/ digits = 8 /\ size = 10
         \/ digits = 16 /\ size = 18,
         IsDirective(c), Takes, NEW arg \in Argument(Leftovers), Convert(to_hex(arg, digits), size)
  PROVE  Logging'
<1>1. arg \in Int
  <2>1. IntMax \in Int
    BY SMT DEF IntMax
  <2>2. arg \in -IntMax - 1 .. IntMax
    BY LoggerAssumption, UartTakes
  <2> QED
    BY <2>1, <2>2
<1> DEFINE s == to_hex(arg, digits)
<1>2. digits \in Nat /\ digits + 2 = size /\ size \in {10, 18}
  OBVIOUS
<1>3. s \in Seq(Characters) /\ Len(s) = digits + 2
  BY <1>1, <1>2, HexLength
<1> HIDE DEF s
<1>4. Len(s) <= size /\ Convert(s, size)
  BY <1>2, <1>3 DEF s
<1> QED
  BY <1>2, <1>3, <1>4, UartNumber

LEMMA UartPercentUnknown ==
  ASSUME Logging, pass = "uart", Percent \/ Unknown
  PROVE  Logging'
<1>1. va_list = << >> /\ overrun \subseteq {<< 10, 10 >>, << 18, 18 >>}
  BY DEF Logging, Repeating, Typed
<1>2. CASE Percent
  <2> DEFINE s == << "%" >>
             c == "%"
  <2>1. s \in Seq(Characters)
    <3>1. "%" \in Characters
      BY LoggerAssumption
    <3> QED
      BY <3>1
  <2>2. IsDirective(c) /\ Put(s) /\ va_list' = << >> /\ overrun' \subseteq {<< 10, 10 >>, << 18, 18 >>}
    BY <1>1, <1>2 DEF Percent
  <2> HIDE DEF s, c
  <2> QED
    BY <2>1, <2>2, UartDirective
<1>3. CASE Unknown
  <2>1. PICK c : IsDirective(c)
    BY <1>3 DEF Unknown
  <2>2. /\ va_list' = << >> /\ overrun' \subseteq {<< 10, 10 >>, << 18, 18 >>}
        /\ output' = output
    BY <1>1, <1>3 DEF Unknown
  <2> DEFINE s == SubSeq(output, 1, 0)
  <2>3. Put(s) /\ s \in Seq(Characters)
    <3>1. output \in Seq(Characters) /\ Len(output) < MAX_TEXT_LENGTH
      BY DEF Logging, Typed, Fits
    <3>2. s = << >> /\ s \in Seq(Characters) /\ Len(s) = 0
      BY <3>1
    <3>3. 0 \in Int /\ Room(Len(output)) >= 0 /\ Room(Len(output)) \in Int
      <4>1. Len(output) \in Nat
        BY <3>1
      <4> QED
        BY <3>1, <4>1, LoggerAssumption DEF Room
    <3>4. SubSeq(<< >>, 1, 0) = << >> /\ output \o << >> = output
      BY <3>1
    <3>5. (IF Len(s) < Room(Len(output)) THEN Len(s) ELSE Room(Len(output))) = 0
      BY <3>2, <3>3
    <3> HIDE DEF s
    <3> QED
      BY <2>2, <3>2, <3>4, <3>5 DEF Put
  <2> HIDE DEF s
  <2> QED
    BY <2>1, <2>2, <2>3, UartDirective
<1> QED
  BY <1>2, <1>3

\* Stepping over the terminator: the text ends in half a directive.
LEMMA UartStepOver ==
  ASSUME Logging, pass = "uart", StepOver
  PROVE  Logging'
<1>1. PICK g \in Garbage : input' = (input \o << NUL >>) \o g
  BY DEF StepOver
<1>2. /\ input[idx_input] = "%" /\ idx_input = Len(input) /\ idx_input' = idx_input + 2 /\ InLoop
      /\ UNCHANGED << pieces, pass, va_list, output, text, sent, overrun >> /\ terminated' = TRUE
  BY DEF StepOver, Terminate
<1>3. /\ Typed /\ Repeating /\ Within /\ input \in Seq(Characters) /\ text \in Seq(Characters)
      /\ idx_input \in 1 .. Len(input) + 1
  BY DEF Logging, Repeating, Typed, Fits
<1>4. Len(input) \in Nat /\ Len(input) >= 1
  BY <1>2, <1>3
<1>5. EndsInHalfADirective(text)
  <2>1. CASE input = text
    <3>1. text[Len(text)] = "%" /\ Len(text) >= 1
      BY <1>2, <1>4, <2>1
    <3>2. CASE EvenBefore(text, idx_input)
      <4>1. EvenBefore(text, Len(text))
        BY <1>2, <2>1, <3>2
      <4> QED
        BY <1>3, <3>1, <4>1, OddAtEnd
    <3> QED
      BY <1>3, <3>2 DEF Within
  <2> QED
    BY <1>3, <2>1 DEF Within
<1>6. input' \in Seq(Characters) /\ idx_input' \in 1 .. Len(input') + 1 /\ Begins(text, input')
  <2>1. g \in Seq(Characters) /\ << NUL >> \in Seq(Characters) /\ Len(<< NUL >>) = 1
    <3>1. NUL \in Characters /\ g \in Strings
      BY LoggerAssumption
    <3> QED
      BY <3>1, StringsOfCharacters
  <2>2. /\ input \o << NUL >> \in Seq(Characters)
        /\ Len(input \o << NUL >>) = Len(input) + 1
        /\ \A m \in 1 .. Len(input) : (input \o << NUL >>)[m] = input[m]
    BY <1>3, <1>4, <2>1, ConcatProperties
  <2> DEFINE i == input \o << NUL >>
  <2> HIDE DEF i
  <2>3. /\ i \o g \in Seq(Characters) /\ Len(i \o g) = Len(i) + Len(g) /\ Len(g) \in Nat
        /\ \A m \in 1 .. Len(i) + Len(g) : (i \o g)[m] = IF m <= Len(i) THEN i[m] ELSE g[m - Len(i)]
    BY <2>1, <2>2, ConcatProperties DEF i
  <2>4. /\ input' = i \o g /\ Len(i) = Len(input) + 1
        /\ \A m \in 1 .. Len(input) : i[m] = input[m]
    BY <1>1, <2>2 DEF i
  <2>5. Len(input') >= Len(input) /\ \A m \in 1 .. Len(input) : input'[m] = input[m]
    BY <1>4, <2>3, <2>4
  <2>6. Begins(text, input')
    <3>1. Len(text) <= Len(input) /\ Len(text) \in Nat /\ \A m \in 1 .. Len(text) : input[m] = text[m]
      BY UartInput
    <3>2. \A m \in 1 .. Len(text) : m \in 1 .. Len(input)
      BY <1>4, <3>1
    <3>3. Len(input') \in Nat
      BY <1>4, <2>3, <2>4
    <3> QED
      BY <1>4, <2>5, <3>1, <3>2, <3>3 DEF Begins
  <2> QED
    BY <1>2, <1>4, <2>3, <2>4, <2>6
<1>7. Typed'
  BY <1>2, <1>3, <1>6 DEF Typed, Fits
<1>8. (\A n : Plain(n)' = Plain(n)) /\ Expected' = Expected
  BY <1>2 DEF Plain, Expected
<1>9. Within'
  BY <1>2, <1>5, <1>6 DEF Within
<1>11. (\A n \in 1 .. Len(text) : Plain(n) => Copied(n)') /\ text # << >>
  <2>1. output \in Seq(Characters) /\ idx_input <= Len(input)
    BY <1>2, <1>4, UartInput
  <2>2. Len(output') \in Nat /\ Len(output') >= Len(output)
        /\ \A i \in 1 .. Len(output) : output'[i] = output[i]
    BY <1>2, <2>1
  <2> QED
    BY <1>2, <2>1, <2>2, CopiedGoesOn
<1>10. Repeating'
  BY <1>2, <1>3, <1>8, <1>9, <1>11 DEF Repeating
<1> QED
  BY <1>2, <1>7, <1>10 DEF Logging, Logged

LEMMA UartAbort ==
  ASSUME Logging, pass = "uart", Abort
  PROVE  Logging'
<1>1. /\ input[idx_input] = "%" /\ idx_input < Len(input) /\ pass' = "abort"
      /\ UNCHANGED << pieces, input, va_list, idx_input, output, terminated, text, sent, overrun >>
  BY DEF Abort
<1>2. Typed /\ Repeating /\ Within /\ input \in Seq(Characters) /\ idx_input \in 1 .. Len(input) + 1
  BY DEF Logging, Repeating, Typed
<1>3. \A n \in 1 .. Len(text) : Plain(n) => n < Len(text)
  <2>1. idx_input <= Len(input)
    BY <1>1, <1>2
  <2> QED
    BY <1>1, <2>1, UartPercent
<1>4. Typed'
  BY <1>1, <1>2 DEF Typed, Fits, Fresh
<1>5. (\A n : Plain(n)' = Plain(n)) /\ Expected' = Expected
  BY <1>1 DEF Plain, Expected
<1>6. Within'
  BY <1>1, <1>2 DEF Within
<1>8. \A n \in 1 .. Len(text) : Plain(n) => Copied(n)'
  BY <1>1, <1>3 DEF Copied
<1>7. Repeating'
  BY <1>1, <1>2, <1>5, <1>6, <1>8 DEF Repeating
<1> QED
  BY <1>1, <1>4, <1>7 DEF Logging, Logged

\* When format_string returns without a round, its input is empty.
LEMMA NoRound ==
  ASSUME Logging, pass \in {"log", "uart"}, ~InLoop, ~terminated
  PROVE  pass = "uart" /\ text = << >>
<1>1. idx_input = 1 /\ output = << >> /\ input \in Seq(Characters) /\ pieces \in Seq(Pieces)
      /\ pieces # << >>
  BY DEF Logging, Typed, Fresh
<1>2. Room(Len(output)) > 0
  <2>1. Len(output) = 0
    BY <1>1
  <2> QED
    BY <2>1, LoggerAssumption DEF Room
<1>3. Len(input) \in Nat /\ ~(1 <= Len(input))
  BY <1>1, <1>2 DEF InLoop
<1>4. input = << >>
  BY <1>1, <1>3
<1>5. pass # "log"
  <2> SUFFICES ASSUME pass = "log" PROVE FALSE
    OBVIOUS
  <2>1. Format(pieces) = << >>
    BY <1>4 DEF Logging, Logged
  <2>2. 0 \in 0 .. Len(pieces) /\ 0 < Len(pieces)
    BY <1>1
  <2>3. FormatTo(pieces, 0) \in Nat /\ FormatTo(pieces, 0) < Len(Format(pieces))
    BY <1>1, <2>2, MoreFormat, NextFormat
  <2>4. Len(<< >>) = 0
    OBVIOUS
  <2> DEFINE f == FormatTo(pieces, 0)
  <2> HIDE DEF f
  <2>5. f \in Nat /\ f < 0
    BY <2>1, <2>3, <2>4 DEF f
  <2> QED
    BY <2>5
<1>6. input = text
  BY <1>5 DEF Logging, Repeating, Within
<1> QED
  BY <1>4, <1>5, <1>6

LEMMA SentLogging ==
  ASSUME Logging, put_uart
  PROVE  Logging'
<1>1. /\ pass = "uart" /\ ~InLoop /\ pass' = "sent"
      /\ UNCHANGED << pieces, input, va_list, idx_input, output, terminated, text, overrun >>
      /\ terminated => sent' = output
  BY DEF put_uart, Finished
<1>2. Typed /\ Repeating /\ Within /\ text \in Seq(Characters) /\ Len(text) < MAX_TEXT_LENGTH
      /\ output \in Seq(Characters) /\ idx_input \in 1 .. Len(input) + 1
  BY <1>1 DEF Logging, Repeating, Typed, Fits
<1>3. Len(text) \in Nat /\ Len(output) \in Nat
  BY <1>2
<1>4. ASSUME NEW n \in 1 .. Len(text), Plain(n)
      PROVE  /\ n <= Len(output) /\ SubSeq(output, 1, n) = SubSeq(text, 1, n)
             /\ n = Len(text) => output = text
  <2>1. /\ \A i \in 1 .. n : i <= Len(output) => output[i] = text[i]
        /\ IF idx_input <= n THEN Len(output) = idx_input - 1 ELSE Len(output) >= n
        /\ idx_input = n + 1 => Len(output) = n
    BY <1>1, <1>2, <1>4 DEF Repeating, Copied
  <2>2. /\ Len(input) \in Nat /\ idx_input \in Nat /\ n \in Nat /\ Len(text) <= Len(input)
        /\ Plain(Len(text)) => input = text
    BY <1>1, <1>3, UartInput
  <2>3. n <= Len(output)
    <3>1. CASE ~(idx_input <= Len(input))
      BY <1>3, <2>1, <2>2, <3>1
    <3>2. CASE ~(Room(Len(output)) > 0)
      <4>1. Len(output) >= MAX_TEXT_LENGTH - 1
        BY <1>3, <3>2, LoggerAssumption DEF Room
      <4> QED
        BY <1>2, <1>3, <2>2, <4>1, LoggerAssumption
    <3> QED
      BY <1>1, <3>1, <3>2 DEF InLoop
  <2>4. \A i \in 1 .. n : output[i] = text[i] /\ i \in 1 .. Len(output) /\ i \in 1 .. Len(text)
    BY <1>3, <2>1, <2>2, <2>3
  <2>5. SubSeq(output, 1, n) = SubSeq(text, 1, n)
    <3>1. n \in 0 .. Len(output) /\ n \in 0 .. Len(text)
      BY <1>3, <2>2, <2>3
    <3>2. /\ SubSeq(output, 1, n) \in Seq(Characters) /\ Len(SubSeq(output, 1, n)) = n
          /\ \A i \in 1 .. n : SubSeq(output, 1, n)[i] = output[i]
      BY <1>2, <3>1, FirstOnes
    <3>3. /\ SubSeq(text, 1, n) \in Seq(Characters) /\ Len(SubSeq(text, 1, n)) = n
          /\ \A i \in 1 .. n : SubSeq(text, 1, n)[i] = text[i]
      BY <1>2, <3>1, FirstOnes
    <3> QED
      BY <2>4, <3>2, <3>3, SameSequence
  <2>6. ASSUME n = Len(text) PROVE output = text
    <3>1. idx_input <= n + 1
      BY <1>2, <1>4, <2>2, <2>6
    <3>2. Len(output) = n
      BY <1>3, <2>1, <2>2, <2>3, <3>1
    <3> QED
      BY <1>2, <2>4, <2>6, <3>2, SameSequence
  <2> QED
    BY <2>3, <2>5, <2>6
<1>5. Typed'
  BY <1>1, <1>2 DEF Typed, Fits, Fresh
<1>6. (\A n : Plain(n)' = Plain(n)) /\ Expected' = Expected
  BY <1>1 DEF Plain, Expected
<1>8. Within'
  BY <1>1, <1>2 DEF Within
<1>9. ASSUME NEW n \in 1 .. Len(text), Plain(n) PROVE Copied(n)'
  <2>1. text # << >>
    BY <1>3
  <2>2. terminated
    BY <1>1, <2>1, NoRound
  <2>3. sent' = output
    BY <1>1, <2>2
  <2> QED
    BY <1>1, <1>4, <1>9, <2>3 DEF Copied
<1>7. Repeating'
  BY <1>1, <1>2, <1>6, <1>8, <1>9 DEF Repeating
<1> QED
  BY <1>1, <1>5, <1>7 DEF Logging, Logged

LEMMA NextLogging == Logging /\ [Next]_vars => Logging'
<1> SUFFICES ASSUME Logging, [Next]_vars PROVE Logging'
  OBVIOUS
<1>1. CASE Literal
  <2>1. pass \in {"log", "uart"}
    BY <1>1 DEF Literal, InLoop
  <2> QED
    BY <1>1, <2>1, LogLiteral, UartLiteral
<1>2. ASSUME InLoop PROVE pass \in {"log", "uart"}
  BY <1>2 DEF InLoop
<1>3. ASSUME NEW c, IsDirective(c) PROVE pass \in {"log", "uart"}
  BY <1>2, <1>3 DEF IsDirective
<1>4. CASE String
  <2> DEFINE c == "s"
  <2>1. IsDirective(c) /\ Takes /\ UNCHANGED overrun /\ c \in {"s", "c"}
    BY <1>4 DEF String
  <2>2. PICK arg \in Argument(Garbage) : Put(arg)
    BY <1>4 DEF String
  <2> HIDE DEF c
  <2>3. pass \in {"log", "uart"}
    BY <1>3, <2>1
  <2> QED
    BY <2>1, <2>2, <2>3, LogString, UartText
<1>5. CASE Character
  <2> DEFINE c == "c"
             short == {g \in Garbage : Len(g) <= 1}
  <2>1. IsDirective(c) /\ Takes /\ UNCHANGED overrun /\ c \in {"s", "c"}
    BY <1>5 DEF Character
  <2>2. PICK arg \in Argument(short) : Put(arg)
    BY <1>5 DEF Character
  <2>3. pass \in {"log", "uart"}
    BY <1>3, <2>1
  <2>4. short \subseteq Garbage
    OBVIOUS
  <2> HIDE DEF c, short
  <2>5. CASE pass = "log"
    BY <2>1, <2>2, <2>5, LogString
  <2>6. CASE pass = "uart"
    <3>1. arg \in Argument(Garbage)
      BY <2>2, <2>4 DEF Argument
    <3> QED
      BY <2>1, <2>2, <2>6, <3>1, UartText
  <2> QED
    BY <2>3, <2>5, <2>6
<1>6. CASE Unsigned
  <2>1. pass \in {"log", "uart"}
    BY <1>3, <1>6 DEF Unsigned
  <2> QED
    BY <1>6, <2>1, LogUnsigned, UartUnsigned
<1>7. CASE Hex
  <2> DEFINE c == "x"
             digits == 8
             size == 10
  <2>1. IsDirective(c) /\ Takes /\ c = "x" /\ digits = 8 /\ size = 10
    BY <1>7 DEF Hex
  <2>2. PICK arg \in Argument(Leftovers) : Convert(to_hex(arg, digits), size)
    BY <1>7 DEF Hex
  <2>3. pass \in {"log", "uart"}
    BY <1>3, <2>1
  <2> HIDE DEF c, digits, size
  <2> QED
    BY <2>1, <2>2, <2>3, LogHex, UartHex
<1>8. CASE Pointer
  <2> DEFINE c == "p"
             digits == 16
             size == 18
  <2>1. IsDirective(c) /\ Takes /\ c = "p" /\ digits = 16 /\ size = 18
    BY <1>8 DEF Pointer
  <2>2. PICK arg \in Argument(Leftovers) : Convert(to_hex(arg, digits), size)
    BY <1>8 DEF Pointer
  <2>3. pass \in {"log", "uart"}
    BY <1>3, <2>1
  <2> HIDE DEF c, digits, size
  <2> QED
    BY <2>1, <2>2, <2>3, LogHex, UartHex
<1>9. CASE Percent \/ Unknown \/ StepOver \/ Abort
  <2>1. pass \in {"log", "uart"}
    BY <1>9 DEF Percent, Unknown, StepOver, Abort, IsDirective, InLoop
  <2> QED
    BY <1>9, <2>1, LogPercent, LogStaysInFormat, UartPercentUnknown, UartStepOver, UartAbort
<1>10. CASE UartSend
  BY <1>10, SendLogging
<1>11. CASE put_uart
  BY <1>11, SentLogging
<1>12. CASE UNCHANGED vars
  <2>1. UNCHANGED << pieces, pass, input, va_list, idx_input, output, terminated, text, sent, overrun >>
    BY <1>12 DEF vars
  <2>2. Typed' = Typed
    BY <2>1 DEF Typed, Fits, Fresh
  <2>3. Logged' = Logged
    BY <2>1 DEF Logged, Behind
  <2>4. Repeating' = Repeating
    <3>1. Within' = Within /\ (\A n : Plain(n)' = Plain(n) /\ Copied(n)' = Copied(n)) /\ Expected' = Expected
      BY <2>1 DEF Within, Copied, Plain, Expected
    <3> QED
      BY <2>1, <3>1 DEF Repeating
  <2> QED
    BY <2>2, <2>3, <2>4 DEF Logging
<1> QED
  BY <1>1, <1>4, <1>5, <1>6, <1>7, <1>8, <1>9, <1>10, <1>11, <1>12 DEF Next

LEMMA LoggingInvariant == Spec => []Logging
  BY InitLogging, NextLogging, PTL DEF Spec

-----------------------------------------------------------------------------
\* The index stays within what the loop has got to see of its input and the
\* terminator behind it, and what is stored behind an array is counted for the
\* two arrays of the number conversions only.
THEOREM LoggerTypes == Spec => []TypeOK
<1>1. Logging => TypeOK
  BY DEF Logging, Typed, TypeOK
<1> QED
  BY <1>1, LoggingInvariant, PTL

\* There is room for the terminator wherever format_string stops, whatever is
\* logged, and it is stored before format_string returns unless it was called
\* with an empty text, which only uart_send does and then not.
THEOREM AlwaysTerminated == Spec => []Terminated
<1>1. Logging => Terminated
  <2> SUFFICES ASSUME Logging PROVE Terminated
    OBVIOUS
  <2>1. Len(output) < MAX_TEXT_LENGTH
    BY DEF Logging, Typed, Fits
  <2>2. ASSUME NEW p \in {"log", "uart"}, Finished(p), ~terminated PROVE p = "uart" /\ text = << >>
    BY <2>2, NoRound DEF Finished
  <2>3. ASSUME Finished("uart"), text = << >> PROVE ~terminated
    BY <2>3 DEF Logging, Repeating, Finished
  <2> QED
    BY <2>1, <2>2, <2>3 DEF Terminated
<1> QED
  BY <1>1, LoggingInvariant, PTL

\* In the logger's pass the loop never reads behind the format, and in the
\* UART's pass only when the % at the end of the text are an odd number, so
\* that the last of them is taken together with the terminator.
THEOREM LoopStaysInTheString == Spec => []StaysInTheString
<1>1. Logging => StaysInTheString
  BY DEF Logging, Logged, Repeating, Within, StaysInTheString
<1> QED
  BY <1>1, LoggingInvariant, PTL

\* No int and no pointer is longer than its array, so only the terminator is
\* stored behind it.
THEOREM OnlyTheTerminatorOver == Spec => []OneByteOver
<1>1. Logging => OneByteOver
  BY DEF Logging, Typed, OneByteOver
<1> QED
  BY <1>1, LoggingInvariant, PTL

\* uart_send's second format_string leaves a text unchanged up to its first %,
\* and that is what the UART transmits: the whole text if it has none and is
\* not empty.
THEOREM UartShowsTheSame == Spec => []UartRepeatsText
<1>1. Logging => UartRepeatsText
  <2> SUFFICES ASSUME Logging, pass \in {"abort", "sent"},
                      NEW n \in 1 .. Len(text), \A i \in 1 .. n : text[i] # "%"
               PROVE  /\ pass = "abort" => n < Len(text)
                      /\ pass = "sent" => /\ n <= Len(sent) /\ SubSeq(sent, 1, n) = SubSeq(text, 1, n)
                                          /\ n = Len(text) => sent = text
    BY DEF UartRepeatsText
  <2>1. Plain(n)
    BY DEF Plain
  <2> QED
    BY <2>1 DEF Logging, Repeating, Copied
<1> QED
  BY <1>1, LoggingInvariant, PTL

\* Whatever is logged: the text is what a reader of the call expects of its
\* pieces, numbers in decimal or in the digits of their two's complement, one
\* after the other and cut off at the end of the buffer.
THEOREM TextIsThePieces == Spec => []TextAsExpected
<1>1. Logging => TextAsExpected
  BY ConversionsAreRight DEF Logging, Repeating, TextAsExpected
<1> QED
  BY <1>1, LoggingInvariant, PTL
=============================================================================
