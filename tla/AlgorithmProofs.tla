---------------------------- MODULE AlgorithmProofs ----------------------------
(***************************************************************************)
(* What the pure algorithms compute, for all their arguments: the ranges   *)
(* of the decasector and its table of all lines, the trees of script       *)
(* hashes, the compressor that makes them from one hash after another,     *)
(* the one-time signatures, which nobody but their maker can change, and   *)
(* the calls of the script generator, whose stack is the one the           *)
(* interpreter will have.                                                  *)
(* Recursive functions are unfolded from the least argument at which what  *)
(* is claimed of them would fail.                                          *)
(***************************************************************************)
EXTENDS Decasector, Taptree, Winternitz, ScriptGenerator, WellFoundedInduction, SequenceTheorems, TLAPS

-----------------------------------------------------------------------------
(* Recursive functions.                                                    *)

(***************************************************************************)
(* A nonempty set of natural numbers has a least element.                  *)
(***************************************************************************)
LEMMA LeastOf ==
    ASSUME NEW S, S \subseteq Nat, S # {}
    PROVE  \E x \in S : \A y \in S : x <= y
<1>1. PICK x \in S : \A y \in S : <<y, x>> \notin OpToRel(<, Nat)
  BY WFMin, NatLessThanWellFounded
<1>2. \A y \in S : ~(y \in Nat /\ x \in Nat /\ y < x)
  BY <1>1, Zenon DEF OpToRel
<1> QED
  BY <1>2

\* The powers of b, as Decasector and Taptree define those of ten and two.
Power(b) == CHOOSE p : p = [n \in Nat |-> IF n = 0 THEN 1 ELSE b * p[n - 1]]

\* Math.ceil of the logarithm.
LogOf(b, count) == CHOOSE n \in 0..count : Power(b)[n] >= count /\ (n = 0 \/ Power(b)[n - 1] < count)

\* f is the powers of b up to n.
PowersUpTo(f, b, n) == f = [k \in 0..n |-> IF k = 0 THEN 1 ELSE b * f[k - 1]]

(***************************************************************************)
(* There are powers up to any exponent ...                                 *)
(***************************************************************************)
LEMMA PowersExist == \A b, n \in Nat : \E f : PowersUpTo(f, b, n)
<1> SUFFICES ASSUME NEW b \in Nat, {k \in Nat : ~\E f : PowersUpTo(f, b, k)} # {} PROVE FALSE
  OBVIOUS
<1> DEFINE Bad == {k \in Nat : ~\E f : PowersUpTo(f, b, k)}
<1>1. PICK m \in Bad : \A y \in Bad : m <= y
  BY LeastOf
<1>2. m # 0
  <2>1. PowersUpTo([k \in 0..0 |-> 1], b, 0)
    BY DEF PowersUpTo
  <2> QED
    BY <1>1, <2>1
<1>3. m - 1 \in Nat /\ ~(m <= m - 1)
  BY <1>1, <1>2
<1>4. PICK f : PowersUpTo(f, b, m - 1)
  BY <1>1, <1>3
<1> DEFINE g == [k \in 0..m |-> IF k = m THEN b * f[m - 1] ELSE f[k]]
<1>5. ASSUME NEW k \in 0..m PROVE g[k] = IF k = 0 THEN 1 ELSE b * g[k - 1]
  <2>1. CASE k = m
    BY <1>1, <1>2, <2>1
  <2>2. CASE k \in 0..(m - 1)
    <3>1. f[k] = IF k = 0 THEN 1 ELSE b * f[k - 1]
      BY <1>4, <2>2 DEF PowersUpTo
    <3> QED
      BY <1>1, <1>2, <2>2, <3>1
  <2> QED
    BY <1>1, <2>1, <2>2
<1>6. PowersUpTo(g, b, m)
  BY <1>5 DEF PowersUpTo
<1> QED
  BY <1>1, <1>6

(***************************************************************************)
(* ... and they do not depend on how far one looks.                        *)
(***************************************************************************)
LEMMA PowersAgree ==
    ASSUME NEW b, NEW n \in Nat, NEW m \in Nat, n <= m, NEW f, NEW g, PowersUpTo(f, b, n), PowersUpTo(g, b, m)
    PROVE  \A k \in 0..n : f[k] = g[k]
<1> SUFFICES ASSUME {i \in 0..n : f[i] # g[i]} # {} PROVE FALSE
  OBVIOUS
<1>1. PICK j \in {i \in 0..n : f[i] # g[i]} : \A y \in {i \in 0..n : f[i] # g[i]} : j <= y
  <2>1. {i \in 0..n : f[i] # g[i]} \subseteq Nat
    OBVIOUS
  <2> QED
    BY <2>1, LeastOf
<1>2. f[j] = (IF j = 0 THEN 1 ELSE b * f[j - 1]) /\ g[j] = (IF j = 0 THEN 1 ELSE b * g[j - 1])
  BY <1>1 DEF PowersUpTo
<1>3. j # 0 => f[j - 1] = g[j - 1]
  BY <1>1
<1> QED
  BY <1>1, <1>2, <1>3

(***************************************************************************)
(* The powers are what their recursive definition says ...                 *)
(***************************************************************************)
LEMMA PowersDef == \A b, n \in Nat : Power(b)[n] = IF n = 0 THEN 1 ELSE b * Power(b)[n - 1]
<1> SUFFICES ASSUME NEW b \in Nat PROVE \A n \in Nat : Power(b)[n] = IF n = 0 THEN 1 ELSE b * Power(b)[n - 1]
  OBVIOUS
<1> DEFINE F(n) == CHOOSE f : PowersUpTo(f, b, n)
           P == [n \in Nat |-> F(n)[n]]
<1>1. \A n \in Nat : PowersUpTo(F(n), b, n)
  BY PowersExist
<1>2. ASSUME NEW n \in Nat PROVE F(n)[n] = IF n = 0 THEN 1 ELSE b * F(n)[n - 1]
  <2>1. PowersUpTo(F(n), b, n)
    BY <1>1
  <2> HIDE DEF F
  <2> QED
    BY <2>1 DEF PowersUpTo
<1>3. ASSUME NEW n \in Nat, n # 0 PROVE F(n)[n - 1] = F(n - 1)[n - 1]
  <2>1. n - 1 \in Nat /\ n - 1 <= n /\ n - 1 \in 0..(n - 1)
    BY <1>3
  <2>2. PowersUpTo(F(n), b, n) /\ PowersUpTo(F(n - 1), b, n - 1)
    BY <1>1, <2>1
  <2> HIDE DEF F
  <2> QED
    BY <2>1, <2>2, PowersAgree
<1> HIDE DEF F
<1>4. P = [n \in Nat |-> IF n = 0 THEN 1 ELSE b * P[n - 1]]
  <2>1. ASSUME NEW n \in Nat PROVE P[n] = IF n = 0 THEN 1 ELSE b * P[n - 1]
    BY <1>2, <1>3
  <2> QED
    BY <2>1
<1> HIDE DEF P
<1>5. Power(b) = [n \in Nat |-> IF n = 0 THEN 1 ELSE b * Power(b)[n - 1]]
  BY <1>4 DEF Power
<1> QED
  BY <1>5

(***************************************************************************)
(* ... numbers larger than their exponent ...                              *)
(***************************************************************************)
LEMMA PowersNat == \A b, n \in Nat : 1 < b => Power(b)[n] \in Nat /\ n < Power(b)[n]
<1> SUFFICES ASSUME NEW b \in Nat, 1 < b, {n \in Nat : ~(Power(b)[n] \in Nat /\ n < Power(b)[n])} # {} PROVE FALSE
  OBVIOUS
<1> DEFINE Bad == {n \in Nat : ~(Power(b)[n] \in Nat /\ n < Power(b)[n])}
<1>1. PICK n \in Bad : \A y \in Bad : n <= y
  BY LeastOf
<1>2. Power(b)[n] = IF n = 0 THEN 1 ELSE b * Power(b)[n - 1]
  BY <1>1, PowersDef
<1>3. n # 0
  BY <1>1, <1>2
<1>4. PICK q \in Nat : q = Power(b)[n - 1] /\ n - 1 < q
  BY <1>1, <1>3
<1>5. 2 * q <= b * q /\ b * q \in Nat
  OBVIOUS
<1> QED
  BY <1>1, <1>2, <1>3, <1>4, <1>5

(***************************************************************************)
(* ... and larger the larger it is.                                        *)
(***************************************************************************)
LEMMA PowersGrow == \A b, m, n \in Nat : 1 < b /\ m < n => Power(b)[m] < Power(b)[n]
<1> SUFFICES ASSUME NEW b \in Nat, 1 < b, NEW m \in Nat, {n \in Nat : m < n /\ ~(Power(b)[m] < Power(b)[n])} # {}
             PROVE  FALSE
  OBVIOUS
<1> DEFINE Bad == {n \in Nat : m < n /\ ~(Power(b)[m] < Power(b)[n])}
<1>1. PICK n \in Bad : \A y \in Bad : n <= y
  BY LeastOf
<1>2. n # 0 /\ Power(b)[n] = b * Power(b)[n - 1] /\ n - 1 \in Nat
  BY <1>1, PowersDef
<1>3. PICK q \in Nat : q = Power(b)[n - 1] /\ 0 < q
  BY <1>2, PowersNat
<1>4. 2 * q <= b * q /\ b * q \in Nat /\ q < 2 * q
  BY <1>3
<1>5. Power(b)[m] \in Nat
  BY PowersNat
<1>6. m = n - 1 \/ Power(b)[m] < q
  BY <1>1, <1>2, <1>3
<1> QED
  BY <1>1, <1>2, <1>3, <1>4, <1>5, <1>6

(***************************************************************************)
(* A power is the product of those of two parts of its exponent.           *)
(***************************************************************************)
LEMMA PowersSum == \A b, m, n \in Nat : 1 < b => Power(b)[m + n] = Power(b)[m] * Power(b)[n]
<1> SUFFICES ASSUME NEW b \in Nat, 1 < b, NEW m \in Nat,
                    {n \in Nat : Power(b)[m + n] # Power(b)[m] * Power(b)[n]} # {}
             PROVE  FALSE
  OBVIOUS
<1> DEFINE Bad == {n \in Nat : Power(b)[m + n] # Power(b)[m] * Power(b)[n]}
<1>1. PICK n \in Bad : \A y \in Bad : n <= y
  BY LeastOf
<1>a. PICK p \in Nat : p = Power(b)[m]
  BY PowersNat
<1>2. n # 0
  <2>1. p * 1 = p /\ m + 0 = m /\ Power(b)[0] = 1
    BY PowersDef
  <2> QED
    BY <1>1, <1>a, <2>1
<1>3. n - 1 \in Nat /\ m + (n - 1) = (m + n) - 1 /\ m + n # 0 /\ m + n \in Nat /\ ~(n <= n - 1)
  BY <1>1, <1>2
<1>4. PICK q \in Nat : q = Power(b)[n - 1]
  BY <1>3, PowersNat
<1>5. Power(b)[(m + n) - 1] = p * q
  BY <1>1, <1>3, <1>4, <1>a
<1>6. Power(b)[n] = b * q /\ Power(b)[m + n] = b * (p * q)
  BY <1>1, <1>2, <1>3, <1>4, <1>5, PowersDef
<1>7. p * (b * q) = b * (p * q)
  OBVIOUS
<1> QED
  BY <1>1, <1>6, <1>7, <1>a

(***************************************************************************)
(* The logarithm of a power is its exponent.                               *)
(***************************************************************************)
LEMMA LogExact == \A b, k \in Nat : 1 < b => LogOf(b, Power(b)[k]) = k
<1> SUFFICES ASSUME NEW b \in Nat, 1 < b, NEW k \in Nat PROVE LogOf(b, Power(b)[k]) = k
  OBVIOUS
<1> DEFINE length == Power(b)[k]
           Enough(n) == Power(b)[n] >= length /\ (n = 0 \/ Power(b)[n - 1] < length)
<1>1. length \in Nat /\ k \in 0..length
  BY PowersNat
<1>2. Enough(k)
  <2>1. k # 0 => Power(b)[k - 1] < Power(b)[k]
    BY PowersGrow
  <2> QED
    BY <1>1, <2>1
<1>3. ASSUME NEW n \in 0..length, Enough(n) PROVE n = k
  <2>1. n \in Nat /\ Power(b)[n] \in Nat
    BY <1>1, PowersNat
  <2>2. ~(n < k)
    BY <1>1, <1>3, <2>1, PowersGrow
  <2>3. CASE k < n
    <3>1. n - 1 \in Nat /\ Power(b)[n - 1] < length /\ k <= n - 1
      BY <2>1, <2>3, <1>3
    <3>2. k = n - 1 \/ Power(b)[k] < Power(b)[n - 1]
      BY <3>1, PowersGrow
    <3>3. Power(b)[n - 1] \in Nat
      BY <3>1, PowersNat
    <3> QED
      BY <1>1, <3>1, <3>2, <3>3
  <2> QED
    BY <2>1, <2>2, <2>3
<1> QED
  <2>1. LogOf(b, Power(b)[k]) = CHOOSE n \in 0..length : Enough(n)
    BY DEF LogOf
  <2> HIDE DEF Enough
  <2> QED
    BY <1>1, <1>2, <1>3, <2>1

(***************************************************************************)
(* The power of a logarithm is enough.                                     *)
(***************************************************************************)
LEMMA LogEnough == \A b, count \in Nat : 1 < b => LogOf(b, count) \in Nat /\ Power(b)[LogOf(b, count)] >= count
<1> SUFFICES ASSUME NEW b \in Nat, 1 < b, NEW count \in Nat
             PROVE  LogOf(b, count) \in Nat /\ Power(b)[LogOf(b, count)] >= count
  OBVIOUS
<1> DEFINE Bad == {n \in 0..count : Power(b)[n] >= count}
<1>1. count \in Bad /\ Bad \subseteq Nat
  BY PowersNat
<1>2. PICK n \in Bad : \A y \in Bad : n <= y
  BY <1>1, LeastOf
<1>3. n = 0 \/ Power(b)[n - 1] < count
  <2>1. n = 0 \/ (n - 1 \in 0..count /\ ~(n <= n - 1) /\ n - 1 \in Nat)
    BY <1>2
  <2>2. n - 1 \in Nat => Power(b)[n - 1] \in Nat
    BY PowersNat
  <2> QED
    BY <1>2, <2>1, <2>2
<1>4. n \in 0..count /\ Power(b)[n] >= count
  BY <1>2
<1> HIDE DEF Bad
<1> QED
  BY <1>3, <1>4 DEF LogOf

(***************************************************************************)
(* The powers of ten are what their recursive definition says.             *)
(***************************************************************************)
LEMMA PowerDef == \A n \in Nat : PowerOfTen[n] = IF n = 0 THEN 1 ELSE 10 * PowerOfTen[n - 1]
<1>1. PowerOfTen = Power(10)
  BY DEF PowerOfTen, Power
<1> QED
  BY <1>1, PowersDef

(***************************************************************************)
(* They are numbers, larger than their exponent.                           *)
(***************************************************************************)
LEMMA PowerNat == \A n \in Nat : PowerOfTen[n] \in Nat /\ n < PowerOfTen[n]
<1>1. PowerOfTen = Power(10)
  BY DEF PowerOfTen, Power
<1> QED
  BY <1>1, PowersNat

(***************************************************************************)
(* The product of two of them is the one of the sum of their exponents.    *)
(***************************************************************************)
LEMMA TenSum == \A m, n \in Nat : PowerOfTen[m + n] = PowerOfTen[m] * PowerOfTen[n]
<1>1. PowerOfTen = Power(10)
  BY DEF PowerOfTen, Power
<1>2. 10 \in Nat /\ 1 < 10
  OBVIOUS
<1>3. \A m, n \in Nat : Power(10)[m + n] = Power(10)[m] * Power(10)[n]
  BY <1>2, PowersSum, Zenon
<1> QED
  BY <1>1, <1>3, Zenon

(***************************************************************************)
(* Math.log10 gives back the exponent: k rounds for ten to the k lines.    *)
(***************************************************************************)
LEMMA IterationsExact == \A k \in Nat : IterationsFor(PowerOfTen[k]) = k
<1>1. PowerOfTen = Power(10)
  BY DEF PowerOfTen, Power
<1>2. \A length : IterationsFor(length) = LogOf(10, length)
  BY <1>1 DEF IterationsFor, LogOf
<1> QED
  BY <1>1, <1>2, LogExact

(***************************************************************************)
(* The powers of two are what their recursive definition says.             *)
(***************************************************************************)
LEMMA TwoDef == PowerOfTwo[0] = 1 /\ \A n \in Nat : PowerOfTwo[n + 1] = 2 * PowerOfTwo[n]
<1>1. PowerOfTwo = Power(2)
  BY DEF PowerOfTwo, Power
<1>2. \A n \in Nat : n + 1 \in Nat /\ n + 1 # 0 /\ (n + 1) - 1 = n
  OBVIOUS
<1> QED
  BY <1>1, <1>2, PowersDef

(***************************************************************************)
(* They are numbers, larger than their exponent.                           *)
(***************************************************************************)
LEMMA TwoNat == \A n \in Nat : PowerOfTwo[n] \in Nat /\ n < PowerOfTwo[n]
<1>1. PowerOfTwo = Power(2)
  BY DEF PowerOfTwo, Power
<1> QED
  BY <1>1, PowersNat

(***************************************************************************)
(* The product of two of them is the one of the sum of their exponents.    *)
(***************************************************************************)
LEMMA TwoSum == \A m, n \in Nat : PowerOfTwo[m + n] = PowerOfTwo[m] * PowerOfTwo[n]
<1>1. PowerOfTwo = Power(2)
  BY DEF PowerOfTwo, Power
<1>2. 2 \in Nat /\ 1 < 2
  OBVIOUS
<1>3. \A m, n \in Nat : Power(2)[m + n] = Power(2)[m] * Power(2)[n]
  BY <1>2, PowersSum, Zenon
<1> QED
  BY <1>1, <1>3, Zenon

(***************************************************************************)
(* Math.log2 of a power is its exponent, and a tree of that depth has room *)
(* for all leaves.                                                         *)
(***************************************************************************)
LEMMA TwoLog ==
    /\ \A k \in Nat : Log2(PowerOfTwo[k]) = k
    /\ \A count \in Nat : Log2(count) \in Nat /\ PowerOfTwo[Log2(count)] >= count
<1>1. PowerOfTwo = Power(2)
  BY DEF PowerOfTwo, Power
<1>2. \A count : Log2(count) = LogOf(2, count)
  BY <1>1 DEF Log2, LogOf
<1> QED
  BY <1>1, <1>2, LogExact, LogEnough

-----------------------------------------------------------------------------
(* The ranges along a path.                                                *)

\* f is the ranges after up to n of the selections s.
RangesUpTo(f, length, s, n) ==
    f = [k \in 0..n |-> IF k = 0 THEN Range0(length) ELSE Tenth(f[k - 1], s[k])]

(***************************************************************************)
(* There are ranges for any number of selections ...                       *)
(***************************************************************************)
LEMMA RangesExist == \A length, s : \A n \in Nat : \E f : RangesUpTo(f, length, s, n)
<1> SUFFICES ASSUME NEW length, NEW s, {n \in Nat : ~\E f : RangesUpTo(f, length, s, n)} # {} PROVE FALSE
  OBVIOUS
<1> DEFINE Bad == {n \in Nat : ~\E f : RangesUpTo(f, length, s, n)}
<1>1. PICK m \in Bad : \A y \in Bad : m <= y
  BY LeastOf
<1>2. m # 0
  <2>1. RangesUpTo([k \in 0..0 |-> Range0(length)], length, s, 0)
    BY DEF RangesUpTo
  <2> QED
    BY <1>1, <2>1
<1>3. m - 1 \in Nat /\ ~(m <= m - 1)
  BY <1>1, <1>2
<1>4. PICK f : RangesUpTo(f, length, s, m - 1)
  BY <1>1, <1>3
<1> DEFINE g == [k \in 0..m |-> IF k = m THEN Tenth(f[m - 1], s[m]) ELSE f[k]]
<1>5. ASSUME NEW k \in 0..m PROVE g[k] = IF k = 0 THEN Range0(length) ELSE Tenth(g[k - 1], s[k])
  <2>1. CASE k = m
    BY <1>1, <1>2, <2>1
  <2>2. CASE k \in 0..(m - 1)
    <3>1. f[k] = IF k = 0 THEN Range0(length) ELSE Tenth(f[k - 1], s[k])
      BY <1>4, <2>2 DEF RangesUpTo
    <3> QED
      BY <1>1, <1>2, <2>2, <3>1
  <2> QED
    BY <1>1, <2>1, <2>2
<1>6. RangesUpTo(g, length, s, m)
  BY <1>5 DEF RangesUpTo
<1> QED
  BY <1>1, <1>6

(***************************************************************************)
(* ... which depend only on the selections made so far ...                 *)
(***************************************************************************)
LEMMA RangesAgree ==
    ASSUME NEW length, NEW s, NEW t, NEW n \in Nat, NEW m \in Nat, n <= m, \A k \in 1..n : s[k] = t[k],
           NEW f, NEW g, RangesUpTo(f, length, s, n), RangesUpTo(g, length, t, m)
    PROVE  \A k \in 0..n : f[k] = g[k]
<1> SUFFICES ASSUME {i \in 0..n : f[i] # g[i]} # {} PROVE FALSE
  OBVIOUS
<1>1. PICK j \in {i \in 0..n : f[i] # g[i]} : \A y \in {i \in 0..n : f[i] # g[i]} : j <= y
  <2>1. {i \in 0..n : f[i] # g[i]} \subseteq Nat
    OBVIOUS
  <2> QED
    BY <2>1, LeastOf
<1>2. /\ f[j] = IF j = 0 THEN Range0(length) ELSE Tenth(f[j - 1], s[j])
      /\ g[j] = IF j = 0 THEN Range0(length) ELSE Tenth(g[j - 1], t[j])
  BY <1>1 DEF RangesUpTo
<1>3. j # 0 => f[j - 1] = g[j - 1] /\ s[j] = t[j]
  BY <1>1
<1> QED
  BY <1>1, <1>2, <1>3

(***************************************************************************)
(* ... and are those the decasector calculates.                            *)
(***************************************************************************)
LEMMA RangesOnPathUpTo ==
    ASSUME NEW length, NEW s \in Seq(0..9)
    PROVE  RangesUpTo(RangesOnPath(length, s), length, s, Len(s))
<1>1. \E f : RangesUpTo(f, length, s, Len(s))
  <2>1. Len(s) \in Nat
    OBVIOUS
  <2> QED
    BY <2>1, RangesExist
<1>2. RangesOnPath(length, s) = CHOOSE f : RangesUpTo(f, length, s, Len(s))
  BY DEF RangesOnPath, RangesUpTo
<1> QED
  BY <1>1, <1>2

(***************************************************************************)
(* Before any selection the range is the whole program.                    *)
(***************************************************************************)
LEMMA RangeOfEmpty ==
    ASSUME NEW length PROVE GetRangeForSelectionPath(length, <<>>) = Range0(length)
<1>1. <<>> \in Seq(0..9) /\ Len(<<>>) = 0
  OBVIOUS
<1>2. RangesOnPath(length, <<>>)[0] = Range0(length)
  <2>1. RangesUpTo(RangesOnPath(length, <<>>), length, <<>>, 0)
    BY <1>1, RangesOnPathUpTo
  <2>2. 0 \in 0..0
    OBVIOUS
  <2> QED
    BY <2>1, <2>2 DEF RangesUpTo
<1> QED
  BY <1>1, <1>2 DEF GetRangeForSelectionPath

(***************************************************************************)
(* A selection takes one of its tenths.                                    *)
(***************************************************************************)
LEMMA RangeOfNext ==
    ASSUME NEW length, NEW s \in Seq(0..9), NEW i \in 0..9
    PROVE  GetRangeForSelectionPath(length, Append(s, i)) = Tenth(GetRangeForSelectionPath(length, s), i)
<1> DEFINE t == Append(s, i)
           f == RangesOnPath(length, s)
           g == RangesOnPath(length, t)
<1>1. t \in Seq(0..9) /\ Len(t) = Len(s) + 1 /\ Len(s) \in Nat /\ t[Len(s) + 1] = i
      /\ \A k \in 1..Len(s) : s[k] = t[k]
  OBVIOUS
<1> HIDE DEF t
<1>2. RangesUpTo(f, length, s, Len(s)) /\ RangesUpTo(g, length, t, Len(s) + 1)
  BY <1>1, RangesOnPathUpTo
<1> HIDE DEF f, g
<1>3. f[Len(s)] = g[Len(s)]
  <2>1. Len(s) <= Len(s) + 1 /\ Len(s) + 1 \in Nat /\ Len(s) \in 0..Len(s)
    BY <1>1
  <2>2. \A k \in 0..Len(s) : f[k] = g[k]
    <3> DEFINE n == Len(s)
               m == Len(s) + 1
    <3>1. n \in Nat /\ m \in Nat /\ n <= m /\ \A k \in 1..n : s[k] = t[k]
      BY <1>1, <2>1
    <3>2. RangesUpTo(f, length, s, n) /\ RangesUpTo(g, length, t, m)
      BY <1>2
    <3> HIDE DEF n, m
    <3>3. \A k \in 0..n : f[k] = g[k]
      BY <3>1, <3>2, RangesAgree
    <3> QED
      BY <3>3 DEF n
  <2> QED
    BY <2>1, <2>2
<1>4. g[Len(s) + 1] = Tenth(g[Len(s)], i)
  BY <1>1, <1>2 DEF RangesUpTo
<1> QED
  BY <1>1, <1>3, <1>4 DEF GetRangeForSelectionPath, f, g, t

(***************************************************************************)
(* A range of 10 * m lines is divided after every m lines ...              *)
(***************************************************************************)
LEMMA PartExact ==
    ASSUME NEW l \in Nat, NEW m \in Nat, NEW i \in 0..10
    PROVE  Part(l, l + 10 * m, i) = l + i * m
<1>1. ((l + 10 * m) - l) = 10 * m
  OBVIOUS
<1>2. i * m \in Nat
  OBVIOUS
<1>3. i * (10 * m) = 10 * (i * m)
  OBVIOUS
<1> DEFINE x == i * m
<1>4. 10 * l + i * ((l + 10 * m) - l) + 5 = 10 * (l + x) + 5
  BY <1>1, <1>3
<1> HIDE DEF x
<1>5. x \in Nat
  BY <1>2 DEF x
<1>6. (10 * (l + x) + 5) \div 10 = l + x
  BY <1>5
<1> QED
  BY <1>4, <1>6 DEF Part, x

(***************************************************************************)
(* ... so its tenths have m lines each.                                    *)
(***************************************************************************)
LEMMA TenthExact ==
    ASSUME NEW l \in Nat, NEW m \in Nat, NEW i \in 0..9
    PROVE  Tenth([left |-> l, right |-> l + 10 * m], i) = [left |-> l + i * m, right |-> (l + i * m) + m]
<1>1. Part(l, l + 10 * m, i) = l + i * m /\ Part(l, l + 10 * m, i + 1) = l + (i + 1) * m
  <2>1. i \in 0..10 /\ i + 1 \in 0..10
    OBVIOUS
  <2> QED
    BY <2>1, PartExact
<1>2. l + (i + 1) * m = (l + i * m) + m
  OBVIOUS
<1> QED
  BY <1>1, <1>2 DEF Tenth

-----------------------------------------------------------------------------
(* The walk over all ranges.                                               *)

\* f is the tables before up to n of the tenths of a range.
TenthsUpTo(f, below, table, range, iter, n) ==
    f = [i \in 0..n |->
            IF i = 0 THEN table
            ELSE IF f[i - 1][Tenth(range, i - 1).right] # Unset THEN f[i - 1]
            ELSE below[Note(f[i - 1], Tenth(range, i - 1).right, iter, i - 1)][Tenth(range, i - 1)]]

(***************************************************************************)
(* The loop comes to any of the tenths ...                                 *)
(***************************************************************************)
LEMMA TenthsExist ==
    ASSUME NEW below, NEW table, NEW range, NEW iter
    PROVE  \A n \in Nat : \E f : TenthsUpTo(f, below, table, range, iter, n)
<1> SUFFICES ASSUME {n \in Nat : ~\E f : TenthsUpTo(f, below, table, range, iter, n)} # {} PROVE FALSE
  OBVIOUS
<1> DEFINE Bad == {n \in Nat : ~\E f : TenthsUpTo(f, below, table, range, iter, n)}
           After(last, i) ==
               IF last[Tenth(range, i - 1).right] # Unset THEN last
               ELSE below[Note(last, Tenth(range, i - 1).right, iter, i - 1)][Tenth(range, i - 1)]
<1>a. \A f, n : TenthsUpTo(f, below, table, range, iter, n)
                <=> f = [i \in 0..n |-> IF i = 0 THEN table ELSE After(f[i - 1], i)]
  BY DEF TenthsUpTo
<1> HIDE DEF After
<1>1. PICK m \in Bad : \A y \in Bad : m <= y
  BY LeastOf
<1>2. m # 0
  <2> DEFINE g == [k \in 0..0 |-> table]
  <2>1. \A k \in 0..0 : k = 0
    OBVIOUS
  <2>2. g = [k \in 0..0 |-> IF k = 0 THEN table ELSE After(g[k - 1], k)]
    BY <2>1
  <2> QED
    BY <1>1, <1>a, <2>2
<1>3. m - 1 \in Nat /\ ~(m <= m - 1)
  BY <1>1, <1>2
<1>4. PICK f : TenthsUpTo(f, below, table, range, iter, m - 1)
  BY <1>1, <1>3
<1> DEFINE g == [k \in 0..m |-> IF k = m THEN After(f[m - 1], m) ELSE f[k]]
<1>5. ASSUME NEW k \in 0..m PROVE g[k] = IF k = 0 THEN table ELSE After(g[k - 1], k)
  <2>1. CASE k = m
    BY <1>1, <1>2, <2>1
  <2>2. CASE k \in 0..(m - 1)
    <3>1. f[k] = IF k = 0 THEN table ELSE After(f[k - 1], k)
      BY <1>4, <1>a, <2>2
    <3> QED
      BY <1>1, <1>2, <2>2, <3>1
  <2> QED
    BY <1>1, <2>1, <2>2
<1>6. TenthsUpTo(g, below, table, range, iter, m)
  BY <1>5, <1>a
<1> QED
  BY <1>1, <1>6

(***************************************************************************)
(* ... and each table comes from the one before as the definition says.    *)
(***************************************************************************)
LEMMA TenthsDef ==
    ASSUME NEW below, NEW table, NEW range, NEW iter
    PROVE  TenthsUpTo(Tenths(below, table, range, iter), below, table, range, iter, 9)
<1>1. Tenths(below, table, range, iter) = CHOOSE f : TenthsUpTo(f, below, table, range, iter, 9)
  BY DEF Tenths, TenthsUpTo
<1> QED
  BY <1>1, TenthsExist

\* f is the walks of ranges with up to n iterations left.
WalkUpTo(f, length, n) ==
    f = [k \in 0..n |->
            [table \in Tables(length) |-> [range \in Ranges(length) |->
                IF k = 0 THEN table
                ELSE f[k - 1][Tenths(f[k - 1], table, range, IterationsFor(length) + 1 - k)[9]][Tenth(range, 9)]]]]

(***************************************************************************)
(* There are walks with any number of iterations left ...                  *)
(***************************************************************************)
LEMMA WalkExists == \A length : \A n \in Nat : \E f : WalkUpTo(f, length, n)
<1> SUFFICES ASSUME NEW length, {n \in Nat : ~\E f : WalkUpTo(f, length, n)} # {} PROVE FALSE
  OBVIOUS
<1> DEFINE Bad == {n \in Nat : ~\E f : WalkUpTo(f, length, n)}
           Above(below, k) ==
               [table \in Tables(length) |-> [range \in Ranges(length) |->
                   IF k = 0 THEN table
                   ELSE below[Tenths(below, table, range, IterationsFor(length) + 1 - k)[9]][Tenth(range, 9)]]]
<1>a. \A f, n : WalkUpTo(f, length, n) <=> f = [k \in 0..n |-> Above(f[k - 1], k)]
  BY DEF WalkUpTo
<1>b. \A below, other : Above(below, 0) = Above(other, 0)
  OBVIOUS
<1> HIDE DEF Above
<1>1. PICK m \in Bad : \A y \in Bad : m <= y
  BY LeastOf
<1>2. m # 0
  <2> DEFINE g == [k \in 0..0 |-> Above(0, 0)]
  <2>1. \A k \in 0..0 : k = 0
    OBVIOUS
  <2>2. g = [k \in 0..0 |-> Above(g[k - 1], k)]
    BY <1>b, <2>1
  <2> QED
    BY <1>1, <1>a, <2>2
<1>3. m - 1 \in Nat /\ ~(m <= m - 1)
  BY <1>1, <1>2
<1>4. PICK f : WalkUpTo(f, length, m - 1)
  BY <1>1, <1>3
<1> DEFINE g == [k \in 0..m |-> IF k = m THEN Above(f[m - 1], m) ELSE f[k]]
<1>5. ASSUME NEW k \in 0..m PROVE g[k] = Above(g[k - 1], k)
  <2>1. CASE k = m
    BY <1>1, <1>2, <2>1
  <2>2. CASE k \in 1..(m - 1)
    <3>1. f[k] = Above(f[k - 1], k)
      BY <1>4, <1>a, <2>2
    <3> QED
      BY <1>1, <1>2, <2>2, <3>1
  <2>3. CASE k = 0
    <3>1. f[0] = Above(f[0 - 1], 0)
      BY <1>3, <1>4, <1>a
    <3>2. g[0] = f[0]
      BY <1>1, <1>2
    <3> QED
      BY <1>b, <2>3, <3>1, <3>2
  <2> QED
    BY <1>1, <2>1, <2>2, <2>3
<1>6. WalkUpTo(g, length, m)
  BY <1>5, <1>a
<1> QED
  BY <1>1, <1>6

(***************************************************************************)
(* ... and the constructor's is one of them.                               *)
(***************************************************************************)
LEMMA WalkDef ==
    ASSUME NEW length, IterationsFor(length) \in Nat
    PROVE  WalkUpTo(Walk(length), length, IterationsFor(length))
<1>1. Walk(length) = CHOOSE f : WalkUpTo(f, length, IterationsFor(length))
  BY DEF Walk, WalkUpTo
<1> QED
  BY <1>1, WalkExists

\* The lines, by the place of their last digit that is not zero.
LineAt(k, a, i) == a * PowerOfTen[k] + (i + 1) * PowerOfTen[k - 1]

\* Between the ends every line has the iteration that its last digits leave,
\* and the selection before the last of them that is not zero.
Noted(table, n, from, to) ==
    \A k \in 1..n, a \in Nat, i \in 0..8 :
        from < LineAt(k, a, i) /\ LineAt(k, a, i) < to => table[LineAt(k, a, i)] = Commitment(n + 1 - k, i)

\* The lines between the ends are not noted yet.
Blank(table, length, from, to) == \A line \in 0..length : from < line /\ line < to => table[line] = Unset

\* A table that is another with all lines between the ends noted.
Fills(new, table, length, n, from, to) ==
    /\ new \in Tables(length)
    /\ \A line \in 0..length : ~(from < line /\ line < to) => new[line] = table[line]
    /\ Noted(new, n, from, to)

\* The walk of a blank range of ten to the k lines notes those in it.
WalkFills(below, length, n, k) ==
    \A table \in Tables(length), a \in Nat : \A left \in Nat, right \in Nat :
        left = a * PowerOfTen[k] /\ right = left + PowerOfTen[k] /\ right <= length /\ Blank(table, length, left, right)
        => Fills(below[table][[left |-> left, right |-> right]], table, length, n, left, right)

(***************************************************************************)
(* A line has one last digit that is not zero.                             *)
(***************************************************************************)
LEMMA LineOnce ==
    \A k, m \in Nat \ {0}, a, b \in Nat, i, j \in 0..8 : LineAt(k, a, i) = LineAt(m, b, j) => k = m /\ i = j
<1> SUFFICES ASSUME NEW k \in Nat \ {0}, NEW a \in Nat, NEW i \in 0..8,
                    NEW m \in Nat \ {0}, NEW b \in Nat, NEW j \in 0..8, LineAt(k, a, i) = LineAt(m, b, j)
             PROVE  k = m /\ i = j
  OBVIOUS
<1>1. ASSUME NEW x \in Nat \ {0}, NEW y \in Nat, NEW p \in 0..8
      PROVE  \E w \in Nat : w = PowerOfTen[x - 1] /\ 0 < w /\ PowerOfTen[x] = 10 * w /\ LineAt(x, y, p) = w * (10 * y + p + 1)
  <2>1. PICK w \in Nat : w = PowerOfTen[x - 1] /\ 0 < w
    <3>1. x - 1 \in Nat
      OBVIOUS
    <3> QED
      BY <3>1, PowerNat
  <2>2. PowerOfTen[x] = 10 * w
    BY <2>1, PowerDef
  <2>3. LineAt(x, y, p) = y * (10 * w) + (p + 1) * w
    BY <2>1, <2>2 DEF LineAt
  <2>4. y * (10 * w) + (p + 1) * w = w * (10 * y + p + 1)
    OBVIOUS
  <2> QED
    BY <2>1, <2>2, <2>3, <2>4
<1>2. ASSUME NEW x \in Nat \ {0}, NEW y \in Nat, NEW p \in 0..8, NEW u \in Nat, NEW v \in Nat, NEW r \in 0..8,
             x < u, LineAt(x, y, p) = LineAt(u, v, r)
      PROVE  FALSE
  <2>1. PICK w \in Nat : w = PowerOfTen[x - 1] /\ 0 < w /\ PowerOfTen[x] = 10 * w /\ LineAt(x, y, p) = w * (10 * y + p + 1)
    BY <1>1
  <2>2. u \in Nat \ {0} /\ (u - 1) - x \in Nat /\ x + ((u - 1) - x) = u - 1
    BY <1>2
  <2>3. PICK z \in Nat : z = PowerOfTen[(u - 1) - x]
    BY <2>2, PowerNat
  <2>4. PowerOfTen[u - 1] = (10 * w) * z
    BY <2>1, <2>2, <2>3, TenSum
  <2>5. LineAt(u, v, r) = ((10 * w) * z) * (10 * v + r + 1)
    <3>1. PICK o \in Nat : /\ o = PowerOfTen[u - 1] /\ 0 < o /\ PowerOfTen[u] = 10 * o
                           /\ LineAt(u, v, r) = o * (10 * v + r + 1)
      <4>1. u \in Nat \ {0}
        BY <2>2
      <4> QED
        BY <1>1, <4>1
    <3>2. o = (10 * w) * z
      BY <2>4, <3>1
    <3> QED
      BY <3>1, <3>2
  <2>6. PICK c \in Nat : c = z * (10 * v + r + 1)
    OBVIOUS
  <2>7. ((10 * w) * z) * (10 * v + r + 1) = w * (10 * c)
    <3>1. ((10 * w) * z) * (10 * v + r + 1) = (10 * w) * (z * (10 * v + r + 1))
      OBVIOUS
    <3> QED
      BY <2>6, <3>1
  <2>8. w * (10 * y + p + 1) = w * (10 * c)
    BY <1>2, <2>1, <2>5, <2>7
  <2>9. 10 * y + p + 1 = 10 * c
    <3>1. PICK d \in Nat, e \in Nat : d = 10 * y + p + 1 /\ e = 10 * c /\ w * d = w * e
      BY <2>8
    <3>2. ASSUME d < e PROVE FALSE
      <4>1. w * d + w <= w * e
        <5>1. w * (d + 1) <= w * e /\ w * (d + 1) = w * d + w
          BY <3>2
        <5> QED
          BY <5>1
      <4> QED
        BY <2>1, <3>1, <4>1
    <3>3. ASSUME e < d PROVE FALSE
      <4>1. w * e + w <= w * d
        <5>1. w * (e + 1) <= w * d /\ w * (e + 1) = w * e + w
          BY <3>3
        <5> QED
          BY <5>1
      <4> QED
        BY <2>1, <3>1, <4>1
    <3> QED
      BY <3>1, <3>2, <3>3
  <2> QED
    BY <2>9
<1>3. k = m
  <2>1. ~(k < m)
    BY <1>2
  <2>2. ~(m < k)
    BY <1>2
  <2> QED
    BY <2>1, <2>2
<1>4. i = j
  <2>1. PICK w \in Nat : /\ w = PowerOfTen[k - 1] /\ 0 < w
                         /\ LineAt(k, a, i) = w * (10 * a + i + 1) /\ LineAt(k, b, j) = w * (10 * b + j + 1)
    <3>1. PICK w \in Nat : /\ w = PowerOfTen[k - 1] /\ 0 < w /\ PowerOfTen[k] = 10 * w
                           /\ LineAt(k, a, i) = w * (10 * a + i + 1)
      BY <1>1
    <3>2. PICK o \in Nat : /\ o = PowerOfTen[k - 1] /\ 0 < o /\ PowerOfTen[k] = 10 * o
                           /\ LineAt(k, b, j) = o * (10 * b + j + 1)
      BY <1>1
    <3> QED
      BY <3>1, <3>2
  <2>2. w * (10 * a + i + 1) = w * (10 * b + j + 1)
    BY <1>3, <2>1
  <2>3. PICK d \in Nat, e \in Nat : d = 10 * a + i + 1 /\ e = 10 * b + j + 1 /\ w * d = w * e
    BY <2>2
  <2>4. ASSUME d < e PROVE FALSE
    <3>1. w * (d + 1) <= w * e /\ w * (d + 1) = w * d + w
      BY <2>4
    <3> QED
      BY <2>1, <2>3, <3>1
  <2>5. ASSUME e < d PROVE FALSE
    <3>1. w * (e + 1) <= w * d /\ w * (e + 1) = w * e + w
      BY <2>5
    <3> QED
      BY <2>1, <2>3, <3>1
  <2>6. d = e
    BY <2>4, <2>5
  <2> QED
    BY <2>3, <2>6
<1> QED
  BY <1>3, <1>4

(***************************************************************************)
(* Lines are numbers.                                                      *)
(***************************************************************************)
LEMMA LineNat == \A k \in Nat \ {0}, a \in Nat, i \in 0..8 : LineAt(k, a, i) \in Nat
<1> SUFFICES ASSUME NEW k \in Nat \ {0}, NEW a \in Nat, NEW i \in 0..8 PROVE LineAt(k, a, i) \in Nat
  OBVIOUS
<1>1. k \in Nat /\ k - 1 \in Nat
  OBVIOUS
<1>2. PICK u \in Nat, v \in Nat : u = PowerOfTen[k] /\ v = PowerOfTen[k - 1]
  BY <1>1, PowerNat
<1>3. a * u + (i + 1) * v \in Nat
  OBVIOUS
<1> QED
  BY <1>2, <1>3 DEF LineAt

(***************************************************************************)
(* There is no line between a line and the next.                           *)
(***************************************************************************)
LEMMA NoneFilled ==
    ASSUME NEW length \in Nat, NEW n \in 0..length, NEW table \in Tables(length), NEW left \in Nat
    PROVE  Fills(table, table, length, n, left, left + 1)
<1>1. ASSUME NEW m \in 1..n, NEW b \in Nat, NEW j \in 0..8, left < LineAt(m, b, j), LineAt(m, b, j) < left + 1
      PROVE  FALSE
  <2>1. m \in Nat \ {0}
    OBVIOUS
  <2>2. LineAt(m, b, j) \in Nat
    BY <2>1, LineNat, Zenon
  <2> QED
    BY <1>1, <2>2
<1>2. Noted(table, n, left, left + 1)
  BY <1>1, Zenon DEF Noted
<1> QED
  BY <1>2 DEF Fills

\* The line is not noted yet, and its note changes no other line.
NewLine(now, length, from, line, iter, i) ==
    /\ now[line] = Unset
    /\ Note(now, line, iter, i) \in Tables(length) /\ Note(now, line, iter, i)[line] = Commitment(iter, i)
    /\ \A o \in 0..length : o # line => Note(now, line, iter, i)[o] = now[o]
    /\ Blank(Note(now, line, iter, i), length, from, line)

(***************************************************************************)
(* The line after those that are noted is new, and when it has been noted  *)
(* the lines before it are still blank.                                    *)
(***************************************************************************)
LEMMA NextBlank ==
    ASSUME NEW length \in Nat, NEW n \in 0..length, NEW table \in Tables(length),
           NEW left \in Nat, NEW from \in Nat, NEW line \in Nat, NEW right \in Nat,
           left <= from, from < line, line < right, right <= length, Blank(table, length, left, right),
           NEW now, Fills(now, table, length, n, left, from + 1), NEW iter \in 0..length, NEW i \in 0..9
    PROVE  NewLine(now, length, from, line, iter, i)
<1>1. now \in Tables(length) /\ \A o \in 0..length : ~(left < o /\ o < from + 1) => now[o] = table[o]
  BY DEF Fills
<1>2. ASSUME NEW o \in 0..length, from < o, o < right PROVE now[o] = Unset
  <2>1. ~(left < o /\ o < from + 1) /\ left < o
    BY <1>2
  <2>2. table[o] = Unset
    BY <1>2, <2>1 DEF Blank
  <2> QED
    BY <1>1, <2>1, <2>2
<1>3. line \in 0..length
  OBVIOUS
<1>4. PICK noted : noted = Note(now, line, iter, i)
  OBVIOUS
<1>5. /\ noted \in Tables(length) /\ noted[line] = Commitment(iter, i)
      /\ \A o \in 0..length : o # line => noted[o] = now[o]
  <2>1. now \in Tables(length)
    BY <1>1
  <2>2. /\ Note(now, line, iter, i) \in Tables(length)
        /\ Note(now, line, iter, i)[line] = Commitment(iter, i)
        /\ \A o \in 0..length : o # line => Note(now, line, iter, i)[o] = now[o]
    BY <1>3, <2>1 DEF Note, Tables, Commitment
  <2> QED
    BY <1>4, <2>2, Zenon
<1>6. now[line] = Unset
  BY <1>2, <1>3
<1>7. ASSUME NEW o \in 0..length, from < o, o < line PROVE noted[o] = Unset
  <2>1. o # line /\ o < right
    BY <1>7
  <2> QED
    BY <1>2, <1>5, <1>7, <2>1
<1>8. Blank(noted, length, from, line)
  BY <1>7 DEF Blank
<1> QED
  BY <1>4, <1>5, <1>6, <1>8 DEF NewLine

(***************************************************************************)
(* When it has been noted, and then the lines before it, all lines up to   *)
(* it are.                                                                 *)
(***************************************************************************)
LEMMA OneMore ==
    ASSUME NEW length \in Nat, NEW n \in 0..length, NEW table \in Tables(length),
           NEW left \in Nat, NEW from \in Nat, NEW line \in Nat,
           left <= from, from < line, line <= length,
           NEW now, Fills(now, table, length, n, left, from + 1),
           NEW k \in 1..n, NEW a \in Nat, NEW i \in 0..8, line = LineAt(k, a, i),
           NEW noted, noted[line] = Commitment(n + 1 - k, i), \A o \in 0..length : o # line => noted[o] = now[o],
           NEW new, Fills(new, noted, length, n, from, line)
    PROVE  Fills(new, table, length, n, left, line + 1)
<1>1. /\ \A o \in 0..length : ~(left < o /\ o < from + 1) => now[o] = table[o]
      /\ Noted(now, n, left, from + 1)
  BY DEF Fills
<1>2. /\ new \in Tables(length) /\ \A o \in 0..length : ~(from < o /\ o < line) => new[o] = noted[o]
      /\ Noted(new, n, from, line)
  BY DEF Fills
<1>3. ASSUME NEW o \in 0..length, ~(left < o /\ o < line + 1) PROVE new[o] = table[o]
  <2>1. ~(from < o /\ o < line) /\ o # line /\ ~(left < o /\ o < from + 1)
    BY <1>3
  <2> QED
    BY <1>1, <1>2, <2>1
<1>4. ASSUME NEW m \in 1..n, NEW b \in Nat, NEW j \in 0..8, NEW o \in Nat, o = LineAt(m, b, j), left < o, o < line + 1
      PROVE  new[o] = Commitment(n + 1 - m, j)
  <2>1. o \in 0..length
    BY <1>4
  <2>2. CASE o < from + 1
    <3>1. ~(from < o /\ o < line) /\ o # line
      BY <2>2
    <3>2. new[o] = now[o]
      BY <1>2, <2>1, <3>1
    <3>3. now[o] = Commitment(n + 1 - m, j)
      BY <1>1, <1>4, <2>2 DEF Noted
    <3> QED
      BY <3>2, <3>3
  <2>3. CASE from < o /\ o < line
    BY <1>2, <1>4, <2>3 DEF Noted
  <2>4. CASE o = line
    <3>1. m = k /\ j = i
      <4>1. m \in Nat \ {0}
        OBVIOUS
      <4>2. k \in Nat \ {0}
        OBVIOUS
      <4>3. LineAt(m, b, j) = LineAt(k, a, i)
        BY <1>4, <2>4
      <4>4. \A c, d \in Nat, p, q \in 0..8 : LineAt(m, c, p) = LineAt(k, d, q) => m = k /\ p = q
        BY <4>1, <4>2, LineOnce, Zenon
      <4> QED
        BY <1>4, <4>3, <4>4
    <3>2. new[o] = noted[o]
      BY <1>2, <2>1, <2>4
    <3> QED
      BY <2>4, <3>1, <3>2
  <2> QED
    BY <1>4, <2>2, <2>3, <2>4
<1>5. Noted(new, n, left, line + 1)
  <2>1. ASSUME NEW m \in 1..n, NEW b \in Nat, NEW j \in 0..8, left < LineAt(m, b, j), LineAt(m, b, j) < line + 1
        PROVE  new[LineAt(m, b, j)] = Commitment(n + 1 - m, j)
    <3>1. m \in Nat \ {0}
      OBVIOUS
    <3>2. LineAt(m, b, j) \in Nat
      BY <3>1, LineNat, Zenon
    <3>3. PICK o \in Nat : o = LineAt(m, b, j)
      BY <3>2
    <3>4. new[o] = Commitment(n + 1 - m, j)
      BY <1>4, <2>1, <3>3
    <3> QED
      BY <3>3, <3>4
  <2> QED
    BY <2>1, Zenon DEF Noted
<1> QED
  BY <1>2, <1>3, <1>5 DEF Fills

\* With k iterations left, a tenth of a range has q lines, and so many such
\* ranges are before it.
IsRange(k, a, left, q) == left = a * PowerOfTen[k] /\ q = PowerOfTen[k - 1]

\* Where one of its tenths is.
TenthAt(k, a, left, q, i) ==
    /\ 0 < q /\ i * q \in Nat /\ i * q <= 9 * q
    /\ \E b \in Nat : left + i * q = b * PowerOfTen[k - 1]
    /\ (left + i * q) + q = LineAt(k, a, i)
    /\ (left + i * q) + q = left + (i + 1) * q

(***************************************************************************)
(* A tenth is as long as a range of the next iteration, and starts after a *)
(* number of them; its end is a line of this one.                          *)
(***************************************************************************)
LEMMA TenthPlace ==
    ASSUME NEW k \in Nat \ {0}, NEW a \in Nat, NEW left \in Nat, NEW q \in Nat, IsRange(k, a, left, q), NEW i \in 0..9
    PROVE  TenthAt(k, a, left, q, i)
<1>1. k - 1 \in Nat /\ k \in Nat /\ k # 0
  OBVIOUS
<1>2. 0 < q /\ PowerOfTen[k] = 10 * q /\ q = PowerOfTen[k - 1]
  BY <1>1, PowerDef, PowerNat DEF IsRange
<1>3. left = a * (10 * q)
  BY <1>2 DEF IsRange
<1>4. a * (10 * q) + i * q = (10 * a + i) * q /\ 10 * a + i \in Nat
  OBVIOUS
<1>5. i * q \in Nat
  OBVIOUS
<1>6. i * q <= 9 * q
  <2>1. PICK j \in Nat : j = 9 - i
    OBVIOUS
  <2>2. 9 * q = i * q + j * q
    BY <2>1
  <2>3. j * q \in Nat
    BY <2>1
  <2> QED
    BY <1>5, <2>2, <2>3
<1>7. (left + i * q) + q = left + (i + 1) * q
  OBVIOUS
<1>8. (left + i * q) + q = LineAt(k, a, i)
  BY <1>2, <1>3, <1>7 DEF LineAt
<1>9. left + i * q = (10 * a + i) * PowerOfTen[k - 1]
  BY <1>2, <1>3, <1>4
<1> QED
  BY <1>2, <1>4, <1>5, <1>6, <1>7, <1>8, <1>9 DEF TenthAt

\* If the lines up to the left end of a tenth are noted then so are, after the
\* walk of that tenth, those up to its right end.
GoesOn(below, table, length, n, k, left, q) ==
    \A now : \A i \in 0..8, from, line \in Nat :
        from = left + i * q /\ line = from + q /\ Fills(now, table, length, n, left, from + 1)
        => /\ now[line] = Unset
           /\ Fills(below[Note(now, line, n + 1 - k, i)][[left |-> from, right |-> line]],
                    table, length, n, left, line + 1)

(***************************************************************************)
(* The loop notes the end of a tenth, which is not noted before, and the   *)
(* walk of the next iteration the lines in it.                             *)
(***************************************************************************)
LEMMA TenthFilled ==
    ASSUME NEW length \in Nat, NEW n \in 0..length, NEW k \in 1..n, NEW below, WalkFills(below, length, n, k - 1),
           NEW table \in Tables(length), NEW a \in Nat, NEW left \in Nat, NEW q \in Nat, IsRange(k, a, left, q),
           NEW right \in Nat, right = left + 10 * q, right <= length, Blank(table, length, left, right)
    PROVE  GoesOn(below, table, length, n, k, left, q)
<1> SUFFICES ASSUME NEW i \in 0..8, NEW from \in Nat, NEW line \in Nat, NEW now,
                    from = left + i * q, line = from + q, Fills(now, table, length, n, left, from + 1)
             PROVE  /\ now[line] = Unset
                    /\ Fills(below[Note(now, line, n + 1 - k, i)][[left |-> from, right |-> line]],
                             table, length, n, left, line + 1)
  BY Zenon DEF GoesOn
<1>1. k \in Nat \ {0} /\ i \in 0..9 /\ n + 1 - k \in 0..length /\ k - 1 \in Nat
  OBVIOUS
<1>2. /\ 0 < q /\ i * q \in Nat /\ \E b \in Nat : from = b * PowerOfTen[k - 1]
      /\ line = LineAt(k, a, i) /\ line = left + (i + 1) * q
  <2>1. TenthAt(k, a, left, q, i)
    BY <1>1, TenthPlace
  <2> QED
    BY <2>1 DEF TenthAt
<1>3. q = PowerOfTen[k - 1]
  BY DEF IsRange
<1>4. left <= from /\ from < line /\ line < right
  <2>1. PICK x \in Nat : x = i * q
    BY <1>2
  <2>2. x + q < 10 * q
    <3>1. PICK j \in Nat : j = 8 - i
      OBVIOUS
    <3>2. 10 * q = (i * q + q) + (j * q + q)
      BY <3>1
    <3>3. j * q \in Nat
      BY <3>1
    <3> QED
      BY <1>2, <2>1, <3>2, <3>3
  <2> QED
    BY <1>2, <2>1, <2>2
<1>5. PICK noted : noted = Note(now, line, n + 1 - k, i)
  OBVIOUS
<1>6. /\ now[line] = Unset /\ noted \in Tables(length) /\ noted[line] = Commitment(n + 1 - k, i)
      /\ \A o \in 0..length : o # line => noted[o] = now[o]
      /\ Blank(noted, length, from, line)
  <2>1. PICK iter \in 0..length : iter = n + 1 - k
    BY <1>1
  <2>2. NewLine(now, length, from, line, iter, i)
    BY <1>1, <1>4, NextBlank
  <2> QED
    BY <1>5, <2>1, <2>2 DEF NewLine
<1>7. PICK new : new = below[noted][[left |-> from, right |-> line]]
  OBVIOUS
<1>8. Fills(new, noted, length, n, from, line)
  <2>1. PICK b \in Nat : from = b * PowerOfTen[k - 1]
    BY <1>2
  <2>2. line = from + PowerOfTen[k - 1] /\ line <= length
    BY <1>3, <1>4
  <2> QED
    BY <1>6, <1>7, <2>1, <2>2 DEF WalkFills
<1>9. Fills(new, table, length, n, left, line + 1)
  <2>1. line <= length
    BY <1>4
  <2> QED
    BY <1>2, <1>4, <1>6, <1>8, <2>1, OneMore
<1> QED
  BY <1>5, <1>6, <1>7, <1>9

(***************************************************************************)
(* So before every tenth the lines up to its left end are noted.           *)
(***************************************************************************)
LEMMA TenthsFilled ==
    ASSUME NEW length \in Nat, NEW n \in 0..length, NEW k \in 1..n, NEW below, WalkFills(below, length, n, k - 1),
           NEW table \in Tables(length), NEW a \in Nat, NEW left \in Nat, NEW q \in Nat, IsRange(k, a, left, q),
           NEW right \in Nat, right = left + 10 * q, right <= length, Blank(table, length, left, right)
    PROVE  \A i \in 0..9 : Fills(Tenths(below, table, [left |-> left, right |-> right], n + 1 - k)[i],
                                 table, length, n, left, (left + i * q) + 1)
<1>a. PICK range : range = [left |-> left, right |-> right]
  OBVIOUS
<1>b. PICK T : T = Tenths(below, table, range, n + 1 - k)
  OBVIOUS
<1>c. GoesOn(below, table, length, n, k, left, q)
  BY TenthFilled
<1>1. TenthsUpTo(T, below, table, range, n + 1 - k, 9)
  BY <1>b, TenthsDef
<1> DEFINE Done(i) == Fills(T[i], table, length, n, left, (left + i * q) + 1)
<1>2. Done(0)
  <2>1. T[0] = table
    BY <1>1 DEF TenthsUpTo
  <2>2. (left + 0 * q) + 1 = left + 1
    OBVIOUS
  <2>3. Fills(table, table, length, n, left, left + 1)
    BY NoneFilled
  <2> QED
    BY <2>1, <2>2, <2>3
<1>3. ASSUME NEW i \in 0..8, Done(i) PROVE Done(i + 1)
  <2>1. k \in Nat \ {0} /\ i \in 0..9 /\ i + 1 \in 1..9
    OBVIOUS
  <2>2. /\ i * q \in Nat /\ (left + i * q) + q = left + (i + 1) * q
    <3>1. TenthAt(k, a, left, q, i)
      BY <2>1, TenthPlace
    <3> QED
      BY <3>1 DEF TenthAt
  <2>3. PICK from \in Nat : from = left + i * q
    BY <2>2
  <2>4. PICK line \in Nat : line = from + q
    OBVIOUS
  <2>5. PICK now : now = T[i]
    OBVIOUS
  <2>6. Fills(now, table, length, n, left, from + 1)
    BY <1>3, <2>3, <2>5
  <2>7. /\ now[line] = Unset
        /\ Fills(below[Note(now, line, n + 1 - k, i)][[left |-> from, right |-> line]],
                 table, length, n, left, line + 1)
    BY <1>c, <2>3, <2>4, <2>6, Zenon DEF GoesOn
  <2>8. Tenth(range, i) = [left |-> from, right |-> line]
    <3>1. Tenth([left |-> left, right |-> left + 10 * q], i)
              = [left |-> left + i * q, right |-> (left + i * q) + q]
      BY <2>1, TenthExact
    <3> QED
      BY <1>a, <2>3, <2>4, <3>1
  <2>9. T[i + 1] = below[Note(now, line, n + 1 - k, i)][[left |-> from, right |-> line]]
    <3>1. PICK j \in 1..9 : j = i + 1 /\ j # 0 /\ j - 1 = i /\ j \in 0..9
      BY <2>1
    <3>2. T[j] = IF j = 0 THEN table
                 ELSE IF T[j - 1][Tenth(range, j - 1).right] # Unset THEN T[j - 1]
                 ELSE below[Note(T[j - 1], Tenth(range, j - 1).right, n + 1 - k, j - 1)][Tenth(range, j - 1)]
      BY <1>1, <3>1 DEF TenthsUpTo
    <3>3. T[j] = IF now[line] # Unset THEN now
                 ELSE below[Note(now, line, n + 1 - k, i)][[left |-> from, right |-> line]]
      BY <2>5, <2>8, <3>1, <3>2
    <3> QED
      BY <2>7, <3>1, <3>3
  <2>10. line + 1 = (left + (i + 1) * q) + 1
    BY <2>2, <2>3, <2>4
  <2> QED
    BY <2>7, <2>9, <2>10
<1> HIDE DEF Done
<1>4. \A i \in 0..9 : Done(i)
  <2>1. SUFFICES ASSUME {i \in 0..9 : ~Done(i)} # {} PROVE FALSE
    OBVIOUS
  <2>2. {i \in 0..9 : ~Done(i)} \subseteq Nat
    OBVIOUS
  <2>3. PICK j \in {i \in 0..9 : ~Done(i)} : \A y \in {i \in 0..9 : ~Done(i)} : j <= y
    BY <2>1, <2>2, LeastOf
  <2>4. j # 0 /\ ~Done(j) /\ j \in 0..9
    BY <1>2, <2>3
  <2>5. j - 1 \in 0..8 /\ (j - 1) + 1 = j /\ ~(j <= j - 1) /\ j - 1 \in 0..9
    BY <2>4
  <2>6. Done(j - 1)
    BY <2>3, <2>5
  <2>7. Done((j - 1) + 1)
    BY <1>3, <2>5, <2>6
  <2> QED
    BY <2>4, <2>5, <2>7
<1> QED
  BY <1>4, <1>a, <1>b DEF Done

(***************************************************************************)
(* The walk of the last tenth leaves no line of the range blank.           *)
(***************************************************************************)
LEMMA RangeFilled ==
    ASSUME NEW length \in Nat, NEW n \in 0..length, NEW k \in 1..n, NEW below, WalkFills(below, length, n, k - 1),
           NEW table \in Tables(length), NEW a \in Nat, NEW left \in Nat, NEW q \in Nat, IsRange(k, a, left, q),
           NEW right \in Nat, right = left + 10 * q, right <= length, Blank(table, length, left, right)
    PROVE  Fills(below[Tenths(below, table, [left |-> left, right |-> right], n + 1 - k)[9]]
                      [Tenth([left |-> left, right |-> right], 9)], table, length, n, left, right)
<1>1. PICK now : now = Tenths(below, table, [left |-> left, right |-> right], n + 1 - k)[9]
  OBVIOUS
<1>2. PICK from \in Nat : from = left + 9 * q /\ from + q = right
  OBVIOUS
<1>3. Fills(now, table, length, n, left, from + 1)
  <2>1. \A i \in 0..9 : Fills(Tenths(below, table, [left |-> left, right |-> right], n + 1 - k)[i],
                              table, length, n, left, (left + i * q) + 1)
    BY TenthsFilled
  <2>2. 9 \in 0..9
    OBVIOUS
  <2> QED
    BY <1>1, <1>2, <2>1, <2>2
<1>4. PICK new : new = below[now][[left |-> from, right |-> right]]
  OBVIOUS
<1>5. Tenth([left |-> left, right |-> right], 9) = [left |-> from, right |-> right]
  <2>1. 9 \in 0..9
    OBVIOUS
  <2>2. Tenth([left |-> left, right |-> left + 10 * q], 9) = [left |-> left + 9 * q, right |-> (left + 9 * q) + q]
    BY <2>1, TenthExact
  <2> QED
    BY <1>2, <2>2
<1>6. now \in Tables(length) /\ \A o \in 0..length : ~(left < o /\ o < from + 1) => now[o] = table[o]
  BY <1>3 DEF Fills
<1>7. Blank(now, length, from, right)
  BY <1>2, <1>6 DEF Blank
<1>8. Fills(new, now, length, n, from, right)
  <2>1. k \in Nat \ {0} /\ 9 \in 0..9
    OBVIOUS
  <2>2. \E b \in Nat : left + 9 * q = b * PowerOfTen[k - 1]
    <3>1. TenthAt(k, a, left, q, 9)
      BY <2>1, TenthPlace
    <3> QED
      BY <3>1 DEF TenthAt
  <2>3. PICK b \in Nat : from = b * PowerOfTen[k - 1]
    BY <1>2, <2>2
  <2>4. right = from + PowerOfTen[k - 1]
    BY <1>2 DEF IsRange
  <2> QED
    BY <1>4, <1>6, <1>7, <2>3, <2>4 DEF WalkFills
<1>9. new \in Tables(length) /\ \A o \in 0..length : ~(from < o /\ o < right) => new[o] = now[o]
  BY <1>8 DEF Fills
<1>10. ASSUME NEW o \in 0..length, ~(left < o /\ o < right) PROVE new[o] = table[o]
  <2>1. ~(from < o /\ o < right) /\ ~(left < o /\ o < from + 1)
    BY <1>2, <1>10
  <2> QED
    BY <1>6, <1>9, <2>1
<1>11. ASSUME NEW m \in 1..n, NEW b \in Nat, NEW j \in 0..8, NEW o \in Nat, o = LineAt(m, b, j), left < o, o < right
       PROVE  new[o] = Commitment(n + 1 - m, j)
  <2>1. CASE o < from + 1
    <3>1. new[o] = now[o]
      BY <1>9, <1>11, <2>1
    <3>2. now[o] = Commitment(n + 1 - m, j)
      BY <1>3, <1>11, <2>1 DEF Fills, Noted
    <3> QED
      BY <3>1, <3>2
  <2>2. CASE from < o
    BY <1>8, <1>11, <2>2 DEF Fills, Noted
  <2> QED
    BY <1>11, <2>1, <2>2
<1>12. Noted(new, n, left, right)
  <2>1. ASSUME NEW m \in 1..n, NEW b \in Nat, NEW j \in 0..8, left < LineAt(m, b, j), LineAt(m, b, j) < right
        PROVE  new[LineAt(m, b, j)] = Commitment(n + 1 - m, j)
    <3>1. m \in Nat \ {0}
      OBVIOUS
    <3>2. LineAt(m, b, j) \in Nat
      BY <3>1, LineNat, Zenon
    <3>3. PICK o \in Nat : o = LineAt(m, b, j)
      BY <3>2
    <3>4. new[o] = Commitment(n + 1 - m, j)
      BY <1>11, <2>1, <3>3
    <3> QED
      BY <3>3, <3>4
  <2> QED
    BY <2>1, Zenon DEF Noted
<1>13. Fills(new, table, length, n, left, right)
  BY <1>9, <1>10, <1>12 DEF Fills
<1> QED
  BY <1>1, <1>4, <1>5, <1>13

(***************************************************************************)
(* By induction over the iterations the walk notes all lines of a range.   *)
(***************************************************************************)
LEMMA WalkNotes ==
    ASSUME NEW length \in Nat, NEW n \in 0..length, n = IterationsFor(length)
    PROVE  \A k \in 0..n : WalkFills(Walk(length)[k], length, n, k)
<1>a. PICK walk : walk = Walk(length)
  OBVIOUS
<1>1. n \in Nat /\ WalkUpTo(walk, length, n)
  <2>1. n \in Nat /\ IterationsFor(length) \in Nat
    OBVIOUS
  <2> QED
    BY <1>a, <2>1, WalkDef
<1>2. ASSUME NEW k \in 0..n, NEW table \in Tables(length), NEW range \in Ranges(length)
      PROVE  walk[k][table][range] =
                 IF k = 0 THEN table
                 ELSE walk[k - 1][Tenths(walk[k - 1], table, range, n + 1 - k)[9]][Tenth(range, 9)]
  <2>1. walk[k] = [t \in Tables(length) |-> [r \in Ranges(length) |->
                      IF k = 0 THEN t
                      ELSE walk[k - 1][Tenths(walk[k - 1], t, r, IterationsFor(length) + 1 - k)[9]][Tenth(r, 9)]]]
    BY <1>1, Zenon DEF WalkUpTo
  <2>2. walk[k][table] = [r \in Ranges(length) |->
                             IF k = 0 THEN table
                             ELSE walk[k - 1][Tenths(walk[k - 1], table, r, IterationsFor(length) + 1 - k)[9]]
                                      [Tenth(r, 9)]]
    BY <2>1, Zenon
  <2>3. walk[k][table][range] =
            IF k = 0 THEN table
            ELSE walk[k - 1][Tenths(walk[k - 1], table, range, IterationsFor(length) + 1 - k)[9]][Tenth(range, 9)]
    BY <2>2, Zenon
  <2> QED
    BY <2>3
<1>3. ASSUME NEW left \in Nat, NEW right \in Nat, left <= right, right <= length
      PROVE  [left |-> left, right |-> right] \in Ranges(length)
  BY <1>3 DEF Ranges
<1>4. WalkFills(walk[0], length, n, 0)
  <2>1. SUFFICES ASSUME NEW table \in Tables(length), NEW left \in Nat, NEW right \in Nat,
                        right = left + 1, right <= length
                 PROVE  Fills(walk[0][table][[left |-> left, right |-> right]], table, length, n, left, right)
    <3>1. PowerOfTen[0] = 1
      BY PowerDef
    <3> QED
      BY <2>1, <3>1 DEF WalkFills
  <2>2. [left |-> left, right |-> right] \in Ranges(length) /\ 0 \in 0..n
    BY <1>1, <1>3, <2>1
  <2>3. walk[0][table][[left |-> left, right |-> right]] = table
    BY <1>2, <2>2
  <2> QED
    BY <2>1, <2>3, NoneFilled
<1>5. ASSUME NEW k \in 1..n, WalkFills(walk[k - 1], length, n, k - 1) PROVE WalkFills(walk[k], length, n, k)
  <2>1. k \in 0..n /\ k # 0 /\ k \in Nat /\ k - 1 \in Nat
    OBVIOUS
  <2>2. PICK q \in Nat : q = PowerOfTen[k - 1] /\ PowerOfTen[k] = 10 * q
    BY <2>1, PowerDef, PowerNat
  <2>3. ASSUME NEW table \in Tables(length), NEW a \in Nat, NEW left \in Nat, NEW right \in Nat,
               left = a * PowerOfTen[k], right = left + PowerOfTen[k], right <= length,
               Blank(table, length, left, right)
        PROVE  Fills(walk[k][table][[left |-> left, right |-> right]], table, length, n, left, right)
    <3>1. right = left + 10 * q /\ IsRange(k, a, left, q)
      BY <2>2, <2>3 DEF IsRange
    <3>2. Fills(walk[k - 1][Tenths(walk[k - 1], table, [left |-> left, right |-> right], n + 1 - k)[9]]
                           [Tenth([left |-> left, right |-> right], 9)], table, length, n, left, right)
      BY <1>5, <2>3, <3>1, RangeFilled
    <3>3. [left |-> left, right |-> right] \in Ranges(length)
      BY <1>3, <2>3, <3>1
    <3> QED
      BY <1>2, <2>1, <3>2, <3>3
  <2> QED
    BY <2>3, Zenon DEF WalkFills
<1>6. \A k \in 0..n : WalkFills(walk[k], length, n, k)
  <2>1. SUFFICES ASSUME {k \in 0..n : ~WalkFills(walk[k], length, n, k)} # {} PROVE FALSE
    OBVIOUS
  <2> DEFINE Bad == {k \in 0..n : ~WalkFills(walk[k], length, n, k)}
  <2>2. Bad \subseteq Nat
    OBVIOUS
  <2>3. PICK k \in Bad : \A y \in Bad : k <= y
    BY <2>1, <2>2, LeastOf
  <2>4. k # 0 /\ k \in 0..n /\ ~WalkFills(walk[k], length, n, k)
    BY <1>4, <2>3
  <2>5. k \in 1..n /\ k - 1 \in 0..n /\ ~(k <= k - 1)
    BY <2>4
  <2>6. WalkFills(walk[k - 1], length, n, k - 1)
    BY <2>3, <2>5
  <2> QED
    BY <1>5, <2>4, <2>5, <2>6
<1> QED
  BY <1>6, <1>a

(***************************************************************************)
(* So the constructor's table has the iteration and the selection of every *)
(* line of a program of ten to the n lines.                                *)
(***************************************************************************)
LEMMA CommitmentsNoted ==
    ASSUME NEW n \in Nat, NEW length, length = PowerOfTen[n]
    PROVE  Noted(StateCommitments(length), n, 0, length)
<1>1. length \in Nat /\ n \in 0..length /\ IterationsFor(length) = n
  BY IterationsExact, PowerNat
<1>2. PICK table : table = [line \in 0..length |-> IF line \in {0, length} THEN Commitment(0, 0) ELSE Unset]
  OBVIOUS
<1>3. PICK new : new = Walk(length)[n][table][[left |-> 0, right |-> length]]
  OBVIOUS
<1>4. table \in Tables(length)
  BY <1>1, <1>2 DEF Tables, Commitment, Unset
<1>5. Blank(table, length, 0, length)
  BY <1>1, <1>2 DEF Blank
<1>6. WalkFills(Walk(length)[n], length, n, n)
  <2>1. \A k \in 0..n : WalkFills(Walk(length)[k], length, n, k)
    BY <1>1, WalkNotes
  <2> QED
    BY <2>1
<1>7. 0 = 0 * PowerOfTen[n] /\ length = 0 + PowerOfTen[n]
  BY <1>1
<1>8. Fills(new, table, length, n, 0, length)
  <2>1. 0 \in Nat /\ length <= length
    BY <1>1
  <2>2. Fills(Walk(length)[n][table][[left |-> 0, right |-> length]], table, length, n, 0, length)
    BY <1>1, <1>4, <1>5, <1>6, <1>7, <2>1, Zenon DEF WalkFills
  <2> QED
    BY <1>3, <2>2
<1>9. new = StateCommitments(length)
  BY <1>1, <1>2, <1>3 DEF StateCommitments, Range0
<1> QED
  BY <1>8, <1>9, Zenon DEF Fills

-----------------------------------------------------------------------------
(* Division by powers of two.                                              *)

(***************************************************************************)
(* A number is so many times another, and what is left over.               *)
(***************************************************************************)
LEMMA DivMod ==
    ASSUME NEW n \in Nat, NEW p \in Nat, 0 < p
    PROVE  \E a \in Nat, r \in 0..(p - 1) : n \div p = a /\ n % p = r /\ n = a * p + r
  OBVIOUS

(***************************************************************************)
(* There is only one way to divide.                                        *)
(***************************************************************************)
LEMMA DivOf ==
    ASSUME NEW a \in Nat, NEW p \in Nat, 0 < p, NEW r \in 0..(p - 1)
    PROVE  (a * p + r) \div p = a /\ (a * p + r) % p = r
<1>1. PICK n \in Nat : n = a * p + r
  OBVIOUS
<1>2. PICK q \in Nat, s \in 0..(p - 1) : n \div p = q /\ n % p = s /\ n = q * p + s
  BY DivMod
<1>3. ~(q < a)
  <2> SUFFICES ASSUME q + 1 <= a PROVE FALSE
    OBVIOUS
  <2>1. (q + 1) * p <= a * p
    OBVIOUS
  <2> QED
    BY <2>1, <1>1, <1>2
<1>4. ~(a < q)
  <2> SUFFICES ASSUME a + 1 <= q PROVE FALSE
    OBVIOUS
  <2>1. (a + 1) * p <= q * p
    OBVIOUS
  <2> QED
    BY <2>1, <1>1, <1>2
<1> QED
  BY <1>1, <1>2, <1>3, <1>4

(***************************************************************************)
(* To divide by twice as much is to divide, and then to halve.             *)
(***************************************************************************)
LEMMA HalvesOf ==
    ASSUME NEW n \in Nat, NEW k \in Nat
    PROVE  n \div PowerOfTwo[k + 1] = (n \div PowerOfTwo[k]) \div 2
<1>a. PICK p \in Nat : p = PowerOfTwo[k] /\ 0 < p /\ PowerOfTwo[k + 1] = 2 * p
  BY TwoDef, TwoNat
<1>1. PICK a \in Nat, r \in 0..(p - 1) : n \div p = a /\ n % p = r /\ n = a * p + r
  BY <1>a, DivMod
<1>2. PICK b \in Nat, s \in 0..1 : a \div 2 = b /\ a = 2 * b + s
  OBVIOUS
<1>3. n = b * (2 * p) + (s * p + r)
  BY <1>1, <1>2
<1>4. s * p + r \in 0..(2 * p - 1) /\ 2 * p \in Nat /\ 0 < 2 * p
  <2>1. s * p = 0 \/ s * p = p
    BY <1>2
  <2> QED
    BY <1>a, <2>1
<1>5. n \div (2 * p) = b
  BY <1>3, <1>4, DivOf
<1> QED
  BY <1>a, <1>1, <1>2, <1>5

(***************************************************************************)
(* The place above a place is a number.                                    *)
(***************************************************************************)
LEMMA PlaceNat == \A n, h \in Nat : n \div PowerOfTwo[h] \in Nat
<1> SUFFICES ASSUME NEW n \in Nat, NEW h \in Nat PROVE n \div PowerOfTwo[h] \in Nat
  OBVIOUS
<1>1. PICK p \in Nat : p = PowerOfTwo[h] /\ 0 < p
  BY TwoNat
<1>2. n \div p \in Nat
  BY <1>1, DivMod
<1> QED
  BY <1>1, <1>2

(***************************************************************************)
(* What is below a power of two is, divided by another, below the rest.    *)
(***************************************************************************)
LEMMA PlaceBelow ==
    ASSUME NEW d \in Nat, NEW h \in 0..d, NEW n \in 0..(PowerOfTwo[d] - 1)
    PROVE  n \div PowerOfTwo[h] \in 0..(PowerOfTwo[d - h] - 1)
<1>1. h \in Nat /\ d - h \in Nat /\ (d - h) + h = d
  OBVIOUS
<1>2. PICK p \in Nat : p = PowerOfTwo[h] /\ 0 < p
  BY <1>1, TwoNat
<1>3. PICK q \in Nat : q = PowerOfTwo[d - h]
  BY <1>1, TwoNat
<1>4. PowerOfTwo[d] = q * p
  BY <1>1, <1>2, <1>3, TwoSum
<1>5. n \in Nat /\ n < q * p
  <2>1. q * p \in Nat
    OBVIOUS
  <2> QED
    BY <1>4, <2>1
<1>6. PICK a \in Nat, r \in 0..(p - 1) : n \div p = a /\ n % p = r /\ n = a * p + r
  BY <1>2, <1>5, DivMod
<1>7. a < q
  <2> SUFFICES ASSUME q <= a PROVE FALSE
    OBVIOUS
  <2>1. q * p <= a * p
    OBVIOUS
  <2> QED
    BY <1>5, <1>6, <2>1
<1>8. n \div p = a /\ a \in 0..(q - 1)
  BY <1>6, <1>7
<1> QED
  BY <1>2, <1>3, <1>8

(***************************************************************************)
(* A power of two divided by a smaller one is a power of two.              *)
(***************************************************************************)
LEMMA TwoDiv ==
    ASSUME NEW d \in Nat, NEW h \in 0..d
    PROVE  PowerOfTwo[d] \div PowerOfTwo[h] = PowerOfTwo[d - h]
<1>1. h \in Nat /\ d - h \in Nat /\ (d - h) + h = d
  OBVIOUS
<1>2. PICK p \in Nat : p = PowerOfTwo[h] /\ 0 < p
  BY <1>1, TwoNat
<1>3. PICK q \in Nat : q = PowerOfTwo[d - h]
  BY <1>1, TwoNat
<1>4. PowerOfTwo[d] = q * p + 0
  <2>1. PowerOfTwo[d] = q * p
    BY <1>1, <1>2, <1>3, TwoSum
  <2>2. q * p + 0 = q * p
    OBVIOUS
  <2> QED
    BY <2>1, <2>2
<1> QED
  BY <1>2, <1>3, <1>4, DivOf

-----------------------------------------------------------------------------
(* The tree of all scripts.                                                *)

\* f is the layers of the tree up to layer n.
LayersUpTo(f, leaves, n) ==
    f = [k \in 0..n |-> [i \in Nat |->
            IF k = 0 THEN leaves[i + 1]
            ELSE CombineHashes(f[k - 1][2 * i],
                               f[k - 1][IF 2 * i + 1 < Width(leaves, k - 1) THEN 2 * i + 1 ELSE 2 * i])]]

(***************************************************************************)
(* There are as many layers as one wants.                                  *)
(***************************************************************************)
LEMMA LayersExist == \A leaves : \A n \in Nat : \E f : LayersUpTo(f, leaves, n)
<1> SUFFICES ASSUME NEW leaves, {k \in Nat : ~\E f : LayersUpTo(f, leaves, k)} # {} PROVE FALSE
  OBVIOUS
<1> DEFINE Bad == {k \in Nat : ~\E f : LayersUpTo(f, leaves, k)}
           Above(low, k) ==
               [i \in Nat |->
                   IF k = 0 THEN leaves[i + 1]
                   ELSE CombineHashes(low[2 * i], low[IF 2 * i + 1 < Width(leaves, k - 1) THEN 2 * i + 1 ELSE 2 * i])]
<1>a. \A f, n : LayersUpTo(f, leaves, n) <=> f = [k \in 0..n |-> Above(f[k - 1], k)]
  BY DEF LayersUpTo
<1>b. \A low, other : Above(low, 0) = Above(other, 0)
  OBVIOUS
<1> HIDE DEF Above
<1>1. PICK m \in Bad : \A y \in Bad : m <= y
  BY LeastOf
<1>2. m # 0
  <2> DEFINE g == [k \in 0..0 |-> Above(0, 0)]
  <2>1. \A k \in 0..0 : k = 0
    OBVIOUS
  <2>2. g = [k \in 0..0 |-> Above(g[k - 1], k)]
    BY <1>b, <2>1
  <2> QED
    BY <1>1, <1>a, <2>2
<1>3. m - 1 \in Nat /\ ~(m <= m - 1)
  BY <1>1, <1>2
<1>4. PICK f : LayersUpTo(f, leaves, m - 1)
  BY <1>1, <1>3
<1> DEFINE g == [k \in 0..m |-> IF k = m THEN Above(f[m - 1], m) ELSE f[k]]
<1>5. ASSUME NEW k \in 0..m PROVE g[k] = Above(g[k - 1], k)
  <2>1. CASE k = m
    BY <1>1, <1>2, <2>1
  <2>2. CASE k \in 1..(m - 1)
    <3>1. f[k] = Above(f[k - 1], k)
      BY <1>4, <1>a, <2>2
    <3> QED
      BY <1>1, <1>2, <2>2, <3>1
  <2>3. CASE k = 0
    <3>1. f[0] = Above(f[0 - 1], 0)
      BY <1>3, <1>4, <1>a
    <3>2. g[0] = f[0]
      BY <1>1, <1>2
    <3> QED
      BY <1>b, <2>3, <3>1, <3>2
  <2> QED
    BY <1>1, <2>1, <2>2, <2>3
<1>6. LayersUpTo(g, leaves, m)
  BY <1>5, <1>a
<1> QED
  BY <1>1, <1>6

\* A tree that is full: every layer has twice the hashes of the next one.
Full(leaves, d) == d \in Nat /\ Len(leaves) = PowerOfTwo[d]

(***************************************************************************)
(* Its layers are those of the definition, and the root is the last one.   *)
(***************************************************************************)
LEMMA LayersFull ==
    ASSUME NEW leaves, NEW d, Full(leaves, d)
    PROVE  LayersUpTo(Layers(leaves), leaves, d) /\ GetRoot(leaves) = Layers(leaves)[d][0]
<1>1. Log2(Len(leaves)) = d /\ d \in Nat
  BY TwoLog DEF Full
<1>2. Layers(leaves) = CHOOSE f : LayersUpTo(f, leaves, d)
  BY <1>1 DEF Layers, LayersUpTo
<1> QED
  BY <1>1, <1>2, LayersExist DEF GetRoot

(***************************************************************************)
(* Layer k of a full tree of depth d has two to the d - k hashes.          *)
(***************************************************************************)
LEMMA WidthFull ==
    ASSUME NEW leaves, NEW d, Full(leaves, d), NEW k \in 0..d
    PROVE  Width(leaves, k) = PowerOfTwo[d - k]
<1>1. d \in Nat /\ k \in Nat /\ d - k \in Nat /\ (d - k) + k = d
  BY DEF Full
<1>2. PICK p \in Nat : p = PowerOfTwo[k] /\ 0 < p
  BY <1>1, TwoNat
<1>3. PICK q \in Nat : q = PowerOfTwo[d - k]
  BY <1>1, TwoNat
<1>4. Len(leaves) = q * p
  BY <1>1, <1>2, <1>3, TwoSum DEF Full
<1>5. p - 1 \in 0..(p - 1) /\ (q * p + p) - 1 = q * p + (p - 1)
  BY <1>2
<1>6. Width(leaves, k) = (q * p + (p - 1)) \div p
  BY <1>2, <1>4, <1>5 DEF Width
<1> QED
  BY <1>2, <1>3, <1>5, <1>6, DivOf

(***************************************************************************)
(* The sibling of a place: the next one if it is even, the one before if   *)
(* it is odd.                                                              *)
(***************************************************************************)
LEMMA SiblingOf ==
    ASSUME NEW a \in Nat
    PROVE  \E b \in Nat : \/ a = 2 * b /\ a % 2 = 0 /\ Sibling(a) = 2 * b + 1 /\ a \div 2 = b
                          \/ a = 2 * b + 1 /\ a % 2 = 1 /\ Sibling(a) = 2 * b /\ a \div 2 = b
<1>1. PICK b \in Nat : a \div 2 = b /\ (a = 2 * b \/ a = 2 * b + 1)
  OBVIOUS
<1>2. CASE a = 2 * b
  <2>1. a % 2 = 0
    BY <1>2
  <2> QED
    BY <1>1, <1>2, <2>1 DEF Sibling
<1>3. CASE a = 2 * b + 1
  <2>1. a % 2 = 1
    BY <1>3
  <2> QED
    BY <1>1, <1>3, <2>1 DEF Sibling
<1> QED
  BY <1>1, <1>2, <1>3

(***************************************************************************)
(* A hash and its sibling are combined to the hash above them.             *)
(***************************************************************************)
LEMMA PairFull ==
    ASSUME NEW leaves, NEW d, Full(leaves, d), NEW k \in 0..(d - 1), NEW a \in 0..(PowerOfTwo[d - k] - 1)
    PROVE  /\ Sibling(a) \in 0..(PowerOfTwo[d - k] - 1)
           /\ CombineHashes(Layers(leaves)[k][a], Layers(leaves)[k][Sibling(a)]) = Layers(leaves)[k + 1][a \div 2]
<1>1. d \in Nat /\ k \in Nat /\ k \in 0..d /\ k + 1 \in 0..d /\ k + 1 # 0 /\ (k + 1) - 1 = k /\ d - (k + 1) \in Nat
      /\ d - k = (d - (k + 1)) + 1 /\ d - k \in Nat
  BY DEF Full
<1>2. PICK q \in Nat : q = PowerOfTwo[d - (k + 1)] /\ PowerOfTwo[d - k] = 2 * q
  BY <1>1, TwoNat, TwoDef
<1>3. a \in Nat /\ a < 2 * q
  BY <1>2
<1>4. PICK b \in Nat : \/ a = 2 * b /\ a % 2 = 0 /\ Sibling(a) = 2 * b + 1 /\ a \div 2 = b
                       \/ a = 2 * b + 1 /\ a % 2 = 1 /\ Sibling(a) = 2 * b /\ a \div 2 = b
  BY <1>3, SiblingOf
<1>5. b < q /\ 2 * b + 1 < 2 * q
  BY <1>3, <1>4
<1>6. Sibling(a) \in 0..(PowerOfTwo[d - k] - 1)
  BY <1>2, <1>4, <1>5
<1>7. Width(leaves, k) = 2 * q
  BY <1>1, <1>2, WidthFull
<1>8. Layers(leaves)[k + 1][b] = CombineHashes(Layers(leaves)[k][2 * b], Layers(leaves)[k][2 * b + 1])
  <2>1. LayersUpTo(Layers(leaves), leaves, d)
    BY LayersFull
  <2>2. 2 * b + 1 < Width(leaves, (k + 1) - 1)
    BY <1>1, <1>5, <1>7
  <2> QED
    BY <1>1, <2>1, <2>2 DEF LayersUpTo
<1>9. CombineHashes(Layers(leaves)[k][a], Layers(leaves)[k][Sibling(a)])
      = CombineHashes(Layers(leaves)[k][2 * b], Layers(leaves)[k][2 * b + 1])
  BY <1>4 DEF CombineHashes
<1> QED
  BY <1>4, <1>6, <1>8, <1>9

\* f is the hashes on the way up, after up to n siblings.
ClimbUpTo(f, hash, siblings, n) ==
    f = [k \in 0..n |-> IF k = 0 THEN hash ELSE CombineHashes(f[k - 1], siblings[k])]

(***************************************************************************)
(* One can climb any number of siblings.                                   *)
(***************************************************************************)
LEMMA ClimbExists == \A hash, siblings : \A n \in Nat : \E f : ClimbUpTo(f, hash, siblings, n)
<1> SUFFICES ASSUME NEW hash, NEW siblings, {n \in Nat : ~\E f : ClimbUpTo(f, hash, siblings, n)} # {} PROVE FALSE
  OBVIOUS
<1> DEFINE Bad == {n \in Nat : ~\E f : ClimbUpTo(f, hash, siblings, n)}
<1>1. PICK m \in Bad : \A y \in Bad : m <= y
  BY LeastOf
<1>2. m # 0
  <2>1. ClimbUpTo([k \in 0..0 |-> hash], hash, siblings, 0)
    BY DEF ClimbUpTo
  <2> QED
    BY <1>1, <2>1
<1>3. m - 1 \in Nat /\ ~(m <= m - 1)
  BY <1>1, <1>2
<1>4. PICK f : ClimbUpTo(f, hash, siblings, m - 1)
  BY <1>1, <1>3
<1> DEFINE g == [k \in 0..m |-> IF k = m THEN CombineHashes(f[m - 1], siblings[m]) ELSE f[k]]
<1>5. ASSUME NEW k \in 0..m PROVE g[k] = IF k = 0 THEN hash ELSE CombineHashes(g[k - 1], siblings[k])
  <2>1. CASE k = m
    BY <1>1, <1>2, <2>1
  <2>2. CASE k \in 0..(m - 1)
    <3>1. f[k] = IF k = 0 THEN hash ELSE CombineHashes(f[k - 1], siblings[k])
      BY <1>4, <2>2 DEF ClimbUpTo
    <3> QED
      BY <1>1, <1>2, <2>2, <3>1
  <2> QED
    BY <1>1, <2>1, <2>2
<1>6. ClimbUpTo(g, hash, siblings, m)
  BY <1>5 DEF ClimbUpTo
<1> QED
  BY <1>1, <1>6

\* The siblings are the first m on the way of leaf i.
OnTheWay(siblings, leaves, i, m) ==
    /\ Len(siblings) = m
    /\ \A k \in 1..m : siblings[k] = Layers(leaves)[k - 1][Sibling(i \div PowerOfTwo[k - 1])]

(***************************************************************************)
(* From a leaf the siblings on its way lead to the hashes of the tree that *)
(* are above it.                                                           *)
(***************************************************************************)
LEMMA OpensTree ==
    ASSUME NEW leaves, NEW d, Full(leaves, d), NEW i \in 0..(PowerOfTwo[d] - 1),
           NEW m \in 0..d, NEW siblings, OnTheWay(siblings, leaves, i, m)
    PROVE  OpenedRoot(Layers(leaves)[0][i], siblings) = Layers(leaves)[m][i \div PowerOfTwo[m]]
<1> DEFINE hash == Layers(leaves)[0][i]
           climb == Climb(hash, siblings)
           Bad == {k \in 0..m : climb[k] # Layers(leaves)[k][i \div PowerOfTwo[k]]}
<1>1. ClimbUpTo(climb, hash, siblings, m)
  <2>1. climb = CHOOSE f : ClimbUpTo(f, hash, siblings, m)
    BY DEF Climb, ClimbUpTo, OnTheWay
  <2>2. m \in Nat
    BY DEF Full
  <2> HIDE DEF climb, hash
  <2> QED
    BY <2>1, <2>2, ClimbExists
<1>2. OpenedRoot(hash, siblings) = climb[m]
  BY DEF OpenedRoot, OnTheWay
<1>3. i \in Nat /\ d \in Nat /\ m \in Nat /\ m <= d
  BY TwoNat DEF Full
<1>4. ASSUME Bad # {} PROVE FALSE
  <2>1. PICK j \in Bad : \A y \in Bad : j <= y
    <3>1. Bad \subseteq Nat
      BY <1>3
    <3> HIDE DEF Bad
    <3> QED
      BY <1>4, <3>1, LeastOf
  <2>2. j # 0
    <3>1. climb[0] = hash
      BY <1>1, <1>3 DEF ClimbUpTo
    <3>2. PowerOfTwo[0] = 1 /\ i \div 1 = i
      BY <1>3, TwoDef
    <3> QED
      BY <2>1, <3>1, <3>2
  <2>3. PICK k \in 0..(d - 1) : k = j - 1 /\ k + 1 = j /\ k \in 0..m /\ j \in 1..m /\ k \in Nat /\ k \in 0..d /\ k + 1 \in 0..m
    BY <1>3, <2>1, <2>2
  <2>4. climb[k] = Layers(leaves)[k][i \div PowerOfTwo[k]]
    <3>1. ~(j <= k)
      BY <2>3
    <3> QED
      BY <2>1, <2>3, <3>1
  <2>5. climb[k + 1] = CombineHashes(climb[k], siblings[k + 1])
    BY <1>1, <2>3 DEF ClimbUpTo
  <2>6. siblings[k + 1] = Layers(leaves)[k][Sibling(i \div PowerOfTwo[k])]
    BY <2>3 DEF OnTheWay
  <2>7. i \div PowerOfTwo[k] \in 0..(PowerOfTwo[d - k] - 1)
    BY <1>3, <2>3, PlaceBelow
  <2>8. CombineHashes(climb[k], siblings[k + 1]) = Layers(leaves)[k + 1][(i \div PowerOfTwo[k]) \div 2]
    <3> HIDE DEF climb
    <3> QED
      BY <2>3, <2>4, <2>6, <2>7, PairFull
  <2>9. i \div PowerOfTwo[k + 1] = (i \div PowerOfTwo[k]) \div 2
    BY <1>3, <2>3, HalvesOf
  <2> QED
    BY <2>1, <2>3, <2>5, <2>8, <2>9
<1> QED
  BY <1>2, <1>3, <1>4

(***************************************************************************)
(* The proof of a leaf of a full tree are the siblings on its way.         *)
(***************************************************************************)
LEMMA ProofFull ==
    ASSUME NEW leaves, NEW d, Full(leaves, d), NEW i \in 0..(PowerOfTwo[d] - 1)
    PROVE  GetProof(leaves, i) = [k \in 1..d |-> Layers(leaves)[k - 1][Sibling(i \div PowerOfTwo[k - 1])]]
<1>1. Log2(Len(leaves)) = d /\ d \in Nat
  BY TwoLog DEF Full
<1>2. ASSUME NEW k \in 1..d
      PROVE  Sibling(i \div PowerOfTwo[k - 1]) < Width(leaves, k - 1)
  <2>1. PICK h \in 0..(d - 1) : h = k - 1 /\ h \in 0..d /\ d - h \in Nat
    BY <1>1
  <2>2. i \div PowerOfTwo[h] \in 0..(PowerOfTwo[d - h] - 1)
    BY <1>1, <2>1, PlaceBelow
  <2>3. Sibling(i \div PowerOfTwo[h]) \in 0..(PowerOfTwo[d - h] - 1)
    BY <2>1, <2>2, PairFull
  <2>4. Width(leaves, h) = PowerOfTwo[d - h] /\ PowerOfTwo[d - h] \in Nat
    BY <2>1, WidthFull, TwoNat
  <2> QED
    BY <2>1, <2>3, <2>4
<1> QED
  BY <1>1, <1>2 DEF GetProof

-----------------------------------------------------------------------------
(* The compressor.                                                         *)

\* What a compressor holds after n of the leaves of a full tree: of level h,
\* counted from the leaves, a hash if an odd number of them is there so far;
\* and of the siblings that its leaf will need those that are there.
CompressorHolds(c, leaves, d) ==
    LET n == c.nextIndex
        Needed(h) == Sibling(c.indexToSave \div PowerOfTwo[h])
    IN  /\ DOMAIN c = {"depth", "indexToSave", "nextIndex", "data", "proof"}
        /\ c.depth = d + 1
        /\ c.indexToSave \in 0..(PowerOfTwo[d] - 1) /\ n \in 0..PowerOfTwo[d]
        /\ c.data = [i \in 0..d |->
                        IF (n \div PowerOfTwo[d - i]) % 2 = 1
                        THEN <<Layers(leaves)[d - i][n \div PowerOfTwo[d - i] - 1]>> ELSE <<>>]
        /\ c.proof = [h \in {k \in 0..(d - 1) : Needed(k) < n \div PowerOfTwo[k]} |-> Layers(leaves)[h][Needed(h)]]

(***************************************************************************)
(* In a number that is below a power of two a bit below it is zero; the    *)
(* number that follows has all lower ones zero, this one one and the       *)
(* others as they are.                                                     *)
(***************************************************************************)
LEMMA LowestZero ==
    ASSUME NEW d \in Nat, NEW n \in 0..(PowerOfTwo[d] - 1)
    PROVE  \E t \in 0..d :
              /\ (n \div PowerOfTwo[t]) % 2 = 0
              /\ \A h \in 0..(t - 1) : (n \div PowerOfTwo[h]) % 2 = 1
              /\ \A h \in 0..d :
                    (n + 1) \div PowerOfTwo[h] = n \div PowerOfTwo[h] + (IF h <= t THEN 1 ELSE 0)
<1>1. n \in Nat /\ n + 1 \in Nat
  BY TwoNat
<1> DEFINE Zero == {h \in 0..d : (n \div PowerOfTwo[h]) % 2 = 0}
<1>2. d \in Zero
  <2>1. n \div PowerOfTwo[d] \in 0..(PowerOfTwo[0] - 1)
    <3>1. d \in 0..d /\ d - d = 0
      OBVIOUS
    <3> QED
      BY <3>1, PlaceBelow
  <2>2. PowerOfTwo[0] - 1 = 0
    BY TwoDef
  <2>3. n \div PowerOfTwo[d] = 0
    BY <2>1, <2>2
  <2> QED
    BY <2>3
<1>3. PICK t \in Zero : \A y \in Zero : t <= y
  <2>1. Zero \subseteq Nat
    OBVIOUS
  <2> HIDE DEF Zero
  <2> QED
    BY <1>2, <2>1, LeastOf
<1>4. t \in 0..d /\ (n \div PowerOfTwo[t]) % 2 = 0
  OBVIOUS
<1>5. ASSUME NEW h \in 0..(t - 1) PROVE (n \div PowerOfTwo[h]) % 2 = 1
  <2>1. h \in 0..d /\ ~(t <= h) /\ h \in Nat
    BY <1>4
  <2>2. (n \div PowerOfTwo[h]) % 2 # 0
    BY <1>3, <2>1
  <2>3. n \div PowerOfTwo[h] \in Nat
    BY <1>1, <2>1, TwoNat
  <2> QED
    BY <2>2, <2>3
<1> DEFINE Next(h) == n \div PowerOfTwo[h] + (IF h <= t THEN 1 ELSE 0)
           Bad == {h \in 0..d : (n + 1) \div PowerOfTwo[h] # Next(h)}
<1>6. ASSUME Bad # {} PROVE FALSE
  <2>1. PICK j \in Bad : \A y \in Bad : j <= y
    <3>1. Bad \subseteq Nat
      OBVIOUS
    <3> HIDE DEF Bad
    <3> QED
      BY <1>6, <3>1, LeastOf
  <2>2. j # 0
    <3>1. PowerOfTwo[0] = 1 /\ n \div 1 = n /\ (n + 1) \div 1 = n + 1 /\ 0 <= t
      BY <1>1, <1>4, TwoDef
    <3>2. Next(0) = n + 1
      BY <3>1
    <3> QED
      BY <2>1, <3>1, <3>2
  <2>3. PICK h \in 0..d : h = j - 1 /\ h + 1 = j /\ h \in Nat /\ ~(j <= h) /\ j \in 0..d
    BY <2>1, <2>2
  <2>4. PICK a \in Nat : a = n \div PowerOfTwo[h]
    BY <1>1, <2>3, TwoNat
  <2>5. (n + 1) \div PowerOfTwo[h] = a + (IF h <= t THEN 1 ELSE 0)
    BY <2>1, <2>3, <2>4
  <2>6. n \div PowerOfTwo[j] = a \div 2 /\ (n + 1) \div PowerOfTwo[j] = (a + (IF h <= t THEN 1 ELSE 0)) \div 2
    BY <1>1, <2>3, <2>4, <2>5, HalvesOf
  <2>7. CASE t < h
    <3>1. ~(h <= t) /\ ~(j <= t)
      BY <1>4, <2>3, <2>7
    <3>2. a + 0 = a /\ a \div 2 + 0 = a \div 2
      OBVIOUS
    <3> QED
      BY <2>1, <2>6, <3>1, <3>2
  <2>8. CASE h = t
    <3>1. h <= t /\ ~(j <= t) /\ a % 2 = 0
      BY <1>4, <2>3, <2>4, <2>8
    <3>2. (a + 1) \div 2 = a \div 2 + 0
      BY <3>1
    <3> QED
      BY <2>1, <2>6, <3>1, <3>2
  <2>9. CASE h < t
    <3>1. h <= t /\ j <= t /\ h \in 0..(t - 1)
      BY <1>4, <2>3, <2>9
    <3>2. a % 2 = 1
      BY <1>5, <2>4, <3>1
    <3>3. (a + 1) \div 2 = a \div 2 + 1
      BY <3>2
    <3> QED
      BY <2>1, <2>6, <3>1, <3>3
  <2> QED
    BY <1>4, <2>3, <2>7, <2>8, <2>9
<1>7. \A h \in 0..d : (n + 1) \div PowerOfTwo[h] = n \div PowerOfTwo[h] + (IF h <= t THEN 1 ELSE 0)
  BY <1>6
<1> QED
  BY <1>4, <1>5, <1>7

\* f is the places of the next hashes of the levels up to n.
IndexUpTo(f, data, n) == f = [i \in 0..n |-> 2 * (IF i = 0 THEN 0 ELSE f[i - 1]) + Len(data[i])]

(***************************************************************************)
(* There is a next place in every level.                                   *)
(***************************************************************************)
LEMMA IndexExists == \A data : \A n \in Nat : \E f : IndexUpTo(f, data, n)
<1> SUFFICES ASSUME NEW data, {n \in Nat : ~\E f : IndexUpTo(f, data, n)} # {} PROVE FALSE
  OBVIOUS
<1> DEFINE Bad == {n \in Nat : ~\E f : IndexUpTo(f, data, n)}
<1>1. PICK m \in Bad : \A y \in Bad : m <= y
  BY LeastOf
<1>2. m # 0
  <2>1. IndexUpTo([k \in 0..0 |-> 2 * 0 + Len(data[0])], data, 0)
    BY DEF IndexUpTo
  <2> QED
    BY <1>1, <2>1
<1>3. m - 1 \in Nat /\ ~(m <= m - 1)
  BY <1>1, <1>2
<1>4. PICK f : IndexUpTo(f, data, m - 1)
  BY <1>1, <1>3
<1> DEFINE g == [k \in 0..m |-> IF k = m THEN 2 * f[m - 1] + Len(data[m]) ELSE f[k]]
<1>5. ASSUME NEW k \in 0..m PROVE g[k] = 2 * (IF k = 0 THEN 0 ELSE g[k - 1]) + Len(data[k])
  <2>1. CASE k = m
    BY <1>1, <1>2, <2>1
  <2>2. CASE k \in 0..(m - 1)
    <3>1. f[k] = 2 * (IF k = 0 THEN 0 ELSE f[k - 1]) + Len(data[k])
      BY <1>4, <2>2 DEF IndexUpTo
    <3> QED
      BY <1>1, <1>2, <2>2, <3>1
  <2> QED
    BY <1>1, <2>1, <2>2
<1>6. IndexUpTo(g, data, m)
  BY <1>5 DEF IndexUpTo
<1> QED
  BY <1>1, <1>6

(***************************************************************************)
(* Of every level the compressor knows how many hashes there are so far.   *)
(***************************************************************************)
LEMMA LevelIndex ==
    ASSUME NEW d \in Nat, NEW n \in 0..(PowerOfTwo[d] - 1), NEW data,
           \A j \in 0..d : Len(data[j]) = (n \div PowerOfTwo[d - j]) % 2,
           NEW level \in 0..d
    PROVE  IndexForLevel(data, level) = n \div PowerOfTwo[d - level]
<1>1. n \in Nat /\ level \in Nat
  BY TwoNat
<1>2. PICK f : IndexUpTo(f, data, level) /\ IndexForLevel(data, level) = f[level]
  <2>1. IndexForLevel(data, level) = (CHOOSE f : IndexUpTo(f, data, level))[level]
    BY DEF IndexForLevel, IndexUpTo
  <2> QED
    BY <1>1, <2>1, IndexExists
<1> DEFINE Bad == {j \in 0..level : f[j] # n \div PowerOfTwo[d - j]}
<1>3. ASSUME Bad # {} PROVE FALSE
  <2>1. PICK j \in Bad : \A y \in Bad : j <= y
    <3>1. Bad \subseteq Nat
      OBVIOUS
    <3> HIDE DEF Bad
    <3> QED
      BY <1>3, <3>1, LeastOf
  <2>2. j \in 0..level /\ j \in 0..d /\ d - j \in Nat /\ d - j \in 0..d
    BY <1>1
  <2>3. PICK b \in Nat : b = n \div PowerOfTwo[d - j]
    BY <1>1, <2>2, PlaceNat
  <2>4. f[j] = 2 * (IF j = 0 THEN 0 ELSE f[j - 1]) + (b % 2)
    BY <1>2, <2>2, <2>3 DEF IndexUpTo
  <2>5. CASE j = 0
    <3>1. b \in 0..(PowerOfTwo[0] - 1)
      <4>1. d \in 0..d /\ d - d = 0 /\ d - j = d
        BY <2>5
      <4> QED
        BY <2>3, <4>1, PlaceBelow
    <3>2. b = 0
      BY <3>1, TwoDef
    <3>3. f[j] = 0
      BY <2>4, <2>5, <3>2
    <3> QED
      BY <2>1, <2>3, <3>2, <3>3
  <2>6. CASE j # 0
    <3>1. j - 1 \in 0..level /\ ~(j <= j - 1) /\ (d - j) + 1 = d - (j - 1)
      BY <2>2, <2>6
    <3>2. f[j - 1] = n \div PowerOfTwo[(d - j) + 1]
      BY <2>1, <3>1
    <3>3. n \div PowerOfTwo[(d - j) + 1] = b \div 2
      BY <1>1, <2>2, <2>3, HalvesOf
    <3>4. f[j] = 2 * (b \div 2) + (b % 2)
      BY <2>4, <2>6, <3>2, <3>3
    <3>5. 2 * (b \div 2) + (b % 2) = b
      BY <2>3
    <3> QED
      BY <2>1, <2>3, <3>4, <3>5
  <2> QED
    BY <2>5, <2>6
<1> QED
  BY <1>1, <1>2, <1>3

(***************************************************************************)
(* A new compressor holds nothing.                                         *)
(***************************************************************************)
LEMMA CompressorStarts ==
    ASSUME NEW leaves, NEW d, Full(leaves, d), NEW count, Log2(count) = d, NEW index \in 0..(PowerOfTwo[d] - 1)
    PROVE  CompressorHolds(Compressor(count, index), leaves, d)
<1> DEFINE c == Compressor(count, index)
<1>1. d \in Nat /\ PowerOfTwo[d] \in Nat /\ index \in Nat
  BY TwoNat DEF Full
<1>2. DOMAIN c = {"depth", "indexToSave", "nextIndex", "data", "proof"}
      /\ c.depth = d + 1 /\ c.indexToSave = index /\ c.nextIndex = 0
      /\ c.data = [i \in 0..d |-> <<>>] /\ c.proof = [i \in {} |-> <<>>]
  BY DEF Compressor
<1> HIDE DEF c
<1>3. \A h \in 0..d : PowerOfTwo[h] \in Nat /\ 0 < PowerOfTwo[h] /\ 0 \div PowerOfTwo[h] = 0
  BY TwoNat
<1>4. c.data = [i \in 0..d |->
                   IF (c.nextIndex \div PowerOfTwo[d - i]) % 2 = 1
                   THEN <<Layers(leaves)[d - i][c.nextIndex \div PowerOfTwo[d - i] - 1]>> ELSE <<>>]
  <2>1. ASSUME NEW i \in 0..d PROVE (0 \div PowerOfTwo[d - i]) % 2 # 1
    <3>1. d - i \in 0..d
      BY <1>1
    <3> QED
      BY <1>3, <3>1
  <2> QED
    BY <1>2, <2>1
<1>5. ASSUME NEW h \in 0..(d - 1) PROVE ~(Sibling(index \div PowerOfTwo[h]) < 0 \div PowerOfTwo[h])
  <2>1. h \in 0..d /\ h \in Nat
    BY <1>1
  <2>2. index \div PowerOfTwo[h] \in Nat
    BY <1>1, <1>3, <2>1
  <2>3. Sibling(index \div PowerOfTwo[h]) \in Nat
    BY <2>2, SiblingOf
  <2> QED
    BY <1>3, <2>1, <2>3
<1>6. c.proof = [h \in {k \in 0..(d - 1) : Sibling(c.indexToSave \div PowerOfTwo[k]) < c.nextIndex \div PowerOfTwo[k]} |->
                    Layers(leaves)[h][Sibling(c.indexToSave \div PowerOfTwo[h])]]
  BY <1>2, <1>5
<1>7. CompressorHolds(c, leaves, d)
  <2>1. c.indexToSave \in 0..(PowerOfTwo[d] - 1) /\ c.nextIndex \in 0..PowerOfTwo[d]
    BY <1>1, <1>2
  <2> QED
    BY <1>2, <1>4, <1>6, <2>1, Zenon DEF CompressorHolds
<1> QED
  BY <1>7 DEF c

(***************************************************************************)
(* compress: a new leaf arrives at every level up to the lowest bit of its *)
(* number that is zero, with the hash of the tree that is above it there.  *)
(***************************************************************************)
LEMMA Arrives ==
    ASSUME NEW leaves, NEW d, Full(leaves, d), NEW c, CompressorHolds(c, leaves, d),
           NEW n, n = c.nextIndex, n \in 0..(PowerOfTwo[d] - 1),
           NEW t \in 0..d, (n \div PowerOfTwo[t]) % 2 = 0, \A h \in 0..(t - 1) : (n \div PowerOfTwo[h]) % 2 = 1
    PROVE  /\ Arrivals(c) = (d - t)..d
           /\ \A i \in (d - t)..d :
                 Arriving(c, leaves[n + 1], i) = Layers(leaves)[d - i][n \div PowerOfTwo[d - i]]
<1>1. /\ d \in Nat /\ n \in Nat /\ c.depth = d + 1
      /\ c.data = [i \in 0..d |->
                      IF (n \div PowerOfTwo[d - i]) % 2 = 1
                      THEN <<Layers(leaves)[d - i][n \div PowerOfTwo[d - i] - 1]>> ELSE <<>>]
  BY TwoNat DEF CompressorHolds, Full
<1> DEFINE P(h) == n \div PowerOfTwo[h]
           Node(h, i) == Layers(leaves)[h][i]
<1>2. ASSUME NEW h \in 0..d PROVE P(h) \in Nat
  <2>1. h \in Nat /\ n \in Nat
    BY <1>1
  <2> QED
    BY <2>1, PlaceNat, Zenon
<1>3. /\ DOMAIN c.data = 0..d
      /\ \A i \in 0..d : c.data[i] = IF P(d - i) % 2 = 1 THEN <<Node(d - i, P(d - i) - 1)>> ELSE <<>>
  BY <1>1
<1>4. P(t) % 2 = 0 /\ \A h \in 0..(t - 1) : P(h) % 2 = 1
  OBVIOUS
<1>5. leaves[n + 1] = Node(0, n)
  <2>1. LayersUpTo(Layers(leaves), leaves, d) /\ 0 \in 0..d
    BY <1>1, LayersFull
  <2> QED
    BY <1>1, <2>1 DEF LayersUpTo
<1>6. ASSUME NEW i \in (d - t)..d PROVE Arriving(c, leaves[n + 1], i) = Node(d - i, P(d - i))
  <2> DEFINE s == [k \in 1..(c.depth - 1 - i) |-> c.data[c.depth - k][1]]
  <2>1. PICK m \in 0..d : m = d - i /\ m <= t /\ c.depth - 1 - i = m
    BY <1>1
  <2>2. Len(s) = m
    BY <2>1
  <2>3. ASSUME NEW k \in 1..m PROVE s[k] = Node(k - 1, Sibling(P(k - 1)))
    <3>1. PICK h \in 0..d : h = k - 1 /\ h \in 0..(t - 1) /\ d - h \in 0..d /\ d - (d - h) = h /\ c.depth - k = d - h
      BY <1>1, <2>1
    <3>2. c.data[d - h] = <<Node(h, P(h) - 1)>>
      BY <1>3, <1>4, <3>1
    <3>3. s[k] = Node(h, P(h) - 1)
      BY <2>1, <3>1, <3>2
    <3>4. Sibling(P(h)) = P(h) - 1
      <4>1. PICK a \in Nat : a = P(h) /\ a % 2 = 1
        BY <1>2, <1>4, <3>1
      <4>2. Sibling(a) = a - 1
        BY <4>1 DEF Sibling
      <4> QED
        BY <4>1, <4>2
    <3> QED
      BY <3>1, <3>3, <3>4
  <2>4. OpenedRoot(Node(0, n), s) = Node(m, P(m))
    <3>1. OnTheWay(s, leaves, n, m)
      BY <2>2, <2>3 DEF OnTheWay
    <3> HIDE DEF s
    <3>2. OpenedRoot(Layers(leaves)[0][n], s) = Layers(leaves)[m][n \div PowerOfTwo[m]]
      BY <3>1, OpensTree
    <3> QED
      BY <3>2
  <2> QED
    BY <1>5, <2>1, <2>4 DEF Arriving
<1>7. Arrivals(c) = (d - t)..d
  <2>1. ASSUME NEW i \in (d - t)..d PROVE i \in Arrivals(c)
    <3>1. i \in 0..d
      BY <1>1
    <3>2. ASSUME NEW j \in (i + 1)..(c.depth - 1) PROVE c.data[j] # <<>>
      <4>1. j \in 0..d /\ d - j \in 0..(t - 1)
        BY <1>1, <3>1
      <4>2. c.data[j] = <<Node(d - j, P(d - j) - 1)>>
        BY <1>3, <1>4, <4>1
      <4> QED
        BY <4>2
    <3> QED
      BY <1>3, <3>1, <3>2 DEF Arrivals
  <2>2. ASSUME NEW i \in Arrivals(c), i \notin (d - t)..d PROVE FALSE
    <3>1. i \in 0..d /\ \A j \in (i + 1)..(c.depth - 1) : c.data[j] # <<>>
      BY <1>3 DEF Arrivals
    <3>2. d - t \in (i + 1)..(c.depth - 1) /\ d - t \in 0..d /\ d - (d - t) = t
      BY <1>1, <2>2, <3>1
    <3>3. c.data[d - t] = <<>>
      <4>1. P(d - (d - t)) % 2 # 1
        BY <1>4, <3>2
      <4> HIDE DEF P
      <4> QED
        BY <1>3, <3>2, <4>1
    <3> QED
      BY <3>1, <3>2, <3>3
  <2> QED
    BY <2>1, <2>2
<1> QED
  BY <1>6, <1>7

(***************************************************************************)
(* compress and the saving of siblings: addHash goes from what there is of *)
(* so many leaves to what there is of one more.                            *)
(***************************************************************************)
LEMMA AddsHash ==
    ASSUME NEW leaves, NEW d, Full(leaves, d), NEW c, CompressorHolds(c, leaves, d), ~Complete(c)
    PROVE  LET e == AddHash(c, leaves[c.nextIndex + 1])
           IN  CompressorHolds(e, leaves, d) /\ e.indexToSave = c.indexToSave
<1>a. PICK n : n = c.nextIndex
  OBVIOUS
<1>b. PICK x : x = c.indexToSave
  OBVIOUS
<1>c. PICK hash : hash = leaves[n + 1]
  OBVIOUS
<1> DEFINE P(h) == n \div PowerOfTwo[h]
           Node(h, i) == Layers(leaves)[h][i]
           Needed(h) == Sibling(x \div PowerOfTwo[h])
           e == AddHash(c, hash)
<1>1. /\ DOMAIN c = {"depth", "indexToSave", "nextIndex", "data", "proof"}
      /\ d \in Nat /\ c.depth = d + 1 /\ x \in 0..(PowerOfTwo[d] - 1) /\ n \in 0..PowerOfTwo[d]
      /\ n # PowerOfTwo[d] /\ PowerOfTwo[d] \in Nat
  <2>1. d \in Nat /\ PowerOfTwo[d] \in Nat /\ c.depth = d + 1
    BY TwoNat DEF CompressorHolds, Full
  <2>2. c.depth - 1 = d
    BY <2>1
  <2>3. n # PowerOfTwo[d]
    BY <1>a, <2>2 DEF Complete
  <2> QED
    BY <1>a, <1>b, <2>1, <2>3 DEF CompressorHolds
<1>2. c.data = [i \in 0..d |-> IF P(d - i) % 2 = 1 THEN <<Node(d - i, P(d - i) - 1)>> ELSE <<>>]
  BY <1>a DEF CompressorHolds
<1>3. c.proof = [h \in {k \in 0..(d - 1) : Needed(k) < P(k)} |-> Node(h, Needed(h))]
  BY <1>a, <1>b DEF CompressorHolds
<1>4. n \in 0..(PowerOfTwo[d] - 1) /\ n \in Nat /\ x \in Nat
  BY <1>1
<1>5. PICK t \in 0..d :
          /\ P(t) % 2 = 0
          /\ \A h \in 0..(t - 1) : P(h) % 2 = 1
          /\ \A h \in 0..d : (n + 1) \div PowerOfTwo[h] = P(h) + (IF h <= t THEN 1 ELSE 0)
  BY <1>1, <1>4, LowestZero
<1>6. /\ Arrivals(c) = (d - t)..d
      /\ \A i \in (d - t)..d : Arriving(c, hash, i) = Node(d - i, P(d - i))
  BY <1>a, <1>c, <1>4, <1>5, Arrives
<1>7. \A h \in 0..d : P(h) \in Nat /\ Needed(h) \in Nat
  <2>1. ASSUME NEW h \in 0..d PROVE P(h) \in Nat /\ x \div PowerOfTwo[h] \in Nat
    <3>1. h \in Nat /\ n \in Nat /\ x \in Nat
      BY <1>1, <1>4
    <3> QED
      BY <3>1, PlaceNat, Zenon
  <2>2. \A a \in Nat : Sibling(a) \in Nat
    BY SiblingOf
  <2> QED
    BY <2>1, <2>2
<1>8. ASSUME NEW i \in 0..d PROVE IndexForLevel(c.data, i) = P(d - i) /\ IndexForProof(c, i) = Needed(d - i)
  <2>1. ASSUME NEW j \in 0..d PROVE Len(c.data[j]) = P(d - j) % 2
    <3>1. PICK a \in Nat : a = P(d - j)
      <4>1. d - j \in 0..d
        BY <1>1
      <4> QED
        BY <1>7, <4>1
    <3>2. c.data[j] = IF a % 2 = 1 THEN <<Node(d - j, a - 1)>> ELSE <<>>
      BY <1>2, <3>1
    <3>3. a % 2 \in {0, 1} /\ Len(<<>>) = 0 /\ Len(<<Node(d - j, a - 1)>>) = 1
      BY <3>1
    <3> QED
      BY <3>1, <3>2, <3>3
  <2>2. IndexForLevel(c.data, i) = P(d - i)
    BY <1>1, <1>4, <2>1, LevelIndex
  <2>3. c.depth - 1 - i = d - i
    BY <1>1
  <2> QED
    BY <1>b, <2>2, <2>3 DEF IndexForProof
<1> DEFINE top == CHOOSE i \in Arrivals(c) : \A j \in Arrivals(c) : i <= j
           wanted == {i \in Arrivals(c) \ {0} : IndexForLevel(c.data, i) = IndexForProof(c, i)}
           saved == {c.depth - 1 - i : i \in wanted}
<1>9. top = d - t
  <2>1. ASSUME NEW i \in (d - t)..d PROVE (\A j \in (d - t)..d : i <= j) <=> i = d - t
    <3>1. d - t \in (d - t)..d
      BY <1>1
    <3> QED
      BY <1>1, <3>1
  <2>2. d - t \in (d - t)..d
    BY <1>1
  <2> QED
    BY <1>6, <2>1, <2>2
<1>10. saved = {h \in 0..(d - 1) : h <= t /\ P(h) = Needed(h)}
  <2>1. ASSUME NEW h \in 0..(d - 1), h <= t, P(h) = Needed(h) PROVE h \in saved
    <3>1. d - h \in (d - t)..d /\ d - h # 0 /\ d - h \in 0..d /\ d - (d - h) = h /\ c.depth - 1 - (d - h) = h
      BY <1>1, <2>1
    <3>2. d - h \in wanted
      BY <1>6, <1>8, <2>1, <3>1
    <3> HIDE DEF wanted
    <3> QED
      BY <3>1, <3>2
  <2>2. ASSUME NEW h \in saved PROVE h \in 0..(d - 1) /\ h <= t /\ P(h) = Needed(h)
    <3>1. PICK i \in wanted : h = c.depth - 1 - i
      OBVIOUS
    <3>2. i \in (d - t)..d /\ i # 0 /\ i \in 0..d
      BY <1>1, <1>6
    <3>3. h = d - i /\ h \in 0..(d - 1) /\ h <= t
      BY <1>1, <3>1, <3>2
    <3> QED
      BY <1>8, <3>2, <3>3
  <2> QED
    BY <2>1, <2>2
<1>11. /\ DOMAIN e = DOMAIN c /\ e.depth = c.depth /\ e.indexToSave = c.indexToSave
       /\ e.nextIndex = n + 1
       /\ e.data = [i \in DOMAIN c.data |-> IF i = top THEN <<Arriving(c, hash, top)>>
                                            ELSE IF i > top THEN <<>> ELSE c.data[i]]
       /\ e.proof = [k \in DOMAIN c.proof \cup saved |->
                        IF k \in saved THEN Arriving(c, hash, c.depth - 1 - k) ELSE c.proof[k]]
  <2> HIDE DEF top, saved
  <2>1. e = [c EXCEPT !.nextIndex = @ + 1,
                      !.data = [i \in DOMAIN @ |-> IF i = top THEN <<Arriving(c, hash, top)>>
                                                   ELSE IF i > top THEN <<>> ELSE @[i]],
                      !.proof = [k \in DOMAIN @ \cup saved |->
                                    IF k \in saved THEN Arriving(c, hash, c.depth - 1 - k) ELSE @[k]]]
    BY Zenon DEF AddHash, top, saved
  <2> HIDE DEF e
  <2> QED
    BY <1>a, <1>1, <2>1
<1> HIDE DEF e, top, wanted, saved
<1>12. e.data = [i \in 0..d |-> IF ((n + 1) \div PowerOfTwo[d - i]) % 2 = 1
                                THEN <<Node(d - i, (n + 1) \div PowerOfTwo[d - i] - 1)>> ELSE <<>>]
  <2>1. ASSUME NEW i \in 0..d
        PROVE  e.data[i] = IF ((n + 1) \div PowerOfTwo[d - i]) % 2 = 1
                           THEN <<Node(d - i, (n + 1) \div PowerOfTwo[d - i] - 1)>> ELSE <<>>
    <3>1. PICK h \in 0..d : h = d - i /\ d - h = i
      BY <1>1
    <3>2. PICK a \in Nat : a = P(h)
      BY <1>7
    <3>3. (n + 1) \div PowerOfTwo[h] = a + (IF h <= t THEN 1 ELSE 0)
      BY <1>5, <3>2
    <3>4. e.data[i] = IF i = d - t THEN <<Arriving(c, hash, d - t)>> ELSE IF i > d - t THEN <<>> ELSE c.data[i]
      BY <1>2, <1>9, <1>11
    <3>5. CASE h = t
      <4>1. i = d - t /\ i \in (d - t)..d /\ d - i = h
        BY <1>1, <3>1, <3>5
      <4>2. e.data[i] = <<Node(h, a)>>
        BY <1>6, <3>2, <3>4, <4>1
      <4>3. a % 2 = 0 /\ (a + 1) % 2 = 1 /\ (a + 1) - 1 = a /\ (n + 1) \div PowerOfTwo[h] = a + 1
        <5>1. a % 2 = 0
          BY <1>5, <3>2, <3>5
        <5>2. (n + 1) \div PowerOfTwo[h] = a + 1
          BY <3>3, <3>5
        <5> QED
          BY <5>1, <5>2
      <4> QED
        BY <3>1, <4>2, <4>3
    <3>6. CASE h < t
      <4>1. i # d - t /\ i > d - t /\ h \in 0..(t - 1) /\ h <= t
        BY <1>1, <3>1, <3>6
      <4>2. a % 2 = 1
        BY <1>5, <3>2, <4>1
      <4>3. (a + 1) % 2 # 1 /\ (n + 1) \div PowerOfTwo[h] = a + 1
        BY <3>3, <4>1, <4>2
      <4> QED
        BY <3>1, <3>4, <4>1, <4>3
    <3>7. CASE t < h
      <4>1. i # d - t /\ ~(i > d - t) /\ ~(h <= t)
        BY <1>1, <3>1, <3>7
      <4>2. (n + 1) \div PowerOfTwo[h] = a
        BY <3>3, <4>1
      <4>3. c.data[i] = IF a % 2 = 1 THEN <<Node(h, a - 1)>> ELSE <<>>
        BY <1>2, <3>1, <3>2
      <4> QED
        BY <3>1, <3>4, <4>1, <4>2, <4>3
    <3> QED
      BY <1>1, <3>5, <3>6, <3>7
  <2>2. DOMAIN e.data = 0..d
    BY <1>2, <1>11
  <2>3. e.data = [i \in DOMAIN e.data |-> e.data[i]]
    BY <1>11
  <2> QED
    BY <2>1, <2>2, <2>3
<1>13. DOMAIN e.proof = {k \in 0..(d - 1) : Needed(k) < (n + 1) \div PowerOfTwo[k]}
  <2>1. DOMAIN e.proof = {k \in 0..(d - 1) : Needed(k) < P(k)} \cup {h \in 0..(d - 1) : h <= t /\ P(h) = Needed(h)}
    BY <1>3, <1>10, <1>11
  <2>2. ASSUME NEW k \in 0..(d - 1)
        PROVE  Needed(k) < (n + 1) \div PowerOfTwo[k] <=> Needed(k) < P(k) \/ (k <= t /\ P(k) = Needed(k))
    <3>1. k \in 0..d
      BY <1>1
    <3>2. PICK a \in Nat, b \in Nat : a = P(k) /\ b = Needed(k)
      BY <1>7, <3>1
    <3>3. (n + 1) \div PowerOfTwo[k] = a + (IF k <= t THEN 1 ELSE 0)
      BY <1>5, <3>1, <3>2
    <3>4. b < a + (IF k <= t THEN 1 ELSE 0) <=> b < a \/ (k <= t /\ a = b)
      BY <3>1
    <3> QED
      BY <3>2, <3>3, <3>4
  <2> QED
    BY <2>1, <2>2
<1>14. ASSUME NEW k \in DOMAIN e.proof PROVE e.proof[k] = Node(k, Needed(k))
  <2>1. CASE k \in saved
    <3>1. k \in 0..(d - 1) /\ k <= t /\ P(k) = Needed(k)
      BY <1>10, <2>1
    <3>2. c.depth - 1 - k = d - k /\ d - k \in (d - t)..d /\ d - (d - k) = k
      BY <1>1, <3>1
    <3>3. e.proof[k] = Arriving(c, hash, d - k)
      BY <1>11, <2>1, <3>2
    <3> QED
      BY <1>6, <3>1, <3>2, <3>3
  <2>2. CASE k \notin saved
    <3>1. k \in DOMAIN c.proof /\ e.proof[k] = c.proof[k]
      BY <1>11, <2>2
    <3> QED
      BY <1>3, <3>1
  <2> QED
    BY <2>1, <2>2
<1>15. e.proof = [h \in {k \in 0..(d - 1) : Needed(k) < (n + 1) \div PowerOfTwo[k]} |-> Node(h, Needed(h))]
  <2>1. e.proof = [k \in DOMAIN e.proof |-> e.proof[k]]
    BY <1>11
  <2> QED
    BY <1>13, <1>14, <2>1
<1>16. n + 1 \in 0..PowerOfTwo[d]
  BY <1>1, <1>4
<1>17. CompressorHolds(e, leaves, d)
  <2>1. e.indexToSave = x /\ e.nextIndex = n + 1 /\ e.depth = d + 1 /\ DOMAIN e = DOMAIN c
    BY <1>b, <1>1, <1>11
  <2>2. e.data = [i \in 0..d |-> IF (e.nextIndex \div PowerOfTwo[d - i]) % 2 = 1
                                 THEN <<Node(d - i, e.nextIndex \div PowerOfTwo[d - i] - 1)>> ELSE <<>>]
    BY <1>12, <2>1
  <2>3. e.proof = [h \in {k \in 0..(d - 1) : Sibling(e.indexToSave \div PowerOfTwo[k]) < e.nextIndex \div PowerOfTwo[k]} |->
                      Node(h, Sibling(e.indexToSave \div PowerOfTwo[h]))]
    BY <1>15, <2>1
  <2>4. e.indexToSave \in 0..(PowerOfTwo[d] - 1) /\ e.nextIndex \in 0..PowerOfTwo[d]
    BY <1>1, <1>16, <2>1
  <2> QED
    BY <1>1, <2>1, <2>2, <2>3, <2>4, Zenon DEF CompressorHolds
<1> QED
  BY <1>a, <1>c, <1>11, <1>17 DEF e

(***************************************************************************)
(* A compressor that has been given all leaves has the root of the tree    *)
(* and the whole proof of its leaf, which leads from the leaf to the root. *)
(***************************************************************************)
LEMMA CompressorEnds ==
    ASSUME NEW leaves, NEW d, Full(leaves, d), NEW c, CompressorHolds(c, leaves, d), Complete(c)
    PROVE  LET proof == [i \in 1..(c.depth - 1) |-> c.proof[i - 1]]
           IN  /\ Root(c) = GetRoot(leaves)
               /\ DOMAIN c.proof = 0..(c.depth - 2)
               /\ GetProof(leaves, c.indexToSave) = proof
               /\ OpenedRoot(leaves[c.indexToSave + 1], proof) = Root(c)
<1>b. PICK x : x = c.indexToSave
  OBVIOUS
<1> DEFINE Node(h, i) == Layers(leaves)[h][i]
           Needed(h) == Sibling(x \div PowerOfTwo[h])
           proof == [i \in 1..d |-> c.proof[i - 1]]
<1>1. /\ d \in Nat /\ PowerOfTwo[d] \in Nat /\ 0 < PowerOfTwo[d] /\ c.depth - 1 = d /\ c.depth - 2 = d - 1
      /\ x \in 0..(PowerOfTwo[d] - 1) /\ x \in Nat /\ c.nextIndex = PowerOfTwo[d]
  <2>1. d \in Nat /\ PowerOfTwo[d] \in Nat /\ 0 < PowerOfTwo[d] /\ c.depth = d + 1
    BY TwoNat DEF CompressorHolds, Full
  <2>2. c.depth - 1 = d /\ c.depth - 2 = d - 1
    BY <2>1
  <2>3. c.nextIndex = PowerOfTwo[d]
    BY <2>2 DEF Complete
  <2>4. x \in 0..(PowerOfTwo[d] - 1)
    BY <1>b DEF CompressorHolds
  <2> QED
    BY <2>1, <2>2, <2>3, <2>4
<1>2. c.data = [i \in 0..d |-> IF (PowerOfTwo[d] \div PowerOfTwo[d - i]) % 2 = 1
                               THEN <<Node(d - i, PowerOfTwo[d] \div PowerOfTwo[d - i] - 1)>> ELSE <<>>]
  BY <1>1 DEF CompressorHolds
<1>3. c.proof = [h \in {k \in 0..(d - 1) : Needed(k) < PowerOfTwo[d] \div PowerOfTwo[k]} |-> Node(h, Needed(h))]
  BY <1>b, <1>1 DEF CompressorHolds
<1>4. Root(c) = GetRoot(leaves) /\ GetRoot(leaves) = Node(d, 0)
  <2>1. 0 \in 0..d /\ d - 0 = d /\ d \in 0..d /\ d - d = 0
    BY <1>1
  <2>2. PowerOfTwo[d] \div PowerOfTwo[d - 0] = 1
    BY <1>1, <2>1, TwoDiv, TwoDef
  <2>3. c.data[0] = <<Node(d - 0, PowerOfTwo[d] \div PowerOfTwo[d - 0] - 1)>>
    <3>1. (PowerOfTwo[d] \div PowerOfTwo[d - 0]) % 2 = 1
      BY <2>2
    <3> QED
      BY <1>2, <2>1, <3>1
  <2>4. Root(c) = Node(d, 0)
    <3>1. PowerOfTwo[d] \div PowerOfTwo[d - 0] - 1 = 0
      BY <2>2
    <3> QED
      BY <2>1, <2>3, <3>1 DEF Root
  <2> QED
    BY <2>4, LayersFull
<1>5. ASSUME NEW h \in 0..(d - 1) PROVE Needed(h) < PowerOfTwo[d] \div PowerOfTwo[h]
  <2>1. h \in 0..d /\ d - h \in Nat /\ PowerOfTwo[d - h] \in Nat
    BY <1>1, TwoNat
  <2>2. x \div PowerOfTwo[h] \in 0..(PowerOfTwo[d - h] - 1)
    BY <1>1, <2>1, PlaceBelow
  <2>3. Needed(h) \in 0..(PowerOfTwo[d - h] - 1)
    BY <2>2, PairFull
  <2>4. PowerOfTwo[d] \div PowerOfTwo[h] = PowerOfTwo[d - h]
    BY <1>1, <2>1, TwoDiv
  <2> QED
    BY <2>1, <2>3, <2>4
<1>6. c.proof = [h \in 0..(d - 1) |-> Node(h, Needed(h))]
  BY <1>3, <1>5
<1>7. proof = [k \in 1..d |-> Node(k - 1, Needed(k - 1))]
  BY <1>1, <1>6
<1>8. GetProof(leaves, x) = proof
  <2>1. GetProof(leaves, x) = [k \in 1..d |-> Node(k - 1, Needed(k - 1))]
    BY <1>1, ProofFull
  <2> HIDE DEF proof, Node, Needed
  <2> QED
    BY <1>7, <2>1
<1>9. OpenedRoot(leaves[x + 1], proof) = Node(d, 0)
  <2>1. OnTheWay(proof, leaves, x, d)
    BY <1>1, <1>7 DEF OnTheWay
  <2>2. leaves[x + 1] = Node(0, x)
    <3>1. LayersUpTo(Layers(leaves), leaves, d) /\ 0 \in 0..d
      BY <1>1, LayersFull
    <3> QED
      BY <1>1, <3>1 DEF LayersUpTo
  <2>3. d \in 0..d
    BY <1>1
  <2>4. OpenedRoot(Node(0, x), proof) = Node(d, x \div PowerOfTwo[d])
    <3> HIDE DEF proof
    <3> QED
      BY <1>1, <2>1, <2>3, OpensTree
  <2>5. x \div PowerOfTwo[d] = 0
    <3>1. x \div PowerOfTwo[d] \in 0..(PowerOfTwo[d - d] - 1) /\ d - d = 0
      BY <1>1, <2>3, PlaceBelow
    <3> QED
      BY <3>1, TwoDef
  <2> QED
    BY <2>2, <2>4, <2>5
<1>10. DOMAIN c.proof = 0..(d - 1)
  BY <1>6
<1> QED
  BY <1>b, <1>1, <1>4, <1>8, <1>9, <1>10

-----------------------------------------------------------------------------
(* The scripts of all chunks.                                              *)

\* f is the concatenations of up to n of the sequences s, from one on.
FlattenUpTo(f, s, n) == f = [i \in 1..n |-> IF i = 1 THEN s[i] ELSE f[i - 1] \o s[i]]

(***************************************************************************)
(* Any number of sequences can be concatenated.                            *)
(***************************************************************************)
LEMMA FlattenExists == \A s : \A n \in Nat : \E f : FlattenUpTo(f, s, n)
<1> SUFFICES ASSUME NEW s, {n \in Nat : ~\E f : FlattenUpTo(f, s, n)} # {} PROVE FALSE
  OBVIOUS
<1> DEFINE Bad == {n \in Nat : ~\E f : FlattenUpTo(f, s, n)}
<1>1. PICK m \in Bad : \A y \in Bad : m <= y
  BY LeastOf
<1>2. m # 0
  <2>1. FlattenUpTo([i \in 1..0 |-> 0], s, 0)
    BY DEF FlattenUpTo
  <2> QED
    BY <1>1, <2>1
<1>3. m - 1 \in Nat /\ ~(m <= m - 1)
  BY <1>1, <1>2
<1>4. PICK f : FlattenUpTo(f, s, m - 1)
  BY <1>1, <1>3
<1> DEFINE g == [k \in 1..m |-> IF k = m /\ m # 1 THEN f[m - 1] \o s[m] ELSE IF k = 1 THEN s[1] ELSE f[k]]
<1>5. ASSUME NEW k \in 1..m PROVE g[k] = IF k = 1 THEN s[k] ELSE g[k - 1] \o s[k]
  <2>1. CASE k = 1
    BY <2>1
  <2>2. CASE k = m /\ k # 1
    <3>1. g[k - 1] = f[m - 1]
      <4>1. k - 1 \in 1..(m - 1) /\ k - 1 # m /\ k - 1 \in 1..m
        BY <1>1, <2>2
      <4>2. f[1] = s[1]
        BY <1>4, <4>1, <2>2 DEF FlattenUpTo
      <4> QED
        BY <2>2, <4>1, <4>2
    <3> QED
      BY <2>2, <3>1
  <2>3. CASE k \in 2..(m - 1)
    <3>1. f[k] = f[k - 1] \o s[k]
      <4>1. k \in 1..(m - 1) /\ k # 1
        BY <2>3
      <4> QED
        BY <1>4, <4>1 DEF FlattenUpTo
    <3>3. f[1] = s[1]
      <4>1. 1 \in 1..(m - 1)
        BY <1>3, <2>3
      <4> QED
        BY <1>4, <4>1 DEF FlattenUpTo
    <3>2. k # m /\ k - 1 # m /\ k - 1 \in 1..m /\ k # 1
      BY <1>1, <2>3
    <3> QED
      BY <3>1, <3>2, <3>3
  <2> QED
    BY <1>1, <2>1, <2>2, <2>3
<1>6. FlattenUpTo(g, s, m)
  BY <1>5 DEF FlattenUpTo
<1> QED
  BY <1>1, <1>6

(***************************************************************************)
(* The first a of some values and those that follow up to b are the first  *)
(* b.                                                                      *)
(***************************************************************************)
LEMMA ConcatPart ==
    ASSUME NEW g, NEW a \in Nat, NEW b \in Nat, a <= b,
           NEW s, s = [k \in 1..a |-> g[k - 1]], NEW t, t = [k \in 1..(b - a) |-> g[a + k - 1]]
    PROVE  s \o t = [k \in 1..b |-> g[k - 1]]
<1>a. PICK V : V = {g[k - 1] : k \in 1..b}
  OBVIOUS
<1>1. ASSUME NEW k \in 1..b PROVE g[k - 1] \in V
  BY <1>a
<1>2. s \in Seq(V) /\ Len(s) = a
  <2>1. \A k \in 1..a : k \in 1..b
    OBVIOUS
  <2> QED
    BY <1>1, <2>1
<1>3. t \in Seq(V) /\ Len(t) = b - a
  <2>1. ASSUME NEW k \in 1..(b - a) PROVE g[a + k - 1] \in V
    <3>1. PICK j \in 1..b : j = a + k
      OBVIOUS
    <3>2. g[j - 1] \in V
      BY <1>1
    <3> QED
      BY <3>1, <3>2
  <2>2. b - a \in Nat
    OBVIOUS
  <2> QED
    BY <2>1, <2>2
<1>4. PICK u : u = s \o t
  OBVIOUS
<1>5. /\ u \in Seq(V) /\ Len(u) = a + (b - a)
      /\ \A k \in 1..(a + (b - a)) : u[k] = IF k <= a THEN s[k] ELSE t[k - a]
  BY <1>2, <1>3, <1>4, ConcatProperties
<1>6. a + (b - a) = b
  OBVIOUS
<1>7. ASSUME NEW k \in 1..b PROVE u[k] = g[k - 1]
  <2>1. u[k] = IF k <= a THEN s[k] ELSE t[k - a]
    BY <1>5, <1>6
  <2>2. CASE k <= a
    <3>1. k \in 1..a
      BY <2>2
    <3> QED
      BY <2>1, <2>2, <3>1
  <2>3. CASE ~(k <= a)
    <3>1. k - a \in 1..(b - a) /\ a + (k - a) - 1 = k - 1
      BY <2>3
    <3>2. t[k - a] = g[a + (k - a) - 1]
      BY <3>1
    <3> QED
      BY <2>1, <2>3, <3>1, <3>2
  <2> QED
    BY <2>2, <2>3
<1>8. u = [k \in 1..b |-> u[k]]
  BY <1>5, <1>6
<1> QED
  BY <1>4, <1>7, <1>8

\* How far the first i chunks go, when all have the same size.
UpTo(i, size, all) == IF i * size < all THEN i * size ELSE all

\* The values of g are divided into chunks of one size, the last ones cut off.
Chunked(chunks, count, size, all, g) ==
    /\ Len(chunks) = count
    /\ \A t \in 1..count :
          chunks[t] = [k \in 1..(UpTo(t, size, all) - (t - 1) * size) |-> g[(t - 1) * size + k - 1]]

(***************************************************************************)
(* The chunks contain all of what they are chunks of, in its order, if     *)
(* there are enough of them.                                               *)
(***************************************************************************)
LEMMA ChunksTogether ==
    ASSUME NEW all \in Nat, NEW size \in Nat, NEW count \in Nat, 0 < count, all <= count * size, NEW g,
           NEW chunks, Chunked(chunks, count, size, all, g)
    PROVE  FlattenSeq(chunks) = [k \in 1..all |-> g[k - 1]]
<1>1. PICK f : FlattenUpTo(f, chunks, count) /\ FlattenSeq(chunks) = f[count]
  <2>1. Len(chunks) = count /\ count # 0
    BY DEF Chunked
  <2>2. FlattenSeq(chunks) = (CHOOSE f : FlattenUpTo(f, chunks, count))[count]
    BY <2>1, Zenon DEF FlattenSeq, FlattenUpTo
  <2> QED
    BY <2>2, FlattenExists
<1> DEFINE First(n) == [k \in 1..n |-> g[k - 1]]
           Bad == {t \in 1..count : f[t] # First(UpTo(t, size, all))}
<1>2. ASSUME NEW t \in 1..count
      PROVE  /\ t * size \in Nat /\ (t - 1) * size \in Nat /\ t * size = (t - 1) * size + size
             /\ UpTo(t, size, all) \in 0..all
  <2>1. t * size \in Nat /\ (t - 1) * size \in Nat /\ t * size = (t - 1) * size + size
    OBVIOUS
  <2> QED
    BY <2>1 DEF UpTo
<1>3. ASSUME Bad # {} PROVE FALSE
  <2>1. PICK t \in Bad : \A y \in Bad : t <= y
    <3>1. Bad \subseteq Nat
      OBVIOUS
    <3> HIDE DEF Bad
    <3> QED
      BY <1>3, <3>1, LeastOf
  <2>2. t \in 1..count /\ f[t] # First(UpTo(t, size, all))
    OBVIOUS
  <2>a. PICK a \in Nat : a = (t - 1) * size
    BY <1>2, <2>2
  <2>b. PICK b \in 0..all : b = UpTo(t, size, all) /\ b = IF a + size < all THEN a + size ELSE all
    BY <1>2, <2>2, <2>a DEF UpTo
  <2>c. chunks[t] = [k \in 1..(b - a) |-> g[a + k - 1]]
    BY <2>2, <2>a, <2>b DEF Chunked
  <2>3. CASE t = 1
    <3>1. f[1] = chunks[1]
      BY <1>1, <2>2, <2>3 DEF FlattenUpTo
    <3>2. a = 0 /\ b - a = b /\ \A k \in 1..b : 0 + k - 1 = k - 1
      BY <2>3, <2>a, <2>b
    <3>3. chunks[1] = First(b)
      BY <2>3, <2>c, <3>2
    <3> QED
      BY <2>2, <2>3, <2>b, <3>1, <3>3
  <2>4. CASE t # 1
    <3>1. t - 1 \in 1..count /\ ~(t <= t - 1)
      BY <2>2, <2>4
    <3>2. f[t] = f[t - 1] \o chunks[t]
      BY <1>1, <2>2, <2>4 DEF FlattenUpTo
    <3>3. PICK e \in 0..all : e = UpTo(t - 1, size, all) /\ e = IF a < all THEN a ELSE all
      BY <1>2, <2>a, <3>1 DEF UpTo
    <3>4. f[t - 1] = First(e)
      <4>1. t - 1 \notin Bad
        <5> HIDE DEF Bad
        <5> QED
          BY <2>1, <3>1
      <4> QED
        BY <3>1, <3>3, <4>1
    <3>5. CASE a < all
      <4>1. e = a /\ a <= b /\ b \in Nat
        BY <2>b, <3>3, <3>5
      <4>2. PICK s, u : s = f[t - 1] /\ u = chunks[t]
        OBVIOUS
      <4>3. s = [k \in 1..a |-> g[k - 1]] /\ u = [k \in 1..(b - a) |-> g[a + k - 1]]
        BY <2>c, <3>4, <4>1, <4>2
      <4>4. s \o u = [k \in 1..b |-> g[k - 1]]
        BY <4>1, <4>3, ConcatPart
      <4> QED
        BY <2>2, <2>b, <3>2, <4>2, <4>4
    <3>6. CASE ~(a < all)
      <4>1. e = all /\ b = all /\ 1..(b - a) = {}
        BY <2>b, <3>3, <3>6
      <4>2. PICK s, u : s = f[t - 1] /\ u = chunks[t]
        OBVIOUS
      <4>3. u = [k \in {} |-> g[a + k - 1]]
        BY <2>c, <4>1, <4>2
      <4>4. u = [k \in 1..(all - all) |-> g[all + k - 1]]
        <5>1. 1..(all - all) = {}
          OBVIOUS
        <5>2. [k \in {} |-> g[a + k - 1]] = [k \in {} |-> g[all + k - 1]]
          OBVIOUS
        <5> QED
          BY <4>3, <5>1, <5>2
      <4>5. s = [k \in 1..all |-> g[k - 1]] /\ all <= all
        BY <3>4, <4>1, <4>2
      <4>6. s \o u = [k \in 1..all |-> g[k - 1]]
        BY <4>4, <4>5, ConcatPart
      <4> QED
        BY <2>2, <2>b, <3>2, <4>1, <4>2, <4>6
    <3> QED
      BY <3>5, <3>6
  <2> QED
    BY <2>3, <2>4
<1>4. UpTo(count, size, all) = all
  BY <1>2 DEF UpTo
<1>5. f[count] = First(all)
  <2>1. count \in 1..count
    OBVIOUS
  <2> QED
    BY <1>3, <1>4, <2>1
<1> QED
  BY <1>1, <1>5

-----------------------------------------------------------------------------
(* One-time signatures.                                                    *)

(***************************************************************************)
(* What holds of zero, and of every number up to n if it holds of the one  *)
(* before, holds up to n.                                                  *)
(***************************************************************************)
LEMMA CountUp ==
    \A n \in Nat : \A S :
        0 \in S /\ (\A i \in 0..(n - 1) : i \in S => i + 1 \in S) => \A i \in 0..n : i \in S
<1> SUFFICES ASSUME NEW n \in Nat, NEW S, 0 \in S, \A i \in 0..(n - 1) : i \in S => i + 1 \in S,
                    {i \in 0..n : i \notin S} # {} PROVE FALSE
  OBVIOUS
<1>1. PICK j \in {i \in 0..n : i \notin S} : \A y \in {i \in 0..n : i \notin S} : j <= y
  <2>1. {i \in 0..n : i \notin S} \subseteq Nat
    OBVIOUS
  <2> QED
    BY <2>1, LeastOf
<1>2. j # 0 /\ j - 1 \in 0..(n - 1) /\ (j - 1) + 1 = j
  BY <1>1
<1>3. j - 1 \in S
  BY <1>1, <1>2
<1> QED
  BY <1>1, <1>2, <1>3

(***************************************************************************)
(* A number made from the one before it, and its place, is made at every   *)
(* place.                                                                  *)
(***************************************************************************)
LEMMA Recursion ==
    \A x \in Nat : \A step \in [Nat \X Nat -> Nat] : \A last \in Nat :
        \E f \in [0..last -> Nat] : f = [i \in 0..last |-> IF i = 0 THEN x ELSE step[<<i, f[i - 1]>>]]
<1> SUFFICES ASSUME NEW x \in Nat, NEW n \in Nat, NEW step \in [Nat \X Nat -> Nat]
             PROVE  \E f \in [0..n -> Nat] : f = [i \in 0..n |-> IF i = 0 THEN x ELSE step[<<i, f[i - 1]>>]]
  OBVIOUS
<1> DEFINE Made(f, k) == f = [i \in 0..k |-> IF i = 0 THEN x ELSE step[<<i, f[i - 1]>>]]
           S == {k \in Nat : \E f \in [0..k -> Nat] : Made(f, k)}
<1>1. 0 \in S
  <2>1. [i \in 0..0 |-> x] \in [0..0 -> Nat] /\ Made([i \in 0..0 |-> x], 0)
    OBVIOUS
  <2> QED
    BY <2>1
<1>2. ASSUME NEW k \in 0..(n - 1), k \in S PROVE k + 1 \in S
  <2>1. PICK f \in [0..k -> Nat] : Made(f, k)
    BY <1>2
  <2> DEFINE g == [i \in 0..(k + 1) |-> IF i = k + 1 THEN step[<<k + 1, f[k]>>] ELSE f[i]]
  <2>2. step[<<k + 1, f[k]>>] \in Nat
    OBVIOUS
  <2>3. g \in [0..(k + 1) -> Nat]
    BY <2>2
  <2>4. ASSUME NEW i \in 0..(k + 1) PROVE g[i] = IF i = 0 THEN x ELSE step[<<i, g[i - 1]>>]
    <3>1. CASE i = k + 1
      <4>1. i \in 0..(k + 1) /\ i # 0 /\ i - 1 = k /\ k \in 0..(k + 1) /\ k # k + 1
        BY <3>1
      <4>2. g[i] = step[<<i, f[k]>>] /\ g[k] = f[k]
        BY <3>1, <4>1
      <4> QED
        BY <4>1, <4>2, Zenon
    <3>2. CASE i \in 0..k
      <4>1. f[i] = IF i = 0 THEN x ELSE step[<<i, f[i - 1]>>]
        BY <2>1, <3>2
      <4>2. i # 0 => i - 1 \in 0..(k + 1) /\ i - 1 # k + 1
        BY <3>2
      <4>3. g[i] = f[i]
        BY <3>2
      <4>4. i # 0 => g[i - 1] = f[i - 1]
        BY <4>2
      <4> QED
        BY <4>1, <4>3, <4>4, Zenon
    <3> QED
      BY <3>1, <3>2
  <2>5. Made(g, k + 1)
    BY <2>4
  <2>6. k + 1 \in Nat
    OBVIOUS
  <2> HIDE DEF g, Made
  <2> QED
    BY <2>3, <2>5, <2>6, Zenon
<1> HIDE DEF S
<1>3. n \in S
  BY <1>1, <1>2, CountUp
<1> QED
  BY <1>3 DEF S

(***************************************************************************)
(* Shifting divides by the base, again and again.                          *)
(***************************************************************************)
LEMMA ShiftedDef ==
    \A n, count, b \in Nat : 1 < b =>
        /\ Shifted(n, count, b) \in [0..count -> Nat]
        /\ Shifted(n, count, b)[0] = n
        /\ \A i \in 1..count : Shifted(n, count, b)[i] = Shifted(n, count, b)[i - 1] \div b
<1> SUFFICES ASSUME NEW n \in Nat, NEW count \in Nat, NEW b \in Nat, 1 < b
             PROVE  /\ Shifted(n, count, b) \in [0..count -> Nat]
                    /\ Shifted(n, count, b)[0] = n
                    /\ \A i \in 1..count :
                          Shifted(n, count, b)[i] = Shifted(n, count, b)[i - 1] \div b
  OBVIOUS
<1> DEFINE step == [p \in Nat \X Nat |-> p[2] \div b]
           Made(f) == f = [i \in 0..count |-> IF i = 0 THEN n ELSE f[i - 1] \div b]
<1>1. step \in [Nat \X Nat -> Nat]
  <2>1. \A k \in Nat : k \div b \in Nat
    BY DivMod
  <2> QED
    BY <2>1
<1>2. PICK f \in [0..count -> Nat] : f = [i \in 0..count |-> IF i = 0 THEN n ELSE step[<<i, f[i - 1]>>]]
  <2> HIDE DEF step
  <2>1. n \in Nat
    OBVIOUS
  <2>2. \A last \in Nat : \E f \in [0..last -> Nat] :
            f = [i \in 0..last |-> IF i = 0 THEN n ELSE step[<<i, f[i - 1]>>]]
    BY <1>1, <2>1, Recursion, Zenon
  <2> QED
    BY <2>2
<1>3. Made(f)
  <2>1. ASSUME NEW i \in 0..count PROVE f[i] = IF i = 0 THEN n ELSE f[i - 1] \div b
    <3>1. i # 0 => i - 1 \in 0..count /\ i \in Nat
      OBVIOUS
    <3> QED
      BY <1>2, <3>1
  <2> QED
    BY <2>1, <1>2
<1>4. Shifted(n, count, b) = CHOOSE g : Made(g)
  BY DEF Shifted
<1>5. Made(Shifted(n, count, b))
  BY <1>3, <1>4
<1> DEFINE r == Shifted(n, count, b)
<1>6. r = [i \in 0..count |-> IF i = 0 THEN n ELSE r[i - 1] \div b]
  BY <1>5
<1> HIDE DEF r, Made, step
<1>7. \A i \in 0..count : r[i] \in Nat
  <2> DEFINE S == {i \in 0..count : r[i] \in Nat}
  <2>1. 0 \in S
    BY <1>6
  <2>2. ASSUME NEW i \in 0..(count - 1), i \in S PROVE i + 1 \in S
    <3>1. i + 1 \in 0..count /\ i + 1 # 0 /\ (i + 1) - 1 = i
      OBVIOUS
    <3>2. r[i + 1] = r[i] \div b
      BY <1>6, <3>1
    <3>3. r[i] \in Nat
      BY <2>2
    <3>4. \A k \in Nat : k \div b \in Nat
      BY DivMod
    <3> QED
      BY <3>1, <3>2, <3>3, <3>4
  <2> HIDE DEF S
  <2>3. \A i \in 0..count : i \in S
    BY <2>1, <2>2, CountUp
  <2> QED
    BY <2>3 DEF S
<1> QED
  BY <1>6, <1>7 DEF r

(***************************************************************************)
(* A sum is the sum before it and one nibble more.                         *)
(***************************************************************************)
LEMMA SumsDef ==
    ASSUME NEW nibbles, NEW count \in Nat, \A i \in 1..count : nibbles[i] \in Nat
    PROVE  /\ Sums(nibbles, count) \in [0..count -> Nat]
           /\ Sums(nibbles, count)[0] = 0
           /\ \A i \in 1..count : Sums(nibbles, count)[i] = Sums(nibbles, count)[i - 1] + nibbles[i]
<1> DEFINE step == [p \in Nat \X Nat |-> IF p[1] \in 1..count THEN p[2] + nibbles[p[1]] ELSE 0]
           Made(f) == f = [i \in 0..count |-> IF i = 0 THEN 0 ELSE f[i - 1] + nibbles[i]]
<1>1. step \in [Nat \X Nat -> Nat]
  OBVIOUS
<1>2. PICK f \in [0..count -> Nat] : f = [i \in 0..count |-> IF i = 0 THEN 0 ELSE step[<<i, f[i - 1]>>]]
  <2> HIDE DEF step
  <2>1. 0 \in Nat
    OBVIOUS
  <2> QED
    BY <1>1, <2>1, Recursion, Zenon
<1>3. Made(f)
  <2>1. ASSUME NEW i \in 0..count PROVE f[i] = IF i = 0 THEN 0 ELSE f[i - 1] + nibbles[i]
    <3>1. i # 0 => i - 1 \in 0..count /\ i \in Nat /\ i \in 1..count
      OBVIOUS
    <3> QED
      BY <1>2, <3>1
  <2> QED
    BY <2>1, <1>2
<1>4. Sums(nibbles, count) = CHOOSE g : Made(g)
  BY DEF Sums
<1>5. Made(Sums(nibbles, count))
  BY <1>3, <1>4
<1> DEFINE r == Sums(nibbles, count)
<1>6. r = [i \in 0..count |-> IF i = 0 THEN 0 ELSE r[i - 1] + nibbles[i]]
  BY <1>5
<1> HIDE DEF r, Made, step
<1>7. \A i \in 0..count : r[i] \in Nat
  <2> DEFINE S == {i \in 0..count : r[i] \in Nat}
  <2>1. 0 \in S
    BY <1>6
  <2>2. ASSUME NEW i \in 0..(count - 1), i \in S PROVE i + 1 \in S
    <3>1. i + 1 \in 1..count /\ i + 1 \in 0..count /\ i + 1 # 0 /\ (i + 1) - 1 = i
      OBVIOUS
    <3>2. r[i + 1] = r[i] + nibbles[i + 1]
      BY <1>6, <3>1
    <3> QED
      BY <2>2, <3>1, <3>2
  <2> HIDE DEF S
  <2>3. \A i \in 0..count : i \in S
    BY <2>1, <2>2, CountUp
  <2> QED
    BY <2>3 DEF S
<1> QED
  BY <1>6, <1>7 DEF r

\* x is q times b and r more.
Splits(x, q, r, b) == x = q * b + r

(***************************************************************************)
(* A nibble is what shifting drops of a number.                            *)
(***************************************************************************)
LEMMA NibbleDef ==
    \A n, count, b \in Nat : 1 < b =>
        /\ ToNibbles(n, count, b) \in [1..count -> 0..(b - 1)]
        /\ \A i \in 1..count :
             Splits(Shifted(n, count, b)[i - 1], Shifted(n, count, b)[i], ToNibbles(n, count, b)[i], b)
<1> SUFFICES ASSUME NEW n \in Nat, NEW count \in Nat, NEW b \in Nat, 1 < b
             PROVE  /\ ToNibbles(n, count, b) \in [1..count -> 0..(b - 1)]
                    /\ \A i \in 1..count :
                          Splits(Shifted(n, count, b)[i - 1], Shifted(n, count, b)[i],
                                 ToNibbles(n, count, b)[i], b)
  OBVIOUS
<1>a. /\ Shifted(n, count, b) \in [0..count -> Nat]
      /\ \A i \in 1..count : Shifted(n, count, b)[i] = Shifted(n, count, b)[i - 1] \div b
  BY ShiftedDef
<1>1. ASSUME NEW i \in 1..count
      PROVE  /\ ToNibbles(n, count, b)[i] \in 0..(b - 1)
             /\ Splits(Shifted(n, count, b)[i - 1], Shifted(n, count, b)[i], ToNibbles(n, count, b)[i], b)
  <2>1. i - 1 \in 0..count
    OBVIOUS
  <2>2. PICK x \in Nat : x = Shifted(n, count, b)[i - 1] /\ Shifted(n, count, b)[i] = x \div b
    BY <1>a, <2>1
  <2>3. PICK q \in Nat, r \in 0..(b - 1) : x \div b = q /\ x % b = r /\ x = q * b + r
    BY DivMod
  <2>4. ToNibbles(n, count, b)[i] = r
    BY <2>2, <2>3 DEF ToNibbles
  <2> QED
    BY <2>2, <2>3, <2>4 DEF Splits
<1>2. ToNibbles(n, count, b) = [i \in 1..count |-> ToNibbles(n, count, b)[i]]
  BY DEF ToNibbles
<1> QED
  BY <1>1, <1>2

(***************************************************************************)
(* A larger quotient and a digit no smaller make a larger number.          *)
(***************************************************************************)
LEMMA SplitsOrder ==
    \A b, x, y, q, p, r, t \in Nat :
        Splits(x, q, r, b) /\ Splits(y, p, t, b) /\ p <= q /\ t <= r => y <= x
<1> SUFFICES ASSUME NEW b \in Nat, NEW x \in Nat, NEW y \in Nat, NEW q \in Nat, NEW p \in Nat,
                    NEW r \in Nat, NEW t \in Nat,
                    Splits(x, q, r, b), Splits(y, p, t, b), p <= q, t <= r
             PROVE  y <= x
  OBVIOUS
<1>1. PICK d \in Nat : q = p + d
  BY q - p \in Nat
<1>2. q * b = p * b + d * b /\ d * b \in Nat /\ p * b \in Nat
  BY <1>1
<1> QED
  BY <1>2 DEF Splits

(***************************************************************************)
(* Enough shifts leave nothing.                                            *)
(***************************************************************************)
LEMMA ShiftedOut ==
    \A n, count, b \in Nat : 1 < b /\ n < Power(b)[count] => Shifted(n, count, b)[count] = 0
<1> SUFFICES ASSUME NEW n \in Nat, NEW count \in Nat, NEW b \in Nat, 1 < b, n < Power(b)[count]
             PROVE  Shifted(n, count, b)[count] = 0
  OBVIOUS
<1>a. /\ Shifted(n, count, b) \in [0..count -> Nat]
      /\ Shifted(n, count, b)[0] = n
      /\ \A i \in 1..count : Shifted(n, count, b)[i] = Shifted(n, count, b)[i - 1] \div b
  BY ShiftedDef
<1> DEFINE S == {i \in 0..count : Shifted(n, count, b)[i] < Power(b)[count - i]}
<1>1. 0 \in S
  <2>1. 0 \in 0..count /\ count - 0 = count /\ Shifted(n, count, b)[0] = n
    BY <1>a
  <2> QED
    BY <2>1
<1>2. ASSUME NEW i \in 0..(count - 1), i \in S PROVE i + 1 \in S
  <2>1. i + 1 \in 1..count /\ i + 1 \in 0..count /\ (i + 1) - 1 = i /\ count - i \in Nat
        /\ count - (i + 1) \in Nat /\ count - i # 0 /\ (count - i) - 1 = count - (i + 1)
    OBVIOUS
  <2>0. Shifted(n, count, b)[i + 1] = Shifted(n, count, b)[i] \div b /\ Shifted(n, count, b)[i] \in Nat
    <3>1. Shifted(n, count, b)[i + 1] = Shifted(n, count, b)[(i + 1) - 1] \div b
      BY <1>a, <2>1
    <3>2. i \in 0..count
      OBVIOUS
    <3> QED
      BY <1>a, <2>1, <3>1, <3>2
  <2>2. PICK x \in Nat : x = Shifted(n, count, b)[i] /\ Shifted(n, count, b)[i + 1] = x \div b
    BY <2>0
  <2>3. PICK p \in Nat : p = Power(b)[count - (i + 1)] /\ Power(b)[count - i] = b * p
    BY <2>1, PowersDef, PowersNat
  <2>4. PICK q \in Nat, r \in 0..(b - 1) : x \div b = q /\ x % b = r /\ x = q * b + r
    BY DivMod
  <2>5. x < b * p
    BY <1>2, <2>2, <2>3
  <2>6. q < p
    <3> SUFFICES ASSUME p <= q PROVE FALSE
      OBVIOUS
    <3>1. PICK d \in Nat : q = p + d
      BY q - p \in Nat
    <3>2. q * b = b * p + d * b /\ d * b \in Nat
      BY <3>1
    <3> QED
      BY <2>4, <2>5, <3>2
  <2> QED
    BY <2>1, <2>2, <2>3, <2>4, <2>6
<1> HIDE DEF S
<1>3. count \in S
  BY <1>1, <1>2, CountUp
<1>4. Shifted(n, count, b)[count] < Power(b)[0]
  <2>1. Shifted(n, count, b)[count] < Power(b)[count - count]
    BY <1>3 DEF S
  <2> QED
    BY <2>1
<1>5. Power(b)[0] = 1
  BY PowersDef
<1> QED
  BY <1>a, <1>4, <1>5

(***************************************************************************)
(* A number none of whose nibbles is smaller is no smaller, if the other   *)
(* has no more nibbles than these.                                         *)
(***************************************************************************)
LEMMA NibblesOrder ==
    ASSUME NEW n \in Nat, NEW m \in Nat, NEW count \in Nat, NEW b \in Nat, 1 < b, m < Power(b)[count],
           \A i \in 1..count : ToNibbles(m, count, b)[i] <= ToNibbles(n, count, b)[i]
    PROVE  m <= n
<1> DEFINE S == {j \in 0..count : Shifted(m, count, b)[count - j] <= Shifted(n, count, b)[count - j]}
<1>a. /\ Shifted(n, count, b) \in [0..count -> Nat] /\ Shifted(m, count, b) \in [0..count -> Nat]
      /\ Shifted(n, count, b)[0] = n /\ Shifted(m, count, b)[0] = m
  BY ShiftedDef
<1>b. /\ ToNibbles(n, count, b) \in [1..count -> 0..(b - 1)]
      /\ ToNibbles(m, count, b) \in [1..count -> 0..(b - 1)]
      /\ \A i \in 1..count :
            /\ Splits(Shifted(n, count, b)[i - 1], Shifted(n, count, b)[i], ToNibbles(n, count, b)[i], b)
            /\ Splits(Shifted(m, count, b)[i - 1], Shifted(m, count, b)[i], ToNibbles(m, count, b)[i], b)
  BY NibbleDef
<1>1. 0 \in S
  <2>1. Shifted(m, count, b)[count] = 0
    BY ShiftedOut
  <2> QED
    BY <1>a, <2>1
<1>2. ASSUME NEW j \in 0..(count - 1), j \in S PROVE j + 1 \in S
  <2>1. PICK i \in 1..count : i = count - j
    OBVIOUS
  <2>2. i - 1 = count - (j + 1) /\ i - 1 \in 0..count /\ i \in 0..count /\ j + 1 \in 0..count
    BY <2>1
  <2>3. PICK x, q \in Nat, r \in 0..(b - 1) :
            /\ x = Shifted(n, count, b)[i - 1] /\ q = Shifted(n, count, b)[i] /\ r = ToNibbles(n, count, b)[i]
            /\ Splits(x, q, r, b)
    BY <1>a, <1>b, <2>2
  <2>4. PICK y, p \in Nat, t \in 0..(b - 1) :
            /\ y = Shifted(m, count, b)[i - 1] /\ p = Shifted(m, count, b)[i] /\ t = ToNibbles(m, count, b)[i]
            /\ Splits(y, p, t, b)
    BY <1>a, <1>b, <2>2
  <2>5. p <= q /\ t <= r
    BY <1>2, <2>1, <2>3, <2>4
  <2>6. y <= x
    <3>1. r \in Nat /\ t \in Nat
      OBVIOUS
    <3> QED
      BY <2>3, <2>4, <2>5, <3>1, SplitsOrder, Zenon
  <2> QED
    BY <2>2, <2>3, <2>4, <2>6
<1> HIDE DEF S
<1>3. count \in S
  BY <1>1, <1>2, CountUp
<1>4. Shifted(m, count, b)[count - count] <= Shifted(n, count, b)[count - count]
  BY <1>3 DEF S
<1> QED
  BY <1>a, <1>4

(***************************************************************************)
(* Nibbles none of which is larger have no larger sum, and the same sum    *)
(* only if they are the same.                                              *)
(***************************************************************************)
LEMMA SumsOrder ==
    ASSUME NEW count \in Nat, NEW n, NEW m,
           \A i \in 1..count : n[i] \in Nat /\ m[i] \in Nat /\ n[i] <= m[i]
    PROVE  /\ Sums(n, count)[count] <= Sums(m, count)[count]
           /\ Sums(n, count)[count] = Sums(m, count)[count] => \A i \in 1..count : n[i] = m[i]
<1> DEFINE a == Sums(n, count)
           b == Sums(m, count)
           S == {j \in 0..count : a[j] <= b[j] /\ (a[j] = b[j] => \A i \in 1..j : n[i] = m[i])}
<1>1. /\ a \in [0..count -> Nat] /\ a[0] = 0
      /\ \A i \in 1..count : a[i] = a[i - 1] + n[i]
  BY SumsDef
<1>2. /\ b \in [0..count -> Nat] /\ b[0] = 0
      /\ \A i \in 1..count : b[i] = b[i - 1] + m[i]
  BY SumsDef
<1> HIDE DEF a, b
<1>3. 0 \in S
  BY <1>1, <1>2
<1>4. ASSUME NEW j \in 0..(count - 1), j \in S PROVE j + 1 \in S
  <2>1. j + 1 \in 1..count /\ j + 1 \in 0..count /\ (j + 1) - 1 = j /\ j \in 0..count
    OBVIOUS
  <2>2. a[j + 1] = a[j] + n[j + 1] /\ b[j + 1] = b[j] + m[j + 1]
    BY <1>1, <1>2, <2>1
  <2>3. a[j] \in Nat /\ b[j] \in Nat /\ n[j + 1] \in Nat /\ m[j + 1] \in Nat /\ n[j + 1] <= m[j + 1]
    BY <1>1, <1>2, <2>1
  <2>4. a[j] <= b[j] /\ (a[j] = b[j] => \A i \in 1..j : n[i] = m[i])
    BY <1>4
  <2>5. a[j + 1] <= b[j + 1]
    BY <2>2, <2>3, <2>4
  <2>6. ASSUME a[j + 1] = b[j + 1] PROVE \A i \in 1..(j + 1) : n[i] = m[i]
    <3>1. a[j] = b[j] /\ n[j + 1] = m[j + 1]
      BY <2>2, <2>3, <2>4, <2>6
    <3> QED
      BY <2>4, <3>1
  <2> QED
    BY <2>1, <2>5, <2>6
<1> HIDE DEF S
<1>5. count \in S
  <2>1. \A j \in 0..(count - 1) : j \in S => j + 1 \in S
    BY <1>4
  <2>2. \A j \in 0..count : j \in S
    BY <1>3, <2>1, CountUp, Zenon
  <2> QED
    BY <2>2
<1> QED
  BY <1>5 DEF S, a, b

(***************************************************************************)
(* The sum of nibbles that are at most b is at most b for each of them.    *)
(***************************************************************************)
LEMMA SumBound ==
    ASSUME NEW count \in Nat, NEW b \in Nat, NEW n, \A i \in 1..count : n[i] \in 0..b
    PROVE  Sums(n, count)[count] \in Nat /\ Sums(n, count)[count] <= count * b
<1> DEFINE a == Sums(n, count)
           S == {j \in 0..count : a[j] <= j * b}
<1>1. /\ a \in [0..count -> Nat] /\ a[0] = 0
      /\ \A i \in 1..count : a[i] = a[i - 1] + n[i]
  <2>1. \A i \in 1..count : n[i] \in Nat
    OBVIOUS
  <2> QED
    BY <2>1, SumsDef
<1> HIDE DEF a
<1>3. 0 \in S
  BY <1>1
<1>4. ASSUME NEW j \in 0..(count - 1), j \in S PROVE j + 1 \in S
  <2>1. j + 1 \in 1..count /\ j + 1 \in 0..count /\ (j + 1) - 1 = j /\ j \in 0..count
    OBVIOUS
  <2>2. a[j + 1] = a[j] + n[j + 1] /\ a[j] \in Nat /\ n[j + 1] \in 0..b
    BY <1>1, <2>1
  <2>3. (j + 1) * b = j * b + b
    OBVIOUS
  <2> QED
    BY <1>4, <2>1, <2>2, <2>3
<1> HIDE DEF S
<1>5. count \in S
  <2>1. \A j \in 0..(count - 1) : j \in S => j + 1 \in S
    BY <1>4
  <2>2. \A j \in 0..count : j \in S
    BY <1>3, <2>1, CountUp, Zenon
  <2> QED
    BY <2>2
<1> QED
  BY <1>1, <1>5 DEF S, a

\* A scheme whose checksum has a place for the sum of all its nibbles.
WellFormed(s) ==
    /\ s.data \in Nat /\ s.check \in Nat /\ s.base \in Nat /\ 1 < s.base
    /\ s.data * (s.base - 1) < Power(s.base)[s.check]

(***************************************************************************)
(* The checksum is a number with a place in the nibbles kept for it.       *)
(***************************************************************************)
LEMMA ChecksumFits ==
    \A s : \A n : WellFormed(s) /\ (\A i \in 1..s.data : n[i] \in 0..(s.base - 1)) =>
        /\ Checksum(s, n) \in Nat
        /\ Checksum(s, n) < Power(s.base)[s.check]
        /\ ChecksumNibbles(s, n) \in [1..s.check -> 0..(s.base - 1)]
<1> SUFFICES ASSUME NEW s, NEW n, WellFormed(s), \A i \in 1..s.data : n[i] \in 0..(s.base - 1)
             PROVE  /\ Checksum(s, n) \in Nat
                    /\ Checksum(s, n) < Power(s.base)[s.check]
                    /\ ChecksumNibbles(s, n) \in [1..s.check -> 0..(s.base - 1)]
  OBVIOUS
<1>1. PICK d, c, b \in Nat : d = s.data /\ c = s.check /\ b = s.base /\ 1 < b /\ d * (b - 1) < Power(b)[c]
  BY DEF WellFormed
<1>2. b - 1 \in Nat /\ Power(b)[c] \in Nat
  BY <1>1, PowersNat
<1>3. Sums(n, d)[d] \in Nat /\ Sums(n, d)[d] <= d * (b - 1)
  <2>1. \A i \in 1..d : n[i] \in 0..(b - 1)
    BY <1>1
  <2> QED
    BY <1>2, <2>1, SumBound
<1>4. Checksum(s, n) \in Nat /\ Checksum(s, n) < Power(b)[c]
  BY <1>1, <1>2, <1>3 DEF Checksum
<1>5. ChecksumNibbles(s, n) \in [1..c -> 0..(b - 1)]
  BY <1>1, <1>4, NibbleDef DEF ChecksumNibbles
<1> QED
  BY <1>1, <1>4, <1>5

\* No data nibble of n is larger than in m, and no checksum nibble smaller.
NoLarger(s, n, m) ==
    /\ \A i \in 1..s.data : n[i] \in 0..(s.base - 1) /\ m[i] \in 0..(s.base - 1) /\ n[i] <= m[i]
    /\ \A i \in 1..s.check : ChecksumNibbles(s, m)[i] <= ChecksumNibbles(s, n)[i]

\* The data nibbles of n and m are the same.
SameMessage(s, n, m) == \A i \in 1..s.data : n[i] = m[i]

(***************************************************************************)
(* If no data nibble is larger than in another message and no checksum     *)
(* nibble is smaller, the messages are the same.                           *)
(***************************************************************************)
LEMMA ChecksumBinds ==
    \A s : \A n, m : WellFormed(s) /\ NoLarger(s, n, m) => SameMessage(s, n, m)
<1> SUFFICES ASSUME NEW s, NEW n, NEW m, WellFormed(s), NoLarger(s, n, m)
             PROVE  SameMessage(s, n, m)
  OBVIOUS
<1>a. /\ \A i \in 1..s.data : n[i] \in 0..(s.base - 1) /\ m[i] \in 0..(s.base - 1) /\ n[i] <= m[i]
      /\ \A i \in 1..s.check : ChecksumNibbles(s, m)[i] <= ChecksumNibbles(s, n)[i]
  BY DEF NoLarger
<1>1. PICK x \in Nat : x = Checksum(s, n)
  BY <1>a, ChecksumFits
<1>2. PICK y \in Nat : y = Checksum(s, m) /\ y < Power(s.base)[s.check]
  BY <1>a, ChecksumFits
<1>3. y <= x
  <2>1. \A i \in 1..s.check : ToNibbles(y, s.check, s.base)[i] <= ToNibbles(x, s.check, s.base)[i]
    BY <1>a, <1>1, <1>2 DEF ChecksumNibbles
  <2>2. s.check \in Nat /\ s.base \in Nat /\ 1 < s.base
    BY DEF WellFormed
  <2> QED
    BY <1>2, <2>1, <2>2, NibblesOrder
<1>4. s.data \in Nat /\ \A i \in 1..s.data : n[i] \in Nat /\ m[i] \in Nat /\ n[i] <= m[i]
  BY <1>a DEF WellFormed
<1>5. x <= y /\ (x = y => \A i \in 1..s.data : n[i] = m[i])
  BY <1>1, <1>2, <1>4, SumsOrder DEF Checksum
<1> QED
  BY <1>3, <1>5 DEF SameMessage

(***************************************************************************)
(* The checksum depends on nothing but the data nibbles.                   *)
(***************************************************************************)
LEMMA ChecksumAgrees ==
    \A s : \A n, m :
        WellFormed(s) /\ (\A i \in 1..s.data : n[i] = m[i] /\ m[i] \in 0..(s.base - 1)) =>
            ChecksumNibbles(s, n) = ChecksumNibbles(s, m)
<1> SUFFICES ASSUME NEW s, NEW n, NEW m, WellFormed(s),
                    \A i \in 1..s.data : n[i] = m[i] /\ m[i] \in 0..(s.base - 1)
             PROVE  ChecksumNibbles(s, n) = ChecksumNibbles(s, m)
  OBVIOUS
<1>1. s.data \in Nat /\ \A i \in 1..s.data : n[i] \in Nat /\ m[i] \in Nat /\ n[i] <= m[i] /\ m[i] <= n[i]
  BY DEF WellFormed
<1>2. Sums(n, s.data)[s.data] <= Sums(m, s.data)[s.data]
  BY <1>1, SumsOrder
<1>3. Sums(m, s.data)[s.data] <= Sums(n, s.data)[s.data]
  BY <1>1, SumsOrder
<1>4. Checksum(s, n) \in Nat /\ Checksum(s, m) \in Nat
  BY ChecksumFits
<1>5. Checksum(s, n) = Checksum(s, m)
  BY <1>2, <1>3, <1>4 DEF Checksum
<1> QED
  BY <1>5 DEF ChecksumNibbles

(***************************************************************************)
(* How often the secrets of a message are hashed.                          *)
(***************************************************************************)
LEMMA DepthsOf ==
    \A s : \A m \in Messages(s) : WellFormed(s) =>
        /\ \A i \in 1..Total(s) : Depths(s, m)[i] \in 0..(s.base - 1)
        /\ \A i \in 1..s.data : i \in 1..Total(s) /\ Depths(s, m)[i] = s.base - 1 - m[i]
        /\ \A i \in 1..s.check :
              s.data + i \in 1..Total(s) /\ Depths(s, m)[s.data + i] = ChecksumNibbles(s, m)[i]
<1> SUFFICES ASSUME NEW s, NEW m \in Messages(s), WellFormed(s)
             PROVE  /\ \A i \in 1..Total(s) : Depths(s, m)[i] \in 0..(s.base - 1)
                    /\ \A i \in 1..s.data : i \in 1..Total(s) /\ Depths(s, m)[i] = s.base - 1 - m[i]
                    /\ \A i \in 1..s.check :
                          s.data + i \in 1..Total(s) /\ Depths(s, m)[s.data + i] = ChecksumNibbles(s, m)[i]
  OBVIOUS
<1>1. PICK d, c, b \in Nat : d = s.data /\ c = s.check /\ b = s.base /\ 1 < b
  BY DEF WellFormed
<1>2. \A i \in 1..d : m[i] \in 0..(b - 1)
  BY <1>1 DEF Messages
<1>3. PICK check \in [1..c -> 0..(b - 1)] : check = ChecksumNibbles(s, m)
  BY <1>1, <1>2, ChecksumFits
<1>4. Depths(s, m) = [i \in 1..(d + c) |-> IF i <= d THEN b - 1 - m[i] ELSE check[i - d]]
  BY <1>1, <1>3 DEF Depths, Total
<1>5. ASSUME NEW i \in 1..(d + c) PROVE Depths(s, m)[i] \in 0..(b - 1)
  <2>1. CASE i <= d
    BY <1>2, <1>4, <2>1
  <2>2. CASE ~(i <= d)
    <3>1. i - d \in 1..c
      BY <2>2
    <3> QED
      BY <1>4, <2>2, <3>1
  <2> QED
    BY <2>1, <2>2
<1>6. ASSUME NEW i \in 1..d PROVE i \in 1..(d + c) /\ Depths(s, m)[i] = b - 1 - m[i]
  BY <1>4
<1>7. ASSUME NEW i \in 1..c PROVE d + i \in 1..(d + c) /\ Depths(s, m)[d + i] = check[i]
  BY <1>4
<1> QED
  BY <1>1, <1>3, <1>5, <1>6, <1>7 DEF Total

(***************************************************************************)
(* A hash below the key unhashes to the number of hashes above it, less    *)
(* one.                                                                    *)
(***************************************************************************)
LEMMA UnhashOf ==
    \A k : \A b, d \in Nat : d < b => Unhash(Digest(k, d), Digest(k, b)) = b - 1 - d
BY DEF Unhash, Digest

(***************************************************************************)
(* What is read from a signature is what was signed.                       *)
(***************************************************************************)
LEMMA SchemeDecodes ==
    \A s : \A m \in Messages(s) : \A key \in Nat : WellFormed(s) =>
        Decode(s, Encode(s, key, m), PublicKey(s, key)) = m
<1> SUFFICES ASSUME NEW s, NEW m \in Messages(s), NEW key \in Nat, WellFormed(s)
             PROVE  Decode(s, Encode(s, key, m), PublicKey(s, key)) = m
  OBVIOUS
<1>1. PICK d, c, b \in Nat : d = s.data /\ c = s.check /\ b = s.base /\ 1 < b
  BY DEF WellFormed
<1>2. \A i \in 1..d : m[i] \in 0..(b - 1)
  BY <1>1 DEF Messages
<1>3. /\ \A i \in 1..Total(s) : Depths(s, m)[i] \in 0..(b - 1)
      /\ \A i \in 1..d : i \in 1..Total(s) /\ Depths(s, m)[i] = b - 1 - m[i]
      /\ \A i \in 1..c : d + i \in 1..Total(s) /\ Depths(s, m)[d + i] = ChecksumNibbles(s, m)[i]
  BY <1>1, DepthsOf
<1>4. PICK n : n = [i \in 1..Total(s) |-> Unhash(Encode(s, key, m)[i], PublicKey(s, key)[i])]
  OBVIOUS
<1>5. ASSUME NEW i \in 1..Total(s) PROVE n[i] = b - 1 - Depths(s, m)[i] /\ n[i] # NoNibble
  <2>1. Encode(s, key, m)[i] = Digest(key + i, Depths(s, m)[i]) /\ PublicKey(s, key)[i] = Digest(key + i, b)
    BY <1>1 DEF Encode, PublicKey
  <2>2. Depths(s, m)[i] \in Nat /\ Depths(s, m)[i] < b
    BY <1>3
  <2>3. n[i] = Unhash(Digest(key + i, Depths(s, m)[i]), Digest(key + i, b))
    BY <1>4, <2>1
  <2>4. n[i] = b - 1 - Depths(s, m)[i]
    BY <2>2, <2>3, UnhashOf
  <2> QED
    BY <2>2, <2>4 DEF NoNibble
<1>6. \A i \in 1..d : n[i] = m[i]
  BY <1>2, <1>3, <1>5
<1>7. ChecksumNibbles(s, n) = ChecksumNibbles(s, m)
  BY <1>1, <1>2, <1>6, ChecksumAgrees
<1>8. ASSUME NEW i \in 1..c PROVE b - 1 - n[d + i] = ChecksumNibbles(s, n)[i]
  <2>1. n[d + i] = b - 1 - Depths(s, m)[d + i] /\ Depths(s, m)[d + i] \in 0..(b - 1)
    BY <1>3, <1>5
  <2> QED
    BY <1>3, <1>7, <2>1
<1>9. Decode(s, Encode(s, key, m), PublicKey(s, key)) = [i \in 1..d |-> n[i]]
  BY <1>1, <1>4, <1>5, <1>8 DEF Decode
<1>10. m = [i \in 1..d |-> m[i]]
  BY <1>1 DEF Messages
<1> QED
  BY <1>6, <1>9, <1>10

(***************************************************************************)
(* Whoever has seen one signature can make none that reads differently.    *)
(***************************************************************************)
LEMMA SchemeBinds ==
    \A s : \A m \in Messages(s) : \A key \in Nat : \A w \in [1..Total(s) -> Nat \X Int] :
        WellFormed(s) /\ Derived(w, Encode(s, key, m))
            => Decode(s, w, PublicKey(s, key)) \in {m, <<>>}
<1> SUFFICES ASSUME NEW s, NEW m \in Messages(s), NEW key \in Nat, NEW w \in [1..Total(s) -> Nat \X Int],
                    WellFormed(s), Derived(w, Encode(s, key, m)), Decode(s, w, PublicKey(s, key)) # <<>>
             PROVE  Decode(s, w, PublicKey(s, key)) = m
  OBVIOUS
<1>1. PICK d, c, b \in Nat : d = s.data /\ c = s.check /\ b = s.base /\ 1 < b
  BY DEF WellFormed
<1>2. \A i \in 1..d : m[i] \in 0..(b - 1)
  BY <1>1 DEF Messages
<1>3. /\ \A i \in 1..Total(s) : Depths(s, m)[i] \in 0..(b - 1)
      /\ \A i \in 1..d : i \in 1..Total(s) /\ Depths(s, m)[i] = b - 1 - m[i]
      /\ \A i \in 1..c : d + i \in 1..Total(s) /\ Depths(s, m)[d + i] = ChecksumNibbles(s, m)[i]
  BY <1>1, DepthsOf
<1>4. PICK n : n = [i \in 1..Total(s) |-> Unhash(w[i], PublicKey(s, key)[i])]
  OBVIOUS
<1>5. /\ Decode(s, w, PublicKey(s, key)) = [i \in 1..d |-> n[i]]
      /\ \A i \in 1..Total(s) : n[i] # NoNibble
      /\ \A i \in 1..c : b - 1 - n[d + i] = ChecksumNibbles(s, n)[i]
  BY <1>1, <1>4 DEF Decode
<1>6. ASSUME NEW i \in 1..Total(s) PROVE n[i] \in 0..(b - 1) /\ n[i] <= b - 1 - Depths(s, m)[i]
  <2>1. PICK k \in Nat, x \in Int : w[i] = <<k, x>>
    OBVIOUS
  <2>2. key + i \in Nat /\ key + i # 0 /\ Depths(s, m)[i] \in 0..(b - 1)
    <3>1. i \in Nat /\ i # 0
      BY <1>1 DEF Total
    <3> QED
      BY <1>3, <3>1
  <2>3. n[i] = Unhash(<<k, x>>, <<key + i, b>>)
    BY <1>1, <1>4, <2>1 DEF PublicKey, Digest
  <2>4. k = key + i /\ x < b /\ n[i] = b - 1 - x
    BY <1>5, <2>3 DEF Unhash
  <2>5. Encode(s, key, m)[i] = <<key + i, Depths(s, m)[i]>> /\ i \in DOMAIN Encode(s, key, m) /\ i \in DOMAIN w
    BY DEF Encode, Digest
  <2>6. Depths(s, m)[i] <= x
    BY <2>1, <2>2, <2>4, <2>5 DEF Derived, IsNum
  <2> QED
    BY <2>2, <2>4, <2>6
<1>7. ASSUME NEW i \in 1..d PROVE n[i] \in 0..(b - 1) /\ n[i] <= m[i]
  BY <1>2, <1>3, <1>6
<1>8. ASSUME NEW i \in 1..c PROVE ChecksumNibbles(s, m)[i] <= ChecksumNibbles(s, n)[i]
  <2>1. n[d + i] \in 0..(b - 1) /\ n[d + i] <= b - 1 - Depths(s, m)[d + i]
        /\ Depths(s, m)[d + i] \in 0..(b - 1) /\ Depths(s, m)[d + i] = ChecksumNibbles(s, m)[i]
    BY <1>3, <1>6
  <2>2. ChecksumNibbles(s, n)[i] = b - 1 - n[d + i]
    BY <1>5
  <2> QED
    BY <2>1, <2>2
<1>9. \A i \in 1..d : n[i] = m[i]
  <2>1. \A i \in 1..s.data : n[i] \in 0..(s.base - 1) /\ m[i] \in 0..(s.base - 1) /\ n[i] <= m[i]
    BY <1>1, <1>2, <1>7
  <2>2. \A i \in 1..s.check : ChecksumNibbles(s, m)[i] <= ChecksumNibbles(s, n)[i]
    BY <1>1, <1>8
  <2>3. NoLarger(s, n, m)
    BY <2>1, <2>2 DEF NoLarger
  <2>4. SameMessage(s, n, m)
    BY <2>3, ChecksumBinds, Zenon
  <2> QED
    BY <1>1, <2>4 DEF SameMessage
<1>10. m = [i \in 1..d |-> m[i]]
  BY <1>1 DEF Messages
<1> QED
  BY <1>5, <1>9, <1>10

(***************************************************************************)
(* The elements of a list-pick signature.                                  *)
(***************************************************************************)
LEMMA ListPickOf ==
    \A s : \A m \in Messages(s) : \A key \in Nat : WellFormed(s) =>
        \A i \in 1..Total(s) :
            /\ 2 * i - 1 \in 1..(2 * Total(s)) /\ 2 * i \in 1..(2 * Total(s))
            /\ EncodeLp(s, key, m)[2 * i - 1] = Num(s.base - 1 - Depths(s, m)[i])
            /\ EncodeLp(s, key, m)[2 * i] = Digest(key + i, s.base - 1 - Depths(s, m)[i])
<1> SUFFICES ASSUME NEW s, NEW m \in Messages(s), NEW key \in Nat, WellFormed(s), NEW i \in 1..Total(s)
             PROVE  /\ 2 * i - 1 \in 1..(2 * Total(s)) /\ 2 * i \in 1..(2 * Total(s))
                    /\ EncodeLp(s, key, m)[2 * i - 1] = Num(s.base - 1 - Depths(s, m)[i])
                    /\ EncodeLp(s, key, m)[2 * i] = Digest(key + i, s.base - 1 - Depths(s, m)[i])
  OBVIOUS
<1>1. PICK t \in Nat : t = Total(s)
  BY DEF WellFormed, Total
<1>2. i \in Nat /\ 1 <= i /\ i <= t
  BY <1>1
<1>3. ((2 * i - 1) + 1) \div 2 = i /\ (2 * i + 1) \div 2 = i /\ 2 * i - 1 # 2 * i
  BY <1>2
<1>4. 2 * i - 1 \in 1..(2 * Total(s)) /\ 2 * i \in 1..(2 * Total(s))
  BY <1>1, <1>2
<1>5. DepthsLp(s, m)[i] = s.base - 1 - Depths(s, m)[i]
  BY DEF DepthsLp
<1> QED
  BY <1>3, <1>4, <1>5 DEF EncodeLp

(***************************************************************************)
(* What is read from a list-pick signature is what was signed.             *)
(***************************************************************************)
LEMMA ListPickDecodes ==
    \A s : \A m \in Messages(s) : \A key \in Nat : WellFormed(s) =>
        DecodeLp(s, EncodeLp(s, key, m), PublicKey(s, key)) = m
<1> SUFFICES ASSUME NEW s, NEW m \in Messages(s), NEW key \in Nat, WellFormed(s)
             PROVE  DecodeLp(s, EncodeLp(s, key, m), PublicKey(s, key)) = m
  OBVIOUS
<1>1. PICK d, c, b \in Nat : d = s.data /\ c = s.check /\ b = s.base /\ 1 < b
  BY DEF WellFormed
<1>2. \A i \in 1..d : m[i] \in 0..(b - 1)
  BY <1>1 DEF Messages
<1>3. /\ \A i \in 1..Total(s) : Depths(s, m)[i] \in 0..(b - 1)
      /\ \A i \in 1..d : i \in 1..Total(s) /\ Depths(s, m)[i] = b - 1 - m[i]
      /\ \A i \in 1..c : d + i \in 1..Total(s) /\ Depths(s, m)[d + i] = ChecksumNibbles(s, m)[i]
  BY <1>1, DepthsOf
<1>a. PICK w : w = EncodeLp(s, key, m)
  OBVIOUS
<1>b. ASSUME NEW i \in 1..Total(s)
      PROVE  /\ w[2 * i - 1] = Num(b - 1 - Depths(s, m)[i])
             /\ w[2 * i] = Digest(key + i, b - 1 - Depths(s, m)[i])
  BY <1>1, <1>a, ListPickOf
<1>4. PICK n : n = [i \in 1..Total(s) |-> b - 1 - Unhash(w[2 * i], PublicKey(s, key)[i])]
  OBVIOUS
<1>5. ASSUME NEW i \in 1..Total(s)
      PROVE  /\ n[i] = b - 1 - Depths(s, m)[i]
             /\ Unhash(w[2 * i], PublicKey(s, key)[i]) # NoNibble
             /\ w[2 * i - 1] = Num(n[i])
  <2>1. PublicKey(s, key)[i] = Digest(key + i, b)
    BY <1>1 DEF PublicKey
  <2>2. PICK x \in Nat : x = b - 1 - Depths(s, m)[i] /\ x < b
    BY <1>3
  <2>3. Unhash(w[2 * i], PublicKey(s, key)[i]) = Unhash(Digest(key + i, x), Digest(key + i, b))
    BY <1>b, <2>1, <2>2
  <2>4. Unhash(w[2 * i], PublicKey(s, key)[i]) = b - 1 - x
    BY <2>2, <2>3, UnhashOf
  <2>5. n[i] = x
    BY <1>4, <2>2, <2>4
  <2> QED
    BY <1>b, <2>2, <2>4, <2>5 DEF NoNibble
<1>6. \A i \in 1..d : n[i] = m[i]
  BY <1>2, <1>3, <1>5
<1>7. ChecksumNibbles(s, n) = ChecksumNibbles(s, m)
  BY <1>1, <1>2, <1>6, ChecksumAgrees
<1>8. ASSUME NEW i \in 1..c PROVE b - 1 - n[d + i] = ChecksumNibbles(s, n)[i]
  <2>1. n[d + i] = b - 1 - Depths(s, m)[d + i] /\ Depths(s, m)[d + i] \in 0..(b - 1)
    BY <1>3, <1>5
  <2> QED
    BY <1>3, <1>7, <2>1
<1>9. DecodeLp(s, w, PublicKey(s, key)) = [i \in 1..d |-> n[i]]
  BY <1>1, <1>4, <1>5, <1>8 DEF DecodeLp
<1>10. m = [i \in 1..d |-> m[i]]
  BY <1>1 DEF Messages
<1> QED
  BY <1>a, <1>6, <1>9, <1>10

(***************************************************************************)
(* Whoever has seen one list-pick signature can make none that reads       *)
(* differently, even though the numbers in it are his to choose.           *)
(***************************************************************************)
LEMMA ListPickBinds ==
    \A s : \A m \in Messages(s) : \A key \in Nat : \A w \in [1..(2 * Total(s)) -> Nat \X Int] :
        WellFormed(s) /\ Derived(w, EncodeLp(s, key, m))
            => DecodeLp(s, w, PublicKey(s, key)) \in {m, <<>>}
<1> SUFFICES ASSUME NEW s, NEW m \in Messages(s), NEW key \in Nat,
                    NEW w \in [1..(2 * Total(s)) -> Nat \X Int], WellFormed(s),
                    Derived(w, EncodeLp(s, key, m)), DecodeLp(s, w, PublicKey(s, key)) # <<>>
             PROVE  DecodeLp(s, w, PublicKey(s, key)) = m
  OBVIOUS
<1>1. PICK d, c, b \in Nat : d = s.data /\ c = s.check /\ b = s.base /\ 1 < b
  BY DEF WellFormed
<1>2. \A i \in 1..d : m[i] \in 0..(b - 1)
  BY <1>1 DEF Messages
<1>3. /\ \A i \in 1..Total(s) : Depths(s, m)[i] \in 0..(b - 1)
      /\ \A i \in 1..d : i \in 1..Total(s) /\ Depths(s, m)[i] = b - 1 - m[i]
      /\ \A i \in 1..c : d + i \in 1..Total(s) /\ Depths(s, m)[d + i] = ChecksumNibbles(s, m)[i]
  BY <1>1, DepthsOf
<1>4. PICK n : n = [i \in 1..Total(s) |-> b - 1 - Unhash(w[2 * i], PublicKey(s, key)[i])]
  OBVIOUS
<1>5. /\ DecodeLp(s, w, PublicKey(s, key)) = [i \in 1..d |-> n[i]]
      /\ \A i \in 1..Total(s) : Unhash(w[2 * i], PublicKey(s, key)[i]) # NoNibble
      /\ \A i \in 1..c : b - 1 - n[d + i] = ChecksumNibbles(s, n)[i]
  BY <1>1, <1>4 DEF DecodeLp
<1>6. ASSUME NEW i \in 1..Total(s) PROVE n[i] \in 0..(b - 1) /\ b - 1 - Depths(s, m)[i] <= n[i]
  <2>0. /\ 2 * i \in 1..(2 * Total(s))
        /\ EncodeLp(s, key, m)[2 * i] = Digest(key + i, b - 1 - Depths(s, m)[i])
    BY <1>1, ListPickOf
  <2>1. PICK k \in Nat, x \in Int : w[2 * i] = <<k, x>>
    BY <2>0
  <2>2. key + i \in Nat /\ key + i # 0 /\ Depths(s, m)[i] \in 0..(b - 1)
    <3>1. i \in Nat /\ i # 0
      BY <1>1 DEF Total
    <3> QED
      BY <1>3, <3>1
  <2>3. n[i] = b - 1 - Unhash(<<k, x>>, <<key + i, b>>)
        /\ Unhash(w[2 * i], PublicKey(s, key)[i]) = Unhash(<<k, x>>, <<key + i, b>>)
    BY <1>1, <1>4, <2>1 DEF PublicKey, Digest
  <2>4. k = key + i /\ x < b /\ n[i] = x
    <3>1. Unhash(<<k, x>>, <<key + i, b>>) = IF k = key + i /\ x < b THEN b - 1 - x ELSE NoNibble
      BY DEF Unhash
    <3>2. Unhash(<<k, x>>, <<key + i, b>>) # NoNibble
      BY <1>5, <2>3
    <3>3. k = key + i /\ x < b /\ n[i] = b - 1 - (b - 1 - x)
      BY <2>3, <3>1, <3>2
    <3> QED
      BY <3>3
  <2>5. 2 * i \in DOMAIN EncodeLp(s, key, m) /\ 2 * i \in DOMAIN w
    BY <2>0 DEF EncodeLp
  <2>6. b - 1 - Depths(s, m)[i] <= x
    BY <2>0, <2>1, <2>2, <2>4, <2>5 DEF Derived, IsNum, Digest
  <2> QED
    BY <2>2, <2>4, <2>6
<1>7. ASSUME NEW i \in 1..d PROVE n[i] \in 0..(b - 1) /\ m[i] <= n[i]
  BY <1>2, <1>3, <1>6
<1>8. ASSUME NEW i \in 1..c PROVE ChecksumNibbles(s, n)[i] <= ChecksumNibbles(s, m)[i]
  <2>1. n[d + i] \in 0..(b - 1) /\ b - 1 - Depths(s, m)[d + i] <= n[d + i]
        /\ Depths(s, m)[d + i] \in 0..(b - 1) /\ Depths(s, m)[d + i] = ChecksumNibbles(s, m)[i]
    BY <1>3, <1>6
  <2>2. ChecksumNibbles(s, n)[i] = b - 1 - n[d + i]
    BY <1>5
  <2> QED
    BY <2>1, <2>2
<1>9. \A i \in 1..d : n[i] = m[i]
  <2>1. \A i \in 1..s.data : m[i] \in 0..(s.base - 1) /\ n[i] \in 0..(s.base - 1) /\ m[i] <= n[i]
    BY <1>1, <1>2, <1>7
  <2>2. \A i \in 1..s.check : ChecksumNibbles(s, n)[i] <= ChecksumNibbles(s, m)[i]
    BY <1>1, <1>8
  <2>3. NoLarger(s, m, n)
    BY <2>1, <2>2 DEF NoLarger
  <2>4. SameMessage(s, m, n)
    BY <2>3, ChecksumBinds, Zenon
  <2> QED
    BY <1>1, <2>4 DEF SameMessage
<1>10. m = [i \in 1..d |-> m[i]]
  BY <1>1 DEF Messages
<1> QED
  BY <1>5, <1>9, <1>10

\* The types of signatures the agents exchange, and those of their scripts.
WotsSchemes == {WOTS_1, WOTS_24, WOTS_32, WOTS_256, WOTS_256_4}

(***************************************************************************)
(* Every type has enough checksum nibbles.                                 *)
(***************************************************************************)
LEMMA WotsWellFormed == \A s \in WotsSchemes : WellFormed(s)
<1>1. Power(8)[0] = 1 /\ Power(16)[0] = 1 /\ \A n \in {1, 2, 3, 4} : /\ Power(8)[n] = 8 * Power(8)[n - 1]
                                                              /\ Power(16)[n] = 16 * Power(16)[n - 1]
  BY PowersDef
<1>2. Power(8)[1] = 8 /\ Power(8)[2] = 64 /\ Power(8)[3] = 512 /\ Power(8)[4] = 4096
  BY <1>1
<1>3. Power(16)[1] = 16 /\ Power(16)[2] = 256 /\ Power(16)[3] = 4096
  BY <1>1
<1> QED
  BY <1>2, <1>3 DEF WotsSchemes, WellFormed, Scheme, WOTS_1, WOTS_24, WOTS_32, WOTS_256, WOTS_256_4

(***************************************************************************)
(* A number with few enough nibbles is what its nibbles make.              *)
(***************************************************************************)
LEMMA NibblesBack ==
    \A n, count, b \in Nat : 1 < b /\ n < Power(b)[count] =>
        FromNibbles(ToNibbles(n, count, b), b) = n
<1> SUFFICES ASSUME NEW n \in Nat, NEW count \in Nat, NEW b \in Nat, 1 < b, n < Power(b)[count]
             PROVE  FromNibbles(ToNibbles(n, count, b), b) = n
  OBVIOUS
<1>a. PICK r \in [0..count -> Nat] : r = Shifted(n, count, b) /\ r[0] = n /\ r[count] = 0
  <2>1. Shifted(n, count, b) \in [0..count -> Nat] /\ Shifted(n, count, b)[0] = n
    BY ShiftedDef
  <2>2. Shifted(n, count, b)[count] = 0
    BY ShiftedOut
  <2> QED
    BY <2>1, <2>2
<1>b. PICK d \in [1..count -> 0..(b - 1)] :
          d = ToNibbles(n, count, b) /\ \A i \in 1..count : Splits(r[i - 1], r[i], d[i], b)
  BY <1>a, NibbleDef
<1>c. Len(d) = count
  BY <1>b
<1> DEFINE Made(f) == f = [i \in 0..count |-> IF i = 0 THEN 0 ELSE d[count + 1 - i] + b * f[i - 1]]
           g == [i \in 0..count |-> r[count - i]]
<1>1. Made(g)
  <2>1. ASSUME NEW i \in 0..count PROVE g[i] = IF i = 0 THEN 0 ELSE d[count + 1 - i] + b * g[i - 1]
    <3>1. CASE i = 0
      BY <1>a, <3>1
    <3>2. CASE i # 0
      <4>1. PICK j \in 1..count : j = count + 1 - i
        BY <3>2
      <4>2. j - 1 = count - i /\ j = count - (i - 1) /\ i - 1 \in 0..count /\ j - 1 \in 0..count /\ j \in 0..count
        BY <3>2, <4>1
      <4>3. PICK x, q \in Nat, t \in 0..(b - 1) : x = r[j - 1] /\ q = r[j] /\ t = d[j] /\ Splits(x, q, t, b)
        BY <1>b, <4>2
      <4>4. g[i] = x /\ g[i - 1] = q /\ d[count + 1 - i] = t
        BY <4>1, <4>2, <4>3
      <4>5. x = t + b * q
        BY <4>3 DEF Splits
      <4> QED
        BY <3>2, <4>4, <4>5
    <3> QED
      BY <3>1, <3>2
  <2> QED
    BY <2>1
<1>2. FromNibbles(d, b) = (CHOOSE f : Made(f))[count]
  BY <1>c DEF FromNibbles
<1>3. PICK f : Made(f) /\ FromNibbles(d, b) = f[count]
  <2> HIDE DEF Made, g
  <2> QED
    BY <1>1, <1>2
<1> DEFINE S == {i \in 0..count : f[i] = g[i]}
<1>4. 0 \in S
  <2>1. 0 \in 0..count /\ count - 0 = count
    OBVIOUS
  <2>2. f[0] = 0
    BY <1>3, <2>1
  <2>3. g[0] = r[count]
    BY <2>1
  <2> QED
    BY <1>a, <2>1, <2>2, <2>3
<1>5. ASSUME NEW i \in 0..(count - 1), i \in S PROVE i + 1 \in S
  <2>1. i + 1 \in 0..count /\ i + 1 # 0 /\ (i + 1) - 1 = i /\ f[i] = g[i]
    BY <1>5
  <2>2. f[i + 1] = d[count + 1 - (i + 1)] + b * f[(i + 1) - 1]
    BY <1>3, <2>1
  <2>3. g[i + 1] = d[count + 1 - (i + 1)] + b * g[(i + 1) - 1]
    BY <1>1, <2>1
  <2> HIDE DEF g
  <2>4. f[i + 1] = g[i + 1]
    BY <2>1, <2>2, <2>3
  <2> QED
    BY <2>1, <2>4
<1>6. count \in S
  <2> HIDE DEF S
  <2>1. \A i \in 0..(count - 1) : i \in S => i + 1 \in S
    BY <1>5
  <2>2. \A i \in 0..count : i \in S
    BY <1>4, <2>1, CountUp, Zenon
  <2> QED
    BY <2>2
<1>7. f[count] = r[count - count] /\ count - count = 0
  BY <1>6
<1> QED
  BY <1>a, <1>b, <1>3, <1>7

(***************************************************************************)
(* decodeWinternitz of what encodeWinternitz makes of a value is that      *)
(* value, for every type and every value the type has room for.            *)
(***************************************************************************)
THEOREM SignatureReads ==
    \A s \in WotsSchemes : \A key, v \in Nat : v < Power(s.base)[s.data] =>
        LET m == ToNibbles(v, s.data, s.base)
        IN  /\ FromNibbles(Decode(s, Encode(s, key, m), PublicKey(s, key)), s.base) = v
            /\ FromNibbles(DecodeLp(s, EncodeLp(s, key, m), PublicKey(s, key)), s.base) = v
<1> SUFFICES ASSUME NEW s \in WotsSchemes, NEW key \in Nat, NEW v \in Nat, v < Power(s.base)[s.data],
                    NEW m, m = ToNibbles(v, s.data, s.base)
             PROVE  /\ FromNibbles(Decode(s, Encode(s, key, m), PublicKey(s, key)), s.base) = v
                    /\ FromNibbles(DecodeLp(s, EncodeLp(s, key, m), PublicKey(s, key)), s.base) = v
  OBVIOUS
<1>1. WellFormed(s)
  BY WotsWellFormed
<1>2. s.data \in Nat /\ s.base \in Nat /\ 1 < s.base
  BY <1>1 DEF WellFormed
<1>3. m \in Messages(s)
  BY <1>2, NibbleDef DEF Messages
<1>4. FromNibbles(m, s.base) = v
  BY <1>2, NibblesBack
<1>5. Decode(s, Encode(s, key, m), PublicKey(s, key)) = m
  BY <1>1, <1>3, SchemeDecodes
<1>6. DecodeLp(s, EncodeLp(s, key, m), PublicKey(s, key)) = m
  BY <1>1, <1>3, ListPickDecodes
<1> QED
  BY <1>4, <1>5, <1>6

(***************************************************************************)
(* Whoever has seen the signature of one message, in either form, and can  *)
(* only hash its elements on, makes none that decodeWinternitz reads as    *)
(* another message: a value on the protocol's path cannot be changed once  *)
(* it is published, whatever its type.                                     *)
(***************************************************************************)
THEOREM SignatureBinds ==
    \A s \in WotsSchemes : \A key \in Nat : \A m \in Messages(s) :
        /\ \A w \in [1..Total(s) -> Nat \X Int] : Derived(w, Encode(s, key, m)) =>
              Decode(s, w, PublicKey(s, key)) \in {m, <<>>}
        /\ \A w \in [1..(2 * Total(s)) -> Nat \X Int] : Derived(w, EncodeLp(s, key, m)) =>
              DecodeLp(s, w, PublicKey(s, key)) \in {m, <<>>}
BY WotsWellFormed, SchemeBinds, ListPickBinds

-----------------------------------------------------------------------------
(* The stack of the generator and that of the interpreter.                 *)

\* The machines whose stacks consist of elements.
Machines == [stack : Seq(Element), alt : Seq(Element), exec : Seq(BOOLEAN), ok : BOOLEAN]

\* f is the machine after up to n of the opcodes.
AfterUpTo(f, m, opcodes, n) ==
    f = [i \in 0..n |-> IF i = 0 THEN m
                        ELSE LET before == f[i - 1]
                             IN  IF before.ok THEN EvalOp(before, opcodes[i]) ELSE before]

(***************************************************************************)
(* Any number of opcodes can be evaluated.                                 *)
(***************************************************************************)
LEMMA AfterExists == \A m, opcodes : \A n \in Nat : \E f : AfterUpTo(f, m, opcodes, n)
<1> SUFFICES ASSUME NEW m, NEW opcodes, NEW n \in Nat PROVE \E f : AfterUpTo(f, m, opcodes, n)
  OBVIOUS
<1> DEFINE S == {k \in Nat : \E f : AfterUpTo(f, m, opcodes, k)}
<1>1. 0 \in S
  <2>1. AfterUpTo([i \in 0..0 |-> m], m, opcodes, 0)
    BY DEF AfterUpTo
  <2> QED
    BY <2>1
<1>2. ASSUME NEW k \in 0..(n - 1), k \in S PROVE k + 1 \in S
  <2>1. PICK f : AfterUpTo(f, m, opcodes, k)
    BY <1>2
  <2> DEFINE new == IF f[k].ok THEN EvalOp(f[k], opcodes[k + 1]) ELSE f[k]
             g == [i \in 0..(k + 1) |-> IF i = k + 1 THEN new ELSE f[i]]
  <2>2. ASSUME NEW i \in 0..(k + 1)
        PROVE g[i] = IF i = 0 THEN m
                     ELSE LET before == g[i - 1]
                          IN  IF before.ok THEN EvalOp(before, opcodes[i]) ELSE before
    <3>1. CASE i = k + 1
      <4>1. i \in 0..(k + 1) /\ i # 0 /\ i - 1 = k /\ k \in 0..(k + 1) /\ k # k + 1
        BY <3>1
      <4>2. g[i] = new /\ g[i - 1] = f[k]
        BY <3>1, <4>1
      <4> QED
        BY <3>1, <4>1, <4>2
    <3>2. CASE i \in 0..k
      <4>1. f[i] = IF i = 0 THEN m
                   ELSE LET before == f[i - 1]
                        IN  IF before.ok THEN EvalOp(before, opcodes[i]) ELSE before
        BY <2>1, <3>2 DEF AfterUpTo
      <4>2. i # 0 => i - 1 \in 0..(k + 1) /\ i - 1 # k + 1
        BY <3>2
      <4>3. g[i] = f[i]
        BY <3>2
      <4>4. i # 0 => g[i - 1] = f[i - 1]
        BY <4>2
      <4> QED
        BY <4>1, <4>3, <4>4, Zenon
    <3> QED
      BY <3>1, <3>2
  <2>3. AfterUpTo(g, m, opcodes, k + 1)
    BY <2>2 DEF AfterUpTo
  <2>4. k + 1 \in Nat
    OBVIOUS
  <2> HIDE DEF g
  <2> QED
    BY <2>3, <2>4, Zenon
<1> HIDE DEF S
<1>3. n \in S
  <2>1. \A k \in 0..(n - 1) : k \in S => k + 1 \in S
    BY <1>2
  <2>2. \A k \in 0..n : k \in S
    BY <1>1, <2>1, CountUp, Zenon
  <2> QED
    BY <2>2
<1> QED
  BY <1>3 DEF S

(***************************************************************************)
(* A call emits at most four opcodes; the script lives on after it only if *)
(* it does after each of them.                                             *)
(***************************************************************************)
LEMMA AfterDef ==
    \A m : \A opcodes : \A n \in Nat : Len(opcodes) = n =>
        \E f : AfterUpTo(f, m, opcodes, n) /\ EvalAll(m, opcodes) = f[n]
<1> SUFFICES ASSUME NEW m, NEW opcodes, NEW n \in Nat, Len(opcodes) = n
             PROVE  \E f : AfterUpTo(f, m, opcodes, n) /\ EvalAll(m, opcodes) = f[n]
  OBVIOUS
<1>1. PICK f : f = CHOOSE g : AfterUpTo(g, m, opcodes, n)
  OBVIOUS
<1>2. AfterUpTo(f, m, opcodes, n)
  BY <1>1, AfterExists
<1>3. EvalAll(m, opcodes) = f[n]
  BY <1>1 DEF EvalAll, AfterUpTo
<1> QED
  BY <1>2, <1>3

(***************************************************************************)
(* A script of one opcode, of two, of three and of four.                   *)
(***************************************************************************)
LEMMA EvalOne ==
    \A m, a : m.ok => EvalAll(m, <<a>>) = EvalOp(m, a)
<1> SUFFICES ASSUME NEW m, NEW a, m.ok PROVE EvalAll(m, <<a>>) = EvalOp(m, a)
  OBVIOUS
<1>1. Len(<<a>>) = 1 /\ <<a>>[1] = a
  OBVIOUS
<1>2. PICK f : AfterUpTo(f, m, <<a>>, 1) /\ EvalAll(m, <<a>>) = f[1]
  <2>1. 1 \in Nat /\ Len(<<a>>) = 1
    OBVIOUS
  <2> QED
    BY <2>1, AfterDef, Zenon
<1>3. f[0] = m /\ f[1] = IF f[0].ok THEN EvalOp(f[0], <<a>>[1]) ELSE f[0]
  BY <1>2 DEF AfterUpTo
<1> QED
  BY <1>1, <1>2, <1>3

(***************************************************************************)
(* Two opcodes that succeed are evaluated one after the other.             *)
(***************************************************************************)
LEMMA EvalTwo ==
    \A m, a, b : m.ok /\ EvalAll(m, <<a, b>>).ok =>
        EvalOp(m, a).ok /\ EvalAll(m, <<a, b>>) = EvalOp(EvalOp(m, a), b)
<1> SUFFICES ASSUME NEW m, NEW a, NEW b, m.ok, EvalAll(m, <<a, b>>).ok
             PROVE  EvalOp(m, a).ok /\ EvalAll(m, <<a, b>>) = EvalOp(EvalOp(m, a), b)
  OBVIOUS
<1>1. Len(<<a, b>>) = 2 /\ <<a, b>>[1] = a /\ <<a, b>>[2] = b
  OBVIOUS
<1>2. PICK f : AfterUpTo(f, m, <<a, b>>, 2) /\ EvalAll(m, <<a, b>>) = f[2]
  <2>1. 2 \in Nat /\ Len(<<a, b>>) = 2
    OBVIOUS
  <2> QED
    BY <2>1, AfterDef, Zenon
<1>3. /\ f[0] = m
      /\ f[1] = IF f[0].ok THEN EvalOp(f[0], <<a, b>>[1]) ELSE f[0]
      /\ f[2] = IF f[1].ok THEN EvalOp(f[1], <<a, b>>[2]) ELSE f[1]
  BY <1>2 DEF AfterUpTo
<1> QED
  BY <1>1, <1>2, <1>3

(***************************************************************************)
(* So are three.                                                           *)
(***************************************************************************)
LEMMA EvalThree ==
    \A m, a, b, c : m.ok /\ EvalAll(m, <<a, b, c>>).ok =>
        /\ EvalOp(m, a).ok /\ EvalOp(EvalOp(m, a), b).ok
        /\ EvalAll(m, <<a, b, c>>) = EvalOp(EvalOp(EvalOp(m, a), b), c)
<1> SUFFICES ASSUME NEW m, NEW a, NEW b, NEW c, m.ok, EvalAll(m, <<a, b, c>>).ok
             PROVE  /\ EvalOp(m, a).ok /\ EvalOp(EvalOp(m, a), b).ok
                    /\ EvalAll(m, <<a, b, c>>) = EvalOp(EvalOp(EvalOp(m, a), b), c)
  OBVIOUS
<1>1. Len(<<a, b, c>>) = 3
  OBVIOUS
<1>2. PICK f : AfterUpTo(f, m, <<a, b, c>>, 3) /\ EvalAll(m, <<a, b, c>>) = f[3]
  <2>1. 3 \in Nat /\ Len(<<a, b, c>>) = 3
    OBVIOUS
  <2> QED
    BY <2>1, AfterDef, Zenon
<1>3. f[0] = m /\ \A i \in 1..3 : f[i] = IF f[i - 1].ok THEN EvalOp(f[i - 1], <<a, b, c>>[i]) ELSE f[i - 1]
  BY <1>2 DEF AfterUpTo
<1>4. f[1] = IF f[0].ok THEN EvalOp(f[0], a) ELSE f[0]
  BY <1>3
<1>5. f[2] = IF f[1].ok THEN EvalOp(f[1], b) ELSE f[1]
  BY <1>3
<1>6. f[3] = IF f[2].ok THEN EvalOp(f[2], c) ELSE f[2]
  BY <1>3
<1> QED
  BY <1>2, <1>3, <1>4, <1>5, <1>6

(***************************************************************************)
(* And four.                                                               *)
(***************************************************************************)
LEMMA EvalFour ==
    \A m, a, b, c, d : m.ok /\ EvalAll(m, <<a, b, c, d>>).ok =>
        /\ EvalOp(m, a).ok /\ EvalOp(EvalOp(m, a), b).ok /\ EvalOp(EvalOp(EvalOp(m, a), b), c).ok
        /\ EvalAll(m, <<a, b, c, d>>) = EvalOp(EvalOp(EvalOp(EvalOp(m, a), b), c), d)
<1> SUFFICES ASSUME NEW m, NEW a, NEW b, NEW c, NEW d, m.ok, EvalAll(m, <<a, b, c, d>>).ok
             PROVE  /\ EvalOp(m, a).ok /\ EvalOp(EvalOp(m, a), b).ok /\ EvalOp(EvalOp(EvalOp(m, a), b), c).ok
                    /\ EvalAll(m, <<a, b, c, d>>) = EvalOp(EvalOp(EvalOp(EvalOp(m, a), b), c), d)
  OBVIOUS
<1>1. Len(<<a, b, c, d>>) = 4
  OBVIOUS
<1>2. PICK f : AfterUpTo(f, m, <<a, b, c, d>>, 4) /\ EvalAll(m, <<a, b, c, d>>) = f[4]
  <2>1. 4 \in Nat /\ Len(<<a, b, c, d>>) = 4
    OBVIOUS
  <2> QED
    BY <2>1, AfterDef, Zenon
<1>3. f[0] = m /\ \A i \in 1..4 : f[i] = IF f[i - 1].ok THEN EvalOp(f[i - 1], <<a, b, c, d>>[i]) ELSE f[i - 1]
  BY <1>2 DEF AfterUpTo
<1>4. f[1] = IF f[0].ok THEN EvalOp(f[0], a) ELSE f[0]
  BY <1>3
<1>5. f[2] = IF f[1].ok THEN EvalOp(f[1], b) ELSE f[1]
  BY <1>3
<1>6. f[3] = IF f[2].ok THEN EvalOp(f[2], c) ELSE f[2]
  BY <1>3
<1>7. f[4] = IF f[3].ok THEN EvalOp(f[3], d) ELSE f[3]
  BY <1>3
<1> QED
  BY <1>2, <1>3, <1>4, <1>5, <1>6, <1>7

-----------------------------------------------------------------------------
(* What the operations do to a stack.                                      *)

\* The stack t is the stack s with k elements taken from its top and g put there.
Grown(s, t, k, g) ==
    k <= Len(s) /\ Len(t) = Len(s) - k + g /\ \A j \in 1..(Len(s) - k) : t[j] = s[j]

(***************************************************************************)
(* What appending an element does to a sequence, and taking from its top.  *)
(***************************************************************************)
LEMMA AppendIs ==
    \A V : \A s \in Seq(V) : \A x \in V :
        \E t \in Seq(V) : t = Append(s, x) /\ Grown(s, t, 0, 1) /\ t[Len(t)] = x
<1> SUFFICES ASSUME NEW V, NEW s \in Seq(V), NEW x \in V
             PROVE  /\ Append(s, x) \in Seq(V) /\ Grown(s, Append(s, x), 0, 1)
                    /\ Append(s, x)[Len(Append(s, x))] = x
  OBVIOUS
<1> QED
  BY DEF Grown

(***************************************************************************)
(* Taking n elements off a stack.                                          *)
(***************************************************************************)
LEMMA BelowIs ==
    \A V : \A s \in Seq(V) : \A n \in Nat : n <= Len(s) =>
        \E t \in Seq(V) : t = Below(s, n) /\ Grown(s, t, n, 0)
<1> SUFFICES ASSUME NEW V, NEW s \in Seq(V), NEW n \in Nat, n <= Len(s)
             PROVE  Below(s, n) \in Seq(V) /\ Grown(s, Below(s, n), n, 0)
  OBVIOUS
<1> QED
  BY DEF Below, Grown

(***************************************************************************)
(* Taking the last element off a stack.                                    *)
(***************************************************************************)
LEMMA FrontIs ==
    \A V : \A s \in Seq(V) : s # <<>> =>
        \E t \in Seq(V) : t = Front(s) /\ Grown(s, t, 1, 0)
<1> SUFFICES ASSUME NEW V, NEW s \in Seq(V), s # <<>>
             PROVE  \E t \in Seq(V) : t = Front(s) /\ Grown(s, t, 1, 0)
  OBVIOUS
<1>1. Len(s) \in Nat /\ Len(s) # 0
  OBVIOUS
<1>2. Front(s) = Below(s, 1)
  BY DEF Front, Below
<1>3. 1 \in Nat /\ 1 <= Len(s)
  BY <1>1
<1> QED
  BY <1>2, <1>3, BelowIs, Zenon

(***************************************************************************)
(* What joining a sequence to another does; the top of a sequence.         *)
(***************************************************************************)
LEMMA ConcatIs ==
    \A V : \A s \in Seq(V) : \A r \in Seq(V) :
        \E t \in Seq(V) : t = s \o r /\ Grown(s, t, 0, Len(r))
<1> SUFFICES ASSUME NEW V, NEW s \in Seq(V), NEW r \in Seq(V)
             PROVE  s \o r \in Seq(V) /\ Grown(s, s \o r, 0, Len(r))
  OBVIOUS
<1> QED
  BY DEF Grown

(***************************************************************************)
(* The top n elements of a stack.                                          *)
(***************************************************************************)
LEMMA TopIs ==
    \A V : \A s \in Seq(V) : \A n \in Nat : n <= Len(s) =>
        \E t \in Seq(V) : t = SubSeq(s, Len(s) - n + 1, Len(s)) /\ Len(t) = n
<1> SUFFICES ASSUME NEW V, NEW s \in Seq(V), NEW n \in Nat, n <= Len(s)
             PROVE  /\ SubSeq(s, Len(s) - n + 1, Len(s)) \in Seq(V)
                    /\ Len(SubSeq(s, Len(s) - n + 1, Len(s))) = n
  OBVIOUS
<1> QED
  OBVIOUS

(***************************************************************************)
(* The element n places below the top is one of the elements.              *)
(***************************************************************************)
LEMMA AtIs ==
    \A V : \A s \in Seq(V) : \A n \in Nat : n < Len(s) => \E x \in V : x = At(s, n)
BY DEF At

(***************************************************************************)
(* A sequence of one element.                                              *)
(***************************************************************************)
LEMMA OneIs == \A V : \A x \in V : <<x>> \in Seq(V) /\ Len(<<x>>) = 1
OBVIOUS

(***************************************************************************)
(* A sequence of two elements.                                             *)
(***************************************************************************)
LEMMA TwoIs == \A V : \A x, y \in V : <<x, y>> \in Seq(V) /\ Len(<<x, y>>) = 2
OBVIOUS

(***************************************************************************)
(* The empty sequence.                                                     *)
(***************************************************************************)
LEMMA NoneIs == \A V : <<>> \in Seq(V) /\ Len(<<>>) = 0
OBVIOUS

(***************************************************************************)
(* The length of a sequence.                                               *)
(***************************************************************************)
LEMMA LengthIs == \A V : \A s \in Seq(V) : Len(s) \in Nat
OBVIOUS

(***************************************************************************)
(* One change after another.                                               *)
(***************************************************************************)
LEMMA GrownTwice ==
    \A V : \A s, t, u \in Seq(V) : \A k, g, l, h \in Nat : Grown(s, t, k, g) /\ Grown(t, u, l, h) =>
        /\ l <= g => Grown(s, u, k, g - l + h)
        /\ l >= g => Grown(s, u, k + l - g, h)
<1> SUFFICES ASSUME NEW V, NEW s \in Seq(V), NEW t \in Seq(V), NEW u \in Seq(V),
                    NEW k \in Nat, NEW g \in Nat, NEW l \in Nat, NEW h \in Nat,
                    Grown(s, t, k, g), Grown(t, u, l, h)
             PROVE  /\ l <= g => Grown(s, u, k, g - l + h)
                    /\ l >= g => Grown(s, u, k + l - g, h)
  OBVIOUS
<1>1. Len(s) \in Nat /\ Len(t) \in Nat /\ Len(u) \in Nat
  OBVIOUS
<1>2. k <= Len(s) /\ Len(t) = Len(s) - k + g /\ l <= Len(t) /\ Len(u) = Len(t) - l + h
  BY DEF Grown
<1>3. /\ \A j \in 1..(Len(s) - k) : t[j] = s[j]
      /\ \A j \in 1..(Len(t) - l) : u[j] = t[j]
  BY DEF Grown
<1>4. ASSUME l <= g PROVE Grown(s, u, k, g - l + h)
  <2>1. Len(u) = Len(s) - k + (g - l + h)
    BY <1>1, <1>2
  <2>2. ASSUME NEW j \in 1..(Len(s) - k) PROVE u[j] = s[j]
    <3>1. j \in 1..(Len(t) - l)
      BY <1>1, <1>2, <1>4
    <3> QED
      BY <1>3, <3>1
  <2> QED
    BY <1>2, <2>1, <2>2 DEF Grown
<1>5. ASSUME l >= g PROVE Grown(s, u, k + l - g, h)
  <2>1. k + l - g <= Len(s) /\ Len(u) = Len(s) - (k + l - g) + h
    BY <1>1, <1>2
  <2>2. ASSUME NEW j \in 1..(Len(s) - (k + l - g)) PROVE u[j] = s[j]
    <3>1. j \in 1..(Len(t) - l) /\ j \in 1..(Len(s) - k)
      BY <1>1, <1>2, <1>5
    <3> QED
      BY <1>3, <3>1
  <2> QED
    BY <2>1, <2>2 DEF Grown
<1> QED
  BY <1>4, <1>5

(***************************************************************************)
(* The stacks of a machine are sequences of elements.                      *)
(***************************************************************************)
LEMMA StackIs == \A m \in Machines : \E s \in Seq(Element) : s = m.stack
BY DEF Machines

(***************************************************************************)
(* A machine with another stack, and one that has failed.                  *)
(***************************************************************************)
LEMMA RestackedIs ==
    \A m \in Machines : \A t \in Seq(Element) :
        /\ WithStack(m, t) \in Machines /\ WithStack(m, t).stack = t
        /\ WithStack(m, t).exec = m.exec /\ WithStack(m, t).ok = m.ok
BY DEF WithStack, Machines

(***************************************************************************)
(* A script that fails leaves its stack and its blocks as they are.        *)
(***************************************************************************)
LEMMA FailIs ==
    \A m \in Machines : Fail(m) \in Machines /\ Fail(m).exec = m.exec /\ ~Fail(m).ok
BY DEF Fail, Machines

\* The machine n is m after such a change, if the script is still alive.
Grows(m, n, k, g) ==
    n \in Machines /\ n.exec = m.exec /\ (n.ok => Grown(m.stack, n.stack, k, g))

(***************************************************************************)
(* A failure grows the stack by anything, for the script is over; another  *)
(* stack does by what it differs in.                                       *)
(***************************************************************************)
LEMMA FailGrows == \A m \in Machines : \A k, g \in Nat : Grows(m, Fail(m), k, g)
BY FailIs DEF Grows

(***************************************************************************)
(* A machine that is given another stack grows by what the stacks differ   *)
(* in.                                                                     *)
(***************************************************************************)
LEMMA Restacks ==
    \A m \in Machines : \A s, t \in Seq(Element) : \A k, g \in Nat :
        s = m.stack /\ Grown(s, t, k, g) => Grows(m, WithStack(m, t), k, g)
<1> SUFFICES ASSUME NEW m \in Machines, NEW s \in Seq(Element), NEW t \in Seq(Element),
                    NEW k \in Nat, NEW g \in Nat, s = m.stack, Grown(s, t, k, g)
             PROVE  Grows(m, WithStack(m, t), k, g)
  OBVIOUS
<1>1. /\ WithStack(m, t) \in Machines /\ WithStack(m, t).stack = t
      /\ WithStack(m, t).exec = m.exec
  BY RestackedIs, Zenon
<1> QED
  BY <1>1, Zenon DEF Grows

(***************************************************************************)
(* Replacing the top n elements takes them and puts the new ones there.    *)
(***************************************************************************)
LEMMA Replaced ==
    \A m \in Machines : \A n \in Nat : \A new \in Seq(Element) :
        Grows(m, Replace(m, n, new), n, Len(new))
<1> SUFFICES ASSUME NEW m \in Machines, NEW n \in Nat, NEW new \in Seq(Element)
             PROVE  Grows(m, Replace(m, n, new), n, Len(new))
  OBVIOUS
<1>0. PICK s \in Seq(Element) : s = m.stack
  BY StackIs, Zenon
<1>a. Len(new) \in Nat /\ Len(s) \in Nat
  OBVIOUS
<1>1. CASE Len(s) < n
  <2>1. Replace(m, n, new) = Fail(m)
    BY <1>0, <1>1 DEF Replace
  <2> QED
    BY <1>a, <2>1, FailGrows, Zenon
<1>2. CASE n <= Len(s)
  <2>1. PICK r \in Seq(Element) : r = Below(s, n) /\ Grown(s, r, n, 0)
    BY <1>2, BelowIs, Zenon
  <2>2. PICK t \in Seq(Element) : t = r \o new /\ Grown(r, t, 0, Len(new))
    BY ConcatIs, Zenon
  <2>3. Replace(m, n, new) = WithStack(m, t)
    BY <1>0, <1>2, <2>1, <2>2 DEF Replace
  <2>4. Grown(s, t, n, Len(new))
    BY <1>a, <2>1, <2>2 DEF Grown
  <2> QED
    BY <1>0, <1>a, <2>3, <2>4, Restacks, Zenon
<1> QED
  BY <1>a, <1>1, <1>2

(***************************************************************************)
(* The results of the operations are elements.                             *)
(***************************************************************************)
LEMMA BoolElement == \A b \in BOOLEAN : <<Bool(b)>> \in Seq(Element) /\ Len(<<Bool(b)>>) = 1
BY DEF Bool, Num, Element

(***************************************************************************)
(* An operation on two numbers leaves an element.                          *)
(***************************************************************************)
LEMMA BinaryElement == \A op \in BinaryOps : \A x, y \in Int : Binary(op, x, y) \in Element
<1> SUFFICES ASSUME NEW op \in BinaryOps, NEW x \in Int, NEW y \in Int PROVE Binary(op, x, y) \in Element
  OBVIOUS
<1>2. \A n \in Int : Num(n) \in Element
  BY DEF Num, Element
<1>3. CASE op = "ADD"
  BY <1>2, <1>3 DEF Binary
<1>4. CASE op = "SUB"
  BY <1>2, <1>4 DEF Binary
<1>5. CASE op \notin {"ADD", "SUB"}
  <2>1. Binary(op, x, y) \in {Num(0), Num(1)}
    BY <1>5 DEF Binary, BinaryOps, Bool
  <2> QED
    BY <1>2, <2>1
<1> QED
  BY <1>3, <1>4, <1>5

(***************************************************************************)
(* An arithmetic operation takes two elements and gives one.               *)
(***************************************************************************)
LEMMA ArithmeticGrows ==
    \A m \in Machines : \A op \in BinaryOps : Grows(m, Arithmetic(m, op), 2, 1)
<1> SUFFICES ASSUME NEW m \in Machines, NEW op \in BinaryOps
             PROVE  Grows(m, Arithmetic(m, op), 2, 1)
  OBVIOUS
<1>0. PICK s \in Seq(Element) : s = m.stack
  BY StackIs, Zenon
<1>a. 0 \in Nat /\ 1 \in Nat /\ 2 \in Nat
  OBVIOUS
<1>1. CASE Len(s) < 2 \/ ~IsNum(At(s, 0)) \/ ~IsNum(At(s, 1))
  <2>1. Arithmetic(m, op) = Fail(m)
    BY <1>0, <1>1 DEF Arithmetic
  <2> QED
    BY <1>a, <2>1, FailGrows, Zenon
<1>2. CASE ~(Len(s) < 2 \/ ~IsNum(At(s, 0)) \/ ~IsNum(At(s, 1)))
  <2>1. 0 < Len(s) /\ 1 < Len(s)
    BY <1>2
  <2>2. PICK p \in Element : p = At(s, 1)
    BY <1>a, <2>1, AtIs, Zenon
  <2>3. PICK q \in Element : q = At(s, 0)
    BY <1>a, <2>1, AtIs, Zenon
  <2>4. Binary(op, p[2], q[2]) \in Element
    BY BinaryElement DEF Element
  <2>5. PICK new \in Seq(Element) : new = <<Binary(op, p[2], q[2])>> /\ Len(new) = 1
    BY <2>4, OneIs, Zenon
  <2>6. Arithmetic(m, op) = Replace(m, 2, new)
    BY <1>0, <1>2, <2>2, <2>3, <2>5, Zenon DEF Arithmetic
  <2> QED
    BY <1>a, <2>5, <2>6, Replaced, Zenon
<1> QED
  BY <1>1, <1>2

(***************************************************************************)
(* OP_PICK takes the index and gives an element.                           *)
(***************************************************************************)
LEMMA PickGrows == \A m \in Machines : Grows(m, PickOrRoll(m, FALSE), 1, 1)
<1> SUFFICES ASSUME NEW m \in Machines PROVE Grows(m, PickOrRoll(m, FALSE), 1, 1)
  OBVIOUS
<1>0. PICK s \in Seq(Element) : s = m.stack
  BY StackIs, Zenon
<1>a. 0 \in Nat /\ 1 \in Nat /\ Len(s) \in Nat
  OBVIOUS
<1>1. CASE PickOrRoll(m, FALSE) = Fail(m)
  BY <1>a, <1>1, FailGrows, Zenon
<1>2. CASE PickOrRoll(m, FALSE) # Fail(m)
  <2>1. 0 < Len(s) /\ 1 <= Len(s)
    BY <1>0, <1>2, <1>a DEF PickOrRoll
  <2>2. PICK r \in Seq(Element) : r = Below(s, 1) /\ Grown(s, r, 1, 0)
    BY <1>a, <2>1, BelowIs, Zenon
  <2>3. PICK q \in Element : q = At(s, 0)
    BY <1>a, <2>1, AtIs, Zenon
  <2>4. q[2] \in Int /\ Len(r) \in Nat
    BY DEF Element
  <2>5. ~(q[2] < 0 \/ q[2] >= Len(r)) /\ PickOrRoll(m, FALSE) = WithStack(m, Append(r, At(r, q[2])))
    BY <1>0, <1>2, <2>2, <2>3, Zenon DEF PickOrRoll
  <2>6. q[2] \in Nat /\ q[2] < Len(r)
    BY <2>4, <2>5
  <2>7. PICK x \in Element : x = At(r, q[2])
    BY <2>6, AtIs, Zenon
  <2>8. PICK t \in Seq(Element) : t = Append(r, x) /\ Grown(r, t, 0, 1)
    BY AppendIs, Zenon
  <2>9. Grown(s, t, 1, 1)
    BY <1>a, <2>2, <2>8 DEF Grown
  <2> QED
    BY <1>0, <1>a, <2>5, <2>7, <2>8, <2>9, Restacks, Zenon
<1> QED
  BY <1>1, <1>2

(***************************************************************************)
(* A duplication gives the elements it copies.                             *)
(***************************************************************************)
LEMMA DuplicateGrows == \A m \in Machines : \A n \in Nat : Grows(m, Duplicate(m, n), 0, n)
<1> SUFFICES ASSUME NEW m \in Machines, NEW n \in Nat PROVE Grows(m, Duplicate(m, n), 0, n)
  OBVIOUS
<1>0. PICK s \in Seq(Element) : s = m.stack
  BY StackIs, Zenon
<1>a. 0 \in Nat /\ Len(s) \in Nat
  OBVIOUS
<1>1. CASE Len(s) < n
  <2>1. Duplicate(m, n) = Fail(m)
    BY <1>0, <1>1 DEF Duplicate
  <2> QED
    BY <1>a, <2>1, FailGrows, Zenon
<1>2. CASE n <= Len(s)
  <2>1. PICK r \in Seq(Element) : r = SubSeq(s, Len(s) - n + 1, Len(s)) /\ Len(r) = n
    BY <1>2, TopIs, Zenon
  <2>2. PICK t \in Seq(Element) : t = s \o r /\ Grown(s, t, 0, Len(r))
    BY ConcatIs, Zenon
  <2>3. ~(Len(s) < n)
    BY <1>a, <1>2
  <2>4. Duplicate(m, n) = WithStack(m, t)
    BY <1>0, <2>1, <2>2, <2>3, Zenon DEF Duplicate
  <2> QED
    BY <1>0, <1>a, <2>1, <2>2, <2>4, Restacks, Zenon
<1> QED
  BY <1>a, <1>1, <1>2

(***************************************************************************)
(* A verification takes what it tests.                                     *)
(***************************************************************************)
LEMMA VerifyGrows == \A m \in Machines : \A n \in Nat : \A test : Grows(m, Verify(m, n, test), n, 0)
<1> SUFFICES ASSUME NEW m \in Machines, NEW n \in Nat, NEW test PROVE Grows(m, Verify(m, n, test), n, 0)
  OBVIOUS
<1>0. PICK s \in Seq(Element) : s = m.stack
  BY StackIs, Zenon
<1>a. 0 \in Nat /\ Len(s) \in Nat
  OBVIOUS
<1>1. CASE ~(Len(s) >= n /\ test)
  <2>1. Verify(m, n, test) = Fail(m)
    BY <1>0, <1>1 DEF Verify
  <2> QED
    BY <1>a, <2>1, FailGrows, Zenon
<1>2. CASE Len(s) >= n /\ test
  <2>1. n <= Len(s)
    BY <1>a, <1>2
  <2>2. PICK r \in Seq(Element) : r = Below(s, n) /\ Grown(s, r, n, 0)
    BY <2>1, BelowIs, Zenon
  <2>3. Verify(m, n, test) = WithStack(m, r)
    BY <1>0, <1>2, <2>2 DEF Verify
  <2> QED
    BY <1>0, <1>a, <2>2, <2>3, Restacks, Zenon
<1> QED
  BY <1>1, <1>2

(***************************************************************************)
(* A native operation takes from the stack and puts on it what the         *)
(* generator thinks it does, or ends the script.                           *)
(***************************************************************************)
LEMMA OperationGrows ==
    \A m \in Machines : \A op \in StraightOps : \A v :
        Grows(m, Operation(m, op, v), Taken(op), Given(op))
<1> SUFFICES ASSUME NEW m \in Machines, NEW op \in StraightOps, NEW v
             PROVE  Grows(m, Operation(m, op, v), Taken(op), Given(op))
  OBVIOUS
<1>0. PICK s \in Seq(Element) : s = m.stack
  BY StackIs, Zenon
<1>a. 0 \in Nat /\ 1 \in Nat /\ 2 \in Nat /\ 3 \in Nat /\ Len(s) \in Nat
  OBVIOUS
<1>b. \A k, g \in Nat : Grows(m, Fail(m), k, g)
  BY FailGrows, Zenon
<1>2. CASE op \in BinaryOps
  <2>1. Operation(m, op, v) = Arithmetic(m, op) /\ Taken(op) = 2 /\ Given(op) = 1
    BY <1>2 DEF Operation, BinaryOps, Taken, Given
  <2> QED
    BY <1>2, <2>1, ArithmeticGrows, Zenon
<1>3. CASE op = "NOT"
  <2>1. Taken(op) = 1 /\ Given(op) = 1
    BY <1>3 DEF Taken, Given, BinaryOps
  <2>2. PICK b \in BOOLEAN : b = ~Truth(Last(s))
    BY DEF Truth
  <2>3. Operation(m, op, v) = Fail(m) \/ Operation(m, op, v) = Replace(m, 1, <<Bool(b)>>)
    BY <1>0, <1>3, <2>2 DEF Operation, BinaryOps
  <2>4. PICK new \in Seq(Element) : new = <<Bool(b)>> /\ Len(new) = 1
    BY BoolElement, Zenon
  <2> QED
    BY <1>a, <1>b, <2>1, <2>3, <2>4, Replaced, Zenon
<1>4. CASE op = "PICK"
  <2>1. Taken(op) = 1 /\ Given(op) = 1 /\ Operation(m, op, v) = PickOrRoll(m, FALSE)
    BY <1>4 DEF Taken, Given, BinaryOps, Operation
  <2> QED
    BY <2>1, PickGrows, Zenon
<1>5. CASE op = "DROP"
  <2>1. Taken(op) = 1 /\ Given(op) = 0 /\ Operation(m, op, v) = Replace(m, 1, <<>>)
    BY <1>5 DEF Taken, Given, BinaryOps, Operation
  <2> QED
    BY <1>a, <2>1, NoneIs, Replaced, Zenon
<1>6. CASE op = "EQUAL"
  <2>1. PICK b \in BOOLEAN : b = (At(s, 0) = At(s, 1))
    OBVIOUS
  <2>2. Taken(op) = 2 /\ Given(op) = 1 /\ Operation(m, op, v) = Replace(m, 2, <<Bool(b)>>)
    BY <1>0, <1>6, <2>1 DEF Taken, Given, BinaryOps, Operation
  <2>3. PICK new \in Seq(Element) : new = <<Bool(b)>> /\ Len(new) = 1
    BY BoolElement, Zenon
  <2> QED
    BY <1>a, <2>2, <2>3, Replaced, Zenon
<1>7. CASE op = "HASH160"
  <2>1. Taken(op) = 1 /\ Given(op) = 1 /\ Operation(m, op, v) = Replace(m, 1, <<Hash160(At(s, 0))>>)
    BY <1>0, <1>7 DEF Taken, Given, BinaryOps, Operation
  <2>2. CASE Len(s) < 1
    <3>1. Operation(m, op, v) = Fail(m)
      BY <1>0, <2>1, <2>2 DEF Replace
    <3> QED
      BY <1>a, <1>b, <2>1, <3>1, Zenon
  <2>3. CASE 0 < Len(s)
    <3>1. PICK x \in Element : x = At(s, 0)
      BY <1>a, <2>3, AtIs, Zenon
    <3>2. Hash160(x) \in Element
      BY DEF Hash160, Element
    <3>3. PICK new \in Seq(Element) : new = <<Hash160(x)>> /\ Len(new) = 1
      BY <3>2, OneIs, Zenon
    <3> QED
      BY <1>a, <2>1, <3>1, <3>3, Replaced, Zenon
  <2> QED
    BY <1>a, <2>2, <2>3
<1>8. CASE op \in {"DUP", "2DUP", "3DUP"}
  <2>1. PICK n \in {1, 2, 3} : Taken(op) = 0 /\ Given(op) = n /\ Operation(m, op, v) = Duplicate(m, n)
    BY <1>8 DEF Taken, Given, BinaryOps, Operation
  <2>2. n \in Nat
    OBVIOUS
  <2> QED
    BY <2>1, <2>2, DuplicateGrows, Zenon
<1>9. CASE op = "TOALTSTACK"
  <2>1. Taken(op) = 1 /\ Given(op) = 0
    BY <1>9 DEF Taken, Given, BinaryOps
  <2>2. CASE s = <<>>
    <3>1. Operation(m, op, v) = Fail(m)
      BY <1>0, <1>9, <2>2 DEF Operation, BinaryOps
    <3> QED
      BY <1>a, <1>b, <2>1, <3>1, Zenon
  <2>3. CASE s # <<>>
    <3>1. PICK t \in Seq(Element) : t = Front(s) /\ Grown(s, t, 1, 0)
      BY <2>3, FrontIs, Zenon
    <3>2. PICK x \in Element : x = Last(s)
      BY <2>3 DEF Last
    <3>0. PICK r \in Seq(Element) : r = m.alt
      BY DEF Machines
    <3>3. PICK a \in Seq(Element) : a = Append(m.alt, x) /\ Grown(r, a, 0, 1)
      BY <3>0, AppendIs, Zenon
    <3>4. Operation(m, op, v) = [m EXCEPT !.stack = t, !.alt = a]
      BY <1>0, <1>9, <2>3, <3>1, <3>2, <3>3 DEF Operation, BinaryOps
    <3>5. PICK n \in Machines : n = Operation(m, op, v) /\ n.stack = t /\ n.exec = m.exec
      BY <3>4 DEF Machines
    <3> QED
      BY <1>0, <2>1, <3>1, <3>5, Zenon DEF Grows
  <2> QED
    BY <2>2, <2>3
<1>10. CASE op = "FROMALTSTACK"
  <2>1. Taken(op) = 0 /\ Given(op) = 1
    BY <1>10 DEF Taken, Given, BinaryOps
  <2>2. CASE m.alt = <<>>
    <3>1. Operation(m, op, v) = Fail(m)
      BY <1>10, <2>2 DEF Operation, BinaryOps
    <3> QED
      BY <1>a, <1>b, <2>1, <3>1, Zenon
  <2>3. CASE m.alt # <<>>
    <3>0. PICK r \in Seq(Element) : r = m.alt
      BY DEF Machines
    <3>1. PICK x \in Element : x = Last(r)
      BY <2>3, <3>0 DEF Last
    <3>2. PICK t \in Seq(Element) : t = Append(s, x) /\ Grown(s, t, 0, 1)
      BY AppendIs, Zenon
    <3>3. PICK a \in Seq(Element) : a = Front(r)
      BY <2>3, <3>0, FrontIs, Zenon
    <3>4. Operation(m, op, v) = [m EXCEPT !.stack = t, !.alt = a]
      BY <1>0, <1>10, <2>3, <3>0, <3>1, <3>2, <3>3 DEF Operation, BinaryOps
    <3>5. PICK n \in Machines : n = Operation(m, op, v) /\ n.stack = t /\ n.exec = m.exec
      BY <3>4 DEF Machines
    <3> QED
      BY <1>0, <2>1, <3>2, <3>5, Zenon DEF Grows
  <2> QED
    BY <2>2, <2>3
<1>11. CASE op \in {"VERIFY", "NUMEQUALVERIFY", "CHECKSIGVERIFY"}
  <2>1. PICK n \in {1, 2} : Taken(op) = n /\ Given(op) = 0 /\ \E test : Operation(m, op, v) = Verify(m, n, test)
    BY <1>11 DEF Taken, Given, BinaryOps, Operation, CheckSigVerify
  <2>2. n \in Nat
    OBVIOUS
  <2> QED
    BY <2>1, <2>2, VerifyGrows, Zenon
<1>12. CASE op = "CHECKSEQUENCEVERIFY"
  <2>1. Taken(op) = 0 /\ Given(op) = 0 /\ Operation(m, op, v) = m
    BY <1>12 DEF Taken, Given, BinaryOps, Operation
  <2>2. Grown(s, s, 0, 0)
    BY <1>a DEF Grown
  <2> QED
    BY <1>0, <2>1, <2>2, Zenon DEF Grows
<1> QED
  BY <1>2, <1>3, <1>4, <1>5, <1>6, <1>7, <1>8, <1>9, <1>10, <1>11, <1>12 DEF StraightOps

-----------------------------------------------------------------------------
(* What a call of the generator does.                                      *)

Blocks == {"IF", "ELSE", "ENDIF"}

(***************************************************************************)
(* An opcode after which the script is alive has done its operation.       *)
(***************************************************************************)
LEMMA EvalOpIs ==
    \A m \in Machines : \A op, v :
        Executing(m) /\ op \notin Blocks /\ Operation(m, op, v) \in Machines /\ EvalOp(m, <<op, v>>).ok
        => EvalOp(m, <<op, v>>) = Operation(m, op, v)
<1> SUFFICES ASSUME NEW m \in Machines, NEW op, NEW v, Executing(m), op \notin Blocks,
                    Operation(m, op, v) \in Machines, EvalOp(m, <<op, v>>).ok
             PROVE  EvalOp(m, <<op, v>>) = Operation(m, op, v)
  OBVIOUS
<1>1. PICK n \in Machines : n = Operation(m, op, v)
  OBVIOUS
<1>2. EvalOp(m, <<op, v>>) \in {n, Fail(n)}
  BY <1>1 DEF EvalOp, Blocks
<1>3. ~Fail(n).ok
  BY FailIs, Zenon
<1> QED
  BY <1>1, <1>2, <1>3

\* n is a machine that lives on after such a change of m.
Alive(m, n, k, g) ==
    n \in Machines /\ n.exec = m.exec /\ Executing(n) /\ n.ok /\ Grown(m.stack, n.stack, k, g)

(***************************************************************************)
(* An opcode after which the script lives on has changed the stack as its  *)
(* operation does.                                                         *)
(***************************************************************************)
LEMMA EvalGrows ==
    \A m \in Machines : \A op, v : \A k, g \in Nat :
        Executing(m) /\ op \notin Blocks /\ Grows(m, Operation(m, op, v), k, g) /\ EvalOp(m, <<op, v>>).ok
        => Alive(m, EvalOp(m, <<op, v>>), k, g)
<1> SUFFICES ASSUME NEW m \in Machines, NEW op, NEW v, NEW k \in Nat, NEW g \in Nat, Executing(m),
                    op \notin Blocks, Grows(m, Operation(m, op, v), k, g), EvalOp(m, <<op, v>>).ok
             PROVE  Alive(m, EvalOp(m, <<op, v>>), k, g)
  OBVIOUS
<1>1. Operation(m, op, v) \in Machines
  BY DEF Grows
<1>2. EvalOp(m, <<op, v>>) = Operation(m, op, v)
  BY <1>1, EvalOpIs, Zenon
<1> QED
  BY <1>2, Zenon DEF Grows, Alive, Executing

(***************************************************************************)
(* An opcode that is no block operation and only changes the stack is      *)
(* evaluated to the machine with that stack.                               *)
(***************************************************************************)
LEMMA EvalStack ==
    \A m \in Machines : \A op, v : \A t \in Seq(Element) :
        Executing(m) /\ op \notin Blocks /\ Operation(m, op, v) = WithStack(m, t) /\ EvalOp(m, <<op, v>>).ok
        => EvalOp(m, <<op, v>>) = WithStack(m, t)
<1> SUFFICES ASSUME NEW m \in Machines, NEW op, NEW v, NEW t \in Seq(Element), Executing(m), op \notin Blocks,
                    Operation(m, op, v) = WithStack(m, t), EvalOp(m, <<op, v>>).ok
             PROVE  EvalOp(m, <<op, v>>) = Operation(m, op, v)
  BY Zenon
<1>1. WithStack(m, t) \in Machines
  BY RestackedIs, Zenon
<1> QED
  BY <1>1, EvalOpIs, Zenon

(***************************************************************************)
(* Of two stacks given to a machine only the last counts; no block is      *)
(* opened by it.                                                           *)
(***************************************************************************)
LEMMA RestackedTwice ==
    \A m \in Machines : \A s, t \in Seq(Element) :
        /\ WithStack(WithStack(m, s), t) = WithStack(m, t)
        /\ Executing(m) => Executing(WithStack(m, s))
BY DEF WithStack, Machines, Executing

(***************************************************************************)
(* Opcodes that push a number.                                             *)
(***************************************************************************)
LEMMA Push ==
    \A m \in Machines : \A s \in Seq(Element) : \A v \in Element :
        s = m.stack /\ Executing(m) /\ EvalOp(m, <<"DATA", v>>).ok
        => EvalOp(m, <<"DATA", v>>) = WithStack(m, Append(s, v))
<1> SUFFICES ASSUME NEW m \in Machines, NEW s \in Seq(Element), NEW v \in Element, s = m.stack,
                    Executing(m), EvalOp(m, <<"DATA", v>>).ok
             PROVE  EvalOp(m, <<"DATA", v>>) = WithStack(m, Append(s, v))
  OBVIOUS
<1>1. PICK t \in Seq(Element) : t = Append(s, v) /\ Grown(s, t, 0, 1)
  BY AppendIs, Zenon
<1>2. Operation(m, "DATA", v) = WithStack(m, t)
  BY <1>1 DEF Operation, BinaryOps
<1>3. "DATA" \notin Blocks
  BY DEF Blocks
<1> QED
  BY <1>1, <1>2, <1>3, EvalStack, Zenon

(***************************************************************************)
(* A sequence without one of its elements, counted from the bottom and     *)
(* from the top.                                                           *)
(***************************************************************************)
LEMMA RemoveAny ==
    \A V : \A s \in Seq(V) : \A i \in 1..Len(s) :
        /\ RemoveAt(s, i) \in Seq(V) /\ Len(RemoveAt(s, i)) = Len(s) - 1
        /\ \A j \in 1..(Len(s) - 1) : RemoveAt(s, i)[j] = IF j < i THEN s[j] ELSE s[j + 1]
<1> SUFFICES ASSUME NEW V, NEW s \in Seq(V), NEW i \in 1..Len(s)
             PROVE  /\ RemoveAt(s, i) \in Seq(V) /\ Len(RemoveAt(s, i)) = Len(s) - 1
                    /\ \A j \in 1..(Len(s) - 1) :
                          RemoveAt(s, i)[j] = IF j < i THEN s[j] ELSE s[j + 1]
  OBVIOUS
<1>1. PICK a : a = SubSeq(s, 1, i - 1)
  OBVIOUS
<1>2. PICK b : b = SubSeq(s, i + 1, Len(s))
  OBVIOUS
<1>3. a \in Seq(V) /\ Len(a) = i - 1 /\ \A j \in 1..(i - 1) : a[j] = s[j]
  BY <1>1
<1>4. b \in Seq(V) /\ Len(b) = Len(s) - i /\ \A j \in 1..(Len(s) - i) : b[j] = s[i + j]
  BY <1>2
<1>5. RemoveAt(s, i) = a \o b
  BY <1>1, <1>2 DEF RemoveAt
<1>6. a \o b \in Seq(V) /\ Len(a \o b) = Len(s) - 1
  BY <1>3, <1>4
<1>7. ASSUME NEW j \in 1..(Len(s) - 1)
      PROVE  (a \o b)[j] = IF j < i THEN s[j] ELSE s[j + 1]
  BY <1>3, <1>4
<1> QED
  BY <1>5, <1>6, <1>7

(***************************************************************************)
(* Taking out the element d below the top: what is above it moves down by  *)
(* one.                                                                    *)
(***************************************************************************)
LEMMA RemoveIs ==
    \A V : \A s \in Seq(V) : \A d \in Nat : d < Len(s) =>
        \E t \in Seq(V) :
            /\ t = RemoveAt(s, Len(s) - d) /\ Len(t) = Len(s) - 1
            /\ \A j \in 1..(Len(s) - 1) : t[j] = IF j < Len(s) - d THEN s[j] ELSE s[j + 1]
<1> SUFFICES ASSUME NEW V, NEW s \in Seq(V), NEW d \in Nat, d < Len(s)
             PROVE  \E t \in Seq(V) :
                        /\ t = RemoveAt(s, Len(s) - d) /\ Len(t) = Len(s) - 1
                        /\ \A j \in 1..(Len(s) - 1) : t[j] = IF j < Len(s) - d THEN s[j] ELSE s[j + 1]
  OBVIOUS
<1>1. PICK i \in 1..Len(s) : i = Len(s) - d
  OBVIOUS
<1>2. /\ RemoveAt(s, i) \in Seq(V) /\ Len(RemoveAt(s, i)) = Len(s) - 1
      /\ \A j \in 1..(Len(s) - 1) : RemoveAt(s, i)[j] = IF j < i THEN s[j] ELSE s[j + 1]
  BY RemoveAny, Zenon
<1> QED
  BY <1>1, <1>2

(***************************************************************************)
(* OP_DROP and OP_NIP remove the top element and the next one.             *)
(***************************************************************************)
LEMMA RemoveTop ==
    \A V : \A s \in Seq(V) : 0 < Len(s) => RemoveAt(s, Len(s) - 0) = Below(s, 1) \o <<>>
<1> SUFFICES ASSUME NEW V, NEW s \in Seq(V), 0 < Len(s)
             PROVE  RemoveAt(s, Len(s) - 0) = Below(s, 1) \o <<>>
  OBVIOUS
<1>1. SubSeq(s, Len(s) + 1, Len(s)) = <<>>
  OBVIOUS
<1>2. Len(s) - 0 = Len(s)
  OBVIOUS
<1> QED
  BY <1>1, <1>2 DEF RemoveAt, Below

(***************************************************************************)
(* Taking out the element next to the top.                                 *)
(***************************************************************************)
LEMMA RemoveNext ==
    \A V : \A s \in Seq(V) : 1 < Len(s) => RemoveAt(s, Len(s) - 1) = Below(s, 2) \o <<At(s, 0)>>
<1> SUFFICES ASSUME NEW V, NEW s \in Seq(V), 1 < Len(s)
             PROVE  RemoveAt(s, Len(s) - 1) = Below(s, 2) \o <<At(s, 0)>>
  OBVIOUS
<1>1. SubSeq(s, Len(s), Len(s)) = <<s[Len(s)]>>
  <2>1. PICK x \in V : x = s[Len(s)]
    OBVIOUS
  <2>2. PICK t \in Seq(V) : t = SubSeq(s, Len(s), Len(s)) /\ Len(t) = 1 /\ t[1] = x
    <3>1. SubSeq(s, Len(s), Len(s)) \in Seq(V) /\ Len(SubSeq(s, Len(s), Len(s))) = 1
      OBVIOUS
    <3>2. SubSeq(s, Len(s), Len(s))[1] = x
      BY <2>1
    <3> QED
      BY <3>1, <3>2
  <2>3. <<x>> \in Seq(V) /\ Len(<<x>>) = 1 /\ <<x>>[1] = x
    OBVIOUS
  <2>4. \A i \in 1..Len(t) : t[i] = <<x>>[i]
    BY <2>2, <2>3
  <2>5. t = <<x>>
    <3>1. <<x>> \in Seq(V) /\ Len(t) = Len(<<x>>)
      BY <2>2, <2>3
    <3> QED
      BY <2>4, <3>1, SeqEqual, Zenon
  <2> QED
    BY <2>1, <2>2, <2>5
<1>2. (Len(s) - 1) - 1 = Len(s) - 2 /\ (Len(s) - 1) + 1 = Len(s) /\ Len(s) - 0 = Len(s)
  OBVIOUS
<1>3. RemoveAt(s, Len(s) - 1) = SubSeq(s, 1, (Len(s) - 1) - 1) \o SubSeq(s, (Len(s) - 1) + 1, Len(s))
  BY DEF RemoveAt
<1> QED
  BY <1>1, <1>2, <1>3, Zenon DEF Below, At

(***************************************************************************)
(* What was below an element that was put on the top.                      *)
(***************************************************************************)
LEMMA BelowAppended ==
    \A V : \A s \in Seq(V) : \A x \in V : Below(Append(s, x), 1) \o <<>> = s /\ Below(Append(s, x), 1) = s
<1> SUFFICES ASSUME NEW V, NEW s \in Seq(V), NEW x \in V
             PROVE  Below(Append(s, x), 1) \o <<>> = s /\ Below(Append(s, x), 1) = s
  OBVIOUS
<1>1. Below(Append(s, x), 1) = s
  BY DEF Below
<1>2. s \o <<>> = s
  OBVIOUS
<1> QED
  BY <1>1, <1>2

(***************************************************************************)
(* The opcodes that take or copy an element d places below the top.        *)
(***************************************************************************)
LEMMA NumElement == \A n \in Int : Num(n) \in Element /\ IsNum(Num(n)) /\ Num(n)[2] = n
BY DEF Num, IsNum, Element

(***************************************************************************)
(* drop(si) removes the element that lies where the item does.             *)
(***************************************************************************)
LEMMA DropEvaluated ==
    \A m \in Machines : \A s \in Seq(Element) : \A d \in Nat :
        s = m.stack /\ d < Len(s) /\ m.ok /\ Executing(m) /\ EvalAll(m, DropOps(d)).ok
        => EvalAll(m, DropOps(d)) = WithStack(m, RemoveAt(s, Len(s) - d))
<1> SUFFICES ASSUME NEW m \in Machines, NEW s \in Seq(Element), NEW d \in Nat, s = m.stack, d < Len(s),
                    m.ok, Executing(m), EvalAll(m, DropOps(d)).ok
             PROVE  EvalAll(m, DropOps(d)) = WithStack(m, RemoveAt(s, Len(s) - d))
  OBVIOUS
<1>a. 0 \in Nat /\ 1 \in Nat /\ 2 \in Nat
  OBVIOUS
<1>b. PICK r \in Seq(Element) : r = RemoveAt(s, Len(s) - d)
  BY RemoveIs
<1>c. "DROP" \notin Blocks /\ "NIP" \notin Blocks /\ "ROLL" \notin Blocks
  BY DEF Blocks
<1>1. CASE d = 0
  <2>1. DropOps(d) = <<<<"DROP", Num(0)>>>>
    BY <1>1 DEF DropOps
  <2>2. EvalAll(m, DropOps(d)) = EvalOp(m, <<"DROP", Num(0)>>)
    BY <2>1, EvalOne, Zenon
  <2>3. r = Below(s, 1) \o <<>> /\ ~(Len(s) < 1)
    BY <1>b, <1>1, RemoveTop
  <2>4. Operation(m, "DROP", Num(0)) = WithStack(m, r)
    BY <2>3 DEF Operation, BinaryOps, Replace
  <2> QED
    BY <1>b, <1>c, <2>2, <2>4, EvalStack, Zenon
<1>2. CASE d = 1
  <2>1. DropOps(d) = <<<<"NIP", Num(0)>>>>
    BY <1>2 DEF DropOps
  <2>2. EvalAll(m, DropOps(d)) = EvalOp(m, <<"NIP", Num(0)>>)
    BY <2>1, EvalOne, Zenon
  <2>3. r = Below(s, 2) \o <<At(s, 0)>> /\ ~(Len(s) < 2)
    BY <1>b, <1>2, RemoveNext
  <2>4. Operation(m, "NIP", Num(0)) = WithStack(m, r)
    BY <2>3 DEF Operation, BinaryOps, Replace
  <2> QED
    BY <1>b, <1>c, <2>2, <2>4, EvalStack, Zenon
<1>3. CASE d # 0 /\ d # 1
  <2> DEFINE data == <<"DATA", Num(d)>>
             roll == <<"ROLL", Num(0)>>
             drop == <<"DROP", Num(0)>>
  <2>1. DropOps(d) = <<data, roll, drop>>
    BY <1>3 DEF DropOps
  <2> HIDE DEF data, roll, drop
  <2>2. /\ EvalOp(m, data).ok /\ EvalOp(EvalOp(m, data), roll).ok
        /\ EvalAll(m, DropOps(d)) = EvalOp(EvalOp(EvalOp(m, data), roll), drop)
    <3>1. EvalAll(m, <<data, roll, drop>>).ok
      BY <2>1
    <3>2. /\ EvalOp(m, data).ok /\ EvalOp(EvalOp(m, data), roll).ok
          /\ EvalAll(m, <<data, roll, drop>>) = EvalOp(EvalOp(EvalOp(m, data), roll), drop)
      BY <3>1, EvalThree
    <3> QED
      BY <2>1, <3>2
  <2> USE DEF data, roll, drop
  <2>3. Num(d) \in Element /\ IsNum(Num(d)) /\ Num(d)[2] = d
    BY NumElement
  <2>4. PICK s1 \in Seq(Element) : s1 = Append(s, Num(d)) /\ Grown(s, s1, 0, 1) /\ s1[Len(s1)] = Num(d)
    BY <2>3, AppendIs, Zenon
  <2>5. EvalOp(m, data) = WithStack(m, s1)
    BY <2>2, <2>3, <2>4, Push, Zenon
  <2>6. PICK m1 \in Machines : m1 = WithStack(m, s1) /\ m1.stack = s1 /\ Executing(m1)
    BY RestackedIs, RestackedTwice, Zenon
  <2>7. PICK x \in Element : x = At(s, d)
    BY AtIs, Zenon
  <2>8. PICK s2 \in Seq(Element) : s2 = Append(r, x) /\ Grown(r, s2, 0, 1) /\ s2[Len(s2)] = x
    BY AppendIs, Zenon
  <2>9. Operation(m1, "ROLL", Num(0)) = WithStack(m1, s2)
    <3>1. Below(s1, 1) = s /\ At(s1, 0) = Num(d) /\ ~(Len(s1) < 2)
      <4>1. Below(s1, 1) = s
        <5>1. Below(Append(s, Num(d)), 1) = s
          BY <2>3, BelowAppended, Zenon
        <5> QED
          BY <2>4, <5>1
      <4> QED
        BY <2>4, <4>1 DEF At, Grown
    <3>2. Operation(m1, "ROLL", Num(0)) = PickOrRoll(m1, TRUE)
      BY DEF Operation, BinaryOps
    <3>3. ~(d < 0) /\ ~(d >= Len(s))
      OBVIOUS
    <3> QED
      BY <1>b, <2>3, <2>6, <2>7, <2>8, <3>1, <3>2, <3>3, Zenon DEF PickOrRoll
  <2>10. EvalOp(m1, roll) = WithStack(m, s2)
    <3>1. EvalOp(m1, roll).ok
      BY <2>2, <2>5, <2>6
    <3>2. WithStack(m1, s2) = WithStack(m, s2)
      BY <2>6, RestackedTwice, Zenon
    <3> QED
      BY <1>c, <2>6, <2>9, <3>1, <3>2, EvalStack, Zenon
  <2>11. PICK m2 \in Machines : m2 = WithStack(m, s2) /\ m2.stack = s2 /\ Executing(m2)
    BY RestackedIs, RestackedTwice, Zenon
  <2>12. Operation(m2, "DROP", Num(0)) = WithStack(m2, r)
    <3>1. Below(s2, 1) \o <<>> = r /\ ~(Len(s2) < 1)
      <4>1. Below(s2, 1) \o <<>> = r
        BY <2>8, BelowAppended, Zenon
      <4> QED
        BY <2>8, <4>1 DEF Grown
    <3> QED
      BY <2>11, <3>1 DEF Operation, BinaryOps, Replace
  <2>13. EvalOp(m2, drop) = WithStack(m, r)
    <3>1. EvalOp(m2, drop).ok
      BY <2>2, <2>5, <2>6, <2>10, <2>11
    <3>2. WithStack(m2, r) = WithStack(m, r)
      BY <2>11, RestackedTwice, Zenon
    <3>3. Executing(m2) /\ "DROP" \notin Blocks
      BY <1>c, <2>11
    <3>4. EvalOp(m2, drop) = WithStack(m2, r)
      BY <2>12, <3>1, <3>3, EvalStack, Zenon
    <3> QED
      BY <3>2, <3>4
  <2> QED
    BY <1>b, <2>2, <2>5, <2>6, <2>10, <2>11, <2>13, Zenon
<1> QED
  BY <1>1, <1>2, <1>3

(***************************************************************************)
(* OP_DUP copies the top element.                                          *)
(***************************************************************************)
LEMMA DupTop ==
    \A V : \A s \in Seq(V) : 0 < Len(s) =>
        s \o SubSeq(s, Len(s) - 1 + 1, Len(s)) = Append(s, At(s, 0))
<1> SUFFICES ASSUME NEW V, NEW s \in Seq(V), 0 < Len(s)
             PROVE  s \o SubSeq(s, Len(s) - 1 + 1, Len(s)) = Append(s, At(s, 0))
  OBVIOUS
<1>1. PICK x \in V : x = At(s, 0) /\ x = s[Len(s)]
  BY DEF At
<1>2. PICK r \in Seq(V) : r = SubSeq(s, Len(s) - 1 + 1, Len(s)) /\ Len(r) = 1 /\ r[1] = x
  <2>1. Len(s) - 1 + 1 = Len(s)
    OBVIOUS
  <2>2. SubSeq(s, Len(s), Len(s)) \in Seq(V) /\ Len(SubSeq(s, Len(s), Len(s))) = 1
    OBVIOUS
  <2>3. SubSeq(s, Len(s), Len(s))[1] = x
    BY <1>1
  <2> QED
    BY <2>1, <2>2, <2>3
<1>3. s \o r \in Seq(V) /\ Append(s, x) \in Seq(V) /\ Len(s \o r) = Len(Append(s, x))
  BY <1>2
<1>4. \A i \in 1..Len(s \o r) : (s \o r)[i] = Append(s, x)[i]
  BY <1>2
<1>5. s \o r = Append(s, x)
  BY <1>3, <1>4, SeqEqual, Zenon
<1> QED
  BY <1>1, <1>2, <1>5

(***************************************************************************)
(* pick(si) copies the element that lies where the item does.              *)
(***************************************************************************)
LEMMA PickEvaluated ==
    \A m \in Machines : \A s \in Seq(Element) : \A d \in Nat : \A opcodes :
        /\ s = m.stack /\ d < Len(s) /\ m.ok /\ Executing(m) /\ EvalAll(m, opcodes).ok
        /\ opcodes = IF d = 0 THEN <<<<"DUP", Num(0)>>>>
                     ELSE <<<<"DATA", Num(d)>>, <<"PICK", Num(0)>>>>
        => EvalAll(m, opcodes) = WithStack(m, Append(s, At(s, d)))
<1> SUFFICES ASSUME NEW m \in Machines, NEW s \in Seq(Element), NEW d \in Nat, NEW opcodes,
                    s = m.stack, d < Len(s), m.ok, Executing(m), EvalAll(m, opcodes).ok,
                    opcodes = IF d = 0 THEN <<<<"DUP", Num(0)>>>>
                              ELSE <<<<"DATA", Num(d)>>, <<"PICK", Num(0)>>>>
             PROVE  EvalAll(m, opcodes) = WithStack(m, Append(s, At(s, d)))
  OBVIOUS
<1>a. 0 \in Nat /\ 1 \in Nat /\ 2 \in Nat
  OBVIOUS
<1>b. PICK x \in Element : x = At(s, d)
  BY AtIs, Zenon
<1>c. PICK r \in Seq(Element) : r = Append(s, x) /\ Grown(s, r, 0, 1) /\ r[Len(r)] = x
  BY AppendIs, Zenon
<1>d. "DUP" \notin Blocks /\ "PICK" \notin Blocks
  BY DEF Blocks
<1>1. CASE d = 0
  <2>1. opcodes = <<<<"DUP", Num(0)>>>>
    BY <1>1
  <2>2. EvalAll(m, opcodes) = EvalOp(m, <<"DUP", Num(0)>>)
    BY <2>1, EvalOne, Zenon
  <2>3. s \o SubSeq(s, Len(s) - 1 + 1, Len(s)) = r /\ ~(Len(s) < 1)
    <3>1. 0 < Len(s)
      BY <1>1
    <3>2. s \o SubSeq(s, Len(s) - 1 + 1, Len(s)) = Append(s, At(s, 0))
      BY <3>1, DupTop, Zenon
    <3> QED
      BY <1>b, <1>c, <1>1, <3>1, <3>2
  <2>4. Operation(m, "DUP", Num(0)) = Duplicate(m, 1)
    BY DEF Operation, BinaryOps
  <2>5. Duplicate(m, 1) = WithStack(m, r)
    BY <2>3, Zenon DEF Duplicate
  <2>6. Operation(m, "DUP", Num(0)) = WithStack(m, r)
    BY <2>4, <2>5
  <2>7. EvalOp(m, <<"DUP", Num(0)>>).ok
    BY <2>2
  <2>8. EvalOp(m, <<"DUP", Num(0)>>) = WithStack(m, r)
    BY <1>d, <2>6, <2>7, EvalStack, Zenon
  <2> QED
    BY <1>b, <1>c, <2>2, <2>8, Zenon
<1>2. CASE d # 0
  <2> DEFINE data == <<"DATA", Num(d)>>
             pick == <<"PICK", Num(0)>>
  <2>1. opcodes = <<data, pick>>
    BY <1>2
  <2> HIDE DEF data, pick
  <2>2. EvalOp(m, data).ok /\ EvalAll(m, opcodes) = EvalOp(EvalOp(m, data), pick)
    <3>1. EvalAll(m, <<data, pick>>).ok
      BY <2>1
    <3>2. EvalOp(m, data).ok /\ EvalAll(m, <<data, pick>>) = EvalOp(EvalOp(m, data), pick)
      BY <3>1, EvalTwo
    <3> QED
      BY <2>1, <3>2
  <2> USE DEF data, pick
  <2>3. Num(d) \in Element /\ IsNum(Num(d)) /\ Num(d)[2] = d
    BY NumElement
  <2>4. PICK s1 \in Seq(Element) : s1 = Append(s, Num(d)) /\ Grown(s, s1, 0, 1) /\ s1[Len(s1)] = Num(d)
    BY <2>3, AppendIs, Zenon
  <2>5. EvalOp(m, data) = WithStack(m, s1)
    BY <2>2, <2>3, <2>4, Push, Zenon
  <2>6. PICK m1 \in Machines : m1 = WithStack(m, s1) /\ m1.stack = s1 /\ Executing(m1)
    BY RestackedIs, RestackedTwice, Zenon
  <2>7. Operation(m1, "PICK", Num(0)) = WithStack(m1, r)
    <3>1. Below(s1, 1) = s /\ At(s1, 0) = Num(d) /\ ~(Len(s1) < 2)
      <4>1. Below(s1, 1) = s
        <5>1. Below(Append(s, Num(d)), 1) = s
          BY <2>3, BelowAppended, Zenon
        <5> QED
          BY <2>4, <5>1
      <4> QED
        BY <2>4, <4>1 DEF At, Grown
    <3>2. Operation(m1, "PICK", Num(0)) = PickOrRoll(m1, FALSE)
      BY DEF Operation, BinaryOps
    <3>3. ~(d < 0) /\ ~(d >= Len(s))
      OBVIOUS
    <3> QED
      BY <1>b, <1>c, <2>3, <2>6, <3>1, <3>2, <3>3, Zenon DEF PickOrRoll
  <2>8. EvalOp(m1, pick) = WithStack(m, r)
    <3>1. EvalOp(m1, pick).ok
      BY <2>2, <2>5, <2>6
    <3>2. WithStack(m1, r) = WithStack(m, r)
      BY <2>6, RestackedTwice, Zenon
    <3> QED
      BY <1>d, <2>6, <2>7, <3>1, <3>2, EvalStack, Zenon
  <2> QED
    BY <1>b, <1>c, <2>2, <2>5, <2>6, <2>8
<1> QED
  BY <1>1, <1>2

(***************************************************************************)
(* A look-up in a table, at the depth the top of the stack says.           *)
(***************************************************************************)
LEMMA TwoGrows == \A m \in Machines : \A v : Grows(m, Operation(m, "SWAP", v), 2, 2)
<1> SUFFICES ASSUME NEW m \in Machines, NEW v PROVE Grows(m, Operation(m, "SWAP", v), 2, 2)
  OBVIOUS
<1>0. PICK s \in Seq(Element) : s = m.stack
  BY StackIs, Zenon
<1>a. 0 \in Nat /\ 1 \in Nat /\ 2 \in Nat
  OBVIOUS
<1>1. Operation(m, "SWAP", v) = Replace(m, 2, <<At(s, 0), At(s, 1)>>)
  BY <1>0 DEF Operation, BinaryOps
<1>2. CASE Len(s) < 2
  <2>1. Operation(m, "SWAP", v) = Fail(m)
    BY <1>0, <1>1, <1>2 DEF Replace
  <2> QED
    BY <1>a, <2>1, FailGrows, Zenon
<1>3. CASE 0 < Len(s) /\ 1 < Len(s)
  <2>1. PICK x \in Element : x = At(s, 0)
    BY <1>a, <1>3, AtIs, Zenon
  <2>2. PICK y \in Element : y = At(s, 1)
    BY <1>a, <1>3, AtIs, Zenon
  <2>3. PICK new \in Seq(Element) : new = <<x, y>> /\ Len(new) = 2
    BY TwoIs, Zenon
  <2> QED
    BY <1>a, <1>1, <2>1, <2>2, <2>3, Replaced, Zenon
<1> QED
  BY <1>2, <1>3

(***************************************************************************)
(* Two operations one after the other.                                     *)
(***************************************************************************)
LEMMA AliveTwice ==
    \A m, n, p \in Machines : \A k, g, l, h \in Nat :
        Alive(m, n, k, g) /\ Alive(n, p, l, h) /\ l >= g => Alive(m, p, k + l - g, h)
<1> SUFFICES ASSUME NEW m \in Machines, NEW n \in Machines, NEW p \in Machines, NEW k \in Nat, NEW g \in Nat,
                    NEW l \in Nat, NEW h \in Nat, Alive(m, n, k, g), Alive(n, p, l, h), l >= g
             PROVE  Alive(m, p, k + l - g, h)
  OBVIOUS
<1>1. PICK s \in Seq(Element) : s = m.stack
  BY StackIs, Zenon
<1>2. PICK t \in Seq(Element) : t = n.stack
  BY StackIs, Zenon
<1>3. PICK u \in Seq(Element) : u = p.stack
  BY StackIs, Zenon
<1>4. Grown(s, t, k, g) /\ Grown(t, u, l, h)
  BY <1>1, <1>2, <1>3 DEF Alive
<1>5. Grown(s, u, k + l - g, h)
  BY <1>4, GrownTwice
<1> QED
  BY <1>1, <1>3, <1>5 DEF Alive

(***************************************************************************)
(* tableFetchInStack replaces the top by an element.                       *)
(***************************************************************************)
LEMMA FetchEvaluated ==
    \A m \in Machines : \A d \in Int : \A opcodes :
        /\ m.ok /\ Executing(m) /\ EvalAll(m, opcodes).ok
        /\ opcodes = <<<<"DATA", Num(d)>>, <<"SWAP", Num(0)>>, <<"SUB", Num(0)>>, <<"PICK", Num(0)>>>>
        => Alive(m, EvalAll(m, opcodes), 1, 1)
<1> SUFFICES ASSUME NEW m \in Machines, NEW d \in Int, NEW opcodes, m.ok, Executing(m), EvalAll(m, opcodes).ok,
                    opcodes = <<<<"DATA", Num(d)>>, <<"SWAP", Num(0)>>, <<"SUB", Num(0)>>, <<"PICK", Num(0)>>>>
             PROVE  Alive(m, EvalAll(m, opcodes), 1, 1)
  OBVIOUS
<1> DEFINE data == <<"DATA", Num(d)>>
           swap == <<"SWAP", Num(0)>>
           sub  == <<"SUB", Num(0)>>
           pick == <<"PICK", Num(0)>>
<1>a. 0 \in Nat /\ 1 \in Nat /\ 2 \in Nat
  OBVIOUS
<1>b. "SWAP" \notin Blocks /\ "SUB" \notin Blocks /\ "PICK" \notin Blocks
  BY DEF Blocks
<1>1. opcodes = <<data, swap, sub, pick>>
  OBVIOUS
<1> HIDE DEF data, swap, sub, pick
<1>2. /\ EvalOp(m, data).ok /\ EvalOp(EvalOp(m, data), swap).ok
      /\ EvalOp(EvalOp(EvalOp(m, data), swap), sub).ok
      /\ EvalAll(m, opcodes) = EvalOp(EvalOp(EvalOp(EvalOp(m, data), swap), sub), pick)
  BY <1>1, EvalFour
<1> USE DEF data, swap, sub, pick
<1>3. PICK s \in Seq(Element) : s = m.stack
  BY StackIs, Zenon
<1>4. PICK s1 \in Seq(Element) : s1 = Append(s, Num(d)) /\ Grown(s, s1, 0, 1) /\ s1[Len(s1)] = Num(d)
  BY NumElement, AppendIs, Zenon
<1>5. PICK m1 \in Machines : m1 = EvalOp(m, data) /\ Alive(m, m1, 0, 1)
  <2>1. EvalOp(m, data) = WithStack(m, s1)
    BY <1>2, <1>3, <1>4, NumElement, Push, Zenon
  <2>2. WithStack(m, s1) \in Machines /\ WithStack(m, s1).stack = s1 /\ WithStack(m, s1).exec = m.exec
        /\ WithStack(m, s1).ok = m.ok /\ Executing(WithStack(m, s1))
    BY RestackedIs, RestackedTwice, Zenon
  <2> QED
    BY <1>3, <1>4, <2>1, <2>2, Zenon DEF Alive
<1>6. PICK m2 \in Machines : m2 = EvalOp(m1, swap) /\ Alive(m1, m2, 2, 2)
  <2>1. EvalOp(m1, swap).ok /\ Executing(m1)
    BY <1>2, <1>5, Zenon DEF Alive
  <2>2. Alive(m1, EvalOp(m1, swap), 2, 2)
    BY <1>a, <1>b, <2>1, TwoGrows, EvalGrows, Zenon
  <2> QED
    BY <2>2, Zenon DEF Alive
<1>7. PICK m3 \in Machines : m3 = EvalOp(m2, sub) /\ Alive(m2, m3, 2, 1)
  <2>1. EvalOp(m2, sub).ok /\ Executing(m2)
    BY <1>2, <1>5, <1>6, Zenon DEF Alive
  <2>2. "SUB" \in StraightOps /\ Taken("SUB") = 2 /\ Given("SUB") = 1
    BY DEF StraightOps, BinaryOps, Taken, Given
  <2>3. Grows(m2, Operation(m2, "SUB", Num(0)), 2, 1)
    BY <2>2, OperationGrows, Zenon
  <2>4. Alive(m2, EvalOp(m2, sub), 2, 1)
    BY <1>a, <1>b, <2>1, <2>3, EvalGrows, Zenon
  <2> QED
    BY <2>4, Zenon DEF Alive
<1>8. PICK m4 \in Machines : m4 = EvalOp(m3, pick) /\ Alive(m3, m4, 1, 1)
  <2>1. EvalOp(m3, pick).ok /\ Executing(m3)
    BY <1>2, <1>5, <1>6, <1>7, Zenon DEF Alive
  <2>2. "PICK" \in StraightOps /\ Taken("PICK") = 1 /\ Given("PICK") = 1
    BY DEF StraightOps, BinaryOps, Taken, Given
  <2>3. Grows(m3, Operation(m3, "PICK", Num(0)), 1, 1)
    BY <2>2, OperationGrows, Zenon
  <2>4. Alive(m3, EvalOp(m3, pick), 1, 1)
    BY <1>a, <1>b, <2>1, <2>3, EvalGrows, Zenon
  <2> QED
    BY <2>4, Zenon DEF Alive
<1>9. Alive(m, m2, 1, 2)
  BY <1>5, <1>6, AliveTwice
<1>10. Alive(m, m3, 1, 1)
  BY <1>7, <1>9, AliveTwice
<1>11. Alive(m, m4, 1, 1)
  BY <1>8, <1>10, AliveTwice
<1> QED
  BY <1>2, <1>5, <1>6, <1>7, <1>8, <1>11

-----------------------------------------------------------------------------
(* The stack of the generator after a call, and that of the interpreter.   *)

\* The items a call names anew.
Fresh(c) ==
    CASE c.kind \in {"data", "replace"} -> {Anonymous, c.item}
      [] c.kind = "name" -> {<<c.item[1], i>> : i \in 1..c.item[2]}
      [] OTHER -> {Anonymous}

\* The stack t is as high as `moved`, and whatever was on `items` before lies
\* on the element on which it lay on s.
Tracks(items, s, c, moved, t) ==
    /\ Len(moved) = Len(t)
    /\ \A j \in DOMAIN moved : moved[j] \notin Fresh(c) =>
          \E i \in DOMAIN items : moved[j] = items[i] /\ t[j] = s[i]

\* What a call that names or copies an item gives it.
Gives(items, s, c, moved, t) ==
    /\ c.kind = "data" => moved[Len(t)] = c.item /\ t[Len(t)] = c.v
    /\ c.kind = "pick" => t[Len(t)] = At(s, Rel(items, c.item))
    /\ c.kind = "replace" => moved[Len(t)] = c.item /\ t[Len(t)] = At(s, 0)

(***************************************************************************)
(* Both stacks grow by the same number of elements, and what the generator *)
(* puts there it names anew.                                               *)
(***************************************************************************)
LEMMA TracksGrown ==
    \A V : \A items, moved \in Seq(V) : \A s, t \in Seq(Element) : \A k, g \in Nat : \A c :
        /\ Len(items) = Len(s) /\ Grown(items, moved, k, g) /\ Grown(s, t, k, g)
        /\ \A j \in (Len(items) - k + 1)..Len(moved) : moved[j] \in Fresh(c)
        => Tracks(items, s, c, moved, t)
<1> SUFFICES ASSUME NEW V, NEW items \in Seq(V), NEW moved \in Seq(V), NEW s \in Seq(Element), NEW t \in Seq(Element),
                    NEW k \in Nat, NEW g \in Nat, NEW c, Len(items) = Len(s),
                    Grown(items, moved, k, g), Grown(s, t, k, g),
                    \A j \in (Len(items) - k + 1)..Len(moved) : moved[j] \in Fresh(c)
             PROVE  Tracks(items, s, c, moved, t)
  OBVIOUS
<1>1. Len(moved) = Len(t)
  BY DEF Grown
<1>2. ASSUME NEW j \in DOMAIN moved, moved[j] \notin Fresh(c)
      PROVE  \E i \in DOMAIN items : moved[j] = items[i] /\ t[j] = s[i]
  <2>1. j \in 1..(Len(items) - k)
    BY <1>2 DEF Grown
  <2>2. j \in DOMAIN items /\ moved[j] = items[j] /\ t[j] = s[j]
    BY <2>1 DEF Grown
  <2> QED
    BY <2>2
<1> QED
  BY <1>1, <1>2 DEF Tracks

(***************************************************************************)
(* Both stacks lose the element at the same depth.                         *)
(***************************************************************************)
LEMMA TracksRemoved ==
    \A V : \A items, moved \in Seq(V) : \A s, t \in Seq(Element) : \A d \in Nat : \A c :
        /\ Len(items) = Len(s) /\ d < Len(s)
        /\ moved = RemoveAt(items, Len(items) - d) /\ t = RemoveAt(s, Len(s) - d)
        => Tracks(items, s, c, moved, t)
<1> SUFFICES ASSUME NEW V, NEW items \in Seq(V), NEW moved \in Seq(V), NEW s \in Seq(Element), NEW t \in Seq(Element),
                    NEW d \in Nat, NEW c, Len(items) = Len(s), d < Len(s),
                    moved = RemoveAt(items, Len(items) - d), t = RemoveAt(s, Len(s) - d)
             PROVE  Tracks(items, s, c, moved, t)
  OBVIOUS
<1>0. d < Len(items)
  OBVIOUS
<1>1. /\ Len(moved) = Len(items) - 1
      /\ \A j \in 1..(Len(items) - 1) : moved[j] = IF j < Len(items) - d THEN items[j] ELSE items[j + 1]
  <2>1. PICK r \in Seq(V) :
            /\ r = RemoveAt(items, Len(items) - d) /\ Len(r) = Len(items) - 1
            /\ \A j \in 1..(Len(items) - 1) : r[j] = IF j < Len(items) - d THEN items[j] ELSE items[j + 1]
    BY <1>0, RemoveIs, Zenon
  <2> QED
    BY <2>1
<1>2. /\ Len(t) = Len(s) - 1
      /\ \A j \in 1..(Len(s) - 1) : t[j] = IF j < Len(s) - d THEN s[j] ELSE s[j + 1]
  <2>1. PICK r \in Seq(Element) :
            /\ r = RemoveAt(s, Len(s) - d) /\ Len(r) = Len(s) - 1
            /\ \A j \in 1..(Len(s) - 1) : r[j] = IF j < Len(s) - d THEN s[j] ELSE s[j + 1]
    BY RemoveIs, Zenon
  <2> QED
    BY <2>1
<1>3. ASSUME NEW j \in DOMAIN moved
      PROVE  \E i \in DOMAIN items : moved[j] = items[i] /\ t[j] = s[i]
  <2>1. j \in 1..(Len(items) - 1) /\ j \in DOMAIN items /\ j + 1 \in DOMAIN items
    BY <1>1
  <2> QED
    BY <1>1, <1>2, <2>1
<1> QED
  BY <1>1, <1>2, <1>3 DEF Tracks

(***************************************************************************)
(* getRelativeStackPosition finds an item that is there.                   *)
(***************************************************************************)
LEMMA RelIs ==
    \A V : \A items \in Seq(V) : \A x : (\E i \in DOMAIN items : items[i] = x) =>
        Rel(items, x) \in Nat /\ Rel(items, x) < Len(items) /\ At(items, Rel(items, x)) = x
<1> SUFFICES ASSUME NEW V, NEW items \in Seq(V), NEW x, \E i \in DOMAIN items : items[i] = x
             PROVE  Rel(items, x) \in Nat /\ Rel(items, x) < Len(items) /\ At(items, Rel(items, x)) = x
  OBVIOUS
<1>1. \E d \in 0..(Len(items) - 1) : At(items, d) = x
  <2>1. PICK i \in DOMAIN items : items[i] = x
    OBVIOUS
  <2>2. Len(items) - i \in 0..(Len(items) - 1) /\ Len(items) - (Len(items) - i) = i
    OBVIOUS
  <2>3. At(items, Len(items) - i) = x
    BY <2>1, <2>2 DEF At
  <2> QED
    BY <2>2, <2>3
<1>2. Rel(items, x) \in 0..(Len(items) - 1) /\ At(items, Rel(items, x)) = x
  BY <1>1 DEF Rel
<1> QED
  BY <1>2


(***************************************************************************)
(* The cases of a call.                                                    *)
(***************************************************************************)
LEMMA GrownAlike ==
    ASSUME NEW V, NEW items \in Seq(V), NEW moved \in Seq(V), NEW m \in Machines, NEW n \in Machines,
           NEW k \in Nat, NEW g \in Nat, NEW c,
           Len(items) = Len(m.stack), Grown(items, moved, k, g), Alive(m, n, k, g),
           \A j \in (Len(items) - k + 1)..Len(moved) : moved[j] \in Fresh(c)
    PROVE  Tracks(items, m.stack, c, moved, n.stack)
<1>1. PICK s \in Seq(Element) : s = m.stack
  BY StackIs, Zenon
<1>2. PICK t \in Seq(Element) : t = n.stack
  BY StackIs, Zenon
<1>3. Grown(s, t, k, g) /\ Len(items) = Len(s)
  BY <1>1, <1>2 DEF Alive
<1>4. Tracks(items, s, c, moved, t)
  BY <1>3, TracksGrown, Zenon
<1> QED
  BY <1>1, <1>2, <1>4

(***************************************************************************)
(* An item put on the top is a fresh one.                                  *)
(***************************************************************************)
LEMMA TopGrown ==
    \A V : \A items, moved \in Seq(V) : \A x : \A c :
        moved = Append(items, x) /\ x \in Fresh(c) =>
            \A j \in (Len(items) - 0 + 1)..Len(moved) : moved[j] \in Fresh(c)
<1> SUFFICES ASSUME NEW V, NEW items \in Seq(V), NEW moved \in Seq(V), NEW x, NEW c,
                    moved = Append(items, x), x \in Fresh(c),
                    NEW j \in (Len(items) - 0 + 1)..Len(moved)
             PROVE  moved[j] \in Fresh(c)
  OBVIOUS
<1>1. j = Len(items) + 1
  OBVIOUS
<1> QED
  BY <1>1

\* items and m before the call c, moved and n after it.
Follows(items, m, c, moved, n) ==
    /\ n \in Machines /\ n.exec = m.exec /\ \E V : moved \in Seq(V)
    /\ Tracks(items, m.stack, c, moved, n.stack) /\ Gives(items, m.stack, c, moved, n.stack)

(***************************************************************************)
(* A call that is one native operation.                                    *)
(***************************************************************************)
LEMMA NativeFollows ==
    ASSUME NEW V, Anonymous \in V, NEW items \in Seq(V), NEW m \in Machines, NEW c,
           c.kind = "op", c.op \in StraightOps, m.ok, Executing(m), Len(items) = Len(m.stack),
           EvalAll(m, Emitted(items, c)).ok
    PROVE  Follows(items, m, c, Moved(items, c), EvalAll(m, Emitted(items, c)))
<1> DEFINE op == c.op
<1>1. Taken(op) \in Nat /\ Given(op) \in Nat /\ op \notin Blocks
  BY DEF StraightOps, BinaryOps, Taken, Given, Blocks
<1>2. Emitted(items, c) = <<<<op, Num(0)>>>>
  BY DEF Emitted
<1>3. Moved(items, c) = Below(items, Taken(op)) \o [i \in 1..Given(op) |-> Anonymous]
  BY DEF Moved
<1>4. PICK k \in Nat : k = Taken(op)
  BY <1>1
<1>5. PICK g \in Nat : g = Given(op)
  BY <1>1
<1> HIDE DEF op
<1>6. PICK n : n = EvalOp(m, <<op, Num(0)>>)
  OBVIOUS
<1>7. EvalAll(m, Emitted(items, c)) = n /\ n.ok
  <2>1. EvalAll(m, <<<<op, Num(0)>>>>) = n
    BY <1>6, EvalOne, Zenon
  <2> QED
    BY <1>2, <2>1
<1>8. Alive(m, n, k, g)
  <2>1. Grows(m, Operation(m, op, Num(0)), k, g)
    BY <1>4, <1>5, OperationGrows, Zenon DEF op
  <2> QED
    BY <1>1, <1>6, <1>7, <2>1, EvalGrows, Zenon
<1>9. n \in Machines /\ n.exec = m.exec
  BY <1>8, Zenon DEF Alive
<1>10. k <= Len(items)
  BY <1>8 DEF Alive, Grown
<1>11. PICK low \in Seq(V) : low = Below(items, k) /\ Grown(items, low, k, 0)
  BY <1>10, BelowIs, Zenon
<1>12. PICK high \in Seq(V) : high = [i \in 1..g |-> Anonymous] /\ Len(high) = g
  <2>1. [i \in 1..g |-> Anonymous] \in Seq(V) /\ Len([i \in 1..g |-> Anonymous]) = g
    OBVIOUS
  <2> QED
    BY <2>1, Zenon
<1>13. PICK moved \in Seq(V) : moved = low \o high /\ Grown(low, moved, 0, Len(high))
  BY ConcatIs, Zenon
<1>14. Moved(items, c) = moved
  BY <1>3, <1>4, <1>5, <1>11, <1>12, <1>13
<1>15. Grown(items, moved, k, g)
  BY <1>11, <1>12, <1>13 DEF Grown
<1>16. ASSUME NEW j \in (Len(items) - k + 1)..Len(moved) PROVE moved[j] \in Fresh(c)
  <2>1. Len(low) = Len(items) - k /\ Len(moved) = Len(low) + g
    BY <1>11, <1>12, <1>13 DEF Grown
  <2>2. j - Len(low) \in 1..g
    BY <2>1
  <2>3. moved[j] = Anonymous
    BY <1>12, <1>13, <2>1, <2>2
  <2> QED
    BY <2>3 DEF Fresh
<1>17. Tracks(items, m.stack, c, moved, n.stack)
  BY <1>8, <1>9, <1>15, <1>16, GrownAlike, Zenon
<1>18. Gives(items, m.stack, c, moved, n.stack)
  BY DEF Gives
<1> QED
  BY <1>7, <1>9, <1>14, <1>17, <1>18, Zenon DEF Follows

\* A call after which both stacks have one more element.
LEMMA PushFollows ==
    ASSUME NEW V, NEW items \in Seq(V), NEW m \in Machines, NEW c, NEW x \in V, NEW v \in Element,
           Len(items) = Len(m.stack), Executing(m), m.ok, x \in Fresh(c),
           Moved(items, c) = Append(items, x),
           EvalAll(m, Emitted(items, c)) = WithStack(m, Append(m.stack, v)),
           c.kind = "data" => x = c.item /\ v = c.v,
           c.kind = "pick" => v = At(m.stack, Rel(items, c.item)), c.kind # "replace"
    PROVE  Follows(items, m, c, Moved(items, c), EvalAll(m, Emitted(items, c)))
<1>1. PICK s \in Seq(Element) : s = m.stack
  BY StackIs, Zenon
<1>2. PICK t \in Seq(Element) : t = Append(s, v) /\ Grown(s, t, 0, 1) /\ t[Len(t)] = v
  BY AppendIs, Zenon
<1>3. PICK moved \in Seq(V) : moved = Append(items, x) /\ Grown(items, moved, 0, 1) /\ moved[Len(moved)] = x
  BY AppendIs, Zenon
<1>4. PICK n \in Machines : n = WithStack(m, t) /\ n.stack = t /\ n.exec = m.exec
  BY RestackedIs, Zenon
<1>5. \A j \in (Len(items) - 0 + 1)..Len(moved) : moved[j] \in Fresh(c)
  BY <1>3, TopGrown, Zenon
<1>6. 0 \in Nat /\ 1 \in Nat /\ Len(items) = Len(s)
  BY <1>1
<1>7. Tracks(items, s, c, moved, t)
  BY <1>2, <1>3, <1>5, <1>6, TracksGrown, Zenon
<1>8. Len(t) = Len(moved)
  BY <1>2, <1>3, <1>6 DEF Grown
<1>9. Gives(items, s, c, moved, t)
  BY <1>1, <1>2, <1>3, <1>8 DEF Gives
<1>10. Moved(items, c) = moved /\ EvalAll(m, Emitted(items, c)) = n
  BY <1>1, <1>2, <1>3, <1>4
<1> QED
  BY <1>1, <1>4, <1>7, <1>9, <1>10 DEF Follows

(***************************************************************************)
(* A call that pushes data.                                                *)
(***************************************************************************)
LEMMA DataFollows ==
    ASSUME NEW V, NEW items \in Seq(V), NEW m \in Machines, NEW c,
           c.kind = "data", c.v \in Element, c.item \in V,
           m.ok, Executing(m), Len(items) = Len(m.stack), EvalAll(m, Emitted(items, c)).ok
    PROVE  Follows(items, m, c, Moved(items, c), EvalAll(m, Emitted(items, c)))
<1>1. PICK v \in Element : v = c.v
  OBVIOUS
<1>2. PICK x \in V : x = c.item
  OBVIOUS
<1>3. Emitted(items, c) = <<<<"DATA", v>>>> /\ Moved(items, c) = Append(items, x) /\ x \in Fresh(c)
  BY <1>1, <1>2 DEF Emitted, Moved, Fresh
<1>4. EvalAll(m, <<<<"DATA", v>>>>) = EvalOp(m, <<"DATA", v>>)
  BY EvalOne, Zenon
<1>5. PICK s \in Seq(Element) : s = m.stack
  BY StackIs, Zenon
<1>6. EvalOp(m, <<"DATA", v>>).ok
  BY <1>3, <1>4
<1>7. EvalOp(m, <<"DATA", v>>) = WithStack(m, Append(s, v))
  BY <1>5, <1>6, Push, Zenon
<1>8. EvalAll(m, Emitted(items, c)) = WithStack(m, Append(m.stack, v))
  BY <1>3, <1>4, <1>5, <1>7
<1>9. c.kind # "replace" /\ c.kind # "pick"
  OBVIOUS
<1> QED
  BY <1>1, <1>2, <1>3, <1>8, <1>9, PushFollows, Zenon

(***************************************************************************)
(* A call that copies an item.                                             *)
(***************************************************************************)
LEMMA PickFollows ==
    ASSUME NEW V, Anonymous \in V, NEW items \in Seq(V), NEW m \in Machines, NEW c,
           c.kind = "pick", \E i \in DOMAIN items : items[i] = c.item,
           m.ok, Executing(m), Len(items) = Len(m.stack), EvalAll(m, Emitted(items, c)).ok
    PROVE  Follows(items, m, c, Moved(items, c), EvalAll(m, Emitted(items, c)))
<1>1. Rel(items, c.item) \in Nat /\ Rel(items, c.item) < Len(items)
  BY RelIs, Zenon
<1>2. PICK d \in Nat : d = Rel(items, c.item)
  BY <1>1
<1>3. PICK s \in Seq(Element) : s = m.stack
  BY StackIs, Zenon
<1>4. d < Len(s)
  BY <1>1, <1>2, <1>3
<1>5. PICK v \in Element : v = At(s, d)
  BY <1>4, AtIs, Zenon
<1>6. PICK opcodes : opcodes = Emitted(items, c)
  OBVIOUS
<1>7. opcodes = IF d = 0 THEN <<<<"DUP", Num(0)>>>> ELSE <<<<"DATA", Num(d)>>, <<"PICK", Num(0)>>>>
  BY <1>2, <1>6 DEF Emitted
<1>8. Moved(items, c) = Append(items, Anonymous) /\ Anonymous \in Fresh(c)
  BY DEF Moved, Fresh
<1>9. EvalAll(m, opcodes) = WithStack(m, Append(s, At(s, d)))
  BY <1>3, <1>4, <1>6, <1>7, PickEvaluated, Zenon
<1>10. EvalAll(m, Emitted(items, c)) = WithStack(m, Append(m.stack, v)) /\ v = At(m.stack, Rel(items, c.item))
  BY <1>2, <1>3, <1>5, <1>6, <1>9
<1>11. c.kind # "replace" /\ c.kind # "data"
  OBVIOUS
<1> QED
  BY <1>8, <1>10, <1>11, PushFollows, Zenon

(***************************************************************************)
(* A call that pushes the position of an item.                             *)
(***************************************************************************)
LEMMA PositionFollows ==
    ASSUME NEW V, Anonymous \in V, NEW items \in Seq(V), NEW m \in Machines, NEW c,
           c.kind = "position", \E i \in DOMAIN items : items[i] = c.item,
           m.ok, Executing(m), Len(items) = Len(m.stack), EvalAll(m, Emitted(items, c)).ok
    PROVE  Follows(items, m, c, Moved(items, c), EvalAll(m, Emitted(items, c)))
<1>1. Rel(items, c.item) \in Nat
  BY RelIs, Zenon
<1>2. PICK v \in Element : v = Num(Rel(items, c.item))
  BY <1>1, NumElement
<1>3. Emitted(items, c) = <<<<"DATA", v>>>> /\ Moved(items, c) = Append(items, Anonymous) /\ Anonymous \in Fresh(c)
  BY <1>2 DEF Emitted, Moved, Fresh
<1>4. EvalAll(m, <<<<"DATA", v>>>>) = EvalOp(m, <<"DATA", v>>)
  BY EvalOne, Zenon
<1>5. PICK s \in Seq(Element) : s = m.stack
  BY StackIs, Zenon
<1>6. EvalOp(m, <<"DATA", v>>).ok
  BY <1>3, <1>4
<1>7. EvalOp(m, <<"DATA", v>>) = WithStack(m, Append(s, v))
  BY <1>5, <1>6, Push, Zenon
<1>8. EvalAll(m, Emitted(items, c)) = WithStack(m, Append(m.stack, v))
  BY <1>3, <1>4, <1>5, <1>7
<1>9. c.kind # "replace" /\ c.kind # "pick" /\ c.kind # "data"
  OBVIOUS
<1> QED
  BY <1>3, <1>8, <1>9, PushFollows, Zenon

(***************************************************************************)
(* A call that looks up an entry of a table.                               *)
(***************************************************************************)
LEMMA FetchFollows ==
    ASSUME NEW V, Anonymous \in V, NEW items \in Seq(V), NEW m \in Machines, NEW c,
           c.kind = "fetch", \E i \in DOMAIN items : items[i] = c.item,
           m.ok, Executing(m), Len(items) = Len(m.stack), EvalAll(m, Emitted(items, c)).ok
    PROVE  Follows(items, m, c, Moved(items, c), EvalAll(m, Emitted(items, c)))
<1>1. Rel(items, c.item) \in Nat
  BY RelIs, Zenon
<1>2. PICK d \in Int : d = Rel(items, c.item) - 1
  BY <1>1
<1>3. PICK opcodes : opcodes = Emitted(items, c)
  OBVIOUS
<1>4. opcodes = <<<<"DATA", Num(d)>>, <<"SWAP", Num(0)>>, <<"SUB", Num(0)>>, <<"PICK", Num(0)>>>>
  BY <1>2, <1>3 DEF Emitted
<1>5. Alive(m, EvalAll(m, opcodes), 1, 1)
  BY <1>3, <1>4, FetchEvaluated, Zenon
<1>6. PICK n \in Machines : n = EvalAll(m, opcodes) /\ n.exec = m.exec /\ Alive(m, n, 1, 1)
  BY <1>5, Zenon DEF Alive
<1>7. PICK low \in Seq(V) : low = Front(items) /\ Grown(items, low, 1, 0)
  <2>1. items # <<>>
    OBVIOUS
  <2> QED
    BY <2>1, FrontIs, Zenon
<1>8. PICK moved \in Seq(V) : moved = Append(low, Anonymous) /\ Grown(low, moved, 0, 1) /\ moved[Len(moved)] = Anonymous
  BY AppendIs, Zenon
<1>9. Moved(items, c) = moved
  BY <1>7, <1>8 DEF Moved
<1>10. Grown(items, moved, 1, 1)
  BY <1>7, <1>8 DEF Grown
<1>11. Anonymous \in Fresh(c)
  BY DEF Fresh
<1>12. \A j \in (Len(items) - 1 + 1)..Len(moved) : moved[j] \in Fresh(c)
  BY <1>8, <1>10, <1>11 DEF Grown
<1>13. 1 \in Nat
  OBVIOUS
<1>14. Tracks(items, m.stack, c, moved, n.stack)
  BY <1>6, <1>10, <1>12, <1>13, GrownAlike, Zenon
<1>15. Gives(items, m.stack, c, moved, n.stack)
  BY DEF Gives
<1> QED
  BY <1>3, <1>6, <1>9, <1>14, <1>15, Zenon DEF Follows

(***************************************************************************)
(* A call that names the items on the top.                                 *)
(***************************************************************************)
LEMMA NameFollows ==
    ASSUME NEW V, NEW items \in Seq(V), NEW m \in Machines, NEW c,
           c.kind = "name", c.item[2] \in 0..Len(items), \A i \in 1..c.item[2] : <<c.item[1], i>> \in V,
           m.ok, Executing(m), Len(items) = Len(m.stack)
    PROVE  Follows(items, m, c, Moved(items, c), EvalAll(m, Emitted(items, c)))
<1>1. EvalAll(m, Emitted(items, c)) = m
  <2>1. Emitted(items, c) = <<>>
    BY DEF Emitted
  <2>2. 0 \in Nat /\ Len(<<>>) = 0
    OBVIOUS
  <2>3. PICK f : AfterUpTo(f, m, <<>>, 0) /\ EvalAll(m, <<>>) = f[0]
    BY <2>2, AfterDef, Zenon
  <2>4. f[0] = m
    BY <2>3 DEF AfterUpTo
  <2> QED
    BY <2>1, <2>3, <2>4
<1>2. PICK n \in Nat : n = c.item[2] /\ n <= Len(items)
  OBVIOUS
<1>3. PICK low \in Seq(V) : low = Below(items, n) /\ Grown(items, low, n, 0)
  BY <1>2, BelowIs, Zenon
<1>4. PICK high \in Seq(V) : high = Reg(c.item[1], n) /\ Len(high) = n
                             /\ \A i \in 1..n : high[i] = <<c.item[1], i>>
  <2>1. Reg(c.item[1], n) \in Seq(V)
    BY <1>2 DEF Reg
  <2>2. Len(Reg(c.item[1], n)) = n /\ \A i \in 1..n : Reg(c.item[1], n)[i] = <<c.item[1], i>>
    BY DEF Reg
  <2> QED
    BY <2>1, <2>2
<1>5. PICK moved \in Seq(V) : moved = low \o high /\ Grown(low, moved, 0, Len(high))
  BY ConcatIs, Zenon
<1>6. Moved(items, c) = moved
  BY <1>2, <1>3, <1>4, <1>5 DEF Moved
<1>7. Grown(items, moved, n, n)
  BY <1>3, <1>4, <1>5 DEF Grown
<1>8. ASSUME NEW j \in (Len(items) - n + 1)..Len(moved) PROVE moved[j] \in Fresh(c)
  <2>1. Len(low) = Len(items) - n /\ Len(moved) = Len(low) + n
    BY <1>3, <1>4, <1>5 DEF Grown
  <2>2. PICK i \in 1..n : j = Len(low) + i /\ j - Len(low) = i
    <3>0. Len(low) \in Nat /\ j \in (Len(low) + 1)..(Len(low) + n)
      BY <2>1
    <3>1. j - Len(low) \in 1..n /\ j = Len(low) + (j - Len(low))
      BY <3>0
    <3> QED
      BY <3>1
  <2>3. moved[j] = <<c.item[1], i>>
    BY <1>4, <1>5, <2>1, <2>2
  <2> QED
    BY <1>2, <2>3 DEF Fresh
<1>9. PICK s \in Seq(Element) : s = m.stack
  BY StackIs, Zenon
<1>10. Grown(s, s, n, n) /\ Len(items) = Len(s)
  BY <1>2, <1>9 DEF Grown
<1>11. Tracks(items, s, c, moved, s)
  BY <1>7, <1>8, <1>10, TracksGrown, Zenon
<1>12. Gives(items, s, c, moved, s)
  BY DEF Gives
<1> QED
  BY <1>1, <1>6, <1>9, <1>11, <1>12 DEF Follows

(***************************************************************************)
(* The clean-up, one element at a time.                                    *)
(***************************************************************************)
LEMMA FinishFollows ==
    ASSUME NEW V, Anonymous \in V, NEW items \in Seq(V), NEW m \in Machines, NEW c,
           c.kind = "finish", m.ok, Executing(m), Len(items) = Len(m.stack), EvalAll(m, Emitted(items, c)).ok
    PROVE  Follows(items, m, c, Moved(items, c), EvalAll(m, Emitted(items, c)))
<1>1. PICK s \in Seq(Element) : s = m.stack
  BY StackIs, Zenon
<1>2. CASE items = <<>>
  <2>1. PICK v \in Element : v = Num(1)
    BY NumElement
  <2>2. Emitted(items, c) = <<<<"DATA", v>>>> /\ Moved(items, c) = Append(items, Anonymous) /\ Anonymous \in Fresh(c)
    BY <1>2, <2>1 DEF Emitted, Moved, Fresh
  <2>3. EvalAll(m, <<<<"DATA", v>>>>) = EvalOp(m, <<"DATA", v>>)
    BY EvalOne, Zenon
  <2>4. EvalOp(m, <<"DATA", v>>).ok
    BY <2>2, <2>3
  <2>5. EvalOp(m, <<"DATA", v>>) = WithStack(m, Append(s, v))
    BY <1>1, <2>4, Push, Zenon
  <2>6. EvalAll(m, Emitted(items, c)) = WithStack(m, Append(m.stack, v))
    BY <1>1, <2>2, <2>3, <2>5
  <2>7. c.kind # "replace" /\ c.kind # "pick" /\ c.kind # "data"
    OBVIOUS
  <2> QED
    BY <2>2, <2>6, <2>7, PushFollows, Zenon
<1>3. CASE items # <<>>
  <2>1. Emitted(items, c) = <<<<"DROP", Num(0)>>>> /\ Moved(items, c) = Front(items)
    BY <1>3 DEF Emitted, Moved
  <2>2. PICK n : n = EvalOp(m, <<"DROP", Num(0)>>)
    OBVIOUS
  <2>3. EvalAll(m, Emitted(items, c)) = n /\ n.ok
    <3>1. EvalAll(m, <<<<"DROP", Num(0)>>>>) = n
      BY <2>2, EvalOne, Zenon
    <3> QED
      BY <2>1, <3>1
  <2>4. Alive(m, n, 1, 0)
    <3>1. "DROP" \in StraightOps /\ Taken("DROP") = 1 /\ Given("DROP") = 0 /\ "DROP" \notin Blocks
      BY DEF StraightOps, BinaryOps, Taken, Given, Blocks
    <3>2. Grows(m, Operation(m, "DROP", Num(0)), 1, 0)
      BY <3>1, OperationGrows, Zenon
    <3>3. 0 \in Nat /\ 1 \in Nat
      OBVIOUS
    <3> QED
      BY <2>2, <2>3, <3>1, <3>2, <3>3, EvalGrows, Zenon
  <2>5. n \in Machines /\ n.exec = m.exec
    BY <2>4, Zenon DEF Alive
  <2>6. PICK moved \in Seq(V) : moved = Front(items) /\ Grown(items, moved, 1, 0)
    BY <1>3, FrontIs, Zenon
  <2>7. \A j \in (Len(items) - 1 + 1)..Len(moved) : moved[j] \in Fresh(c)
    BY <2>6 DEF Grown
  <2>8. 0 \in Nat /\ 1 \in Nat
    OBVIOUS
  <2>9. Tracks(items, m.stack, c, moved, n.stack)
    BY <2>4, <2>5, <2>6, <2>7, <2>8, GrownAlike, Zenon
  <2>10. Gives(items, m.stack, c, moved, n.stack)
    BY DEF Gives
  <2> QED
    BY <2>1, <2>3, <2>5, <2>6, <2>9, <2>10, Zenon DEF Follows
<1> QED
  BY <1>2, <1>3

(***************************************************************************)
(* A call that drops an item, or replaces one by the top.                  *)
(***************************************************************************)
LEMMA DropFollows ==
    ASSUME NEW V, NEW items \in Seq(V), NEW m \in Machines, NEW c, c.item \in V,
           c.kind = "drop" \/ (c.kind = "replace" /\ At(items, 0) # c.item),
           \E i \in DOMAIN items : items[i] = c.item,
           m.ok, Executing(m), Len(items) = Len(m.stack), EvalAll(m, Emitted(items, c)).ok
    PROVE  Follows(items, m, c, Moved(items, c), EvalAll(m, Emitted(items, c)))
<1>1. Rel(items, c.item) \in Nat /\ Rel(items, c.item) < Len(items) /\ At(items, Rel(items, c.item)) = c.item
  BY RelIs, Zenon
<1>2. PICK d \in Nat : d = Rel(items, c.item)
  BY <1>1
<1>3. PICK s \in Seq(Element) : s = m.stack
  BY StackIs, Zenon
<1>4. d < Len(s) /\ d < Len(items) /\ Len(items) = Len(s)
  BY <1>1, <1>2, <1>3
<1>5. Emitted(items, c) = DropOps(d)
  BY <1>2 DEF Emitted
<1>6. PICK r \in Seq(V) :
          /\ r = RemoveAt(items, Len(items) - d) /\ Len(r) = Len(items) - 1
          /\ \A j \in 1..(Len(items) - 1) : r[j] = IF j < Len(items) - d THEN items[j] ELSE items[j + 1]
  BY <1>4, RemoveIs, Zenon
<1>7. PICK t \in Seq(Element) :
          /\ t = RemoveAt(s, Len(s) - d) /\ Len(t) = Len(s) - 1
          /\ \A j \in 1..(Len(s) - 1) : t[j] = IF j < Len(s) - d THEN s[j] ELSE s[j + 1]
  BY <1>4, RemoveIs, Zenon
<1>8. EvalAll(m, DropOps(d)).ok
  BY <1>5
<1>9. EvalAll(m, DropOps(d)) = WithStack(m, RemoveAt(s, Len(s) - d))
  BY <1>3, <1>4, <1>8, DropEvaluated, Zenon
<1>10. PICK n \in Machines : n = WithStack(m, t) /\ n.stack = t /\ n.exec = m.exec
  BY RestackedIs, Zenon
<1>11. EvalAll(m, Emitted(items, c)) = n
  BY <1>5, <1>7, <1>9, <1>10
<1>12. Tracks(items, s, c, r, t)
  BY <1>4, <1>6, <1>7, TracksRemoved, Zenon
<1>13. CASE c.kind = "drop"
  <2>1. Moved(items, c) = r
    BY <1>2, <1>6, <1>13 DEF Moved
  <2>2. Gives(items, s, c, r, t)
    BY <1>13 DEF Gives
  <2> QED
    BY <1>3, <1>10, <1>11, <1>12, <2>1, <2>2 DEF Follows
<1>14. CASE c.kind = "replace" /\ At(items, 0) # c.item
  <2>1. d # 0
    BY <1>1, <1>2, <1>14
  <2>2. r # <<>>
    BY <1>4, <1>6, <2>1
  <2>3. PICK low \in Seq(V) : low = Front(r) /\ Grown(r, low, 1, 0)
    BY <2>2, FrontIs, Zenon
  <2>4. PICK moved \in Seq(V) : moved = Append(low, c.item) /\ Grown(low, moved, 0, 1) /\ moved[Len(moved)] = c.item
    BY AppendIs, Zenon
  <2>5. Moved(items, c) = moved
    BY <1>2, <1>6, <1>14, <2>3, <2>4 DEF Moved
  <2>6. Len(moved) = Len(r) /\ \A j \in 1..(Len(r) - 1) : moved[j] = r[j]
    BY <2>3, <2>4 DEF Grown
  <2>7. c.item \in Fresh(c)
    BY <1>14 DEF Fresh
  <2>8. ASSUME NEW j \in DOMAIN moved, moved[j] \notin Fresh(c)
        PROVE  \E i \in DOMAIN items : moved[j] = items[i] /\ t[j] = s[i]
    <3>1. j \in 1..Len(moved) /\ j # Len(moved)
      BY <2>4, <2>7, <2>8
    <3>2. j \in 1..(Len(r) - 1) /\ j \in DOMAIN r
      BY <2>6, <3>1
    <3>3. moved[j] = r[j]
      BY <2>6, <3>2
    <3> QED
      BY <1>12, <2>8, <3>2, <3>3 DEF Tracks
  <2>9. Tracks(items, s, c, moved, t)
    BY <1>12, <2>6, <2>8 DEF Tracks
  <2>10. Len(t) = Len(moved) /\ t[Len(t)] = s[Len(s)]
    BY <1>4, <1>6, <1>7, <2>1, <2>2, <2>6
  <2>11. Gives(items, s, c, moved, t)
    BY <1>14, <2>4, <2>10 DEF Gives, At
  <2> QED
    BY <1>3, <1>10, <1>11, <2>5, <2>9, <2>11 DEF Follows
<1> QED
  BY <1>13, <1>14

(***************************************************************************)
(* A nonempty set of depths of a stack has a least member, which is the    *)
(* one the generator drops first.                                          *)
(***************************************************************************)
LEMMA NearestIs ==
    \A V, dropped : \A items \in Seq(V) : (\E i \in DOMAIN items : items[i] \in dropped) =>
        Nearest(items, dropped) \in 0..(Len(items) - 1)
<1> SUFFICES ASSUME NEW V, NEW dropped, NEW items \in Seq(V), NEW i \in DOMAIN items, items[i] \in dropped
             PROVE  Nearest(items, dropped) \in 0..(Len(items) - 1)
  OBVIOUS
<1> DEFINE D == {d \in 0..(Len(items) - 1) : At(items, d) \in dropped}
<1>1. Len(items) - i \in D
  BY DEF At
<1>2. PICK d \in D : \A e \in D : d <= e
  <2>1. D \subseteq Nat /\ D # {}
    BY <1>1
  <2> QED
    BY <2>1, LeastOf, Zenon
<1>3. d \in 0..(Len(items) - 1) /\ At(items, d) \in dropped
  BY <1>2
<1>4. \A e \in 0..(d - 1) : e \in 0..(Len(items) - 1) /\ ~(d <= e)
  BY <1>3
<1>5. \A e \in 0..(d - 1) : At(items, e) \notin dropped
  BY <1>2, <1>4
<1> QED
  BY <1>3, <1>5 DEF Nearest

(***************************************************************************)
(* A call that drops several items, each time it is made.                  *)
(***************************************************************************)
LEMMA DropAllFollows ==
    ASSUME NEW V, NEW items \in Seq(V), NEW m \in Machines, NEW c, Repeats(items, c),
           m.ok, Executing(m), Len(items) = Len(m.stack), EvalAll(m, Emitted(items, c)).ok
    PROVE  Follows(items, m, c, Moved(items, c), EvalAll(m, Emitted(items, c)))
<1>1. c.kind = "dropAll" /\ Nearest(items, c.item) \in 0..(Len(items) - 1)
  BY NearestIs DEF Repeats
<1>2. PICK d \in Nat : d = Nearest(items, c.item)
  BY <1>1
<1>3. PICK s \in Seq(Element) : s = m.stack
  BY StackIs, Zenon
<1>4. d < Len(s) /\ d < Len(items) /\ Len(items) = Len(s)
  BY <1>1, <1>2, <1>3
<1>5. Emitted(items, c) = DropOps(d)
  BY <1>1, <1>2 DEF Emitted
<1>6. PICK r \in Seq(V) :
          /\ r = RemoveAt(items, Len(items) - d) /\ Len(r) = Len(items) - 1
          /\ \A j \in 1..(Len(items) - 1) : r[j] = IF j < Len(items) - d THEN items[j] ELSE items[j + 1]
  BY <1>4, RemoveIs, Zenon
<1>7. PICK t \in Seq(Element) :
          /\ t = RemoveAt(s, Len(s) - d) /\ Len(t) = Len(s) - 1
          /\ \A j \in 1..(Len(s) - 1) : t[j] = IF j < Len(s) - d THEN s[j] ELSE s[j + 1]
  BY <1>4, RemoveIs, Zenon
<1>8. EvalAll(m, DropOps(d)).ok
  BY <1>5
<1>9. EvalAll(m, DropOps(d)) = WithStack(m, RemoveAt(s, Len(s) - d))
  BY <1>3, <1>4, <1>8, DropEvaluated, Zenon
<1>10. PICK n \in Machines : n = WithStack(m, t) /\ n.stack = t /\ n.exec = m.exec
  BY RestackedIs, Zenon
<1>11. EvalAll(m, Emitted(items, c)) = n
  BY <1>5, <1>7, <1>9, <1>10
<1>12. Tracks(items, s, c, r, t)
  BY <1>4, <1>6, <1>7, TracksRemoved, Zenon
<1>13. Moved(items, c) = r
  BY <1>1, <1>2, <1>6 DEF Moved
<1>14. Gives(items, s, c, r, t)
  BY <1>1 DEF Gives
<1> QED
  BY <1>3, <1>10, <1>11, <1>12, <1>13, <1>14 DEF Follows

(***************************************************************************)
(* A call that leaves alone which block is open takes as many elements     *)
(* from the stack of whoever runs the script, and puts as many on it, as   *)
(* the generator thinks it does, unless the script ends there; every item  *)
(* of the generator still names the element it named, and what the call    *)
(* names or copies is the element it should be.  So the position at which  *)
(* the generator looks up an operand is where the operand lies, however    *)
(* long the script is.                                                     *)
(***************************************************************************)
THEOREM CallKeepsTrack ==
    ASSUME NEW V, NEW items \in Seq(V), NEW m \in Machines, NEW c, Straight(items, c),
           m.ok, Executing(m), Len(items) = Len(m.stack), EvalAll(m, Emitted(items, c)).ok
    PROVE  Follows(items, m, c, Moved(items, c), EvalAll(m, Emitted(items, c)))
<1>1. PICK W : W = V \cup {Anonymous, c.item} \cup {<<c.item[1], i>> : i \in Nat}
  OBVIOUS
<1>2. items \in Seq(W) /\ Anonymous \in W /\ c.item \in W
  BY <1>1
<1>3. CASE c.kind = "op" /\ c.op \in StraightOps
  BY <1>2, <1>3, NativeFollows, Zenon
<1>4. CASE c.kind = "data" /\ c.v \in Element
  BY <1>2, <1>4, DataFollows, Zenon
<1>5. CASE c.kind \in {"pick", "position", "fetch", "drop", "replace"}
  <2>1. \E i \in DOMAIN items : items[i] = c.item /\ (c.kind = "replace" => At(items, 0) # c.item)
    BY <1>5 DEF Straight, Repeats
  <2>2. CASE c.kind = "pick"
    BY <1>2, <2>1, <2>2, PickFollows, Zenon
  <2>3. CASE c.kind = "position"
    BY <1>2, <2>1, <2>3, PositionFollows, Zenon
  <2>4. CASE c.kind = "fetch"
    BY <1>2, <2>1, <2>4, FetchFollows, Zenon
  <2>5. CASE c.kind \in {"drop", "replace"}
    BY <1>2, <2>1, <2>5, DropFollows, Zenon
  <2>6. c.kind \in {"drop", "replace"} \/ c.kind = "pick" \/ c.kind = "position" \/ c.kind = "fetch"
    BY <1>5, Zenon
  <2> QED
    BY <2>2, <2>3, <2>4, <2>5, <2>6, Zenon
<1>6. CASE c.kind = "name" /\ c.item[2] \in 0..Len(items)
  <2>1. \A i \in 1..c.item[2] : <<c.item[1], i>> \in W
    BY <1>1, <1>6
  <2> QED
    BY <1>2, <1>6, <2>1, NameFollows, Zenon
<1>7. CASE c.kind = "finish"
  BY <1>2, <1>7, FinishFollows, Zenon
<1>8. CASE Repeats(items, c)
  BY <1>8, DropAllFollows, Zenon
<1>9. \/ c.kind = "op" /\ c.op \in StraightOps
      \/ c.kind = "data" /\ c.v \in Element
      \/ c.kind \in {"pick", "position", "fetch", "drop", "replace"}
      \/ c.kind = "name" /\ c.item[2] \in 0..Len(items)
      \/ c.kind = "finish"
      \/ Repeats(items, c)
  BY Zenon DEF Straight
<1> QED
  BY <1>3, <1>4, <1>5, <1>6, <1>7, <1>8, <1>9, Zenon

\* What a method does that makes the calls code[1..n]: the generator's items and
\* the machine after each of them, as FinalStep's Write makes them.
Runs(f, code, items, m, n) ==
    f = [i \in 0..n |->
            IF i = 0 THEN [items |-> items, machine |-> m]
            ELSE LET before == f[i - 1]
                 IN  [items   |-> Moved(before.items, code[i]),
                      machine |-> EvalAll(before.machine, Emitted(before.items, code[i]))]]

(***************************************************************************)
(* A method of the generator that is made of such calls, however many,     *)
(* keeps the two stacks at the same height at every call, for as long as   *)
(* the script lives.                                                       *)
(***************************************************************************)
THEOREM MethodsAlign ==
    ASSUME NEW n \in Nat, NEW code, NEW V, NEW items \in Seq(V), NEW m \in Machines, NEW f,
           Runs(f, code, items, m, n), m.ok, Executing(m), Len(items) = Len(m.stack),
           \A i \in 1..n : Straight(f[i - 1].items, code[i]), \A i \in 1..n : f[i].machine.ok
    PROVE  \A i \in 0..n : /\ Len(f[i].items) = Len(f[i].machine.stack)
                           /\ f[i].machine.exec = m.exec
<1> DEFINE Good(i) == /\ f[i].machine \in Machines /\ \E W : f[i].items \in Seq(W)
                      /\ Len(f[i].items) = Len(f[i].machine.stack)
                      /\ f[i].machine.exec = m.exec /\ f[i].machine.ok
           S == {i \in 0..n : Good(i)}
<1>1. 0 \in S
  <2>1. 0 \in 0..n /\ f[0] = [items |-> items, machine |-> m]
    BY DEF Runs
  <2> QED
    BY <2>1
<1>2. ASSUME NEW i \in 0..(n - 1), i \in S PROVE i + 1 \in S
  <2>1. i + 1 \in 1..n /\ i + 1 \in 0..n /\ i + 1 # 0 /\ (i + 1) - 1 = i
    OBVIOUS
  <2>2. PICK a \in Machines : a = f[i].machine
    BY <1>2
  <2>3. PICK W, x : x = f[i].items /\ x \in Seq(W)
    BY <1>2
  <2>4. PICK c : c = code[i + 1]
    OBVIOUS
  <2>5. Straight(x, c)
    BY <2>1, <2>3, <2>4
  <2>6. f[i + 1] = [items |-> Moved(x, c), machine |-> EvalAll(a, Emitted(x, c))]
    BY <2>1, <2>2, <2>3, <2>4 DEF Runs
  <2>7. EvalAll(a, Emitted(x, c)).ok
    BY <2>1, <2>6
  <2>8. a.ok /\ a.exec = m.exec /\ Executing(a) /\ Len(x) = Len(a.stack)
    BY <1>2, <2>2, <2>3 DEF Executing
  <2>9. Follows(x, a, c, Moved(x, c), EvalAll(a, Emitted(x, c)))
    BY <2>3, <2>5, <2>7, <2>8, CallKeepsTrack, Zenon
  <2>10. PICK y, b : y = Moved(x, c) /\ b = EvalAll(a, Emitted(x, c)) /\ f[i + 1].items = y /\ f[i + 1].machine = b
    BY <2>6
  <2>11. b \in Machines /\ b.exec = a.exec /\ (\E U : y \in Seq(U)) /\ Len(y) = Len(b.stack)
    BY <2>9, <2>10, Zenon DEF Follows, Tracks
  <2> QED
    BY <2>1, <2>7, <2>8, <2>10, <2>11
<1> HIDE DEF S
<1>3. \A i \in 0..(n - 1) : i \in S => i + 1 \in S
  BY <1>2
<1>4. \A i \in 0..n : i \in S
  BY <1>1, <1>3, CountUp, Zenon
<1> QED
  BY <1>4 DEF S
================================================================================
