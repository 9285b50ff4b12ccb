--------------------------- MODULE IntegerProofs ---------------------------
(***************************************************************************)
(* The integers of the computer algebra return what those of mathematics   *)
(* say, for every width of the digits, every largest number of digits and  *)
(* every operands.                                                         *)
(*                                                                         *)
(* A number is the sum of its digits times the powers of the base.  What   *)
(* the code computes digit after digit, and what this sum means, are       *)
(* recursive functions on the naturals: they are reasoned about by the     *)
(* induction of the first section, which is stated with sets.  One lemma   *)
(* is behind every operation: if each column of a result is exact with     *)
(* the carries between the columns, the number is (Carrying).  It gives    *)
(* the sums, the rows of the products and the shifts.                      *)
(*                                                                         *)
(* The division goes by half digits.  The denominator is shifted so that   *)
(* its highest one is large; then the digit that is tried is never less    *)
(* than the one of the quotient, and the corrections stop there, within    *)
(* the one digit more that the code allows itself.                         *)
(*                                                                         *)
(* The operations that loop have an invariant each, and the specification  *)
(* has them all (ExactInv): between two turns, what the loop holds         *)
(* determines what the operation should return.                            *)
(*                                                                         *)
(* A product or a quotient of variables is given a name of its own before  *)
(* a bound is drawn from it: the prover's arithmetic is linear.            *)
(***************************************************************************)
EXTENDS BigIntegers, WellFoundedInduction, SequenceTheorems, FiniteSetTheorems, TLAPS

-----------------------------------------------------------------------------
(* Induction *)

\* A set of naturals that holds something has a least element: the library's theorem on
\* minimal elements, for the order of the naturals.
LEMMA LeastElement ==
  ASSUME NEW T, T \subseteq Nat, T # {}
  PROVE  \E x \in T : \A y \in T : x <= y
<1>1. IsWellFoundedOn(OpToRel(<, Nat), Nat)
  BY NatLessThanWellFounded, Zenon
<1>2. PICK x \in T : \A y \in T : ~ (<<y, x>> \in OpToRel(<, Nat))
  BY <1>1, WFMin, Zenon
<1>3. ASSUME NEW y \in T PROVE x <= y
  <2>1. x \in Nat /\ y \in Nat
    OBVIOUS
  <2>2. ~ (y < x)
    BY <1>2, <2>1 DEF OpToRel
  <2>. QED
    BY <2>1, <2>2
<1>. QED
  BY <1>3

\* What is true of zero and of the successor of every number it is true of is true of
\* all: the truth is a set here, since no prover instantiates the library's induction.
LEMMA SetInduction ==
  ASSUME NEW T, 0 \in T, \A n \in Nat : n \in T => n + 1 \in T
  PROVE  Nat \subseteq T
<1>. SUFFICES ASSUME Nat \ T # {} PROVE FALSE
  OBVIOUS
<1>1. PICK x \in Nat \ T : \A y \in Nat \ T : x <= y
  BY LeastElement
<1>2. x # 0 /\ x - 1 \in Nat /\ (x - 1) + 1 = x /\ ~ (x <= x - 1)
  BY <1>1
<1>3. x - 1 \in T
  BY <1>1, <1>2
<1>. QED
  BY <1>1, <1>2, <1>3

-----------------------------------------------------------------------------
(* Recursion *)

\* f begins with z, and each of its values up to n, or all, is made of the one before.
Computes(f, V, z, g, n) ==
  f \in [0 .. n -> V] /\ f[0] = z /\ \A i \in 0 .. n - 1 : f[i + 1] = g[i][f[i]]

\* The same for every natural
ComputesAll(f, V, z, g) ==
  f \in [Nat -> V] /\ f[0] = z /\ \A i \in Nat : f[i + 1] = g[i][f[i]]

\* A recursive function exists: induction on the length of what is computed.
LEMMA FiniteRecursion ==
  ASSUME NEW V, NEW z \in V, NEW g \in [Nat -> [V -> V]], NEW n \in Nat
  PROVE  \E f : Computes(f, V, z, g, n)
<1>. DEFINE T == {m \in Nat : \E f : Computes(f, V, z, g, m)}
<1>1. 0 \in T
  <2>. DEFINE f == [i \in 0 .. 0 |-> z]
  <2>1. Computes(f, V, z, g, 0)
    BY DEF Computes
  <2>. QED
    BY <2>1
<1>2. ASSUME NEW m \in Nat, m \in T PROVE m + 1 \in T
  <2>1. PICK f : Computes(f, V, z, g, m)
    BY <1>2
  <2>. DEFINE h == [i \in 0 .. m + 1 |-> IF i <= m THEN f[i] ELSE g[m][f[m]]]
  <2>2. m \in 0 .. m /\ f[m] \in V /\ g[m][f[m]] \in V
    BY <2>1 DEF Computes
  <2>3. h \in [0 .. m + 1 -> V] /\ h[0] = z
    BY <2>1, <2>2 DEF Computes
  <2>4. ASSUME NEW i \in 0 .. (m + 1) - 1 PROVE h[i + 1] = g[i][h[i]]
    <3>1. i \in 0 .. m + 1 /\ i + 1 \in 0 .. m + 1 /\ i <= m
      OBVIOUS
    <3>2. CASE i + 1 <= m
      BY <2>1, <3>1, <3>2 DEF Computes
    <3>3. CASE ~ (i + 1 <= m)
      <4>1. i = m
        BY <3>1, <3>3
      <4>. QED
        BY <3>1, <3>3, <4>1
    <3>. QED
      BY <3>2, <3>3
  <2>5. Computes(h, V, z, g, m + 1)
    BY <2>3, <2>4 DEF Computes
  <2>. HIDE DEF h
  <2>. QED
    BY <2>5
<1>. HIDE DEF T
<1>3. n \in T
  BY <1>1, <1>2, SetInduction
<1>. QED
  BY <1>3 DEF T

\* A function on the naturals can be defined by what it is at zero and after n
LEMMA NatRecursion ==
  ASSUME NEW V, NEW z \in V, NEW g \in [Nat -> [V -> V]]
  PROVE  \E f : ComputesAll(f, V, z, g)
<1>. DEFINE F(n) == CHOOSE h : Computes(h, V, z, g, n)
            f == [n \in Nat |-> F(n)[n]]
<1>1. ASSUME NEW n \in Nat PROVE Computes(F(n), V, z, g, n)
  <2>1. \E h : Computes(h, V, z, g, n)
    BY FiniteRecursion
  <2>. QED
    BY <2>1
<1>. HIDE DEF F
<1>2. ASSUME NEW n \in Nat PROVE F(n + 1)[n] = F(n)[n]
  <2>. DEFINE T == {i \in Nat : i <= n => F(n + 1)[i] = F(n)[i]}
  <2>1. n + 1 \in Nat
    OBVIOUS
  <2>2. Computes(F(n + 1), V, z, g, n + 1) /\ Computes(F(n), V, z, g, n)
    BY <1>1, <2>1
  <2>3. 0 \in T
    BY <2>2 DEF Computes
  <2>4. ASSUME NEW i \in Nat, i \in T PROVE i + 1 \in T
    <3>. SUFFICES ASSUME i + 1 <= n PROVE F(n + 1)[i + 1] = F(n)[i + 1]
      OBVIOUS
    <3>1. i \in 0 .. n - 1 /\ i \in 0 .. (n + 1) - 1 /\ i <= n
      OBVIOUS
    <3>. QED
      BY <2>2, <2>4, <3>1 DEF Computes
  <2>. HIDE DEF T
  <2>5. n \in T
    BY <2>3, <2>4, SetInduction
  <2>. QED
    BY <2>5 DEF T
<1>3. ASSUME NEW n \in Nat PROVE F(n)[n] \in V
  <2>1. n \in 0 .. n /\ Computes(F(n), V, z, g, n)
    BY <1>1
  <2>. QED
    BY <2>1 DEF Computes
<1>4. f[0] = z
  <2>1. Computes(F(0), V, z, g, 0)
    BY <1>1
  <2>. QED
    BY <2>1 DEF Computes
<1>5. ASSUME NEW p \in Nat PROVE f[p + 1] = g[p][f[p]]
  <2>1. p + 1 \in Nat /\ p \in 0 .. (p + 1) - 1 /\ Computes(F(p + 1), V, z, g, p + 1)
    BY <1>1
  <2>2. F(p + 1)[p + 1] = g[p][F(p + 1)[p]]
    BY <2>1 DEF Computes
  <2>. QED
    BY <1>2, <2>1, <2>2
<1>6. f \in [Nat -> V]
  BY <1>3
<1>. HIDE DEF f
<1>. QED
  BY <1>4, <1>5, <1>6 DEF ComputesAll

-----------------------------------------------------------------------------
(* Powers *)

\* Zeroth power, and the next ones: what PowerOf computes
LEMMA Powers ==
  ASSUME NEW v \in Int
  PROVE  /\ PowerOf(v, 0) = 1
         /\ \A n \in Nat : PowerOf(v, n) \in Int /\ PowerOf(v, n + 1) = v * PowerOf(v, n)
<1>1. \E h : h = [i \in Nat |-> IF i = 0 THEN 1 ELSE v * h[i - 1]]
  <2>. DEFINE g == [i \in Nat |-> [w \in Int |-> v * w]]
  <2>1. g \in [Nat -> [Int -> Int]] /\ 1 \in Int
    OBVIOUS
  <2>. HIDE DEF g
  <2>2. PICK h : ComputesAll(h, Int, 1, g)
    BY <2>1, NatRecursion
  <2>3. h \in [Nat -> Int] /\ h[0] = 1 /\ \A i \in Nat : h[i + 1] = v * h[i]
    BY <2>2 DEF ComputesAll, g
  <2>4. ASSUME NEW i \in Nat PROVE h[i] = IF i = 0 THEN 1 ELSE v * h[i - 1]
    <3>1. i = 0 \/ (i - 1 \in Nat /\ (i - 1) + 1 = i)
      OBVIOUS
    <3>. QED
      BY <2>3, <3>1
  <2>5. h = [i \in Nat |-> h[i]]
    BY <2>3
  <2>. QED
    BY <2>4, <2>5
<1>. DEFINE f == CHOOSE f : f = [i \in Nat |-> IF i = 0 THEN 1 ELSE v * f[i - 1]]
            T == {i \in Nat : f[i] \in Int}
<1>2. \A n : PowerOf(v, n) = f[n]
  BY DEF PowerOf
<1>3. f = [i \in Nat |-> IF i = 0 THEN 1 ELSE v * f[i - 1]]
  BY <1>1
<1>. HIDE DEF f
<1>4. f[0] = 1 /\ \A n \in Nat : f[n + 1] = v * f[n]
  <2>1. \A n \in Nat : n + 1 \in Nat /\ n + 1 # 0 /\ (n + 1) - 1 = n
    OBVIOUS
  <2>. QED
    BY <1>3, <2>1
<1>5. 0 \in T /\ \A n \in Nat : n \in T => n + 1 \in T
  BY <1>4
<1>6. Nat \subseteq T
  <2>. HIDE DEF T
  <2>. QED
    BY <1>5, SetInduction
<1>. QED
  BY <1>2, <1>4, <1>6

\* The powers of a positive number are positive and never decrease
LEMMA PowersGrow ==
  ASSUME NEW v \in Nat, v >= 1
  PROVE  /\ \A n \in Nat : PowerOf(v, n) \in Nat /\ PowerOf(v, n) >= 1
         /\ \A m, n \in Nat : m <= n => PowerOf(v, m) <= PowerOf(v, n)
<1>. DEFINE P(n) == PowerOf(v, n)
            T == {n \in Nat : P(n) >= 1}
<1>1. P(0) = 1 /\ \A n \in Nat : P(n) \in Int /\ P(n + 1) = v * P(n)
  BY Powers
<1>. HIDE DEF P
<1>2. ASSUME NEW x \in Int, x >= 1 PROVE v * x \in Int /\ v * x >= x
  <2>1. PICK p \in Nat : v = p + 1
    <3>1. v - 1 \in Nat /\ v = (v - 1) + 1
      OBVIOUS
    <3>. QED
      BY <3>1
  <2>2. x \in Nat
    BY <1>2
  <2>3. p * x \in Int /\ p * x >= 0
    BY <2>2
  <2>4. (p + 1) * x = p * x + x
    BY <2>2
  <2>. QED
    BY <2>1, <2>2, <2>3, <2>4
<1>3. Nat \subseteq T
  <2>1. 0 \in T
    BY <1>1
  <2>2. ASSUME NEW n \in Nat, n \in T PROVE n + 1 \in T
    <3>1. v * P(n) \in Int /\ v * P(n) >= P(n)
      BY <1>1, <1>2, <2>2
    <3>. QED
      BY <1>1, <2>2, <3>1
  <2>. HIDE DEF T
  <2>. QED
    BY <2>1, <2>2, SetInduction
<1>4. \A n \in Nat : P(n) \in Nat /\ P(n) >= 1 /\ P(n + 1) >= P(n)
  <2>. SUFFICES ASSUME NEW n \in Nat PROVE P(n) \in Nat /\ P(n) >= 1 /\ P(n + 1) >= P(n)
    OBVIOUS
  <2>1. P(n) >= 1 /\ P(n) \in Int
    BY <1>1, <1>3
  <2>. QED
    BY <1>1, <1>2, <2>1
<1>5. ASSUME NEW m \in Nat, NEW n \in Nat, m <= n PROVE P(m) <= P(n)
  <2>. DEFINE S == {k \in Nat : m <= k => P(m) <= P(k)}
  <2>1. 0 \in S
    BY <1>4
  <2>2. ASSUME NEW k \in Nat, k \in S PROVE k + 1 \in S
    <3>1. P(k) \in Nat /\ P(k + 1) \in Nat /\ P(k + 1) >= P(k) /\ P(m) \in Nat /\ k + 1 \in Nat
      BY <1>4
    <3>2. CASE m <= k
      BY <2>2, <3>1, <3>2
    <3>3. CASE ~ (m <= k)
      <4>1. m = k + 1 \/ ~ (m <= k + 1)
        BY <3>3
      <4>. QED
        BY <3>1, <4>1
    <3>. QED
      BY <3>2, <3>3
  <2>. HIDE DEF S
  <2>3. n \in S
    BY <2>1, <2>2, SetInduction
  <2>. QED
    BY <1>5, <2>3 DEF S
<1>. QED
  BY <1>4, <1>5 DEF P

\* The sum of two exponents
LEMMA PowersMultiply ==
  ASSUME NEW v \in Int, NEW m \in Nat, NEW n \in Nat
  PROVE  PowerOf(v, m + n) = PowerOf(v, m) * PowerOf(v, n)
<1>. DEFINE T == {k \in Nat : PowerOf(v, m + k) = PowerOf(v, m) * PowerOf(v, k)}
<1>1. 0 \in T
  <2>1. m + 0 = m /\ PowerOf(v, 0) = 1 /\ PowerOf(v, m) \in Int
    BY Powers
  <2>. QED
    BY <2>1
<1>2. ASSUME NEW k \in Nat, k \in T PROVE k + 1 \in T
  <2>1. /\ PowerOf(v, m) \in Int /\ PowerOf(v, k) \in Int
        /\ PowerOf(v, k + 1) = v * PowerOf(v, k)
    BY Powers
  <2>2. m + k \in Nat /\ m + (k + 1) = (m + k) + 1
    OBVIOUS
  <2>3. PowerOf(v, m + (k + 1)) = v * PowerOf(v, m + k)
    BY <2>2, Powers
  <2>4. \A a, b \in Int : v * (a * b) = a * (v * b)
    OBVIOUS
  <2>. QED
    BY <1>2, <2>1, <2>3, <2>4
<1>. HIDE DEF T
<1>3. n \in T
  BY <1>1, <1>2, SetInduction
<1>. QED
  BY <1>3 DEF T

-----------------------------------------------------------------------------
(* Arithmetic *)

\* Products of naturals
LEMMA ProductIsNat ==
  ASSUME NEW a \in Nat, NEW p \in Nat
  PROVE  a * p \in Nat
<1>1. a * p \in Int /\ a * p >= 0
  OBVIOUS
<1>. QED
  BY <1>1

\* A natural factor keeps the order
LEMMA ProductGrows ==
  ASSUME NEW a \in Int, NEW c \in Int, NEW p \in Nat, a <= c
  PROVE  a * p <= c * p /\ p * a <= p * c
<1>1. PICK e \in Nat : c = a + e
  <2>1. c - a \in Nat /\ c = a + (c - a)
    OBVIOUS
  <2>. QED
    BY <2>1
<1>2. e * p \in Nat
  BY ProductIsNat
<1>3. c * p = a * p + e * p /\ p * c = c * p /\ p * a = a * p /\ a * p \in Int
  BY <1>1
<1>. QED
  BY <1>2, <1>3

\* Products of sums and differences, for atoms that the solver need not expand
LEMMA Distributes ==
  ASSUME NEW a \in Int, NEW c \in Int, NEW p \in Int
  PROVE  /\ (a + c) * p = a * p + c * p /\ (a - c) * p = a * p - c * p
         /\ p * (a + c) = p * a + p * c /\ p * (a - c) = p * a - p * c
         /\ a * p \in Int /\ c * p \in Int /\ p * a = a * p /\ p * c = c * p
OBVIOUS

\* Products of three factors
LEMMA ProductsAssociate ==
  ASSUME NEW a \in Int, NEW c \in Int, NEW p \in Int
  PROVE  a * (c * p) = (a * c) * p /\ a * (c * p) = c * (a * p) /\ a * (c * p) = (c * a) * p
OBVIOUS

-----------------------------------------------------------------------------
(* The numbers that digits write *)

\* The number of no digit, and of one digit more: what Upto computes
LEMMA UptoFacts ==
  ASSUME NEW d \in [Nat -> Int], NEW b \in Int
  PROVE  /\ Upto(d, b, 0) = 0
         /\ \A n \in Nat : /\ Upto(d, b, n) \in Int
                           /\ Upto(d, b, n + 1) = Upto(d, b, n) + d[n] * PowerOf(b, n)
<1>0. \A n \in Nat : d[n] * PowerOf(b, n) \in Int
  <2>. SUFFICES ASSUME NEW n \in Nat PROVE d[n] * PowerOf(b, n) \in Int
    OBVIOUS
  <2>1. PowerOf(b, n) \in Int /\ d[n] \in Int
    BY Powers
  <2>. QED
    BY <2>1
<1>1. \E h : h = [i \in Nat |-> IF i = 0 THEN 0 ELSE h[i - 1] + d[i - 1] * PowerOf(b, i - 1)]
  <2>. DEFINE g == [i \in Nat |-> [w \in Int |-> w + d[i] * PowerOf(b, i)]]
  <2>1. g \in [Nat -> [Int -> Int]] /\ 0 \in Int
    BY <1>0
  <2>. HIDE DEF g
  <2>2. PICK h : ComputesAll(h, Int, 0, g)
    BY <2>1, NatRecursion
  <2>3. h \in [Nat -> Int] /\ h[0] = 0 /\ \A i \in Nat : h[i + 1] = h[i] + d[i] * PowerOf(b, i)
    BY <2>2 DEF ComputesAll, g
  <2>4. ASSUME NEW i \in Nat
        PROVE  h[i] = IF i = 0 THEN 0 ELSE h[i - 1] + d[i - 1] * PowerOf(b, i - 1)
    <3>1. CASE i = 0
      BY <2>3, <3>1
    <3>2. CASE i # 0
      <4>1. i - 1 \in Nat /\ (i - 1) + 1 = i
        BY <3>2
      <4>2. h[(i - 1) + 1] = h[i - 1] + d[i - 1] * PowerOf(b, i - 1)
        BY <2>3, <4>1
      <4>. QED
        BY <3>2, <4>1, <4>2
    <3>. QED
      BY <3>1, <3>2
  <2>5. h = [i \in Nat |-> h[i]]
    BY <2>3
  <2>. QED
    BY <2>4, <2>5
<1>. DEFINE f == CHOOSE f : f = [i \in Nat |-> IF i = 0 THEN 0 ELSE f[i - 1] + d[i - 1] * PowerOf(b, i - 1)]
            T == {i \in Nat : f[i] \in Int}
<1>2. \A n : Upto(d, b, n) = f[n]
  BY DEF Upto
<1>3. f = [i \in Nat |-> IF i = 0 THEN 0 ELSE f[i - 1] + d[i - 1] * PowerOf(b, i - 1)]
  BY <1>1
<1>. HIDE DEF f
<1>4. f[0] = 0 /\ \A n \in Nat : f[n + 1] = f[n] + d[n] * PowerOf(b, n)
  <2>1. \A n \in Nat : n + 1 \in Nat /\ n + 1 # 0 /\ (n + 1) - 1 = n
    OBVIOUS
  <2>. QED
    BY <1>3, <2>1
<1>5. 0 \in T /\ \A n \in Nat : n \in T => n + 1 \in T
  BY <1>0, <1>4
<1>6. Nat \subseteq T
  <2>. HIDE DEF T
  <2>. QED
    BY <1>5, SetInduction
<1>. QED
  BY <1>2, <1>4, <1>6

\* Carries that go from each column to the next change nothing but the last one.
LEMMA Carrying ==
  ASSUME NEW f \in [Nat -> Int], NEW c \in [Nat -> Int], NEW k \in [Nat -> Int], NEW b \in Int,
         NEW n \in Nat, \A i \in 0 .. n - 1 : f[i] = c[i] + b * k[i + 1] - k[i]
  PROVE  Upto(f, b, n) = Upto(c, b, n) + k[n] * PowerOf(b, n) - k[0]
<1>. DEFINE T == {m \in Nat : m <= n => Upto(f, b, m) = Upto(c, b, m) + k[m] * PowerOf(b, m) - k[0]}
<1>1. 0 \in T
  <2>1. Upto(f, b, 0) = 0 /\ Upto(c, b, 0) = 0 /\ PowerOf(b, 0) = 1 /\ k[0] \in Int
    BY UptoFacts, Powers
  <2>. QED
    BY <2>1
<1>2. ASSUME NEW m \in Nat, m \in T PROVE m + 1 \in T
  <2>. SUFFICES ASSUME m + 1 <= n
                PROVE Upto(f, b, m + 1) = Upto(c, b, m + 1) + k[m + 1] * PowerOf(b, m + 1) - k[0]
    OBVIOUS
  <2>. DEFINE p == PowerOf(b, m)
  <2>1. m \in 0 .. n - 1 /\ m <= n
    OBVIOUS
  <2>2. Upto(f, b, m) = Upto(c, b, m) + k[m] * p - k[0]
    BY <1>2, <2>1
  <2>3. f[m] = c[m] + b * k[m + 1] - k[m]
    BY <2>1
  <2>4. /\ Upto(f, b, m + 1) = Upto(f, b, m) + f[m] * p
        /\ Upto(c, b, m + 1) = Upto(c, b, m) + c[m] * p
        /\ Upto(f, b, m) \in Int /\ Upto(c, b, m) \in Int
        /\ PowerOf(b, m + 1) = b * p /\ p \in Int
    BY UptoFacts, Powers
  <2>5. f[m] \in Int /\ c[m] \in Int /\ k[m] \in Int /\ k[m + 1] \in Int /\ k[0] \in Int
    OBVIOUS
  <2>. HIDE DEF p
  <2>6. \A x, y, z, w \in Int : (x + b * y - z) * w = x * w + y * (b * w) - z * w
    OBVIOUS
  <2>7. f[m] * p = c[m] * p + k[m + 1] * (b * p) - k[m] * p
    BY <2>3, <2>4, <2>5, <2>6
  <2>8. c[m] * p \in Int /\ k[m + 1] * (b * p) \in Int /\ k[m] * p \in Int
    BY <2>4, <2>5
  <2>. QED
    BY <2>2, <2>4, <2>5, <2>7, <2>8
<1>. HIDE DEF T
<1>3. n \in T
  BY <1>1, <1>2, SetInduction
<1>. QED
  BY <1>3 DEF T

\* The digits of f are s times those of d and t times those of e.
Combines(f, d, e, s, t, n) == \A i \in 0 .. n - 1 : f[i] = s * d[i] + t * e[i]

\* The number of the digits s d[i] + t e[i]
LEMMA Linear ==
  ASSUME NEW f \in [Nat -> Int], NEW d \in [Nat -> Int], NEW e \in [Nat -> Int], NEW b \in Int,
         NEW s \in Int, NEW t \in Int, NEW n \in Nat,
         Combines(f, d, e, s, t, n)
  PROVE  Upto(f, b, n) = s * Upto(d, b, n) + t * Upto(e, b, n)
<1>. DEFINE T == {m \in Nat : m <= n => Upto(f, b, m) = s * Upto(d, b, m) + t * Upto(e, b, m)}
<1>1. 0 \in T
  <2>1. Upto(f, b, 0) = 0 /\ Upto(d, b, 0) = 0 /\ Upto(e, b, 0) = 0
    BY UptoFacts
  <2>. QED
    BY <2>1
<1>2. ASSUME NEW m \in Nat, m \in T PROVE m + 1 \in T
  <2>. SUFFICES ASSUME m + 1 <= n
                PROVE Upto(f, b, m + 1) = s * Upto(d, b, m + 1) + t * Upto(e, b, m + 1)
    OBVIOUS
  <2>. DEFINE p == PowerOf(b, m)
  <2>1. m \in 0 .. n - 1 /\ m <= n
    OBVIOUS
  <2>2. Upto(f, b, m) = s * Upto(d, b, m) + t * Upto(e, b, m)
    BY <1>2, <2>1
  <2>3. f[m] = s * d[m] + t * e[m]
    BY <2>1 DEF Combines
  <2>4. /\ Upto(f, b, m + 1) = Upto(f, b, m) + f[m] * p
        /\ Upto(d, b, m + 1) = Upto(d, b, m) + d[m] * p
        /\ Upto(e, b, m + 1) = Upto(e, b, m) + e[m] * p
        /\ Upto(d, b, m) \in Int /\ Upto(e, b, m) \in Int /\ p \in Int
    BY UptoFacts, Powers
  <2>5. d[m] \in Int /\ e[m] \in Int
    OBVIOUS
  <2>. HIDE DEF p
  <2>6. \A x, y, u, v, w \in Int :
          (s * x + t * y) + (s * u + t * v) * w = s * (x + u * w) + t * (y + v * w)
    OBVIOUS
  <2>. QED
    BY <2>2, <2>3, <2>4, <2>5, <2>6
<1>. HIDE DEF T
<1>3. n \in T
  BY <1>1, <1>2, SetInduction
<1>. QED
  BY <1>3 DEF T

\* The number of n digits depends on these digits only
LEMMA SameDigits ==
  ASSUME NEW d \in [Nat -> Int], NEW e \in [Nat -> Int], NEW b \in Int, NEW n \in Nat,
         \A i \in 0 .. n - 1 : d[i] = e[i]
  PROVE  Upto(d, b, n) = Upto(e, b, n)
<1>. DEFINE T == {m \in Nat : m <= n => Upto(d, b, m) = Upto(e, b, m)}
<1>1. 0 \in T
  BY UptoFacts
<1>2. ASSUME NEW m \in Nat, m \in T PROVE m + 1 \in T
  <2>. SUFFICES ASSUME m + 1 <= n PROVE Upto(d, b, m + 1) = Upto(e, b, m + 1)
    OBVIOUS
  <2>1. m \in 0 .. n - 1 /\ m <= n
    OBVIOUS
  <2>2. d[m] = e[m] /\ Upto(d, b, m) = Upto(e, b, m)
    BY <1>2, <2>1
  <2>3. /\ Upto(d, b, m + 1) = Upto(d, b, m) + d[m] * PowerOf(b, m)
        /\ Upto(e, b, m + 1) = Upto(e, b, m) + e[m] * PowerOf(b, m)
    BY UptoFacts
  <2>. QED
    BY <2>2, <2>3
<1>. HIDE DEF T
<1>3. n \in T
  BY <1>1, <1>2, SetInduction
<1>. QED
  BY <1>3 DEF T

\* The digits from the m-th on are a number of their own.
LEMMA Splits ==
  ASSUME NEW d \in [Nat -> Int], NEW b \in Int, NEW m \in Nat, NEW n \in Nat
  PROVE  Upto(d, b, m + n) = Upto(d, b, m) + PowerOf(b, m) * Upto([i \in Nat |-> d[m + i]], b, n)
<1>. DEFINE h == [i \in Nat |-> d[m + i]]
            q == PowerOf(b, m)
            T == {k \in Nat : Upto(d, b, m + k) = Upto(d, b, m) + q * Upto(h, b, k)}
<1>1. h \in [Nat -> Int] /\ q \in Int /\ Upto(d, b, m) \in Int
  <2>1. \A i \in Nat : m + i \in Nat
    OBVIOUS
  <2>2. q \in Int /\ Upto(d, b, m) \in Int
    BY UptoFacts, Powers
  <2>. HIDE DEF q
  <2>3. h \in [Nat -> Int]
    BY <2>1
  <2>. QED
    BY <2>2, <2>3
<1>2. 0 \in T
  <2>. HIDE DEF h, q
  <2>0. Upto(h, b, 0) = 0
    BY <1>1, UptoFacts
  <2>1. m + 0 = m /\ Upto(h, b, 0) = 0 /\ q * 0 = 0 /\ 0 \in Nat
    BY <1>1, <2>0
  <2>2. Upto(d, b, m + 0) = Upto(d, b, m) + q * Upto(h, b, 0)
    BY <1>1, <2>1
  <2>. QED
    BY <2>1, <2>2
<1>3. ASSUME NEW k \in Nat, k \in T PROVE k + 1 \in T
  <2>. DEFINE p == PowerOf(b, k)
  <2>1. m + k \in Nat /\ m + (k + 1) = (m + k) + 1 /\ h[k] = d[m + k] /\ h[k] \in Int
    OBVIOUS
  <2>2. /\ Upto(d, b, (m + k) + 1) = Upto(d, b, m + k) + d[m + k] * PowerOf(b, m + k)
        /\ Upto(h, b, k + 1) = Upto(h, b, k) + h[k] * p /\ Upto(h, b, k) \in Int
        /\ PowerOf(b, m + k) = q * p /\ p \in Int
    BY <1>1, <2>1, UptoFacts, Powers, PowersMultiply, ZenonT(60)
  <2>3. Upto(d, b, m + k) = Upto(d, b, m) + q * Upto(h, b, k)
    BY <1>3
  <2>. HIDE DEF h, q, p
  <2>4. \A x, y, z \in Int : q * x + y * (q * z) = q * (x + y * z) /\ q * x \in Int /\ y * (q * z) \in Int
    BY <1>1
  <2>5. Upto(d, b, (m + k) + 1) = Upto(d, b, m) + q * Upto(h, b, k) + h[k] * (q * p)
    BY <1>1, <2>1, <2>2, <2>3
  <2>6. Upto(d, b, (m + k) + 1) = Upto(d, b, m) + q * Upto(h, b, k + 1)
    BY <1>1, <2>1, <2>2, <2>4, <2>5
  <2>. QED
    BY <2>1, <2>6
<1>. HIDE DEF T
<1>4. n \in T
  BY <1>2, <1>3, SetInduction
<1>. QED
  BY <1>4 DEF T

-----------------------------------------------------------------------------
(* The digits of the integers *)

\* A native digit
NativeDigit == 0 .. Base - 1

\* The base is the square of the half base, two at least
LEMMA BaseIsPositive == Base \in Nat /\ Base > 1
<1>1. ASSUME NEW h \in Nat, h >= 2
      PROVE  h * h \in Nat /\ h * h > 1
  <2>1. (h - 2) * h >= 0
    BY <1>1
  <2>2. (h - 2) * h = h * h - 2 * h
    BY <1>1
  <2>3. QED BY <1>1, <2>1, <2>2
<1>2. QED BY <1>1, DigitsAssumption DEF Base

\* A remainder by the base is found by one subtraction, or one addition
LEMMA ReduceOnce ==
  ASSUME NEW b \in Nat, b > 1, NEW x \in Int, -b <= x, x < 2 * b
  PROVE  x % b = IF x < 0 THEN x + b ELSE IF x < b THEN x ELSE x - b
<1>1. CASE x < 0
  BY <1>1
<1>2. CASE x >= 0 /\ x < b
  BY <1>2
<1>3. CASE x >= b
  BY <1>3
<1>4. QED BY <1>1, <1>2, <1>3

\* In a difference the borrow that leaves a column is the one the integers
\* ask for, whatever borrow enters it: no difference of absolute values is
\* wrong (integer.cpp:502-504).
THEOREM BorrowIsExact ==
  ASSUME NEW d \in NativeDigit, NEW e \in NativeDigit, NEW carry \in {0, 1}
  PROVE  LET column == Column(d, e, carry, TRUE)
         IN  d - e - carry = column - Base * NextCarry(d, e, carry, column, TRUE)
<1> DEFINE x == d - e - carry
<1>1. x \in Int /\ -Base <= x /\ x < Base
  BY BaseIsPositive DEF NativeDigit
<1>2. x % Base = IF x < 0 THEN x + Base ELSE x
  BY <1>1, BaseIsPositive, ReduceOnce
<1>3. QED
  BY <1>1, <1>2, BaseIsPositive DEF NativeDigit, Column, NextCarry

\* In a sum the carry that leaves a column is the one the integers ask for,
\* except, and always, when a carry enters a column of two largest digits: it
\* is lost (integer.cpp:505-508).
THEOREM CarryIsLostOnlyBetweenLargestDigits ==
  ASSUME NEW d \in NativeDigit, NEW e \in NativeDigit, NEW carry \in {0, 1}
  PROVE  LET column == Column(d, e, carry, FALSE)
             next == NextCarry(d, e, carry, column, FALSE)
         IN  (d + e + carry = column + Base * next)
               <=> ~ (d = Base - 1 /\ e = Base - 1 /\ carry = 1)
<1> DEFINE x == d + e + carry
<1>1. x \in Int /\ 0 <= x /\ x < 2 * Base
  BY BaseIsPositive DEF NativeDigit
<1>2. x % Base = IF x < Base THEN x ELSE x - Base
  BY <1>1, BaseIsPositive, ReduceOnce
<1>3. QED
  BY <1>1, <1>2, BaseIsPositive DEF NativeDigit, Column, NextCarry

\* A column of a product, with the carry and the digit that is already there,
\* fits the double native type: what the code leaves to prove
\* (integer.cpp:545-547).
THEOREM ProductFitsDoubleNative ==
  ASSUME NEW d \in NativeDigit, NEW e \in NativeDigit,
         NEW carry \in NativeDigit, NEW already \in NativeDigit
  PROVE  Product(d, e, carry, already) \in 0 .. Base * Base - 1
<1> DEFINE m == Base - 1
<1>1. m \in Nat /\ d \in 0 .. m /\ e \in 0 .. m /\ carry \in 0 .. m /\ already \in 0 .. m
  BY BaseIsPositive DEF NativeDigit
<1>2. \A p, q \in 0 .. m : p * q \in Nat /\ p * q <= m * m
  <2>1. SUFFICES ASSUME NEW p \in 0 .. m, NEW q \in 0 .. m
                 PROVE  p * q \in Nat /\ p * q <= m * m
    OBVIOUS
  <2>2. p * q \in Nat /\ p * q <= p * m /\ p * m <= m * m
    BY <1>1
  <2>3. QED BY <2>2, <1>1
<1>3. Base * Base - 1 = m * m + m + m
  BY BaseIsPositive
<1>4. d * e \in Nat /\ d * e <= m * m
  BY <1>1, <1>2
<1>5. \A p, mm \in Nat : p <= mm =>
        p + carry + already >= 0 /\ p + carry + already <= mm + m + m
  BY <1>1
<1>6. m * m \in Nat
  BY <1>1, <1>2
<1> HIDE DEF m
<1>7. Product(d, e, carry, already) = d * e + carry + already
  BY DEF Product
<1>8. d * e + carry + already >= 0 /\ d * e + carry + already <= m * m + m + m
  BY <1>4, <1>5, <1>6
<1>9. d * e + carry + already \in Int /\ Base * Base - 1 \in Int
  BY <1>1, <1>3, <1>4, <1>6
<1>10. QED
  BY <1>3, <1>7, <1>8, <1>9

-----------------------------------------------------------------------------
(* Quotients and remainders *)

\* What the remainder and the quotient of a division are.
LEMMA Divides ==
  ASSUME NEW a \in Int, NEW n \in Nat, n >= 1
  PROVE  /\ a \div n \in Int /\ a % n \in Int /\ 0 <= a % n /\ a % n < n
         /\ a = n * (a \div n) + (a % n)
         /\ a >= 0 => a \div n >= 0
<1>1. a \div n \in Int /\ a % n \in 0 .. n - 1
  OBVIOUS
<1>2. a = n * (a \div n) + (a % n)
  OBVIOUS
<1>3. ASSUME a >= 0 PROVE a \div n >= 0
  BY <1>3
<1>. QED
  BY <1>1, <1>2, <1>3

\* A quotient and a remainder within bounds are those of the division
LEMMA DivisionIsUnique ==
  ASSUME NEW a \in Int, NEW n \in Nat, NEW q \in Int, NEW r \in Int,
         0 <= r, r < n, a = n * q + r
  PROVE  a \div n = q /\ a % n = r
<1>1. PICK p \in Int, s \in Int : p = a \div n /\ s = a % n /\ 0 <= s /\ s < n /\ a = n * p + s
  BY Divides
<1>2. PICK e \in Int : q = p + e
  <2>1. q = p + (q - p)
    OBVIOUS
  <2>. QED
    BY <2>1
<1>3. n * q = n * p + n * e /\ n * e \in Int /\ n * p \in Int
  BY <1>2
<1>4. n * e = s - r
  <2>1. PICK x \in Int, y \in Int, z \in Int : x = n * p /\ y = n * e /\ z = n * q
    BY <1>3
  <2>2. a = z + r /\ a = x + s /\ z = x + y
    BY <1>1, <1>3, <2>1
  <2>3. y = s - r
    BY <1>1, <2>2
  <2>. QED
    BY <2>1, <2>3
<1>5. e = 0
  <2>1. CASE e >= 1
    <3>1. n * 1 <= n * e
      BY <2>1, ProductGrows
    <3>. QED
      BY <1>1, <1>3, <1>4, <3>1
  <2>2. CASE e <= -1
    <3>1. n * e <= n * (-1)
      BY <2>2, ProductGrows
    <3>. QED
      BY <1>1, <1>3, <1>4, <3>1
  <2>. QED
    BY <2>1, <2>2
<1>. QED
  BY <1>1, <1>2, <1>4, <1>5

\* A product below another with the same factor.
LEMMA FactorIsLess ==
  ASSUME NEW a \in Int, NEW c \in Int, NEW n \in Nat, n * a < n * c
  PROVE  a < c
<1>. SUFFICES ASSUME c <= a PROVE FALSE
  OBVIOUS
<1>1. n * c <= n * a
  BY ProductGrows
<1>. QED
  BY <1>1

-----------------------------------------------------------------------------
(* Bounds of the numbers that digits write *)

\* UptoFacts for one n
LEMMA UptoNext ==
  ASSUME NEW d \in [Nat -> Int], NEW b \in Int, NEW n \in Nat
  PROVE  /\ Upto(d, b, n) \in Int /\ Upto(d, b, n + 1) \in Int
         /\ Upto(d, b, n + 1) = Upto(d, b, n) + d[n] * PowerOf(b, n)
BY UptoFacts

\* A number of n digits is less than the n-th power of its base
LEMMA UptoBounded ==
  ASSUME NEW b \in Nat, b >= 1, NEW d \in [Nat -> 0 .. b - 1], NEW n \in Nat
  PROVE  Upto(d, b, n) \in Nat /\ Upto(d, b, n) < PowerOf(b, n)
<1>. DEFINE T == {m \in Nat : Upto(d, b, m) \in Nat /\ Upto(d, b, m) < PowerOf(b, m)}
<1>0. d \in [Nat -> Int] /\ b \in Int
  OBVIOUS
<1>1. 0 \in T
  <2>1. Upto(d, b, 0) = 0
    BY <1>0, UptoFacts
  <2>2. PowerOf(b, 0) = 1
    BY Powers
  <2>. QED
    BY <2>1, <2>2
<1>2. ASSUME NEW m \in Nat, m \in T PROVE m + 1 \in T
  <2>1. PICK p \in Nat : p = PowerOf(b, m)
    BY PowersGrow
  <2>2. PICK u \in Nat : u = Upto(d, b, m) /\ u < p
    BY <1>2, <2>1
  <2>3. /\ Upto(d, b, m + 1) = u + d[m] * p
        /\ PowerOf(b, m + 1) = b * p
    <3>1. Upto(d, b, m + 1) = u + d[m] * p
      BY <1>0, <2>1, <2>2, UptoFacts
    <3>2. PowerOf(b, m + 1) = b * p
      BY <2>1, Powers
    <3>. QED
      BY <3>1, <3>2
  <2>4. d[m] \in Nat /\ d[m] <= b - 1
    OBVIOUS
  <2>5. d[m] * p <= (b - 1) * p /\ d[m] * p \in Nat
    BY <2>4, ProductGrows, ProductIsNat
  <2>6. (b - 1) * p = b * p - p /\ b * p \in Int
    OBVIOUS
  <2>7. u + d[m] * p \in Nat /\ u + d[m] * p < b * p
    BY <2>2, <2>5, <2>6
  <2>. QED
    BY <2>3, <2>7
<1>. HIDE DEF T
<1>3. n \in T
  BY <1>1, <1>2, SetInduction
<1>. QED
  BY <1>3 DEF T

\* More digits make no smaller number
LEMMA UptoMonotone ==
  ASSUME NEW b \in Nat, b >= 1, NEW d \in [Nat -> Nat], NEW m \in Nat, NEW n \in Nat, m <= n
  PROVE  Upto(d, b, m) <= Upto(d, b, n)
<1>. DEFINE T == {k \in Nat : m <= k => Upto(d, b, m) <= Upto(d, b, k)}
<1>0. d \in [Nat -> Int]
  OBVIOUS
<1>1. 0 \in T
  BY <1>0, UptoFacts
<1>2. ASSUME NEW k \in Nat, k \in T PROVE k + 1 \in T
  <2>1. PICK p \in Nat : p = PowerOf(b, k)
    BY PowersGrow
  <2>2. d[k] * p \in Nat
    <3>1. d[k] \in Nat
      OBVIOUS
    <3>. QED
      BY <3>1, ProductIsNat
  <2>3. Upto(d, b, k + 1) = Upto(d, b, k) + d[k] * p /\ Upto(d, b, k) \in Int /\ Upto(d, b, m) \in Int
    BY <1>0, <2>1, UptoNext
  <2>4. Upto(d, b, k) <= Upto(d, b, k + 1)
    BY <2>2, <2>3
  <2>5. CASE m <= k
    BY <1>2, <2>2, <2>3, <2>5
  <2>6. CASE ~ (m <= k)
    <3>1. m = k + 1 \/ ~ (m <= k + 1)
      BY <2>6
    <3>. QED
      BY <2>2, <2>3, <3>1
  <2>. QED
    BY <2>5, <2>6
<1>. HIDE DEF T
<1>3. n \in T
  BY <1>1, <1>2, SetInduction
<1>. QED
  BY <1>3 DEF T

\* Zeroes at the top change nothing.
LEMMA UptoZeroes ==
  ASSUME NEW b \in Int, NEW d \in [Nat -> Int], NEW m \in Nat, NEW n \in Nat, m <= n,
         \A i \in m .. n - 1 : d[i] = 0
  PROVE  Upto(d, b, n) = Upto(d, b, m)
<1>. DEFINE T == {k \in Nat : m <= k /\ k <= n => Upto(d, b, k) = Upto(d, b, m)}
<1>1. 0 \in T
  OBVIOUS
<1>2. ASSUME NEW k \in Nat, k \in T PROVE k + 1 \in T
  <2>. SUFFICES ASSUME m <= k + 1, k + 1 <= n PROVE Upto(d, b, k + 1) = Upto(d, b, m)
    OBVIOUS
  <2>1. CASE m <= k
    <3>1. d[k] = 0
      BY <2>1
    <3>2. Upto(d, b, k + 1) = Upto(d, b, k) + d[k] * PowerOf(b, k) /\ PowerOf(b, k) \in Int
          /\ Upto(d, b, k) \in Int
      BY UptoFacts, Powers
    <3>3. Upto(d, b, k) = Upto(d, b, m)
      BY <1>2, <2>1
    <3>. QED
      BY <3>1, <3>2, <3>3
  <2>2. CASE ~ (m <= k)
    <3>1. m = k + 1
      BY <2>2
    <3>. QED
      BY <3>1
  <2>. QED
    BY <2>1, <2>2
<1>. HIDE DEF T
<1>3. n \in T
  BY <1>1, <1>2, SetInduction
<1>. QED
  BY <1>3 DEF T

\* The highest digits that differ decide which number is the smaller one.
LEMMA UptoLess ==
  ASSUME NEW b \in Nat, b >= 1, NEW d \in [Nat -> 0 .. b - 1], NEW e \in [Nat -> 0 .. b - 1],
         NEW n \in Nat, NEW k \in 0 .. n - 1, d[k] < e[k], \A i \in k + 1 .. n - 1 : d[i] = e[i]
  PROVE  Upto(d, b, n) < Upto(e, b, n)
<1>. DEFINE T == {m \in Nat : k + 1 <= m /\ m <= n => Upto(d, b, m) < Upto(e, b, m)}
<1>0. d \in [Nat -> Int] /\ e \in [Nat -> Int] /\ k \in Nat
  OBVIOUS
<1>1. 0 \in T
  BY <1>0
<1>2. ASSUME NEW m \in Nat, m \in T PROVE m + 1 \in T
  <2>. SUFFICES ASSUME k + 1 <= m + 1, m + 1 <= n PROVE Upto(d, b, m + 1) < Upto(e, b, m + 1)
    OBVIOUS
  <2>1. PICK p \in Nat : p = PowerOf(b, m) /\ p >= 1
    BY PowersGrow
  <2>2. PICK u \in Nat, v \in Nat : u = Upto(d, b, m) /\ v = Upto(e, b, m) /\ u < p
    <3>1. Upto(d, b, m) \in Nat /\ Upto(d, b, m) < PowerOf(b, m)
      BY UptoBounded
    <3>2. Upto(e, b, m) \in Nat
      BY UptoBounded
    <3>. QED
      BY <2>1, <3>1, <3>2
  <2>3. Upto(d, b, m + 1) = u + d[m] * p /\ Upto(e, b, m + 1) = v + e[m] * p
    BY <1>0, <2>1, <2>2, UptoNext
  <2>4. d[m] \in Nat /\ e[m] \in Nat
    OBVIOUS
  <2>5. CASE k = m
    <3>1. d[m] + 1 <= e[m] /\ d[m] + 1 \in Int
      BY <2>4, <2>5
    <3>2. (d[m] + 1) * p <= e[m] * p
      BY <2>4, <3>1, ProductGrows
    <3>3. (d[m] + 1) * p = d[m] * p + p /\ d[m] * p \in Int /\ e[m] * p \in Int
      BY <2>4
    <3>. QED
      BY <2>2, <2>3, <3>2, <3>3
  <2>6. CASE k # m
    <3>1. k + 1 <= m /\ m \in k + 1 .. n - 1
      BY <1>0, <2>6
    <3>2. u < v /\ d[m] = e[m]
      BY <1>2, <2>2, <3>1
    <3>3. e[m] * p \in Int
      BY <2>4
    <3>. QED
      BY <2>2, <2>3, <3>2, <3>3
  <2>. QED
    BY <2>5, <2>6
<1>. HIDE DEF T
<1>3. n \in T
  BY <1>1, <1>2, SetInduction
<1>4. k + 1 <= n
  OBVIOUS
<1>. QED
  BY <1>3, <1>4 DEF T

\* One digit that changes.
LEMMA UptoChange ==
  ASSUME NEW b \in Int, NEW d \in [Nat -> Int], NEW e \in [Nat -> Int], NEW n \in Nat,
         NEW k \in 0 .. n - 1, \A i \in 0 .. n - 1 : i # k => e[i] = d[i]
  PROVE  Upto(e, b, n) = Upto(d, b, n) + (e[k] - d[k]) * PowerOf(b, k)
<1>. DEFINE T == {m \in Nat : m <= n =>
                    Upto(e, b, m) = IF m <= k THEN Upto(d, b, m)
                                    ELSE Upto(d, b, m) + (e[k] - d[k]) * PowerOf(b, k)}
<1>0. k \in Nat
  OBVIOUS
<1>1. 0 \in T
  BY <1>0, UptoFacts, SMTT(30)
<1>2. ASSUME NEW m \in Nat, m \in T PROVE m + 1 \in T
  <2>. SUFFICES ASSUME m + 1 <= n
                PROVE Upto(e, b, m + 1) = IF m + 1 <= k THEN Upto(d, b, m + 1)
                         ELSE Upto(d, b, m + 1) + (e[k] - d[k]) * PowerOf(b, k)
    OBVIOUS
  <2>1. /\ Upto(d, b, m + 1) = Upto(d, b, m) + d[m] * PowerOf(b, m)
        /\ Upto(e, b, m + 1) = Upto(e, b, m) + e[m] * PowerOf(b, m)
        /\ Upto(d, b, m) \in Int /\ Upto(e, b, m) \in Int
    BY UptoFacts
  <2>2. PowerOf(b, m) \in Int /\ PowerOf(b, k) \in Int /\ e[m] \in Int /\ d[m] \in Int
        /\ e[k] \in Int /\ d[k] \in Int
    BY <1>0, Powers
  <2>3. Upto(e, b, m) = IF m <= k THEN Upto(d, b, m)
                        ELSE Upto(d, b, m) + (e[k] - d[k]) * PowerOf(b, k)
    BY <1>2
  <2>4. CASE m = k
    <3>1. Upto(e, b, m) = Upto(d, b, m)
      BY <2>3, <2>4
    <3>2. PICK p \in Int, x \in Int, y \in Int : p = PowerOf(b, m) /\ x = e[m] /\ y = d[m]
      BY <2>2
    <3>3. x * p = y * p + (x - y) * p /\ y * p \in Int /\ x * p \in Int /\ (x - y) * p \in Int
      OBVIOUS
    <3>4. ~ (m + 1 <= k)
      BY <2>4, <1>0
    <3>5. Upto(e, b, m + 1) = Upto(d, b, m) + x * p /\ Upto(d, b, m + 1) = Upto(d, b, m) + y * p
      BY <2>1, <3>1, <3>2
    <3>6. Upto(e, b, m + 1) = Upto(d, b, m + 1) + (x - y) * p
      BY <2>1, <3>3, <3>5
    <3>. QED
      BY <2>4, <3>2, <3>4, <3>6
  <2>5. CASE m # k
    <3>1. e[m] = d[m]
      BY <2>5
    <3>2. (m <= k) <=> (m + 1 <= k)
      BY <2>5, <1>0
    <3>3. PICK z \in Int, w \in Int : z = (e[k] - d[k]) * PowerOf(b, k) /\ w = d[m] * PowerOf(b, m)
      BY <2>2
    <3>4. Upto(e, b, m + 1) = Upto(e, b, m) + w /\ Upto(d, b, m + 1) = Upto(d, b, m) + w
      BY <2>1, <3>1, <3>3
    <3>5. Upto(e, b, m) = IF m <= k THEN Upto(d, b, m) ELSE Upto(d, b, m) + z
      BY <2>3, <3>3
    <3>6. Upto(e, b, m + 1) = IF m + 1 <= k THEN Upto(d, b, m + 1) ELSE Upto(d, b, m + 1) + z
      BY <2>1, <3>2, <3>3, <3>4, <3>5
    <3>. QED
      BY <3>3, <3>6
  <2>. QED
    BY <2>4, <2>5
<1>. HIDE DEF T
<1>3. n \in T
  BY <1>1, <1>2, SetInduction
<1>4. ~ (n <= k)
  BY <1>0
<1>. QED
  BY <1>3, <1>4 DEF T

-----------------------------------------------------------------------------
(* Numbers *)

\* The digits of a sequence, and zeroes above.
Of(s) == [i \in Nat |-> IF i < Len(s) THEN s[i + 1] ELSE 0]
\* The number that a sequence of native digits writes
Total(s) == Upto(Of(s), Base, Len(s))

\* Canonical numbers of any length
Number ==
  {x \in [sign : {1, -1}, digits : Seq(NativeDigit)] :
     IF x.digits = <<>> THEN x.sign = 1 ELSE x.digits[Len(x.digits)] # 0}

\* The absolute value of a number
Magnitude(x) == Total(x.digits)

\* The digits of a sequence, and the zeroes beyond its end
LEMMA DigitsAreNative ==
  ASSUME NEW s \in Seq(NativeDigit)
  PROVE  /\ Of(s) \in [Nat -> NativeDigit] /\ Of(s) \in [Nat -> 0 .. Base - 1]
         /\ Of(s) \in [Nat -> Nat] /\ Of(s) \in [Nat -> Int]
         /\ \A i \in Nat : i >= Len(s) => Of(s)[i] = 0
<1>1. ASSUME NEW i \in Nat PROVE Of(s)[i] \in NativeDigit
  <2>1. CASE i < Len(s)
    <3>1. i + 1 \in 1 .. Len(s)
      BY <2>1
    <3>2. s[i + 1] \in NativeDigit
      BY <3>1
    <3>. QED
      BY <2>1, <3>2 DEF Of
  <2>2. CASE ~ (i < Len(s))
    <3>1. 0 \in NativeDigit
      BY BaseIsPositive DEF NativeDigit
    <3>. QED
      BY <2>2, <3>1 DEF Of
  <2>. QED
    BY <2>1, <2>2
<1>2. Of(s) \in [Nat -> NativeDigit]
  BY <1>1 DEF Of
<1>3. \A i \in Nat : i >= Len(s) => Of(s)[i] = 0
  BY DEF Of
<1>4. NativeDigit = 0 .. Base - 1 /\ NativeDigit \subseteq Nat /\ NativeDigit \subseteq Int
  BY BaseIsPositive DEF NativeDigit
<1>. QED
  BY <1>2, <1>3, <1>4

\* The zeroes beyond the end count for nothing
LEMMA TotalFacts ==
  ASSUME NEW s \in Seq(NativeDigit)
  PROVE  /\ Total(s) \in Nat /\ Total(s) < PowerOf(Base, Len(s))
         /\ \A n \in Nat : n >= Len(s) => Upto(Of(s), Base, n) = Total(s)
<1>1. Base \in Nat /\ Base >= 1 /\ Base \in Int /\ Len(s) \in Nat
  BY BaseIsPositive
<1>2. Total(s) \in Nat /\ Total(s) < PowerOf(Base, Len(s))
  BY <1>1, DigitsAreNative, UptoBounded DEF Total
<1>3. ASSUME NEW n \in Nat, n >= Len(s) PROVE Upto(Of(s), Base, n) = Total(s)
  <2>1. \A i \in Len(s) .. n - 1 : Of(s)[i] = 0
    BY <1>1, DigitsAreNative
  <2>2. Of(s) \in [Nat -> Int]
    BY DigitsAreNative
  <2>. QED
    BY <1>1, <1>3, <2>1, <2>2, UptoZeroes DEF Total
<1>. QED
  BY <1>2, <1>3

\* Two sequences of the same digits, zeroes above apart.
LEMMA SameTotal ==
  ASSUME NEW s \in Seq(NativeDigit), NEW t \in Seq(NativeDigit),
         \A i \in Nat : Of(s)[i] = Of(t)[i]
  PROVE  Total(s) = Total(t)
<1>1. Len(s) \in Nat /\ Len(t) \in Nat /\ Of(s) = Of(t)
  BY DEF Of
<1>2. CASE Len(s) <= Len(t)
  BY <1>1, <1>2, TotalFacts DEF Total
<1>3. CASE Len(t) <= Len(s)
  BY <1>1, <1>3, TotalFacts DEF Total
<1>. QED
  BY <1>1, <1>2, <1>3

\* What is greatest in a set that is bounded.
LEMMA MaxOf ==
  ASSUME NEW n \in Nat, NEW S \in SUBSET (0 .. n), S # {}
  PROVE  Max(S) \in S /\ \A y \in S : y <= Max(S)
<1>. DEFINE T == {n - x : x \in S}
<1>1. T \subseteq Nat /\ T # {}
  <2>1. \A x \in S : n - x \in Nat
    OBVIOUS
  <2>2. T # {}
    OBVIOUS
  <2>. QED
    BY <2>1, <2>2
<1>. HIDE DEF T
<1>2. PICK z \in T : \A y \in T : z <= y
  BY <1>1, LeastElement
<1>. USE DEF T
<1>3. PICK x \in S : z = n - x
  BY <1>2
<1>4. ASSUME NEW y \in S PROVE x >= y
  <2>1. n - y \in T
    OBVIOUS
  <2>2. n - x <= n - y
    BY <1>2, <1>3, <2>1
  <2>. QED
    BY <2>2
<1>. HIDE DEF T
<1>5. \A y \in S : x >= y
  BY <1>4
<1>6. Max(S) \in S /\ \A y \in S : Max(S) >= y
  BY <1>5 DEF Max
<1>7. S \subseteq Int
  OBVIOUS
<1>. QED
  BY <1>6, <1>7

\* sanitize removes leading zeroes, and nothing else
LEMMA SanitizeFacts ==
  ASSUME NEW s \in Seq(NativeDigit)
  PROVE  /\ Sanitize(s) \in Seq(NativeDigit) /\ Len(Sanitize(s)) <= Len(s)
         /\ Of(Sanitize(s)) = Of(s) /\ Total(Sanitize(s)) = Total(s)
         /\ Sanitize(s) # <<>> => Sanitize(s)[Len(Sanitize(s))] # 0
         /\ s # <<>> /\ s[Len(s)] # 0 => Sanitize(s) = s
<1>. DEFINE kept == {i \in DOMAIN s : s[i] # 0}
            z == Sanitize(s)
<1>0. DOMAIN s = 1 .. Len(s) /\ Len(s) \in Nat
  OBVIOUS
<1>1. CASE kept = {}
  <2>1. z = <<>> /\ Len(z) = 0 /\ z \in Seq(NativeDigit)
    BY <1>1 DEF Sanitize
  <2>2. ASSUME NEW i \in Nat PROVE Of(z)[i] = Of(s)[i]
    <3>1. Of(z)[i] = 0
      BY <2>1 DEF Of
    <3>2. Of(s)[i] = 0
      <4>1. CASE i < Len(s)
        <5>1. i + 1 \in DOMAIN s
          BY <1>0, <4>1
        <5>2. s[i + 1] = 0
          BY <1>1, <5>1
        <5>. QED
          BY <4>1, <5>2 DEF Of
      <4>2. CASE ~ (i < Len(s))
        BY <4>2 DEF Of
      <4>. QED
        BY <4>1, <4>2
    <3>. QED
      BY <3>1, <3>2
  <2>3. ~ (s # <<>> /\ s[Len(s)] # 0)
    <3>. SUFFICES ASSUME s # <<>>, s[Len(s)] # 0 PROVE FALSE
      OBVIOUS
    <3>1. Len(s) \in 1 .. Len(s)
      BY <1>0
    <3>. QED
      BY <1>0, <1>1, <3>1
  <2>4. Of(z) = Of(s)
    BY <2>2 DEF Of
  <2>5. Total(z) = Total(s)
    BY <2>1, <2>2, SameTotal
  <2>. HIDE DEF z
  <2>. QED
    BY <1>0, <2>1, <2>3, <2>4, <2>5 DEF z
<1>2. CASE kept # {}
  <2>1. kept \in SUBSET (0 .. Len(s))
    BY <1>0
  <2>. DEFINE m == Max(kept)
  <2>2. m \in kept /\ \A y \in kept : y <= m
    <3>. HIDE DEF kept
    <3>. QED
      BY <1>0, <1>2, <2>1, MaxOf
  <2>3. z = SubSeq(s, 1, m)
    BY <1>2 DEF Sanitize
  <2>4. m \in 1 .. Len(s) /\ s[m] # 0
    BY <1>0, <2>2
  <2>5. \A i \in m + 1 .. Len(s) : s[i] = 0
    <3>. SUFFICES ASSUME NEW i \in m + 1 .. Len(s) PROVE s[i] = 0
      OBVIOUS
    <3>1. i \in DOMAIN s /\ ~ (i <= m)
      BY <1>0, <2>4
    <3>. QED
      BY <2>2, <3>1
  <2>. HIDE DEF m, kept, z
  <2>6. z \in Seq(NativeDigit) /\ Len(z) = m /\ \A i \in 1 .. m : z[i] = s[i]
    BY <1>0, <2>3, <2>4
  <2>7. ASSUME NEW i \in Nat PROVE Of(z)[i] = Of(s)[i]
    <3>1. CASE i < m
      <4>1. i + 1 \in 1 .. m /\ i < Len(s) /\ i < Len(z)
        BY <2>4, <2>6, <3>1
      <4>. QED
        BY <2>6, <4>1 DEF Of
    <3>2. CASE ~ (i < m)
      <4>1. Of(z)[i] = 0
        BY <2>6, <3>2 DEF Of
      <4>2. CASE i < Len(s)
        <5>1. i + 1 \in m + 1 .. Len(s)
          BY <2>4, <3>2, <4>2
        <5>2. s[i + 1] = 0
          BY <2>5, <5>1
        <5>. QED
          BY <4>1, <4>2, <5>2 DEF Of
      <4>3. CASE ~ (i < Len(s))
        BY <4>1, <4>3 DEF Of
      <4>. QED
        BY <4>2, <4>3
    <3>. QED
      BY <3>1, <3>2
  <2>8. Of(z) = Of(s)
    BY <2>7 DEF Of
  <2>9. Total(z) = Total(s)
    BY <2>6, <2>7, SameTotal
  <2>10. ASSUME s # <<>>, s[Len(s)] # 0 PROVE z = s
    <3>1. Len(s) \in 1 .. Len(s)
      BY <1>0, <2>10
    <3>2. m = Len(s)
      <4>1. CASE m < Len(s)
        <5>1. Len(s) \in m + 1 .. Len(s)
          BY <2>4, <4>1
        <5>. QED
          BY <2>5, <2>10, <5>1
      <4>. QED
        BY <2>4, <4>1
    <3>. QED
      BY <2>6, <3>2
  <2>11. z[Len(z)] # 0
    BY <2>4, <2>6
  <2>. QED
    BY <2>4, <2>6, <2>8, <2>9, <2>10, <2>11 DEF z
<1>. QED
  BY <1>1, <1>2

\* The magnitude of a number is what its digits say, and says how many it has.
LEMMA NumberFacts ==
  ASSUME NEW x \in Number
  PROVE  /\ x.sign \in {1, -1} /\ x.digits \in Seq(NativeDigit)
         /\ x = [sign |-> x.sign, digits |-> x.digits]
         /\ Len(x.digits) \in Nat /\ (x.digits = <<>> <=> Len(x.digits) = 0)
         /\ Magnitude(x) \in Nat /\ Magnitude(x) < PowerOf(Base, Len(x.digits))
         /\ x.digits # <<>> => Magnitude(x) >= PowerOf(Base, Len(x.digits) - 1)
         /\ Magnitude(x) = 0 <=> x.digits = <<>>
         /\ Magnitude(x) = 0 => x.sign = 1
         /\ x # Raised
<1>. DEFINE z == x.digits
<1>1. x.sign \in {1, -1} /\ z \in Seq(NativeDigit) /\ x = [sign |-> x.sign, digits |-> x.digits]
      /\ (IF z = <<>> THEN x.sign = 1 ELSE z[Len(z)] # 0)
  BY DEF Number
<1>2. Raised.sign = 0
  BY DEF Raised
<1>3. x # Raised
  BY <1>1, <1>2
<1>. HIDE DEF z
<1>4. Len(z) \in Nat /\ (z = <<>> <=> Len(z) = 0)
  BY <1>1
<1>5. Total(z) \in Nat /\ Total(z) < PowerOf(Base, Len(z))
  BY <1>1, TotalFacts
<1>6. ASSUME z # <<>> PROVE Total(z) >= PowerOf(Base, Len(z) - 1) /\ Total(z) # 0
  <2>. DEFINE k == Len(z) - 1
  <2>1. k \in Nat /\ k + 1 = Len(z) /\ k < Len(z) /\ Base \in Nat /\ Base >= 1 /\ Base \in Int
    BY <1>4, <1>6, BaseIsPositive
  <2>2. Of(z)[k] = z[Len(z)]
    BY <2>1 DEF Of
  <2>3. Of(z) \in [Nat -> 0 .. Base - 1] /\ Of(z) \in [Nat -> Int] /\ Of(z) \in [Nat -> Nat]
    BY <1>1, DigitsAreNative
  <2>4. Of(z)[k] \in Nat /\ Of(z)[k] >= 1
    BY <1>1, <1>6, <2>1, <2>2, <2>3
  <2>. HIDE DEF k
  <2>5. Upto(Of(z), Base, k) \in Nat
    BY <2>1, <2>3, UptoBounded
  <2>6. PowerOf(Base, k) \in Nat /\ PowerOf(Base, k) >= 1
    BY <2>1, PowersGrow
  <2>7. Total(z) = Upto(Of(z), Base, k) + Of(z)[k] * PowerOf(Base, k)
    BY <2>1, <2>3, UptoNext DEF Total
  <2>8. 1 * PowerOf(Base, k) <= Of(z)[k] * PowerOf(Base, k)
    BY <2>4, <2>6, ProductGrows
  <2>9. Of(z)[k] * PowerOf(Base, k) \in Nat
    BY <2>4, <2>6, ProductIsNat
  <2>10. Total(z) >= PowerOf(Base, k) /\ Total(z) # 0
    BY <2>5, <2>6, <2>7, <2>8, <2>9
  <2>. QED
    BY <2>10 DEF k
<1>7. ASSUME z = <<>> PROVE Total(z) = 0
  <2>0. Of(z) \in [Nat -> Int]
    BY <1>1, DigitsAreNative
  <2>1. Len(z) = 0 /\ Of(z) \in [Nat -> Int] /\ Base \in Int
    BY <1>7, <2>0, BaseIsPositive
  <2>. QED
    BY <2>1, UptoFacts DEF Total
<1>8. Magnitude(x) = Total(z)
  BY DEF Magnitude, z
<1>. QED
  BY <1>1, <1>3, <1>4, <1>5, <1>6, <1>7, <1>8 DEF z

\* A number from its sign and digits.
LEMMA HandlerFacts ==
  ASSUME NEW s \in Seq(NativeDigit), NEW sign \in {1, -1}
  PROVE  LET x == Handler(sign, Sanitize(s))
         IN  /\ x \in Number /\ Magnitude(x) = Total(s) /\ Of(x.digits) = Of(s)
             /\ Len(x.digits) <= Len(s)
             /\ x.sign = IF Total(s) = 0 THEN 1 ELSE sign
<1>. DEFINE z == Sanitize(s)
            x == Handler(sign, z)
<1>1. /\ z \in Seq(NativeDigit) /\ Len(z) <= Len(s) /\ Of(z) = Of(s) /\ Total(z) = Total(s)
      /\ z # <<>> => z[Len(z)] # 0
  BY SanitizeFacts
<1>. HIDE DEF z
<1>2. x.digits = z /\ x.sign = (IF z = <<>> THEN 1 ELSE sign) /\ x.sign \in {1, -1}
      /\ x \in [sign : {1, -1}, digits : Seq(NativeDigit)]
  BY <1>1 DEF Handler
<1>. HIDE DEF x
<1>3. x \in Number
  BY <1>1, <1>2 DEF Number
<1>4. z = <<>> <=> Total(z) = 0
  BY <1>2, <1>3, NumberFacts DEF Magnitude
<1>5. Magnitude(x) = Total(s)
  BY <1>1, <1>2 DEF Magnitude
<1>6. x.sign = IF Total(s) = 0 THEN 1 ELSE sign
  BY <1>1, <1>2, <1>4
<1>7. Of(x.digits) = Of(s) /\ Len(x.digits) <= Len(s)
  BY <1>1, <1>2
<1>. QED
  BY <1>3, <1>5, <1>6, <1>7 DEF x, z

\* The powers of the base
LEMMA BasePowers ==
  ASSUME NEW n \in Nat
  PROVE  /\ PowerOf(Base, n) \in Nat /\ PowerOf(Base, n) >= 1
         /\ PowerOf(Base, n + 1) = Base * PowerOf(Base, n)
<1>1. Base \in Nat /\ Base >= 1
  BY BaseIsPositive
<1>2. Base \in Int
  BY <1>1
<1>3. PowerOf(Base, n) \in Nat /\ PowerOf(Base, n) >= 1
  BY <1>1, PowersGrow
<1>4. PowerOf(Base, n + 1) = Base * PowerOf(Base, n)
  BY <1>2, Powers
<1>. QED
  BY <1>3, <1>4

\* They never decrease
LEMMA BasePowersGrow ==
  ASSUME NEW m \in Nat, NEW n \in Nat, m <= n
  PROVE  /\ PowerOf(Base, m) <= PowerOf(Base, n)
         /\ PowerOf(Base, m) \in Nat /\ PowerOf(Base, n) \in Nat
<1>1. Base \in Nat /\ Base >= 1
  BY BaseIsPositive
<1>2. PowerOf(Base, m) <= PowerOf(Base, n)
  BY <1>1, PowersGrow
<1>. QED
  BY <1>2, BasePowers

\* The value of a number is its magnitude with its sign; zero is positive
LEMMA ValueFacts ==
  ASSUME NEW x \in Number
  PROVE  /\ ValueOf(x) \in Int
         /\ ValueOf(x) = IF x.sign = 1 THEN Magnitude(x) ELSE -Magnitude(x)
         /\ AbsOf(ValueOf(x)) = Magnitude(x)
         /\ ValueOf(x) >= 0 <=> x.sign = 1
<1>1. [i \in Nat |-> Digit(x, i)] = Of(x.digits)
  BY DEF Digit, Of
<1>2. ValueOf(x) = x.sign * Magnitude(x)
  BY <1>1 DEF ValueOf, Below, Magnitude, Total
<1>3. x.sign \in {1, -1} /\ Magnitude(x) \in Nat /\ (Magnitude(x) = 0 => x.sign = 1)
  BY NumberFacts
<1>. QED
  BY <1>2, <1>3 DEF AbsOf

\* What the proof calls a number is canonical
LEMMA NumbersAreCanonical ==
  ASSUME NEW x \in Number
  PROVE  Canonical(x)
<1>1. x.sign \in {1, -1} /\ x.digits \in Seq(NativeDigit) /\ x = [sign |-> x.sign, digits |-> x.digits]
      /\ (IF x.digits = <<>> THEN x.sign = 1 ELSE x.digits[Len(x.digits)] # 0)
  BY DEF Number
<1>2. Sanitize(x.digits) = x.digits
  <2>1. CASE x.digits = <<>>
    <3>1. Sanitize(x.digits) \in Seq(NativeDigit) /\ Len(Sanitize(x.digits)) <= Len(x.digits)
      BY <1>1, SanitizeFacts
    <3>2. Len(x.digits) = 0
      BY <2>1
    <3>. HIDE DEF Sanitize
    <3>3. Len(Sanitize(x.digits)) = 0
      BY <3>1, <3>2
    <3>. QED
      BY <2>1, <3>1, <3>3
  <2>2. CASE x.digits # <<>>
    BY <1>1, <2>2, SanitizeFacts
  <2>. QED
    BY <2>1, <2>2
<1>. QED
  BY <1>1, <1>2 DEF Canonical, Handler

\* SetSign keeps the magnitude; zero stays positive
LEMMA SetSignFacts ==
  ASSUME NEW x \in Number, NEW sign \in {1, -1}
  PROVE  /\ SetSign(x, sign) \in Number /\ Magnitude(SetSign(x, sign)) = Magnitude(x)
         /\ SetSign(x, sign).sign = IF Magnitude(x) = 0 THEN 1 ELSE sign
         /\ SetSign(x, sign).digits = x.digits
         /\ ValueOf(SetSign(x, sign)) = sign * Magnitude(x)
<1>1. x \in [sign : {1, -1}, digits : Seq(NativeDigit)] /\ (x.digits # <<>> => x.digits[Len(x.digits)] # 0)
  BY DEF Number
<1>. DEFINE y == SetSign(x, sign)
<1>2. /\ y.digits = x.digits /\ y \in [sign : {1, -1}, digits : Seq(NativeDigit)]
      /\ y.sign = IF x.digits = <<>> THEN 1 ELSE sign
  BY <1>1 DEF SetSign, Handler
<1>. HIDE DEF y
<1>3. y \in Number
  BY <1>1, <1>2 DEF Number
<1>4. Magnitude(y) = Magnitude(x)
  BY <1>2 DEF Magnitude
<1>5. Magnitude(x) \in Nat /\ (Magnitude(x) = 0 <=> x.digits = <<>>)
  BY NumberFacts
<1>6. ValueOf(y) = IF y.sign = 1 THEN Magnitude(y) ELSE -Magnitude(y)
  BY <1>3, ValueFacts
<1>7. ValueOf(y) = sign * Magnitude(x)
  BY <1>2, <1>4, <1>5, <1>6
<1>. QED
  BY <1>2, <1>3, <1>4, <1>5, <1>7 DEF y

\* Two sequences of as many digits compare like their highest digits that differ.
LEMMA TotalLess ==
  ASSUME NEW s \in Seq(NativeDigit), NEW t \in Seq(NativeDigit), Len(s) = Len(t),
         NEW k \in 1 .. Len(s), s[k] < t[k], \A i \in k + 1 .. Len(s) : s[i] = t[i]
  PROVE  Total(s) < Total(t)
<1>. DEFINE j == k - 1
            n == Len(s)
<1>1. /\ n \in Nat /\ k \in Nat /\ j \in 0 .. n - 1 /\ j \in Nat /\ j + 1 = k /\ j < n
      /\ Base \in Nat /\ Base >= 1
  BY BaseIsPositive
<1>2. Of(s) \in [Nat -> 0 .. Base - 1] /\ Of(t) \in [Nat -> 0 .. Base - 1]
  BY DigitsAreNative
<1>3. Of(s)[j] = s[k] /\ Of(t)[j] = t[k]
  BY <1>1 DEF Of
<1>4. ASSUME NEW i \in j + 1 .. n - 1 PROVE Of(s)[i] = Of(t)[i]
  <2>1. i \in Nat /\ i + 1 \in k + 1 .. Len(s) /\ i < Len(s)
    BY <1>1
  <2>. QED
    BY <2>1 DEF Of
<1>. HIDE DEF j
<1>5. Of(s)[j] < Of(t)[j]
  BY <1>3
<1>6. Upto(Of(s), Base, n) < Upto(Of(t), Base, n)
  BY <1>1, <1>2, <1>4, <1>5, UptoLess
<1>. QED
  BY <1>6 DEF Total

\* The comparison of absolute values: by the lengths, then by the highest digit that differs
LEMMA CompareAbsFacts ==
  ASSUME NEW a \in Number, NEW b \in Number
  PROVE  /\ CompareAbs(a, b) = IF Magnitude(a) < Magnitude(b) THEN -1
                               ELSE IF Magnitude(a) = Magnitude(b) THEN 0 ELSE 1
         /\ Magnitude(a) = Magnitude(b) => a.digits = b.digits
<1>. DEFINE s == a.digits
            t == b.digits
            differ == {i \in DOMAIN s : s[i] # t[i]}
<1>1. /\ s \in Seq(NativeDigit) /\ t \in Seq(NativeDigit)
      /\ Magnitude(a) = Total(s) /\ Magnitude(b) = Total(t)
      /\ Len(s) \in Nat /\ Len(t) \in Nat /\ DOMAIN s = 1 .. Len(s) /\ DOMAIN t = 1 .. Len(t)
  BY NumberFacts DEF Magnitude
<1>2. ASSUME NEW x \in Number, NEW y \in Number, Len(x.digits) < Len(y.digits)
      PROVE  Magnitude(x) < Magnitude(y)
  <2>1. /\ Len(x.digits) \in Nat /\ Len(y.digits) \in Nat
        /\ Magnitude(x) \in Nat /\ Magnitude(y) \in Nat
        /\ Magnitude(x) < PowerOf(Base, Len(x.digits))
        /\ y.digits # <<>> => Magnitude(y) >= PowerOf(Base, Len(y.digits) - 1)
        /\ y.digits = <<>> <=> Len(y.digits) = 0
    BY NumberFacts
  <2>2. Magnitude(y) >= PowerOf(Base, Len(y.digits) - 1)
    BY <1>2, <2>1
  <2>3. PICK m \in Nat, n \in Nat : m = Len(x.digits) /\ n = Len(y.digits) - 1 /\ m <= n
    <3>1. Len(y.digits) - 1 \in Nat /\ Len(x.digits) <= Len(y.digits) - 1
      BY <1>2, <2>1
    <3>. QED
      BY <2>1, <3>1
  <2>4. PowerOf(Base, m) <= PowerOf(Base, n) /\ PowerOf(Base, m) \in Nat /\ PowerOf(Base, n) \in Nat
    BY <2>3, BasePowersGrow
  <2>. QED
    BY <2>1, <2>2, <2>3, <2>4
<1>3. Total(s) \in Nat /\ Total(t) \in Nat
  BY <1>1, TotalFacts
<1>4. CASE Len(s) < Len(t)
  <2>1. Magnitude(a) < Magnitude(b)
    BY <1>2, <1>4
  <2>2. CompareAbs(a, b) = -1
    BY <1>1, <1>4 DEF CompareAbs
  <2>. QED
    BY <1>1, <1>3, <2>1, <2>2
<1>5. CASE Len(t) < Len(s)
  <2>1. Magnitude(b) < Magnitude(a)
    BY <1>2, <1>5
  <2>2. CompareAbs(a, b) = 1
    BY <1>1, <1>5 DEF CompareAbs
  <2>. QED
    BY <1>1, <1>3, <2>1, <2>2
<1>6. CASE Len(s) = Len(t) /\ differ = {}
  <2>1. CompareAbs(a, b) = 0
    BY <1>1, <1>6 DEF CompareAbs
  <2>2. \A i \in 1 .. Len(s) : s[i] = t[i]
    BY <1>1, <1>6
  <2>3. s = t
    <3>. HIDE DEF s, t
    <3>. QED
      BY <1>1, <1>6, <2>2
  <2>. QED
    BY <1>1, <1>3, <2>1, <2>3
<1>7. CASE Len(s) = Len(t) /\ differ # {}
  <2>. DEFINE k == Max(differ)
  <2>1. differ \in SUBSET (0 .. Len(s))
    BY <1>1
  <2>2. k \in differ /\ \A y \in differ : y <= k
    <3>. HIDE DEF differ
    <3>. QED
      BY <1>1, <1>7, <2>1, MaxOf
  <2>3. CompareAbs(a, b) = IF s[k] < t[k] THEN -1 ELSE 1
    BY <1>1, <1>7 DEF CompareAbs
  <2>4. k \in 1 .. Len(s) /\ s[k] # t[k]
    BY <1>1, <2>2
  <2>5. \A i \in k + 1 .. Len(s) : s[i] = t[i]
    <3>. SUFFICES ASSUME NEW i \in k + 1 .. Len(s), s[i] # t[i] PROVE FALSE
      OBVIOUS
    <3>1. i \in DOMAIN s /\ ~ (i <= k)
      BY <1>1, <2>4
    <3>. QED
      BY <2>2, <3>1
  <2>. HIDE DEF k, differ, s, t
  <2>6. s[k] \in Nat /\ t[k] \in Nat
    <3>1. s[k] \in NativeDigit /\ t[k] \in NativeDigit
      BY <1>1, <1>7, <2>4
    <3>. QED
      BY <3>1, BaseIsPositive DEF NativeDigit
  <2>7. CASE s[k] < t[k]
    <3>1. Total(s) < Total(t)
      BY <1>1, <1>7, <2>4, <2>5, <2>7, TotalLess
    <3>. QED
      BY <1>1, <1>3, <2>3, <2>7, <3>1 DEF s, t
  <2>8. CASE t[k] < s[k]
    <3>1. Total(t) < Total(s)
      BY <1>1, <1>7, <2>4, <2>5, <2>8, TotalLess
    <3>. QED
      BY <1>1, <1>3, <2>3, <2>6, <2>8, <3>1 DEF s, t
  <2>. QED
    BY <2>4, <2>6, <2>7, <2>8
<1>. QED
  BY <1>1, <1>4, <1>5, <1>6, <1>7

\* A comparison orders the integers as their values, and two that are equal have the same
\* digits (integer.cpp:404-432): numbers are kept canonical.
THEOREM ComparisonIsExact ==
  ASSUME NEW a \in Number, NEW b \in Number
  PROVE  /\ Compare(a, b) = IF ValueOf(a) < ValueOf(b) THEN -1
                            ELSE IF ValueOf(a) = ValueOf(b) THEN 0 ELSE 1
         /\ ValueOf(a) = ValueOf(b) => a = b
<1>1. /\ a.sign \in {1, -1} /\ b.sign \in {1, -1} /\ Magnitude(a) \in Nat /\ Magnitude(b) \in Nat
      /\ a = [sign |-> a.sign, digits |-> a.digits] /\ b = [sign |-> b.sign, digits |-> b.digits]
      /\ Magnitude(a) = 0 => a.sign = 1
      /\ Magnitude(b) = 0 => b.sign = 1
  BY NumberFacts
<1>2. /\ ValueOf(a) = IF a.sign = 1 THEN Magnitude(a) ELSE -Magnitude(a)
      /\ ValueOf(b) = IF b.sign = 1 THEN Magnitude(b) ELSE -Magnitude(b)
  BY ValueFacts
<1>3. /\ CompareAbs(a, b) = IF Magnitude(a) < Magnitude(b) THEN -1
                            ELSE IF Magnitude(a) = Magnitude(b) THEN 0 ELSE 1
      /\ Magnitude(a) = Magnitude(b) => a.digits = b.digits
  BY CompareAbsFacts
<1>4. ValueOf(a) = ValueOf(b) => a.sign = b.sign /\ Magnitude(a) = Magnitude(b)
  BY <1>1, <1>2
<1>5. ValueOf(a) = ValueOf(b) => a = b
  BY <1>1, <1>3, <1>4
<1>6. Compare(a, b) = IF ValueOf(a) < ValueOf(b) THEN -1
                            ELSE IF ValueOf(a) = ValueOf(b) THEN 0 ELSE 1
  BY <1>1, <1>2, <1>3 DEF Compare
<1>. QED
  BY <1>5, <1>6

\* A small integer is a number of one digit at most
LEMMA FromIntFacts ==
  ASSUME NEW v \in Int, -Base < v, v < Base
  PROVE  FromInt(v) \in Number /\ ValueOf(FromInt(v)) = v /\ Len(FromInt(v).digits) <= 1
<1>. DEFINE abs == IF v < 0 THEN -v ELSE v
            s == IF v = 0 THEN <<>> ELSE <<abs>>
            x == FromInt(v)
<1>1. abs \in NativeDigit /\ Base \in Nat /\ Base >= 1 /\ Base \in Int
  BY BaseIsPositive DEF NativeDigit
<1>2. s \in Seq(NativeDigit) /\ Len(s) <= 1 /\ (s # <<>> => s[Len(s)] = abs /\ Len(s) = 1)
      /\ (s = <<>> <=> v = 0) /\ (v # 0 => abs # 0)
  BY <1>1
<1>3. x.digits = s /\ x.sign = (IF v < 0 THEN -1 ELSE 1) /\ x \in [sign : {1, -1}, digits : Seq(NativeDigit)]
  <2>. HIDE DEF s
  <2>1. x = Handler(IF v < 0 THEN -1 ELSE 1, s)
    BY DEF FromInt, s
  <2>. QED
    BY <1>2, <2>1 DEF Handler
<1>. HIDE DEF x, s
<1>4. x \in Number
  BY <1>2, <1>3 DEF Number
<1>5. Of(s) \in [Nat -> Int] /\ (v # 0 => Of(s)[0] = abs)
  BY <1>2, DigitsAreNative DEF Of
<1>6. Total(s) = abs
  <2>1. Upto(Of(s), Base, 0) = 0 /\ PowerOf(Base, 0) = 1
    BY <1>1, <1>5, UptoFacts, Powers
  <2>2. CASE v = 0
    BY <1>2, <2>1, <2>2 DEF Total
  <2>3. CASE v # 0
    <3>1. Upto(Of(s), Base, 0 + 1) = Upto(Of(s), Base, 0) + Of(s)[0] * PowerOf(Base, 0)
      BY <1>1, <1>5, UptoNext
    <3>2. Len(s) = 0 + 1
      BY <1>2, <2>3
    <3>3. Total(s) = 0 + abs * 1
      BY <1>5, <2>1, <2>3, <3>1, <3>2 DEF Total
    <3>. QED
      BY <3>3, <1>1 DEF NativeDigit
  <2>. QED
    BY <2>2, <2>3
<1>7. ValueOf(x) = IF x.sign = 1 THEN abs ELSE -abs
  BY <1>3, <1>4, <1>6, ValueFacts DEF Magnitude
<1>8. ValueOf(x) = v
  BY <1>3, <1>7
<1>. QED
  BY <1>2, <1>3, <1>4, <1>8 DEF x

\* Zero and one, and the tests for them
LEMMA ZeroAndOne ==
  /\ Zero \in Number /\ ValueOf(Zero) = 0 /\ One \in Number /\ ValueOf(One) = 1
  /\ \A x \in Number : (IsZero(x) <=> ValueOf(x) = 0) /\ (IsOne(x) <=> ValueOf(x) = 1)
<1>1. Base \in Nat /\ Base > 1
  BY BaseIsPositive
<1>2. Zero \in Number /\ ValueOf(Zero) = 0 /\ One \in Number /\ ValueOf(One) = 1
  BY <1>1, FromIntFacts DEF Zero, One
<1>3. ASSUME NEW x \in Number PROVE (IsZero(x) <=> ValueOf(x) = 0) /\ (IsOne(x) <=> ValueOf(x) = 1)
  BY <1>2, ComparisonIsExact DEF IsZero, IsOne
<1>. QED
  BY <1>2, <1>3

\* A magnitude that fits fits in so many digits.
LEMMA DigitsSuffice ==
  ASSUME NEW x \in Number, NEW n \in Nat
  PROVE  Magnitude(x) < PowerOf(Base, n) <=> Len(x.digits) <= n
<1>1. /\ Len(x.digits) \in Nat /\ Magnitude(x) \in Nat /\ Magnitude(x) < PowerOf(Base, Len(x.digits))
      /\ x.digits # <<>> => Magnitude(x) >= PowerOf(Base, Len(x.digits) - 1)
      /\ x.digits = <<>> <=> Len(x.digits) = 0
  BY NumberFacts
<1>2. CASE Len(x.digits) <= n
  <2>1. PowerOf(Base, Len(x.digits)) <= PowerOf(Base, n)
    BY <1>1, <1>2, BasePowersGrow
  <2>2. PowerOf(Base, Len(x.digits)) \in Nat /\ PowerOf(Base, n) \in Nat
    BY <1>1, BasePowers
  <2>. QED
    BY <1>1, <1>2, <2>1, <2>2
<1>3. CASE ~ (Len(x.digits) <= n)
  <2>1. PICK m \in Nat : m = Len(x.digits) - 1 /\ n <= m /\ x.digits # <<>>
    <3>1. Len(x.digits) - 1 \in Nat /\ n <= Len(x.digits) - 1 /\ x.digits # <<>>
      BY <1>1, <1>3
    <3>. QED
      BY <3>1
  <2>2. PowerOf(Base, n) <= PowerOf(Base, m) /\ PowerOf(Base, m) \in Nat /\ PowerOf(Base, n) \in Nat
    BY <2>1, BasePowersGrow
  <2>3. Magnitude(x) >= PowerOf(Base, m)
    BY <1>1, <2>1
  <2>4. ~ (Magnitude(x) < PowerOf(Base, n))
    BY <1>1, <2>2, <2>3
  <2>. QED
    BY <1>3, <2>4
<1>. QED
  BY <1>2, <1>3

-----------------------------------------------------------------------------
(* Sums and differences *)

\* What an operation that may raise returns: the integer v exactly when it has no more
\* than cap digits.
Exactly(r, v, cap) ==
  IF AbsOf(v) >= PowerOf(Base, cap) THEN r = Raised ELSE r \in Number /\ ValueOf(r) = v

\* The least and the greatest of two
LEMMA MinMaxOfTwo ==
  ASSUME NEW m \in Nat, NEW n \in Nat
  PROVE  /\ Min({m, n}) = IF m <= n THEN m ELSE n
         /\ Max({m, n}) = IF m <= n THEN n ELSE m
<1>1. CASE m <= n
  <2>1. Min({m, n}) \in {m, n} /\ \A y \in {m, n} : Min({m, n}) <= y
    <3>1. \A y \in {m, n} : m <= y
      BY <1>1
    <3>. QED
      BY <3>1 DEF Min
  <2>2. Max({m, n}) \in {m, n} /\ \A y \in {m, n} : Max({m, n}) >= y
    <3>1. \A y \in {m, n} : n >= y
      BY <1>1
    <3>. QED
      BY <3>1 DEF Max
  <2>. QED
    BY <1>1, <2>1, <2>2
<1>2. CASE ~ (m <= n)
  <2>1. Min({m, n}) \in {m, n} /\ \A y \in {m, n} : Min({m, n}) <= y
    <3>1. \A y \in {m, n} : n <= y
      BY <1>2
    <3>. QED
      BY <3>1 DEF Min
  <2>2. Max({m, n}) \in {m, n} /\ \A y \in {m, n} : Max({m, n}) >= y
    <3>1. \A y \in {m, n} : m >= y
      BY <1>2
    <3>. QED
      BY <3>1 DEF Max
  <2>. QED
    BY <1>2, <2>1, <2>2
<1>. QED
  BY <1>1, <1>2

\* A digit that is not zero counts for the power of its place.
LEMMA DigitCounts ==
  ASSUME NEW c \in [Nat -> NativeDigit], NEW j \in Nat, NEW n \in Nat, j < n, c[j] # 0
  PROVE  Upto(c, Base, n) >= PowerOf(Base, j)
<1>1. Base \in Nat /\ Base >= 1 /\ Base \in Int
  BY BaseIsPositive
<1>2. c \in [Nat -> Nat] /\ c \in [Nat -> Int] /\ c \in [Nat -> 0 .. Base - 1]
  <2>1. NativeDigit \subseteq Nat /\ NativeDigit \subseteq Int /\ NativeDigit = 0 .. Base - 1
    BY <1>1 DEF NativeDigit
  <2>. QED
    BY <2>1
<1>3. PICK p \in Nat : p = PowerOf(Base, j)
  BY BasePowers
<1>4. Upto(c, Base, j + 1) = Upto(c, Base, j) + c[j] * p
  BY <1>1, <1>2, <1>3, UptoNext
<1>5. Upto(c, Base, j) \in Nat
  BY <1>1, <1>2, UptoBounded
<1>6. c[j] \in Nat /\ 1 <= c[j]
  BY <1>2
<1>7. 1 * p <= c[j] * p /\ c[j] * p \in Nat
  BY <1>6, ProductGrows, ProductIsNat
<1>8. j + 1 \in Nat /\ j + 1 <= n
  OBVIOUS
<1>9. Upto(c, Base, j + 1) <= Upto(c, Base, n)
  BY <1>1, <1>2, <1>8, UptoMonotone
<1>10. Upto(c, Base, n) \in Nat
  BY <1>1, <1>2, UptoBounded
<1>. QED
  BY <1>3, <1>4, <1>5, <1>7, <1>9, <1>10

\* A result is cut at the largest number of digits, or raises when that would change it.
IsTrimmed(s, size, cap, v) ==
  LET kept == Min({size, cap})
      x == Handler(1, Sanitize(SubSeq(s, 1, kept)))
  IN  /\ (\E i \in kept + 1 .. size : s[i] # 0) <=> v >= PowerOf(Base, cap)
      /\ v < PowerOf(Base, cap) => x \in Number /\ Magnitude(x) = v /\ x.sign = 1

\* Cut to cap digits, the columns c are the number they write, or they write too much
LEMMA Trimmed ==
  ASSUME NEW c \in [Nat -> NativeDigit], NEW size \in Nat, NEW cap \in Nat,
         NEW s, s = [i \in 1 .. size |-> c[i - 1]]
  PROVE  IsTrimmed(s, size, cap, Upto(c, Base, size))
<1>. DEFINE kept == Min({size, cap})
            v == Upto(c, Base, size)
            x == Handler(1, Sanitize(SubSeq(s, 1, kept)))
            r == SubSeq(s, 1, kept)
<1>1. Base \in Nat /\ Base >= 1 /\ Base \in Int
  BY BaseIsPositive
<1>2. c \in [Nat -> Nat] /\ c \in [Nat -> Int] /\ c \in [Nat -> 0 .. Base - 1]
  <2>1. NativeDigit \subseteq Nat /\ NativeDigit \subseteq Int /\ NativeDigit = 0 .. Base - 1
    BY <1>1 DEF NativeDigit
  <2>. QED
    BY <2>1
<1>3. kept = IF size <= cap THEN size ELSE cap
  BY MinMaxOfTwo
<1>4. v \in Nat /\ v < PowerOf(Base, size)
  BY <1>1, <1>2, UptoBounded
<1>5. s \in Seq(NativeDigit) /\ Len(s) = size
  <2>1. \A i \in 1 .. size : i - 1 \in Nat
    OBVIOUS
  <2>2. \A i \in 1 .. size : c[i - 1] \in NativeDigit
    BY <2>1
  <2>. QED
    BY <2>2
<1>. HIDE DEF kept, v
<1>6. kept \in Nat /\ kept <= size /\ kept <= cap
  BY <1>3
<1>7. r \in Seq(NativeDigit) /\ Len(r) = kept /\ \A i \in 1 .. kept : r[i] = s[i]
  BY <1>5, <1>6
<1>. HIDE DEF r
<1>8. Total(r) = Upto(c, Base, kept)
  <2>1. Of(r) \in [Nat -> Int]
    BY <1>7, DigitsAreNative
  <2>2. ASSUME NEW i \in 0 .. kept - 1 PROVE Of(r)[i] = c[i]
    <3>1. i \in Nat /\ i < Len(r) /\ i + 1 \in 1 .. kept /\ i + 1 \in 1 .. size /\ (i + 1) - 1 = i
      BY <1>6, <1>7
    <3>2. Of(r)[i] = r[i + 1]
      BY <3>1 DEF Of
    <3>3. r[i + 1] = s[i + 1]
      BY <1>7, <3>1
    <3>. QED
      BY <3>1, <3>2, <3>3
  <2>3. Upto(Of(r), Base, kept) = Upto(c, Base, kept)
    BY <1>1, <1>2, <1>6, <2>1, <2>2, SameDigits
  <2>. QED
    BY <1>7, <2>3 DEF Total
<1>9. ASSUME NEW i \in kept + 1 .. size, s[i] # 0 PROVE v >= PowerOf(Base, cap)
  <2>1. PICK j \in Nat : j = i - 1 /\ j < size /\ i \in 1 .. size /\ cap <= j
    <3>1. i - 1 \in Nat /\ i - 1 < size /\ i \in 1 .. size /\ cap <= i - 1
      BY <1>3, <1>6
    <3>. QED
      BY <3>1
  <2>2. c[j] # 0
    BY <1>9, <2>1
  <2>3. v >= PowerOf(Base, j)
    BY <2>1, <2>2, DigitCounts DEF v
  <2>4. PowerOf(Base, cap) <= PowerOf(Base, j) /\ PowerOf(Base, cap) \in Nat /\ PowerOf(Base, j) \in Nat
    BY <2>1, BasePowersGrow
  <2>. QED
    BY <1>4, <2>3, <2>4
<1>10. ASSUME \A i \in kept + 1 .. size : s[i] = 0
       PROVE  v = Upto(c, Base, kept) /\ v < PowerOf(Base, cap)
  <2>1. ASSUME NEW j \in kept .. size - 1 PROVE c[j] = 0
    <3>1. j + 1 \in kept + 1 .. size /\ j + 1 \in 1 .. size /\ (j + 1) - 1 = j
      BY <1>6
    <3>. QED
      BY <1>10, <3>1
  <2>2. v = Upto(c, Base, kept)
    BY <1>1, <1>2, <1>6, <2>1, UptoZeroes DEF v
  <2>3. v < PowerOf(Base, kept)
    BY <1>1, <1>2, <1>6, <2>2, UptoBounded
  <2>4. PowerOf(Base, kept) <= PowerOf(Base, cap) /\ PowerOf(Base, cap) \in Nat /\ PowerOf(Base, kept) \in Nat
    BY <1>6, BasePowersGrow
  <2>. QED
    BY <1>4, <2>2, <2>3, <2>4
<1>11. PowerOf(Base, cap) \in Nat
  BY BasePowers
<1>12. (\E i \in kept + 1 .. size : s[i] # 0) <=> v >= PowerOf(Base, cap)
  <2>1. ASSUME \E i \in kept + 1 .. size : s[i] # 0 PROVE v >= PowerOf(Base, cap)
    BY <1>9, <2>1
  <2>2. ASSUME ~ (\E i \in kept + 1 .. size : s[i] # 0) PROVE ~ (v >= PowerOf(Base, cap))
    <3>1. \A i \in kept + 1 .. size : s[i] = 0
      BY <2>2
    <3>2. v < PowerOf(Base, cap)
      BY <1>10, <3>1
    <3>. QED
      BY <1>4, <1>11, <3>2
  <2>. QED
    BY <2>1, <2>2
<1>13. ASSUME v < PowerOf(Base, cap) PROVE x \in Number /\ Magnitude(x) = v /\ x.sign = 1
  <2>0. \A i \in kept + 1 .. size : s[i] = 0
    <3>1. ~ (v >= PowerOf(Base, cap))
      BY <1>4, <1>11, <1>13
    <3>. QED
      BY <1>12, <3>1
  <2>1. v = Total(r)
    BY <1>8, <1>10, <2>0
  <2>2. x \in Number /\ Magnitude(x) = Total(r) /\ x.sign = 1
    BY <1>7, HandlerFacts DEF r
  <2>. QED
    BY <2>1, <2>2
<1>. QED
  BY <1>12, <1>13 DEF kept, v, IsTrimmed

\* The carries k that enter the columns of Usum, and what it makes of these.
AreCarries(k, d, e, subtract) ==
  /\ k[0] = 0
  /\ \A i \in Nat : k[i + 1] = NextCarry(d[i], e[i], k[i],
                                         Column(d[i], e[i], k[i], subtract), subtract)

\* usum with its carries k and the number of its columns
ShapeOfUsum(a, b, subtract, extra, k, size) ==
  LET d == Of(a.digits)
      e == Of(b.digits)
      s == [i \in 1 .. size |-> Column(d[i - 1], e[i - 1], k[i - 1], subtract)]
      kept == Min({size, MaxDigits + extra})
  IN  /\ size = (IF Len(a.digits) <= Len(b.digits) THEN Len(b.digits) ELSE Len(a.digits))
                + (IF subtract THEN 0 ELSE 1)
      /\ AreCarries(k, d, e, subtract)
      /\ Usum(a, b, subtract, extra) =
           IF \E i \in kept + 1 .. size : s[i] # 0 THEN Raised
           ELSE Handler(1, Sanitize(SubSeq(s, 1, kept)))

\* What usum computes, with the carries as a function
LEMMA UsumShape ==
  ASSUME NEW a \in Number, NEW b \in Number, NEW subtract \in BOOLEAN, NEW extra \in Nat
  PROVE  \E k \in [Nat -> {0, 1}], size \in Nat : ShapeOfUsum(a, b, subtract, extra, k, size)
<1>. DEFINE d == Of(a.digits)
            e == Of(b.digits)
            size == Max({Len(a.digits), Len(b.digits)}) + IF subtract THEN 0 ELSE 1
            kept == Min({size, MaxDigits + extra})
            N(i, c) == NextCarry(d[i], e[i], c, Column(d[i], e[i], c, subtract), subtract)
            g == [i \in Nat |-> [c \in {0, 1} |-> N(i, c)]]
<1>1. /\ Len(a.digits) \in Nat /\ Len(b.digits) \in Nat /\ a # Raised /\ b # Raised
      /\ size = (IF Len(a.digits) <= Len(b.digits) THEN Len(b.digits) ELSE Len(a.digits))
                          + (IF subtract THEN 0 ELSE 1)
      /\ size \in Nat
  <2>1. Len(a.digits) \in Nat /\ Len(b.digits) \in Nat /\ a # Raised /\ b # Raised
    BY NumberFacts
  <2>2. Max({Len(a.digits), Len(b.digits)}) =
          IF Len(a.digits) <= Len(b.digits) THEN Len(b.digits) ELSE Len(a.digits)
    BY <2>1, MinMaxOfTwo
  <2>3. (IF subtract THEN 0 ELSE 1) \in Nat
    OBVIOUS
  <2>4. size \in Nat
    BY <2>1, <2>2, <2>3
  <2>. QED
    BY <2>1, <2>2, <2>4
<1>2. \A i, c : N(i, c) \in {0, 1}
  BY DEF NextCarry
<1>3. \A i \in Nat : Digit(a, i) = d[i] /\ Digit(b, i) = e[i]
  BY DEF Digit, Of
<1>. HIDE DEF d, e, N
<1>4. \E k : ComputesAll(k, {0, 1}, 0, g)
  <2>1. g \in [Nat -> [{0, 1} -> {0, 1}]] /\ 0 \in {0, 1}
    BY <1>2
  <2>. HIDE DEF g
  <2>. QED
    BY <2>1, NatRecursion
<1>5. PICK k : k \in [Nat -> {0, 1}] /\ k[0] = 0 /\ \A i \in Nat : k[i + 1] = N(i, k[i])
  BY <1>4 DEF ComputesAll
<1>. HIDE DEF g
<1>. DEFINE carry == CHOOSE f : f = [i \in 0 .. size |->
               IF i = 0 THEN 0
               ELSE NextCarry(Digit(a, i - 1), Digit(b, i - 1), f[i - 1],
                      Column(Digit(a, i - 1), Digit(b, i - 1), f[i - 1], subtract), subtract)]
            s == [i \in 1 .. size |-> Column(d[i - 1], e[i - 1], k[i - 1], subtract)]
            columns == [i \in 1 .. size |-> Column(Digit(a, i - 1), Digit(b, i - 1),
                                                   carry[i - 1], subtract)]
<1>6. \E f : f = [i \in 0 .. size |->
               IF i = 0 THEN 0
               ELSE NextCarry(Digit(a, i - 1), Digit(b, i - 1), f[i - 1],
                      Column(Digit(a, i - 1), Digit(b, i - 1), f[i - 1], subtract), subtract)]
  <2>. DEFINE f == [i \in 0 .. size |-> k[i]]
  <2>1. ASSUME NEW i \in 0 .. size, i # 0
        PROVE  f[i] = NextCarry(Digit(a, i - 1), Digit(b, i - 1), f[i - 1],
                      Column(Digit(a, i - 1), Digit(b, i - 1), f[i - 1], subtract), subtract)
    <3>1. i - 1 \in Nat /\ i - 1 \in 0 .. size /\ (i - 1) + 1 = i
      BY <1>1, <2>1
    <3>2. f[i] = N(i - 1, f[i - 1])
      BY <1>5, <3>1
    <3>. HIDE DEF f
    <3>. QED
      BY <1>3, <3>1, <3>2 DEF N
  <2>2. f[0] = 0 /\ f = [i \in 0 .. size |-> f[i]]
    BY <1>1, <1>5
  <2>. HIDE DEF f
  <2>. QED
    BY <2>1, <2>2
<1>7. carry = [i \in 0 .. size |->
               IF i = 0 THEN 0
               ELSE NextCarry(Digit(a, i - 1), Digit(b, i - 1), carry[i - 1],
                      Column(Digit(a, i - 1), Digit(b, i - 1), carry[i - 1], subtract), subtract)]
  BY <1>6
<1>8a. Raised \notin {a, b}
  BY <1>1
<1>8. Usum(a, b, subtract, extra) =
                    IF \E i \in kept + 1 .. size : columns[i] # 0 THEN Raised
                    ELSE Handler(1, Sanitize(SubSeq(columns, 1, kept)))
  BY <1>8a DEF Usum
<1>. HIDE DEF carry, size
<1>8b. size \in Nat
  BY <1>1
<1>9. ASSUME NEW j \in Nat, j <= size PROVE carry[j] = k[j]
  <2>. DEFINE T == {i \in Nat : i <= size => carry[i] = k[i]}
  <2>1. 0 \in T
    BY <1>1, <1>5, <1>7
  <2>2. ASSUME NEW i \in Nat, i \in T PROVE i + 1 \in T
    <3>. SUFFICES ASSUME i + 1 <= size PROVE carry[i + 1] = k[i + 1]
      OBVIOUS
    <3>1. i + 1 \in 0 .. size /\ i + 1 # 0 /\ (i + 1) - 1 = i /\ carry[i] = k[i]
      BY <1>8b, <2>2
    <3>2. carry[i + 1] = NextCarry(Digit(a, i), Digit(b, i), carry[i],
                      Column(Digit(a, i), Digit(b, i), carry[i], subtract), subtract)
      BY <1>7, <3>1
    <3>3. carry[i + 1] = N(i, k[i])
      BY <1>3, <3>1, <3>2 DEF N
    <3>. QED
      BY <1>5, <3>3
  <2>. HIDE DEF T
  <2>3. j \in T
    BY <2>1, <2>2, SetInduction
  <2>. QED
    BY <1>9, <2>3 DEF T
<1>10. columns = s
  <2>1. ASSUME NEW i \in 1 .. size PROVE columns[i] = s[i]
    <3>1. i - 1 \in Nat /\ i - 1 <= size
      BY <1>8b
    <3>2. carry[i - 1] = k[i - 1]
      BY <1>9, <3>1
    <3>. QED
      BY <1>3, <3>1, <3>2
  <2>. QED
    BY <2>1
<1>. HIDE DEF columns, kept, s
<1>11. Usum(a, b, subtract, extra) =
                    IF \E i \in kept + 1 .. size : s[i] # 0 THEN Raised
                    ELSE Handler(1, Sanitize(SubSeq(s, 1, kept)))
  BY <1>8, <1>10
<1>12. \A i \in Nat : k[i + 1] = NextCarry(d[i], e[i], k[i],
                                              Column(d[i], e[i], k[i], subtract), subtract)
  BY <1>5 DEF N
<1>13. k \in [Nat -> {0, 1}] /\ k[0] = 0
  BY <1>5
<1>14. AreCarries(k, d, e, subtract)
  BY <1>12, <1>13 DEF AreCarries
<1>15. ShapeOfUsum(a, b, subtract, extra, k, size)
  BY <1>1, <1>11, <1>14 DEF d, e, kept, s, ShapeOfUsum
<1>. QED
  BY <1>8b, <1>13, <1>15

\* The column of a sum or of a difference, and the carry that leaves it, are what the
\* integers ask for, but for the carry that is lost.
LEMMA ColumnIsExact ==
  ASSUME NEW d \in NativeDigit, NEW e \in NativeDigit, NEW carry \in {0, 1}, NEW subtract \in BOOLEAN
  PROVE  /\ Column(d, e, carry, subtract) \in NativeDigit
         /\ NextCarry(d, e, carry, Column(d, e, carry, subtract), subtract) \in {0, 1}
         /\ subtract = TRUE =>
              d - e = Column(d, e, carry, subtract) + carry -
                (IF NextCarry(d, e, carry, Column(d, e, carry, subtract), subtract) = 1
                 THEN Base ELSE 0)
         /\ subtract = FALSE /\ ~ (d = Base - 1 /\ e = Base - 1 /\ carry = 1) =>
              d + e = Column(d, e, carry, subtract) - carry +
                (IF NextCarry(d, e, carry, Column(d, e, carry, subtract), subtract) = 1
                 THEN Base ELSE 0)
         /\ subtract = FALSE /\ d = 0 /\ e = 0 =>
              NextCarry(d, e, carry, Column(d, e, carry, subtract), subtract) = 0
<1>. DEFINE column == Column(d, e, carry, subtract)
            next == NextCarry(d, e, carry, column, subtract)
<1>1. Base \in Nat /\ Base > 1 /\ d \in 0 .. Base - 1 /\ e \in 0 .. Base - 1
  BY BaseIsPositive DEF NativeDigit
<1>2. next \in {0, 1}
  BY DEF NextCarry
<1>3. CASE subtract = TRUE
  <2>1. column = Column(d, e, carry, TRUE) /\ next = NextCarry(d, e, carry, column, TRUE)
    BY <1>3
  <2>. HIDE DEF column, next
  <2>2. d - e - carry = column - Base * next
    BY <2>1, BorrowIsExact
  <2>3. PICK x \in Int : x = d - e - carry
    BY <1>1
  <2>4. x % Base \in 0 .. Base - 1
    BY <1>1
  <2>5. column = x % Base
    BY <2>1, <2>3 DEF Column
  <2>6. column \in 0 .. Base - 1
    BY <2>4, <2>5
  <2>7. next = 0 \/ next = 1
    BY <1>2
  <2>8. d - e = column + carry - (IF next = 1 THEN Base ELSE 0)
    <3>1. CASE next = 0
      BY <1>1, <2>2, <2>6, <3>1
    <3>2. CASE next = 1
      BY <1>1, <2>2, <2>6, <3>2
    <3>. QED
      BY <2>7, <3>1, <3>2
  <2>9. column \in NativeDigit /\ next \in {0, 1}
    BY <1>2, <2>6 DEF NativeDigit
  <2>. QED
    BY <1>3, <2>8, <2>9 DEF column, next
<1>4. CASE subtract = FALSE
  <2>1. column = Column(d, e, carry, FALSE) /\ next = NextCarry(d, e, carry, column, FALSE)
    BY <1>4
  <2>. HIDE DEF column, next
  <2>2. (d + e + carry = column + Base * next) <=> ~ (d = Base - 1 /\ e = Base - 1 /\ carry = 1)
    BY <2>1, CarryIsLostOnlyBetweenLargestDigits, ZenonT(60)
  <2>3. PICK x \in Int : x = d + e + carry
    BY <1>1
  <2>4. x % Base \in 0 .. Base - 1
    BY <1>1
  <2>5. column = x % Base
    BY <2>1, <2>3 DEF Column
  <2>6. column \in 0 .. Base - 1
    BY <2>4, <2>5
  <2>7. ASSUME d = 0, e = 0 PROVE next = 0
    <3>1. next = IF d > column \/ e > column THEN 1 ELSE 0
      BY <2>1 DEF NextCarry
    <3>2. ~ (0 > column)
      BY <1>1, <2>6
    <3>. QED
      BY <2>7, <3>1, <3>2
  <2>8. next = 0 \/ next = 1
    BY <1>2
  <2>9. ASSUME ~ (d = Base - 1 /\ e = Base - 1 /\ carry = 1)
        PROVE  d + e = column - carry + (IF next = 1 THEN Base ELSE 0)
    <3>1. d + e + carry = column + Base * next
      BY <2>2, <2>9
    <3>2. CASE next = 0
      BY <1>1, <2>6, <3>1, <3>2
    <3>3. CASE next = 1
      BY <1>1, <2>6, <3>1, <3>3
    <3>. QED
      BY <2>8, <3>2, <3>3
  <2>10. column \in NativeDigit /\ next \in {0, 1}
    BY <1>2, <2>6 DEF NativeDigit
  <2>. QED
    BY <1>4, <2>7, <2>9, <2>10 DEF column, next
<1>. QED
  BY <1>3, <1>4

\* The column of a difference
DifferenceColumn(d, e, carry, column, next) ==
  d - e = column + carry - (IF next = 1 THEN Base ELSE 0)
SumColumn(d, e, carry, column, next) ==
  d + e = column - carry + (IF next = 1 THEN Base ELSE 0)

\* ColumnIsExact for a difference
LEMMA ColumnOfDifference ==
  ASSUME NEW d \in NativeDigit, NEW e \in NativeDigit, NEW carry \in {0, 1},
         NEW column, column = Column(d, e, carry, TRUE),
         NEW next, next = NextCarry(d, e, carry, column, TRUE)
  PROVE  DifferenceColumn(d, e, carry, column, next)
BY ColumnIsExact, ZenonT(60) DEF DifferenceColumn

\* ColumnIsExact for a sum that does not lose its carry
LEMMA ColumnOfSum ==
  ASSUME NEW d \in NativeDigit, NEW e \in NativeDigit, NEW carry \in {0, 1},
         NEW column, column = Column(d, e, carry, FALSE),
         NEW next, next = NextCarry(d, e, carry, column, FALSE),
         ~ (d = Base - 1 /\ e = Base - 1 /\ carry = 1)
  PROVE  SumColumn(d, e, carry, column, next)
BY ColumnIsExact, ZenonT(60) DEF SumColumn

\* No carry enters a column of two largest digits
NoCarryLost(d, e) ==
  \A i \in Nat \ {0} :
    ~ (/\ d[i] = Base - 1 /\ e[i] = Base - 1
       /\ Upto(d, Base, i) + Upto(e, Base, i) >= PowerOf(Base, i))

\* What the columns of a sum, or of a difference, and their carries say of the operands.
LEMMA ColumnsAdd ==
  ASSUME NEW d \in [Nat -> NativeDigit], NEW e \in [Nat -> NativeDigit], NEW k \in [Nat -> {0, 1}],
         NEW subtract \in BOOLEAN, NEW size \in Nat, AreCarries(k, d, e, subtract),
         subtract = FALSE => NoCarryLost(d, e)
  PROVE  LET c == [i \in Nat |-> Column(d[i], e[i], k[i], subtract)]
         IN  /\ c \in [Nat -> NativeDigit]
             /\ subtract = TRUE => Upto(d, Base, size) - Upto(e, Base, size)
                              = Upto(c, Base, size) - k[size] * PowerOf(Base, size)
             /\ subtract = FALSE => Upto(d, Base, size) + Upto(e, Base, size)
                              = Upto(c, Base, size) + k[size] * PowerOf(Base, size)
<1>0. PICK one \in Int : one = 1
  OBVIOUS
<1>0a. one \in Int
  BY <1>0
<1>. DEFINE c == [i \in Nat |-> Column(d[i], e[i], k[i], subtract)]
            s == IF subtract = TRUE THEN -1 ELSE 1
            f == [i \in Nat |-> one * d[i] + s * e[i]]
            K == [i \in Nat |-> s * k[i]]
            Fits(i) == f[i] = c[i] + Base * K[i + 1] - K[i]
<1>1. /\ Base \in Nat /\ Base > 1 /\ Base \in Int /\ NativeDigit \subseteq Int
      /\ s \in Int
  BY BaseIsPositive DEF NativeDigit
<1>1a. NativeDigit \subseteq Int
  BY <1>1
<1>2. \A i \in Nat : c[i] \in NativeDigit /\ f[i] \in Int /\ K[i] \in Int
  <2>. SUFFICES ASSUME NEW i \in Nat PROVE c[i] \in NativeDigit /\ f[i] \in Int /\ K[i] \in Int
    OBVIOUS
  <2>0. d[i] \in NativeDigit /\ e[i] \in NativeDigit /\ k[i] \in {0, 1}
    OBVIOUS
  <2>1. c[i] \in NativeDigit
    BY <2>0, ColumnIsExact
  <2>2. d[i] \in Int /\ e[i] \in Int /\ k[i] \in Int
    <3>1. d[i] \in Int
      BY <1>1a, <2>0
    <3>2. e[i] \in Int
      BY <1>1a, <2>0
    <3>3. k[i] \in Int
      BY <2>0
    <3>. QED
      BY <3>1, <3>2, <3>3
  <2>. QED
    BY <1>1, <2>1, <2>2
<1>3. c \in [Nat -> NativeDigit] /\ c \in [Nat -> Int] /\ f \in [Nat -> Int] /\ K \in [Nat -> Int]
      /\ d \in [Nat -> Int] /\ e \in [Nat -> Int]
  BY <1>1, <1>2
<1>4. \A i \in Nat : subtract = TRUE \/ ~ (d[i] = Base - 1 /\ e[i] = Base - 1 /\ k[i] = 1) => Fits(i)
  <2>. SUFFICES ASSUME NEW i \in Nat, subtract = TRUE \/ ~ (d[i] = Base - 1 /\ e[i] = Base - 1 /\ k[i] = 1)
                PROVE  Fits(i)
    OBVIOUS
  <2>1. i + 1 \in Nat /\ d[i] \in NativeDigit /\ e[i] \in NativeDigit /\ k[i] \in {0, 1}
        /\ k[i + 1] \in {0, 1}
    OBVIOUS
  <2>2. PICK u \in NativeDigit, v \in NativeDigit, w \in NativeDigit, p \in {0, 1}, q \in {0, 1} :
          u = d[i] /\ v = e[i] /\ w = c[i] /\ p = k[i] /\ q = k[i + 1]
    BY <1>1, <1>2, <2>1
  <2>2a. k[i + 1] = NextCarry(d[i], e[i], k[i], Column(d[i], e[i], k[i], subtract), subtract)
    BY DEF AreCarries
  <2>2b. w = Column(d[i], e[i], k[i], subtract)
    BY <2>2
  <2>3. subtract = TRUE => u - v = w + p - (IF q = 1 THEN Base ELSE 0)
    <3>. HIDE DEF c
    <3>. SUFFICES ASSUME subtract = TRUE PROVE u - v = w + p - (IF q = 1 THEN Base ELSE 0)
      OBVIOUS
    <3>1. w = Column(u, v, p, TRUE) /\ q = NextCarry(u, v, p, w, TRUE)
      BY <2>2, <2>2a, <2>2b
    <3>2. DifferenceColumn(u, v, p, w, q)
      BY <3>1, ColumnOfDifference
    <3>. QED
      BY <3>2 DEF DifferenceColumn
  <2>4. subtract = FALSE => u + v = w - p + (IF q = 1 THEN Base ELSE 0)
    <3>. HIDE DEF c
    <3>. SUFFICES ASSUME subtract = FALSE PROVE u + v = w - p + (IF q = 1 THEN Base ELSE 0)
      OBVIOUS
    <3>1. w = Column(u, v, p, FALSE) /\ q = NextCarry(u, v, p, w, FALSE)
      BY <2>2, <2>2a, <2>2b
    <3>2. ~ (u = Base - 1 /\ v = Base - 1 /\ p = 1)
      BY <2>2
    <3>3. SumColumn(u, v, p, w, q)
      BY <3>1, <3>2, ColumnOfSum
    <3>. QED
      BY <3>3 DEF SumColumn
  <2>5. w \in Int /\ u \in Int /\ v \in Int
    BY <1>1
  <2>6. f[i] = u + s * v /\ c[i] = w /\ K[i + 1] = s * q /\ K[i] = s * p
    <3>1. f[i] = one * u + s * v
      BY <2>1, <2>2
    <3>2. one * u = u
      BY <1>0, <2>5
    <3>3. c[i] = w /\ K[i + 1] = s * q /\ K[i] = s * p
      BY <2>1, <2>2
    <3>. QED
      BY <3>1, <3>2, <3>3
  <2>6a. s = IF subtract = TRUE THEN -1 ELSE 1
    OBVIOUS
  <2>6b. p \in Int /\ q \in Int
    BY <2>2
  <2>. HIDE DEF c, f, K, s
  <2>7. CASE subtract = TRUE
    <3>1. f[i] = u - v /\ K[i + 1] = -q /\ K[i] = -p
      BY <2>5, <2>6, <2>6a, <2>6b, <2>7
    <3>2. CASE q = 1
      BY <1>1, <2>3, <2>5, <2>6, <2>7, <3>1, <3>2
    <3>3. CASE q = 0
      BY <1>1, <2>3, <2>5, <2>6, <2>7, <3>1, <3>3
    <3>. QED
      BY <3>2, <3>3
  <2>8. CASE subtract = FALSE
    <3>1. f[i] = u + v /\ K[i + 1] = q /\ K[i] = p
      BY <2>5, <2>6, <2>6a, <2>6b, <2>8
    <3>2. CASE q = 1
      BY <1>1, <2>4, <2>5, <2>6, <2>8, <3>1, <3>2
    <3>3. CASE q = 0
      BY <1>1, <2>4, <2>5, <2>6, <2>8, <3>1, <3>3
    <3>. QED
      BY <3>2, <3>3
  <2>. QED
    BY <2>7, <2>8
<1>5. \A n \in Nat : Upto(f, Base, n) = one * Upto(d, Base, n) + s * Upto(e, Base, n)
  <2>. SUFFICES ASSUME NEW n \in Nat
                PROVE  Upto(f, Base, n) = one * Upto(d, Base, n) + s * Upto(e, Base, n)
    OBVIOUS
  <2>1. Combines(f, d, e, one, s, n)
    BY DEF Combines
  <2>. HIDE DEF f, s
  <2>. QED
    BY <1>0a, <1>1, <1>3, <2>1, Linear
<1>6. \A n \in Nat : (\A i \in 0 .. n - 1 : Fits(i)) =>
                       Upto(f, Base, n) = Upto(c, Base, n) + K[n] * PowerOf(Base, n) - K[0]
  <2>. SUFFICES ASSUME NEW n \in Nat, \A i \in 0 .. n - 1 : Fits(i)
                PROVE Upto(f, Base, n) = Upto(c, Base, n) + K[n] * PowerOf(Base, n) - K[0]
    OBVIOUS
  <2>. HIDE DEF f, c, K
  <2>. QED
    BY <1>1, <1>3, Carrying
<1>7. k[0] = 0 /\ K[0] = 0 /\ \A n \in Nat : K[n] = s * k[n] /\ k[n] \in {0, 1}
  BY <1>1 DEF AreCarries
<1>8. \A n \in Nat : /\ Upto(f, Base, n) \in Int /\ Upto(d, Base, n) \in Int /\ Upto(e, Base, n) \in Int
                     /\ Upto(c, Base, n) \in Nat /\ PowerOf(Base, n) \in Nat
  <2>. SUFFICES ASSUME NEW n \in Nat
       PROVE  /\ Upto(f, Base, n) \in Int /\ Upto(d, Base, n) \in Int /\ Upto(e, Base, n) \in Int
              /\ Upto(c, Base, n) \in Nat /\ PowerOf(Base, n) \in Nat
    OBVIOUS
  <2>1. NativeDigit = 0 .. Base - 1 /\ Base >= 1
    BY <1>1 DEF NativeDigit
  <2>. HIDE DEF f, c
  <2>2. Upto(f, Base, n) \in Int /\ Upto(d, Base, n) \in Int /\ Upto(e, Base, n) \in Int
    BY <1>1, <1>3, UptoFacts
  <2>3. Upto(c, Base, n) \in Nat
    BY <1>1, <1>3, <2>1, UptoBounded
  <2>. QED
    BY <2>2, <2>3, BasePowers
<1>. HIDE DEF f, c, K
<1>. DEFINE T == {n \in Nat : \A i \in 0 .. n - 1 : Fits(i)}
<1>9. Nat \subseteq T
  <2>1. 0 \in T
    OBVIOUS
  <2>2. ASSUME NEW n \in Nat, n \in T PROVE n + 1 \in T
    <3>1. Fits(n)
      <4>1. CASE subtract = TRUE
        BY <1>4, <4>1
      <4>2. CASE subtract = FALSE
        <5>. SUFFICES ASSUME d[n] = Base - 1, e[n] = Base - 1, k[n] = 1 PROVE FALSE
          BY <1>4
        <5>1. Upto(f, Base, n) = Upto(c, Base, n) + K[n] * PowerOf(Base, n) - K[0]
          BY <1>6, <2>2
        <5>2. K[n] = 1 /\ K[0] = 0 /\ s = 1
          BY <1>7, <4>2
        <5>3. Upto(f, Base, n) = Upto(d, Base, n) + Upto(e, Base, n)
          BY <1>0, <1>5, <1>8, <5>2
        <5>4. Upto(f, Base, n) >= PowerOf(Base, n)
          BY <1>8, <5>1, <5>2
        <5>5. n # 0
          BY <1>7
        <5>. QED
          BY <4>2, <5>3, <5>4, <5>5 DEF NoCarryLost
      <4>. QED
        BY <4>1, <4>2
    <3>2. \A i \in 0 .. (n + 1) - 1 : i \in 0 .. n - 1 \/ i = n
      OBVIOUS
    <3>. HIDE DEF Fits
    <3>. QED
      BY <2>2, <3>1, <3>2
  <2>. HIDE DEF T
  <2>. QED
    BY <2>1, <2>2, SetInduction
<1>10. Upto(f, Base, size) = Upto(c, Base, size) + K[size] * PowerOf(Base, size) - K[0]
  <2>. HIDE DEF Fits
  <2>. QED
    BY <1>6, <1>9
<1>11. CASE subtract = TRUE
  <2>1. s = -1
    BY <1>11
  <2>2. Upto(f, Base, size) = Upto(d, Base, size) - Upto(e, Base, size)
    BY <1>0, <1>5, <1>8, <2>1
  <2>3. K[size] * PowerOf(Base, size) = -(k[size] * PowerOf(Base, size)) /\ k[size] * PowerOf(Base, size) \in Nat
    <3>1. K[size] = -k[size] /\ (k[size] = 0 \/ k[size] = 1)
      BY <1>7, <2>1
    <3>. QED
      BY <1>8, <3>1
  <2>4. Upto(d, Base, size) - Upto(e, Base, size) = Upto(c, Base, size) - k[size] * PowerOf(Base, size)
    BY <1>7, <1>8, <1>10, <2>2, <2>3
  <2>. QED
    BY <1>3, <1>11, <2>4 DEF c
<1>12. CASE subtract = FALSE
  <2>1. s = 1
    BY <1>12
  <2>2. Upto(f, Base, size) = Upto(d, Base, size) + Upto(e, Base, size)
    BY <1>0, <1>5, <1>8, <2>1
  <2>3. K[size] = k[size] /\ (k[size] = 0 \/ k[size] = 1) /\ k[size] * PowerOf(Base, size) \in Nat
    <3>1. K[size] = k[size] /\ (k[size] = 0 \/ k[size] = 1)
      BY <1>7, <2>1
    <3>. QED
      BY <1>8, <3>1
  <2>4. Upto(d, Base, size) + Upto(e, Base, size) = Upto(c, Base, size) + k[size] * PowerOf(Base, size)
    BY <1>7, <1>8, <1>10, <2>2, <2>3
  <2>. QED
    BY <1>3, <1>12, <2>4 DEF c
<1>. QED
  BY <1>11, <1>12

\* usum is exact, for differences always, for sums when no carry is lost
LEMMA UsumIsExact ==
  ASSUME NEW a \in Number, NEW b \in Number, NEW subtract \in BOOLEAN, NEW extra \in Nat,
         subtract = FALSE => NoCarryLost(Of(a.digits), Of(b.digits)),
         subtract = TRUE => Magnitude(b) <= Magnitude(a)
  PROVE  Exactly(Usum(a, b, subtract, extra),
                 IF subtract = TRUE THEN Magnitude(a) - Magnitude(b) ELSE Magnitude(a) + Magnitude(b),
                 MaxDigits + extra)
<1>. DEFINE d == Of(a.digits)
            e == Of(b.digits)
            cap == MaxDigits + extra
            m == IF Len(a.digits) <= Len(b.digits) THEN Len(b.digits) ELSE Len(a.digits)
<1>1. /\ a.digits \in Seq(NativeDigit) /\ b.digits \in Seq(NativeDigit)
      /\ Len(a.digits) \in Nat /\ Len(b.digits) \in Nat /\ Magnitude(a) \in Nat /\ Magnitude(b) \in Nat
      /\ Magnitude(a) = Total(a.digits) /\ Magnitude(b) = Total(b.digits)
  BY NumberFacts DEF Magnitude
<1>2. /\ d \in [Nat -> NativeDigit] /\ e \in [Nat -> NativeDigit]
      /\ \A i \in Nat : i >= Len(a.digits) => d[i] = 0
      /\ \A i \in Nat : i >= Len(b.digits) => e[i] = 0
  BY <1>1, DigitsAreNative
<1>3. PICK k \in [Nat -> {0, 1}], size \in Nat : ShapeOfUsum(a, b, subtract, extra, k, size)
  BY UsumShape
<1>. DEFINE c == [i \in Nat |-> Column(d[i], e[i], k[i], subtract)]
            s == [i \in 1 .. size |-> c[i - 1]]
            kept == Min({size, cap})
            v == Upto(c, Base, size)
            x == Handler(1, Sanitize(SubSeq(s, 1, kept)))
<1>4. m \in Nat /\ Len(a.digits) <= m /\ Len(b.digits) <= m /\ size >= m /\ cap \in Nat
      /\ (subtract = FALSE => size = m + 1)
  <2>1. size = m + (IF subtract THEN 0 ELSE 1)
    BY <1>3 DEF ShapeOfUsum
  <2>2. MaxDigits \in Nat
    BY IntegerAssumption
  <2>3. m \in Nat /\ Len(a.digits) <= m /\ Len(b.digits) <= m
    BY <1>1
  <2>. HIDE DEF m
  <2>4. CASE subtract = TRUE
    BY <2>1, <2>2, <2>3, <2>4
  <2>5. CASE subtract = FALSE
    BY <2>1, <2>2, <2>3, <2>5
  <2>. QED
    BY <2>4, <2>5
<1>5. AreCarries(k, d, e, subtract)
  BY <1>3 DEF ShapeOfUsum
<1>6. Usum(a, b, subtract, extra) = IF \E i \in kept + 1 .. size : s[i] # 0 THEN Raised ELSE x
  <2>1. s = [i \in 1 .. size |-> Column(d[i - 1], e[i - 1], k[i - 1], subtract)]
    <3>1. \A i \in 1 .. size : i - 1 \in Nat
      OBVIOUS
    <3>. QED
      BY <3>1
  <2>. QED
    BY <1>3, <2>1 DEF ShapeOfUsum
<1>. HIDE DEF d, e, m
<1>7. /\ c \in [Nat -> NativeDigit]
      /\ subtract = TRUE => Upto(d, Base, size) - Upto(e, Base, size) = v - k[size] * PowerOf(Base, size)
      /\ subtract = FALSE => Upto(d, Base, size) + Upto(e, Base, size) = v + k[size] * PowerOf(Base, size)
  <2>1. subtract = FALSE => NoCarryLost(d, e)
    BY DEF d, e
  <2>. QED
    BY <1>2, <1>5, <2>1, ColumnsAdd, ZenonT(60)
<1>8. Upto(d, Base, size) = Magnitude(a) /\ Upto(e, Base, size) = Magnitude(b)
  <2>1. size >= Len(a.digits) /\ size >= Len(b.digits)
    BY <1>1, <1>4
  <2>. QED
    BY <1>1, <2>1, TotalFacts DEF d, e
<1>9. v \in Nat /\ v < PowerOf(Base, size) /\ PowerOf(Base, size) \in Nat
  <2>1. Base \in Nat /\ Base >= 1
    BY BaseIsPositive
  <2>2. c \in [Nat -> 0 .. Base - 1]
    BY <1>7 DEF NativeDigit
  <2>. HIDE DEF c
  <2>. QED
    BY <2>1, <2>2, UptoBounded, BasePowers
<1>10. k[size] = 0
  <2>1. CASE subtract = TRUE
    <3>1. SUFFICES ASSUME k[size] = 1 PROVE FALSE
      OBVIOUS
    <3>2. Magnitude(a) - Magnitude(b) = v - PowerOf(Base, size)
      BY <1>7, <1>8, <1>9, <2>1, <3>1
    <3>. HIDE DEF v
    <3>. QED
      BY <1>1, <1>9, <2>1, <3>2
  <2>2. CASE subtract = FALSE
    <3>1. d[m] = 0 /\ e[m] = 0 /\ size = m + 1 /\ k[m] \in {0, 1} /\ 0 \in NativeDigit
      BY <1>1, <1>2, <1>4, <2>2, BaseIsPositive DEF NativeDigit
    <3>2. k[size] = NextCarry(0, 0, k[m], Column(0, 0, k[m], FALSE), FALSE)
      BY <1>4, <1>5, <2>2, <3>1 DEF AreCarries
    <3>3. \A q \in {0, 1} : NextCarry(0, 0, q, Column(0, 0, q, FALSE), FALSE) = 0
      BY <3>1, ColumnIsExact
    <3>. QED
      BY <3>1, <3>2, <3>3
  <2>. QED
    BY <2>1, <2>2
<1>11. v = IF subtract = TRUE THEN Magnitude(a) - Magnitude(b) ELSE Magnitude(a) + Magnitude(b)
  <2>1. k[size] * PowerOf(Base, size) = 0
    BY <1>9, <1>10
  <2>. HIDE DEF v
  <2>2. CASE subtract = TRUE
    BY <1>1, <1>7, <1>8, <1>9, <2>1, <2>2
  <2>3. CASE subtract = FALSE
    BY <1>1, <1>7, <1>8, <1>9, <2>1, <2>3
  <2>. QED
    BY <2>2, <2>3
<1>12. /\ (\E i \in kept + 1 .. size : s[i] # 0) <=> v >= PowerOf(Base, cap)
       /\ v < PowerOf(Base, cap) => x \in Number /\ Magnitude(x) = v /\ x.sign = 1
  <2>1. c \in [Nat -> NativeDigit] /\ cap \in Nat /\ s = [i \in 1 .. size |-> c[i - 1]]
    BY <1>4, <1>7
  <2>. HIDE DEF c, cap, s
  <2>2. IsTrimmed(s, size, cap, v)
    BY <2>1, Trimmed
  <2>. QED
    BY <2>2 DEF IsTrimmed
<1>. HIDE DEF v, x, s, kept, cap
<1>13. AbsOf(v) = v /\ PowerOf(Base, cap) \in Nat
  <2>1. ~ (v < 0)
    BY <1>9
  <2>. QED
    BY <1>4, <2>1, BasePowers DEF AbsOf
<1>14. Exactly(Usum(a, b, subtract, extra), v, cap)
  <2>1. CASE v >= PowerOf(Base, cap)
    BY <1>6, <1>12, <1>13, <2>1 DEF Exactly
  <2>2. CASE ~ (v >= PowerOf(Base, cap))
    <3>1. v < PowerOf(Base, cap)
      BY <1>9, <1>13, <2>2
    <3>2. x \in Number /\ Magnitude(x) = v /\ x.sign = 1
      BY <1>12, <3>1
    <3>3. ValueOf(x) = v
      BY <3>2, ValueFacts
    <3>4. Usum(a, b, subtract, extra) = x
      BY <1>6, <1>12, <2>2
    <3>. QED
      BY <1>13, <2>2, <3>2, <3>3, <3>4 DEF Exactly
  <2>. QED
    BY <2>1, <2>2
<1>. QED
  BY <1>11, <1>14 DEF cap

\* The same for a sum
LEMMA UsumOfSum ==
  ASSUME NEW a \in Number, NEW b \in Number, NEW extra \in Nat,
         NoCarryLost(Of(a.digits), Of(b.digits))
  PROVE  Exactly(Usum(a, b, FALSE, extra), Magnitude(a) + Magnitude(b), MaxDigits + extra)
<1>1. FALSE \in BOOLEAN /\ FALSE # TRUE
  OBVIOUS
<1>. QED
  BY <1>1, UsumIsExact

\* The same for a difference
LEMMA UsumOfDifference ==
  ASSUME NEW a \in Number, NEW b \in Number, NEW extra \in Nat, Magnitude(b) <= Magnitude(a)
  PROVE  Exactly(Usum(a, b, TRUE, extra), Magnitude(a) - Magnitude(b), MaxDigits + extra)
<1>1. TRUE \in BOOLEAN /\ FALSE # TRUE
  OBVIOUS
<1>. QED
  BY <1>1, UsumIsExact

\* What becomes of a magnitude that is given a sign.
LEMMA SignedIsExact ==
  ASSUME NEW r, NEW v \in Nat, NEW cap \in Nat, NEW sign \in {1, -1}, Exactly(r, v, cap)
  PROVE  Exactly(Signed(r, sign), sign * v, cap)
<1>1. AbsOf(v) = v /\ AbsOf(sign * v) = v /\ sign * v \in Int
  BY DEF AbsOf
<1>2. PowerOf(Base, cap) \in Nat
  BY BasePowers
<1>3. CASE v >= PowerOf(Base, cap)
  BY <1>1, <1>3 DEF Exactly, Signed
<1>4. CASE ~ (v >= PowerOf(Base, cap))
  <2>1. r \in Number /\ ValueOf(r) = v
    BY <1>1, <1>4 DEF Exactly
  <2>2. r # Raised /\ Magnitude(r) = v
    BY <1>1, <2>1, ValueFacts, NumberFacts
  <2>3. SetSign(r, sign) \in Number /\ ValueOf(SetSign(r, sign)) = sign * v
    BY <2>1, <2>2, SetSignFacts
  <2>. QED
    BY <1>1, <1>4, <2>2, <2>3 DEF Exactly, Signed
<1>. QED
  BY <1>3, <1>4

\* A sum or a difference is exact, whatever the signs, or raises when the value has more
\* digits than fit; the columns of two largest digits that a carry enters are the only
\* exception, in the sum of two absolute values (integer.cpp:434-513).
THEOREM SumIsExact ==
  ASSUME NEW a \in Number, NEW b \in Number, NEW inverseB \in BOOLEAN, NEW extra \in Nat,
         a.sign = (IF inverseB = TRUE THEN -b.sign ELSE b.sign) => NoCarryLost(Of(a.digits), Of(b.digits))
  PROVE  Exactly(Sum(a, b, inverseB, extra),
                 IF inverseB = TRUE THEN ValueOf(a) - ValueOf(b) ELSE ValueOf(a) + ValueOf(b),
                 MaxDigits + extra)
<1>. DEFINE bSign == IF inverseB THEN -b.sign ELSE b.sign
            v == IF inverseB = TRUE THEN ValueOf(a) - ValueOf(b) ELSE ValueOf(a) + ValueOf(b)
<1>0. a # Raised /\ b # Raised /\ MaxDigits + extra \in Nat
  BY NumberFacts, IntegerAssumption
<1>1. /\ a.sign \in {1, -1} /\ b.sign \in {1, -1} /\ bSign \in {1, -1}
      /\ Magnitude(a) \in Nat /\ Magnitude(b) \in Nat
  BY NumberFacts
<1>2. ValueOf(a) = a.sign * Magnitude(a) /\ ValueOf(b) = b.sign * Magnitude(b)
  BY <1>1, ValueFacts
<1>3. v = a.sign * Magnitude(a) + bSign * Magnitude(b)
  BY <1>1, <1>2
<1>4. bSign = (IF inverseB = TRUE THEN -b.sign ELSE b.sign)
  OBVIOUS
<1>5. /\ a.sign = bSign => Sum(a, b, inverseB, extra) = Signed(Usum(a, b, FALSE, extra), bSign)
      /\ a.sign # bSign /\ CompareAbs(a, b) >= 0 =>
           Sum(a, b, inverseB, extra) = Signed(Usum(a, b, TRUE, extra), a.sign)
      /\ a.sign # bSign /\ ~ (CompareAbs(a, b) >= 0) =>
           Sum(a, b, inverseB, extra) = Signed(Usum(b, a, TRUE, extra), bSign)
  BY <1>0 DEF Sum
<1>. HIDE DEF bSign, v
<1>6. CASE a.sign = bSign
  <2>1. Exactly(Usum(a, b, FALSE, extra), Magnitude(a) + Magnitude(b), MaxDigits + extra)
    BY <1>4, <1>6, UsumOfSum
  <2>2. PICK t \in Nat : t = Magnitude(a) + Magnitude(b)
    BY <1>1
  <2>3. Exactly(Signed(Usum(a, b, FALSE, extra), bSign), bSign * t, MaxDigits + extra)
    BY <1>0, <1>1, <2>1, <2>2, SignedIsExact
  <2>4. v = bSign * t
    BY <1>1, <1>3, <1>6, <2>2
  <2>. QED
    BY <1>5, <1>6, <2>3, <2>4 DEF v
<1>7. CASE a.sign # bSign /\ CompareAbs(a, b) >= 0
  <2>0. Magnitude(b) <= Magnitude(a)
    BY <1>1, <1>7, CompareAbsFacts
  <2>1. Exactly(Usum(a, b, TRUE, extra), Magnitude(a) - Magnitude(b), MaxDigits + extra)
    BY <2>0, UsumOfDifference
  <2>2. PICK t \in Nat : t = Magnitude(a) - Magnitude(b)
    BY <1>1, <2>0
  <2>3. Exactly(Signed(Usum(a, b, TRUE, extra), a.sign), a.sign * t, MaxDigits + extra)
    BY <1>0, <1>1, <2>1, <2>2, SignedIsExact
  <2>4. v = a.sign * t
    BY <1>1, <1>3, <1>7, <2>2
  <2>. QED
    BY <1>5, <1>7, <2>3, <2>4 DEF v
<1>8. CASE a.sign # bSign /\ ~ (CompareAbs(a, b) >= 0)
  <2>0. Magnitude(a) <= Magnitude(b)
    BY <1>1, <1>8, CompareAbsFacts
  <2>1. Exactly(Usum(b, a, TRUE, extra), Magnitude(b) - Magnitude(a), MaxDigits + extra)
    BY <2>0, UsumOfDifference
  <2>2. PICK t \in Nat : t = Magnitude(b) - Magnitude(a)
    BY <1>1, <2>0
  <2>3. Exactly(Signed(Usum(b, a, TRUE, extra), bSign), bSign * t, MaxDigits + extra)
    BY <1>0, <1>1, <2>1, <2>2, SignedIsExact
  <2>4. v = bSign * t
    BY <1>1, <1>3, <1>8, <2>2
  <2>. QED
    BY <1>5, <1>8, <2>3, <2>4 DEF v
<1>. QED
  BY <1>6, <1>7, <1>8

-----------------------------------------------------------------------------
(* Products, row after row *)

\* The columns of a product under way.
Rows(size) == [digits : [1 .. size -> NativeDigit], raised : BOOLEAN, carry : NativeDigit]

\* The parts of a row
LEMMA RowFacts ==
  ASSUME NEW size \in Nat, NEW r \in Rows(size)
  PROVE  /\ r.digits \in Seq(NativeDigit) /\ Len(r.digits) = size /\ r.raised \in BOOLEAN
         /\ r.carry \in NativeDigit /\ r.carry \in Nat /\ Total(r.digits) \in Nat
         /\ \A i \in Nat : Of(r.digits)[i] \in NativeDigit /\ Of(r.digits)[i] \in Nat
         /\ \A i \in Nat : i >= size => Of(r.digits)[i] = 0
<1>1. r.digits \in [1 .. size -> NativeDigit] /\ r.raised \in BOOLEAN /\ r.carry \in NativeDigit
  BY DEF Rows
<1>2. r.digits \in Seq(NativeDigit) /\ Len(r.digits) = size
  BY <1>1
<1>3. NativeDigit \subseteq Nat
  BY BaseIsPositive DEF NativeDigit
<1>4. /\ Of(r.digits) \in [Nat -> NativeDigit]
      /\ \A i \in Nat : i >= Len(r.digits) => Of(r.digits)[i] = 0
      /\ Total(r.digits) \in Nat
  BY <1>2, DigitsAreNative, TotalFacts
<1>. QED
  BY <1>1, <1>2, <1>3, <1>4

\* Reading a column within the capacity
LEMMA ColumnAtIs ==
  ASSUME NEW size \in Nat, NEW cap \in Nat, size <= cap, NEW r \in Rows(size), NEW k \in Nat,
         k < cap => k < size
  PROVE  ColumnAt(r, cap, k) = Of(r.digits)[k]
<1>1. Len(r.digits) = size
  BY RowFacts
<1>2. CASE k < cap
  BY <1>1, <1>2 DEF ColumnAt, Of
<1>3. CASE ~ (k < cap)
  <2>1. ~ (k < size)
    BY <1>3
  <2>. QED
    BY <1>1, <1>3, <2>1 DEF ColumnAt, Of
<1>. QED
  BY <1>2, <1>3

\* What Put makes of a row.
PutAt(r, s, size, cap, k, v, carry) ==
  /\ s \in Rows(size) /\ s.carry = carry
  /\ s.raised <=> (r.raised \/ (k >= cap /\ v # 0))
  /\ \A i \in Nat : i # k => Of(s.digits)[i] = Of(r.digits)[i]
  /\ ~ s.raised => Total(s.digits) = Total(r.digits) + (v - Of(r.digits)[k]) * PowerOf(Base, k)

\* Writing a column changes the number by that column, or raises
LEMMA PutFacts ==
  ASSUME NEW size \in Nat, NEW cap \in Nat, size <= cap, NEW r \in Rows(size), NEW k \in Nat,
         k < cap => k < size, NEW v \in NativeDigit, NEW carry \in NativeDigit
  PROVE  PutAt(r, Put(r, cap, k, v, carry), size, cap, k, v, carry)
<1>. DEFINE s == Put(r, cap, k, v, carry)
<1>1. r.digits \in [1 .. size -> NativeDigit] /\ r.raised \in BOOLEAN
  BY DEF Rows
<1>2. /\ s.digits = IF k < cap THEN [r.digits EXCEPT ![k + 1] = v] ELSE r.digits
      /\ s.raised = (r.raised \/ (k >= cap /\ v # 0)) /\ s.carry = carry
      /\ s = [digits |-> s.digits, raised |-> s.raised, carry |-> s.carry]
  BY DEF Put
<1>. HIDE DEF s
<1>3. s.digits \in [1 .. size -> NativeDigit]
  BY <1>1, <1>2
<1>4. s.raised \in BOOLEAN
  BY <1>2
<1>5. s \in Rows(size)
  BY <1>2, <1>3, <1>4 DEF Rows
<1>6. Len(s.digits) = size /\ Len(r.digits) = size
  BY <1>5, RowFacts
<1>7. ASSUME NEW i \in Nat, i # k PROVE Of(s.digits)[i] = Of(r.digits)[i]
  <2>1. CASE i < size
    <3>1. i + 1 \in 1 .. size /\ i + 1 # k + 1
      BY <1>7, <2>1
    <3>2. s.digits[i + 1] = r.digits[i + 1]
      BY <1>1, <1>2, <3>1
    <3>. QED
      BY <1>6, <2>1, <3>2 DEF Of
  <2>2. CASE ~ (i < size)
    BY <1>6, <2>2 DEF Of
  <2>. QED
    BY <2>1, <2>2
<1>8. PowerOf(Base, k) \in Nat /\ Total(r.digits) \in Nat
  BY BasePowers, RowFacts
<1>9. ASSUME ~ s.raised
      PROVE  Total(s.digits) = Total(r.digits) + (v - Of(r.digits)[k]) * PowerOf(Base, k)
  <2>1. CASE k < cap
    <3>1. k \in 0 .. size - 1 /\ k + 1 \in 1 .. size /\ k < size
      BY <2>1
    <3>2. s.digits[k + 1] = v
      BY <1>1, <1>2, <2>1, <3>1
    <3>3. Of(s.digits)[k] = v
      BY <1>6, <3>1, <3>2 DEF Of
    <3>4. Of(s.digits) \in [Nat -> Int] /\ Of(r.digits) \in [Nat -> Int] /\ Base \in Int
      <4>1. s.digits \in Seq(NativeDigit) /\ r.digits \in Seq(NativeDigit)
        BY <1>5, RowFacts
      <4>2. Of(s.digits) \in [Nat -> Int] /\ Of(r.digits) \in [Nat -> Int]
        BY <4>1, DigitsAreNative
      <4>3. Base \in Int
        BY BaseIsPositive
      <4>. QED
        BY <4>2, <4>3
    <3>5. \A i \in 0 .. size - 1 : i # k => Of(s.digits)[i] = Of(r.digits)[i]
      BY <1>7
    <3>6. Upto(Of(s.digits), Base, size)
            = Upto(Of(r.digits), Base, size) + (Of(s.digits)[k] - Of(r.digits)[k]) * PowerOf(Base, k)
      BY <3>1, <3>4, <3>5, UptoChange
    <3>. QED
      BY <1>6, <3>3, <3>6 DEF Total
  <2>2. CASE ~ (k < cap)
    <3>0. k >= cap
      BY <2>2
    <3>1. v = 0
      BY <1>2, <1>9, <3>0
    <3>2. Of(r.digits)[k] = 0
      BY <2>2, RowFacts
    <3>3. (v - Of(r.digits)[k]) * PowerOf(Base, k) = 0
      BY <1>8, <3>1, <3>2
    <3>4. Total(s.digits) = Total(r.digits)
      BY <1>2, <2>2
    <3>. QED
      BY <1>8, <3>3, <3>4
  <2>. QED
    BY <2>1, <2>2
<1>. QED
  BY <1>2, <1>5, <1>7, <1>9 DEF PutAt, s

\* A column of a row, and what is carried to the next.
ColumnAdded(r, s, size, cap, k, x) ==
  /\ s \in Rows(size)
  /\ \A i \in Nat : i # k => Of(s.digits)[i] = Of(r.digits)[i]
  /\ r.raised => s.raised
  /\ ~ s.raised => Total(s.digits) + s.carry * PowerOf(Base, k + 1)
                     = Total(r.digits) + (r.carry + x) * PowerOf(Base, k)
  /\ s.raised /\ ~ r.raised => Total(r.digits) + (r.carry + x) * PowerOf(Base, k) >= PowerOf(Base, cap)

\* A column beyond the capacity makes the number too large
LEMMA AtLeastThePower ==
  ASSUME NEW t \in Nat, NEW x \in Nat, x >= 1, NEW k \in Nat, NEW cap \in Nat, cap <= k
  PROVE  t + x * PowerOf(Base, k) >= PowerOf(Base, cap)
<1>1. PICK p \in Nat, q \in Nat : p = PowerOf(Base, k) /\ q = PowerOf(Base, cap) /\ q <= p
  BY BasePowersGrow
<1>2. 1 * p <= x * p /\ x * p \in Nat
  BY ProductGrows, ProductIsNat
<1>. QED
  BY <1>1, <1>2

\* One turn of the inner loop of the product (integer.cpp:545-563)
LEMMA AddColumn ==
  ASSUME NEW size \in Nat, NEW cap \in Nat, size <= cap, NEW r \in Rows(size), NEW k \in Nat,
         k < cap => k < size, NEW d \in NativeDigit, NEW e \in NativeDigit,
         NEW p, p = Product(d, e, r.carry, ColumnAt(r, cap, k)) % (Base * Base)
  PROVE  ColumnAdded(r, Put(r, cap, k, p % Base, p \div Base), size, cap, k, d * e)
<1>. DEFINE v == p % Base
            c == p \div Base
            s == Put(r, cap, k, v, c)
<1>1. PICK already \in NativeDigit : already = Of(r.digits)[k] /\ already = ColumnAt(r, cap, k)
  BY RowFacts, ColumnAtIs
<1>2. PICK carry \in NativeDigit : carry = r.carry
  BY RowFacts
<1>3. Base \in Nat /\ Base >= 1 /\ Base > 1 /\ NativeDigit = 0 .. Base - 1 /\ NativeDigit \subseteq Nat
  BY BaseIsPositive DEF NativeDigit
<1>4. PICK x \in Nat : x = d * e
  BY <1>3, ProductIsNat
<1>5. already \in Nat /\ carry \in Nat
  BY <1>3
<1>6. PICK whole \in Nat : whole = x + carry + already
  BY <1>5
<1>7. PICK square \in Nat : square = Base * Base
  BY <1>3, ProductIsNat
<1>8. whole < square
  <2>1. Product(d, e, carry, already) \in 0 .. Base * Base - 1
    BY ProductFitsDoubleNative
  <2>2. Product(d, e, carry, already) = whole
    BY <1>4, <1>6 DEF Product
  <2>. QED
    BY <1>7, <2>1, <2>2
<1>9. p = whole
  <2>1. p = whole % square
    BY <1>1, <1>2, <1>4, <1>6, <1>7 DEF Product
  <2>2. whole = square * 0 + whole
    BY <1>7
  <2>. QED
    BY <1>8, <2>1, <2>2, DivisionIsUnique
<1>10. v \in Nat /\ v < Base /\ c \in Nat /\ whole = Base * c + v
  <2>1. /\ whole \div Base \in Int /\ whole % Base \in Int /\ 0 <= whole % Base /\ whole % Base < Base
        /\ whole = Base * (whole \div Base) + (whole % Base)
        /\ whole >= 0 => whole \div Base >= 0
    BY <1>3, Divides
  <2>2. PICK y \in Int, z \in Int : y = whole % Base /\ z = whole \div Base
    BY <2>1
  <2>3. y = v /\ z = c
    BY <1>9, <2>2
  <2>. HIDE DEF v, c
  <2>. QED
    BY <2>1, <2>2, <2>3
<1>. HIDE DEF v, c
<1>11. c < Base
  <2>1. Base * c < Base * Base
    <3>1. PICK y \in Nat : y = Base * c
      BY <1>3, <1>10, ProductIsNat
    <3>. QED
      BY <1>7, <1>8, <1>10, <3>1
  <2>. QED
    BY <1>3, <1>10, <2>1, FactorIsLess
<1>12. v \in NativeDigit /\ c \in NativeDigit
  BY <1>3, <1>10, <1>11
<1>13. PutAt(r, s, size, cap, k, v, c)
  BY <1>12, PutFacts
<1>14. PICK P \in Nat, Q \in Nat : P = PowerOf(Base, k) /\ Q = PowerOf(Base, k + 1) /\ Q = Base * P
  <2>1. k + 1 \in Nat
    OBVIOUS
  <2>. QED
    BY <2>1, BasePowers
<1>15. PICK t \in Nat : t = Total(r.digits)
  BY RowFacts
<1>16. ASSUME ~ s.raised
       PROVE  Total(s.digits) + s.carry * PowerOf(Base, k + 1)
                     = Total(r.digits) + (r.carry + d * e) * PowerOf(Base, k)
  <2>1. Total(s.digits) = t + (v - already) * P
    BY <1>1, <1>13, <1>14, <1>15, <1>16 DEF PutAt
  <2>2. (v - already) * P = v * P - already * P /\ v * P \in Int /\ already * P \in Int
    BY <1>5, <1>10, Distributes
  <2>3. c * Q = (Base * c) * P
    BY <1>3, <1>10, <1>14, ProductsAssociate
  <2>4. PICK y \in Nat : y = Base * c
    BY <1>3, <1>10, ProductIsNat
  <2>5. PICK u \in Nat : u = carry + x
    BY <1>5
  <2>6. u + already = y + v
    BY <1>5, <1>6, <1>10, <2>4, <2>5
  <2>7. (u + already) * P = u * P + already * P /\ u * P \in Int
    BY <1>5, Distributes
  <2>8. (y + v) * P = y * P + v * P /\ y * P \in Int
    BY <1>10, Distributes
  <2>9. t + (v * P - already * P) + y * P = t + u * P
    <3>1. u * P + already * P = y * P + v * P
      BY <2>6, <2>7, <2>8
    <3>. QED
      BY <1>15, <2>2, <2>7, <2>8, <3>1
  <2>10. s.carry = c
    BY <1>13 DEF PutAt
  <2>11. s.carry * PowerOf(Base, k + 1) = y * P
    BY <1>14, <2>3, <2>4, <2>10
  <2>12. (r.carry + d * e) * PowerOf(Base, k) = u * P
    BY <1>2, <1>4, <1>14, <2>5
  <2>. HIDE DEF s
  <2>. QED
    BY <1>15, <2>1, <2>2, <2>9, <2>11, <2>12
<1>17. ASSUME s.raised, ~ r.raised
       PROVE  Total(r.digits) + (r.carry + d * e) * PowerOf(Base, k) >= PowerOf(Base, cap)
  <2>1. k >= cap /\ v # 0
    BY <1>13, <1>17 DEF PutAt
  <2>2. already = 0
    <3>1. k >= size
      BY <2>1
    <3>. QED
      BY <1>1, <3>1, RowFacts, ZenonT(60)
  <2>3. PICK u \in Nat : u = carry + x
    BY <1>5
  <2>4. PICK y \in Nat : y = Base * c
    BY <1>3, <1>10, ProductIsNat
  <2>5. u = y + v
    BY <1>4, <1>5, <1>6, <1>10, <2>2, <2>3, <2>4
  <2>6. u >= 1
    BY <1>10, <2>1, <2>5
  <2>7. t + u * PowerOf(Base, k) >= PowerOf(Base, cap)
    BY <2>1, <2>6, AtLeastThePower
  <2>8. r.carry + d * e = u
    BY <1>2, <1>4, <2>3
  <2>. QED
    BY <1>15, <2>7, <2>8
<1>18. /\ s \in Rows(size) /\ (r.raised => s.raised)
       /\ \A i \in Nat : i # k => Of(s.digits)[i] = Of(r.digits)[i]
  BY <1>13 DEF PutAt
<1>19. ColumnAdded(r, s, size, cap, k, d * e)
  BY <1>16, <1>17, <1>18 DEF ColumnAdded
<1>. QED
  BY <1>19 DEF s, v, c

\* The states of a row of a product: its columns are a function of their own.
TurnsOf(t, r, size, cap, d, b, i) ==
  /\ t \in [Nat -> Rows(size)] /\ t[0] = r
  /\ \A j \in 0 .. Len(b.digits) - 1 :
       ColumnAdded(t[j], t[j + 1], size, cap, i + j, d * Of(b.digits)[j])
  /\ LET last == t[Len(b.digits)]
         k == i + Len(b.digits)
     IN  AddRow(r, cap, d, b, i) = Put(last, cap, k, (ColumnAt(last, cap, k) + last.carry) % Base, 0)

\* The inner loop as a sequence of turns, and the last carry after it
LEMMA RowTurns ==
  ASSUME NEW size \in Nat, NEW cap \in Nat, size <= cap, NEW r \in Rows(size), NEW d \in NativeDigit,
         NEW b \in Number, NEW i \in Nat,
         \A j \in Nat : j < Len(b.digits) /\ i + j < cap => i + j < size
  PROVE  \E t : TurnsOf(t, r, size, cap, d, b, i)
<1>. DEFINE nb == Len(b.digits)
            P(j, s) == Product(d, Digit(b, j), s.carry, ColumnAt(s, cap, i + j)) % (Base * Base)
            G(j, s) == Put(s, cap, i + j, P(j, s) % Base, P(j, s) \div Base)
            g == [j \in Nat |-> [s \in Rows(size) |-> IF j < nb THEN G(j, s) ELSE s]]
<1>1. nb \in Nat /\ b.digits \in Seq(NativeDigit)
  BY NumberFacts
<1>2. \A j \in Nat : Digit(b, j) = Of(b.digits)[j] /\ Of(b.digits)[j] \in NativeDigit
  BY <1>1, DigitsAreNative DEF Digit, Of
<1>. HIDE DEF nb
<1>3. ASSUME NEW j \in Nat, NEW s \in Rows(size), j < nb
      PROVE  ColumnAdded(s, G(j, s), size, cap, i + j, d * Of(b.digits)[j])
  <2>1. PICK k \in Nat, e \in NativeDigit : k = i + j /\ e = Of(b.digits)[j] /\ e = Digit(b, j)
    BY <1>2
  <2>2. k < cap => k < size
    BY <1>3, <2>1 DEF nb
  <2>3. PICK p : p = P(j, s)
    OBVIOUS
  <2>4. p = Product(d, e, s.carry, ColumnAt(s, cap, k)) % (Base * Base)
    BY <2>1, <2>3
  <2>5. ColumnAdded(s, Put(s, cap, k, p % Base, p \div Base), size, cap, k, d * e)
    BY <2>2, <2>4, AddColumn
  <2>6. G(j, s) = Put(s, cap, k, p % Base, p \div Base)
    BY <2>1, <2>3
  <2>. QED
    BY <2>1, <2>5, <2>6
<1>. HIDE DEF G
<1>4. g \in [Nat -> [Rows(size) -> Rows(size)]]
  <2>1. ASSUME NEW j \in Nat, NEW s \in Rows(size) PROVE (IF j < nb THEN G(j, s) ELSE s) \in Rows(size)
    <3>1. CASE j < nb
      <4>1. G(j, s) \in Rows(size)
        BY <1>3, <3>1 DEF ColumnAdded
      <4>. QED
        BY <3>1, <4>1
    <3>2. CASE ~ (j < nb)
      BY <3>2
    <3>. QED
      BY <3>1, <3>2
  <2>. QED
    BY <2>1
<1>5. \E t : ComputesAll(t, Rows(size), r, g)
  <2>. HIDE DEF g
  <2>. QED
    BY <1>4, NatRecursion
<1>6. PICK t : t \in [Nat -> Rows(size)] /\ t[0] = r /\ \A j \in Nat : t[j + 1] = g[j][t[j]]
  BY <1>5 DEF ComputesAll
<1>7. ASSUME NEW j \in Nat, j < nb PROVE t[j + 1] = G(j, t[j])
  <2>1. t[j] \in Rows(size)
    BY <1>6
  <2>2. t[j + 1] = g[j][t[j]]
    BY <1>6
  <2>. QED
    BY <1>7, <2>1, <2>2
<1>. HIDE DEF g
<1>. DEFINE turn == CHOOSE f : f = [j \in 0 .. nb |->
              IF j = 0 THEN r
              ELSE LET p == Product(d, Digit(b, j - 1), f[j - 1].carry,
                                    ColumnAt(f[j - 1], cap, i + j - 1)) % (Base * Base)
                   IN  Put(f[j - 1], cap, i + j - 1, p % Base, p \div Base)]
<1>8. ASSUME NEW j \in 0 .. nb, j # 0, NEW s
      PROVE  LET p == Product(d, Digit(b, j - 1), s.carry,
                                    ColumnAt(s, cap, i + j - 1)) % (Base * Base)
             IN  Put(s, cap, i + j - 1, p % Base, p \div Base) = G(j - 1, s)
  <2>1. PICK k \in Nat : k = j - 1 /\ i + j - 1 = i + k
    <3>1. j - 1 \in Nat /\ i + j - 1 = i + (j - 1)
      BY <1>1, <1>8
    <3>. QED
      BY <3>1
  <2>. QED
    BY <2>1 DEF G
<1>9. \E f : f = [j \in 0 .. nb |->
              IF j = 0 THEN r
              ELSE LET p == Product(d, Digit(b, j - 1), f[j - 1].carry,
                                    ColumnAt(f[j - 1], cap, i + j - 1)) % (Base * Base)
                   IN  Put(f[j - 1], cap, i + j - 1, p % Base, p \div Base)]
  <2>. DEFINE f == [j \in 0 .. nb |-> t[j]]
  <2>1. ASSUME NEW j \in 0 .. nb, j # 0
        PROVE  f[j] = LET p == Product(d, Digit(b, j - 1), f[j - 1].carry,
                                    ColumnAt(f[j - 1], cap, i + j - 1)) % (Base * Base)
                      IN  Put(f[j - 1], cap, i + j - 1, p % Base, p \div Base)
    <3>1. j - 1 \in Nat /\ j - 1 \in 0 .. nb /\ (j - 1) + 1 = j /\ j - 1 < nb
      BY <1>1, <2>1
    <3>2. t[j] = G(j - 1, t[j - 1])
      BY <1>7, <3>1
    <3>3. f[j] = t[j] /\ f[j - 1] = t[j - 1]
      BY <3>1
    <3>4. f[j] = G(j - 1, f[j - 1])
      BY <3>2, <3>3
    <3>. HIDE DEF f
    <3>. QED
      BY <1>8, <2>1, <3>4
  <2>2. f[0] = r /\ f = [j \in 0 .. nb |-> f[j]]
    BY <1>1, <1>6
  <2>. HIDE DEF f
  <2>. QED
    BY <2>1, <2>2
<1>10. turn = [j \in 0 .. nb |->
              IF j = 0 THEN r
              ELSE LET p == Product(d, Digit(b, j - 1), turn[j - 1].carry,
                                    ColumnAt(turn[j - 1], cap, i + j - 1)) % (Base * Base)
                   IN  Put(turn[j - 1], cap, i + j - 1, p % Base, p \div Base)]
  BY <1>9
<1>11. AddRow(r, cap, d, b, i) =
         Put(turn[nb], cap, i + nb, (ColumnAt(turn[nb], cap, i + nb) + turn[nb].carry) % Base, 0)
  BY DEF AddRow, nb
<1>. HIDE DEF turn
<1>12. ASSUME NEW j \in Nat, j <= nb PROVE turn[j] = t[j]
  <2>. DEFINE T == {n \in Nat : n <= nb => turn[n] = t[n]}
  <2>1. 0 \in T
    BY <1>1, <1>6, <1>10
  <2>2. ASSUME NEW n \in Nat, n \in T PROVE n + 1 \in T
    <3>. SUFFICES ASSUME n + 1 <= nb PROVE turn[n + 1] = t[n + 1]
      OBVIOUS
    <3>1. n + 1 \in 0 .. nb /\ n + 1 # 0 /\ (n + 1) - 1 = n /\ turn[n] = t[n] /\ n < nb
      BY <1>1, <2>2
    <3>2. turn[n + 1] = LET p == Product(d, Digit(b, (n + 1) - 1), turn[(n + 1) - 1].carry,
                                    ColumnAt(turn[(n + 1) - 1], cap, i + (n + 1) - 1)) % (Base * Base)
                        IN  Put(turn[(n + 1) - 1], cap, i + (n + 1) - 1, p % Base, p \div Base)
      BY <1>10, <3>1
    <3>3. turn[n + 1] = G((n + 1) - 1, turn[(n + 1) - 1])
      BY <1>8, <3>1, <3>2
    <3>4. t[n + 1] = G(n, t[n])
      BY <1>7, <3>1
    <3>. QED
      BY <3>1, <3>3, <3>4
  <2>. HIDE DEF T
  <2>3. j \in T
    BY <2>1, <2>2, SetInduction
  <2>. QED
    BY <1>12, <2>3 DEF T
<1>13. turn[nb] = t[nb]
  BY <1>1, <1>12
<1>14. ASSUME NEW j \in 0 .. nb - 1
       PROVE  ColumnAdded(t[j], t[j + 1], size, cap, i + j, d * Of(b.digits)[j])
  <2>1. j \in Nat /\ j < nb /\ t[j] \in Rows(size)
    BY <1>1, <1>6
  <2>. QED
    BY <1>3, <1>7, <2>1
<1>15. TurnsOf(t, r, size, cap, d, b, i)
  BY <1>6, <1>11, <1>13, <1>14 DEF TurnsOf, nb
<1>. QED
  BY <1>15

\* The arithmetic of one turn
LEMMA PartGrows ==
  ASSUME NEW d \in Int, NEW u \in Int, NEW e \in Int, NEW p \in Int, NEW q \in Int
  PROVE  (d * (u + e * q)) * p = (d * u) * p + (d * e) * (p * q)
<1>1. PICK eq \in Int : eq = e * q
  BY Distributes
<1>2. PICK du \in Int, de \in Int, pq \in Int : du = d * u /\ de = d * e /\ pq = p * q
  BY Distributes
<1>3. d * (u + eq) = du + d * eq /\ d * eq \in Int
  BY <1>1, <1>2, Distributes
<1>4. d * eq = de * q
  BY <1>1, <1>2, ProductsAssociate
<1>5. PICK deq \in Int : deq = de * q
  BY Distributes
<1>6. (du + deq) * p = du * p + deq * p
  BY <1>2, <1>5, Distributes
<1>7. deq * p = de * pq
  <2>1. de * (q * p) = (de * q) * p
    BY <1>2, ProductsAssociate
  <2>2. q * p = p * q
    BY Distributes
  <2>. QED
    BY <1>2, <1>5, <2>1, <2>2
<1>. QED
  BY <1>1, <1>2, <1>3, <1>4, <1>5, <1>6, <1>7

\* The product of a digit and of a number, at the place of that digit
Part(d, b, i, j) == (d * Upto(Of(b.digits), Base, j)) * PowerOf(Base, i)

\* The part of a row that j turns add never exceeds the whole row
LEMMA PartFacts ==
  ASSUME NEW d \in NativeDigit, NEW b \in Number, NEW i \in Nat, NEW j \in Nat
  PROVE  /\ Part(d, b, i, j) \in Nat /\ Part(d, b, i, 0) = 0
         /\ d * Of(b.digits)[j] \in Nat
         /\ Part(d, b, i, j + 1) = Part(d, b, i, j) + (d * Of(b.digits)[j]) * PowerOf(Base, i + j)
         /\ j <= Len(b.digits) => Part(d, b, i, j) <= (d * Magnitude(b)) * PowerOf(Base, i)
         /\ Part(d, b, i, Len(b.digits)) = (d * Magnitude(b)) * PowerOf(Base, i)
         /\ (d * Magnitude(b)) * PowerOf(Base, i) \in Nat
<1>. DEFINE e == Of(b.digits)
            nb == Len(b.digits)
<1>1. Base \in Nat /\ Base >= 1 /\ Base \in Int /\ NativeDigit \subseteq Nat
  BY BaseIsPositive DEF NativeDigit
<1>2. nb \in Nat /\ b.digits \in Seq(NativeDigit) /\ Magnitude(b) = Upto(e, Base, nb)
  BY NumberFacts DEF Magnitude, Total
<1>3. e \in [Nat -> 0 .. Base - 1] /\ e \in [Nat -> Nat] /\ e \in [Nat -> Int]
  BY <1>2, DigitsAreNative
<1>. HIDE DEF e, nb
<1>4. PICK p \in Nat, q \in Nat : p = PowerOf(Base, i) /\ q = PowerOf(Base, j)
  BY BasePowers
<1>5. PowerOf(Base, i + j) = p * q
  BY <1>1, <1>4, PowersMultiply
<1>6. PICK u \in Nat, w \in Nat, x \in Nat :
        u = Upto(e, Base, j) /\ w = Upto(e, Base, nb) /\ x = e[j] /\ Upto(e, Base, j + 1) = u + x * q
  <2>1. Upto(e, Base, j) \in Nat /\ Upto(e, Base, nb) \in Nat
    BY <1>1, <1>2, <1>3, UptoBounded
  <2>2. Upto(e, Base, j + 1) = Upto(e, Base, j) + e[j] * q
    BY <1>1, <1>3, <1>4, UptoNext
  <2>3. e[j] \in Nat
    BY <1>3
  <2>. QED
    BY <2>1, <2>2, <2>3
<1>7. d \in Nat
  BY <1>1
<1>8. PICK du \in Nat, dw \in Nat, dx \in Nat : du = d * u /\ dw = d * w /\ dx = d * x
  BY <1>7, ProductIsNat
<1>9. du * p \in Nat /\ dw * p \in Nat
  BY ProductIsNat
<1>10. Part(d, b, i, j) = du * p /\ Part(d, b, i, nb) = dw * p /\ (d * Magnitude(b)) * PowerOf(Base, i) = dw * p
  BY <1>2, <1>4, <1>6, <1>8 DEF Part, e
<1>11. Part(d, b, i, j + 1) = du * p + dx * (p * q)
  <2>1. Part(d, b, i, j + 1) = (d * (u + x * q)) * p
    BY <1>4, <1>6 DEF Part, e
  <2>2. (d * (u + x * q)) * p = (d * u) * p + (d * x) * (p * q)
    BY <1>7, PartGrows
  <2>. QED
    BY <1>8, <2>1, <2>2
<1>12. ASSUME j <= nb PROVE du * p <= dw * p
  <2>1. u <= w
    BY <1>1, <1>2, <1>3, <1>6, <1>12, UptoMonotone
  <2>2. du <= dw
    <3>1. u \in Int /\ w \in Int
      OBVIOUS
    <3>2. d * u <= d * w
      BY <1>7, <2>1, <3>1, ProductGrows
    <3>. QED
      BY <1>8, <3>2
  <2>. QED
    BY <2>2, ProductGrows
<1>13. Part(d, b, i, 0) = 0
  <2>1. Upto(e, Base, 0) = 0
    BY <1>1, <1>3, UptoFacts
  <2>2. d * 0 = 0 /\ 0 * p = 0
    BY <1>7
  <2>. QED
    BY <1>4, <2>1, <2>2 DEF Part, e
<1>. QED
  BY <1>5, <1>6, <1>8, <1>9, <1>10, <1>11, <1>12, <1>13 DEF e, nb

\* What is known of the columns once the row i is added.
Standing(r, v, whole, cap) ==
  /\ r.raised => whole >= PowerOf(Base, cap)
  /\ ~ r.raised => Total(r.digits) = v
RowAdded(s, size, cap, part, whole, d, b, i) ==
  /\ s \in Rows(size) /\ s.carry = 0
  /\ \A k \in Nat : k >= i + 1 + Len(b.digits) => Of(s.digits)[k] = 0
  /\ Standing(s, part + (d * Magnitude(b)) * PowerOf(Base, i), whole, cap)

\* A row adds the digit d times b, from column i on, or the product is too large
LEMMA RowIsAdded ==
  ASSUME NEW size \in Nat, NEW cap \in Nat, size <= cap, NEW r \in Rows(size), NEW d \in NativeDigit,
         NEW b \in Number, NEW i \in Nat,
         \A j \in Nat : j <= Len(b.digits) /\ i + j < cap => i + j < size,
         \A k \in Nat : k >= i + Len(b.digits) => Of(r.digits)[k] = 0,
         NEW part \in Nat, NEW whole \in Nat, r.carry = 0, Standing(r, part, whole, cap),
         part + (d * Magnitude(b)) * PowerOf(Base, i) <= whole
  PROVE  RowAdded(AddRow(r, cap, d, b, i), size, cap, part, whole, d, b, i)
<1>. DEFINE nb == Len(b.digits)
            s == AddRow(r, cap, d, b, i)
<1>1. nb \in Nat
  BY NumberFacts
<1>2. PICK t : TurnsOf(t, r, size, cap, d, b, i)
  <2>1. \A j \in Nat : j < Len(b.digits) /\ i + j < cap => i + j < size
    <3>. SUFFICES ASSUME NEW j \in Nat, j < nb, i + j < cap PROVE i + j < size
      OBVIOUS
    <3>1. j <= nb
      BY <1>1
    <3>. QED
      BY <3>1
  <2>. QED
    BY <2>1, RowTurns
<1>3. /\ t \in [Nat -> Rows(size)] /\ t[0] = r
      /\ \A j \in 0 .. nb - 1 :
           ColumnAdded(t[j], t[j + 1], size, cap, i + j, d * Of(b.digits)[j])
      /\ s = Put(t[nb], cap, i + nb, (ColumnAt(t[nb], cap, i + nb) + t[nb].carry) % Base, 0)
  BY <1>2 DEF TurnsOf
<1>4. ASSUME NEW j \in Nat
      PROVE  /\ Part(d, b, i, j) \in Nat /\ Part(d, b, i, 0) = 0
             /\ d * Of(b.digits)[j] \in Nat
             /\ Part(d, b, i, j + 1) = Part(d, b, i, j) + (d * Of(b.digits)[j]) * PowerOf(Base, i + j)
             /\ j <= nb => part + Part(d, b, i, j) <= whole
             /\ Part(d, b, i, nb) = (d * Magnitude(b)) * PowerOf(Base, i)
  <2>1. /\ Part(d, b, i, j) \in Nat /\ Part(d, b, i, 0) = 0
             /\ d * Of(b.digits)[j] \in Nat
             /\ Part(d, b, i, j + 1) = Part(d, b, i, j) + (d * Of(b.digits)[j]) * PowerOf(Base, i + j)
             /\ Part(d, b, i, nb) = (d * Magnitude(b)) * PowerOf(Base, i)
    BY PartFacts, ZenonT(60)
  <2>2. (d * Magnitude(b)) * PowerOf(Base, i) \in Nat
    BY PartFacts
  <2>3. j <= nb => Part(d, b, i, j) <= (d * Magnitude(b)) * PowerOf(Base, i)
    BY PartFacts
  <2>. QED
    BY <2>1, <2>2, <2>3
<1>. HIDE DEF nb, s
<1>. DEFINE Inv(j) == /\ \A k \in Nat : k >= i + nb => Of(t[j].digits)[k] = 0
                      /\ t[j].raised => whole >= PowerOf(Base, cap)
                      /\ ~ t[j].raised => Total(t[j].digits) + t[j].carry * PowerOf(Base, i + j)
                                            = part + Part(d, b, i, j)
            T == {j \in Nat : j <= nb => Inv(j)}
<1>5. 0 \in T
  <2>1. \A k \in Nat : k >= i + nb => Of(t[0].digits)[k] = 0
    BY <1>3 DEF nb
  <2>2. t[0].raised => whole >= PowerOf(Base, cap)
    BY <1>3 DEF Standing
  <2>3. ASSUME ~ t[0].raised
        PROVE  Total(t[0].digits) + t[0].carry * PowerOf(Base, i + 0) = part + Part(d, b, i, 0)
    <3>1. Total(r.digits) = part /\ t[0] = r
      BY <1>3, <2>3 DEF Standing
    <3>2. PICK p \in Nat : p = PowerOf(Base, i + 0)
      BY BasePowers
    <3>3. t[0].carry * PowerOf(Base, i + 0) = 0
      BY <3>1, <3>2
    <3>. QED
      BY <1>4, <3>1, <3>3
  <2>. QED
    BY <2>1, <2>2, <2>3
<1>6. ASSUME NEW j \in Nat, j \in T PROVE j + 1 \in T
  <2>. SUFFICES ASSUME j + 1 <= nb PROVE Inv(j + 1)
    OBVIOUS
  <2>1. j \in 0 .. nb - 1 /\ j + 1 \in Nat /\ j <= nb /\ i + j \in Nat
    BY <1>1
  <2>2. Inv(j)
    BY <1>6, <2>1
  <2>3. PICK k \in Nat, x \in Nat : k = i + j /\ x = d * Of(b.digits)[j]
    BY <1>4, <2>1
  <2>4. ColumnAdded(t[j], t[j + 1], size, cap, k, x)
    BY <1>3, <2>1, <2>3
  <2>5. \A m \in Nat : m >= i + nb => Of(t[j + 1].digits)[m] = 0
    <3>. SUFFICES ASSUME NEW m \in Nat, m >= i + nb PROVE Of(t[j + 1].digits)[m] = 0
      OBVIOUS
    <3>1. m # k
      BY <1>1, <2>1, <2>3
    <3>2. Of(t[j + 1].digits)[m] = Of(t[j].digits)[m]
      BY <2>4, <3>1 DEF ColumnAdded
    <3>. QED
      BY <2>2, <3>2
  <2>6. /\ t[j] \in Rows(size) /\ t[j + 1] \in Rows(size)
        /\ t[j].raised \in BOOLEAN /\ t[j + 1].raised \in BOOLEAN
        /\ t[j].carry \in Nat /\ Total(t[j].digits) \in Nat
    <3>1. t[j] \in Rows(size) /\ t[j + 1] \in Rows(size)
      BY <1>3, <2>1
    <3>. QED
      BY <3>1, RowFacts
  <2>7. PICK p \in Nat : p = PowerOf(Base, k)
    BY BasePowers
  <2>8. ASSUME ~ t[j].raised
        PROVE  Total(t[j].digits) + (t[j].carry + x) * p = part + Part(d, b, i, j + 1)
    <3>1. Total(t[j].digits) + t[j].carry * p = part + Part(d, b, i, j)
      BY <2>2, <2>3, <2>7, <2>8
    <3>2. Part(d, b, i, j + 1) = Part(d, b, i, j) + x * p /\ Part(d, b, i, j) \in Nat
      BY <1>4, <2>3, <2>7
    <3>3. PICK c \in Nat, u \in Nat : c = t[j].carry /\ u = Total(t[j].digits)
      BY <2>6
    <3>4. (c + x) * p = c * p + x * p /\ c * p \in Int /\ x * p \in Int
      BY Distributes
    <3>5. PICK y \in Nat, z \in Nat : y = Part(d, b, i, j) /\ z = Part(d, b, i, j + 1)
      BY <1>4, <2>1
    <3>6. u + (c + x) * p = part + z
      <4>1. u + c * p = part + y
        BY <3>1, <3>3, <3>5
      <4>2. z = y + x * p
        BY <3>2, <3>5
      <4>3. PICK cp \in Int, xp \in Int : cp = c * p /\ xp = x * p /\ (c + x) * p = cp + xp
        BY <3>4
      <4>4. u + cp = part + y /\ z = y + xp
        BY <4>1, <4>2, <4>3
      <4>5. u + (cp + xp) = part + z
        BY <4>4
      <4>. QED
        BY <4>3, <4>5
    <3>. QED
      BY <3>3, <3>5, <3>6
  <2>9. ASSUME t[j + 1].raised PROVE whole >= PowerOf(Base, cap)
    <3>1. CASE t[j].raised
      BY <2>2, <3>1
    <3>2. CASE ~ t[j].raised
      <4>1. Total(t[j].digits) + (t[j].carry + x) * p >= PowerOf(Base, cap)
        BY <2>4, <2>7, <2>9, <3>2 DEF ColumnAdded
      <4>2. part + Part(d, b, i, j + 1) >= PowerOf(Base, cap)
        BY <2>8, <3>2, <4>1
      <4>3. part + Part(d, b, i, j + 1) <= whole /\ Part(d, b, i, j + 1) \in Nat
        BY <1>4, <2>1
      <4>4. PowerOf(Base, cap) \in Nat
        BY BasePowers
      <4>. QED
        BY <4>2, <4>3, <4>4
    <3>. QED
      BY <3>1, <3>2
  <2>10. ASSUME ~ t[j + 1].raised
         PROVE  Total(t[j + 1].digits) + t[j + 1].carry * PowerOf(Base, i + (j + 1))
                  = part + Part(d, b, i, j + 1)
    <3>1. ~ t[j].raised
      BY <2>4, <2>10 DEF ColumnAdded
    <3>2. Total(t[j + 1].digits) + t[j + 1].carry * PowerOf(Base, k + 1)
            = Total(t[j].digits) + (t[j].carry + x) * p
      BY <2>4, <2>7, <2>10 DEF ColumnAdded
    <3>3. k + 1 = i + (j + 1)
      BY <2>3
    <3>. QED
      BY <2>8, <3>1, <3>2, <3>3
  <2>. QED
    BY <2>5, <2>9, <2>10
<1>7. Inv(nb)
  <2>. HIDE DEF T
  <2>1. nb \in T
    BY <1>1, <1>5, <1>6, SetInduction
  <2>. QED
    BY <1>1, <2>1 DEF T
<1>8. PICK k \in Nat, last \in Rows(size), c \in NativeDigit :
        k = i + nb /\ last = t[nb] /\ c = last.carry
  <2>1. t[nb] \in Rows(size) /\ i + nb \in Nat
    BY <1>1, <1>3
  <2>. QED
    BY <2>1, RowFacts
<1>9. (ColumnAt(t[nb], cap, i + nb) + t[nb].carry) % Base = c
  <2>1. k < cap => k < size
    BY <1>1, <1>8 DEF nb
  <2>2. ColumnAt(last, cap, k) = Of(last.digits)[k]
    BY <2>1, ColumnAtIs
  <2>3. Of(last.digits)[k] = 0
    BY <1>7, <1>8
  <2>4. c \in Nat /\ c < Base /\ Base \in Nat
    BY BaseIsPositive DEF NativeDigit
  <2>5. 0 + c = c /\ c = Base * 0 + c
    BY <2>4
  <2>6. c % Base = c
    BY <2>4, <2>5, DivisionIsUnique
  <2>. QED
    BY <1>8, <2>2, <2>3, <2>5, <2>6
<1>10. PutAt(last, s, size, cap, k, c, 0)
  <2>1. s = Put(last, cap, k, c, 0)
    BY <1>3, <1>8, <1>9
  <2>2. k < cap => k < size
    BY <1>1, <1>8 DEF nb
  <2>3. 0 \in NativeDigit
    BY BaseIsPositive DEF NativeDigit
  <2>. QED
    BY <2>1, <2>2, <2>3, PutFacts
<1>11. \A m \in Nat : m >= i + 1 + nb => Of(s.digits)[m] = 0
  <2>. SUFFICES ASSUME NEW m \in Nat, m >= i + 1 + nb PROVE Of(s.digits)[m] = 0
    OBVIOUS
  <2>1. m # k /\ m >= i + nb
    BY <1>1, <1>8
  <2>2. Of(s.digits)[m] = Of(last.digits)[m]
    BY <1>10, <2>1 DEF PutAt
  <2>3. Of(last.digits)[m] = 0
    BY <1>7, <1>8, <2>1
  <2>. QED
    BY <2>2, <2>3
<1>12. PICK v \in Nat : v = part + Part(d, b, i, nb) /\ v <= whole
       /\ v = part + (d * Magnitude(b)) * PowerOf(Base, i)
  <2>1. nb <= nb
    BY <1>1
  <2>. QED
    BY <1>1, <1>4, <2>1
<1>13. PICK u \in Nat, p \in Nat : u = Total(last.digits) /\ p = PowerOf(Base, k)
  BY RowFacts, BasePowers
<1>14. ~ last.raised => u + c * p = v
  BY <1>7, <1>8, <1>12, <1>13
<1>15. c \in Nat /\ Of(last.digits)[k] = 0
  <2>1. k >= i + nb
    BY <1>1, <1>8
  <2>. QED
    BY <1>7, <1>8, <2>1, BaseIsPositive DEF NativeDigit
<1>16. ASSUME ~ s.raised PROVE Total(s.digits) = v
  <2>1. ~ last.raised
    BY <1>10, <1>16 DEF PutAt
  <2>2. Total(s.digits) = u + (c - 0) * p
    BY <1>10, <1>13, <1>15, <1>16 DEF PutAt
  <2>3. c - 0 = c
    BY <1>15
  <2>. QED
    BY <1>14, <2>1, <2>2, <2>3
<1>17. ASSUME s.raised PROVE whole >= PowerOf(Base, cap)
  <2>1. CASE last.raised
    BY <1>7, <1>8, <2>1
  <2>2. CASE ~ last.raised
    <3>1. k >= cap /\ c # 0
      BY <1>10, <1>17, <2>2 DEF PutAt
    <3>2. u + c * PowerOf(Base, k) >= PowerOf(Base, cap)
      BY <1>15, <3>1, AtLeastThePower
    <3>3. v >= PowerOf(Base, cap)
      BY <1>13, <1>14, <2>2, <3>2
    <3>4. PowerOf(Base, cap) \in Nat
      BY BasePowers
    <3>. QED
      BY <1>12, <3>3, <3>4
  <2>. QED
    BY <2>1, <2>2
<1>18. s \in Rows(size) /\ s.carry = 0
  BY <1>10 DEF PutAt
<1>19. Standing(s, part + (d * Magnitude(b)) * PowerOf(Base, i), whole, cap)
  BY <1>12, <1>16, <1>17 DEF Standing
<1>20. RowAdded(s, size, cap, part, whole, d, b, i)
  BY <1>11, <1>18, <1>19 DEF RowAdded, nb
<1>. QED
  BY <1>20 DEF s

\* The rows of a product.
RowsOf(f, a, b, size, cap) ==
  /\ f \in [Nat -> Rows(size)]
  /\ f[0] = [digits |-> [k \in 1 .. size |-> 0], raised |-> FALSE, carry |-> 0]
  /\ \A i \in 0 .. Len(a.digits) - 1 : f[i + 1] = AddRow(f[i], cap, Of(a.digits)[i], b, i)

\* The outer loop goes from rows to rows
LEMMA AddRowIsARow ==
  ASSUME NEW size \in Nat, NEW cap \in Nat, size <= cap, NEW r \in Rows(size), NEW d \in NativeDigit,
         NEW b \in Number, NEW i \in Nat,
         \A j \in Nat : j <= Len(b.digits) /\ i + j < cap => i + j < size
  PROVE  AddRow(r, cap, d, b, i) \in Rows(size)
<1>1. Len(b.digits) \in Nat
  BY NumberFacts
<1>2. PICK t : TurnsOf(t, r, size, cap, d, b, i)
  <2>1. \A j \in Nat : j < Len(b.digits) /\ i + j < cap => i + j < size
    <3>. SUFFICES ASSUME NEW j \in Nat, j < Len(b.digits), i + j < cap PROVE i + j < size
      OBVIOUS
    <3>1. j <= Len(b.digits)
      BY <1>1
    <3>. QED
      BY <3>1
  <2>. QED
    BY <2>1, RowTurns
<1>3. PICK k \in Nat, last \in Rows(size) : k = i + Len(b.digits) /\ last = t[Len(b.digits)]
  <2>1. t[Len(b.digits)] \in Rows(size) /\ i + Len(b.digits) \in Nat
    BY <1>1, <1>2 DEF TurnsOf
  <2>. QED
    BY <2>1
<1>4. PICK v : v = (ColumnAt(last, cap, k) + last.carry) % Base
  OBVIOUS
<1>5. k < cap => k < size
  BY <1>1, <1>3
<1>6. v \in NativeDigit /\ 0 \in NativeDigit
  <2>1. PICK x \in Nat : x = ColumnAt(last, cap, k) + last.carry
    <3>1. ColumnAt(last, cap, k) \in Nat /\ last.carry \in Nat
      BY <1>5, ColumnAtIs, RowFacts
    <3>. QED
      BY <3>1
  <2>2. Base \in Nat /\ Base >= 1
    BY BaseIsPositive
  <2>3. x % Base \in Int /\ 0 <= x % Base /\ x % Base < Base
    BY <2>2, Divides
  <2>. QED
    BY <1>4, <2>1, <2>2, <2>3 DEF NativeDigit
<1>7. PutAt(last, Put(last, cap, k, v, 0), size, cap, k, v, 0)
  BY <1>5, <1>6, PutFacts
<1>8. AddRow(r, cap, d, b, i) = Put(last, cap, k, v, 0)
  BY <1>2, <1>3, <1>4 DEF TurnsOf
<1>. QED
  BY <1>7, <1>8 DEF PutAt

\* The product with the rows it goes through
IsMult(f, a, b, extra, size, cap) ==
  /\ RowsOf(f, a, b, size, cap)
  /\ Mult(a, b, extra) =
       IF f[Len(a.digits)].raised THEN Raised
       ELSE Handler(IF a.sign = b.sign THEN 1 ELSE -1, Sanitize(f[Len(a.digits)].digits))

\* What Mult computes, with the rows as a function
LEMMA MultRows ==
  ASSUME NEW a \in Number, NEW b \in Number, NEW extra \in Nat, NEW size \in Nat, NEW cap \in Nat,
         cap = MaxDigits + extra, size = Min({Len(a.digits) + Len(b.digits), cap})
  PROVE  \E f : IsMult(f, a, b, extra, size, cap)
<1>. DEFINE na == Len(a.digits)
            nb == Len(b.digits)
            empty == [digits |-> [k \in 1 .. size |-> 0], raised |-> FALSE, carry |-> 0]
            G(i, s) == AddRow(s, cap, Digit(a, i), b, i)
            g == [i \in Nat |-> [s \in Rows(size) |-> IF i < na THEN G(i, s) ELSE s]]
<1>1. na \in Nat /\ nb \in Nat /\ a.digits \in Seq(NativeDigit) /\ a # Raised /\ b # Raised
  BY NumberFacts
<1>2. \A i \in Nat : Digit(a, i) = Of(a.digits)[i] /\ Of(a.digits)[i] \in NativeDigit
  BY <1>1, DigitsAreNative DEF Digit, Of
<1>2a. size = Min({na + nb, cap})
  OBVIOUS
<1>. HIDE DEF na, nb
<1>3. size = (IF na + nb <= cap THEN na + nb ELSE cap) /\ size <= cap
  <2>1. na + nb \in Nat
    BY <1>1
  <2>2. size = IF na + nb <= cap THEN na + nb ELSE cap
    BY <1>2a, <2>1, MinMaxOfTwo
  <2>. QED
    BY <2>1, <2>2
<1>4. empty \in Rows(size)
  BY BaseIsPositive DEF Rows, NativeDigit
<1>5. ASSUME NEW i \in Nat, NEW s \in Rows(size), i < na PROVE G(i, s) \in Rows(size)
  <2>1. \A j \in Nat : j <= nb /\ i + j < cap => i + j < size
    <3>. SUFFICES ASSUME NEW j \in Nat, j <= nb, i + j < cap PROVE i + j < size
      OBVIOUS
    <3>1. i + j < na + nb
      BY <1>1, <1>5
    <3>. QED
      BY <1>1, <1>3, <3>1
  <2>. QED
    BY <1>2, <1>3, <2>1, AddRowIsARow DEF nb
<1>. HIDE DEF G, empty
<1>6. g \in [Nat -> [Rows(size) -> Rows(size)]]
  BY <1>5
<1>7. \E f : ComputesAll(f, Rows(size), empty, g)
  <2>. HIDE DEF g
  <2>. QED
    BY <1>4, <1>6, NatRecursion
<1>8. PICK f : f \in [Nat -> Rows(size)] /\ f[0] = empty /\ \A i \in Nat : f[i + 1] = g[i][f[i]]
  BY <1>7 DEF ComputesAll
<1>9. ASSUME NEW i \in Nat, i < na PROVE f[i + 1] = G(i, f[i])
  <2>1. f[i] \in Rows(size)
    BY <1>8
  <2>2. f[i + 1] = g[i][f[i]]
    BY <1>8
  <2>. QED
    BY <1>9, <2>1, <2>2
<1>. HIDE DEF g
<1>. DEFINE row == CHOOSE h : h = [i \in 0 .. na |->
              IF i = 0 THEN empty
              ELSE AddRow(h[i - 1], cap, Digit(a, i - 1), b, i - 1)]
<1>10. \E h : h = [i \in 0 .. na |->
              IF i = 0 THEN empty
              ELSE AddRow(h[i - 1], cap, Digit(a, i - 1), b, i - 1)]
  <2>. DEFINE h == [i \in 0 .. na |-> f[i]]
  <2>1. ASSUME NEW i \in 0 .. na, i # 0
        PROVE  h[i] = AddRow(h[i - 1], cap, Digit(a, i - 1), b, i - 1)
    <3>1. i - 1 \in Nat /\ i - 1 \in 0 .. na /\ (i - 1) + 1 = i /\ i - 1 < na
      BY <1>1, <2>1
    <3>2. f[i] = G(i - 1, f[i - 1])
      BY <1>9, <3>1
    <3>3. h[i] = f[i] /\ h[i - 1] = f[i - 1]
      BY <3>1
    <3>. HIDE DEF h
    <3>. QED
      BY <3>2, <3>3 DEF G
  <2>2. h[0] = empty /\ h = [i \in 0 .. na |-> h[i]]
    BY <1>1, <1>8
  <2>. HIDE DEF h
  <2>. QED
    BY <2>1, <2>2
<1>11. row = [i \in 0 .. na |->
              IF i = 0 THEN empty
              ELSE AddRow(row[i - 1], cap, Digit(a, i - 1), b, i - 1)]
  BY <1>10
<1>12. Mult(a, b, extra) = IF row[na].raised THEN Raised
                     ELSE Handler(IF a.sign = b.sign THEN 1 ELSE -1, Sanitize(row[na].digits))
  <2>1. Raised \notin {a, b}
    BY <1>1
  <2>. QED
    BY <2>1 DEF Mult, empty, na
<1>. HIDE DEF row
<1>13. ASSUME NEW i \in Nat, i <= na PROVE row[i] = f[i]
  <2>. DEFINE T == {n \in Nat : n <= na => row[n] = f[n]}
  <2>1. 0 \in T
    BY <1>1, <1>8, <1>11
  <2>2. ASSUME NEW n \in Nat, n \in T PROVE n + 1 \in T
    <3>. SUFFICES ASSUME n + 1 <= na PROVE row[n + 1] = f[n + 1]
      OBVIOUS
    <3>1. n + 1 \in 0 .. na /\ n + 1 # 0 /\ (n + 1) - 1 = n /\ row[n] = f[n] /\ n < na
      BY <1>1, <2>2
    <3>2. row[n + 1] = AddRow(row[n], cap, Digit(a, n), b, n)
      BY <1>11, <3>1
    <3>3. f[n + 1] = G(n, f[n])
      BY <1>9, <3>1
    <3>. QED
      BY <3>1, <3>2, <3>3 DEF G
  <2>. HIDE DEF T
  <2>3. i \in T
    BY <2>1, <2>2, SetInduction
  <2>. QED
    BY <1>13, <2>3 DEF T
<1>14. row[na] = f[na]
  BY <1>1, <1>13
<1>15. ASSUME NEW i \in 0 .. na - 1 PROVE f[i + 1] = AddRow(f[i], cap, Of(a.digits)[i], b, i)
  <2>1. i \in Nat /\ i < na
    BY <1>1
  <2>. QED
    BY <1>2, <1>9, <2>1 DEF G
<1>16. RowsOf(f, a, b, size, cap)
  BY <1>8, <1>15 DEF RowsOf, na, empty
<1>. QED
  BY <1>12, <1>14, <1>16 DEF na, IsMult

\* A product is exact, or raises when the value has more digits than fit, and never
\* otherwise, though it is computed in the digits that fit (integer.cpp:521-577).
THEOREM MultIsExact ==
  ASSUME NEW a \in Number, NEW b \in Number, NEW extra \in Nat
  PROVE  Exactly(Mult(a, b, extra), ValueOf(a) * ValueOf(b), MaxDigits + extra)
<1>. DEFINE na == Len(a.digits)
            nb == Len(b.digits)
            A(i) == Upto(Of(a.digits), Base, i)
<1>1. /\ na \in Nat /\ nb \in Nat /\ a.digits \in Seq(NativeDigit)
      /\ a.sign \in {1, -1} /\ b.sign \in {1, -1}
  BY NumberFacts
<1>1a. Magnitude(a) = A(na)
  BY DEF Magnitude, Total
<1>2. PICK cap \in Nat : cap = MaxDigits + extra
  BY IntegerAssumption
<1>. HIDE DEF na, nb
<1>3. PICK size \in Nat : /\ size = Min({na + nb, cap})
                          /\ size = (IF na + nb <= cap THEN na + nb ELSE cap) /\ size <= cap
  <2>1. na + nb \in Nat
    BY <1>1
  <2>2. Min({na + nb, cap}) = IF na + nb <= cap THEN na + nb ELSE cap
    BY <2>1, MinMaxOfTwo
  <2>. QED
    BY <2>1, <2>2
<1>4. PICK f : /\ RowsOf(f, a, b, size, cap)
               /\ Mult(a, b, extra) =
                     IF f[na].raised THEN Raised
                     ELSE Handler(IF a.sign = b.sign THEN 1 ELSE -1, Sanitize(f[na].digits))
  <2>1. \E f : IsMult(f, a, b, extra, size, cap)
    BY <1>2, <1>3, MultRows DEF na, nb
  <2>. QED
    BY <2>1 DEF IsMult, na
<1>5. PICK mb \in Nat, whole \in Nat : mb = Magnitude(b) /\ whole = A(na) * mb
  <2>1. Magnitude(b) \in Nat /\ A(na) \in Nat
    BY <1>1a, NumberFacts
  <2>. QED
    BY <2>1, ProductIsNat
<1>6. Base \in Nat /\ Base >= 1 /\ Base \in Int
  BY BaseIsPositive
<1>7. Of(a.digits) \in [Nat -> NativeDigit] /\ Of(a.digits) \in [Nat -> Nat] /\ Of(a.digits) \in [Nat -> Int]
      /\ Of(a.digits) \in [Nat -> 0 .. Base - 1]
  BY <1>1, DigitsAreNative
<1>8. ASSUME NEW i \in Nat
      PROVE  /\ A(i) \in Nat /\ A(0) = 0 /\ A(i) * mb \in Nat
             /\ A(i + 1) * mb = A(i) * mb + (Of(a.digits)[i] * mb) * PowerOf(Base, i)
             /\ i <= na => A(i) * mb <= whole
  <2>. DEFINE d == Of(a.digits)
  <2>. HIDE DEF d
  <2>1. A(i) \in Nat /\ A(na) \in Nat
    BY <1>1, <1>6, <1>7, UptoBounded DEF d
  <2>2. A(0) = 0
    BY <1>6, <1>7, UptoFacts DEF d
  <2>3. PICK p \in Nat, x \in Nat : p = PowerOf(Base, i) /\ x = d[i]
    BY <1>7, BasePowers DEF d
  <2>4. A(i + 1) = A(i) + x * p
    BY <1>6, <1>7, <2>3, UptoNext DEF d
  <2>5. PICK u \in Nat, w \in Nat : u = A(i) /\ w = x * p
    BY <2>1, ProductIsNat
  <2>6. (u + w) * mb = u * mb + w * mb
    BY Distributes
  <2>7. w * mb = (x * mb) * p
    <3>1. mb * (x * p) = (x * mb) * p
      BY ProductsAssociate
    <3>2. w * mb = mb * w
      BY Distributes
    <3>. QED
      BY <2>5, <3>1, <3>2
  <2>8. A(i + 1) * mb = A(i) * mb + (x * mb) * p
    BY <2>4, <2>5, <2>6, <2>7
  <2>9. ASSUME i <= na PROVE A(i) * mb <= whole
    <3>1. A(i) <= A(na)
      BY <1>1, <1>6, <1>7, <2>9, UptoMonotone
    <3>. QED
      BY <1>5, <2>1, <3>1, ProductGrows
  <2>10. A(i) * mb \in Nat
    BY <2>1, ProductIsNat
  <2>. QED
    BY <2>1, <2>2, <2>3, <2>8, <2>9, <2>10 DEF d
<1>. HIDE DEF A
<1>. DEFINE Inv(i) == /\ f[i].carry = 0
                      /\ \A k \in Nat : k >= i + nb => Of(f[i].digits)[k] = 0
                      /\ Standing(f[i], A(i) * mb, whole, cap)
            T == {i \in Nat : i <= na => Inv(i)}
<1>9. 0 \in T
  <2>1. f[0] = [digits |-> [k \in 1 .. size |-> 0], raised |-> FALSE, carry |-> 0] /\ f[0] \in Rows(size)
    BY <1>4 DEF RowsOf
  <2>2. Len(f[0].digits) = size /\ f[0].digits \in Seq(NativeDigit)
    BY <2>1, RowFacts
  <2>3. \A k \in Nat : Of(f[0].digits)[k] = 0
    <3>. SUFFICES ASSUME NEW k \in Nat PROVE Of(f[0].digits)[k] = 0
      OBVIOUS
    <3>1. CASE k < size
      <4>1. k + 1 \in 1 .. size
        BY <3>1
      <4>2. f[0].digits[k + 1] = 0
        BY <2>1, <4>1
      <4>. QED
        BY <2>2, <3>1, <4>2 DEF Of
    <3>2. CASE ~ (k < size)
      BY <2>2, <3>2 DEF Of
    <3>. QED
      BY <3>1, <3>2
  <2>4. Total(f[0].digits) = 0
    <3>1. Of(f[0].digits) \in [Nat -> Int]
      BY <2>2, DigitsAreNative
    <3>2. \A i \in 0 .. size - 1 : Of(f[0].digits)[i] = 0
      BY <2>3
    <3>3. Upto(Of(f[0].digits), Base, size) = Upto(Of(f[0].digits), Base, 0)
      BY <1>6, <3>1, <3>2, UptoZeroes
    <3>. QED
      BY <1>6, <2>2, <3>1, <3>3, UptoFacts DEF Total
  <2>5. A(0) * mb = 0
    <3>1. A(0) = 0
      BY <1>8
    <3>. QED
      BY <3>1
  <2>6. f[0].raised = FALSE /\ f[0].carry = 0
    BY <2>1
  <2>. QED
    BY <2>3, <2>4, <2>5, <2>6 DEF Standing
<1>10. ASSUME NEW i \in Nat, i \in T PROVE i + 1 \in T
  <2>. SUFFICES ASSUME i + 1 <= na PROVE Inv(i + 1)
    OBVIOUS
  <2>1. i <= na /\ i \in 0 .. na - 1 /\ i + 1 \in Nat
    BY <1>1
  <2>2. Inv(i)
    BY <1>10, <2>1
  <2>3. PICK r \in Rows(size), d \in NativeDigit, part \in Nat :
          r = f[i] /\ d = Of(a.digits)[i] /\ part = A(i) * mb
    <3>1. f[i] \in Rows(size) /\ Of(a.digits)[i] \in NativeDigit /\ A(i) * mb \in Nat
      BY <1>4, <1>7, <1>8 DEF RowsOf
    <3>. QED
      BY <3>1
  <2>4. f[i + 1] = AddRow(r, cap, d, b, i)
    BY <1>4, <2>1, <2>3 DEF RowsOf, na
  <2>5. \A j \in Nat : j <= nb /\ i + j < cap => i + j < size
    <3>. SUFFICES ASSUME NEW j \in Nat, j <= nb, i + j < cap PROVE i + j < size
      OBVIOUS
    <3>1. i + j < na + nb
      BY <1>1
    <3>. QED
      BY <1>1, <1>3, <3>1
  <2>6. A(i + 1) * mb = part + (d * Magnitude(b)) * PowerOf(Base, i)
    BY <1>5, <1>8, <2>3
  <2>7. part + (d * Magnitude(b)) * PowerOf(Base, i) <= whole
    BY <1>8, <2>1, <2>6
  <2>8. RowAdded(f[i + 1], size, cap, part, whole, d, b, i)
    <3>1. r.carry = 0 /\ Standing(r, part, whole, cap)
      BY <2>2, <2>3
    <3>2. \A k \in Nat : k >= i + nb => Of(r.digits)[k] = 0
      BY <2>2, <2>3
    <3>3. RowAdded(AddRow(r, cap, d, b, i), size, cap, part, whole, d, b, i)
      BY <1>3, <2>5, <2>7, <3>1, <3>2, RowIsAdded DEF nb
    <3>. QED
      BY <2>4, <3>3
  <2>9. \A k \in Nat : k >= (i + 1) + nb => Of(f[i + 1].digits)[k] = 0
    BY <2>8 DEF RowAdded, nb
  <2>. QED
    BY <2>6, <2>8, <2>9 DEF RowAdded
<1>11. Inv(na)
  <2>. HIDE DEF T
  <2>1. na \in T
    BY <1>1, <1>9, <1>10, SetInduction
  <2>. QED
    BY <1>1, <2>1 DEF T
<1>12. PICK s \in Rows(size) : s = f[na]
  BY <1>1, <1>4 DEF RowsOf
<1>13. Standing(s, whole, whole, cap)
  BY <1>5, <1>11, <1>12
<1>14. PICK sign \in {1, -1} : sign = IF a.sign = b.sign THEN 1 ELSE -1
  OBVIOUS
<1>15. ValueOf(a) * ValueOf(b) = sign * whole /\ AbsOf(sign * whole) = whole
  <2>1. PICK ma \in Nat : ma = Magnitude(a) /\ whole = ma * mb
    BY <1>1a, <1>5, NumberFacts
  <2>2. ValueOf(a) = (IF a.sign = 1 THEN ma ELSE -ma) /\ ValueOf(b) = (IF b.sign = 1 THEN mb ELSE -mb)
    BY <1>5, <2>1, ValueFacts
  <2>3. (-ma) * mb = -(ma * mb) /\ ma * (-mb) = -(ma * mb) /\ (-ma) * (-mb) = ma * mb
    OBVIOUS
  <2>4. ValueOf(a) * ValueOf(b) = sign * whole
    <3>1. CASE a.sign = 1 /\ b.sign = 1
      BY <1>14, <2>1, <2>2, <3>1
    <3>2. CASE a.sign = 1 /\ b.sign = -1
      BY <1>14, <2>1, <2>2, <2>3, <3>2
    <3>3. CASE a.sign = -1 /\ b.sign = 1
      BY <1>14, <2>1, <2>2, <2>3, <3>3
    <3>4. CASE a.sign = -1 /\ b.sign = -1
      BY <1>14, <2>1, <2>2, <2>3, <3>4
    <3>. QED
      BY <1>1, <3>1, <3>2, <3>3, <3>4
  <2>. QED
    BY <2>4 DEF AbsOf
<1>16. PICK p \in Nat : p = PowerOf(Base, cap)
  BY BasePowers
<1>17. CASE s.raised
  <2>1. whole >= p
    BY <1>13, <1>16, <1>17 DEF Standing
  <2>2. Mult(a, b, extra) = Raised
    BY <1>4, <1>12, <1>17
  <2>. QED
    BY <1>2, <1>15, <1>16, <2>1, <2>2 DEF Exactly
<1>18. CASE ~ s.raised
  <2>1. Total(s.digits) = whole
    BY <1>13, <1>18 DEF Standing
  <2>2. s.digits \in Seq(NativeDigit) /\ Len(s.digits) = size
    BY RowFacts
  <2>3. whole < p
    <3>1. whole < PowerOf(Base, size)
      BY <2>1, <2>2, TotalFacts
    <3>2. PowerOf(Base, size) <= PowerOf(Base, cap) /\ PowerOf(Base, size) \in Nat
      BY <1>3, BasePowersGrow
    <3>. QED
      BY <1>16, <3>1, <3>2
  <2>4. PICK x : x = Handler(sign, Sanitize(s.digits)) /\ x = Mult(a, b, extra)
    BY <1>4, <1>12, <1>14, <1>18
  <2>5. x \in Number /\ Magnitude(x) = whole /\ x.sign = IF whole = 0 THEN 1 ELSE sign
    BY <2>1, <2>2, <2>4, HandlerFacts
  <2>6. ValueOf(x) = sign * whole
    <3>1. ValueOf(x) = IF x.sign = 1 THEN whole ELSE -whole
      BY <2>5, ValueFacts
    <3>. QED
      BY <2>5, <3>1
  <2>. QED
    BY <1>2, <1>15, <1>16, <2>3, <2>4, <2>5, <2>6 DEF Exactly
<1>. QED
  BY <1>17, <1>18

-----------------------------------------------------------------------------
(* Half digits *)

\* A half digit
HalfNative == 0 .. HalfBase - 1

\* The base of the half digits
LEMMA HalfBaseFacts ==
  /\ HalfBase \in Nat /\ HalfBase >= 2 /\ HalfBase \in Int /\ Base = HalfBase * HalfBase
  /\ HalfNative \subseteq Nat /\ HalfNative \subseteq Int
BY DigitsAssumption DEF Base, HalfNative

\* The powers of the half base
LEMMA HalfPowers ==
  ASSUME NEW n \in Nat
  PROVE  /\ PowerOf(HalfBase, n) \in Nat /\ PowerOf(HalfBase, n) >= 1
         /\ PowerOf(HalfBase, n + 1) = HalfBase * PowerOf(HalfBase, n)
         /\ PowerOf(HalfBase, 0) = 1
<1>1. HalfBase \in Nat /\ HalfBase >= 1 /\ HalfBase \in Int
  BY HalfBaseFacts
<1>. QED
  BY <1>1, Powers, PowersGrow

\* They never decrease
LEMMA HalfPowersGrow ==
  ASSUME NEW m \in Nat, NEW n \in Nat, m <= n
  PROVE  PowerOf(HalfBase, m) <= PowerOf(HalfBase, n)
<1>1. HalfBase \in Nat /\ HalfBase >= 1
  BY HalfBaseFacts
<1>. QED
  BY <1>1, PowersGrow

\* Two half digits make a digit
LEMMA EvenPowers ==
  ASSUME NEW n \in Nat
  PROVE  PowerOf(HalfBase, 2 * n) = PowerOf(Base, n)
<1>. DEFINE T == {k \in Nat : PowerOf(HalfBase, 2 * k) = PowerOf(Base, k)}
<1>1. 0 \in T
  <2>1. Base \in Int /\ HalfBase \in Int
    BY BaseIsPositive, HalfBaseFacts
  <2>2. PowerOf(HalfBase, 0) = 1 /\ PowerOf(Base, 0) = 1
    BY <2>1, Powers
  <2>3. 2 * 0 = 0
    OBVIOUS
  <2>. QED
    BY <2>2, <2>3
<1>2. ASSUME NEW k \in Nat, k \in T PROVE k + 1 \in T
  <2>1. PICK m \in Nat : m = 2 * k /\ m + 1 + 1 = 2 * (k + 1) /\ m + 1 \in Nat
    OBVIOUS
  <2>2. PICK p \in Nat, b \in Nat : p = PowerOf(HalfBase, m) /\ b = HalfBase /\ p = PowerOf(Base, k)
    BY <1>2, <2>1, HalfPowers, HalfBaseFacts
  <2>3. PowerOf(HalfBase, m + 1) = b * p
    BY <2>2, HalfPowers
  <2>4. PowerOf(HalfBase, m + 1 + 1) = b * (b * p)
    BY <2>1, <2>2, <2>3, HalfPowers
  <2>5. PowerOf(Base, k + 1) = (b * b) * p
    BY <2>2, BasePowers, HalfBaseFacts
  <2>6. b * (b * p) = (b * b) * p
    BY ProductsAssociate
  <2>. QED
    BY <2>1, <2>4, <2>5, <2>6
<1>. HIDE DEF T
<1>3. n \in T
  BY <1>1, <1>2, SetInduction
<1>. QED
  BY <1>3 DEF T

\* The digits d are made of the half digits h.
Paired(d, h) == \A i \in Nat : d[i] = h[2 * i] + HalfBase * h[2 * i + 1]

\* Pairs of half digits write the number of the digits they make
LEMMA PairsCountTheSame ==
  ASSUME NEW d \in [Nat -> Int], NEW h \in [Nat -> Int], Paired(d, h), NEW n \in Nat
  PROVE  Upto(h, HalfBase, 2 * n) = Upto(d, Base, n)
<1>. DEFINE T == {k \in Nat : Upto(h, HalfBase, 2 * k) = Upto(d, Base, k)}
<1>0. Base \in Int /\ HalfBase \in Int
  BY BaseIsPositive, HalfBaseFacts
<1>1. 0 \in T
  <2>1. Upto(h, HalfBase, 0) = 0 /\ Upto(d, Base, 0) = 0
    BY <1>0, UptoFacts
  <2>2. 2 * 0 = 0
    OBVIOUS
  <2>. QED
    BY <2>1, <2>2
<1>2. ASSUME NEW k \in Nat, k \in T PROVE k + 1 \in T
  <2>1. PICK m \in Nat : m = 2 * k /\ m + 1 + 1 = 2 * (k + 1) /\ m + 1 \in Nat
    OBVIOUS
  <2>2. PICK p \in Nat, b \in Nat : p = PowerOf(HalfBase, m) /\ b = HalfBase /\ p = PowerOf(Base, k)
    <3>1. PowerOf(HalfBase, m) = PowerOf(Base, k)
      BY <2>1, EvenPowers
    <3>. QED
      BY <3>1, HalfPowers, HalfBaseFacts
  <2>3. PICK u \in Int, x \in Int, y \in Int : u = Upto(d, Base, k) /\ x = h[m] /\ y = h[m + 1]
    <3>1. Upto(d, Base, k) \in Int
      BY <1>0, UptoFacts
    <3>. QED
      BY <2>1, <3>1
  <2>4. Upto(h, HalfBase, m + 1) = u + x * p
    <3>1. Upto(h, HalfBase, m) = u
      BY <1>2, <2>1, <2>3
    <3>2. Upto(h, HalfBase, m + 1) = Upto(h, HalfBase, m) + h[m] * PowerOf(HalfBase, m)
      BY <1>0, UptoNext
    <3>. QED
      BY <2>2, <2>3, <3>1, <3>2
  <2>5. Upto(h, HalfBase, m + 1 + 1) = u + x * p + y * (b * p)
    <3>1. PowerOf(HalfBase, m + 1) = b * p
      BY <2>2, HalfPowers
    <3>2. Upto(h, HalfBase, m + 1 + 1) = Upto(h, HalfBase, m + 1) + h[m + 1] * PowerOf(HalfBase, m + 1)
      BY <1>0, <2>1, UptoNext
    <3>. QED
      BY <2>3, <2>4, <3>1, <3>2
  <2>6. d[k] = x + b * y
    BY <2>1, <2>2, <2>3 DEF Paired
  <2>7. Upto(d, Base, k + 1) = u + (x + b * y) * p
    BY <1>0, <2>2, <2>3, <2>6, UptoNext
  <2>8. (x + b * y) * p = x * p + y * (b * p)
    <3>1. PICK w \in Int : w = b * y
      BY Distributes
    <3>2. (x + w) * p = x * p + w * p
      BY Distributes
    <3>3. y * (b * p) = (b * y) * p
      BY ProductsAssociate
    <3>. QED
      BY <3>1, <3>2, <3>3
  <2>9. x * p \in Int /\ y * (b * p) \in Int
    <3>1. PICK w \in Int : w = b * p
      BY Distributes
    <3>. QED
      BY <3>1, Distributes
  <2>. QED
    BY <2>1, <2>5, <2>7, <2>8, <2>9
<1>. HIDE DEF T
<1>3. n \in T
  BY <1>1, <1>2, SetInduction
<1>. QED
  BY <1>3 DEF T

\* The half digits of a number, and zeroes beyond
HalvesOf(x) == [i \in Nat |-> HalfDigit(x, i)]

\* The half digits of a number pair into its digits, and the highest is not zero
LEMMA HalvesAreHalves ==
  ASSUME NEW x \in Number
  PROVE  /\ HalvesOf(x) \in [Nat -> HalfNative] /\ HalvesOf(x) \in [Nat -> 0 .. HalfBase - 1]
         /\ HalvesOf(x) \in [Nat -> Int] /\ HalvesOf(x) \in [Nat -> Nat]
         /\ Paired(Of(x.digits), HalvesOf(x))
         /\ \A i \in Nat : i >= NumberOfHalfDigits(x) => HalvesOf(x)[i] = 0
         /\ NumberOfHalfDigits(x) \in Nat /\ NumberOfHalfDigits(x) <= 2 * Len(x.digits)
         /\ x.digits # <<>> => NumberOfHalfDigits(x) >= 1 /\ HalvesOf(x)[NumberOfHalfDigits(x) - 1] # 0
         /\ x.digits = <<>> => NumberOfHalfDigits(x) = 0
<1>. DEFINE h == HalvesOf(x)
            d == Of(x.digits)
            n == Len(x.digits)
            N == NumberOfHalfDigits(x)
<1>1. /\ n \in Nat /\ x.digits \in Seq(NativeDigit) /\ (x.digits = <<>> <=> n = 0)
      /\ x.digits # <<>> => x.digits[n] # 0
  BY NumberFacts DEF Number
<1>2. d \in [Nat -> 0 .. Base - 1] /\ \A i \in Nat : i >= n => d[i] = 0
  BY <1>1, DigitsAreNative
<1>3. PICK b \in Nat : b = HalfBase /\ b >= 2 /\ Base = b * b /\ Base \in Nat /\ b >= 1
  BY HalfBaseFacts, BaseIsPositive
<1>4. ASSUME NEW i \in Nat PROVE Digit(x, i) = d[i]
  BY DEF Digit, Of
<1>. HIDE DEF d, n, N
<1>5. ASSUME NEW i \in Nat
      PROVE  /\ d[i] % b \in 0 .. b - 1 /\ d[i] \div b \in 0 .. b - 1
             /\ d[i] = (d[i] % b) + b * (d[i] \div b)
  <2>1. PICK v \in Nat : v = d[i] /\ v < Base
    BY <1>2, <1>3
  <2>2. /\ v \div b \in Int /\ v % b \in Int /\ 0 <= v % b /\ v % b < b
        /\ v = b * (v \div b) + (v % b)
        /\ v >= 0 => v \div b >= 0
    BY <1>3, Divides
  <2>3. PICK q \in Nat, r \in Nat : q = v \div b /\ r = v % b /\ r < b /\ v = b * q + r
    BY <2>2
  <2>4. q < b
    <3>1. PICK y \in Nat : y = b * q
      BY ProductIsNat
    <3>2. PICK z \in Nat : z = b * b
      BY ProductIsNat
    <3>3. b * q < b * b
      BY <1>3, <2>1, <2>3, <3>1, <3>2
    <3>. QED
      BY <3>3, FactorIsLess
  <2>5. PICK y \in Nat : y = b * q
    BY ProductIsNat
  <2>6. v = r + b * q
    BY <2>3, <2>5
  <2>7. v \div b = q /\ v % b = r
    BY <2>3
  <2>8. q \in 0 .. b - 1 /\ r \in 0 .. b - 1
    BY <2>3, <2>4
  <2>9. v = (v % b) + b * (v \div b)
    BY <2>6, <2>7
  <2>10. v % b \in 0 .. b - 1 /\ v \div b \in 0 .. b - 1
    BY <2>7, <2>8
  <2>11. v = d[i]
    BY <2>1
  <2>. QED
    BY <2>9, <2>10, <2>11
<1>6. ASSUME NEW i \in Nat
      PROVE  h[2 * i] = d[i] % b /\ h[2 * i + 1] = d[i] \div b
  <2>1. PICK e \in Nat, o \in Nat : e = 2 * i /\ o = 2 * i + 1
    OBVIOUS
  <2>2. e % 2 = 0 /\ e \div 2 = i /\ o % 2 # 0 /\ o \div 2 = i
    BY <2>1
  <2>3. h[e] = d[i] % b /\ h[o] = d[i] \div b
    BY <1>3, <1>4, <2>2 DEF HalvesOf, HalfDigit
  <2>. QED
    BY <2>1, <2>3
<1>7. ASSUME NEW i \in Nat
      PROVE  \E j \in Nat : (i = 2 * j \/ i = 2 * j + 1)
  <2>1. i \div 2 \in Nat /\ (i = 2 * (i \div 2) \/ i = 2 * (i \div 2) + 1)
    OBVIOUS
  <2>. QED
    BY <2>1
<1>8. ASSUME NEW i \in Nat PROVE h[i] \in 0 .. b - 1
  <2>1. PICK j \in Nat : i = 2 * j \/ i = 2 * j + 1
    BY <1>7
  <2>. QED
    BY <1>5, <1>6, <2>1
<1>9. h \in [Nat -> 0 .. HalfBase - 1]
  BY <1>3, <1>8 DEF HalvesOf
<1>10. h \in [Nat -> HalfNative] /\ h \in [Nat -> Int] /\ h \in [Nat -> Nat]
  BY <1>9, HalfBaseFacts DEF HalfNative
<1>. HIDE DEF h
<1>11. Paired(d, h)
  BY <1>3, <1>5, <1>6 DEF Paired
<1>12. N = IF x.digits = <<>> THEN 0 ELSE 2 * n - (IF x.digits[n] < b THEN 1 ELSE 0)
  BY <1>1, <1>3 DEF N, n, NumberOfHalfDigits, Last
<1>13. CASE x.digits = <<>>
  <2>1. N = 0 /\ n = 0
    BY <1>1, <1>12, <1>13
  <2>2. ASSUME NEW i \in Nat PROVE h[i] = 0
    <3>1. PICK j \in Nat : i = 2 * j \/ i = 2 * j + 1
      BY <1>7
    <3>2. d[j] = 0
      BY <1>2, <2>1
    <3>3. 0 % b = 0 /\ 0 \div b = 0
      <4>1. 0 = b * 0 + 0
        OBVIOUS
      <4>. QED
        BY <1>3, <4>1, DivisionIsUnique
    <3>. QED
      BY <1>6, <3>1, <3>2, <3>3
  <2>. QED
    BY <1>1, <1>9, <1>10, <1>11, <1>13, <2>1, <2>2 DEF h, d, n, N
<1>14. CASE x.digits # <<>>
  <2>1. PICK k \in Nat : n = k + 1
    <3>1. n - 1 \in Nat /\ n = (n - 1) + 1
      BY <1>1, <1>14
    <3>. QED
      BY <3>1
  <2>2. PICK v \in Nat : v = d[k] /\ v = x.digits[n] /\ v # 0
    <3>1. d[k] = x.digits[k + 1] /\ d[k] \in Nat
      BY <1>2, <2>1 DEF d, n, Of
    <3>. QED
      BY <1>1, <1>14, <2>1, <3>1
  <2>3. N = 2 * k + (IF v < b THEN 1 ELSE 2)
    BY <1>1, <1>12, <1>14, <2>1, <2>2
  <2>4. PICK q \in Nat, r \in Nat : q = v \div b /\ r = v % b /\ v = r + b * q /\ r < b
    <3>1. v % b \in 0 .. b - 1 /\ v \div b \in 0 .. b - 1 /\ v = (v % b) + b * (v \div b)
      BY <1>5, <2>2
    <3>. QED
      BY <3>1
  <2>5. h[2 * k] = r /\ h[2 * k + 1] = q
    BY <1>6, <2>2, <2>4
  <2>6. v < b => q = 0 /\ r # 0
    <3>. SUFFICES ASSUME v < b PROVE q = 0 /\ r # 0
      OBVIOUS
    <3>1. v = b * 0 + v
      BY <1>3
    <3>2. v \div b = 0 /\ v % b = v
      BY <3>1, DivisionIsUnique
    <3>. QED
      BY <2>2, <2>4, <3>2
  <2>7. ~ (v < b) => q # 0
    <3>. SUFFICES ASSUME q = 0 PROVE v < b
      OBVIOUS
    <3>1. b * q = 0
      BY <1>3
    <3>. QED
      BY <2>4, <3>1
  <2>8. ASSUME NEW i \in Nat, i >= N PROVE h[i] = 0
    <3>1. PICK j \in Nat : i = 2 * j \/ i = 2 * j + 1
      BY <1>7
    <3>2. CASE j > k
      <4>1. d[j] = 0
        BY <1>2, <2>1, <3>2
      <4>2. 0 % b = 0 /\ 0 \div b = 0
        <5>1. 0 = b * 0 + 0
          OBVIOUS
        <5>. QED
          BY <1>3, <5>1, DivisionIsUnique
      <4>. QED
        BY <1>6, <3>1, <4>1, <4>2
    <3>3. CASE ~ (j > k)
      <4>1. v < b /\ i = 2 * k + 1
        BY <2>3, <2>8, <3>1, <3>3
      <4>. QED
        BY <2>5, <2>6, <4>1
    <3>. QED
      BY <3>2, <3>3
  <2>9. N \in Nat /\ N >= 1 /\ N <= 2 * n
    BY <2>1, <2>3
  <2>10. h[N - 1] # 0
    <3>1. CASE v < b
      <4>1. N - 1 = 2 * k
        BY <2>3, <3>1
      <4>. QED
        BY <2>5, <2>6, <3>1, <4>1
    <3>2. CASE ~ (v < b)
      <4>1. N - 1 = 2 * k + 1
        BY <2>3, <3>2
      <4>. QED
        BY <2>5, <2>7, <3>2, <4>1
    <3>. QED
      BY <3>1, <3>2
  <2>. QED
    BY <1>9, <1>10, <1>11, <1>14, <2>8, <2>9, <2>10 DEF h, d, n, N
<1>. QED
  BY <1>13, <1>14

\* A number from its half digits, and its bounds from how many there are
LEMMA HalfMagnitude ==
  ASSUME NEW x \in Number
  PROVE  /\ \A n \in Nat : n >= NumberOfHalfDigits(x) => Upto(HalvesOf(x), HalfBase, n) = Magnitude(x)
         /\ Magnitude(x) < PowerOf(HalfBase, NumberOfHalfDigits(x))
         /\ PowerOf(HalfBase, NumberOfHalfDigits(x)) <= PowerOf(Base, Len(x.digits))
         /\ x.digits # <<>> =>
              /\ Magnitude(x) >= HalvesOf(x)[NumberOfHalfDigits(x) - 1]
                                   * PowerOf(HalfBase, NumberOfHalfDigits(x) - 1)
              /\ Magnitude(x) >= PowerOf(HalfBase, NumberOfHalfDigits(x) - 1)
<1>. DEFINE h == HalvesOf(x)
            d == Of(x.digits)
            l == Len(x.digits)
            N == NumberOfHalfDigits(x)
<1>1. /\ h \in [Nat -> 0 .. HalfBase - 1] /\ h \in [Nat -> Int] /\ h \in [Nat -> Nat] /\ Paired(d, h)
      /\ \A i \in Nat : i >= N => h[i] = 0
      /\ N \in Nat /\ N <= 2 * l
      /\ x.digits # <<>> => N >= 1 /\ h[N - 1] # 0
  BY HalvesAreHalves
<1>2. /\ l \in Nat /\ x.digits \in Seq(NativeDigit) /\ Magnitude(x) = Upto(d, Base, l)
      /\ Magnitude(x) \in Nat
  BY NumberFacts DEF Magnitude, Total
<1>3. d \in [Nat -> Int]
  BY <1>2, DigitsAreNative
<1>4. HalfBase \in Nat /\ HalfBase >= 1 /\ HalfBase \in Int
  BY HalfBaseFacts
<1>. HIDE DEF h, d, l, N
<1>5. Upto(h, HalfBase, N) = Magnitude(x)
  <2>1. PICK m \in Nat : m = 2 * l
    BY <1>2
  <2>2. Upto(h, HalfBase, m) = Magnitude(x)
    BY <1>1, <1>2, <1>3, <2>1, PairsCountTheSame
  <2>3. \A i \in N .. m - 1 : h[i] = 0
    BY <1>1, <2>1
  <2>4. Upto(h, HalfBase, m) = Upto(h, HalfBase, N)
    BY <1>1, <1>4, <2>1, <2>3, UptoZeroes
  <2>. QED
    BY <2>2, <2>4
<1>6. ASSUME NEW n \in Nat, n >= N PROVE Upto(h, HalfBase, n) = Magnitude(x)
  <2>1. \A i \in N .. n - 1 : h[i] = 0
    BY <1>1
  <2>2. Upto(h, HalfBase, n) = Upto(h, HalfBase, N)
    BY <1>1, <1>4, <1>6, <2>1, UptoZeroes
  <2>. QED
    BY <1>5, <2>2
<1>7. Magnitude(x) < PowerOf(HalfBase, N)
  BY <1>1, <1>4, <1>5, UptoBounded
<1>8. PowerOf(HalfBase, N) <= PowerOf(Base, l)
  <2>1. PICK m \in Nat : m = 2 * l
    BY <1>2
  <2>2. PowerOf(HalfBase, m) = PowerOf(Base, l)
    BY <1>2, <2>1, EvenPowers
  <2>3. PowerOf(HalfBase, N) <= PowerOf(HalfBase, m)
    BY <1>1, <2>1, HalfPowersGrow
  <2>. QED
    BY <2>2, <2>3
<1>9. ASSUME x.digits # <<>>
      PROVE  /\ Magnitude(x) >= h[N - 1] * PowerOf(HalfBase, N - 1)
             /\ Magnitude(x) >= PowerOf(HalfBase, N - 1)
  <2>1. PICK k \in Nat : k = N - 1 /\ N = k + 1
    <3>1. N - 1 \in Nat /\ N = (N - 1) + 1
      BY <1>1, <1>9
    <3>. QED
      BY <3>1
  <2>2. PICK v \in Nat, p \in Nat : v = h[k] /\ v # 0 /\ p = PowerOf(HalfBase, k)
    BY <1>1, <1>9, <2>1, HalfPowers
  <2>3. Upto(h, HalfBase, k) \in Nat
    BY <1>1, <1>4, UptoBounded
  <2>4. Magnitude(x) = Upto(h, HalfBase, k) + v * p
    <3>1. Upto(h, HalfBase, k + 1) = Upto(h, HalfBase, k) + h[k] * PowerOf(HalfBase, k)
      BY <1>1, <1>4, UptoNext
    <3>. QED
      BY <1>5, <2>1, <2>2, <3>1
  <2>5. v >= 1
    BY <2>2
  <2>6. 1 * p <= v * p /\ v * p \in Nat
    BY <2>5, ProductGrows, ProductIsNat
  <2>7. Magnitude(x) >= v * p /\ Magnitude(x) >= p
    BY <1>2, <2>3, <2>4, <2>6
  <2>. QED
    BY <2>1, <2>2, <2>7
<1>. QED
  BY <1>6, <1>7, <1>8, <1>9 DEF h, l, N

\* Half digits written into a number
LEMMA FromHalvesFacts ==
  ASSUME NEW s \in Seq(HalfNative)
  PROVE  /\ FromHalves(s) \in Number /\ FromHalves(s).sign = 1
         /\ Magnitude(FromHalves(s)) = Upto(Of(s), HalfBase, Len(s))
         /\ Upto(Of(s), HalfBase, Len(s)) < PowerOf(HalfBase, Len(s))
         /\ Of(s) \in [Nat -> HalfNative] /\ Of(s) \in [Nat -> Int]
<1>. DEFINE l == Len(s)
            n == (l + 1) \div 2
            r == [k \in 1 .. n |-> s[2 * k - 1] + (IF 2 * k <= l THEN HalfBase * s[2 * k] ELSE 0)]
            h == Of(s)
<1>1. PICK b \in Nat : b = HalfBase /\ b >= 2 /\ b >= 1 /\ Base = b * b /\ HalfNative = 0 .. b - 1
  BY HalfBaseFacts DEF HalfNative
<1>2. l \in Nat
  OBVIOUS
<1>3. ASSUME NEW i \in Nat PROVE h[i] \in HalfNative /\ (i >= l => h[i] = 0)
  <2>1. CASE i < l
    <3>1. i + 1 \in 1 .. l
      BY <2>1
    <3>2. s[i + 1] \in HalfNative
      BY <3>1
    <3>. QED
      BY <2>1, <3>2 DEF Of
  <2>2. CASE ~ (i < l)
    BY <1>1, <2>2 DEF Of
  <2>. QED
    BY <2>1, <2>2
<1>4. h \in [Nat -> HalfNative]
  BY <1>3 DEF Of
<1>5. h \in [Nat -> 0 .. HalfBase - 1] /\ h \in [Nat -> Int]
  BY <1>1, <1>4
<1>. HIDE DEF l
<1>6. n \in Nat /\ l <= 2 * n /\ 2 * n <= l + 1
  BY <1>2
<1>6a. ASSUME NEW i \in Nat PROVE h[i] = IF i < l THEN s[i + 1] ELSE 0
  BY DEF Of, l
<1>. HIDE DEF n, h
<1>7. ASSUME NEW i \in Nat
      PROVE  /\ h[2 * i] \in 0 .. b - 1 /\ h[2 * i + 1] \in 0 .. b - 1
             /\ h[2 * i] + b * h[2 * i + 1] \in NativeDigit
  <2>1. 2 * i \in Nat /\ 2 * i + 1 \in Nat
    OBVIOUS
  <2>2. PICK x \in Nat, y \in Nat : x = h[2 * i] /\ y = h[2 * i + 1] /\ x < b /\ y < b
    <3>1. h[2 * i] \in HalfNative
      BY <1>4, <2>1
    <3>2. h[2 * i + 1] \in HalfNative
      BY <1>4, <2>1
    <3>. QED
      BY <1>1, <3>1, <3>2
  <2>3. y \in Int /\ b - 1 \in Int /\ y <= b - 1
    BY <1>1, <2>2
  <2>4. b * y <= b * (b - 1)
    BY <2>3, ProductGrows
  <2>5. PICK z \in Nat, w \in Nat : z = b * y /\ w = b * b
    BY ProductIsNat
  <2>6. b * (b - 1) = w - b
    BY <1>1, <2>5
  <2>7. x + z \in 0 .. w - 1
    BY <2>2, <2>4, <2>5, <2>6, SMTT(30)
  <2>. QED
    BY <1>1, <2>2, <2>5, <2>7 DEF NativeDigit
<1>8. ASSUME NEW i \in Nat, i < n
      PROVE  r[i + 1] = h[2 * i] + b * h[2 * i + 1]
  <2>1. i + 1 \in 1 .. n /\ 2 * i < l /\ 2 * (i + 1) - 1 = 2 * i + 1 /\ 2 * (i + 1) = 2 * i + 1 + 1
        /\ 2 * i \in Nat /\ 2 * i + 1 \in Nat
    BY <1>2, <1>6, <1>8
  <2>2. r[i + 1] = s[2 * (i + 1) - 1] + (IF 2 * (i + 1) <= l THEN HalfBase * s[2 * (i + 1)] ELSE 0)
    BY <2>1
  <2>3. h[2 * i] = s[2 * i + 1]
    BY <1>6a, <2>1
  <2>4. h[2 * i + 1] = IF 2 * i + 1 < l THEN s[2 * i + 1 + 1] ELSE 0
    BY <1>6a, <2>1
  <2>5. CASE 2 * i + 1 < l
    <3>1. 2 * (i + 1) <= l
      BY <1>2, <2>5
    <3>. QED
      BY <1>1, <2>1, <2>2, <2>3, <2>4, <2>5, <3>1
  <2>6. CASE ~ (2 * i + 1 < l)
    <3>1. ~ (2 * (i + 1) <= l)
      BY <1>2, <2>6
    <3>2. r[i + 1] = h[2 * i] + 0
      BY <2>1, <2>2, <2>3, <3>1
    <3>3. b * h[2 * i + 1] = 0
      BY <1>1, <2>4, <2>6
    <3>. QED
      BY <3>2, <3>3
  <2>. QED
    BY <2>5, <2>6
<1>. HIDE DEF r
<1>9. r \in Seq(NativeDigit) /\ Len(r) = n
  <2>1. ASSUME NEW k \in 1 .. n PROVE r[k] \in NativeDigit
    <3>1. PICK i \in Nat : i + 1 = k /\ i < n
      <4>1. k - 1 \in Nat /\ (k - 1) + 1 = k /\ k - 1 < n
        BY <1>6
      <4>. QED
        BY <4>1
    <3>. QED
      BY <1>7, <1>8, <3>1
  <2>2. r = [k \in 1 .. n |-> r[k]]
    BY DEF r
  <2>3. r \in [1 .. n -> NativeDigit]
    BY <2>1, <2>2
  <2>. QED
    BY <1>6, <2>3
<1>10. Paired(Of(r), h)
  <2>. SUFFICES ASSUME NEW i \in Nat PROVE Of(r)[i] = h[2 * i] + b * h[2 * i + 1]
    BY <1>1 DEF Paired
  <2>1. CASE i < n
    BY <1>8, <1>9, <2>1 DEF Of
  <2>2. CASE ~ (i < n)
    <3>1. 2 * i \in Nat /\ 2 * i + 1 \in Nat /\ 2 * i >= l /\ 2 * i + 1 >= l
      BY <1>2, <1>6, <2>2
    <3>2. h[2 * i] = 0 /\ h[2 * i + 1] = 0
      BY <1>3, <3>1 DEF h
    <3>3. Of(r)[i] = 0
      BY <1>9, <2>2 DEF Of
    <3>4. b * 0 = 0
      OBVIOUS
    <3>. QED
      BY <3>2, <3>3, <3>4
  <2>. QED
    BY <2>1, <2>2
<1>11. Total(r) = Upto(h, HalfBase, l)
  <2>1. PICK m \in Nat : m = 2 * n
    BY <1>6
  <2>2. Of(r) \in [Nat -> Int]
    BY <1>9, DigitsAreNative
  <2>3. Upto(h, HalfBase, m) = Upto(Of(r), Base, n)
    BY <1>5, <1>6, <1>10, <2>1, <2>2, PairsCountTheSame
  <2>4. \A i \in l .. m - 1 : h[i] = 0
    BY <1>2, <1>3 DEF h
  <2>5. Upto(h, HalfBase, m) = Upto(h, HalfBase, l)
    <3>1. HalfBase \in Int /\ l <= m
      BY <1>6, <2>1, HalfBaseFacts
    <3>. QED
      BY <1>2, <1>5, <2>4, <3>1, UptoZeroes
  <2>. QED
    BY <1>9, <2>3, <2>5 DEF Total
<1>12. FromHalves(s) = Handler(1, Sanitize(r))
  BY DEF FromHalves, r, n, l
<1>13. FromHalves(s) \in Number /\ Magnitude(FromHalves(s)) = Total(r) /\ FromHalves(s).sign = 1
  BY <1>9, <1>12, HandlerFacts
<1>14. Upto(h, HalfBase, l) < PowerOf(HalfBase, l)
  BY <1>1, <1>2, <1>5, UptoBounded
<1>. QED
  BY <1>4, <1>5, <1>11, <1>13, <1>14 DEF h, l

\* A shift by half digits multiplies by a power of the half base
LEMMA MultiplyByPowerOfBaseFacts ==
  ASSUME NEW x \in Number, NEW pow \in Nat
  PROVE  LET y == MultiplyByPowerOfBase(x, pow)
         IN  y \in Number /\ y.sign = 1 /\ Magnitude(y) = PowerOf(HalfBase, pow) * Magnitude(x)
<1>. DEFINE h == HalvesOf(x)
            N == NumberOfHalfDigits(x)
            n == N + pow
            s == [i \in 1 .. n |-> IF i <= pow THEN 0 ELSE HalfDigit(x, i - 1 - pow)]
<1>1. h \in [Nat -> HalfNative] /\ h \in [Nat -> Int] /\ N \in Nat
  BY HalvesAreHalves
<1>2. \A i \in Nat : HalfDigit(x, i) = h[i]
  BY DEF HalvesOf
<1>3. Upto(h, HalfBase, N) = Magnitude(x)
  BY <1>1, HalfMagnitude
<1>4. HalfBase \in Int /\ 0 \in HalfNative
  BY HalfBaseFacts DEF HalfNative
<1>. HIDE DEF h, N
<1>5. n \in Nat
  BY <1>1
<1>6. s \in Seq(HalfNative) /\ Len(s) = n
  <2>1. ASSUME NEW i \in 1 .. n PROVE (IF i <= pow THEN 0 ELSE HalfDigit(x, i - 1 - pow)) \in HalfNative
    <3>1. CASE i <= pow
      BY <1>4, <3>1
    <3>2. CASE ~ (i <= pow)
      <4>1. i - 1 - pow \in Nat
        BY <1>5, <3>2
      <4>. QED
        BY <1>1, <1>2, <3>2, <4>1
    <3>. QED
      BY <3>1, <3>2
  <2>2. s \in [1 .. n -> HalfNative]
    BY <2>1
  <2>. QED
    BY <1>5, <2>2
<1>7. ASSUME NEW i \in Nat, i < n PROVE Of(s)[i] = IF i < pow THEN 0 ELSE h[i - pow]
  <2>1. i + 1 \in 1 .. n
    BY <1>5, <1>7
  <2>2. s[i + 1] = IF i + 1 <= pow THEN 0 ELSE HalfDigit(x, i + 1 - 1 - pow)
    BY <2>1
  <2>3. Of(s)[i] = s[i + 1]
    <3>. HIDE DEF s
    <3>. QED
      BY <1>6, <1>7 DEF Of
  <2>4. CASE i < pow
    <3>1. i + 1 <= pow
      BY <2>4
    <3>. QED
      BY <2>2, <2>3, <2>4, <3>1
  <2>5. CASE ~ (i < pow)
    <3>1. ~ (i + 1 <= pow) /\ i + 1 - 1 - pow = i - pow /\ i - pow \in Nat
      BY <2>5
    <3>. QED
      BY <1>2, <2>2, <2>3, <2>5, <3>1
  <2>. QED
    BY <2>4, <2>5
<1>8. /\ FromHalves(s) \in Number /\ FromHalves(s).sign = 1
      /\ Magnitude(FromHalves(s)) = Upto(Of(s), HalfBase, n) /\ Of(s) \in [Nat -> Int]
  <2>. HIDE DEF s
  <2>. QED
    BY <1>6, FromHalvesFacts
<1>9. MultiplyByPowerOfBase(x, pow) = FromHalves(s)
  BY DEF MultiplyByPowerOfBase, N
<1>10. PICK g \in [Nat -> Int] : g = Of(s)
  BY <1>8
<1>11. \A i \in Nat : i < n => g[i] = IF i < pow THEN 0 ELSE h[i - pow]
  BY <1>7, <1>10
<1>. HIDE DEF s
<1>12. PICK f \in [Nat -> Int] : f = [i \in Nat |-> g[pow + i]]
  <2>1. [i \in Nat |-> g[pow + i]] \in [Nat -> Int]
    OBVIOUS
  <2>. QED
    BY <2>1
<1>13. Upto(g, HalfBase, pow + N) = Upto(g, HalfBase, pow) + PowerOf(HalfBase, pow) * Upto(f, HalfBase, N)
  BY <1>1, <1>4, <1>12, Splits
<1>14. Upto(g, HalfBase, pow) = 0
  <2>1. \A i \in 0 .. pow - 1 : g[i] = 0
    <3>. SUFFICES ASSUME NEW i \in 0 .. pow - 1 PROVE g[i] = 0
      OBVIOUS
    <3>1. i \in Nat /\ i < n /\ i < pow
      BY <1>1
    <3>. QED
      BY <1>11, <3>1
  <2>2. Upto(g, HalfBase, pow) = Upto(g, HalfBase, 0)
    BY <1>4, <2>1, UptoZeroes
  <2>. QED
    BY <1>4, <2>2, UptoFacts
<1>15. Upto(f, HalfBase, N) = Magnitude(x)
  <2>1. ASSUME NEW i \in 0 .. N - 1 PROVE f[i] = h[i]
    <3>1. i \in Nat /\ pow + i \in Nat /\ pow + i < n /\ ~ (pow + i < pow) /\ (pow + i) - pow = i
      BY <1>1
    <3>2. f[i] = g[pow + i]
      BY <1>12, <3>1
    <3>3. g[pow + i] = h[(pow + i) - pow]
      BY <1>11, <3>1
    <3>. QED
      BY <3>1, <3>2, <3>3
  <2>2. Upto(f, HalfBase, N) = Upto(h, HalfBase, N)
    BY <1>1, <1>4, <2>1, SameDigits
  <2>. QED
    BY <1>3, <2>2
<1>16. n = pow + N
  BY <1>1
<1>17. PowerOf(HalfBase, pow) * Magnitude(x) \in Nat
  BY HalfPowers, NumberFacts, ProductIsNat
<1>18. Magnitude(FromHalves(s)) = PowerOf(HalfBase, pow) * Magnitude(x)
  BY <1>8, <1>10, <1>13, <1>14, <1>15, <1>16, <1>17
<1>. QED
  BY <1>8, <1>9, <1>18

-----------------------------------------------------------------------------
(* Shifts *)

\* The power of two, and what is left of the base.
LEMMA ShiftOf ==
  ASSUME NEW t \in Nat, t >= 1, t < HalfBase
  PROVE  /\ \E p \in 0 .. HalfBase : t * PowerOf(2, p) \in HalfBase \div 2 .. HalfBase - 1
         /\ \A p \in Nat : t * PowerOf(2, p) < HalfBase =>
              /\ PowerOf(2, p) \in Nat /\ PowerOf(2, p) >= 1 /\ PowerOf(2, p) < HalfBase
              /\ \E r \in Nat : r >= 1 /\ Base = PowerOf(2, p) * r
              /\ \E z \in Nat : HalfBase = PowerOf(2, p) * z
<1>1. PICK k \in 1 .. HalfBase : HalfBase = PowerOf(2, k)
  BY DigitsAssumption
<1>2. PICK two \in Nat : two = 2 /\ two >= 1 /\ two \in Int
  OBVIOUS
<1>3. PICK b \in Nat : b = HalfBase /\ b >= 2 /\ k \in Nat /\ k >= 1 /\ k <= b /\ Base = b * b
  BY HalfBaseFacts
<1>4. ASSUME NEW p \in Nat
      PROVE  /\ PowerOf(two, p) \in Nat /\ PowerOf(two, p) >= 1
             /\ PowerOf(two, p + 1) = 2 * PowerOf(two, p)
             /\ \A q \in Nat : p <= q => PowerOf(two, p) <= PowerOf(two, q)
  BY <1>2, Powers, PowersGrow
<1>5. ASSUME NEW p \in Nat
      PROVE  t * PowerOf(two, p) \in Nat /\ PowerOf(two, p) <= t * PowerOf(two, p)
  <2>1. PICK q \in Nat : q = PowerOf(two, p)
    BY <1>4
  <2>2. 1 * q <= t * q
    BY ProductGrows
  <2>3. t * q \in Nat
    BY ProductIsNat
  <2>. QED
    BY <2>1, <2>2, <2>3
<1>6. \E p \in 0 .. b : t * PowerOf(two, p) \in b \div 2 .. b - 1
  <2>. DEFINE T == {p \in Nat : t * PowerOf(two, p) >= b}
  <2>1. k \in T
    <3>1. PowerOf(two, k) <= t * PowerOf(two, k) /\ t * PowerOf(two, k) \in Nat
      BY <1>3, <1>5
    <3>. QED
      BY <1>1, <1>2, <1>3, <3>1
  <2>2. T \subseteq Nat /\ T # {}
    BY <2>1
  <2>3. PICK m \in T : \A q \in T : m <= q
    <3>. HIDE DEF T
    <3>. QED
      BY <2>2, LeastElement
  <2>4. m \in Nat /\ t * PowerOf(two, m) >= b /\ m <= k
    BY <2>1, <2>3
  <2>5. m # 0
    <3>1. PowerOf(two, 0) = 1
      BY <1>2, Powers
    <3>2. t * 1 = t
      OBVIOUS
    <3>. QED
      BY <1>3, <2>4, <3>1, <3>2
  <2>6. PICK p \in Nat : p + 1 = m
    <3>1. m - 1 \in Nat /\ (m - 1) + 1 = m
      BY <2>4, <2>5
    <3>. QED
      BY <3>1
  <2>7. p \notin T
    <3>1. ~ (m <= p)
      BY <2>6
    <3>. QED
      BY <2>3, <3>1
  <2>8. PICK w \in Nat, x \in Nat : w = PowerOf(two, p) /\ x = t * w
    BY <1>4, <1>5
  <2>9. x < b
    BY <1>3, <2>7, <2>8
  <2>10. t * PowerOf(two, m) = 2 * x
    <3>1. PowerOf(two, m) = 2 * w
      BY <1>4, <2>6, <2>8
    <3>2. t * (two * w) = two * (t * w)
      BY <1>2, ProductsAssociate
    <3>. QED
      BY <1>2, <2>8, <3>1, <3>2
  <2>11. 2 * x >= b
    BY <2>4, <2>10
  <2>12. x \in b \div 2 .. b - 1
    BY <1>3, <2>9, <2>11
  <2>13. p \in 0 .. b
    BY <1>3, <2>4, <2>6
  <2>. QED
    BY <2>8, <2>12, <2>13
<1>7. ASSUME NEW p \in Nat, t * PowerOf(two, p) < b
      PROVE  /\ PowerOf(two, p) \in Nat /\ PowerOf(two, p) >= 1 /\ PowerOf(two, p) < b
             /\ \E r \in Nat : r >= 1 /\ Base = PowerOf(two, p) * r
             /\ \E z \in Nat : b = PowerOf(two, p) * z
  <2>1. PICK w \in Nat : w = PowerOf(two, p) /\ w >= 1 /\ w < b
    <3>1. PowerOf(two, p) \in Nat /\ PowerOf(two, p) >= 1
      BY <1>4
    <3>2. PowerOf(two, p) <= t * PowerOf(two, p) /\ t * PowerOf(two, p) \in Nat
      BY <1>5
    <3>. QED
      BY <1>3, <1>7, <3>1, <3>2
  <2>2. p <= k
    <3>. SUFFICES ASSUME ~ (p <= k) PROVE FALSE
      OBVIOUS
    <3>1. k <= p
      BY <1>3
    <3>2. PowerOf(two, k) <= PowerOf(two, p)
      BY <1>3, <1>4, <3>1
    <3>. QED
      BY <1>1, <1>2, <1>3, <2>1, <3>2
  <2>3. PICK q \in Nat : p + q = k
    <3>1. k - p \in Nat /\ p + (k - p) = k
      BY <1>3, <2>2
    <3>. QED
      BY <3>1
  <2>4. PICK z \in Nat : z = PowerOf(two, q) /\ z >= 1
    BY <1>4
  <2>5. b = w * z
    <3>1. PowerOf(two, p + q) = PowerOf(two, p) * PowerOf(two, q)
      BY <1>2, PowersMultiply
    <3>. QED
      BY <1>1, <1>2, <1>3, <2>1, <2>3, <2>4, <3>1
  <2>6. PICK r \in Nat : r = z * b /\ r >= 1
    <3>1. 1 * b <= z * b /\ z * b \in Nat
      BY <2>4, ProductGrows, ProductIsNat
    <3>. QED
      BY <1>3, <3>1
  <2>7. Base = w * r
    <3>1. w * (z * b) = (w * z) * b
      BY ProductsAssociate
    <3>. QED
      BY <1>3, <2>5, <2>6, <3>1
  <2>. QED
    BY <2>1, <2>4, <2>5, <2>6, <2>7
<1>. QED
  BY <1>2, <1>3, <1>6, <1>7

\* A factor of the base, and what is left of it.
IsFactor(p, r) == p \in Nat /\ r \in Nat /\ p >= 1 /\ r >= 1 /\ Base = p * r

\* The shift of a denominator makes its highest half digit large, and divides the base
LEMMA ShiftFacts ==
  ASSUME NEW x \in Number, x.digits # <<>>
  PROVE  LET p == PowerOf(2, Shift(x))
             top == HalvesOf(x)[NumberOfHalfDigits(x) - 1]
         IN  /\ Shift(x) \in Nat /\ top \in Nat /\ top * p >= HalfBase \div 2 /\ top * p < HalfBase
             /\ top * p \in Nat
             /\ p \in Nat /\ p >= 1 /\ p < HalfBase /\ \E r \in Nat : IsFactor(p, r)
             /\ \E z \in Nat : HalfBase = p * z
<1>. DEFINE top == HalvesOf(x)[NumberOfHalfDigits(x) - 1]
<1>1. top \in Nat /\ top >= 1 /\ top < HalfBase /\ HalfDigit(x, NumberOfHalfDigits(x) - 1) = top
  <2>1. /\ HalvesOf(x) \in [Nat -> 0 .. HalfBase - 1]
        /\ NumberOfHalfDigits(x) \in Nat /\ NumberOfHalfDigits(x) >= 1
        /\ HalvesOf(x)[NumberOfHalfDigits(x) - 1] # 0
    BY HalvesAreHalves
  <2>2. PICK k \in Nat : k = NumberOfHalfDigits(x) - 1
    <3>1. NumberOfHalfDigits(x) - 1 \in Nat
      BY <2>1
    <3>. QED
      BY <3>1
  <2>3. HalvesOf(x)[k] \in 0 .. HalfBase - 1 /\ HalvesOf(x)[k] # 0 /\ HalvesOf(x)[k] = HalfDigit(x, k)
    BY <2>1, <2>2 DEF HalvesOf
  <2>. QED
    BY <2>2, <2>3, HalfBaseFacts
<1>. HIDE DEF top
<1>2. HalfBase \in Nat
  BY HalfBaseFacts
<1>3. \E p \in 0 .. HalfBase : top * PowerOf(2, p) \in HalfBase \div 2 .. HalfBase - 1
  BY <1>1, ShiftOf
<1>4. Shift(x) \in 0 .. HalfBase /\ top * PowerOf(2, Shift(x)) \in HalfBase \div 2 .. HalfBase - 1
  BY <1>1, <1>3 DEF Shift
<1>5. PICK s \in Nat : s = Shift(x)
  BY <1>2, <1>4
<1>6. PICK y \in Nat : y = top * PowerOf(2, s) /\ y >= HalfBase \div 2 /\ y < HalfBase
  <2>1. HalfBase \div 2 \in Nat
    BY <1>2
  <2>2. \A y \in HalfBase \div 2 .. HalfBase - 1 : y \in Nat /\ y >= HalfBase \div 2 /\ y < HalfBase
    BY <1>2, <2>1
  <2>. QED
    BY <1>4, <1>5, <2>2
<1>7. /\ PowerOf(2, s) \in Nat /\ PowerOf(2, s) >= 1 /\ PowerOf(2, s) < HalfBase
      /\ \E z \in Nat : HalfBase = PowerOf(2, s) * z
  BY <1>1, <1>6, ShiftOf
<1>8. PICK r \in Nat : r >= 1 /\ Base = PowerOf(2, s) * r
  BY <1>1, <1>6, ShiftOf
<1>9. IsFactor(PowerOf(2, s), r)
  BY <1>7, <1>8 DEF IsFactor
<1>. QED
  BY <1>1, <1>5, <1>6, <1>7, <1>9 DEF top

\* A digit that is multiplied by a factor of the base.
LEMMA ShiftedDigit ==
  ASSUME NEW d \in NativeDigit, NEW p \in Nat, NEW r \in Nat, p >= 1, r >= 1, Base = p * r
  PROVE  \E q \in Nat, e \in Nat :
           /\ d \div r = q /\ d % r = e /\ d = r * q + e /\ q < p /\ e < r
           /\ (d * p) \div Base = q /\ (d * p) % Base = p * e /\ p * e \in Nat /\ p * e + p <= Base
<1>1. d \in Nat /\ d < Base /\ Base \in Nat
  BY BaseIsPositive DEF NativeDigit
<1>2. /\ d \div r \in Int /\ d % r \in Int /\ 0 <= d % r /\ d % r < r
      /\ d = r * (d \div r) + (d % r)
      /\ d >= 0 => d \div r >= 0
  BY <1>1, Divides
<1>3. PICK q \in Nat, e \in Nat : q = d \div r /\ e = d % r /\ e < r /\ d = r * q + e
  BY <1>1, <1>2
<1>4. PICK rq \in Nat, pr \in Nat, pe \in Nat : rq = r * q /\ pr = p * r /\ pe = p * e
  BY ProductIsNat
<1>5. q < p
  <2>1. r * p = pr
    BY <1>4
  <2>2. r * q < r * p
    BY <1>1, <1>3, <1>4, <2>1
  <2>. QED
    BY <2>2, FactorIsLess
<1>6. pe + p <= pr
  <2>1. e + 1 <= r /\ e + 1 \in Int
    BY <1>3
  <2>2. p * (e + 1) <= p * r
    BY <2>1, ProductGrows
  <2>3. p * (e + 1) = p * e + p
    OBVIOUS
  <2>. QED
    BY <1>4, <2>2, <2>3
<1>7. PICK dp \in Nat : dp = d * p
  BY <1>1, ProductIsNat
<1>8. dp = pr * q + pe
  <2>1. (rq + e) * p = rq * p + e * p
    BY Distributes
  <2>2. p * e = e * p /\ p * (r * q) = (p * r) * q /\ rq * p = p * rq
    BY ProductsAssociate, Distributes
  <2>3. pr * q \in Nat
    BY ProductIsNat
  <2>. QED
    BY <1>3, <1>4, <1>7, <2>1, <2>2, <2>3
<1>9. dp \div Base = q /\ dp % Base = pe
  <2>1. pe < pr
    BY <1>6
  <2>2. dp \div pr = q /\ dp % pr = pe
    BY <1>8, <2>1, DivisionIsUnique
  <2>. QED
    BY <1>4, <2>2
<1>. QED
  BY <1>3, <1>4, <1>5, <1>6, <1>7, <1>9

\* The pieces of the digits d, shifted by a factor p of the base: the digit is r * q + e.
ShiftPieces(d, p, r, q, e) ==
  \A i \in Nat : /\ d[i] \div r = q[i] /\ d[i] % r = e[i] /\ d[i] = r * q[i] + e[i] /\ q[i] < p /\ e[i] < r
                 /\ (d[i] * p) \div Base = q[i] /\ (d[i] * p) % Base = p * e[i]
                 /\ p * e[i] \in Nat /\ p * e[i] + p <= Base
                 /\ d[i] = 0 => q[i] = 0 /\ e[i] = 0

\* ShiftedDigit for all the digits of a number
LEMMA Pieces ==
  ASSUME NEW d \in [Nat -> NativeDigit], NEW p \in Nat, NEW r \in Nat, IsFactor(p, r)
  PROVE  \E q \in [Nat -> Nat], e \in [Nat -> Nat] : ShiftPieces(d, p, r, q, e)
<1>. DEFINE q == [i \in Nat |-> d[i] \div r]
            e == [i \in Nat |-> d[i] % r]
<1>1. ASSUME NEW i \in Nat
      PROVE  /\ q[i] \in Nat /\ e[i] \in Nat
             /\ d[i] \div r = q[i] /\ d[i] % r = e[i] /\ d[i] = r * q[i] + e[i] /\ q[i] < p /\ e[i] < r
             /\ (d[i] * p) \div Base = q[i] /\ (d[i] * p) % Base = p * e[i]
             /\ p * e[i] \in Nat /\ p * e[i] + p <= Base
             /\ d[i] = 0 => q[i] = 0 /\ e[i] = 0
  <2>1. PICK v \in NativeDigit : v = d[i]
    OBVIOUS
  <2>2. PICK x \in Nat, y \in Nat :
           /\ v \div r = x /\ v % r = y /\ v = r * x + y /\ x < p /\ y < r
           /\ (v * p) \div Base = x /\ (v * p) % Base = p * y /\ p * y \in Nat /\ p * y + p <= Base
    BY ShiftedDigit DEF IsFactor
  <2>3. q[i] = x /\ e[i] = y
    BY <2>1, <2>2
  <2>4. v = 0 => x = 0 /\ y = 0
    <3>. SUFFICES ASSUME v = 0 PROVE x = 0 /\ y = 0
      OBVIOUS
    <3>1. 0 = r * 0 + 0
      OBVIOUS
    <3>2. v \div r = 0 /\ v % r = 0
      BY <3>1, DivisionIsUnique DEF IsFactor
    <3>. QED
      BY <2>2, <3>2
  <2>. HIDE DEF q, e
  <2>. QED
    BY <2>1, <2>2, <2>3, <2>4
<1>2. q \in [Nat -> Nat] /\ e \in [Nat -> Nat]
  BY <1>1
<1>. HIDE DEF q, e
<1>3. ShiftPieces(d, p, r, q, e)
  BY <1>1 DEF ShiftPieces
<1>. QED
  BY <1>2, <1>3

\* The digits d times p, without carrying
IsScaled(f, d, p) == \A i \in Nat : f[i] = p * d[i]

\* They write p times the number
LEMMA Scaled ==
  ASSUME NEW d \in [Nat -> Int], NEW p \in Int, NEW n \in Nat, NEW f \in [Nat -> Int],
         IsScaled(f, d, p)
  PROVE  Upto(f, Base, n) = p * Upto(d, Base, n)
<1>1. Base \in Int
  BY BaseIsPositive
<1>2. PICK z \in Int : z = 0
  OBVIOUS
<1>3. Combines(f, d, d, p, z, n)
  <2>. SUFFICES ASSUME NEW i \in 0 .. n - 1 PROVE f[i] = p * d[i] + z * d[i]
    BY DEF Combines
  <2>1. i \in Nat
    OBVIOUS
  <2>2. PICK v \in Int : v = d[i]
    BY <2>1
  <2>3. z * v = 0 /\ p * v \in Int
    BY <1>2, Distributes
  <2>4. f[i] = p * v
    BY <2>1, <2>2 DEF IsScaled
  <2>5. PICK w \in Int : w = p * v
    BY <2>3
  <2>6. w + 0 = w
    OBVIOUS
  <2>. QED
    BY <2>2, <2>3, <2>4, <2>5, <2>6
<1>4. Upto(f, Base, n) = p * Upto(d, Base, n) + z * Upto(d, Base, n)
  BY <1>1, <1>3, Linear
<1>5. PICK u \in Int : u = Upto(d, Base, n)
  BY <1>1, UptoFacts
<1>6. PICK w \in Int : w = p * u
  BY Distributes
<1>7. z * u = 0
  BY <1>2
<1>8. w + 0 = w
  OBVIOUS
<1>. QED
  BY <1>4, <1>5, <1>6, <1>7, <1>8

\* The columns f are the columns c once the carries k are taken out of them.
AreCarried(f, c, k, n) == \A i \in 0 .. n - 1 : f[i] = c[i] + Base * k[i + 1] - k[i]
\* What Carrying says of them
CountsCarried(f, c, k, n) == Upto(f, Base, n) = Upto(c, Base, n) + k[n] * PowerOf(Base, n) - k[0]

\* Carrying in base Base
LEMMA Carried ==
  ASSUME NEW f \in [Nat -> Int], NEW c \in [Nat -> Int], NEW k \in [Nat -> Int], NEW n \in Nat,
         AreCarried(f, c, k, n)
  PROVE  CountsCarried(f, c, k, n)
<1>1. Base \in Int
  BY BaseIsPositive
<1>2. \A i \in 0 .. n - 1 : f[i] = c[i] + Base * k[i + 1] - k[i]
  BY DEF AreCarried
<1>3. Upto(f, Base, n) = Upto(c, Base, n) + k[n] * PowerOf(Base, n) - k[0]
  BY <1>1, <1>2, Carrying
<1>. QED
  BY <1>3 DEF CountsCarried

\* multiplyByPowerOf2 multiplies (integer.cpp:797-811)
LEMMA MultiplyByPowerOf2Facts ==
  ASSUME NEW x \in Number, NEW pow \in Nat, NEW p \in Nat, p = PowerOf(2, pow),
         NEW r \in Nat, IsFactor(p, r)
  PROVE  LET y == MultiplyByPowerOf2(x, pow)
         IN  /\ y \in Number /\ y.sign = 1 /\ Magnitude(y) = p * Magnitude(x)
             /\ Len(y.digits) <= Len(x.digits) + 1
<1>. DEFINE d == Of(x.digits)
            l == Len(x.digits)
            s == [i \in 1 .. l + 1 |->
                   ((Digit(x, i - 1) * p) % Base)
                     + (IF i = 1 THEN 0 ELSE (Digit(x, i - 2) * p) \div Base)]
<1>l. l \in Nat
  BY NumberFacts
<1>b. Base \in Nat /\ Base \in Int /\ Base >= 1
  BY BaseIsPositive
<1>n. NativeDigit = 0 .. Base - 1
  BY DEF NativeDigit
<1>m. Magnitude(x) \in Nat
  BY NumberFacts
<1>p. p >= 1
  BY DEF IsFactor
<1>1. x.digits \in Seq(NativeDigit)
  BY NumberFacts
<1>2. d \in [Nat -> NativeDigit] /\ d \in [Nat -> Int] /\ \A i \in Nat : i >= l => d[i] = 0
  BY <1>1, <1>l, <1>b, <1>m, DigitsAreNative
<1>3. \A i \in Nat : Digit(x, i) = d[i]
  BY DEF Digit, Of
<1>4. \A n \in Nat : n >= l => Upto(d, Base, n) = Magnitude(x)
  BY <1>1, TotalFacts DEF Magnitude
<1>5. MultiplyByPowerOf2(x, pow) = Handler(1, Sanitize(s))
  BY DEF MultiplyByPowerOf2
<1>. HIDE DEF d, l
<1>6. PICK q \in [Nat -> Nat], e \in [Nat -> Nat] : ShiftPieces(d, p, r, q, e)
  BY <1>2, Pieces
<1>. DEFINE K == [i \in Nat |-> IF i = 0 THEN 0 ELSE q[i - 1]]
            pe == [i \in Nat |-> p * e[i]]
            c == [i \in Nat |-> pe[i] + K[i]]
            f == [i \in Nat |-> p * d[i]]
<1>7. ASSUME NEW i \in Nat
      PROVE  /\ K[i] \in Nat /\ K[i] < p /\ K[i + 1] = q[i] /\ pe[i] \in Nat /\ pe[i] + p <= Base
             /\ pe[i] = (d[i] * p) % Base /\ q[i] = (d[i] * p) \div Base
  <2>1. q[i] \in Nat /\ q[i] < p /\ i + 1 \in Nat /\ i + 1 # 0 /\ (i + 1) - 1 = i
    BY <1>6 DEF ShiftPieces
  <2>2. K[i] \in Nat /\ K[i] < p
    <3>1. CASE i = 0
      BY <1>p, <3>1
    <3>2. CASE i # 0
      <4>1. i - 1 \in Nat
        BY <3>2
      <4>2. q[i - 1] \in Nat /\ q[i - 1] < p
        BY <1>6, <4>1 DEF ShiftPieces
      <4>. QED
        BY <3>2, <4>2
    <3>. QED
      BY <3>1, <3>2
  <2>3. K[i + 1] = q[i]
    BY <2>1
  <2>4. pe[i] = p * e[i]
    OBVIOUS
  <2>5. p * e[i] \in Nat /\ p * e[i] + p <= Base /\ (d[i] * p) % Base = p * e[i] /\ (d[i] * p) \div Base = q[i]
    BY <1>6 DEF ShiftPieces
  <2>. QED
    BY <2>2, <2>3, <2>4, <2>5
<1>8. ASSUME NEW i \in Nat PROVE f[i] \in Int /\ f[i] = pe[i] + Base * q[i]
  <2>1. PICK v \in Int : v = d[i]
    BY <1>2
  <2>2. PICK a \in Nat, b \in Nat : a = q[i] /\ b = e[i]
    OBVIOUS
  <2>3. v = r * a + b
    BY <1>6, <2>1, <2>2 DEF ShiftPieces
  <2>4. PICK ra \in Nat : ra = r * a
    BY ProductIsNat
  <2>5. p * (ra + b) = p * ra + p * b
    BY Distributes
  <2>6. p * ra = Base * a
    <3>1. p * (r * a) = (p * r) * a
      BY ProductsAssociate
    <3>2. Base = p * r
      BY DEF IsFactor
    <3>. QED
      BY <2>4, <3>1, <3>2
  <2>7. p * v = Base * a + p * b /\ Base * a \in Nat /\ p * b \in Nat
    BY <1>1, <1>l, <1>b, <1>m, <2>3, <2>4, <2>5, <2>6, ProductIsNat
  <2>8. f[i] = p * v /\ pe[i] = p * b
    BY <2>1, <2>2
  <2>. HIDE DEF f, pe
  <2>9. f[i] = pe[i] + Base * a
    BY <2>7, <2>8
  <2>. QED
    BY <2>2, <2>7, <2>8, <2>9
<1>. HIDE DEF K, pe, f
<1>9. ASSUME NEW i \in Nat PROVE c[i] \in NativeDigit /\ f[i] = c[i] + Base * K[i + 1] - K[i]
  <2>1. PICK k \in Nat, v \in Nat : k = K[i] /\ v = pe[i] /\ k < p /\ v + p <= Base
    BY <1>7
  <2>2. c[i] = v + k
    BY <2>1
  <2>. HIDE DEF c
  <2>3. c[i] \in NativeDigit
    <3>1. v + k \in 0 .. Base - 1
      BY <1>b, <2>1
    <3>. QED
      BY <1>n, <2>2, <3>1
  <2>4. PICK w \in Nat : w = Base * K[i + 1] /\ f[i] = v + w
    <3>1. Base * q[i] \in Nat
      BY <1>1, <1>l, <1>b, <1>m, ProductIsNat
    <3>. QED
      BY <1>7, <1>8, <2>1, <3>1
  <2>5. f[i] = c[i] + w - k
    BY <2>1, <2>2, <2>4
  <2>. QED
    BY <2>1, <2>3, <2>4, <2>5
<1>10. c \in [Nat -> NativeDigit] /\ c \in [Nat -> Int] /\ f \in [Nat -> Int] /\ K \in [Nat -> Int]
  <2>1. f = [i \in Nat |-> f[i]] /\ K = [i \in Nat |-> K[i]]
    BY DEF f, K
  <2>2. NativeDigit \subseteq Int
    BY <1>l, <1>b, <1>n
  <2>. HIDE DEF c
  <2>3. c = [i \in Nat |-> c[i]]
    BY DEF c
  <2>4. c \in [Nat -> NativeDigit]
    BY <1>9, <2>3
  <2>5. f \in [Nat -> Int]
    BY <1>8, <2>1
  <2>6. K \in [Nat -> Int]
    <3>1. \A i \in Nat : K[i] \in Int
      BY <1>7
    <3>. QED
      BY <2>1, <3>1
  <2>7. c \in [Nat -> Int]
    BY <2>2, <2>4
  <2>. QED
    BY <2>4, <2>5, <2>6, <2>7
<1>11. s = [i \in 1 .. l + 1 |-> c[i - 1]]
  <2>1. ASSUME NEW i \in 1 .. l + 1
        PROVE  ((Digit(x, i - 1) * p) % Base)
                     + (IF i = 1 THEN 0 ELSE (Digit(x, i - 2) * p) \div Base) = c[i - 1]
    <3>1. PICK j \in Nat : j = i - 1
      OBVIOUS
    <3>2. c[j] = ((d[j] * p) % Base) + K[j]
      BY <1>7
    <3>3. K[j] = IF i = 1 THEN 0 ELSE (Digit(x, i - 2) * p) \div Base
      <4>1. CASE i = 1
        BY <3>1, <4>1 DEF K
      <4>2. CASE i # 1
        <5>1. j # 0 /\ j - 1 \in Nat /\ j - 1 = i - 2
          BY <3>1, <4>2
        <5>2. K[j] = q[j - 1]
          BY <5>1 DEF K
        <5>. QED
          BY <1>3, <1>7, <4>2, <5>1, <5>2, SMTT(30)
      <4>. QED
        BY <4>1, <4>2
    <3>. QED
      BY <1>3, <3>1, <3>2, <3>3
  <2>. QED
    BY <2>1
<1>. HIDE DEF c, s
<1>12. s \in Seq(NativeDigit) /\ Len(s) = l + 1
  <2>1. \A i \in 1 .. l + 1 : i - 1 \in Nat
    OBVIOUS
  <2>2. s \in [1 .. l + 1 -> NativeDigit]
    BY <1>10, <1>11, <2>1
  <2>3. PICK n \in Nat : n = l + 1
    BY <1>l
  <2>4. s \in [1 .. n -> NativeDigit]
    BY <2>2, <2>3
  <2>5. s \in Seq(NativeDigit) /\ Len(s) = n
    BY <2>4
  <2>. QED
    BY <2>3, <2>5
<1>13. Total(s) = Upto(c, Base, l + 1)
  <2>1. Of(s) \in [Nat -> Int]
    BY <1>12, DigitsAreNative
  <2>2. ASSUME NEW i \in 0 .. (l + 1) - 1 PROVE Of(s)[i] = c[i]
    <3>1. i \in Nat /\ i < Len(s) /\ i + 1 \in 1 .. l + 1 /\ (i + 1) - 1 = i
      BY <1>1, <1>l, <1>b, <1>m, <1>12
    <3>2. Of(s)[i] = s[i + 1]
      BY <3>1 DEF Of
    <3>. QED
      BY <1>11, <3>1, <3>2
  <2>3. l + 1 \in Nat
    BY <1>l, <1>b, <1>n
  <2>4. Upto(Of(s), Base, l + 1) = Upto(c, Base, l + 1)
    BY <1>1, <1>l, <1>b, <1>m, <1>10, <2>1, <2>2, <2>3, SameDigits
  <2>. QED
    BY <1>12, <2>4 DEF Total
<1>14. Upto(c, Base, l + 1) = p * Magnitude(x)
  <2>1. PICK n \in Nat : n = l + 1
    BY <1>l, <1>b, <1>n
  <2>1a. \A i \in 0 .. n - 1 : f[i] = c[i] + Base * K[i + 1] - K[i]
    BY <1>9
  <2>1b. AreCarried(f, c, K, n)
    BY <2>1a DEF AreCarried
  <2>2. Upto(f, Base, n) = Upto(c, Base, n) + K[n] * PowerOf(Base, n) - K[0]
    BY <2>1, <2>1b, <1>10, Carried, SMTT(30) DEF CountsCarried
  <2>3. K[0] = 0
    BY DEF K
  <2>4. K[n] = 0
    <3>1. d[l] = 0
      BY <1>1, <1>l, <1>b, <1>m, <1>2
    <3>2. q[l] = 0
      BY <1>1, <1>l, <1>b, <1>m, <1>6, <3>1 DEF ShiftPieces
    <3>. QED
      BY <1>1, <1>l, <1>b, <1>m, <1>7, <2>1, <3>2
  <2>5a. c \in [Nat -> 0 .. Base - 1]
    BY <1>n, <1>10
  <2>5. PICK u \in Nat : u = Upto(c, Base, n)
    BY <1>b, <2>1, <1>10, <2>5a, UptoBounded
  <2>6. Upto(f, Base, n) = p * Magnitude(x)
    <3>0. IsScaled(f, d, p)
      BY DEF f, IsScaled
    <3>1. Upto(f, Base, n) = p * Upto(d, Base, n)
      BY <1>2, <1>10, <3>0, Scaled
    <3>2. Upto(d, Base, n) = Magnitude(x)
      BY <1>1, <1>l, <1>b, <1>m, <1>4, <2>1
    <3>. QED
      BY <3>1, <3>2
  <2>7. K[n] * PowerOf(Base, n) = 0
    BY <2>4, BasePowers
  <2>8. PICK w \in Nat : w = p * Magnitude(x)
    BY <1>1, <1>l, <1>b, <1>m, ProductIsNat
  <2>9. w = u + 0 - 0
    BY <2>2, <2>3, <2>5, <2>6, <2>7, <2>8
  <2>. QED
    BY <2>1, <2>5, <2>8, <2>9
<1>15. PICK y : y = Handler(1, Sanitize(s))
  OBVIOUS
<1>16. y \in Number /\ Magnitude(y) = Total(s) /\ Len(y.digits) <= Len(s) /\ y.sign = 1
  BY <1>12, <1>15, HandlerFacts
<1>. QED
  BY <1>5, <1>12, <1>13, <1>14, <1>15, <1>16 DEF l

\* divideByPowerOf2 divides, and forgets the remainder (integer.cpp:813-826)
LEMMA DivideByPowerOf2Facts ==
  ASSUME NEW x \in Number, NEW pow \in Nat, NEW p \in Nat, p = PowerOf(2, pow),
         NEW r \in Nat, IsFactor(p, r)
  PROVE  LET y == DivideByPowerOf2(x, pow)
         IN  y \in Number /\ y.sign = 1 /\ Magnitude(y) = Magnitude(x) \div p
<1>. DEFINE d == Of(x.digits)
            l == Len(x.digits)
            s == [i \in DOMAIN x.digits |->
                   (x.digits[i] \div p) + ((Digit(x, i) * (Base \div p)) % Base)]
<1>l. l \in Nat
  BY NumberFacts
<1>b. Base \in Nat /\ Base \in Int /\ Base >= 1
  BY BaseIsPositive
<1>n. NativeDigit = 0 .. Base - 1
  BY DEF NativeDigit
<1>m. Magnitude(x) \in Nat
  BY NumberFacts
<1>p. p >= 1
  BY DEF IsFactor
<1>1. x.digits \in Seq(NativeDigit)
  BY NumberFacts
<1>1a. DOMAIN x.digits = 1 .. l
  BY <1>l, <1>b, <1>n
<1>1b. Magnitude(x) = Upto(d, Base, l)
  BY DEF Magnitude, Total
<1>2. d \in [Nat -> NativeDigit] /\ d \in [Nat -> Int] /\ \A i \in Nat : i >= l => d[i] = 0
  BY <1>1, <1>l, <1>b, DigitsAreNative
<1>3. \A i \in Nat : Digit(x, i) = d[i]
  BY DEF Digit, Of
<1>4. \A i \in 1 .. l : x.digits[i] = d[i - 1] /\ i - 1 \in Nat
  <2>. SUFFICES ASSUME NEW i \in 1 .. l PROVE x.digits[i] = d[i - 1] /\ i - 1 \in Nat
    OBVIOUS
  <2>1. i - 1 \in Nat /\ i - 1 < l /\ (i - 1) + 1 = i
    BY <1>l, <1>b, <1>n
  <2>. QED
    BY <2>1 DEF Of
<1>5. DivideByPowerOf2(x, pow) = Handler(1, Sanitize(s))
  BY DEF DivideByPowerOf2
<1>6. Base \div p = r
  <2>1. Base = p * r /\ p >= 1
    BY DEF IsFactor
  <2>2. Base = p * r + 0
    BY <1>1, <1>l, <1>b, <2>1
  <2>. QED
    BY <1>1, <1>l, <1>b, <2>1, <2>2, DivisionIsUnique
<1>. HIDE DEF d, l
<1>7. PICK q \in [Nat -> Nat], e \in [Nat -> Nat] : ShiftPieces(d, r, p, q, e)
  <2>1. r * p = p * r
    BY Distributes
  <2>2. IsFactor(r, p)
    BY <2>1 DEF IsFactor
  <2>. QED
    BY <1>2, <2>2, Pieces
<1>. DEFINE re == [i \in Nat |-> r * e[i]]
            c == [i \in Nat |-> q[i] + re[i + 1]]
            f == [i \in Nat |-> p * c[i]]
<1>8. ASSUME NEW i \in Nat
      PROVE  /\ q[i] < r /\ e[i] < p /\ re[i] \in Nat /\ re[i] + r <= Base /\ d[i] = p * q[i] + e[i]
             /\ re[i] = (d[i] * r) % Base /\ q[i] = d[i] \div p /\ re[i] = r * e[i]
  <2>1. re[i] = r * e[i]
    OBVIOUS
  <2>. HIDE DEF re
  <2>. QED
    BY <1>7, <2>1 DEF ShiftPieces
<1>. HIDE DEF re
<1>9. ASSUME NEW i \in Nat
      PROVE  c[i] \in NativeDigit /\ f[i] \in Int /\ f[i] = d[i] + Base * e[i + 1] - e[i]
  <2>0. i + 1 \in Nat
    OBVIOUS
  <2>1. PICK a \in Nat, v \in Nat, b \in Nat, g \in Nat :
          a = q[i] /\ v = re[i + 1] /\ a < r /\ v + r <= Base /\ b = e[i] /\ g = e[i + 1] /\ v = r * g
    BY <1>8, <2>0, ZenonT(60)
  <2>2. c[i] = a + v /\ f[i] = p * c[i]
    BY <2>1
  <2>. HIDE DEF c, f
  <2>3. c[i] \in NativeDigit
    <3>1. a + v \in 0 .. Base - 1
      BY <1>b, <2>1
    <3>. QED
      BY <1>n, <2>2, <3>1
  <2>4. d[i] = p * a + b
    BY <1>8, <2>1
  <2>5. PICK pa \in Nat, pv \in Nat : pa = p * a /\ pv = p * v
    BY ProductIsNat
  <2>6. pv = Base * g
    <3>1. p * (r * g) = (p * r) * g
      BY ProductsAssociate
    <3>2. Base = p * r
      BY DEF IsFactor
    <3>. QED
      BY <2>1, <2>5, <3>1, <3>2
  <2>7. p * (a + v) = pa + pv
    BY <2>5, Distributes
  <2>8. f[i] = pa + pv
    BY <2>2, <2>7
  <2>9. d[i] = pa + b
    BY <2>4, <2>5
  <2>10. f[i] = d[i] + pv - b
    BY <2>8, <2>9
  <2>11. f[i] \in Int
    BY <2>8
  <2>. QED
    BY <2>1, <2>3, <2>6, <2>10, <2>11
<1>10. c \in [Nat -> NativeDigit] /\ c \in [Nat -> Int] /\ f \in [Nat -> Int] /\ e \in [Nat -> Int]
  <2>1. NativeDigit \subseteq Int
    BY <1>l, <1>b, <1>n
  <2>2. c = [i \in Nat |-> c[i]] /\ f = [i \in Nat |-> f[i]]
    OBVIOUS
  <2>. HIDE DEF c, f
  <2>3. c \in [Nat -> NativeDigit]
    BY <1>9, <2>2
  <2>4. f \in [Nat -> Int]
    BY <1>9, <2>2
  <2>5. c \in [Nat -> Int]
    BY <2>1, <2>3
  <2>6. e \in [Nat -> Int]
    OBVIOUS
  <2>. QED
    BY <2>3, <2>4, <2>5, <2>6
<1>10a. IsScaled(f, c, p)
  BY DEF IsScaled
<1>11. s = [i \in 1 .. l |-> c[i - 1]]
  <2>1. ASSUME NEW i \in 1 .. l
        PROVE  (x.digits[i] \div p) + ((Digit(x, i) * (Base \div p)) % Base) = c[i - 1]
    <3>1. PICK j \in Nat : j = i - 1 /\ j + 1 = i /\ i \in Nat
      BY <1>l, <1>b, <1>n
    <3>2. c[j] = q[j] + re[j + 1]
      OBVIOUS
    <3>3. q[j] = x.digits[i] \div p
      BY <1>4, <1>8, <3>1
    <3>4. re[j + 1] = (Digit(x, i) * r) % Base
      BY <1>3, <1>8, <3>1
    <3>. QED
      BY <1>6, <3>1, <3>2, <3>3, <3>4
  <2>. QED
    BY <1>1a, <2>1
<1>. HIDE DEF c, s, f
<1>12. s \in Seq(NativeDigit) /\ Len(s) = l
  <2>1. s \in [1 .. l -> NativeDigit]
    BY <1>4, <1>10, <1>11
  <2>. QED
    BY <1>l, <2>1
<1>13. Total(s) = Upto(c, Base, l)
  <2>1. Of(s) \in [Nat -> Int]
    BY <1>12, DigitsAreNative
  <2>2. ASSUME NEW i \in 0 .. l - 1 PROVE Of(s)[i] = c[i]
    <3>1. i \in Nat /\ i < Len(s) /\ i + 1 \in 1 .. l /\ (i + 1) - 1 = i
      BY <1>1, <1>l, <1>b, <1>12
    <3>2. Of(s)[i] = s[i + 1]
      BY <3>1 DEF Of
    <3>. QED
      BY <1>11, <3>1, <3>2
  <2>3. Upto(Of(s), Base, l) = Upto(c, Base, l)
    BY <1>1, <1>l, <1>b, <1>10, <2>1, <2>2, SameDigits
  <2>. QED
    BY <1>12, <2>3 DEF Total
<1>14. Upto(c, Base, l) = Magnitude(x) \div p
  <2>0. \A i \in 0 .. l - 1 : f[i] = d[i] + Base * e[i + 1] - e[i]
    BY <1>9
  <2>0a. AreCarried(f, d, e, l)
    BY <2>0 DEF AreCarried
  <2>1. Upto(f, Base, l) = Upto(d, Base, l) + e[l] * PowerOf(Base, l) - e[0]
    BY <1>l, <1>2, <1>10, <2>0a, Carried, SMTT(30) DEF CountsCarried
  <2>2. e[l] = 0
    <3>1. d[l] = 0
      BY <1>1, <1>l, <1>b, <1>2
    <3>. QED
      BY <1>1, <1>l, <1>b, <1>7, <3>1 DEF ShiftPieces
  <2>3. e[l] * PowerOf(Base, l) = 0
    BY <1>l, <2>2, BasePowers
  <2>4. PICK v \in Nat : v = e[0] /\ v < p
    BY <1>8
  <2>5a. c \in [Nat -> 0 .. Base - 1]
    BY <1>n, <1>10
  <2>5. PICK u \in Nat : u = Upto(c, Base, l)
    BY <1>b, <1>l, <1>10, <2>5a, UptoBounded
  <2>6. Upto(f, Base, l) = p * u
    <3>1. Upto(f, Base, l) = p * Upto(c, Base, l)
      BY <1>l, <1>10, <1>10a, Scaled
    <3>. QED
      BY <2>5, <3>1
  <2>7. PICK w \in Nat : w = p * u
    BY ProductIsNat
  <2>7a. PICK g \in Nat : g = Magnitude(x)
    BY <1>m
  <2>8. g = w + v
    <3>1. w = g + 0 - v
      BY <1>1b, <2>1, <2>3, <2>4, <2>6, <2>7, <2>7a
    <3>. QED
      BY <3>1
  <2>9. Magnitude(x) \div p = u
    <3>1. g = p * u + v
      BY <2>7, <2>8
    <3>1a. v \in Int /\ 0 <= v /\ v < p /\ u \in Int /\ g \in Int
      BY <2>4
    <3>2. g \div p = u
      BY <3>1, <3>1a, DivisionIsUnique
    <3>. QED
      BY <2>7a, <3>2
  <2>. QED
    BY <2>5, <2>9
<1>15. PICK y : y = Handler(1, Sanitize(s))
  OBVIOUS
<1>16. y \in Number /\ Magnitude(y) = Total(s) /\ y.sign = 1
  BY <1>12, <1>15, HandlerFacts
<1>. QED
  BY <1>5, <1>13, <1>14, <1>15, <1>16

-----------------------------------------------------------------------------
(* One digit of a quotient *)

\* The two highest half digits decide.
LEMMA TopHalves ==
  ASSUME NEW x \in Number, NEW k \in Nat, Magnitude(x) < PowerOf(HalfBase, k + 1 + 1)
  PROVE  Magnitude(x) < (HalfDigit(x, k + 1) * HalfBase + HalfDigit(x, k) + 1) * PowerOf(HalfBase, k)
<1>. DEFINE h == HalvesOf(x)
<1>1. h \in [Nat -> 0 .. HalfBase - 1] /\ h \in [Nat -> Int] /\ h \in [Nat -> Nat]
  BY HalvesAreHalves
<1>2. h[k] = HalfDigit(x, k) /\ h[k + 1] = HalfDigit(x, k + 1)
  BY DEF HalvesOf
<1>3. HalfBase \in Int /\ HalfBase \in Nat /\ HalfBase >= 1
  BY HalfBaseFacts
<1>4. NumberOfHalfDigits(x) \in Nat /\ Magnitude(x) \in Nat
  BY HalvesAreHalves, NumberFacts
<1>5. Upto(h, HalfBase, k + 1 + 1) = Magnitude(x)
  <2>1. CASE NumberOfHalfDigits(x) <= k + 1 + 1
    BY <1>4, <2>1, HalfMagnitude
  <2>2. CASE ~ (NumberOfHalfDigits(x) <= k + 1 + 1)
    <3>1. PICK m \in Nat : m = NumberOfHalfDigits(x) - 1 /\ k + 1 + 1 <= m
      <4>1. NumberOfHalfDigits(x) - 1 \in Nat /\ k + 1 + 1 <= NumberOfHalfDigits(x) - 1
        BY <1>4, <2>2
      <4>. QED
        BY <4>1
    <3>2. x.digits # <<>>
      BY <2>2, HalvesAreHalves
    <3>3. Magnitude(x) >= PowerOf(HalfBase, m)
      BY <3>1, <3>2, HalfMagnitude
    <3>4. PowerOf(HalfBase, k + 1 + 1) <= PowerOf(HalfBase, m)
      BY <3>1, HalfPowersGrow
    <3>5. PowerOf(HalfBase, m) \in Nat /\ PowerOf(HalfBase, k + 1 + 1) \in Nat
      BY HalfPowers
    <3>. QED
      BY <1>4, <3>3, <3>4, <3>5
  <2>. QED
    BY <2>1, <2>2
<1>. HIDE DEF h
<1>6. PICK p \in Nat, b \in Nat, u \in Nat, y \in Nat, z \in Nat :
        p = PowerOf(HalfBase, k) /\ b = HalfBase /\ u = Upto(h, HalfBase, k) /\ y = h[k] /\ z = h[k + 1]
        /\ u < p
  <2>1. Upto(h, HalfBase, k) \in Nat /\ Upto(h, HalfBase, k) < PowerOf(HalfBase, k)
    BY <1>1, <1>3, UptoBounded
  <2>2. PowerOf(HalfBase, k) \in Nat
    BY HalfPowers
  <2>3. h[k] \in Nat /\ h[k + 1] \in Nat
    <3>1. k + 1 \in Nat
      OBVIOUS
    <3>. QED
      BY <1>1, <3>1
  <2>. QED
    BY <1>3, <2>1, <2>2, <2>3
<1>7. Upto(h, HalfBase, k + 1) = u + y * p
  BY <1>1, <1>3, <1>6, UptoNext
<1>8. Upto(h, HalfBase, k + 1 + 1) = u + y * p + z * (b * p)
  <2>1. PowerOf(HalfBase, k + 1) = b * p
    BY <1>6, HalfPowers
  <2>2. Upto(h, HalfBase, k + 1 + 1) = Upto(h, HalfBase, k + 1) + h[k + 1] * PowerOf(HalfBase, k + 1)
    BY <1>1, <1>3, UptoNext
  <2>. QED
    BY <1>6, <1>7, <2>1, <2>2
<1>9. PICK zb \in Nat, zbp \in Nat, yp \in Nat :
        zb = z * b /\ zbp = zb * p /\ yp = y * p /\ z * (b * p) = zbp
  <2>1. PICK zb \in Nat : zb = z * b
    BY ProductIsNat
  <2>2. z * (b * p) = (z * b) * p
    BY ProductsAssociate
  <2>3. zb * p \in Nat /\ y * p \in Nat
    BY ProductIsNat
  <2>. QED
    BY <2>1, <2>2, <2>3
<1>10. (zb + y + 1) * p = zbp + yp + p
  <2>1. (zb + y) * p = zb * p + y * p
    BY Distributes
  <2>2. PICK w \in Nat : w = zb + y
    OBVIOUS
  <2>3. (w + 1) * p = w * p + 1 * p
    BY Distributes
  <2>. QED
    BY <1>9, <2>1, <2>2, <2>3
<1>11. Magnitude(x) = u + yp + zbp
  BY <1>5, <1>8, <1>9
<1>12. Magnitude(x) < (zb + y + 1) * p
  BY <1>6, <1>10, <1>11
<1>. QED
  BY <1>2, <1>6, <1>9, <1>12

\* The digit that is tried is not less than the digit of the quotient
LEMMA QuotientDigitFacts ==
  ASSUME NEW A \in Number, NEW B \in Number, B.digits # <<>>, NEW n \in Nat, n = NumberOfHalfDigits(B),
         NEW j \in Nat, NEW D \in Nat, D = Magnitude(B) * PowerOf(HalfBase, j),
         NEW t \in Nat, t * D <= Magnitude(A), Magnitude(A) < HalfBase * D
  PROVE  /\ QuotientDigit(A, B, n, j) \in Nat /\ t <= QuotientDigit(A, B, n, j)
         /\ QuotientDigit(A, B, n, j) < HalfBase
<1>1. HalfBase \in Nat /\ HalfBase >= 2 /\ HalfBase \in Int
  BY HalfBaseFacts
<1>2. HalvesOf(B)[n - 1] # 0 /\ HalvesOf(B) \in [Nat -> Nat]
  BY HalvesAreHalves
<1>2a. n >= 1
  BY HalvesAreHalves
<1>3. PICK l \in Nat : n = l + 1 /\ l = n - 1
  <2>1. n - 1 \in Nat /\ n = (n - 1) + 1
    BY <1>2a
  <2>. QED
    BY <2>1
<1>4. PICK top \in Nat : top = HalfDigit(B, n - 1) /\ top >= 1 /\ top = HalvesOf(B)[l]
  <2>1. HalvesOf(B)[l] = HalfDigit(B, l) /\ HalvesOf(B)[l] \in Nat /\ HalvesOf(B)[l] # 0
    BY <1>2, <1>3 DEF HalvesOf
  <2>. QED
    BY <1>3, <2>1
<1>5. PICK a \in Nat, b \in Nat, hb \in Nat, pj \in Nat, pl \in Nat :
        a = Magnitude(A) /\ b = Magnitude(B) /\ hb = HalfBase
        /\ pj = PowerOf(HalfBase, j) /\ pl = PowerOf(HalfBase, l)
  BY <1>1, HalfPowers, NumberFacts
<1>6. b >= top * pl /\ b < hb * pl
  <2>1. b >= top * pl
    BY <1>3, <1>4, <1>5, HalfMagnitude
  <2>2. b < PowerOf(HalfBase, n)
    BY <1>5, HalfMagnitude
  <2>3. PowerOf(HalfBase, n) = hb * pl
    BY <1>3, <1>5, HalfPowers
  <2>. QED
    BY <2>1, <2>2, <2>3
<1>7. PICK k \in Nat : k = l + j /\ n + j = k + 1 /\ n + j - 1 = k
  BY <1>3
<1>8. PICK pk \in Nat : pk = PowerOf(HalfBase, k) /\ pk = pl * pj /\ pk >= 1
  <2>1. PowerOf(HalfBase, l + j) = PowerOf(HalfBase, l) * PowerOf(HalfBase, j)
    BY <1>1, PowersMultiply
  <2>. QED
    BY <1>5, <1>7, <2>1, HalfPowers
<1>9. (D >= top * pk /\ D < hb * pk) \/ D = 0
  <2>1. (top * pl) * pj <= b * pj
    <3>1. top * pl \in Nat
      BY ProductIsNat
    <3>. QED
      BY <1>6, <3>1, ProductGrows
  <2>2. top * (pl * pj) = (top * pl) * pj
    BY ProductsAssociate
  <2>3. D = b * pj
    BY <1>5
  <2>4. b * pj < (hb * pl) * pj
    <3>1. PICK w \in Nat : w = hb * pl
      BY ProductIsNat
    <3>2. b + 1 <= w
      BY <1>6, <3>1
    <3>3. (b + 1) * pj <= w * pj
      BY <3>2, ProductGrows
    <3>4. (b + 1) * pj = b * pj + pj
      BY Distributes
    <3>5. pj >= 1
      BY <1>5, HalfPowers
    <3>6. b * pj \in Nat /\ w * pj \in Nat
      BY ProductIsNat
    <3>. QED
      BY <3>1, <3>3, <3>4, <3>5, <3>6
  <2>5. hb * (pl * pj) = (hb * pl) * pj
    BY ProductsAssociate
  <2>. QED
    BY <1>8, <2>1, <2>2, <2>3, <2>4, <2>5
<1>10. D >= 1
  <2>1. b >= 1
    <3>1. b # 0
      BY <1>5, NumberFacts
    <3>. QED
      BY <3>1
  <2>2. 1 * pj <= b * pj
    BY <2>1, ProductGrows
  <2>3. pj >= 1 /\ D = b * pj
    BY <1>5, HalfPowers
  <2>. QED
    BY <2>2, <2>3
<1>11. D >= top * pk /\ D < hb * pk
  BY <1>9, <1>10
<1>12. a < PowerOf(HalfBase, k + 1 + 1)
  <2>0. k + 1 \in Nat
    OBVIOUS
  <2>0a. PowerOf(HalfBase, k + 1) = hb * pk
    BY <1>5, <1>8, HalfPowers
  <2>0b. PowerOf(HalfBase, k + 1 + 1) = hb * PowerOf(HalfBase, k + 1)
    BY <1>5, <2>0, HalfPowers
  <2>1. PowerOf(HalfBase, k + 1 + 1) = hb * (hb * pk)
    BY <2>0a, <2>0b
  <2>2. PICK w \in Nat : w = hb * pk
    BY ProductIsNat
  <2>3. D <= w
    BY <1>11, <2>2
  <2>4. hb * D <= hb * w /\ hb * D \in Nat /\ hb * w \in Nat
    BY <2>3, ProductGrows, ProductIsNat
  <2>5. PowerOf(HalfBase, k + 1 + 1) = hb * w
    BY <2>1, <2>2
  <2>6. a < hb * D
    BY <1>5
  <2>. QED
    BY <2>4, <2>5, <2>6
<1>13. PICK x1 \in Nat, x0 \in Nat : x1 = HalfDigit(A, k + 1) /\ x0 = HalfDigit(A, k)
  <2>1. HalvesOf(A) \in [Nat -> Nat]
    BY HalvesAreHalves
  <2>2. HalvesOf(A)[k + 1] \in Nat /\ HalvesOf(A)[k] \in Nat
    <3>1. k + 1 \in Nat
      OBVIOUS
    <3>. QED
      BY <2>1, <3>1
  <2>3. HalvesOf(A)[k + 1] = HalfDigit(A, k + 1) /\ HalvesOf(A)[k] = HalfDigit(A, k)
    BY DEF HalvesOf
  <2>. QED
    BY <2>2, <2>3
<1>14. PICK w \in Nat : w = x1 * hb + x0
  <2>1. x1 * hb \in Nat
    BY ProductIsNat
  <2>. QED
    BY <2>1
<1>15. a < (w + 1) * pk
  <2>1. Magnitude(A) < (HalfDigit(A, k + 1) * HalfBase + HalfDigit(A, k) + 1) * PowerOf(HalfBase, k)
    BY <1>5, <1>12, TopHalves
  <2>. QED
    BY <1>5, <1>8, <1>13, <1>14, <2>1
<1>16. t * top <= w
  <2>1. t * (top * pk) <= t * D
    <3>1. top * pk \in Nat
      BY ProductIsNat
    <3>. QED
      BY <1>11, <3>1, ProductGrows
  <2>2. PICK v \in Nat : v = t * top
    BY ProductIsNat
  <2>3. t * (top * pk) = v * pk
    BY <2>2, ProductsAssociate
  <2>4. v * pk \in Nat /\ t * D \in Nat /\ (w + 1) * pk \in Nat
    BY ProductIsNat
  <2>5. pk * v < pk * (w + 1)
    <3>1. pk * v = v * pk /\ pk * (w + 1) = (w + 1) * pk
      BY Distributes
    <3>2. v * pk < (w + 1) * pk
      <4>1. v * pk <= t * D
        BY <2>1, <2>3
      <4>2. t * D <= a
        BY <1>5
      <4>3. PICK e \in Nat, f \in Nat, g \in Nat : e = v * pk /\ f = (w + 1) * pk /\ g = t * D
        BY <2>4
      <4>4. e <= g /\ g <= a /\ a < f
        BY <1>15, <4>1, <4>2, <4>3
      <4>5. e < f
        BY <4>4
      <4>. QED
        BY <4>3, <4>5
    <3>. QED
      BY <3>1, <3>2
  <2>6. v < w + 1
    BY <2>5, FactorIsLess
  <2>. QED
    BY <2>2, <2>6
<1>17. PICK q2 \in Nat : q2 = w \div top /\ t <= q2
  <2>1. /\ w \div top \in Int /\ w % top \in Int /\ 0 <= w % top /\ w % top < top
        /\ w = top * (w \div top) + (w % top)
        /\ w >= 0 => w \div top >= 0
    <3>1. w \in Int /\ top >= 1
      BY <1>4
    <3>. QED
      BY <3>1, Divides
  <2>2. PICK q \in Nat, r \in Nat : q = w \div top /\ r < top /\ w = top * q + r
    BY <2>1
  <2>3. top * t < top * (q + 1)
    <3>1. top * (q + 1) = top * q + top /\ top * t = t * top
      BY Distributes
    <3>2. top * q \in Nat /\ t * top \in Nat
      BY ProductIsNat
    <3>. QED
      BY <1>16, <2>2, <3>1, <3>2
  <2>4. t < q + 1
    BY <2>3, FactorIsLess
  <2>. QED
    BY <2>2, <2>4
<1>18. t < HalfBase
  <2>1. D * t < D * hb
    <3>1. D * t = t * D /\ D * hb = hb * D
      BY Distributes
    <3>2. t * D \in Nat /\ hb * D \in Nat
      BY ProductIsNat
    <3>. QED
      BY <1>5, <3>1, <3>2, SMTT(30)
  <2>2. t < hb
    BY <2>1, FactorIsLess
  <2>. QED
    BY <1>5, <2>2
<1>19. QuotientDigit(A, B, n, j) = Min({q2, HalfBase - 1})
  BY <1>4, <1>5, <1>7, <1>13, <1>14, <1>17 DEF QuotientDigit
<1>20. PICK m \in Nat : m = HalfBase - 1
  BY <1>1
<1>21. Min({q2, m}) = IF q2 <= m THEN q2 ELSE m
  BY MinMaxOfTwo
<1>22. QuotientDigit(A, B, n, j) = IF q2 <= m THEN q2 ELSE m
  BY <1>19, <1>20, <1>21
<1>23. CASE q2 <= m
  BY <1>1, <1>17, <1>18, <1>20, <1>22, <1>23
<1>24. CASE ~ (q2 <= m)
  BY <1>1, <1>18, <1>20, <1>22, <1>24
<1>. QED
  BY <1>23, <1>24

-----------------------------------------------------------------------------
(* The corrections of a quotient digit *)

\* Even when it loses a carry, usum returns a number or raises
LEMMA UsumIsNumber ==
  ASSUME NEW a \in Number, NEW b \in Number, NEW subtract \in BOOLEAN, NEW extra \in Nat
  PROVE  Usum(a, b, subtract, extra) \in Number \cup {Raised}
<1>1. PICK k \in [Nat -> {0, 1}], size \in Nat : ShapeOfUsum(a, b, subtract, extra, k, size)
  BY UsumShape
<1>. DEFINE d == Of(a.digits)
            e == Of(b.digits)
            s == [i \in 1 .. size |-> Column(d[i - 1], e[i - 1], k[i - 1], subtract)]
            kept == Min({size, MaxDigits + extra})
<1>2. d \in [Nat -> NativeDigit] /\ e \in [Nat -> NativeDigit]
  BY NumberFacts, DigitsAreNative
<1>3. Usum(a, b, subtract, extra) =
           IF \E i \in kept + 1 .. size : s[i] # 0 THEN Raised
           ELSE Handler(1, Sanitize(SubSeq(s, 1, kept)))
  BY <1>1 DEF ShapeOfUsum
<1>. HIDE DEF d, e
<1>4. s \in Seq(NativeDigit) /\ Len(s) = size
  <2>1. ASSUME NEW i \in 1 .. size PROVE Column(d[i - 1], e[i - 1], k[i - 1], subtract) \in NativeDigit
    <3>1. i - 1 \in Nat
      OBVIOUS
    <3>2. d[i - 1] \in NativeDigit /\ e[i - 1] \in NativeDigit /\ k[i - 1] \in {0, 1}
      BY <1>2, <3>1
    <3>. QED
      BY <3>2, ColumnIsExact
  <2>2. s \in [1 .. size -> NativeDigit]
    BY <2>1
  <2>. QED
    BY <2>2
<1>5. kept \in Nat /\ kept <= size
  <2>1. MaxDigits + extra \in Nat
    BY IntegerAssumption
  <2>. QED
    BY <2>1, MinMaxOfTwo
<1>. HIDE DEF s, kept
<1>6. SubSeq(s, 1, kept) \in Seq(NativeDigit)
  <2>1. SubSeq(s, 1, kept) = [i \in 1 .. kept |-> s[i]]
    BY <1>4, <1>5
  <2>2. \A i \in 1 .. kept : i \in 1 .. Len(s)
    BY <1>4, <1>5
  <2>3. \A i \in 1 .. kept : s[i] \in NativeDigit
    BY <1>4, <2>2
  <2>4. [i \in 1 .. kept |-> s[i]] \in [1 .. kept -> NativeDigit]
    BY <2>3
  <2>. QED
    BY <1>5, <2>1, <2>4
<1>7. Handler(1, Sanitize(SubSeq(s, 1, kept))) \in Number
  BY <1>6, HandlerFacts
<1>. QED
  BY <1>3, <1>7

\* So does Signed
LEMMA SignedIsNumber ==
  ASSUME NEW r \in Number \cup {Raised}, NEW sign \in {1, -1}
  PROVE  Signed(r, sign) \in Number \cup {Raised}
<1>1. CASE r = Raised
  BY <1>1 DEF Signed
<1>2. CASE r \in Number
  <2>1. r # Raised
    BY <1>2, NumberFacts
  <2>2. SetSign(r, sign) \in Number
    BY <1>2, SetSignFacts
  <2>. QED
    BY <2>1, <2>2 DEF Signed
<1>. QED
  BY <1>1, <1>2

\* So does a sum
LEMMA SumIsNumber ==
  ASSUME NEW a \in Number \cup {Raised}, NEW b \in Number, NEW extra \in Nat
  PROVE  Sum(a, b, FALSE, extra) \in Number \cup {Raised}
<1>1. CASE a = Raised
  BY <1>1 DEF Sum
<1>2. CASE a \in Number
  <2>1. a # Raised /\ b # Raised /\ a.sign \in {1, -1} /\ b.sign \in {1, -1}
    BY <1>2, NumberFacts
  <2>2. PICK s \in {1, -1}, t \in {1, -1} : s = a.sign /\ t = b.sign
    BY <2>1
  <2>3. Sum(a, b, FALSE, extra) =
          IF s = t THEN Signed(Usum(a, b, FALSE, extra), t)
          ELSE IF CompareAbs(a, b) >= 0 THEN Signed(Usum(a, b, TRUE, extra), s)
          ELSE Signed(Usum(b, a, TRUE, extra), t)
    BY <2>1, <2>2 DEF Sum
  <2>4. Signed(Usum(a, b, FALSE, extra), t) \in Number \cup {Raised}
    <3>1. Usum(a, b, FALSE, extra) \in Number \cup {Raised}
      BY <1>2, UsumIsNumber
    <3>. QED
      BY <3>1, SignedIsNumber
  <2>5. Signed(Usum(a, b, TRUE, extra), s) \in Number \cup {Raised}
    <3>1. Usum(a, b, TRUE, extra) \in Number \cup {Raised}
      BY <1>2, UsumIsNumber
    <3>. QED
      BY <3>1, SignedIsNumber
  <2>6. Signed(Usum(b, a, TRUE, extra), t) \in Number \cup {Raised}
    <3>1. Usum(b, a, TRUE, extra) \in Number \cup {Raised}
      BY <1>2, UsumIsNumber
    <3>. QED
      BY <3>1, SignedIsNumber
  <2>. HIDE DEF Number
  <2>. QED
    BY <2>3, <2>4, <2>5, <2>6
<1>. QED
  BY <1>1, <1>2

\* The rests r[0], r[1], ... after the corrections.
RestsOf(r, A, X) ==
  /\ r \in [Nat -> Number \cup {Raised}] /\ r[0] = A
  /\ \A i \in 0 .. HalfBase - 1 : r[i + 1] = Sum(r[i], X, FALSE, 1)

\* The corrections stop at the first rest that is not negative
IsCorrected(r, A, q, X) ==
  /\ RestsOf(r, A, X)
  /\ \A times \in 0 .. HalfBase :
       r[times].sign # -1 /\ (\A i \in 0 .. times - 1 : r[i].sign = -1)
         => Corrected(A, q, X) = [A |-> r[times], q |-> (q - times) % HalfBase]

\* The least of a set
LEMMA MinIs ==
  ASSUME NEW S \in SUBSET Nat, NEW u \in S, \A y \in S : u <= y
  PROVE  Min(S) = u
<1>1. ASSUME NEW x \in S, \A y \in S : x <= y PROVE x = u
  <2>1. x <= u /\ u <= x
    BY <1>1
  <2>. QED
    BY <2>1
<1>. QED
  BY <1>1 DEF Min

\* What Corrected computes, with the rests as a function
LEMMA Corrections ==
  ASSUME NEW A \in Number, NEW X \in Number, NEW q
  PROVE  \E r : IsCorrected(r, A, q, X)
<1>. DEFINE V == Number \cup {Raised}
            step == [x \in V |-> Sum(x, X, FALSE, 1)]
            g == [i \in Nat |-> step]
<1>1. step \in [V -> V]
  <2>1. \A x \in V : Sum(x, X, FALSE, 1) \in V
    BY SumIsNumber
  <2>. HIDE DEF V
  <2>. QED
    BY <2>1
<1>2. A \in V
  OBVIOUS
<1>. HIDE DEF V
<1>3. \A x \in V : step[x] = Sum(x, X, FALSE, 1)
  OBVIOUS
<1>. HIDE DEF step
<1>4. g \in [Nat -> [V -> V]]
  BY <1>1
<1>5. \A i \in Nat : g[i] = step
  OBVIOUS
<1>. HIDE DEF g
<1>6. PICK f : ComputesAll(f, V, A, g)
  BY <1>2, <1>4, NatRecursion
<1>7. f \in [Nat -> V] /\ f[0] = A /\ \A i \in Nat : f[i + 1] = Sum(f[i], X, FALSE, 1)
  BY <1>3, <1>5, <1>6 DEF ComputesAll
<1>8. HalfBase \in Nat
  BY HalfBaseFacts
<1>. DEFINE rest == CHOOSE r : r = [i \in 0 .. HalfBase |->
                                      IF i = 0 THEN A ELSE Sum(r[i - 1], X, FALSE, 1)]
            times == Min({i \in 0 .. HalfBase : rest[i].sign # -1})
<1>9. rest = [i \in 0 .. HalfBase |-> IF i = 0 THEN A ELSE Sum(rest[i - 1], X, FALSE, 1)]
  <2>. DEFINE r == [i \in 0 .. HalfBase |-> f[i]]
  <2>1. ASSUME NEW i \in 0 .. HalfBase
        PROVE  f[i] = IF i = 0 THEN A ELSE Sum(r[i - 1], X, FALSE, 1)
    <3>1. CASE i = 0
      BY <1>7, <3>1
    <3>2. CASE i # 0
      <4>1. i - 1 \in Nat /\ i - 1 \in 0 .. HalfBase /\ (i - 1) + 1 = i
        BY <1>8, <3>2
      <4>. QED
        BY <1>7, <3>2, <4>1
    <3>. QED
      BY <3>1, <3>2
  <2>2. r = [i \in 0 .. HalfBase |-> IF i = 0 THEN A ELSE Sum(r[i - 1], X, FALSE, 1)]
    BY <2>1
  <2>. QED
    BY <2>2
<1>10. Corrected(A, q, X) = [A |-> rest[times], q |-> (q - times) % HalfBase]
  BY DEF Corrected
<1>. HIDE DEF rest
<1>11. \A i \in 0 .. HalfBase : rest[i] = f[i]
  <2>. DEFINE T == {i \in Nat : i \in 0 .. HalfBase => rest[i] = f[i]}
  <2>1. 0 \in T
    BY <1>7, <1>8, <1>9
  <2>2. ASSUME NEW i \in Nat, i \in T PROVE i + 1 \in T
    <3>. SUFFICES ASSUME i + 1 \in 0 .. HalfBase PROVE rest[i + 1] = f[i + 1]
      OBVIOUS
    <3>1. i \in 0 .. HalfBase /\ i + 1 # 0 /\ (i + 1) - 1 = i
      BY <1>8
    <3>2. rest[i + 1] = Sum(rest[(i + 1) - 1], X, FALSE, 1)
      BY <1>9, <3>1
    <3>3. rest[i] = f[i]
      BY <2>2, <3>1
    <3>. QED
      BY <1>7, <3>1, <3>2, <3>3
  <2>. HIDE DEF T
  <2>3. Nat \subseteq T
    BY <2>1, <2>2, SetInduction
  <2>. QED
    BY <1>8, <2>3 DEF T
<1>12. {i \in 0 .. HalfBase : rest[i].sign # -1} = {i \in 0 .. HalfBase : f[i].sign # -1}
  BY <1>11
<1>14. RestsOf(f, A, X)
  <2>1. \A i \in 0 .. HalfBase - 1 : i \in Nat
    BY <1>8
  <2>. QED
    BY <1>7, <2>1 DEF RestsOf, V
<1>15. ASSUME NEW u \in 0 .. HalfBase, f[u].sign # -1, \A i \in 0 .. u - 1 : f[i].sign = -1
       PROVE  Corrected(A, q, X) = [A |-> f[u], q |-> (q - u) % HalfBase]
  <2>. DEFINE S == {i \in 0 .. HalfBase : f[i].sign # -1}
  <2>1. S \in SUBSET Nat /\ u \in S
    BY <1>8, <1>15
  <2>2. \A y \in S : u <= y
    <3>. SUFFICES ASSUME NEW y \in S, ~ (u <= y) PROVE FALSE
      OBVIOUS
    <3>1. y \in 0 .. u - 1
      BY <1>8
    <3>. QED
      BY <1>15, <3>1
  <2>. HIDE DEF S
  <2>3. Min(S) = u
    BY <2>1, <2>2, MinIs
  <2>4. times = u
    BY <1>12, <2>3 DEF S
  <2>5. rest[u] = f[u]
    BY <1>11
  <2>. QED
    BY <1>10, <2>4, <2>5
<1>. QED
  BY <1>14, <1>15 DEF IsCorrected

\* The value of a sum of opposite signs, or of a difference of equal ones, that fits.
Fits(v) == AbsOf(v) < PowerOf(Base, MaxDigits + 1)

\* Numbers of a smaller absolute value fit
LEMMA FitsBetween ==
  ASSUME NEW v \in Int, NEW m \in Nat, -m <= v, v <= m, m < PowerOf(Base, MaxDigits + 1)
  PROVE  Fits(v)
<1>1. PowerOf(Base, MaxDigits + 1) \in Nat
  <2>1. MaxDigits + 1 \in Nat
    BY IntegerAssumption
  <2>. QED
    BY <2>1, BasePowers
<1>. QED
  BY <1>1 DEF Fits, AbsOf

\* A sum, and a difference, by name
AddsUp(v, a, b) == v = ValueOf(a) + ValueOf(b)
TakesAway(v, a, b) == v = ValueOf(a) - ValueOf(b)

\* A sum of a negative and of a positive number is exact when it fits
LEMMA FittingSum ==
  ASSUME NEW a \in Number, NEW b \in Number, a.sign = -1, b.sign = 1, NEW v, AddsUp(v, a, b),
         Fits(v)
  PROVE  Sum(a, b, FALSE, 1) \in Number /\ ValueOf(Sum(a, b, FALSE, 1)) = v
<1>1. a.sign = (IF FALSE = TRUE THEN -b.sign ELSE b.sign) => NoCarryLost(Of(a.digits), Of(b.digits))
  BY ValueFacts
<1>2. Exactly(Sum(a, b, FALSE, 1), IF FALSE = TRUE THEN ValueOf(a) - ValueOf(b) ELSE ValueOf(a) + ValueOf(b),
              MaxDigits + 1)
  BY <1>1, SumIsExact
<1>3. Exactly(Sum(a, b, FALSE, 1), v, MaxDigits + 1)
  BY <1>2 DEF AddsUp
<1>4. PowerOf(Base, MaxDigits + 1) \in Nat /\ AbsOf(v) \in Nat
  <2>1. MaxDigits + 1 \in Nat
    BY IntegerAssumption
  <2>2. v \in Int
    BY ValueFacts DEF AddsUp
  <2>. QED
    BY <2>1, <2>2, BasePowers DEF AbsOf
<1>5. ~ (AbsOf(v) >= PowerOf(Base, MaxDigits + 1))
  BY <1>4 DEF Fits
<1>. QED
  BY <1>3, <1>5 DEF Exactly

\* A difference of two positive numbers is exact when it fits
LEMMA FittingDifference ==
  ASSUME NEW a \in Number, NEW b \in Number, a.sign = 1, b.sign = 1, NEW v, TakesAway(v, a, b),
         Fits(v)
  PROVE  Sum(a, b, TRUE, 1) \in Number /\ ValueOf(Sum(a, b, TRUE, 1)) = v
<1>1. a.sign = (IF TRUE = TRUE THEN -b.sign ELSE b.sign) => NoCarryLost(Of(a.digits), Of(b.digits))
  BY ValueFacts
<1>2. Exactly(Sum(a, b, TRUE, 1), IF TRUE = TRUE THEN ValueOf(a) - ValueOf(b) ELSE ValueOf(a) + ValueOf(b),
              MaxDigits + 1)
  BY <1>1, SumIsExact
<1>3. Exactly(Sum(a, b, TRUE, 1), v, MaxDigits + 1)
  BY <1>2 DEF TakesAway
<1>4. PowerOf(Base, MaxDigits + 1) \in Nat /\ AbsOf(v) \in Nat
  <2>1. MaxDigits + 1 \in Nat
    BY IntegerAssumption
  <2>2. v \in Int
    BY ValueFacts DEF TakesAway
  <2>. QED
    BY <2>1, <2>2, BasePowers DEF AbsOf
<1>5. ~ (AbsOf(v) >= PowerOf(Base, MaxDigits + 1))
  BY <1>4 DEF Fits
<1>. QED
  BY <1>3, <1>5 DEF Exactly

\* A product is exact when it fits
LEMMA FittingProduct ==
  ASSUME NEW a \in Number, NEW b \in Number, NEW v \in Int, v = ValueOf(a) * ValueOf(b), Fits(v)
  PROVE  Mult(a, b, 1) \in Number /\ ValueOf(Mult(a, b, 1)) = v
<1>1. Exactly(Mult(a, b, 1), v, MaxDigits + 1)
  BY MultIsExact
<1>2. PowerOf(Base, MaxDigits + 1) \in Nat /\ AbsOf(v) \in Nat
  <2>1. MaxDigits + 1 \in Nat
    BY IntegerAssumption
  <2>. QED
    BY <2>1, BasePowers DEF AbsOf
<1>3. ~ (AbsOf(v) >= PowerOf(Base, MaxDigits + 1))
  BY <1>2 DEF Fits
<1>. QED
  BY <1>1, <1>3 DEF Exactly

\* A digit t has been found, and t times D taken from the rest.
DigitIsTaken(fixed, rest, D, t) ==
  /\ fixed.A \in Number /\ fixed.A.sign = 1 /\ fixed.q = t
  /\ Magnitude(fixed.A) \in Nat /\ Magnitude(fixed.A) = rest - t * D

\* Whatever digit q >= t is tried, the corrections come back to t (integer.cpp:687-705)
LEMMA DigitTaken ==
  ASSUME NEW before, before.A \in Number, before.A.sign = 1, NEW X \in Number, X.sign = 1,
         NEW q \in Nat, q < HalfBase, NEW t \in Nat, t <= q, NEW D \in Nat, D = Magnitude(X),
         t * D <= Magnitude(before.A), Magnitude(before.A) < t * D + D,
         Magnitude(before.A) < PowerOf(Base, MaxDigits + 1), q * D < PowerOf(Base, MaxDigits + 1)
  PROVE  DigitIsTaken(SubtractDigit(before, q, X), Magnitude(before.A), D, t)
<1>1. PICK A \in Number : A = before.A
  OBVIOUS
<1>2. PICK a \in Nat : a = Magnitude(A) /\ a = ValueOf(A) /\ a = Magnitude(before.A)
  BY <1>1, NumberFacts, ValueFacts
<1>3. D = ValueOf(X) /\ HalfBase \in Nat /\ HalfBase < Base /\ Base \in Nat /\ HalfBase >= 2
  <2>1. D = ValueOf(X)
    BY ValueFacts
  <2>2. PICK hb \in Nat : hb = HalfBase /\ hb >= 2 /\ Base = hb * hb
    BY HalfBaseFacts
  <2>3. 2 * hb <= hb * hb
    BY <2>2, ProductGrows
  <2>. QED
    BY <2>1, <2>2, <2>3, BaseIsPositive
<1>4. PICK F \in Number : F = FromInt(q) /\ ValueOf(F) = q
  <2>1. -Base < q /\ q < Base /\ q \in Int
    BY <1>3
  <2>. QED
    BY <2>1, FromIntFacts
<1>5. PICK qD \in Nat, tD \in Nat : qD = q * D /\ tD = t * D
  BY ProductIsNat
<1>6. Fits(qD) /\ tD <= qD
  <2>1. Fits(qD)
    BY <1>5, FitsBetween
  <2>2. tD <= qD
    BY <1>5, ProductGrows
  <2>. QED
    BY <2>1, <2>2
<1>7. PICK M \in Number : M = Mult(F, X, 1) /\ ValueOf(M) = qD
  <2>1. qD = ValueOf(F) * ValueOf(X) /\ qD \in Int
    BY <1>3, <1>4, <1>5
  <2>. QED
    BY <1>6, <2>1, FittingProduct
<1>8. M.sign = 1
  BY <1>7, ValueFacts
<1>9. tD <= a /\ a < tD + D
  BY <1>2, <1>5
<1>10. PICK v \in Int : v = a - qD
  OBVIOUS
<1>11. Fits(v)
  <2>1. CASE a <= qD
    <3>1. -qD <= v /\ v <= qD
      BY <1>10, <2>1
    <3>2. qD < PowerOf(Base, MaxDigits + 1)
      BY <1>5
    <3>. QED
      BY <3>1, <3>2, FitsBetween
  <2>2. CASE qD <= a
    <3>1. -a <= v /\ v <= a
      BY <1>10, <2>2
    <3>2. a < PowerOf(Base, MaxDigits + 1)
      BY <1>2
    <3>. QED
      BY <3>1, <3>2, FitsBetween
  <2>. QED
    BY <2>1, <2>2
<1>12. PICK R \in Number : R = Sum(A, M, TRUE, 1) /\ ValueOf(R) = v
  <2>1. TakesAway(v, A, M)
    BY <1>2, <1>7, <1>10 DEF TakesAway
  <2>2. A.sign = 1
    BY <1>1
  <2>. QED
    BY <1>8, <1>11, <2>1, <2>2, FittingDifference
<1>13. SubtractDigit(before, q, X) = Corrected(R, q, X)
  BY <1>1, <1>4, <1>7, <1>12 DEF SubtractDigit
<1>14. PICK r : IsCorrected(r, R, q, X)
  BY Corrections
<1>15. PICK u \in Nat : u = q - t /\ u \in 0 .. HalfBase
  <2>1. q - t \in Nat /\ q - t \in 0 .. HalfBase
    BY <1>3
  <2>. QED
    BY <2>1
<1>16. PICK w \in [Nat -> Int] : \A i \in Nat : w[i] = v + i * D
  <2>1. \A i \in Nat : v + i * D \in Int
    BY ProductIsNat
  <2>2. [i \in Nat |-> v + i * D] \in [Nat -> Int]
    BY <2>1
  <2>. QED
    BY <2>2
<1>17. ASSUME NEW i \in Nat
       PROVE  /\ w[i + 1] = w[i] + D /\ (i <= u => Fits(w[i])) /\ (i < u => w[i] < 0)
  <2>1. PICK iD \in Nat : iD = i * D
    BY ProductIsNat
  <2>2. w[i] = v + iD
    BY <1>16, <2>1
  <2>3. w[i + 1] = v + iD + D
    <3>1. (i + 1) * D = i * D + 1 * D /\ i + 1 \in Nat
      BY Distributes
    <3>. QED
      BY <1>16, <2>1, <3>1
  <2>4. ASSUME i <= u PROVE Fits(w[i])
    <3>1. t + i <= q
      BY <1>15, <2>4
    <3>2. (t + i) * D <= q * D
      BY <3>1, ProductGrows
    <3>3. (t + i) * D = t * D + i * D
      BY Distributes
    <3>4. tD + iD <= qD
      BY <1>5, <2>1, <3>2, <3>3
    <3>5. CASE w[i] <= 0
      <4>1. -qD <= w[i] /\ w[i] <= qD
        BY <1>10, <2>2, <3>5
      <4>2. qD < PowerOf(Base, MaxDigits + 1) /\ w[i] \in Int
        BY <1>5
      <4>. QED
        BY <4>1, <4>2, FitsBetween
    <3>6. CASE w[i] >= 0
      <4>1. -a <= w[i] /\ w[i] <= a
        BY <1>9, <1>10, <2>2, <3>4, <3>6
      <4>2. a < PowerOf(Base, MaxDigits + 1) /\ w[i] \in Int
        BY <1>2
      <4>. QED
        BY <4>1, <4>2, FitsBetween
    <3>. QED
      BY <3>5, <3>6
  <2>5. ASSUME i < u PROVE w[i] < 0
    <3>1. t + i + 1 <= q
      BY <1>15, <2>5
    <3>2. (t + i + 1) * D <= q * D
      BY <3>1, ProductGrows
    <3>3. (t + i + 1) * D = t * D + i * D + D
      <4>1. (t + i) * D = t * D + i * D
        BY Distributes
      <4>2. PICK y \in Int : y = t + i
        OBVIOUS
      <4>3. (y + 1) * D = y * D + 1 * D
        BY Distributes
      <4>. QED
        BY <4>1, <4>2, <4>3
    <3>4. tD + iD + D <= qD
      BY <1>5, <2>1, <3>2, <3>3
    <3>. QED
      BY <1>9, <1>10, <2>2, <3>4
  <2>. QED
    BY <2>2, <2>3, <2>4, <2>5
<1>18. ASSUME NEW i \in Nat PROVE i <= u => r[i] \in Number /\ ValueOf(r[i]) = w[i]
  <2>. DEFINE T == {k \in Nat : k <= u => r[k] \in Number /\ ValueOf(r[k]) = w[k]}
  <2>1. 0 \in T
    <3>1. r[0] = R
      BY <1>14 DEF IsCorrected, RestsOf
    <3>2. w[0] = v
      <4>1. 0 * D = 0
        OBVIOUS
      <4>. QED
        BY <1>16, <4>1
    <3>. QED
      BY <1>12, <3>1, <3>2
  <2>2. ASSUME NEW k \in Nat, k \in T PROVE k + 1 \in T
    <3>. SUFFICES ASSUME k + 1 <= u PROVE r[k + 1] \in Number /\ ValueOf(r[k + 1]) = w[k + 1]
      OBVIOUS
    <3>1. k <= u /\ k < u /\ k + 1 \in Nat /\ k \in 0 .. HalfBase - 1
      BY <1>3, <1>15
    <3>2. PICK c \in Number : c = r[k] /\ ValueOf(c) = w[k]
      BY <2>2, <3>1
    <3>3. w[k] < 0
      BY <1>17, <3>1
    <3>4. c.sign = -1
      <4>1. ~ (ValueOf(c) >= 0)
        BY <3>2, <3>3
      <4>. QED
        BY <4>1, ValueFacts, NumberFacts
    <3>5. AddsUp(w[k + 1], c, X) /\ Fits(w[k + 1])
      <4>1. w[k + 1] = w[k] + D
        BY <1>17
      <4>2. Fits(w[k + 1])
        BY <1>17, <3>1
      <4>. QED
        BY <1>3, <3>2, <4>1, <4>2 DEF AddsUp
    <3>6. r[k + 1] = Sum(c, X, FALSE, 1)
      BY <1>14, <3>1, <3>2 DEF IsCorrected, RestsOf
    <3>. QED
      BY <3>4, <3>5, <3>6, FittingSum
  <2>. HIDE DEF T
  <2>3. i \in T
    BY <2>1, <2>2, SetInduction
  <2>. QED
    BY <2>3 DEF T
<1>19. \A i \in 0 .. u - 1 : r[i].sign = -1
  <2>. SUFFICES ASSUME NEW i \in 0 .. u - 1 PROVE r[i].sign = -1
    OBVIOUS
  <2>1. i \in Nat /\ i < u /\ i <= u
    BY <1>15
  <2>2. r[i] \in Number /\ ValueOf(r[i]) = w[i] /\ w[i] < 0
    BY <1>17, <1>18, <2>1
  <2>3. ~ (ValueOf(r[i]) >= 0)
    BY <2>2
  <2>. QED
    BY <2>2, <2>3, ValueFacts, NumberFacts
<1>20. PICK z \in Number : z = r[u] /\ ValueOf(z) = w[u]
  <2>1. u <= u
    BY <1>15
  <2>. QED
    BY <1>18, <2>1
<1>21. w[u] = a - tD
  <2>1. u * D = q * D - t * D
    BY <1>15, Distributes
  <2>2. w[u] = v + u * D
    BY <1>16
  <2>. QED
    BY <1>5, <1>10, <2>1, <2>2
<1>22. z.sign = 1 /\ Magnitude(z) = a - tD /\ a - tD \in Nat
  <2>1. a - tD >= 0 /\ a - tD \in Nat
    BY <1>9
  <2>2. ValueOf(z) >= 0
    BY <1>20, <1>21, <2>1
  <2>. QED
    BY <1>20, <1>21, <2>1, <2>2, ValueFacts
<1>23. Corrected(R, q, X) = [A |-> r[u], q |-> (q - u) % HalfBase]
  <2>1. r[u].sign # -1
    BY <1>20, <1>22
  <2>. QED
    BY <1>14, <1>15, <1>19, <2>1 DEF IsCorrected
<1>24. (q - u) % HalfBase = t
  <2>1. q - u = t /\ t < HalfBase
    BY <1>3, <1>15
  <2>2. PICK zero \in Int, hb \in Nat : zero = 0 /\ hb = HalfBase
    BY <1>3
  <2>3. t = hb * zero + t
    BY <2>2
  <2>4. t \in Int /\ 0 <= t /\ t < hb
    BY <2>1, <2>2
  <2>5. t % hb = t
    BY <2>3, <2>4, DivisionIsUnique
  <2>. QED
    BY <2>1, <2>2, <2>5
<1>25. DigitIsTaken(SubtractDigit(before, q, X), a, D, t)
  <2>1. SubtractDigit(before, q, X) = [A |-> z, q |-> t]
    BY <1>13, <1>20, <1>23, <1>24
  <2>2. Magnitude(z) = a - t * D /\ Magnitude(z) \in Nat
    BY <1>5, <1>22
  <2>. QED
    BY <1>22, <2>1, <2>2 DEF DigitIsTaken
<1>. QED
  BY <1>2, <1>25

-----------------------------------------------------------------------------
(* The division of shifted numbers *)

\* The rests and the quotients under way
Partials(m) == [A : Number, q : [1 .. m + 1 -> HalfNative]]

\* The rest and the quotient x of a by b, when j digits are still unknown.
IsPartial(x, a, b, m, j) ==
  /\ x \in Partials(m) /\ x.A.sign = 1 /\ Magnitude(x.A) < b * PowerOf(HalfBase, j)
  /\ a = Magnitude(x.A) + b * Upto(Of(x.q), HalfBase, m + 1)
  /\ \A i \in 1 .. j : x.q[i] = 0

\* The half digits of a quotient
LEMMA HalvesOfQuotient ==
  ASSUME NEW m \in Nat, NEW q \in [1 .. m + 1 -> HalfNative]
  PROVE  /\ q \in Seq(HalfNative) /\ Len(q) = m + 1 /\ Of(q) \in [Nat -> HalfNative] /\ Of(q) \in [Nat -> Int]
         /\ \A i \in 0 .. m : Of(q)[i] = q[i + 1]
         /\ Upto(Of(q), HalfBase, m + 1) \in Nat
<1>1. PICK l \in Nat : l = m + 1
  OBVIOUS
<1>2. q \in [1 .. l -> HalfNative]
  BY <1>1
<1>3. q \in Seq(HalfNative) /\ Len(q) = l
  BY <1>2
<1>4. Of(q) \in [Nat -> HalfNative] /\ Of(q) \in [Nat -> Int]
  BY <1>3, FromHalvesFacts
<1>5. \A i \in 0 .. m : Of(q)[i] = q[i + 1]
  <2>. SUFFICES ASSUME NEW i \in 0 .. m PROVE Of(q)[i] = q[i + 1]
    OBVIOUS
  <2>1. i \in Nat /\ i < Len(q)
    BY <1>1, <1>3
  <2>. QED
    BY <2>1 DEF Of
<1>6. Upto(Of(q), HalfBase, l) \in Nat
  <2>1. HalfBase \in Nat /\ HalfBase >= 1
    BY HalfBaseFacts
  <2>2. Of(q) \in [Nat -> 0 .. HalfBase - 1]
    BY <1>4 DEF HalfNative
  <2>. QED
    BY <2>1, <2>2, UptoBounded
<1>. QED
  BY <1>1, <1>3, <1>4, <1>5, <1>6

\* Two sequences of digits that differ in one
AgreeBut(d, e, k, n) == \A i \in 0 .. n - 1 : i # k => e[i] = d[i]
IsReplaced(d, e, k, n, v) == Upto(e, HalfBase, n) = Upto(d, HalfBase, n) + v * PowerOf(HalfBase, k)

\* Writing one digit that was zero
LEMMA DigitReplaced ==
  ASSUME NEW d \in [Nat -> Int], NEW e \in [Nat -> Int], NEW n \in Nat, NEW k \in 0 .. n - 1,
         AgreeBut(d, e, k, n), d[k] = 0, NEW v \in Int, e[k] = v
  PROVE  IsReplaced(d, e, k, n, v)
<1>1. HalfBase \in Int
  BY HalfBaseFacts
<1>2. \A i \in 0 .. n - 1 : i # k => e[i] = d[i]
  BY DEF AgreeBut
<1>3. Upto(e, HalfBase, n) = Upto(d, HalfBase, n) + (e[k] - d[k]) * PowerOf(HalfBase, k)
  BY <1>1, <1>2, UptoChange, SMTT(30)
<1>4. e[k] - d[k] = v
  OBVIOUS
<1>. QED
  BY <1>3, <1>4 DEF IsReplaced

\* One turn of the loop of the division
TurnOf(before, B, n, j) ==
  WithDigit(before, SubtractDigit(before, QuotientDigit(before.A, B, n, j), MultiplyByPowerOfBase(B, j)), j)

\* A turn finds one more half digit of the quotient
LEMMA TurnKeepsPartial ==
  ASSUME NEW B \in Number, B.digits # <<>>, NEW n \in Nat, n = NumberOfHalfDigits(B),
         NEW m \in Nat, NEW j \in Nat, j + 1 <= m, NEW a \in Nat, NEW b \in Nat, b = Magnitude(B),
         a < PowerOf(Base, MaxDigits + 1), b * PowerOf(HalfBase, m) < PowerOf(Base, MaxDigits + 1),
         NEW x, IsPartial(x, a, b, m, j + 1)
  PROVE  IsPartial(TurnOf(x, B, n, j), a, b, m, j)
<1>1. PICK hb \in Nat, pj \in Nat, p1 \in Nat, pm \in Nat :
        hb = HalfBase /\ pj = PowerOf(HalfBase, j) /\ p1 = hb * pj /\ pm = PowerOf(HalfBase, m)
  <2>1. HalfBase \in Nat /\ PowerOf(HalfBase, j) \in Nat /\ PowerOf(HalfBase, m) \in Nat
    BY HalfBaseFacts, HalfPowers
  <2>2. HalfBase * PowerOf(HalfBase, j) \in Nat
    BY <2>1, ProductIsNat
  <2>. QED
    BY <2>1, <2>2
<1>2. p1 = PowerOf(HalfBase, j + 1) /\ p1 <= pm /\ pj >= 1
  <2>1. p1 = PowerOf(HalfBase, j + 1) /\ pj >= 1
    BY <1>1, HalfPowers
  <2>2. j + 1 \in Nat
    OBVIOUS
  <2>3. PowerOf(HalfBase, j + 1) <= PowerOf(HalfBase, m)
    BY <2>2, HalfPowersGrow
  <2>. QED
    BY <1>1, <2>1, <2>3
<1>3. b >= 1
  <2>1. b # 0
    BY NumberFacts
  <2>. QED
    BY <2>1
<1>4. PICK D \in Nat : D = b * pj /\ D >= 1
  <2>1. 1 * pj <= b * pj /\ b * pj \in Nat
    BY <1>3, ProductGrows, ProductIsNat
  <2>. QED
    BY <1>2, <2>1
<1>5. PICK A \in Number, d \in [1 .. m + 1 -> HalfNative] : A = x.A /\ d = x.q /\ x = [A |-> A, q |-> d]
  BY DEF IsPartial, Partials
<1>6. A.sign = 1
  BY <1>5 DEF IsPartial
<1>7. PICK c \in Nat, U \in Nat : c = Magnitude(A) /\ U = Upto(Of(d), HalfBase, m + 1)
  <2>1. Magnitude(A) \in Nat
    BY NumberFacts
  <2>2. Upto(Of(d), HalfBase, m + 1) \in Nat
    BY HalvesOfQuotient
  <2>. QED
    BY <2>1, <2>2
<1>8. c < b * p1
  BY <1>2, <1>5, <1>7 DEF IsPartial
<1>9. a = c + b * U
  BY <1>5, <1>7 DEF IsPartial
<1>10. \A i \in 1 .. j + 1 : d[i] = 0
  BY <1>5 DEF IsPartial
<1>11. PICK hD \in Nat, bU \in Nat : hD = hb * D /\ hD = b * p1 /\ bU = b * U /\ hD <= b * pm
  <2>1. hb * D \in Nat /\ b * U \in Nat
    BY ProductIsNat
  <2>2. hb * (b * pj) = b * (hb * pj)
    BY ProductsAssociate
  <2>3. b * p1 <= b * pm
    BY <1>2, ProductGrows
  <2>. QED
    BY <1>1, <1>4, <2>1, <2>2, <2>3
<1>12. c <= a /\ c < hD
  BY <1>8, <1>9, <1>11, SMTT(30)
<1>13. /\ c \div D \in Int /\ c % D \in Int /\ 0 <= c % D /\ c % D < D
       /\ c = D * (c \div D) + (c % D) /\ (c >= 0 => c \div D >= 0)
  <2>1. c \in Int /\ D >= 1
    BY <1>4
  <2>. QED
    BY <2>1, Divides
<1>14. PICK t \in Nat, e \in Nat : t = c \div D /\ e < D /\ c = D * t + e
  BY <1>13
<1>15. PICK tD \in Nat : tD = t * D /\ tD <= c /\ c < tD + D /\ c = tD + e
  <2>1. t * D \in Nat /\ D * t = t * D
    BY ProductIsNat, Distributes
  <2>. QED
    BY <1>14, <2>1, SMTT(30)
<1>16. PICK q \in Nat : q = QuotientDigit(A, B, n, j) /\ t <= q /\ q < HalfBase
  <2>1. t * D <= Magnitude(A)
    BY <1>7, <1>15
  <2>2. Magnitude(A) < HalfBase * D
    BY <1>1, <1>7, <1>11, <1>12
  <2>3. D = Magnitude(B) * PowerOf(HalfBase, j)
    BY <1>1, <1>4
  <2>. QED
    BY <2>1, <2>2, <2>3, QuotientDigitFacts
<1>17. PICK X \in Number : X = MultiplyByPowerOfBase(B, j) /\ X.sign = 1 /\ Magnitude(X) = D
  <2>1. pj * b = b * pj
    BY Distributes
  <2>2. LET y == MultiplyByPowerOfBase(B, j)
        IN  y \in Number /\ y.sign = 1 /\ Magnitude(y) = PowerOf(HalfBase, j) * Magnitude(B)
    BY MultiplyByPowerOfBaseFacts
  <2>. QED
    BY <1>1, <1>4, <2>1, <2>2
<1>18. q * D < PowerOf(Base, MaxDigits + 1)
  <2>1. PowerOf(Base, MaxDigits + 1) \in Nat
    <3>1. MaxDigits + 1 \in Nat
      BY IntegerAssumption
    <3>. QED
      BY <3>1, BasePowers
  <2>2. PICK w \in Nat : w = PowerOf(Base, MaxDigits + 1) /\ b * pm < w
    BY <1>1, <2>1
  <2>3. q * D <= hb * D
    <3>1. q <= hb
      BY <1>1, <1>16
    <3>. QED
      BY <3>1, ProductGrows
  <2>4. PICK qD \in Nat, bp \in Nat : qD = q * D /\ bp = b * pm
    BY ProductIsNat
  <2>5. qD <= hD /\ hD <= bp /\ bp < w
    BY <1>11, <2>2, <2>3, <2>4
  <2>6. qD < w
    BY <2>5
  <2>. QED
    BY <2>2, <2>4, <2>6
<1>19. DigitIsTaken(SubtractDigit(x, q, X), c, D, t)
  <2>1. x.A \in Number /\ x.A.sign = 1 /\ c = Magnitude(x.A)
    BY <1>5, <1>6, <1>7
  <2>2. t * D <= Magnitude(x.A) /\ Magnitude(x.A) < t * D + D
    BY <1>15, <2>1
  <2>3. Magnitude(x.A) < PowerOf(Base, MaxDigits + 1)
    <3>1. PowerOf(Base, MaxDigits + 1) \in Nat
      <4>1. MaxDigits + 1 \in Nat
        BY IntegerAssumption
      <4>. QED
        BY <4>1, BasePowers
    <3>. QED
      BY <1>12, <2>1, <3>1
  <2>4. D = Magnitude(X)
    BY <1>17
  <2>. QED
    BY <1>16, <1>17, <1>18, <2>1, <2>2, <2>3, <2>4, DigitTaken
<1>20. PICK fixed : fixed = SubtractDigit(x, q, X)
  OBVIOUS
<1>21. PICK F \in Number : F = fixed.A /\ F.sign = 1 /\ fixed.q = t /\ Magnitude(F) = c - t * D
  BY <1>19, <1>20 DEF DigitIsTaken
<1>22. PICK f \in Nat : f = Magnitude(F) /\ f = c - tD /\ f < D
  <2>1. Magnitude(F) = c - tD
    BY <1>15, <1>21
  <2>2. c - tD \in Nat /\ c - tD < D
    BY <1>15
  <2>. QED
    BY <2>1, <2>2
<1>23. PICK y : y = TurnOf(x, B, n, j)
  OBVIOUS
<1>24. PICK g \in [1 .. m + 1 -> HalfNative] : g = [d EXCEPT ![j + 1] = t]
  <2>1. t \in HalfNative
    BY <1>1, <1>16 DEF HalfNative
  <2>2. [d EXCEPT ![j + 1] = t] \in [1 .. m + 1 -> HalfNative]
    BY <2>1
  <2>. QED
    BY <2>2
<1>25. y = [A |-> F, q |-> g]
  <2>1. y = WithDigit(x, fixed, j)
    BY <1>5, <1>16, <1>17, <1>20, <1>23 DEF TurnOf
  <2>2. WithDigit(x, fixed, j) = [A |-> fixed.A, q |-> [x.q EXCEPT ![j + 1] = fixed.q]]
    BY DEF WithDigit
  <2>. QED
    BY <1>5, <1>21, <1>24, <2>1, <2>2
<1>26. j \in 0 .. m /\ j + 1 \in 1 .. m + 1
  OBVIOUS
<1>27. Upto(Of(g), HalfBase, m + 1) = U + t * pj
  <2>1. Of(g) \in [Nat -> Int] /\ Of(d) \in [Nat -> Int]
    BY HalvesOfQuotient
  <2>2. Of(g)[j] = t
    <3>1. Of(g)[j] = g[j + 1]
      BY <1>26, HalvesOfQuotient
    <3>. QED
      BY <1>24, <1>26, <3>1
  <2>3. Of(d)[j] = 0
    <3>1. Of(d)[j] = d[j + 1]
      BY <1>26, HalvesOfQuotient
    <3>2. j + 1 \in 1 .. j + 1
      OBVIOUS
    <3>. QED
      BY <1>10, <3>1, <3>2
  <2>4. ASSUME NEW i \in 0 .. m, i # j PROVE Of(g)[i] = Of(d)[i]
    <3>1. Of(g)[i] = g[i + 1] /\ Of(d)[i] = d[i + 1]
      BY HalvesOfQuotient, SMTT(30)
    <3>2. i + 1 \in 1 .. m + 1 /\ i + 1 # j + 1
      BY <2>4
    <3>. QED
      BY <1>24, <3>1, <3>2
  <2>5. PICK l \in Nat : l = m + 1 /\ j \in 0 .. l - 1
    BY <1>26
  <2>6. \A i \in 0 .. l - 1 : i # j => Of(g)[i] = Of(d)[i]
    BY <2>4, <2>5
  <2>7. HalfBase \in Int
    BY HalfBaseFacts
  <2>8. AgreeBut(Of(d), Of(g), j, l)
    BY <2>6 DEF AgreeBut
  <2>9. IsReplaced(Of(d), Of(g), j, l, t)
    BY <2>1, <2>2, <2>3, <2>5, <2>8, DigitReplaced
  <2>. QED
    BY <1>1, <1>7, <2>5, <2>9 DEF IsReplaced
<1>28. a = f + b * (U + t * pj)
  <2>1. PICK tp \in Nat : tp = t * pj
    BY ProductIsNat
  <2>2. b * (U + tp) = b * U + b * tp
    BY Distributes
  <2>3. b * (t * pj) = t * (b * pj)
    BY ProductsAssociate
  <2>4. b * tp = tD
    BY <1>4, <1>15, <2>1, <2>3
  <2>5. a = c + bU
    BY <1>9, <1>11
  <2>6. b * (U + tp) = bU + tD
    BY <1>11, <2>2, <2>4
  <2>7. a = f + (bU + tD)
    BY <1>22, <2>5
  <2>. QED
    BY <2>1, <2>6, <2>7
<1>29. \A i \in 1 .. j : g[i] = 0
  <2>. SUFFICES ASSUME NEW i \in 1 .. j PROVE g[i] = 0
    OBVIOUS
  <2>1. i \in 1 .. j + 1 /\ i \in 1 .. m + 1 /\ i # j + 1
    OBVIOUS
  <2>. QED
    BY <1>10, <1>24, <2>1
<1>30. y \in Partials(m) /\ y.A = F /\ y.q = g
  BY <1>25 DEF Partials
<1>31. Magnitude(F) < b * PowerOf(HalfBase, j)
  BY <1>1, <1>4, <1>22
<1>32. a = Magnitude(F) + b * Upto(Of(g), HalfBase, m + 1)
  BY <1>22, <1>27, <1>28
<1>. QED
  BY <1>21, <1>23, <1>29, <1>30, <1>31, <1>32 DEF IsPartial

\* What precedes the loop
FirstOf(A, B, m) ==
  LET betaMB == MultiplyByPowerOfBase(B, m)
      first == Compare(A, betaMB) >= 0
  IN  [A |-> IF first THEN Usum(A, betaMB, TRUE, 1) ELSE A,
       q |-> [i \in 1 .. m + 1 |-> IF i = m + 1 /\ first THEN 1 ELSE 0]]

\* A quotient with one half digit
LEMMA ZeroHalves ==
  ASSUME NEW m \in Nat, NEW q \in [1 .. m + 1 -> HalfNative], \A i \in 1 .. m : q[i] = 0,
         NEW v \in Nat, q[m + 1] = v
  PROVE  Upto(Of(q), HalfBase, m + 1) = v * PowerOf(HalfBase, m)
<1>1. Of(q) \in [Nat -> Int] /\ HalfBase \in Int
  BY HalvesOfQuotient, HalfBaseFacts
<1>2. Upto(Of(q), HalfBase, m + 1) = Upto(Of(q), HalfBase, m) + Of(q)[m] * PowerOf(HalfBase, m)
  BY <1>1, UptoNext
<1>3. Of(q)[m] = v
  <2>1. m \in 0 .. m
    OBVIOUS
  <2>. QED
    BY <2>1, HalvesOfQuotient
<1>4. Upto(Of(q), HalfBase, m) = 0
  <2>1. \A i \in 0 .. m - 1 : Of(q)[i] = 0
    <3>. SUFFICES ASSUME NEW i \in 0 .. m - 1 PROVE Of(q)[i] = 0
      OBVIOUS
    <3>1. i \in 0 .. m /\ i + 1 \in 1 .. m
      OBVIOUS
    <3>2. Of(q)[i] = q[i + 1]
      BY <3>1, HalvesOfQuotient
    <3>. QED
      BY <3>1, <3>2
  <2>2. Upto(Of(q), HalfBase, m) = Upto(Of(q), HalfBase, 0)
    BY <1>1, <2>1, UptoZeroes
  <2>. QED
    BY <1>1, <2>2, UptoFacts
<1>5. PICK p \in Nat : p = PowerOf(HalfBase, m)
  BY HalfPowers
<1>6. v * p \in Nat
  BY ProductIsNat
<1>. QED
  BY <1>2, <1>3, <1>4, <1>5, <1>6

\* The highest half digit of the quotient is 0 or 1
LEMMA FirstIsPartial ==
  ASSUME NEW A \in Number, NEW B \in Number, A.sign = 1, NEW m \in Nat,
         NEW a \in Nat, a = Magnitude(A), NEW b \in Nat, b = Magnitude(B), NEW p \in Nat, p = b * PowerOf(HalfBase, m),
         a < p + p, a < PowerOf(Base, MaxDigits + 1)
  PROVE  IsPartial(FirstOf(A, B, m), a, b, m, m)
<1>1. PICK X \in Number : X = MultiplyByPowerOfBase(B, m) /\ X.sign = 1 /\ Magnitude(X) = p
  <2>1. PowerOf(HalfBase, m) \in Nat
    BY HalfPowers
  <2>2. PowerOf(HalfBase, m) * b = p
    BY <2>1, Distributes
  <2>3. LET y == MultiplyByPowerOfBase(B, m)
        IN  y \in Number /\ y.sign = 1 /\ Magnitude(y) = PowerOf(HalfBase, m) * Magnitude(B)
    BY MultiplyByPowerOfBaseFacts
  <2>. QED
    BY <2>2, <2>3
<1>2. ValueOf(X) = p /\ ValueOf(A) = a
  BY <1>1, ValueFacts
<1>3. Compare(A, X) >= 0 <=> a >= p
  <2>1. Compare(A, X) = IF a < p THEN -1 ELSE IF a = p THEN 0 ELSE 1
    BY <1>2, ComparisonIsExact
  <2>. QED
    BY <2>1
<1>4. 0 \in HalfNative /\ 1 \in HalfNative
  BY HalfBaseFacts DEF HalfNative
<1>5. PICK y : y = FirstOf(A, B, m)
  OBVIOUS
<1>6. CASE a < p
  <2>1. ~ (Compare(A, X) >= 0)
    BY <1>3, <1>6
  <2>2. PICK q \in [1 .. m + 1 -> HalfNative] : q = [i \in 1 .. m + 1 |-> 0]
    <3>1. [i \in 1 .. m + 1 |-> 0] \in [1 .. m + 1 -> HalfNative]
      BY <1>4
    <3>. QED
      BY <3>1
  <2>3. y = [A |-> A, q |-> q]
    BY <1>1, <1>5, <2>1, <2>2 DEF FirstOf
  <2>4. m + 1 \in 1 .. m + 1 /\ \A i \in 1 .. m : i \in 1 .. m + 1
    OBVIOUS
  <2>5. q[m + 1] = 0 /\ \A i \in 1 .. m : q[i] = 0
    BY <2>2, <2>4
  <2>6. Upto(Of(q), HalfBase, m + 1) = 0
    <3>1. PICK z \in Nat : z = 0
      OBVIOUS
    <3>2. Upto(Of(q), HalfBase, m + 1) = z * PowerOf(HalfBase, m)
      BY <2>5, <3>1, ZeroHalves
    <3>3. PowerOf(HalfBase, m) \in Nat
      BY HalfPowers
    <3>. QED
      BY <3>1, <3>2, <3>3
  <2>7. y \in Partials(m) /\ y.A = A /\ y.q = q
    BY <2>3 DEF Partials
  <2>8. b * 0 = 0 /\ a + 0 = a
    OBVIOUS
  <2>. QED
    BY <1>5, <1>6, <2>5, <2>6, <2>7, <2>8 DEF IsPartial
<1>7. CASE a >= p
  <2>1. Compare(A, X) >= 0
    BY <1>3, <1>7
  <2>2. PICK q \in [1 .. m + 1 -> HalfNative] : q = [i \in 1 .. m + 1 |-> IF i = m + 1 THEN 1 ELSE 0]
    <3>1. [i \in 1 .. m + 1 |-> IF i = m + 1 THEN 1 ELSE 0] \in [1 .. m + 1 -> HalfNative]
      BY <1>4
    <3>. QED
      BY <3>1
  <2>3. y = [A |-> Usum(A, X, TRUE, 1), q |-> q]
    BY <1>1, <1>5, <2>1, <2>2 DEF FirstOf
  <2>4. m + 1 \in 1 .. m + 1 /\ \A i \in 1 .. m : i \in 1 .. m + 1 /\ i # m + 1
    OBVIOUS
  <2>5. q[m + 1] = 1 /\ \A i \in 1 .. m : q[i] = 0
    BY <2>2, <2>4
  <2>6. Upto(Of(q), HalfBase, m + 1) = PowerOf(HalfBase, m)
    <3>1. PICK z \in Nat : z = 1
      OBVIOUS
    <3>2. Upto(Of(q), HalfBase, m + 1) = z * PowerOf(HalfBase, m)
      BY <2>5, <3>1, ZeroHalves
    <3>3. PowerOf(HalfBase, m) \in Nat
      BY HalfPowers
    <3>. QED
      BY <3>1, <3>2, <3>3
  <2>7. PICK v \in Nat : v = a - p /\ v < p /\ v <= a
    <3>1. a - p \in Nat /\ a - p < p /\ a - p <= a
      BY <1>7
    <3>. QED
      BY <3>1
  <2>8. PICK R \in Number : R = Usum(A, X, TRUE, 1) /\ ValueOf(R) = v
    <3>1. Magnitude(X) <= Magnitude(A)
      BY <1>1, <1>7
    <3>2. Exactly(Usum(A, X, TRUE, 1), Magnitude(A) - Magnitude(X), MaxDigits + 1)
      BY <3>1, UsumOfDifference
    <3>3. Exactly(Usum(A, X, TRUE, 1), v, MaxDigits + 1)
      BY <1>1, <2>7, <3>2
    <3>4. PowerOf(Base, MaxDigits + 1) \in Nat
      <4>1. MaxDigits + 1 \in Nat
        BY IntegerAssumption
      <4>. QED
        BY <4>1, BasePowers
    <3>5. AbsOf(v) = v
      BY DEF AbsOf
    <3>6. ~ (AbsOf(v) >= PowerOf(Base, MaxDigits + 1))
      BY <2>7, <3>4, <3>5
    <3>. QED
      BY <3>3, <3>6 DEF Exactly
  <2>9. R.sign = 1 /\ Magnitude(R) = v
    <3>0. v >= 0
      OBVIOUS
    <3>1. ValueOf(R) >= 0
      BY <2>8, <3>0, Zenon
    <3>. QED
      BY <2>8, <3>1, ValueFacts
  <2>10. y \in Partials(m) /\ y.A = R /\ y.q = q
    BY <2>3, <2>8 DEF Partials
  <2>11. a = v + p
    BY <2>7
  <2>. QED
    BY <1>5, <2>5, <2>6, <2>7, <2>9, <2>10, <2>11 DEF IsPartial
<1>. QED
  BY <1>6, <1>7

\* The division of shifted numbers, from its first step to its last turn
LEMMA UdivShiftedFacts ==
  ASSUME NEW A \in Number, NEW B \in Number, A.sign = 1, B.digits # <<>>, NEW n \in Nat, n = NumberOfHalfDigits(B),
         NEW m \in Nat, NEW a \in Nat, a = Magnitude(A), NEW b \in Nat, b = Magnitude(B),
         NEW p \in Nat, p = b * PowerOf(HalfBase, m), a < p + p,
         a < PowerOf(Base, MaxDigits + 1), p < PowerOf(Base, MaxDigits + 1)
  PROVE  IsPartial(UdivShifted(A, B, n, m), a, b, m, 0)
<1>. DEFINE V == Partials(m)
            next(t, x) == TurnOf(x, B, n, m - (t + 1))
            g == [t \in Nat |-> [x \in V |-> IF next(t, x) \in V THEN next(t, x) ELSE x]]
            first == FirstOf(A, B, m)
<1>1. IsPartial(first, a, b, m, m)
  BY FirstIsPartial
<1>2. first \in V
  BY <1>1 DEF IsPartial
<1>. HIDE DEF V, first
<1>3. g \in [Nat -> [V -> V]]
  <2>. HIDE DEF next
  <2>. QED
    OBVIOUS
<1>4. ASSUME NEW t \in Nat, NEW x \in V PROVE g[t][x] = IF next(t, x) \in V THEN next(t, x) ELSE x
  <2>. HIDE DEF next
  <2>. QED
    OBVIOUS
<1>. HIDE DEF g
<1>5. PICK f : ComputesAll(f, V, first, g)
  BY <1>2, <1>3, NatRecursion
<1>6. f \in [Nat -> V] /\ f[0] = first /\ \A t \in Nat : f[t + 1] = g[t][f[t]]
  BY <1>5 DEF ComputesAll
<1>7. ASSUME NEW t \in Nat, t < m, IsPartial(f[t], a, b, m, m - t)
      PROVE  f[t + 1] = next(t, f[t]) /\ IsPartial(f[t + 1], a, b, m, m - (t + 1))
  <2>1. PICK j \in Nat : j = m - (t + 1) /\ j + 1 <= m /\ j + 1 = m - t
    <3>1. m - (t + 1) \in Nat /\ (m - (t + 1)) + 1 <= m /\ (m - (t + 1)) + 1 = m - t
      BY <1>7
    <3>. QED
      BY <3>1
  <2>2. IsPartial(f[t], a, b, m, j + 1)
    BY <1>7, <2>1
  <2>3. b * PowerOf(HalfBase, m) < PowerOf(Base, MaxDigits + 1)
    OBVIOUS
  <2>4. IsPartial(TurnOf(f[t], B, n, j), a, b, m, j)
    BY <2>1, <2>2, <2>3, TurnKeepsPartial
  <2>5. TurnOf(f[t], B, n, j) = next(t, f[t])
    BY <2>1
  <2>6. next(t, f[t]) \in V
    BY <2>4, <2>5 DEF IsPartial, V
  <2>7. f[t] \in V /\ f[t + 1] = g[t][f[t]]
    BY <1>6
  <2>. HIDE DEF next
  <2>8. f[t + 1] = next(t, f[t])
    BY <1>4, <2>6, <2>7
  <2>. QED
    BY <2>1, <2>4, <2>5, <2>8
<1>8. ASSUME NEW t \in Nat PROVE t <= m => IsPartial(f[t], a, b, m, m - t)
  <2>. DEFINE T == {k \in Nat : k <= m => IsPartial(f[k], a, b, m, m - k)}
  <2>1. 0 \in T
    <3>1. m - 0 = m
      OBVIOUS
    <3>. QED
      BY <1>1, <1>6, <3>1
  <2>2. ASSUME NEW k \in Nat, k \in T PROVE k + 1 \in T
    <3>. SUFFICES ASSUME k + 1 <= m PROVE IsPartial(f[k + 1], a, b, m, m - (k + 1))
      OBVIOUS
    <3>1. k < m /\ k <= m
      OBVIOUS
    <3>2. IsPartial(f[k], a, b, m, m - k)
      BY <2>2, <3>1
    <3>. QED
      BY <1>7, <3>1, <3>2
  <2>. HIDE DEF T
  <2>3. t \in T
    BY <2>1, <2>2, SetInduction
  <2>. QED
    BY <2>3 DEF T
<1>9. ASSUME NEW t \in Nat, t < m PROVE f[t + 1] = next(t, f[t])
  <2>1. t <= m
    BY <1>9
  <2>. QED
    BY <1>7, <1>8, <1>9, <2>1
<1>. DEFINE turn == CHOOSE r : r = [t \in 0 .. m |->
                      IF t = 0 THEN first
                      ELSE LET before == r[t - 1]
                           IN  WithDigit(before,
                                 SubtractDigit(before, QuotientDigit(before.A, B, n, m - t),
                                               MultiplyByPowerOfBase(B, m - t)), m - t)]
<1>10. turn = [t \in 0 .. m |->
                      IF t = 0 THEN first
                      ELSE LET before == turn[t - 1]
                           IN  WithDigit(before,
                                 SubtractDigit(before, QuotientDigit(before.A, B, n, m - t),
                                               MultiplyByPowerOfBase(B, m - t)), m - t)]
  <2>. DEFINE r == [t \in 0 .. m |-> f[t]]
  <2>1. ASSUME NEW t \in 0 .. m
        PROVE  f[t] = IF t = 0 THEN first
                      ELSE LET before == r[t - 1]
                           IN  WithDigit(before,
                                 SubtractDigit(before, QuotientDigit(before.A, B, n, m - t),
                                               MultiplyByPowerOfBase(B, m - t)), m - t)
    <3>1. CASE t = 0
      BY <1>6, <3>1
    <3>2. CASE t # 0
      <4>1. PICK k \in Nat : k = t - 1 /\ k < m /\ t = k + 1 /\ k \in 0 .. m
        <5>1. t - 1 \in Nat /\ t - 1 < m /\ t = (t - 1) + 1 /\ t - 1 \in 0 .. m
          BY <3>2
        <5>. QED
          BY <5>1
      <4>2. f[t] = next(k, f[k])
        BY <1>9, <4>1
      <4>3. r[t - 1] = f[k]
        BY <4>1
      <4>4. m - (k + 1) = m - t
        BY <4>1
      <4>. HIDE DEF r
      <4>5. f[t] = TurnOf(r[t - 1], B, n, m - t)
        BY <4>2, <4>3, <4>4
      <4>. QED
        BY <3>2, <4>5 DEF TurnOf
    <3>. QED
      BY <3>1, <3>2
  <2>2. r = [t \in 0 .. m |->
                      IF t = 0 THEN first
                      ELSE LET before == r[t - 1]
                           IN  WithDigit(before,
                                 SubtractDigit(before, QuotientDigit(before.A, B, n, m - t),
                                               MultiplyByPowerOfBase(B, m - t)), m - t)]
    BY <2>1
  <2>. HIDE DEF r
  <2>. QED
    BY <2>2
<1>11. UdivShifted(A, B, n, m) = turn[m]
  BY DEF UdivShifted, first, FirstOf
<1>. HIDE DEF turn
<1>12. \A t \in 0 .. m : turn[t] = f[t]
  <2>. DEFINE T == {t \in Nat : t \in 0 .. m => turn[t] = f[t]}
  <2>1. 0 \in T
    BY <1>6, <1>10
  <2>2. ASSUME NEW k \in Nat, k \in T PROVE k + 1 \in T
    <3>. SUFFICES ASSUME k + 1 \in 0 .. m PROVE turn[k + 1] = f[k + 1]
      OBVIOUS
    <3>1. k \in 0 .. m /\ k + 1 # 0 /\ (k + 1) - 1 = k /\ k < m
      OBVIOUS
    <3>2. turn[k] = f[k]
      BY <2>2, <3>1
    <3>3. turn[k + 1] = TurnOf(turn[(k + 1) - 1], B, n, m - (k + 1))
      BY <1>10, <3>1 DEF TurnOf
    <3>4. f[k + 1] = next(k, f[k])
      BY <1>9, <3>1
    <3>. QED
      BY <3>1, <3>2, <3>3, <3>4
  <2>. HIDE DEF T
  <2>3. Nat \subseteq T
    BY <2>1, <2>2, SetInduction
  <2>. QED
    BY <2>3 DEF T
<1>13. turn[m] = f[m]
  BY <1>12
<1>14. IsPartial(f[m], a, b, m, m - m)
  BY <1>8
<1>15. m - m = 0
  OBVIOUS
<1>. QED
  BY <1>11, <1>13, <1>14, <1>15

\* A denominator whose highest half digit is large.
LEMMA ShiftedIsLarge ==
  ASSUME NEW x \in Number, x.digits # <<>>, NEW p \in Nat, p = PowerOf(2, Shift(x)),
         NEW y \in Number, Magnitude(y) = p * Magnitude(x)
  PROVE  /\ PowerOf(HalfBase, NumberOfHalfDigits(y)) <= Magnitude(y) + Magnitude(y)
         /\ y.digits # <<>>
<1>. DEFINE h == HalvesOf(x)
            N == NumberOfHalfDigits(x)
            s == Shift(x)
<1>1. LET q == PowerOf(2, s)
          top == h[N - 1]
      IN  /\ s \in Nat /\ top \in Nat /\ top * q >= HalfBase \div 2 /\ top * q < HalfBase
          /\ top * q \in Nat
          /\ q \in Nat /\ q >= 1 /\ q < HalfBase /\ \E r \in Nat : IsFactor(q, r)
          /\ \E z \in Nat : HalfBase = q * z
  BY ShiftFacts
<1>2. N \in Nat /\ h \in [Nat -> Int] /\ h \in [Nat -> 0 .. HalfBase - 1]
  BY HalvesAreHalves
<1>3. N >= 1
  BY HalvesAreHalves
<1>4. Upto(h, HalfBase, N) = Magnitude(x)
  BY <1>2, HalfMagnitude
<1>. HIDE DEF h, N
<1>5. PICK k \in Nat : k = N - 1 /\ N = k + 1
  <2>1. N - 1 \in Nat /\ N = (N - 1) + 1
    BY <1>2, <1>3
  <2>. QED
    BY <2>1
<1>6. PICK top \in Nat, hb \in Nat, z \in Nat, v \in Nat :
        /\ top = h[k] /\ hb = HalfBase /\ v = top * p /\ v >= hb \div 2 /\ v < hb /\ hb = p * z
  <2>1. HalfBase \in Nat
    BY HalfBaseFacts
  <2>2. h[k] \in Nat /\ h[k] * p \in Nat /\ h[k] * p >= HalfBase \div 2 /\ h[k] * p < HalfBase
    BY <1>1, <1>5
  <2>3. \E z \in Nat : HalfBase = p * z
    BY <1>1
  <2>. QED
    BY <2>1, <2>2, <2>3
<1>7. p >= 1
  BY <1>1
<1>8. hb <= v + v
  <2>1. PICK e \in Nat : hb = 2 * e
    <3>1. PICK i \in 1 .. HalfBase : HalfBase = PowerOf(2, i)
      BY DigitsAssumption
    <3>2. i - 1 \in Nat /\ (i - 1) + 1 = i
      BY HalfBaseFacts
    <3>3. PICK two \in Int : two = 2
      OBVIOUS
    <3>4. PowerOf(two, (i - 1) + 1) = two * PowerOf(two, i - 1)
      BY <3>2, Powers
    <3>5. two \in Nat /\ two >= 1
      BY <3>3
    <3>6. PowerOf(two, i - 1) \in Nat
      BY <3>2, <3>5, PowersGrow
    <3>7. HalfBase = 2 * PowerOf(two, i - 1)
      BY <3>1, <3>2, <3>3, <3>4
    <3>. QED
      BY <1>6, <3>6, <3>7
  <2>2. hb \div 2 = e
    BY <2>1
  <2>3. v >= e
    BY <1>6, <2>2
  <2>. QED
    BY <2>1, <2>3
<1>9. PICK u \in Nat, w \in Nat, x0 \in Nat :
        u = Upto(h, HalfBase, k) /\ w = PowerOf(HalfBase, k) /\ u < w /\ x0 = Magnitude(x) /\ x0 = u + top * w
  <2>1. HalfBase \in Nat /\ HalfBase >= 1 /\ HalfBase \in Int
    BY HalfBaseFacts
  <2>2. Upto(h, HalfBase, k) \in Nat /\ Upto(h, HalfBase, k) < PowerOf(HalfBase, k)
    BY <1>2, <2>1, UptoBounded
  <2>3. Upto(h, HalfBase, k + 1) = Upto(h, HalfBase, k) + h[k] * PowerOf(HalfBase, k)
    BY <1>2, <2>1, UptoNext
  <2>4. PowerOf(HalfBase, k) \in Nat /\ Magnitude(x) \in Nat
    BY HalfPowers, NumberFacts
  <2>5. Magnitude(x) = Upto(h, HalfBase, k) + top * PowerOf(HalfBase, k)
    BY <1>4, <1>5, <1>6, <2>3
  <2>. QED
    BY <2>2, <2>4, <2>5
<1>10. PICK y0 \in Nat, vw \in Nat : y0 = Magnitude(y) /\ vw = v * w /\ vw <= y0
  <2>1. p * x0 = p * u + p * (top * w)
    <3>1. PICK tw \in Nat : tw = top * w
      BY ProductIsNat
    <3>2. p * (u + tw) = p * u + p * tw
      BY Distributes
    <3>. QED
      BY <1>9, <3>1, <3>2
  <2>2. p * (top * w) = (top * p) * w
    BY ProductsAssociate
  <2>3. p * u \in Nat /\ v * w \in Nat /\ p * x0 \in Nat
    BY ProductIsNat
  <2>4. p * x0 = p * u + v * w
    BY <1>6, <2>1, <2>2
  <2>5. Magnitude(y) = p * x0
    BY <1>9
  <2>. QED
    BY <2>3, <2>4, <2>5
<1>11. y0 < hb * w
  <2>1. p * top < p * z
    <3>1. p * top = top * p
      BY Distributes
    <3>. QED
      BY <1>6, <3>1
  <2>2. top < z
    BY <2>1, FactorIsLess
  <2>3. top + 1 <= z
    BY <2>2
  <2>4. p * (top + 1) <= p * z
    BY <2>3, ProductGrows
  <2>5. x0 + 1 <= (top + 1) * w
    <3>1. (top + 1) * w = top * w + 1 * w
      BY Distributes
    <3>2. PICK q \in Nat : q = top * w
      BY ProductIsNat
    <3>3. x0 = u + q /\ u < w
      BY <1>9, <3>2
    <3>4. x0 + 1 <= q + w
      BY <3>3
    <3>5. (top + 1) * w = q + w
      BY <3>1, <3>2
    <3>. QED
      BY <3>4, <3>5
  <2>6. PICK tw \in Nat, ptw \in Nat : tw = (top + 1) * w /\ ptw = p * tw
    <3>1. (top + 1) * w \in Nat
      BY ProductIsNat
    <3>. QED
      BY <3>1, ProductIsNat
  <2>7. p * (x0 + 1) <= p * tw
    BY <2>5, <2>6, ProductGrows
  <2>8. p * (x0 + 1) = y0 + p
    <3>1. p * (x0 + 1) = p * x0 + p * 1
      BY Distributes
    <3>2. p * x0 = y0
      BY <1>9, <1>10
    <3>. QED
      BY <3>1, <3>2
  <2>9. y0 < ptw
    BY <1>7, <2>6, <2>7, <2>8
  <2>10. ptw <= hb * w
    <3>1. PICK t1 \in Nat : t1 = top + 1
      OBVIOUS
    <3>2. p * (t1 * w) = (p * t1) * w
      BY ProductsAssociate
    <3>3. p * t1 <= hb /\ p * t1 \in Nat
      BY <1>6, <2>4, <3>1, ProductIsNat
    <3>4. (p * t1) * w <= hb * w
      BY <3>3, ProductGrows
    <3>. QED
      BY <2>6, <3>1, <3>2, <3>4
  <2>11. PICK hw \in Nat : hw = hb * w
    BY ProductIsNat
  <2>12. y0 < hw
    BY <2>9, <2>10, <2>11
  <2>. QED
    BY <2>11, <2>12
<1>12. w >= 1
  BY <1>9, HalfPowers
<1>13. y.digits # <<>>
  <2>1. v >= 1
    <3>1. hb >= 2
      BY <1>6, HalfBaseFacts
    <3>. QED
      BY <1>8, <3>1
  <2>2. 1 * w <= v * w
    BY <2>1, ProductGrows
  <2>3. y0 # 0
    BY <1>10, <1>12, <2>2
  <2>. QED
    BY <1>10, <2>3, NumberFacts
<1>14. NumberOfHalfDigits(y) \in Nat /\ NumberOfHalfDigits(y) >= 1
  BY <1>13, HalvesAreHalves
<1>15. NumberOfHalfDigits(y) <= N
  <2>. SUFFICES ASSUME ~ (NumberOfHalfDigits(y) <= N) PROVE FALSE
    OBVIOUS
  <2>1. PICK l \in Nat : l = NumberOfHalfDigits(y) - 1 /\ N <= l
    <3>1. NumberOfHalfDigits(y) - 1 \in Nat /\ N <= NumberOfHalfDigits(y) - 1
      <4>1. PICK g \in Nat : g = NumberOfHalfDigits(y) /\ g >= 1
        BY <1>14
      <4>2. N \in Nat
        BY <1>2
      <4>3. ~ (g <= N)
        BY <4>1
      <4>4. g - 1 \in Nat /\ N <= g - 1
        BY <4>1, <4>2, <4>3
      <4>. QED
        BY <4>1, <4>4
    <3>. QED
      BY <3>1
  <2>2. y0 >= PowerOf(HalfBase, l)
    BY <1>10, <1>13, <2>1, HalfMagnitude
  <2>3. PowerOf(HalfBase, N) <= PowerOf(HalfBase, l)
    BY <1>2, <2>1, HalfPowersGrow
  <2>4. PowerOf(HalfBase, N) = hb * w
    BY <1>5, <1>6, <1>9, HalfPowers
  <2>5. PowerOf(HalfBase, N) \in Nat /\ PowerOf(HalfBase, l) \in Nat
    BY <1>2, HalfPowers
  <2>6. y0 < PowerOf(HalfBase, N)
    BY <1>11, <2>4
  <2>. QED
    BY <2>2, <2>3, <2>5, <2>6
<1>16. PowerOf(HalfBase, NumberOfHalfDigits(y)) <= PowerOf(HalfBase, N)
  BY <1>2, <1>14, <1>15, HalfPowersGrow
<1>17. PowerOf(HalfBase, N) <= y0 + y0
  <2>1. PowerOf(HalfBase, N) = hb * w
    BY <1>5, <1>6, <1>9, HalfPowers
  <2>2. hb * w <= (v + v) * w
    BY <1>8, ProductGrows
  <2>3. (v + v) * w = v * w + v * w
    BY Distributes
  <2>4. hb * w \in Nat
    BY ProductIsNat
  <2>. QED
    BY <1>10, <2>1, <2>2, <2>3, <2>4
<1>18. PowerOf(HalfBase, NumberOfHalfDigits(y)) \in Nat /\ PowerOf(HalfBase, N) \in Nat
  BY <1>2, <1>14, HalfPowers
<1>19. PowerOf(HalfBase, NumberOfHalfDigits(y)) <= y0 + y0
  BY <1>16, <1>17, <1>18
<1>. QED
  BY <1>10, <1>13, <1>19

\* The quotient and the remainder of absolute values.
IsDivided(d, a, b) ==
  /\ d.quotient \in Number /\ d.quotient.sign = 1 /\ Magnitude(d.quotient) = Magnitude(a) \div Magnitude(b)
  /\ d.remainder \in Number /\ Magnitude(d.remainder) = Magnitude(a) % Magnitude(b)
  /\ a.sign = 1 => d.remainder.sign = 1

\* A division of shifted numbers
IsShifted(a, b, p, q, r, b1) == b1 = p * b /\ p * a = r + b1 * q /\ r < b1

\* Its quotient is the one of the numbers, its remainder theirs, shifted
IsUnshifted(a, b, p, q, r) == q = a \div b /\ r \div p = a % b

\* It has the same quotient, and the remainder shifted
LEMMA ShiftedDivision ==
  ASSUME NEW a \in Nat, NEW b \in Nat, b >= 1, NEW p \in Nat, p >= 1, NEW q \in Nat, NEW r \in Nat,
         NEW b1 \in Nat, IsShifted(a, b, p, q, r, b1)
  PROVE  IsUnshifted(a, b, p, q, r)
<1>0. b1 = p * b /\ p * a = r + b1 * q /\ r < b1
  BY DEF IsShifted
<1>1. PICK x \in Nat, y \in Nat : x = a \div b /\ y = a % b /\ y < b /\ a = b * x + y
  <2>1. /\ a \div b \in Int /\ a % b \in Int /\ 0 <= a % b /\ a % b < b
        /\ a = b * (a \div b) + (a % b) /\ (a >= 0 => a \div b >= 0)
    <3>1. a \in Int
      OBVIOUS
    <3>. QED
      BY <3>1, Divides
  <2>. QED
    BY <2>1
<1>2. PICK py \in Nat, pa \in Nat : py = p * y /\ pa = p * a
  BY ProductIsNat
<1>3. pa = b1 * x + py
  <2>1. PICK bx \in Nat : bx = b * x
    BY ProductIsNat
  <2>2. p * (bx + y) = p * bx + p * y
    BY Distributes
  <2>3. p * (b * x) = (p * b) * x
    BY ProductsAssociate
  <2>. QED
    BY <1>0, <1>1, <1>2, <2>1, <2>2, <2>3
<1>4. py < b1
  <2>1. y + 1 <= b
    BY <1>1
  <2>2. p * (y + 1) <= p * b
    BY <2>1, ProductGrows
  <2>3. p * (y + 1) = p * y + p * 1
    BY Distributes
  <2>. QED
    BY <1>0, <1>2, <2>2, <2>3
<1>5. pa \div b1 = x /\ pa % b1 = py
  <2>1. pa \in Int /\ x \in Int /\ py \in Int /\ 0 <= py
    OBVIOUS
  <2>. QED
    BY <1>3, <1>4, <2>1, DivisionIsUnique
<1>6. pa \div b1 = q /\ pa % b1 = r
  <2>1. pa \in Int /\ q \in Int /\ r \in Int /\ 0 <= r
    OBVIOUS
  <2>2. pa = b1 * q + r
    <3>1. b1 * q \in Nat
      BY ProductIsNat
    <3>. QED
      BY <1>0, <1>2, <3>1
  <2>. QED
    BY <1>0, <2>1, <2>2, DivisionIsUnique
<1>7. q = x /\ r = py
  BY <1>5, <1>6
<1>8. r \div p = y
  <2>1. PICK zero \in Int : zero = 0
    OBVIOUS
  <2>2. r = p * y + zero
    BY <1>2, <1>7, <2>1
  <2>3. r \in Int /\ y \in Int /\ 0 <= zero /\ zero < p
    BY <2>1
  <2>. QED
    BY <2>2, <2>3, DivisionIsUnique
<1>. QED
  BY <1>1, <1>7, <1>8 DEF IsUnshifted

\* The division of absolute values by half digits is exact: the digit that is tried for the
\* quotient is corrected in every case, its rest fits one digit more than the integers,
\* and the shift before the division is undone after it (integer.cpp:628-717).
THEOREM UdivIsExact ==
  ASSUME NEW a \in Number, NEW b \in Number, b.digits # <<>>, Len(a.digits) <= MaxDigits
  PROVE  IsDivided(Udiv(a, b), a, b)
<1>1. PICK u \in Nat, v \in Nat : u = Magnitude(a) /\ v = Magnitude(b) /\ v >= 1
  <2>1. Magnitude(a) \in Nat /\ Magnitude(b) \in Nat /\ Magnitude(b) # 0
    BY NumberFacts
  <2>. QED
    BY <2>1
<1>2. CompareAbs(a, b) < 0 <=> u < v
  <2>1. CompareAbs(a, b) = IF u < v THEN -1 ELSE IF u = v THEN 0 ELSE 1
    BY <1>1, CompareAbsFacts
  <2>. QED
    BY <2>1
<1>3. CASE u < v
  <2>1. Udiv(a, b) = [quotient |-> Zero, remainder |-> a]
    BY <1>2, <1>3 DEF Udiv
  <2>2. u \div v = 0 /\ u % v = u
    <3>1. PICK zero \in Int : zero = 0
      OBVIOUS
    <3>2. u = v * zero + u /\ u \in Int /\ 0 <= u
      BY <3>1
    <3>3. u \div v = zero /\ u % v = u
      BY <1>3, <3>2, DivisionIsUnique
    <3>. QED
      BY <3>1, <3>3
  <2>3. Zero \in Number /\ Zero.sign = 1 /\ Magnitude(Zero) = 0
    <3>1. Zero \in Number /\ ValueOf(Zero) = 0
      BY ZeroAndOne
    <3>2. ValueOf(Zero) >= 0
      BY <3>1
    <3>. QED
      BY <3>1, <3>2, ValueFacts
  <2>. QED
    BY <1>1, <2>1, <2>2, <2>3 DEF IsDivided
<1>4. CASE ~ (u < v)
  <2>1. PICK s \in Nat, p \in Nat, r \in Nat : s = Shift(b) /\ p = PowerOf(2, s) /\ p >= 1 /\ IsFactor(p, r)
    <3>1. LET q == PowerOf(2, Shift(b))
              top == HalvesOf(b)[NumberOfHalfDigits(b) - 1]
          IN  /\ Shift(b) \in Nat /\ top \in Nat /\ top * q >= HalfBase \div 2 /\ top * q < HalfBase
              /\ top * q \in Nat
              /\ q \in Nat /\ q >= 1 /\ q < HalfBase /\ \E r \in Nat : IsFactor(q, r)
              /\ \E z \in Nat : HalfBase = q * z
      BY ShiftFacts
    <3>. QED
      BY <3>1
  <2>2. PICK A \in Number : A = MultiplyByPowerOf2(a, s) /\ A.sign = 1 /\ Magnitude(A) = p * u
                             /\ Len(A.digits) <= Len(a.digits) + 1
    <3>1. LET y == MultiplyByPowerOf2(a, s)
          IN  /\ y \in Number /\ y.sign = 1 /\ Magnitude(y) = p * Magnitude(a)
              /\ Len(y.digits) <= Len(a.digits) + 1
      BY <2>1, MultiplyByPowerOf2Facts
    <3>. QED
      BY <1>1, <3>1
  <2>3. PICK B \in Number : B = MultiplyByPowerOf2(b, s) /\ Magnitude(B) = p * v
    <3>1. LET y == MultiplyByPowerOf2(b, s)
          IN  /\ y \in Number /\ y.sign = 1 /\ Magnitude(y) = p * Magnitude(b)
              /\ Len(y.digits) <= Len(b.digits) + 1
      BY <2>1, MultiplyByPowerOf2Facts
    <3>. QED
      BY <1>1, <3>1
  <2>4. PICK a1 \in Nat, b1 \in Nat : a1 = p * u /\ b1 = p * v /\ a1 = Magnitude(A) /\ b1 = Magnitude(B) /\ b1 <= a1
    <3>1. p * u \in Nat /\ p * v \in Nat /\ p * v <= p * u
      BY <1>4, ProductIsNat, ProductGrows
    <3>. QED
      BY <2>2, <2>3, <3>1
  <2>5. PICK n \in Nat, N \in Nat : n = NumberOfHalfDigits(B) /\ N = NumberOfHalfDigits(A)
    BY HalvesAreHalves
  <2>6. B.digits # <<>> /\ PowerOf(HalfBase, n) <= b1 + b1
    <3>1. Magnitude(B) = p * Magnitude(b) /\ p = PowerOf(2, Shift(b))
      BY <1>1, <2>1, <2>3
    <3>2. PowerOf(HalfBase, NumberOfHalfDigits(B)) <= Magnitude(B) + Magnitude(B) /\ B.digits # <<>>
      BY <3>1, ShiftedIsLarge
    <3>. QED
      BY <2>4, <2>5, <3>2
  <2>7. a1 < PowerOf(HalfBase, N)
    BY <2>4, <2>5, HalfMagnitude
  <2>8. n <= N
    <3>. SUFFICES ASSUME ~ (n <= N) PROVE FALSE
      OBVIOUS
    <3>1. PICK l \in Nat : l = n - 1 /\ N <= l
      <4>1. n - 1 \in Nat /\ N <= n - 1
        OBVIOUS
      <4>. QED
        BY <4>1
    <3>2. b1 >= PowerOf(HalfBase, l)
      BY <2>4, <2>5, <2>6, <3>1, HalfMagnitude
    <3>3. PowerOf(HalfBase, N) <= PowerOf(HalfBase, l) /\ PowerOf(HalfBase, N) \in Nat /\ PowerOf(HalfBase, l) \in Nat
      BY <3>1, HalfPowersGrow, HalfPowers
    <3>. QED
      BY <2>4, <2>7, <3>2, <3>3
  <2>9. PICK m \in Nat : m = N - n /\ N = n + m
    <3>1. N - n \in Nat /\ N = n + (N - n)
      BY <2>8
    <3>. QED
      BY <3>1
  <2>10. PICK g \in Nat, pn \in Nat, pm \in Nat :
           g = b1 * pm /\ pn = PowerOf(HalfBase, n) /\ pm = PowerOf(HalfBase, m) /\ PowerOf(HalfBase, N) = pn * pm
    <3>1. PowerOf(HalfBase, n) \in Nat /\ PowerOf(HalfBase, m) \in Nat /\ HalfBase \in Int
      BY HalfPowers, HalfBaseFacts
    <3>2. b1 * PowerOf(HalfBase, m) \in Nat
      BY <3>1, ProductIsNat
    <3>3. PowerOf(HalfBase, n + m) = PowerOf(HalfBase, n) * PowerOf(HalfBase, m)
      BY <3>1, PowersMultiply
    <3>. QED
      BY <2>9, <3>1, <3>2, <3>3
  <2>11. PICK h \in Nat : h = pn * pm /\ a1 < h /\ h <= g + g /\ g <= h
    <3>1. pn * pm \in Nat
      BY ProductIsNat
    <3>2. pn * pm <= (b1 + b1) * pm
      BY <2>6, <2>10, ProductGrows
    <3>3. (b1 + b1) * pm = b1 * pm + b1 * pm
      BY Distributes
    <3>4. b1 * pm <= pn * pm
      <4>1. b1 < PowerOf(HalfBase, n) /\ PowerOf(HalfBase, n) \in Nat
        BY <2>4, <2>5, HalfMagnitude, HalfPowers
      <4>2. b1 <= pn
        BY <2>10, <4>1
      <4>. QED
        BY <4>2, ProductGrows
    <3>. QED
      BY <2>7, <2>10, <3>1, <3>2, <3>3, <3>4
  <2>12. PICK cap \in Nat : cap = PowerOf(Base, MaxDigits + 1) /\ h <= cap
    <3>1. MaxDigits + 1 \in Nat /\ Len(A.digits) \in Nat /\ Len(A.digits) <= MaxDigits + 1
      <4>1. Len(a.digits) \in Nat /\ Len(A.digits) \in Nat /\ MaxDigits \in Nat
        BY NumberFacts, IntegerAssumption
      <4>. QED
        BY <2>2, <4>1
    <3>2. PowerOf(HalfBase, N) <= PowerOf(Base, Len(A.digits))
      BY <2>5, HalfMagnitude
    <3>3. /\ PowerOf(Base, Len(A.digits)) <= PowerOf(Base, MaxDigits + 1)
          /\ PowerOf(Base, Len(A.digits)) \in Nat /\ PowerOf(Base, MaxDigits + 1) \in Nat
      BY <3>1, BasePowersGrow
    <3>4. PICK cap \in Nat, k \in Nat : cap = PowerOf(Base, MaxDigits + 1) /\ k = PowerOf(Base, Len(A.digits))
      BY <3>3
    <3>5. h <= k
      BY <2>10, <2>11, <3>2, <3>4
    <3>6. k <= cap
      BY <3>3, <3>4
    <3>7. h <= cap
      BY <3>5, <3>6
    <3>. QED
      BY <3>4, <3>7
  <2>13. PICK x : x = UdivShifted(A, B, n, m)
    OBVIOUS
  <2>14. IsPartial(x, a1, b1, m, 0)
    <3>1. g < cap
      <4>1. b1 < pn
        <5>1. b1 < PowerOf(HalfBase, n)
          BY <2>4, <2>5, HalfMagnitude
        <5>. QED
          BY <2>10, <5>1
      <4>2. (b1 + 1) * pm <= pn * pm
        <5>1. b1 + 1 <= pn
          BY <4>1
        <5>. QED
          BY <5>1, ProductGrows
      <4>3. (b1 + 1) * pm = b1 * pm + 1 * pm /\ pm >= 1
        <5>1. (b1 + 1) * pm = b1 * pm + 1 * pm
          BY Distributes
        <5>2. pm >= 1
          BY <2>10, HalfPowers
        <5>. QED
          BY <5>1, <5>2
      <4>4. g + pm <= h /\ pm >= 1
        <5>1. (b1 + 1) * pm = g + pm
          BY <2>10, <4>3
        <5>. QED
          BY <2>11, <4>2, <4>3, <5>1
      <4>. QED
        BY <2>12, <4>4
    <3>2. a1 < g + g /\ a1 < cap
      BY <2>11, <2>12
    <3>3. g = b1 * PowerOf(HalfBase, m) /\ a1 < PowerOf(Base, MaxDigits + 1) /\ g < PowerOf(Base, MaxDigits + 1)
      BY <2>10, <2>12, <3>1, <3>2
    <3>. QED
      BY <2>2, <2>4, <2>5, <2>6, <2>13, <3>2, <3>3, UdivShiftedFacts
  <2>15. PICK R \in Number, q \in [1 .. m + 1 -> HalfNative] : x.A = R /\ x.q = q /\ R.sign = 1
    BY <2>14 DEF IsPartial, Partials
  <2>16. PICK c \in Nat, U \in Nat : c = Magnitude(R) /\ U = Upto(Of(q), HalfBase, m + 1)
    <3>1. Magnitude(R) \in Nat
      BY NumberFacts
    <3>2. Upto(Of(q), HalfBase, m + 1) \in Nat
      BY HalvesOfQuotient
    <3>. QED
      BY <3>1, <3>2
  <2>17. c < b1 /\ a1 = c + b1 * U
    <3>1. Magnitude(x.A) < b1 * PowerOf(HalfBase, 0) /\ a1 = Magnitude(x.A) + b1 * Upto(Of(x.q), HalfBase, m + 1)
      BY <2>14 DEF IsPartial
    <3>2. PowerOf(HalfBase, 0) = 1
      BY HalfPowers
    <3>3. b1 * 1 = b1
      OBVIOUS
    <3>. QED
      BY <2>15, <2>16, <3>1, <3>2, <3>3
  <2>18. U = u \div v /\ c \div p = u % v
    <3>1. IsShifted(u, v, p, U, c, b1)
      BY <2>4, <2>17 DEF IsShifted
    <3>2. v >= 1 /\ p >= 1
      BY <1>1, <2>1
    <3>3. IsUnshifted(u, v, p, U, c)
      BY <3>1, <3>2, ShiftedDivision
    <3>. QED
      BY <3>3 DEF IsUnshifted
  <2>19. Udiv(a, b) = [quotient |-> FromHalves(q), remainder |-> DivideByPowerOf2(R, s)]
    <3>1. Udiv(a, b) = UdivBy(A, B, s)
      BY <1>2, <1>4, <2>1, <2>2, <2>3 DEF Udiv
    <3>2. UdivBy(A, B, s) = Unshift(x, s)
      BY <2>5, <2>9, <2>13 DEF UdivBy
    <3>. QED
      BY <2>15, <3>1, <3>2 DEF Unshift
  <2>20. PICK Q \in Number : Q = FromHalves(q) /\ Q.sign = 1 /\ Magnitude(Q) = U
    <3>1. q \in Seq(HalfNative) /\ Len(q) = m + 1
      BY HalvesOfQuotient
    <3>. QED
      BY <2>16, <3>1, FromHalvesFacts
  <2>21. PICK E \in Number : E = DivideByPowerOf2(R, s) /\ E.sign = 1 /\ Magnitude(E) = c \div p
    <3>1. LET y == DivideByPowerOf2(R, s)
          IN  y \in Number /\ y.sign = 1 /\ Magnitude(y) = Magnitude(R) \div p
      BY <2>1, DivideByPowerOf2Facts
    <3>. QED
      BY <2>16, <3>1
  <2>22. Udiv(a, b) = [quotient |-> Q, remainder |-> E]
    BY <2>19, <2>20, <2>21
  <2>. QED
    BY <1>1, <2>18, <2>20, <2>21, <2>22 DEF IsDivided
<1>. QED
  BY <1>3, <1>4

-----------------------------------------------------------------------------
(* The division of integers *)

\* The numbers that are kept: those that fit MaxDigits digits.
Integer == {x \in Number : Len(x.digits) <= MaxDigits}

\* An integer is a number below the limit
LEMMA IntegerFacts ==
  ASSUME NEW x \in Number
  PROVE  x \in Integer <=> Magnitude(x) < PowerOf(Base, MaxDigits)
<1>1. MaxDigits \in Nat
  BY IntegerAssumption
<1>. QED
  BY <1>1, DigitsSuffice DEF Integer

\* The first number that has too many digits
Limit == PowerOf(Base, MaxDigits)

\* It is more than ten
LEMMA LimitFacts == Limit \in Nat /\ Limit >= Base /\ Limit > 10 /\ PowerOf(Base, MaxDigits) = Limit
<1>1. MaxDigits \in Nat /\ MaxDigits >= 1 /\ Base > 10 /\ Base \in Nat
  BY IntegerAssumption, BaseIsPositive
<1>2. PowerOf(Base, 1) = Base
  <2>1. PowerOf(Base, 0 + 1) = Base * PowerOf(Base, 0) /\ PowerOf(Base, 0) = 1
    BY <1>1, BasePowers, Powers
  <2>. QED
    BY <1>1, <2>1
<1>3. PowerOf(Base, 1) <= PowerOf(Base, MaxDigits) /\ PowerOf(Base, MaxDigits) \in Nat
  BY <1>1, BasePowersGrow
<1>. QED
  BY <1>1, <1>2, <1>3 DEF Limit

\* A result that fits.
LEMMA ExactlyFits ==
  ASSUME NEW r, NEW v \in Int, Exactly(r, v, MaxDigits)
  PROVE  /\ AbsOf(v) < Limit => r \in Integer /\ ValueOf(r) = v
         /\ r = Raised => AbsOf(v) >= Limit
         /\ r # Raised => r \in Integer /\ ValueOf(r) = v /\ AbsOf(v) < Limit
<1>1. AbsOf(v) \in Nat /\ Limit \in Nat /\ Limit = PowerOf(Base, MaxDigits)
  BY LimitFacts DEF AbsOf
<1>2. AbsOf(v) >= Limit => r = Raised
  BY <1>1 DEF Exactly
<1>3. AbsOf(v) < Limit => r \in Number /\ ValueOf(r) = v
  BY <1>1 DEF Exactly
<1>4. AbsOf(v) < Limit => r \in Integer /\ ValueOf(r) = v
  <2>. SUFFICES ASSUME AbsOf(v) < Limit PROVE r \in Integer /\ ValueOf(r) = v
    OBVIOUS
  <2>1. r \in Number /\ ValueOf(r) = v
    BY <1>3
  <2>2. Magnitude(r) < Limit
    BY <2>1, ValueFacts
  <2>. QED
    BY <1>1, <2>1, <2>2, IntegerFacts
<1>5. r = Raised => AbsOf(v) >= Limit
  <2>. SUFFICES ASSUME r = Raised, ~ (AbsOf(v) >= Limit) PROVE FALSE
    OBVIOUS
  <2>1. r \in Number
    BY <1>1, <1>3
  <2>. QED
    BY <2>1, NumberFacts
<1>. QED
  BY <1>1, <1>2, <1>4, <1>5

\* A number of natural value
LEMMA NatValue ==
  ASSUME NEW x \in Number, NEW v \in Nat, ValueOf(x) = v
  PROVE  Magnitude(x) = v /\ x.sign = 1
<1>1. v >= 0 /\ AbsOf(v) = v
  BY DEF AbsOf
<1>2. AbsOf(ValueOf(x)) = Magnitude(x)
  BY ValueFacts
<1>3. ValueOf(x) >= 0 <=> x.sign = 1
  BY ValueFacts
<1>. QED
  BY <1>1, <1>2, <1>3

\* ExactlyFits for a natural below the limit
LEMMA ExactlyNat ==
  ASSUME NEW r, NEW v \in Nat, v < Limit, Exactly(r, v, MaxDigits)
  PROVE  r \in Integer /\ r \in Number /\ ValueOf(r) = v /\ Magnitude(r) = v /\ r.sign = 1
<1>1. AbsOf(v) < Limit /\ v \in Int
  BY DEF AbsOf
<1>2. r \in Integer /\ ValueOf(r) = v
  BY <1>1, ExactlyFits
<1>3. r \in Number
  BY <1>2 DEF Integer
<1>. QED
  BY <1>2, <1>3, NatValue

\* Numbers of one digit never lose a carry.
LEMMA OneDigitKeepsCarries ==
  ASSUME NEW a \in Number, NEW b \in Number, Len(b.digits) <= 1
  PROVE  NoCarryLost(Of(a.digits), Of(b.digits))
<1>1. \A i \in Nat : i >= Len(b.digits) => Of(b.digits)[i] = 0
  BY NumberFacts, DigitsAreNative
<1>2. Base - 1 # 0
  BY BaseIsPositive
<1>. SUFFICES ASSUME NEW i \in Nat \ {0} PROVE Of(b.digits)[i] # Base - 1
  BY DEF NoCarryLost
<1>3. i >= Len(b.digits)
  BY NumberFacts
<1>. QED
  BY <1>1, <1>2, <1>3

\* The quotient of a negative numerator, adjusted
LEMMA AddOne ==
  ASSUME NEW a \in Number, a.sign = 1, Magnitude(a) + 1 < Limit
  PROVE  Usum(a, One, FALSE, 0) \in Integer /\ ValueOf(Usum(a, One, FALSE, 0)) = Magnitude(a) + 1
<1>1. One \in Number /\ Len(One.digits) <= 1 /\ Magnitude(One) = 1
  <2>1. PICK one \in Int : one = 1 /\ -Base < one /\ one < Base
    BY BaseIsPositive
  <2>2. FromInt(one) \in Number /\ ValueOf(FromInt(one)) = one /\ Len(FromInt(one).digits) <= 1
    BY <2>1, FromIntFacts
  <2>3. One = FromInt(one)
    BY <2>1 DEF One
  <2>4. ValueOf(One) = 1 /\ One \in Number
    BY <2>1, <2>2, <2>3
  <2>5. AbsOf(ValueOf(One)) = Magnitude(One)
    BY <2>4, ValueFacts
  <2>. QED
    BY <2>2, <2>3, <2>4, <2>5 DEF AbsOf
<1>2. NoCarryLost(Of(a.digits), Of(One.digits))
  BY <1>1, OneDigitKeepsCarries
<1>3. PICK zero \in Nat : zero = 0
  OBVIOUS
<1>4. Exactly(Usum(a, One, FALSE, zero), Magnitude(a) + Magnitude(One), MaxDigits + zero)
  BY <1>1, <1>2, UsumOfSum
<1>5. PICK v \in Nat : v = Magnitude(a) + 1
  BY NumberFacts
<1>6. Exactly(Usum(a, One, FALSE, 0), v, MaxDigits)
  <2>1. MaxDigits + zero = MaxDigits
    BY <1>3, IntegerAssumption
  <2>. QED
    BY <1>1, <1>3, <1>4, <1>5, <2>1
<1>7. AbsOf(v) = v /\ v < Limit
  BY <1>5 DEF AbsOf
<1>8. Usum(a, One, FALSE, 0) \in Integer /\ ValueOf(Usum(a, One, FALSE, 0)) = v
  BY <1>6, <1>7, ExactlyNat
<1>. QED
  BY <1>5, <1>8

\* What a division returns.
IsDivision(d, a, b) ==
  \E q \in Integer, r \in Integer :
    /\ d = <<q, r>>
    /\ ValueOf(q) = b.sign * (ValueOf(a) \div AbsOf(ValueOf(b)))
    /\ ValueOf(r) = ValueOf(a) % AbsOf(ValueOf(b))

\* A division returns the quotient whose remainder is not negative, and it never raises
\* (integer.cpp:579-601).
THEOREM DivisionIsExact ==
  ASSUME NEW a \in Integer, NEW b \in Integer, b.digits # <<>>
  PROVE  IsDivision(Division(a, b), a, b)
<1>0. a \in Number /\ b \in Number /\ Len(a.digits) <= MaxDigits /\ Len(b.digits) <= MaxDigits
  BY DEF Integer
<1>1. PICK d : d = Udiv(a, b)
  OBVIOUS
<1>2. IsDivided(d, a, b)
  BY <1>0, <1>1, UdivIsExact
<1>3. PICK u \in Nat, v \in Nat : u = Magnitude(a) /\ v = Magnitude(b) /\ v >= 1 /\ u < Limit /\ v < Limit
  <2>1. Magnitude(a) \in Nat /\ Magnitude(b) \in Nat /\ Magnitude(b) # 0
    BY <1>0, NumberFacts
  <2>2. Magnitude(a) < Limit /\ Magnitude(b) < Limit
    BY <1>0, IntegerFacts, LimitFacts
  <2>. QED
    BY <2>1, <2>2
<1>4. PICK x \in Nat, y \in Nat : x = u \div v /\ y = u % v /\ y < v /\ u = v * x + y
  <2>1. u \in Int /\ v >= 1
    BY <1>3
  <2>2. /\ u \div v \in Int /\ u % v \in Int /\ 0 <= u % v /\ u % v < v
        /\ u = v * (u \div v) + (u % v) /\ (u >= 0 => u \div v >= 0)
    BY <2>1, Divides
  <2>. QED
    BY <2>2
<1>5. PICK q \in Number, r \in Number : q = d.quotient /\ r = d.remainder /\ q.sign = 1 /\ Magnitude(q) = x
                                         /\ Magnitude(r) = y /\ (a.sign = 1 => r.sign = 1)
  BY <1>2, <1>3, <1>4 DEF IsDivided
<1>6. AbsOf(ValueOf(b)) = v
  BY <1>0, <1>3, ValueFacts
<1>7. PICK s \in {1, -1}, t \in {1, -1} : s = a.sign /\ t = b.sign
  BY <1>0, NumberFacts
<1>8. ValueOf(a) = IF s = 1 THEN u ELSE -u
  BY <1>0, <1>3, <1>7, ValueFacts
<1>9. IsZero(r) <=> y = 0
  <2>1. IsZero(r) <=> ValueOf(r) = 0
    BY ZeroAndOne
  <2>2. AbsOf(ValueOf(r)) = y /\ ValueOf(r) \in Int
    BY <1>5, ValueFacts
  <2>. QED
    BY <2>1, <2>2 DEF AbsOf
<1>10. x <= u
  <2>1. 1 * x <= v * x
    BY <1>3, ProductGrows
  <2>2. v * x \in Nat
    BY ProductIsNat
  <2>. QED
    BY <1>4, <2>1, <2>2
<1>11. Division(a, b) = Adjusted(d, a, b)
  BY <1>1 DEF Division
<1>12. CASE IsZero(r) \/ s = 1
  <2>1. ~ (~ IsZero(d.remainder) /\ a.sign = -1)
    BY <1>5, <1>7, <1>12
  <2>2. Adjusted(d, a, b) = <<SetSign(q, IF a.sign = b.sign THEN 1 ELSE -1), r>>
    BY <1>5, <2>1 DEF Adjusted
  <2>3. PICK e \in {1, -1} : e = IF a.sign = b.sign THEN 1 ELSE -1
    OBVIOUS
  <2>4. PICK Q \in Number : Q = SetSign(q, e) /\ ValueOf(Q) = e * x /\ Magnitude(Q) = x
    BY <1>5, SetSignFacts
  <2>5. ValueOf(r) = y
    <3>1. CASE s = 1
      BY <1>5, <1>7, <3>1, ValueFacts
    <3>2. CASE IsZero(r)
      <4>1. ValueOf(r) = 0
        BY <3>2, ZeroAndOne
      <4>. QED
        BY <1>9, <3>2, <4>1
    <3>. QED
      BY <1>12, <3>1, <3>2
  <2>6. e * x = t * (ValueOf(a) \div v) /\ ValueOf(a) % v = y
    <3>1. CASE s = 1
      <4>1. ValueOf(a) = u
        BY <1>8, <3>1
      <4>2. e = t
        BY <1>7, <2>3, <3>1
      <4>. QED
        BY <1>4, <4>1, <4>2
    <3>2. CASE s = -1
      <4>1. y = 0
        BY <1>9, <1>12, <3>2
      <4>2. ValueOf(a) = -u
        BY <1>8, <3>2
      <4>3. PICK w \in Int : w = -x
        OBVIOUS
      <4>4. -u = v * w + y
        <5>1. v * (0 - x) = v * 0 - v * x
          BY Distributes
        <5>2. w = 0 - x
          BY <4>3
        <5>3. v * x \in Nat
          BY ProductIsNat
        <5>. QED
          BY <1>4, <4>1, <5>1, <5>2, <5>3
      <4>5. -u \in Int /\ y \in Int /\ 0 <= y /\ y < v
        BY <1>4
      <4>6. (-u) \div v = w /\ (-u) % v = y
        <5>1. PICK mu \in Int : mu = -u
          OBVIOUS
        <5>2. mu = v * w + y
          BY <4>4, <5>1
        <5>3. mu \div v = w /\ mu % v = y
          BY <4>5, <5>2, DivisionIsUnique
        <5>. QED
          BY <5>1, <5>3
      <4>7. e * x = t * w
        BY <1>7, <2>3, <3>2, <4>3
      <4>. QED
        BY <4>2, <4>6, <4>7
    <3>. QED
      BY <3>1, <3>2
  <2>7. Q \in Integer /\ r \in Integer
    <3>1. x < Limit /\ y < Limit
      <4>1. PICK l \in Nat : l = Limit
        BY LimitFacts
      <4>2. u < l /\ v < l
        BY <1>3, <4>1
      <4>3. x < l /\ y < l
        BY <1>4, <1>10, <4>2
      <4>. QED
        BY <4>1, <4>3
    <3>. QED
      BY <1>5, <2>4, <3>1, IntegerFacts, LimitFacts
  <2>8. ValueOf(Q) = b.sign * (ValueOf(a) \div AbsOf(ValueOf(b))) /\ ValueOf(r) = ValueOf(a) % AbsOf(ValueOf(b))
    BY <1>6, <1>7, <2>4, <2>5, <2>6
  <2>9. Division(a, b) = <<Q, r>>
    BY <1>11, <2>2, <2>3, <2>4
  <2>. QED
    BY <2>7, <2>8, <2>9 DEF IsDivision
<1>13. CASE ~ IsZero(r) /\ s = -1
  <2>1. ~ IsZero(d.remainder) /\ a.sign = -1
    BY <1>5, <1>7, <1>13
  <2>2. Adjusted(d, a, b) = <<SetSign(Usum(q, One, FALSE, 0), IF a.sign = b.sign THEN 1 ELSE -1),
                              Usum(b, r, TRUE, 0)>>
    BY <1>5, <2>1 DEF Adjusted
  <2>3. PICK e \in {1, -1} : e = IF a.sign = b.sign THEN 1 ELSE -1
    OBVIOUS
  <2>4. y >= 1 /\ v >= 2
    <3>1. y # 0
      BY <1>9, <1>13
    <3>. QED
      BY <1>4, <3>1
  <2>5. PICK x1 \in Nat : x1 = x + 1 /\ x1 < Limit
    <3>1. 1 * x <= v * x /\ v * x \in Nat
      BY <1>3, ProductGrows, ProductIsNat
    <3>2. x + 1 <= u
      BY <1>4, <2>4, <3>1
    <3>3. Limit \in Nat
      BY LimitFacts
    <3>. QED
      BY <1>3, <3>2, <3>3
  <2>6. PICK q1 \in Integer : q1 = Usum(q, One, FALSE, 0) /\ ValueOf(q1) = x1
    <3>1. Magnitude(q) + 1 < Limit
      BY <1>5, <2>5
    <3>2. Usum(q, One, FALSE, 0) \in Integer /\ ValueOf(Usum(q, One, FALSE, 0)) = Magnitude(q) + 1
      BY <1>5, <3>1, AddOne
    <3>. QED
      BY <1>5, <2>5, <3>2
  <2>7. q1 \in Number /\ Magnitude(q1) = x1
    <3>1. q1 \in Number
      BY DEF Integer
    <3>. QED
      BY <2>6, <3>1, NatValue
  <2>8. PICK Q \in Number : Q = SetSign(q1, e) /\ ValueOf(Q) = e * x1 /\ Magnitude(Q) = x1
    BY <2>7, SetSignFacts
  <2>9. PICK z \in Nat : z = v - y /\ z < v
    <3>1. v - y \in Nat /\ v - y < v
      BY <1>4, <2>4
    <3>. QED
      BY <3>1
  <2>10. PICK R \in Integer : R = Usum(b, r, TRUE, 0) /\ ValueOf(R) = z
    <3>0. y <= v
      BY <1>4
    <3>1. Magnitude(r) <= Magnitude(b)
      BY <1>3, <1>5, <3>0
    <3>2. PICK zero \in Nat : zero = 0
      OBVIOUS
    <3>3. Exactly(Usum(b, r, TRUE, zero), Magnitude(b) - Magnitude(r), MaxDigits + zero)
      BY <1>0, <3>1, UsumOfDifference
    <3>4. MaxDigits + zero = MaxDigits
      BY <3>2, IntegerAssumption
    <3>5. Exactly(Usum(b, r, TRUE, 0), z, MaxDigits)
      BY <1>3, <1>5, <2>9, <3>2, <3>3, <3>4
    <3>6. z < Limit
      <4>1. Limit \in Nat
        BY LimitFacts
      <4>. QED
        BY <1>3, <2>9, <4>1
    <3>. QED
      BY <3>5, <3>6, ExactlyNat
  <2>11. e * x1 = t * (ValueOf(a) \div v) /\ ValueOf(a) % v = z
    <3>1. PICK mu \in Int : mu = -u /\ mu = ValueOf(a)
      BY <1>8, <1>13
    <3>2. PICK w \in Int : w = -x1
      OBVIOUS
    <3>3. mu = v * w + z
      <4>1. w = (0 - x) - 1
        BY <2>5, <3>2
      <4>2. PICK mx \in Int : mx = 0 - x
        OBVIOUS
      <4>3. v * (mx - 1) = v * mx - v * 1
        BY Distributes
      <4>4. v * (0 - x) = v * 0 - v * x
        BY Distributes
      <4>5. v * x \in Nat
        BY ProductIsNat
      <4>6. v * w = 0 - v * x - v
        BY <4>1, <4>2, <4>3, <4>4, <4>5
      <4>. QED
        BY <1>4, <2>9, <3>1, <4>5, <4>6
    <3>4. z \in Int /\ 0 <= z /\ z < v
      BY <2>9
    <3>5. mu \div v = w /\ mu % v = z
      BY <3>3, <3>4, DivisionIsUnique
    <3>6. e * x1 = t * w
      <4>1. CASE t = 1
        <5>1. e = -1
          BY <1>7, <1>13, <2>3, <4>1
        <5>. QED
          BY <3>2, <4>1, <5>1
      <4>2. CASE t = -1
        <5>1. e = 1
          BY <1>7, <1>13, <2>3, <4>2
        <5>. QED
          BY <3>2, <4>2, <5>1
      <4>. QED
        BY <4>1, <4>2
    <3>. QED
      BY <3>1, <3>5, <3>6
  <2>12. Q \in Integer
    BY <2>5, <2>8, IntegerFacts, LimitFacts
  <2>13. ValueOf(Q) = b.sign * (ValueOf(a) \div AbsOf(ValueOf(b))) /\ ValueOf(R) = ValueOf(a) % AbsOf(ValueOf(b))
    BY <1>6, <1>7, <2>8, <2>10, <2>11
  <2>14. Division(a, b) = <<Q, R>>
    BY <1>11, <2>2, <2>3, <2>6, <2>8, <2>10
  <2>. QED
    BY <2>10, <2>12, <2>13, <2>14 DEF IsDivision
<1>. QED
  BY <1>12, <1>13

-----------------------------------------------------------------------------
(* What an operation returns *)

\* The operands of a call are integers
LEMMA OperandsAreIntegers ==
  ASSUME NEW x, IsInteger(x)
  PROVE  x \in Integer
<1>1. /\ x.sign \in {1, -1} /\ x.digits \in Seq(NativeDigit) /\ x = [sign |-> x.sign, digits |-> x.digits]
      /\ Len(x.digits) <= MaxDigits /\ x \in [sign : {1, -1}, digits : Seq(NativeDigit)]
  BY DEF IsInteger, NativeDigit
<1>2. x = Handler(x.sign, Sanitize(x.digits))
  BY DEF IsInteger
<1>3. x \in Number
  <2>1. LET y == Handler(x.sign, Sanitize(x.digits))
        IN  /\ y \in Number /\ Magnitude(y) = Total(x.digits) /\ Of(y.digits) = Of(x.digits)
            /\ Len(y.digits) <= Len(x.digits)
            /\ y.sign = IF Total(x.digits) = 0 THEN 1 ELSE x.sign
    BY <1>1, HandlerFacts
  <2>2. Handler(x.sign, Sanitize(x.digits)) \in Number
    BY <2>1
  <2>. QED
    BY <1>2, <2>2
<1>. QED
  BY <1>1, <1>3 DEF Integer

\* What the assumption on the calls says of the one that is made
LEMMA CallFacts ==
  ASSUME call \in Calls
  PROVE  /\ call.op \in {"addition", "subtraction", "multiplication", "division", "gcd", "lcm", "power",
                         "factorial", "parse", "base10", "zeroes"}
         /\ call.a \in Integer /\ call.b \in Integer
         /\ call.op = "division" => call.b.digits # <<>>
         /\ call.op = "power" => call.b.sign = 1
         /\ call.op = "factorial" => call.a.sign = 1
         /\ call.op = "parse" =>
              call.sign \in {1, -1} /\ call.base \in 2 .. Base - 1 /\ call.text \in Seq(0 .. call.base - 1)
<1>1. IsCall(call)
  BY CallsAssumption
<1>2. call.a \in Integer /\ call.b \in Integer
  BY <1>1, OperandsAreIntegers DEF IsCall
<1>3. call.b.digits = <<>> => IsZero(call.b)
  <2>1. call.b \in Number
    BY <1>2 DEF Integer
  <2>2. call.b.digits = <<>> => Magnitude(call.b) = 0 /\ call.b.sign = 1
    BY <2>1, NumberFacts
  <2>3. call.b.digits = <<>> => ValueOf(call.b) = 0
    BY <2>1, <2>2, ValueFacts
  <2>. QED
    BY <2>1, <2>3, ZeroAndOne
<1>. QED
  BY <1>1, <1>2, <1>3 DEF IsCall

\* The value of an integer
LEMMA IntegerValues ==
  ASSUME NEW x \in Integer
  PROVE  /\ x \in Number /\ Len(x.digits) <= MaxDigits /\ ValueOf(x) \in Int /\ Magnitude(x) \in Nat
         /\ AbsOf(ValueOf(x)) = Magnitude(x) /\ Magnitude(x) < Limit
         /\ ValueOf(x) = IF x.sign = 1 THEN Magnitude(x) ELSE -Magnitude(x)
         /\ ValueOf(x) >= 0 <=> x.sign = 1
         /\ x # Raised /\ Canonical(x)
         /\ Magnitude(x) = 0 <=> x.digits = <<>>
<1>1. x \in Number /\ Len(x.digits) <= MaxDigits
  BY DEF Integer
<1>2. Magnitude(x) < Limit
  BY <1>1, IntegerFacts, LimitFacts
<1>. QED
  BY <1>1, <1>2, ValueFacts, NumberFacts, NumbersAreCanonical

\* An operation has returned, and rightly.
Returned == pc # "loop" /\ Exact

\* An operation that returns one exact value
LEMMA ReturnsExactly ==
  ASSUME NEW r, NEW v \in Int, Return(<<r>>), Exactly(r, v, MaxDigits), Expected = <<v>>
  PROVE  Returned'
<1>1. call' = call /\ result' = <<r>> /\ pc' = IF r = Raised THEN "raised" ELSE "done"
  <2>1. DOMAIN <<r>> = {1} /\ <<r>>[1] = r
    OBVIOUS
  <2>2. (\E i \in DOMAIN <<r>> : <<r>>[i] = Raised) <=> r = Raised
    BY <2>1
  <2>. QED
    BY <2>2 DEF Return
<1>2. Expected' = Expected
  BY <1>1 DEF Expected
<1>3. /\ r = Raised => AbsOf(v) >= Limit
      /\ r # Raised => r \in Integer /\ ValueOf(r) = v
  BY ExactlyFits
<1>4. ASSUME r = Raised PROVE Returned'
  <2>1. pc' = "raised"
    BY <1>1, <1>4
  <2>2. Expected'[1] = v
    BY <1>2
  <2>3. AbsOf(Expected'[1]) >= PowerOf(Base, MaxDigits)
    BY <1>3, <1>4, <2>2, LimitFacts
  <2>. QED
    BY <2>1, <2>3 DEF Exact, Returned
<1>5. ASSUME r # Raised PROVE Returned'
  <2>1. pc' = "done" /\ r \in Integer /\ ValueOf(r) = v
    BY <1>1, <1>3, <1>5
  <2>2. Canonical(r)
    BY <2>1, IntegerValues
  <2>3. DOMAIN result' = {1} /\ result'[1] = r
    BY <1>1
  <2>4. [i \in DOMAIN result' |-> ValueOf(result'[i])] = <<v>>
    <3>1. <<v>> = [i \in {1} |-> v]
      BY SMT
    <3>2. \A i \in {1} : ValueOf(result'[i]) = v
      BY <2>1, <2>3
    <3>3. [i \in DOMAIN result' |-> ValueOf(result'[i])] = [i \in {1} |-> v]
      BY <2>3, <3>2
    <3>. QED
      BY <3>1, <3>3
  <2>5. \A i \in DOMAIN result' : Canonical(result'[i])
    BY <2>2, <2>3
  <2>. QED
    BY <1>2, <2>1, <2>4, <2>5 DEF Exact, Returned
<1>. QED
  BY <1>4, <1>5

\* No carry is lost in the sum or the difference that is asked for.
LEMMA NoCarryIsLost ==
  ASSUME NEW a \in Integer, NEW b \in Integer, a = call.a, b = call.b, IsSum, ~ CarryIsLost,
         a.sign = (IF call.op = "addition" THEN b.sign ELSE -b.sign)
  PROVE  NoCarryLost(Of(a.digits), Of(b.digits))
<1>. DEFINE d == Of(a.digits)
            e == Of(b.digits)
<1>1. \A i \in Nat : Digit(a, i) = d[i] /\ Digit(b, i) = e[i]
  BY DEF Digit, Of
<1>2. ASSUME NEW i \in Nat PROVE Below(a, i) = Upto(d, Base, i) /\ Below(b, i) = Upto(e, Base, i)
  <2>1. [j \in Nat |-> Digit(a, j)] = d /\ [j \in Nat |-> Digit(b, j)] = e
    BY DEF Digit, Of
  <2>. HIDE DEF d, e
  <2>. QED
    BY <2>1 DEF Below
<1>3. a \in Number /\ b \in Number /\ Len(a.digits) <= MaxDigits /\ Len(b.digits) <= MaxDigits /\ MaxDigits \in Nat
  BY IntegerValues, IntegerAssumption
<1>4. \A i \in Nat : i >= MaxDigits => d[i] = 0
  <2>1. \A i \in Nat : i >= Len(a.digits) => d[i] = 0
    BY <1>3, NumberFacts, DigitsAreNative
  <2>2. Len(a.digits) \in Nat
    BY <1>3, NumberFacts
  <2>. HIDE DEF d
  <2>. QED
    BY <1>3, <2>1, <2>2
<1>. SUFFICES ASSUME NEW i \in Nat \ {0}, d[i] = Base - 1, e[i] = Base - 1,
                     Upto(d, Base, i) + Upto(e, Base, i) >= PowerOf(Base, i)
              PROVE  FALSE
  BY DEF NoCarryLost
<1>. HIDE DEF d, e
<1>5. i < MaxDigits
  <2>1. Base - 1 # 0
    BY BaseIsPositive
  <2>2. i \in Nat /\ d[i] # 0
    BY <2>1
  <2>3. ~ (i >= MaxDigits)
    BY <1>4, <2>2
  <2>. QED
    BY <1>3, <2>2, <2>3
<1>6. i \in 1 .. MaxDigits - 1
  BY <1>3, <1>5
<1>7. Digit(call.a, i) = Base - 1 /\ Digit(call.b, i) = Base - 1
  BY <1>1
<1>8. Below(call.a, i) + Below(call.b, i) >= PowerOf(Base, i)
  BY <1>2
<1>9. call.a.sign = (IF call.op = "addition" THEN call.b.sign ELSE -call.b.sign)
  OBVIOUS
<1>. QED
  BY <1>6, <1>7, <1>8, <1>9 DEF CarryIsLost

\* Sum, for an addition
LEMMA AdditionIsExact ==
  ASSUME call \in Calls, ~ CarryIsLost, Addition
  PROVE  Returned'
<1>1. PICK a \in Integer, b \in Integer : a = call.a /\ b = call.b
  BY CallFacts
<1>2. call.op = "addition" /\ Return(<<Sum(a, b, FALSE, 0)>>)
  BY <1>1 DEF Addition, Called
<1>3. a \in Number /\ b \in Number /\ ValueOf(a) \in Int /\ ValueOf(b) \in Int
  BY IntegerValues
<1>4. a.sign = (IF FALSE = TRUE THEN -b.sign ELSE b.sign) => NoCarryLost(Of(a.digits), Of(b.digits))
  BY <1>1, <1>2, NoCarryIsLost DEF IsSum
<1>5. PICK zero \in Nat : zero = 0
  OBVIOUS
<1>6. Exactly(Sum(a, b, FALSE, zero), IF FALSE = TRUE THEN ValueOf(a) - ValueOf(b) ELSE ValueOf(a) + ValueOf(b),
              MaxDigits + zero)
  BY <1>3, <1>4, SumIsExact
<1>7. PICK v \in Int : v = ValueOf(a) + ValueOf(b)
  BY <1>3
<1>8. Exactly(Sum(a, b, FALSE, 0), v, MaxDigits)
  <2>1. MaxDigits + zero = MaxDigits
    BY <1>5, IntegerAssumption
  <2>. QED
    BY <1>5, <1>6, <1>7, <2>1
<1>9. Expected = <<v>>
  BY <1>1, <1>2, <1>7 DEF Expected
<1>. QED
  BY <1>2, <1>8, <1>9, ReturnsExactly

\* Sum, for a subtraction
LEMMA SubtractionIsExact ==
  ASSUME call \in Calls, ~ CarryIsLost, Subtraction
  PROVE  Returned'
<1>1. PICK a \in Integer, b \in Integer : a = call.a /\ b = call.b
  BY CallFacts
<1>2. call.op = "subtraction" /\ Return(<<Sum(a, b, TRUE, 0)>>)
  BY <1>1 DEF Subtraction, Called
<1>3. a \in Number /\ b \in Number /\ ValueOf(a) \in Int /\ ValueOf(b) \in Int
  BY IntegerValues
<1>4. a.sign = (IF TRUE = TRUE THEN -b.sign ELSE b.sign) => NoCarryLost(Of(a.digits), Of(b.digits))
  BY <1>1, <1>2, NoCarryIsLost DEF IsSum
<1>5. PICK zero \in Nat : zero = 0
  OBVIOUS
<1>6. Exactly(Sum(a, b, TRUE, zero), IF TRUE = TRUE THEN ValueOf(a) - ValueOf(b) ELSE ValueOf(a) + ValueOf(b),
              MaxDigits + zero)
  BY <1>3, <1>4, SumIsExact
<1>7. PICK v \in Int : v = ValueOf(a) - ValueOf(b)
  BY <1>3
<1>8. Exactly(Sum(a, b, TRUE, 0), v, MaxDigits)
  <2>1. MaxDigits + zero = MaxDigits
    BY <1>5, IntegerAssumption
  <2>. QED
    BY <1>5, <1>6, <1>7, <2>1
<1>9. Expected = <<v>>
  BY <1>1, <1>2, <1>7 DEF Expected
<1>. QED
  BY <1>2, <1>8, <1>9, ReturnsExactly

\* A product in the width of the results.
IsProduct(v, a, b) == v = ValueOf(a) * ValueOf(b)

\* MultIsExact, for a value by name
LEMMA ProductIsExact ==
  ASSUME NEW a \in Number, NEW b \in Number, NEW v, IsProduct(v, a, b)
  PROVE  Exactly(Mult(a, b, 0), v, MaxDigits)
<1>1. PICK zero \in Nat : zero = 0 /\ MaxDigits + zero = MaxDigits
  BY IntegerAssumption
<1>2. Exactly(Mult(a, b, zero), ValueOf(a) * ValueOf(b), MaxDigits + zero)
  BY MultIsExact
<1>. QED
  BY <1>1, <1>2 DEF IsProduct

\* A multiplication
LEMMA MultiplicationIsExact ==
  ASSUME call \in Calls, Multiplication
  PROVE  Returned'
<1>1. PICK a \in Integer, b \in Integer : a = call.a /\ b = call.b
  BY CallFacts
<1>2. call.op = "multiplication" /\ Return(<<Mult(a, b, 0)>>)
  BY <1>1 DEF Multiplication, Called
<1>3. a \in Number /\ b \in Number /\ ValueOf(a) \in Int /\ ValueOf(b) \in Int
  BY IntegerValues
<1>4. PICK v \in Int : v = ValueOf(a) * ValueOf(b)
  BY <1>3, Distributes
<1>5. Exactly(Mult(a, b, 0), v, MaxDigits)
  BY <1>3, <1>4, ProductIsExact DEF IsProduct
<1>6. Expected = <<v>>
  BY <1>1, <1>2, <1>4 DEF Expected
<1>. QED
  BY <1>2, <1>5, <1>6, ReturnsExactly

\* A division, and its remainder
LEMMA DivideIsExact ==
  ASSUME call \in Calls, Divide
  PROVE  Returned'
<1>1. PICK a \in Integer, b \in Integer : a = call.a /\ b = call.b
  BY CallFacts
<1>2. call.op = "division" /\ Return(Division(a, b)) /\ b.digits # <<>>
  BY <1>1, CallFacts DEF Divide, Called
<1>3. IsDivision(Division(a, b), a, b)
  BY <1>2, DivisionIsExact
<1>4. PICK q \in Integer, r \in Integer :
        /\ Division(a, b) = <<q, r>>
        /\ ValueOf(q) = b.sign * (ValueOf(a) \div AbsOf(ValueOf(b)))
        /\ ValueOf(r) = ValueOf(a) % AbsOf(ValueOf(b))
  BY <1>3 DEF IsDivision
<1>5. q # Raised /\ r # Raised /\ Canonical(q) /\ Canonical(r)
  BY IntegerValues
<1>6. PICK x, y : x = ValueOf(q) /\ y = ValueOf(r)
  OBVIOUS
<1>7. Expected = <<x, y>>
  BY <1>1, <1>2, <1>4, <1>6 DEF Expected
<1>8. Return(<<q, r>>)
  BY <1>2, <1>4
<1>9. DOMAIN <<q, r>> = {1, 2} /\ <<q, r>>[1] = q /\ <<q, r>>[2] = r
  OBVIOUS
<1>10. call' = call /\ result' = <<q, r>> /\ pc' = "done"
  <2>1. ~ \E i \in DOMAIN <<q, r>> : <<q, r>>[i] = Raised
    BY <1>5, <1>9
  <2>. QED
    BY <1>8, <2>1 DEF Return
<1>11. Expected' = Expected
  BY <1>10 DEF Expected
<1>12. \A i \in DOMAIN result' : Canonical(result'[i])
  BY <1>5, <1>9, <1>10
<1>13. [i \in DOMAIN result' |-> ValueOf(result'[i])] = <<x, y>>
  <2>1. <<x, y>> = [i \in {1, 2} |-> IF i = 1 THEN x ELSE y]
    BY SMT
  <2>2. \A i \in {1, 2} : ValueOf(result'[i]) = IF i = 1 THEN x ELSE y
    BY <1>6, <1>9, <1>10
  <2>3. [i \in DOMAIN result' |-> ValueOf(result'[i])] = [i \in {1, 2} |-> IF i = 1 THEN x ELSE y]
    BY <1>9, <1>10, <2>2
  <2>. QED
    BY <2>1, <2>3
<1>. QED
  BY <1>7, <1>10, <1>11, <1>12, <1>13 DEF Exact, Returned

-----------------------------------------------------------------------------
(* Absolute values, multiples and powers *)

\* Absolute values
LEMMA AbsFacts ==
  ASSUME NEW v \in Int
  PROVE  /\ AbsOf(v) \in Nat /\ (AbsOf(v) = 0 <=> v = 0)
         /\ AbsOf(v) = IF v < 0 THEN 0 - v ELSE v
         /\ v >= 0 => AbsOf(v) = v
BY DEF AbsOf

\* The absolute value of a product
LEMMA AbsProduct ==
  ASSUME NEW u \in Int, NEW v \in Int
  PROVE  u * v \in Int /\ AbsOf(u * v) = AbsOf(u) * AbsOf(v)
<1>1. PICK x \in Nat, y \in Nat : x = AbsOf(u) /\ y = AbsOf(v)
  BY AbsFacts
<1>2. PICK p \in Nat : p = x * y
  BY ProductIsNat
<1>3. PICK mx \in Int, my \in Int : mx = 0 - x /\ my = 0 - y
  OBVIOUS
<1>4. mx * y = 0 - p
  <2>1. (0 - x) * y = 0 * y - x * y
    BY Distributes
  <2>. QED
    BY <1>2, <1>3, <2>1
<1>5. x * my = 0 - p
  <2>1. x * (0 - y) = x * 0 - x * y
    BY Distributes
  <2>. QED
    BY <1>2, <1>3, <2>1
<1>6. mx * my = p
  <2>1. (0 - x) * my = 0 * my - x * my
    BY Distributes
  <2>. QED
    BY <1>3, <1>5, <2>1
<1>7. (u = x \/ u = mx) /\ (v = y \/ v = my)
  BY <1>1, <1>3, AbsFacts
<1>8. u * v = p \/ u * v = 0 - p
  BY <1>2, <1>4, <1>5, <1>6, <1>7
<1>. QED
  BY <1>1, <1>2, <1>8 DEF AbsOf

\* The multiples of d.
IsMultiple(a, d) == \E k \in Int : a = d * k

\* A multiple has no remainder
LEMMA Multiples ==
  ASSUME NEW a \in Int, NEW d \in Nat, d >= 1
  PROVE  a % d = 0 <=> IsMultiple(a, d)
<1>1. ASSUME a % d = 0 PROVE IsMultiple(a, d)
  <2>1. a \div d \in Int /\ a = d * (a \div d) + (a % d)
    BY Divides
  <2>2. PICK k \in Int : k = a \div d
    BY <2>1
  <2>3. d * k \in Int
    BY Distributes
  <2>4. a = d * k
    BY <1>1, <2>1, <2>2, <2>3
  <2>. QED
    BY <2>4 DEF IsMultiple
<1>2. ASSUME IsMultiple(a, d) PROVE a % d = 0
  <2>1. PICK k \in Int : a = d * k
    BY <1>2 DEF IsMultiple
  <2>2. PICK zero \in Int : zero = 0
    OBVIOUS
  <2>3. d * k \in Int
    BY Distributes
  <2>4. a = d * k + zero /\ 0 <= zero /\ zero < d
    BY <2>1, <2>2, <2>3
  <2>5. a % d = zero
    BY <2>4, DivisionIsUnique
  <2>. QED
    BY <2>2, <2>5
<1>. QED
  BY <1>1, <1>2

\* Sums and differences of multiples
LEMMA MultiplesAdd ==
  ASSUME NEW a \in Int, NEW c \in Int, NEW d \in Int, IsMultiple(a, d), IsMultiple(c, d)
  PROVE  IsMultiple(a + c, d) /\ IsMultiple(a - c, d)
<1>1. PICK x \in Int, y \in Int : a = d * x /\ c = d * y
  BY DEF IsMultiple
<1>2. d * (x + y) = d * x + d * y /\ d * (x - y) = d * x - d * y
  BY Distributes
<1>3. x + y \in Int /\ x - y \in Int
  OBVIOUS
<1>. QED
  BY <1>1, <1>2, <1>3 DEF IsMultiple

\* A multiple of a multiple
LEMMA MultiplesMultiply ==
  ASSUME NEW a \in Int, NEW d \in Int, NEW k \in Int, NEW p \in Int, p = a * k, IsMultiple(a, d)
  PROVE  IsMultiple(p, d)
<1>1. PICK x \in Int : a = d * x
  BY DEF IsMultiple
<1>2. PICK y \in Int : y = x * k
  BY Distributes
<1>3. d * (x * k) = (d * x) * k
  BY ProductsAssociate
<1>. QED
  BY <1>1, <1>2, <1>3 DEF IsMultiple

\* A multiple is zero or not less than its divisor
LEMMA MultiplesAreLarge ==
  ASSUME NEW a \in Int, NEW d \in Nat, d >= 1, a # 0, IsMultiple(a, d)
  PROVE  d <= AbsOf(a)
<1>1. PICK k \in Int : a = d * k
  BY DEF IsMultiple
<1>2. AbsOf(a) = AbsOf(d) * AbsOf(k) /\ AbsOf(d) = d
  BY <1>1, AbsProduct, AbsFacts
<1>3. k # 0
  <2>1. d * 0 = 0
    OBVIOUS
  <2>. QED
    BY <1>1, <2>1
<1>4. AbsOf(k) \in Nat /\ AbsOf(k) >= 1
  BY <1>3, AbsFacts
<1>5. PICK l \in Nat : l = AbsOf(k) /\ 1 <= l
  BY <1>4
<1>6. d * 1 <= d * l
  BY <1>5, ProductGrows
<1>. QED
  BY <1>2, <1>5, <1>6

\* The sign does not matter
LEMMA AbsMultiple ==
  ASSUME NEW a \in Int, NEW d \in Int
  PROVE  IsMultiple(AbsOf(a), d) <=> IsMultiple(a, d)
<1>1. \A x \in Int : IsMultiple(x, d) => IsMultiple(0 - x, d)
  <2>. SUFFICES ASSUME NEW x \in Int, IsMultiple(x, d) PROVE IsMultiple(0 - x, d)
    OBVIOUS
  <2>1. PICK k \in Int : x = d * k
    BY DEF IsMultiple
  <2>2. d * (0 - k) = d * 0 - d * k
    BY Distributes
  <2>3. 0 - k \in Int /\ d * 0 = 0
    OBVIOUS
  <2>. QED
    BY <2>1, <2>2, <2>3 DEF IsMultiple
<1>2. AbsOf(a) \in Int /\ (AbsOf(a) = a \/ AbsOf(a) = 0 - a)
  BY AbsFacts
<1>3. CASE AbsOf(a) = a
  BY <1>3
<1>4. CASE AbsOf(a) = 0 - a
  <2>1. 0 - AbsOf(a) = a
    BY <1>4
  <2>. QED
    BY <1>1, <1>2, <1>4, <2>1
<1>. QED
  BY <1>2, <1>3, <1>4

\* The first power
LEMMA PowerOfOne ==
  ASSUME NEW v \in Int
  PROVE  PowerOf(v, 1) = v
<1>1. PowerOf(v, 0 + 1) = v * PowerOf(v, 0) /\ PowerOf(v, 0) = 1
  BY Powers
<1>2. v * 1 = v
  OBVIOUS
<1>. QED
  BY <1>1, <1>2

\* The absolute value of a power
LEMMA AbsPower ==
  ASSUME NEW v \in Int, NEW n \in Nat
  PROVE  AbsOf(PowerOf(v, n)) = PowerOf(AbsOf(v), n)
<1>. DEFINE T == {k \in Nat : AbsOf(PowerOf(v, k)) = PowerOf(AbsOf(v), k)}
<1>1. AbsOf(v) \in Nat
  BY AbsFacts
<1>2. 0 \in T
  <2>1. PowerOf(v, 0) = 1 /\ PowerOf(AbsOf(v), 0) = 1
    BY <1>1, Powers
  <2>. QED
    BY <2>1 DEF AbsOf
<1>3. \A k \in Nat : k \in T => k + 1 \in T
  <2>. SUFFICES ASSUME NEW k \in Nat, AbsOf(PowerOf(v, k)) = PowerOf(AbsOf(v), k)
                PROVE  AbsOf(PowerOf(v, k + 1)) = PowerOf(AbsOf(v), k + 1)
    OBVIOUS
  <2>1. PowerOf(v, k) \in Int /\ PowerOf(v, k + 1) = v * PowerOf(v, k)
    BY Powers
  <2>2. PowerOf(AbsOf(v), k + 1) = AbsOf(v) * PowerOf(AbsOf(v), k)
    BY <1>1, Powers
  <2>3. AbsOf(v * PowerOf(v, k)) = AbsOf(v) * AbsOf(PowerOf(v, k))
    BY <2>1, AbsProduct
  <2>. QED
    BY <2>1, <2>2, <2>3
<1>. HIDE DEF T
<1>4. n \in T
  BY <1>2, <1>3, SetInduction
<1>. QED
  BY <1>4 DEF T

\* The powers of a square
LEMMA PowersOfSquare ==
  ASSUME NEW v \in Int, NEW n \in Nat
  PROVE  PowerOf(v * v, n) = PowerOf(v, n + n)
<1>. DEFINE T == {k \in Nat : PowerOf(v * v, k) = PowerOf(v, k + k)}
<1>1. v * v \in Int
  BY Distributes
<1>2. 0 \in T
  <2>1. PowerOf(v, 0) = 1 /\ PowerOf(v * v, 0) = 1
    BY <1>1, Powers
  <2>. QED
    BY <2>1
<1>3. \A k \in Nat : k \in T => k + 1 \in T
  <2>. SUFFICES ASSUME NEW k \in Nat, PowerOf(v * v, k) = PowerOf(v, k + k)
                PROVE  PowerOf(v * v, k + 1) = PowerOf(v, (k + 1) + (k + 1))
    OBVIOUS
  <2>1. PICK m \in Nat : m = k + k
    OBVIOUS
  <2>2. PowerOf(v, m) \in Int /\ PowerOf(v, m + 1) = v * PowerOf(v, m)
    BY Powers
  <2>3. m + 1 \in Nat /\ PowerOf(v, (m + 1) + 1) = v * PowerOf(v, m + 1)
    BY Powers
  <2>4. PowerOf(v * v, k + 1) = (v * v) * PowerOf(v * v, k)
    BY <1>1, Powers
  <2>5. v * (v * PowerOf(v, m)) = (v * v) * PowerOf(v, m)
    BY <2>2, ProductsAssociate
  <2>6. (m + 1) + 1 = (k + 1) + (k + 1)
    BY <2>1
  <2>. QED
    BY <2>1, <2>2, <2>3, <2>4, <2>5, <2>6
<1>. HIDE DEF T
<1>4. n \in T
  BY <1>2, <1>3, SetInduction
<1>. QED
  BY <1>4 DEF T

\* 10^k > k
LEMMA TenPowers ==
  ASSUME NEW n \in Nat
  PROVE  /\ PowerOf(10, n) \in Nat /\ PowerOf(10, n) >= n + 1
         /\ PowerOf(10, n + 1) = 10 * PowerOf(10, n)
<1>0. PICK ten \in Nat : ten = 10 /\ ten >= 1
  OBVIOUS
<1>. DEFINE T == {k \in Nat : PowerOf(ten, k) >= k + 1}
<1>1. \A k \in Nat : PowerOf(ten, k) \in Nat /\ PowerOf(ten, k + 1) = ten * PowerOf(ten, k)
  BY <1>0, PowersGrow, Powers
<1>2. 0 \in T
  <2>1. PowerOf(ten, 0) = 1
    BY Powers
  <2>. QED
    BY <2>1
<1>3. \A k \in Nat : k \in T => k + 1 \in T
  <2>. SUFFICES ASSUME NEW k \in Nat, PowerOf(ten, k) >= k + 1
                PROVE  PowerOf(ten, k + 1) >= (k + 1) + 1
    OBVIOUS
  <2>1. PICK p \in Nat : p = PowerOf(ten, k) /\ p >= k + 1 /\ PowerOf(ten, k + 1) = ten * p
    BY <1>1
  <2>. QED
    BY <1>0, <2>1
<1>. HIDE DEF T
<1>4. n \in T
  BY <1>2, <1>3, SetInduction
<1>5. PowerOf(ten, n) >= n + 1
  BY <1>4 DEF T
<1>. QED
  BY <1>0, <1>1, <1>5

-----------------------------------------------------------------------------
(* Greatest divisors *)

\* The greatest divisor of two integers that are not both zero.
IsGreatest(g, a, b) ==
  /\ g \in Nat /\ g >= 1 /\ IsMultiple(a, g) /\ IsMultiple(b, g)
  /\ \A d \in Nat : d >= 1 /\ IsMultiple(a, d) /\ IsMultiple(b, d) => d <= g

\* There is only one
LEMMA GreatestIsUnique ==
  ASSUME NEW a, NEW b, NEW g, NEW h, IsGreatest(g, a, b), IsGreatest(h, a, b)
  PROVE  g = h
<1>1. g \in Nat /\ h \in Nat /\ g <= h /\ h <= g
  BY DEF IsGreatest
<1>. QED
  BY <1>1

\* Two pairs with the same divisors have the same greatest one.
SameDivisors(a, b, c, e) ==
  \A d \in Nat : d >= 1 => (IsMultiple(a, d) /\ IsMultiple(b, d) <=> IsMultiple(c, d) /\ IsMultiple(e, d))

\* It depends on the divisors only
LEMMA SameGreatest ==
  ASSUME NEW a, NEW b, NEW c, NEW e, NEW g, SameDivisors(a, b, c, e), IsGreatest(g, a, b)
  PROVE  IsGreatest(g, c, e)
<1>1. g \in Nat /\ g >= 1 /\ IsMultiple(a, g) /\ IsMultiple(b, g)
  BY DEF IsGreatest
<1>2. IsMultiple(c, g) /\ IsMultiple(e, g)
  BY <1>1 DEF SameDivisors
<1>3. ASSUME NEW d \in Nat, d >= 1, IsMultiple(c, d), IsMultiple(e, d) PROVE d <= g
  <2>1. IsMultiple(a, d) /\ IsMultiple(b, d)
    BY <1>3 DEF SameDivisors
  <2>. QED
    BY <1>3, <2>1 DEF IsGreatest
<1>. QED
  BY <1>1, <1>2, <1>3 DEF IsGreatest

\* Every number divides zero and itself
LEMMA ZeroIsMultiple ==
  ASSUME NEW d \in Int
  PROVE  IsMultiple(0, d) /\ IsMultiple(d, d)
<1>1. d * 0 = 0 /\ d * 1 = d
  OBVIOUS
<1>. QED
  BY <1>1 DEF IsMultiple

\* With zero, or with itself, a number is its own greatest divisor
LEMMA GreatestOfZero ==
  ASSUME NEW b \in Nat, b >= 1
  PROVE  IsGreatest(b, 0, b) /\ IsGreatest(b, b, 0) /\ IsGreatest(b, b, b)
<1>1. IsMultiple(0, b) /\ IsMultiple(b, b)
  BY ZeroIsMultiple
<1>2. ASSUME NEW d \in Nat, d >= 1, IsMultiple(b, d) PROVE d <= b
  <2>1. d <= AbsOf(b) /\ AbsOf(b) = b
    BY <1>2, MultiplesAreLarge, AbsFacts
  <2>. QED
    BY <2>1
<1>. QED
  BY <1>1, <1>2 DEF IsGreatest

\* What the property calls the greatest divisor is that
LEMMA GreatestDivisorFacts ==
  ASSUME NEW a \in Int, NEW b \in Int, a # 0 \/ b # 0
  PROVE  IsGreatest(GreatestDivisor(a, b), AbsOf(a), AbsOf(b))
<1>1. PICK x \in Nat, y \in Nat : x = AbsOf(a) /\ y = AbsOf(b) /\ (a = 0 <=> x = 0) /\ (b = 0 <=> y = 0)
  BY AbsFacts
<1>2. CASE a = 0 \/ b = 0
  <2>1. GreatestDivisor(a, b) = x + y
    BY <1>1, <1>2 DEF GreatestDivisor
  <2>2. CASE a = 0
    <3>1. x = 0 /\ y >= 1 /\ x + y = y
      BY <1>1, <2>2
    <3>. QED
      BY <1>1, <2>1, <3>1, GreatestOfZero
  <2>3. CASE b = 0
    <3>1. y = 0 /\ x >= 1 /\ x + y = x
      BY <1>1, <2>3
    <3>. QED
      BY <1>1, <2>1, <3>1, GreatestOfZero
  <2>. QED
    BY <1>2, <2>2, <2>3
<1>3. CASE a # 0 /\ b # 0
  <2>. DEFINE S == {d \in 1 .. AbsOf(a) : a % d = 0 /\ AbsOf(b) % d = 0}
  <2>1. GreatestDivisor(a, b) = Max(S)
    BY <1>3 DEF GreatestDivisor
  <2>2. x >= 1 /\ y >= 1
    BY <1>1, <1>3
  <2>3. ASSUME NEW d \in Nat, d >= 1
        PROVE  /\ a % d = 0 <=> IsMultiple(x, d)
               /\ y % d = 0 <=> IsMultiple(y, d)
               /\ IsMultiple(x, d) => d <= x
    <3>1. IsMultiple(AbsOf(a), d) <=> IsMultiple(a, d)
      BY AbsMultiple
    <3>2. a % d = 0 <=> IsMultiple(a, d)
      BY <2>3, Multiples
    <3>3. y % d = 0 <=> IsMultiple(y, d)
      BY <2>3, Multiples
    <3>4. IsMultiple(x, d) => d <= AbsOf(x) /\ AbsOf(x) = x
      BY <2>2, <2>3, MultiplesAreLarge, AbsFacts
    <3>. QED
      BY <1>1, <3>1, <3>2, <3>3, <3>4
  <2>4. \A d : d \in S <=> d \in Nat /\ d >= 1 /\ IsMultiple(x, d) /\ IsMultiple(y, d)
    <3>1. ASSUME NEW d, d \in S PROVE d \in Nat /\ d >= 1 /\ IsMultiple(x, d) /\ IsMultiple(y, d)
      <4>1. d \in Nat /\ d >= 1 /\ a % d = 0 /\ y % d = 0
        BY <1>1, <3>1
      <4>. QED
        BY <2>3, <4>1
    <3>2. ASSUME NEW d \in Nat, d >= 1, IsMultiple(x, d), IsMultiple(y, d) PROVE d \in S
      <4>1. a % d = 0 /\ y % d = 0 /\ d <= x
        BY <2>3, <3>2
      <4>. QED
        BY <1>1, <3>2, <4>1
    <3>. QED
      BY <3>1, <3>2
  <2>5. S \in SUBSET (0 .. x)
    BY <1>1
  <2>. HIDE DEF S
  <2>6. 1 \in S
    <3>1. x = 1 * x /\ y = 1 * y /\ x \in Int /\ y \in Int
      OBVIOUS
    <3>2. IsMultiple(x, 1) /\ IsMultiple(y, 1)
      BY <3>1 DEF IsMultiple
    <3>. QED
      BY <2>4, <3>2
  <2>7. S # {}
    BY <2>6
  <2>8. Max(S) \in S /\ \A d \in S : d <= Max(S)
    BY <2>5, <2>7, MaxOf
  <2>9. IsGreatest(Max(S), x, y)
    BY <2>4, <2>8 DEF IsGreatest
  <2>. QED
    BY <1>1, <2>1, <2>9
<1>. QED
  BY <1>2, <1>3

\* A remainder keeps the common divisors.
LEMMA RemainderKeepsDivisors ==
  ASSUME NEW a \in Int, NEW b \in Nat, b >= 1
  PROVE  SameDivisors(a, b, a % b, b)
<1>1. PICK q \in Int, r \in Int : q = a \div b /\ r = a % b /\ a = b * q + r
  BY Divides
<1>2. PICK p \in Int : p = b * q
  BY Distributes
<1>3. ASSUME NEW d \in Nat, d >= 1, IsMultiple(b, d) PROVE IsMultiple(a, d) <=> IsMultiple(r, d)
  <2>1. IsMultiple(p, d)
    <3>1. b \in Int /\ d \in Int
      OBVIOUS
    <3>. QED
      BY <1>2, <1>3, <3>1, MultiplesMultiply
  <2>2. ASSUME IsMultiple(a, d) PROVE IsMultiple(r, d)
    <3>1. IsMultiple(a - p, d)
      BY <2>1, <2>2, MultiplesAdd
    <3>2. a - p = r
      BY <1>1, <1>2
    <3>. QED
      BY <3>1, <3>2
  <2>3. ASSUME IsMultiple(r, d) PROVE IsMultiple(a, d)
    <3>1. IsMultiple(p + r, d)
      BY <2>1, <2>3, MultiplesAdd
    <3>2. p + r = a
      BY <1>1, <1>2
    <3>. QED
      BY <3>1, <3>2
  <2>. QED
    BY <2>2, <2>3
<1>. QED
  BY <1>1, <1>3 DEF SameDivisors

\* The order of the two does not matter
LEMMA DivisorsCommute ==
  ASSUME NEW a, NEW b, NEW g
  PROVE  IsGreatest(g, a, b) <=> IsGreatest(g, b, a)
BY DEF IsGreatest

\* The least common multiple: the division comes first.
LEMMA LeastMultiple ==
  ASSUME NEW u \in Nat, NEW v \in Nat, NEW g \in Nat, g >= 1, IsMultiple(v, g)
  PROVE  u * (v \div g) = (u * v) \div g /\ (u * v) \div g \in Nat /\ v \div g \in Nat
<1>1. PICK k \in Int : v = g * k
  BY DEF IsMultiple
<1>2. PICK zero \in Int : zero = 0
  OBVIOUS
<1>3. v = g * k + zero /\ 0 <= zero /\ zero < g
  <2>1. g * k \in Int
    BY Distributes
  <2>. QED
    BY <1>1, <1>2, <2>1
<1>4. v \div g = k
  <2>1. v \in Int /\ k \in Int
    OBVIOUS
  <2>. QED
    BY <1>3, <2>1, DivisionIsUnique
<1>5. k >= 0
  <2>1. v >= 0 => v \div g >= 0
    BY Divides
  <2>. QED
    BY <1>4, <2>1
<1>6. PICK w \in Nat, p \in Nat : w = u * v /\ p = u * k
  <2>1. k \in Nat
    BY <1>5
  <2>. QED
    BY <2>1, ProductIsNat
<1>7. w = g * p + zero
  <2>1. u * (g * k) = g * (u * k)
    BY ProductsAssociate
  <2>2. g * p \in Int
    BY Distributes
  <2>. QED
    BY <1>1, <1>2, <1>6, <2>1, <2>2
<1>8. w \div g = p
  <2>1. w \in Int /\ p \in Int
    OBVIOUS
  <2>. QED
    BY <1>3, <1>7, <2>1, DivisionIsUnique
<1>. QED
  BY <1>4, <1>5, <1>6, <1>8

-----------------------------------------------------------------------------
(* The loop of the greatest divisor *)

\* A result that is one of the integers.
LEMMA IntegerIsExact ==
  ASSUME NEW r \in Integer, NEW v, ValueOf(r) = v
  PROVE  Exactly(r, v, MaxDigits) /\ v \in Int
<1>1. AbsOf(v) = Magnitude(r) /\ Magnitude(r) < Limit /\ Limit \in Nat /\ Magnitude(r) \in Nat /\ r \in Number /\ v \in Int
  BY IntegerValues, LimitFacts
<1>2. ~ (AbsOf(v) >= PowerOf(Base, MaxDigits))
  BY <1>1, LimitFacts
<1>. QED
  BY <1>1, <1>2 DEF Exactly

\* Small integers
LEMMA SmallInteger ==
  ASSUME NEW v \in Nat, v <= 10 \/ v < Base
  PROVE  /\ FromInt(v) \in Integer /\ FromInt(v).sign = 1 /\ Magnitude(FromInt(v)) = v /\ ValueOf(FromInt(v)) = v
         /\ Len(FromInt(v).digits) <= 1
<1>1. Base \in Nat /\ Base > 10 /\ MaxDigits \in Nat /\ MaxDigits >= 1
  BY BaseIsPositive, IntegerAssumption
<1>2. v \in Int /\ -Base < v /\ v < Base
  BY <1>1
<1>3. FromInt(v) \in Number /\ ValueOf(FromInt(v)) = v /\ Len(FromInt(v).digits) <= 1
  BY <1>2, FromIntFacts
<1>4. Len(FromInt(v).digits) \in Nat
  BY <1>3, NumberFacts
<1>5. FromInt(v) \in Integer
  BY <1>1, <1>3, <1>4 DEF Integer
<1>6. Magnitude(FromInt(v)) = v /\ FromInt(v).sign = 1
  BY <1>3, NatValue
<1>. QED
  BY <1>3, <1>5, <1>6

\* Absolute values of integers
LEMMA AbsIsInteger ==
  ASSUME NEW x \in Integer
  PROVE  /\ Abs(x) \in Integer /\ Abs(x).sign = 1 /\ Magnitude(Abs(x)) = Magnitude(x) /\ ValueOf(Abs(x)) = Magnitude(x)
<1>1. x \in Number /\ Len(x.digits) <= MaxDigits
  BY DEF Integer
<1>2. 1 \in {1, -1}
  OBVIOUS
<1>3. PICK one \in {1, -1} : one = 1
  OBVIOUS
<1>4. /\ SetSign(x, one) \in Number /\ Magnitude(SetSign(x, one)) = Magnitude(x)
      /\ SetSign(x, one).sign = (IF Magnitude(x) = 0 THEN 1 ELSE one)
      /\ SetSign(x, one).digits = x.digits
      /\ ValueOf(SetSign(x, one)) = one * Magnitude(x)
  BY <1>1, SetSignFacts
<1>5. Magnitude(x) \in Nat
  BY <1>1, NumberFacts
<1>. QED
  BY <1>1, <1>3, <1>4, <1>5 DEF Abs, Integer

\* The two numbers whose greatest divisor is asked for, and its loop.
GcdLoop(l) ==
  \E i \in Integer, j \in Integer :
    /\ l = [i |-> i, j |-> j]
    /\ i.sign = 1 /\ j.sign = 1
    /\ IsGreatest(GreatestDivisor(ValueOf(call.a), ValueOf(call.b)), Magnitude(i), Magnitude(j))
    /\ call.op = "lcm" => ValueOf(call.a) # 0 /\ ValueOf(call.b) # 0

\* The loop begins with the absolute values
LEMMA StartGCDIsExact ==
  ASSUME call \in Calls, StartGCD
  PROVE  Returned' \/ (Loop(loop') /\ GcdLoop(loop'))
<1>1. PICK a \in Integer, b \in Integer : a = call.a /\ b = call.b
  BY CallFacts
<1>2. call.op \in {"gcd", "lcm"}
  BY DEF StartGCD, Called
<1>3. PICK x \in Int, y \in Int, X \in Nat, Y \in Nat :
        x = ValueOf(a) /\ y = ValueOf(b) /\ X = Magnitude(a) /\ Y = Magnitude(b) /\ X = AbsOf(x) /\ Y = AbsOf(y)
  BY IntegerValues
<1>4. (IsZero(a) <=> x = 0) /\ (IsZero(b) <=> y = 0)
  BY <1>3, IntegerValues, ZeroAndOne
<1>5. PICK i \in Integer, j \in Integer : /\ i = Abs(a) /\ i.sign = 1 /\ Magnitude(i) = X /\ ValueOf(i) = X
                                          /\ j = Abs(b) /\ j.sign = 1 /\ Magnitude(j) = Y /\ ValueOf(j) = Y
  BY <1>3, AbsIsInteger
<1>6. Compare(i, j) = 0 <=> X = Y
  <2>1. i \in Number /\ j \in Number
    BY IntegerValues
  <2>2. Compare(i, j) = IF X < Y THEN -1 ELSE IF X = Y THEN 0 ELSE 1
    BY <1>5, <2>1, ComparisonIsExact
  <2>. QED
    BY <2>2
<1>7. CASE call.op = "lcm" /\ (IsZero(a) \/ IsZero(b))
  <2>1. Return(<<Zero>>)
    BY <1>1, <1>7 DEF StartGCD
  <2>2. Expected = <<0>>
    BY <1>1, <1>3, <1>4, <1>7 DEF Expected
  <2>3. Zero \in Integer /\ ValueOf(Zero) = 0
    <3>1. PICK zero \in Nat : zero = 0 /\ zero <= 10
      OBVIOUS
    <3>2. FromInt(zero) \in Integer /\ ValueOf(FromInt(zero)) = zero
      BY <3>1, SmallInteger
    <3>. QED
      BY <3>1, <3>2 DEF Zero
  <2>4. Exactly(Zero, 0, MaxDigits) /\ 0 \in Int
    BY <2>3, IntegerIsExact
  <2>. QED
    BY <2>1, <2>2, <2>4, ReturnsExactly
<1>8. CASE ~ (call.op = "lcm" /\ (IsZero(a) \/ IsZero(b))) /\ X = Y
  <2>1. Return(<<i>>)
    BY <1>1, <1>5, <1>6, <1>8 DEF StartGCD
  <2>2. GreatestDivisor(x, y) = X
    <3>1. CASE x = 0
      <4>1. X = 0 /\ Y = 0 /\ AbsOf(x) + AbsOf(y) = 0
        BY <1>3, <1>8, <3>1 DEF AbsOf
      <4>. QED
        BY <3>1, <4>1 DEF GreatestDivisor
    <3>2. CASE x # 0
      <4>1. IsGreatest(GreatestDivisor(x, y), X, Y)
        BY <1>3, <3>2, GreatestDivisorFacts
      <4>2. X >= 1
        BY <1>3, <3>2 DEF AbsOf
      <4>3. IsGreatest(X, X, Y)
        BY <1>8, <4>2, GreatestOfZero
      <4>. QED
        BY <4>1, <4>3, GreatestIsUnique
    <3>. QED
      BY <3>1, <3>2
  <2>3. CASE call.op = "gcd"
    <3>1. Expected = <<X>>
      BY <1>1, <1>3, <2>2, <2>3 DEF Expected
    <3>2. Exactly(i, X, MaxDigits) /\ X \in Int
      BY <1>5, IntegerIsExact
    <3>. QED
      BY <2>1, <3>1, <3>2, ReturnsExactly
  <2>4. CASE call.op = "lcm"
    <3>1. x # 0 /\ y # 0
      BY <1>4, <1>8, <2>4
    <3>2. X >= 1
      BY <1>3, <3>1 DEF AbsOf
    <3>3. AbsOf(x * y) = X * X
      <4>1. AbsOf(x * y) = AbsOf(x) * AbsOf(y)
        BY AbsProduct
      <4>. QED
        BY <1>3, <1>8, <4>1
    <3>4. Expected = <<AbsOf(x * y) \div GreatestDivisor(x, y)>>
      BY <1>1, <1>3, <2>4, <3>1 DEF Expected
    <3>5. (X * X) \div X = X
      <4>1. PICK q \in Nat, zero \in Int : q = X * X /\ zero = 0
        BY ProductIsNat
      <4>2. q = X * X + zero /\ q \in Int /\ X \in Int /\ 0 <= zero /\ zero < X
        BY <3>2, <4>1
      <4>3. q \div X = X
        BY <4>2, DivisionIsUnique
      <4>. QED
        BY <4>1, <4>3
    <3>6. Expected = <<X>>
      BY <2>2, <3>3, <3>4, <3>5
    <3>7. Exactly(i, X, MaxDigits) /\ X \in Int
      BY <1>5, IntegerIsExact
    <3>. QED
      BY <2>1, <3>6, <3>7, ReturnsExactly
  <2>. QED
    BY <1>2, <2>3, <2>4
<1>9. CASE ~ (call.op = "lcm" /\ (IsZero(a) \/ IsZero(b))) /\ X # Y
  <2>1. Loop([i |-> i, j |-> j])
    BY <1>1, <1>5, <1>6, <1>9 DEF StartGCD
  <2>2. loop' = [i |-> i, j |-> j] /\ call' = call
    BY <2>1 DEF Loop
  <2>3. x # 0 \/ y # 0
    BY <1>3, <1>9
  <2>4. IsGreatest(GreatestDivisor(x, y), X, Y)
    BY <1>3, <2>3, GreatestDivisorFacts
  <2>5. call.op = "lcm" => x # 0 /\ y # 0
    BY <1>4, <1>9
  <2>6. GcdLoop(loop')
    BY <1>1, <1>3, <1>5, <2>2, <2>4, <2>5 DEF GcdLoop
  <2>. QED
    BY <2>1, <2>2, <2>6
<1>. QED
  BY <1>7, <1>8, <1>9

\* What the loop returns, and the multiple that LCM makes of it
LEMMA ReturnGCDIsExact ==
  ASSUME call \in Calls, call.op \in {"gcd", "lcm"}, NEW g \in Integer, g.sign = 1, ReturnGCD(g),
         Magnitude(g) >= 1, Magnitude(g) = GreatestDivisor(ValueOf(call.a), ValueOf(call.b)),
         IsMultiple(Magnitude(call.b), Magnitude(g)),
         call.op = "lcm" => ValueOf(call.a) # 0 /\ ValueOf(call.b) # 0
  PROVE  Returned'
<1>1. PICK a \in Integer, b \in Integer : a = call.a /\ b = call.b
  BY CallFacts
<1>3. PICK x \in Int, y \in Int, X \in Nat, Y \in Nat :
        x = ValueOf(a) /\ y = ValueOf(b) /\ X = Magnitude(a) /\ Y = Magnitude(b) /\ X = AbsOf(x) /\ Y = AbsOf(y)
  BY IntegerValues
<1>4. PICK G \in Nat : G = Magnitude(g) /\ ValueOf(g) = G /\ G >= 1 /\ G = GreatestDivisor(x, y) /\ IsMultiple(Y, G)
  BY <1>1, <1>3, IntegerValues
<1>5. CASE call.op = "gcd"
  <2>1. Return(<<g>>)
    BY <1>5 DEF ReturnGCD
  <2>2. Expected = <<G>>
    BY <1>1, <1>3, <1>4, <1>5 DEF Expected
  <2>3. Exactly(g, G, MaxDigits) /\ G \in Int
    BY <1>4, IntegerIsExact
  <2>. QED
    BY <2>1, <2>2, <2>3, ReturnsExactly
<1>6. CASE call.op = "lcm"
  <2>1. PICK i \in Integer, j \in Integer : /\ i = Abs(a) /\ i.sign = 1 /\ Magnitude(i) = X /\ ValueOf(i) = X
                                            /\ j = Abs(b) /\ j.sign = 1 /\ Magnitude(j) = Y /\ ValueOf(j) = Y
    BY <1>3, AbsIsInteger
  <2>2. i \in Number /\ j \in Number /\ g \in Number /\ Len(j.digits) <= MaxDigits /\ g.digits # <<>>
    <3>1. i \in Number /\ j \in Number /\ g \in Number /\ Len(j.digits) <= MaxDigits
      BY IntegerValues
    <3>2. Magnitude(g) # 0
      BY <1>4
    <3>. QED
      BY <3>1, <3>2, NumberFacts
  <2>3. IsDivided(Udiv(j, g), j, g)
    BY <2>2, UdivIsExact
  <2>4. PICK q \in Number : q = Udiv(j, g).quotient /\ q.sign = 1 /\ Magnitude(q) = Y \div G
    BY <1>4, <2>1, <2>3 DEF IsDivided
  <2>5. PICK k \in Nat, w \in Nat : k = Y \div G /\ w = (X * Y) \div G /\ X * k = w
    <3>1. X * (Y \div G) = (X * Y) \div G /\ (X * Y) \div G \in Nat /\ Y \div G \in Nat
      BY <1>4, LeastMultiple
    <3>. QED
      BY <3>1
  <2>6. Return(<<Mult(i, q, 0)>>)
    BY <1>1, <1>6, <2>1, <2>4 DEF ReturnGCD
  <2>7. ValueOf(q) = k
    BY <2>4, <2>5, ValueFacts
  <2>8. IsProduct(w, i, q)
    BY <2>1, <2>5, <2>7 DEF IsProduct
  <2>9. Exactly(Mult(i, q, 0), w, MaxDigits)
    BY <2>2, <2>8, ProductIsExact
  <2>10. Expected = <<w>>
    <3>1. Expected = <<AbsOf(x * y) \div GreatestDivisor(x, y)>>
      BY <1>1, <1>3, <1>6 DEF Expected
    <3>2. AbsOf(x * y) = X * Y
      BY <1>3, AbsProduct
    <3>. QED
      BY <1>4, <2>5, <3>1, <3>2
  <2>11. w \in Int
    OBVIOUS
  <2>. QED
    BY <2>6, <2>9, <2>10, <2>11, ReturnsExactly
<1>. QED
  BY <1>5, <1>6

\* A turn keeps the greatest divisor, or returns
LEMMA TurnsOfGCD ==
  ASSUME call \in Calls, call.op \in {"gcd", "lcm"}, GcdLoop(loop), GCDTurn
  PROVE  Returned' \/ (Loop(loop') /\ GcdLoop(loop'))
<1>1. PICK a \in Integer, b \in Integer : a = call.a /\ b = call.b
  BY CallFacts
<1>2. PICK i \in Integer, j \in Integer :
        /\ loop = [i |-> i, j |-> j]
        /\ i.sign = 1 /\ j.sign = 1
        /\ IsGreatest(GreatestDivisor(ValueOf(call.a), ValueOf(call.b)), Magnitude(i), Magnitude(j))
        /\ call.op = "lcm" => ValueOf(call.a) # 0 /\ ValueOf(call.b) # 0
  BY DEF GcdLoop
<1>3. loop.i = i /\ loop.j = j
  BY <1>2
<1>4. PICK I \in Nat, J \in Nat, G \in Nat :
        /\ I = Magnitude(i) /\ ValueOf(i) = I /\ J = Magnitude(j) /\ ValueOf(j) = J
        /\ G = GreatestDivisor(ValueOf(call.a), ValueOf(call.b)) /\ IsGreatest(G, I, J)
  <2>1. GreatestDivisor(ValueOf(call.a), ValueOf(call.b)) \in Nat
    BY <1>2 DEF IsGreatest
  <2>. QED
    BY <1>2, <2>1, IntegerValues
<1>5. i \in Number /\ j \in Number /\ Len(i.digits) <= MaxDigits /\ Len(j.digits) <= MaxDigits
  BY IntegerValues
<1>6. (IsZero(i) <=> I = 0) /\ (IsZero(j) <=> J = 0) /\ (Compare(i, j) > 0 <=> I > J)
  <2>1. Compare(i, j) = IF I < J THEN -1 ELSE IF I = J THEN 0 ELSE 1
    BY <1>4, <1>5, ComparisonIsExact
  <2>2. (IsZero(i) <=> ValueOf(i) = 0) /\ (IsZero(j) <=> ValueOf(j) = 0)
    BY <1>5, ZeroAndOne
  <2>. QED
    BY <1>4, <2>1, <2>2
<1>7. ASSUME NEW g \in Integer, g.sign = 1, ReturnGCD(g), Magnitude(g) = G
      PROVE  Returned'
  <2>1. G \in Nat /\ G >= 1
    BY <1>4 DEF IsGreatest
  <2>2. IsMultiple(Magnitude(b), G)
    <3>1. PICK x \in Int, y \in Int, Y \in Nat : x = ValueOf(a) /\ y = ValueOf(b) /\ Y = Magnitude(b) /\ Y = AbsOf(y)
      BY IntegerValues
    <3>2. CASE x # 0 \/ y # 0
      <4>1. IsGreatest(G, AbsOf(x), AbsOf(y))
        BY <1>1, <1>4, <3>1, <3>2, GreatestDivisorFacts
      <4>. QED
        BY <3>1, <4>1 DEF IsGreatest
    <3>3. CASE x = 0 /\ y = 0
      <4>1. Y = 0
        BY <3>1, <3>3 DEF AbsOf
      <4>2. G \in Int
        BY <2>1
      <4>3. IsMultiple(0, G)
        BY <4>2, ZeroIsMultiple
      <4>. QED
        BY <3>1, <4>1, <4>3
    <3>. QED
      BY <3>2, <3>3
  <2>3. Magnitude(g) = GreatestDivisor(ValueOf(call.a), ValueOf(call.b)) /\ Magnitude(g) >= 1
    BY <1>4, <1>7, <2>1
  <2>4. IsMultiple(Magnitude(call.b), Magnitude(g))
    BY <1>1, <1>7, <2>2
  <2>. QED
    BY <1>2, <1>7, <2>3, <2>4, ReturnGCDIsExact
<1>8. CASE I = 0
  <2>1. J >= 1 /\ IsGreatest(J, I, J)
    <3>1. J # 0
      <4>. SUFFICES ASSUME J = 0 PROVE FALSE
        OBVIOUS
      <4>1. G \in Nat /\ G + 1 \in Nat /\ G + 1 \in Int /\ G + 1 >= 1
        BY <1>4 DEF IsGreatest
      <4>2. IsMultiple(0, G + 1)
        BY <4>1, ZeroIsMultiple
      <4>3. G + 1 <= G
        BY <1>4, <1>8, <4>1, <4>2 DEF IsGreatest
      <4>. QED
        BY <4>1, <4>3
    <3>2. J >= 1
      BY <3>1
    <3>3. IsGreatest(J, 0, J)
      BY <3>2, GreatestOfZero
    <3>. QED
      BY <1>8, <3>2, <3>3
  <2>2. J = G
    BY <1>4, <2>1, GreatestIsUnique
  <2>3. ReturnGCD(j)
    BY <1>3, <1>6, <1>8 DEF GCDTurn
  <2>. QED
    BY <1>2, <1>4, <1>7, <2>2, <2>3
<1>9. CASE I # 0 /\ J = 0
  <2>1. I >= 1
    BY <1>9
  <2>2. IsGreatest(I, I, J)
    BY <1>9, <2>1, GreatestOfZero
  <2>3. I = G
    BY <1>4, <2>2, GreatestIsUnique
  <2>4. ReturnGCD(i)
    BY <1>3, <1>6, <1>9 DEF GCDTurn
  <2>. QED
    BY <1>2, <1>4, <1>7, <2>3, <2>4
\* The remainder of two integers.
<1>10. ASSUME NEW u \in Integer, NEW v \in Integer, u.sign = 1, Magnitude(v) >= 1
       PROVE  /\ Udiv(u, v).remainder \in Integer /\ Udiv(u, v).remainder.sign = 1
              /\ Magnitude(Udiv(u, v).remainder) = Magnitude(u) % Magnitude(v)
  <2>1. u \in Number /\ v \in Number /\ Len(u.digits) <= MaxDigits /\ v.digits # <<>>
    <3>1. Magnitude(v) # 0
      BY <1>10
    <3>. QED
      BY <3>1, IntegerValues, NumberFacts
  <2>2. IsDivided(Udiv(u, v), u, v)
    BY <2>1, UdivIsExact
  <2>3. PICK r \in Number, U \in Nat, V \in Nat :
          r = Udiv(u, v).remainder /\ r.sign = 1 /\ U = Magnitude(u) /\ V = Magnitude(v) /\ Magnitude(r) = U % V
    BY <1>10, <2>2, IntegerValues DEF IsDivided
  <2>4. V >= 1 /\ V < Limit /\ Limit \in Nat
    BY <1>10, <2>3, IntegerValues, LimitFacts
  <2>5. U % V \in Int /\ 0 <= U % V /\ U % V < V
    <3>1. U \in Int
      OBVIOUS
    <3>. QED
      BY <2>4, <3>1, Divides
  <2>6. Magnitude(r) < Limit
    BY <2>3, <2>4, <2>5
  <2>7. r \in Integer
    BY <2>6, IntegerFacts, LimitFacts
  <2>. QED
    BY <2>3, <2>7
<1>11. CASE I # 0 /\ J # 0 /\ I > J
  <2>1. Loop([loop EXCEPT !.i = Udiv(i, j).remainder])
    BY <1>3, <1>6, <1>11 DEF GCDTurn
  <2>2. J >= 1
    BY <1>11
  <2>3. PICK r \in Integer : r = Udiv(i, j).remainder /\ r.sign = 1 /\ Magnitude(r) = I % J
    BY <1>2, <1>4, <1>10, <2>2
  <2>4. loop' = [i |-> r, j |-> j] /\ call' = call
    BY <1>2, <2>1, <2>3 DEF Loop
  <2>5. IsGreatest(G, I % J, J)
    <3>1. I \in Int
      OBVIOUS
    <3>2. SameDivisors(I, J, I % J, J)
      BY <2>2, <3>1, RemainderKeepsDivisors
    <3>. QED
      BY <1>4, <3>2, SameGreatest
  <2>6. GcdLoop(loop')
    BY <1>2, <1>4, <2>3, <2>4, <2>5 DEF GcdLoop
  <2>. QED
    BY <2>1, <2>6 DEF Loop
<1>12. CASE I # 0 /\ J # 0 /\ ~ (I > J)
  <2>1. Loop([loop EXCEPT !.j = Udiv(j, i).remainder])
    BY <1>3, <1>6, <1>12 DEF GCDTurn
  <2>2. I >= 1
    BY <1>12
  <2>3. PICK r \in Integer : r = Udiv(j, i).remainder /\ r.sign = 1 /\ Magnitude(r) = J % I
    BY <1>2, <1>4, <1>10, <2>2
  <2>4. loop' = [i |-> i, j |-> r] /\ call' = call
    BY <1>2, <2>1, <2>3 DEF Loop
  <2>5. IsGreatest(G, I, J % I)
    <3>1. J \in Int
      OBVIOUS
    <3>2. SameDivisors(J, I, J % I, I)
      BY <2>2, <3>1, RemainderKeepsDivisors
    <3>3. IsGreatest(G, J, I)
      BY <1>4, DivisorsCommute
    <3>4. IsGreatest(G, J % I, I)
      BY <3>2, <3>3, SameGreatest
    <3>. QED
      BY <3>4, DivisorsCommute
  <2>6. GcdLoop(loop')
    BY <1>2, <1>4, <2>3, <2>4, <2>5 DEF GcdLoop
  <2>. QED
    BY <2>1, <2>6 DEF Loop
<1>. QED
  BY <1>8, <1>9, <1>11, <1>12

-----------------------------------------------------------------------------
(* The loop of the power *)

\* i1 * i2^exp stays the power that is asked for.
IsPower(x, y, e, v) ==
  /\ v = x * PowerOf(y, e)
  /\ x = 0 => y = 0

\* The loop: i1 i2^exp is the power, and no product exceeds it (integer.cpp:858-877)
PowerLoop(l) ==
  \E i1 \in Integer, i2 \in Integer, e \in Integer :
    /\ l = [i1 |-> i1, i2 |-> i2, exp |-> e]
    /\ e.sign = 1 /\ Magnitude(e) >= 1
    /\ IsPower(ValueOf(i1), ValueOf(i2), Magnitude(e), PowerOf(ValueOf(call.a), ValueOf(call.b)))

\* One turn, on the integers.
IsPowerTurn(x, y, e, x1, y1) == y1 = y * y /\ x1 = (IF e % 2 = 1 THEN x * y ELSE x)

\* The arithmetic of a turn
LEMMA PowerIsKept ==
  ASSUME NEW x \in Int, NEW y \in Int, NEW e \in Nat, e >= 2, NEW v, IsPower(x, y, e, v),
         NEW x1 \in Int, NEW y1 \in Int, IsPowerTurn(x, y, e, x1, y1)
  PROVE  /\ IsPower(x1, y1, e \div 2, v) /\ e \div 2 \in Nat /\ e \div 2 >= 1 /\ v \in Int
         /\ e \div 2 <= e
         /\ AbsOf(y1) <= AbsOf(v) /\ (e % 2 = 1 => AbsOf(x1) <= AbsOf(v))
<1>0. y1 = y * y /\ x1 = (IF e % 2 = 1 THEN x * y ELSE x)
  BY DEF IsPowerTurn
<1>1. PICK h \in Nat, r \in Nat : h = e \div 2 /\ r = e % 2 /\ e = h + h + r /\ r < 2 /\ h >= 1 /\ h <= e
  BY SMT
<1>2. PICK p \in Int : p = PowerOf(y, h + h) /\ p = PowerOf(y1, h)
  <2>1. h + h \in Nat
    OBVIOUS
  <2>2. PowerOf(y, h + h) \in Int
    BY <2>1, Powers
  <2>3. PowerOf(y * y, h) = PowerOf(y, h + h)
    BY PowersOfSquare
  <2>. QED
    BY <1>0, <2>2, <2>3
<1>3. v = x1 * p
  <2>1. CASE r = 0
    <3>1. e = h + h /\ x1 = x
      BY <1>0, <1>1, <2>1
    <3>. QED
      BY <1>2, <3>1 DEF IsPower
  <2>2. CASE r = 1
    <3>1. e = (h + h) + 1 /\ x1 = x * y /\ h + h \in Nat
      BY <1>0, <1>1, <2>2
    <3>2. PowerOf(y, (h + h) + 1) = y * PowerOf(y, h + h)
      BY <3>1, Powers
    <3>3. v = x * (y * p)
      BY <1>2, <3>1, <3>2 DEF IsPower
    <3>4. x * (y * p) = (x * y) * p
      BY ProductsAssociate
    <3>. QED
      BY <3>1, <3>3, <3>4
  <2>3. r = 0 \/ r = 1
    BY <1>1
  <2>. QED
    BY <2>1, <2>2, <2>3
<1>4. x1 = 0 => y = 0
  <2>. SUFFICES ASSUME x1 = 0, y # 0 PROVE FALSE
    OBVIOUS
  <2>1. x # 0
    BY DEF IsPower
  <2>2. x * y = 0
    BY <1>0, <2>1
  <2>3. AbsOf(x * y) = AbsOf(x) * AbsOf(y)
    BY AbsProduct
  <2>4. PICK X \in Nat, Y \in Nat : X = AbsOf(x) /\ Y = AbsOf(y) /\ 1 <= X /\ 1 <= Y
    <3>1. AbsOf(x) \in Nat /\ AbsOf(y) \in Nat /\ AbsOf(x) # 0 /\ AbsOf(y) # 0
      BY <2>1, AbsFacts
    <3>2. 1 <= AbsOf(x) /\ 1 <= AbsOf(y)
      BY <3>1
    <3>. QED
      BY <3>1, <3>2
  <2>5. 1 * Y <= X * Y
    BY <2>4, ProductGrows
  <2>6. X * Y = 0
    BY <2>2, <2>3, <2>4 DEF AbsOf
  <2>. QED
    BY <2>4, <2>5, <2>6
<1>5. y = 0 => y1 = 0
  BY <1>0
<1>6. IsPower(x1, y1, h, v)
  BY <1>2, <1>3, <1>4, <1>5 DEF IsPower
<1>7. v \in Int /\ AbsOf(v) = AbsOf(x1) * AbsOf(p)
  <2>1. x1 * p \in Int /\ AbsOf(x1 * p) = AbsOf(x1) * AbsOf(p)
    BY AbsProduct
  <2>. QED
    BY <1>3, <2>1
<1>8. PICK X \in Nat, Y \in Nat, P \in Nat, V \in Nat : X = AbsOf(x1) /\ Y = AbsOf(y1) /\ P = AbsOf(p) /\ V = AbsOf(v)
                                      /\ V = X * P /\ P = PowerOf(Y, h)
  <2>1. AbsOf(x1) \in Nat /\ AbsOf(y1) \in Nat /\ AbsOf(p) \in Nat /\ AbsOf(v) \in Nat
    BY <1>7, AbsFacts
  <2>2. AbsOf(PowerOf(y1, h)) = PowerOf(AbsOf(y1), h)
    BY AbsPower
  <2>. QED
    BY <1>2, <1>7, <2>1, <2>2
<1>9. CASE y = 0
  <2>1. y1 = 0 /\ AbsOf(y1) = 0
    BY <1>5, <1>9 DEF AbsOf
  <2>2. e % 2 = 1 => x1 = 0
    BY <1>0, <1>9
  <2>3. e % 2 = 1 => AbsOf(x1) = 0
    BY <2>2 DEF AbsOf
  <2>. QED
    BY <1>1, <1>6, <1>7, <1>8, <2>1, <2>3
<1>10. CASE y # 0
  <2>1. X >= 1
    BY <1>4, <1>8, <1>10, AbsFacts
  <2>2. Y >= 1
    <3>1. AbsOf(y * y) = AbsOf(y) * AbsOf(y)
      BY AbsProduct
    <3>2. PICK z \in Nat : z = AbsOf(y) /\ 1 <= z
      <4>1. AbsOf(y) \in Nat /\ AbsOf(y) # 0
        BY <1>10, AbsFacts
      <4>2. 1 <= AbsOf(y)
        BY <4>1
      <4>. QED
        BY <4>1, <4>2
    <3>3. 1 * z <= z * z
      BY <3>2, ProductGrows
    <3>. QED
      BY <1>0, <1>8, <3>1, <3>2, <3>3
  <2>3. Y <= P /\ P >= 1
    <3>1. PowerOf(Y, 1) <= PowerOf(Y, h) /\ PowerOf(Y, h) >= 1
      BY <1>1, <2>2, PowersGrow
    <3>2. PowerOf(Y, 1) = Y
      BY PowerOfOne
    <3>. QED
      BY <1>8, <3>1, <3>2
  <2>4. P <= V
    <3>1. 1 <= X
      BY <2>1
    <3>2. 1 * P <= X * P
      BY <3>1, ProductGrows
    <3>. QED
      BY <1>8, <3>2
  <2>5. X <= V
    <3>1. 1 <= P
      BY <2>3
    <3>2. X * 1 <= X * P
      BY <3>1, ProductGrows
    <3>. QED
      BY <1>8, <3>2
  <2>6. Y <= V
    BY <2>3, <2>4
  <2>. QED
    BY <1>1, <1>6, <1>7, <1>8, <2>5, <2>6
<1>. QED
  BY <1>9, <1>10

\* The loop begins with one
LEMMA StartPowerIsExact ==
  ASSUME call \in Calls, StartPower
  PROVE  Returned' \/ (Loop(loop') /\ PowerLoop(loop'))
<1>1. PICK a \in Integer, b \in Integer : a = call.a /\ b = call.b
  BY CallFacts
<1>2. call.op = "power" /\ b.sign = 1
  BY <1>1, CallFacts DEF StartPower, Called
<1>3. PICK x \in Int, n \in Nat : x = ValueOf(a) /\ n = ValueOf(b) /\ n = Magnitude(b)
  BY <1>2, IntegerValues
<1>4. IsZero(b) <=> n = 0
  BY <1>3, IntegerValues, ZeroAndOne
<1>5. PICK v \in Int : v = PowerOf(x, n) /\ PowerOf(x, 0) = 1
  BY Powers
<1>6. One \in Integer /\ ValueOf(One) = 1
  <2>1. PICK one \in Nat : one = 1 /\ one <= 10
    OBVIOUS
  <2>2. FromInt(one) \in Integer /\ ValueOf(FromInt(one)) = one
    BY <2>1, SmallInteger
  <2>. QED
    BY <2>1, <2>2 DEF One
<1>7. CASE n = 0
  <2>1. Return(<<One>>)
    BY <1>1, <1>4, <1>7 DEF StartPower
  <2>2. Expected = <<v>>
    BY <1>1, <1>2, <1>3, <1>5 DEF Expected
  <2>3. v = 1
    BY <1>5, <1>7
  <2>4. Exactly(One, v, MaxDigits)
    BY <1>6, <2>3, IntegerIsExact
  <2>. QED
    BY <2>1, <2>2, <2>4, ReturnsExactly
<1>8. CASE n # 0
  <2>1. Loop([i1 |-> One, i2 |-> a, exp |-> b])
    BY <1>1, <1>4, <1>8 DEF StartPower
  <2>2. loop' = [i1 |-> One, i2 |-> a, exp |-> b] /\ call' = call
    BY <2>1 DEF Loop
  <2>3. IsPower(1, x, n, v)
    <3>1. 1 * v = v
      OBVIOUS
    <3>. QED
      BY <1>5, <3>1 DEF IsPower
  <2>4. Magnitude(b) >= 1
    BY <1>3, <1>8
  <2>5. IsPower(ValueOf(One), ValueOf(a), Magnitude(b), PowerOf(ValueOf(call.a), ValueOf(call.b)))
    BY <1>1, <1>3, <1>5, <1>6, <2>3
  <2>6. PowerLoop(loop')
    BY <1>2, <1>6, <2>2, <2>4, <2>5 DEF PowerLoop
  <2>. QED
    BY <2>1, <2>6 DEF Loop
<1>. QED
  BY <1>7, <1>8

\* A turn that raises.
LEMMA RaisesExactly ==
  ASSUME NEW v \in Int, AbsOf(v) >= Limit, Expected = <<v>>, Return(<<Raised>>)
  PROVE  Returned'
<1>1. Exactly(Raised, v, MaxDigits)
  BY LimitFacts DEF Exactly
<1>. QED
  BY <1>1, ReturnsExactly

\* Half the exponent, and whether it is odd
LEMMA HalfFacts ==
  ASSUME NEW e \in Integer, e.sign = 1
  PROVE  LET half == Udiv(e, FromInt(2))
         IN  /\ half.quotient \in Integer /\ half.quotient.sign = 1 /\ Magnitude(half.quotient) = Magnitude(e) \div 2
             /\ IsOne(half.remainder) <=> Magnitude(e) % 2 = 1
<1>1. PICK two \in Nat : two = 2 /\ two <= 10
  OBVIOUS
<1>2. PICK t \in Integer : t = FromInt(2) /\ Magnitude(t) = 2
  BY <1>1, SmallInteger
<1>3. e \in Number /\ t \in Number /\ Len(e.digits) <= MaxDigits /\ t.digits # <<>>
  BY <1>2, IntegerValues, NumberFacts
<1>4. PICK d : d = Udiv(e, t) /\ IsDivided(d, e, t)
  BY <1>3, UdivIsExact
<1>5. PICK q \in Number, r \in Number, E \in Nat :
        /\ q = d.quotient /\ r = d.remainder /\ E = Magnitude(e) /\ q.sign = 1 /\ r.sign = 1
        /\ Magnitude(q) = E \div 2 /\ Magnitude(r) = E % 2
  BY <1>2, <1>4, IntegerValues DEF IsDivided
<1>6. E < Limit /\ Limit \in Nat /\ E \div 2 <= E /\ E \div 2 \in Nat
  <2>1. E < Limit
    BY <1>5, IntegerValues
  <2>2. Limit \in Nat
    BY LimitFacts
  <2>3. E \div 2 <= E /\ E \div 2 \in Nat
    BY SMT
  <2>. QED
    BY <2>1, <2>2, <2>3
<1>7. Magnitude(q) < Limit
  BY <1>5, <1>6
<1>8. q \in Integer
  BY <1>7, IntegerFacts, LimitFacts
<1>9. IsOne(r) <=> E % 2 = 1
  <2>1. ValueOf(r) = Magnitude(r)
    BY <1>5, ValueFacts
  <2>. QED
    BY <1>5, <2>1, ZeroAndOne
<1>. QED
  BY <1>2, <1>4, <1>5, <1>8, <1>9

\* A turn keeps the power; it raises only if the power is too large
LEMMA TurnsOfPower ==
  ASSUME call \in Calls, PowerLoop(loop), PowerTurn
  PROVE  Returned' \/ (Loop(loop') /\ PowerLoop(loop'))
<1>1. PICK a \in Integer, b \in Integer : a = call.a /\ b = call.b
  BY CallFacts
<1>2. call.op = "power" /\ b.sign = 1
  BY <1>1, CallFacts DEF PowerTurn, InLoop
<1>3. PICK x \in Int, n \in Nat : x = ValueOf(a) /\ n = ValueOf(b) /\ n = Magnitude(b)
  BY <1>2, IntegerValues
<1>4. PICK v \in Int : v = PowerOf(x, n)
  BY Powers
<1>5. Expected = <<v>>
  BY <1>1, <1>2, <1>3, <1>4 DEF Expected
<1>6. PICK i1 \in Integer, i2 \in Integer, e \in Integer :
        /\ loop = [i1 |-> i1, i2 |-> i2, exp |-> e]
        /\ e.sign = 1 /\ Magnitude(e) >= 1
        /\ IsPower(ValueOf(i1), ValueOf(i2), Magnitude(e), PowerOf(ValueOf(call.a), ValueOf(call.b)))
  BY DEF PowerLoop
<1>7. loop.i1 = i1 /\ loop.i2 = i2 /\ loop.exp = e
  BY <1>6
<1>8. PICK X \in Int, Y \in Int, E \in Nat : X = ValueOf(i1) /\ Y = ValueOf(i2) /\ E = Magnitude(e) /\ E >= 1
                                             /\ IsPower(X, Y, E, v) /\ ValueOf(e) = E
  BY <1>1, <1>3, <1>4, <1>6, IntegerValues
<1>9. i1 \in Number /\ i2 \in Number /\ e \in Number
  BY IntegerValues
<1>10. IsOne(e) <=> E = 1
  BY <1>8, <1>9, ZeroAndOne
<1>11. CASE E = 1
  <2>1. Return(<<Mult(i1, i2, 0)>>)
    BY <1>7, <1>10, <1>11 DEF PowerTurn
  <2>2. v = X * Y
    BY <1>8, <1>11, PowerOfOne DEF IsPower
  <2>3. IsProduct(v, i1, i2)
    BY <1>8, <2>2 DEF IsProduct
  <2>4. Exactly(Mult(i1, i2, 0), v, MaxDigits)
    BY <1>9, <2>3, ProductIsExact
  <2>. QED
    BY <1>5, <2>1, <2>4, ReturnsExactly
<1>12. CASE E # 1
  <2>1. PICK q \in Integer, odd \in BOOLEAN :
          /\ q = Udiv(e, FromInt(2)).quotient /\ q.sign = 1 /\ Magnitude(q) = E \div 2
          /\ odd = IsOne(Udiv(e, FromInt(2)).remainder) /\ (odd <=> E % 2 = 1)
    <3>1. LET half == Udiv(e, FromInt(2))
          IN  /\ half.quotient \in Integer /\ half.quotient.sign = 1 /\ Magnitude(half.quotient) = Magnitude(e) \div 2
              /\ IsOne(half.remainder) <=> Magnitude(e) % 2 = 1
      BY <1>6, HalfFacts
    <3>2. IsOne(Udiv(e, FromInt(2)).remainder) \in BOOLEAN
      BY DEF IsOne
    <3>. QED
      BY <1>8, <3>1, <3>2
  <2>2. PICK m1, m2 : m1 = OddFactor(i1, i2, odd) /\ m2 = Mult(i2, i2, 0)
    OBVIOUS
  <2>3. Turn([i1 |-> m1, i2 |-> m2, exp |-> q], {m1, m2})
    BY <1>7, <1>10, <1>12, <2>1, <2>2 DEF PowerTurn
  <2>4. PICK Y1 \in Int : Y1 = Y * Y
    BY Distributes
  <2>5. PICK X1 \in Int : X1 = IF E % 2 = 1 THEN X * Y ELSE X
    <3>1. X * Y \in Int
      BY Distributes
    <3>. QED
      BY <3>1
  <2>6. /\ IsPower(X1, Y1, E \div 2, v) /\ E \div 2 \in Nat /\ E \div 2 >= 1
        /\ AbsOf(Y1) <= AbsOf(v) /\ (E % 2 = 1 => AbsOf(X1) <= AbsOf(v))
    <3>1. E >= 2
      BY <1>8, <1>12
    <3>2. IsPowerTurn(X, Y, E, X1, Y1)
      BY <2>4, <2>5 DEF IsPowerTurn
    <3>. QED
      BY <1>8, <3>1, <3>2, PowerIsKept
  <2>7. Exactly(m2, Y1, MaxDigits)
    <3>1. IsProduct(Y1, i2, i2)
      BY <1>8, <2>4 DEF IsProduct
    <3>. QED
      BY <1>9, <2>2, <3>1, ProductIsExact
  <2>8. IF odd THEN Exactly(m1, X1, MaxDigits) ELSE m1 = i1 /\ X1 = X
    <3>1. CASE odd
      <4>1. X1 = X * Y /\ m1 = Mult(i1, i2, 0)
        BY <2>1, <2>2, <2>5, <3>1 DEF OddFactor
      <4>2. IsProduct(X1, i1, i2)
        BY <1>8, <4>1 DEF IsProduct
      <4>. QED
        BY <1>9, <3>1, <4>1, <4>2, ProductIsExact
    <3>2. CASE ~ odd
      BY <2>1, <2>2, <2>5, <3>2 DEF OddFactor
    <3>. QED
      BY <3>1, <3>2
  <2>9. PICK V \in Nat, L \in Nat : V = AbsOf(v) /\ L = Limit
    BY AbsFacts, LimitFacts
  <2>10. CASE m1 = Raised \/ m2 = Raised
    <3>1. V >= L
      <4>1. CASE m2 = Raised
        <5>1. AbsOf(Y1) >= L /\ AbsOf(Y1) \in Nat
          BY <2>7, <2>9, <4>1, ExactlyFits, AbsFacts
        <5>. QED
          BY <2>6, <2>9, <5>1
      <4>2. CASE m1 = Raised
        <5>1. odd
          <6>1. i1 # Raised
            BY IntegerValues
          <6>. QED
            BY <2>8, <4>2, <6>1
        <5>2. AbsOf(X1) >= L /\ AbsOf(X1) \in Nat
          BY <2>8, <2>9, <4>2, <5>1, ExactlyFits, AbsFacts
        <5>. QED
          BY <2>1, <2>6, <2>9, <5>1, <5>2
      <4>. QED
        BY <2>10, <4>1, <4>2
    <3>2. Return(<<Raised>>)
      BY <2>3, <2>10 DEF Turn
    <3>. QED
      BY <1>5, <2>9, <3>1, <3>2, RaisesExactly
  <2>11. CASE m1 # Raised /\ m2 # Raised
    <3>1. Loop([i1 |-> m1, i2 |-> m2, exp |-> q])
      BY <2>3, <2>11 DEF Turn
    <3>2. loop' = [i1 |-> m1, i2 |-> m2, exp |-> q] /\ call' = call
      BY <3>1 DEF Loop
    <3>3. m2 \in Integer /\ ValueOf(m2) = Y1
      BY <2>7, <2>11, ExactlyFits
    <3>4. m1 \in Integer /\ ValueOf(m1) = X1
      <4>1. CASE odd
        BY <2>8, <2>11, <4>1, ExactlyFits
      <4>2. CASE ~ odd
        BY <1>8, <2>8, <4>2
      <4>. QED
        BY <4>1, <4>2
    <3>5. IsPower(ValueOf(m1), ValueOf(m2), Magnitude(q), PowerOf(ValueOf(call.a), ValueOf(call.b)))
      BY <1>1, <1>3, <1>4, <2>1, <2>6, <3>3, <3>4
    <3>6. PowerLoop(loop')
      BY <2>1, <2>6, <3>2, <3>3, <3>4, <3>5 DEF PowerLoop
    <3>. QED
      BY <3>1, <3>6 DEF Loop
  <2>. QED
    BY <2>10, <2>11
<1>. QED
  BY <1>11, <1>12

-----------------------------------------------------------------------------
(* The loop of the factorial *)

\* What FactorialOf computes
LEMMA Factorials ==
  /\ FactorialOf(0) = 1
  /\ \A n \in Nat : FactorialOf(n) \in Nat /\ FactorialOf(n + 1) = (n + 1) * FactorialOf(n)
<1>1. \E h : h = [i \in Nat |-> IF i = 0 THEN 1 ELSE i * h[i - 1]]
  <2>. DEFINE g == [i \in Nat |-> [w \in Nat |-> (i + 1) * w]]
  <2>1. g \in [Nat -> [Nat -> Nat]] /\ 1 \in Nat
    <3>1. ASSUME NEW i \in Nat, NEW w \in Nat PROVE (i + 1) * w \in Nat
      <4>1. i + 1 \in Nat
        OBVIOUS
      <4>. QED
        BY <4>1, ProductIsNat
    <3>. QED
      BY <3>1
  <2>. HIDE DEF g
  <2>2. PICK h : ComputesAll(h, Nat, 1, g)
    BY <2>1, NatRecursion
  <2>3. h \in [Nat -> Nat] /\ h[0] = 1 /\ \A i \in Nat : h[i + 1] = (i + 1) * h[i]
    BY <2>2 DEF ComputesAll, g
  <2>4. ASSUME NEW i \in Nat PROVE h[i] = IF i = 0 THEN 1 ELSE i * h[i - 1]
    <3>1. i = 0 \/ (i - 1 \in Nat /\ (i - 1) + 1 = i)
      OBVIOUS
    <3>. QED
      BY <2>3, <3>1
  <2>5. h = [i \in Nat |-> h[i]]
    BY <2>3
  <2>. QED
    BY <2>4, <2>5
<1>. DEFINE f == CHOOSE f : f = [i \in Nat |-> IF i = 0 THEN 1 ELSE i * f[i - 1]]
            T == {i \in Nat : f[i] \in Nat}
<1>2. \A n : FactorialOf(n) = f[n]
  BY DEF FactorialOf
<1>3. f = [i \in Nat |-> IF i = 0 THEN 1 ELSE i * f[i - 1]]
  BY <1>1
<1>. HIDE DEF f
<1>4. f[0] = 1 /\ \A n \in Nat : f[n + 1] = (n + 1) * f[n]
  <2>1. \A n \in Nat : n + 1 \in Nat /\ n + 1 # 0 /\ (n + 1) - 1 = n
    OBVIOUS
  <2>. QED
    BY <1>3, <2>1
<1>5. 0 \in T
  BY <1>4
<1>6. \A n \in Nat : n \in T => n + 1 \in T
  <2>. SUFFICES ASSUME NEW n \in Nat, f[n] \in Nat PROVE f[n + 1] \in Nat
    OBVIOUS
  <2>1. n + 1 \in Nat
    OBVIOUS
  <2>2. (n + 1) * f[n] \in Nat
    BY <2>1, ProductIsNat
  <2>. QED
    BY <1>4, <2>2
<1>7. Nat \subseteq T
  <2>. HIDE DEF T
  <2>. QED
    BY <1>5, <1>6, SetInduction
<1>. QED
  BY <1>2, <1>4, <1>7

\* A factorial is not less than its number
LEMMA FactorialsGrow ==
  ASSUME NEW n \in Nat, n >= 1
  PROVE  FactorialOf(n) \in Nat /\ FactorialOf(n) >= n /\ FactorialOf(n) <= FactorialOf(n + 1)
<1>. DEFINE T == {k \in Nat : FactorialOf(k + 1) >= k + 1}
<1>1. 0 \in T
  <2>1. FactorialOf(0 + 1) = (0 + 1) * FactorialOf(0) /\ FactorialOf(0) = 1
    BY Factorials
  <2>. QED
    BY <2>1
<1>2. \A k \in Nat : k \in T => k + 1 \in T
  <2>. SUFFICES ASSUME NEW k \in Nat, FactorialOf(k + 1) >= k + 1
                PROVE  FactorialOf((k + 1) + 1) >= (k + 1) + 1
    OBVIOUS
  <2>1. PICK l \in Nat : l = k + 1 /\ 1 <= l
    OBVIOUS
  <2>2. PICK p \in Nat : p = FactorialOf(l) /\ 1 <= p /\ FactorialOf(l + 1) = (l + 1) * p
    <3>1. FactorialOf(l) \in Nat /\ FactorialOf(l + 1) = (l + 1) * FactorialOf(l)
      BY Factorials
    <3>2. FactorialOf(l) >= l
      BY <2>1
    <3>. QED
      BY <2>1, <3>1, <3>2
  <2>3. l + 1 \in Nat
    OBVIOUS
  <2>4. (l + 1) * 1 <= (l + 1) * p
    BY <2>2, <2>3, ProductGrows
  <2>5. (l + 1) * p \in Nat
    BY <2>3, ProductIsNat
  <2>. QED
    BY <2>1, <2>2, <2>4, <2>5
<1>. HIDE DEF T
<1>3. PICK m \in Nat : m = n - 1 /\ n = m + 1
  <2>1. n - 1 \in Nat /\ n = (n - 1) + 1
    OBVIOUS
  <2>. QED
    BY <2>1
<1>4. m \in T
  BY <1>1, <1>2, SetInduction
<1>5. FactorialOf(n) >= n
  BY <1>3, <1>4 DEF T
<1>6. PICK p \in Nat : p = FactorialOf(n) /\ FactorialOf(n + 1) = (n + 1) * p
  BY Factorials
<1>7. 1 * p <= (n + 1) * p
  <2>1. 1 <= n + 1 /\ n + 1 \in Int
    OBVIOUS
  <2>. QED
    BY <2>1, ProductGrows
<1>. QED
  BY <1>5, <1>6, <1>7

\* Nor than the factorials before it
LEMMA FactorialsAreMonotone ==
  ASSUME NEW m \in Nat, NEW n \in Nat, 1 <= m, m <= n
  PROVE  FactorialOf(m) <= FactorialOf(n)
<1>. DEFINE T == {k \in Nat : FactorialOf(m) <= FactorialOf(m + k)}
<1>1. 0 \in T
  <2>1. m + 0 = m
    OBVIOUS
  <2>2. FactorialOf(m) \in Nat
    BY Factorials
  <2>3. FactorialOf(m) <= FactorialOf(m)
    BY <2>2
  <2>. QED
    BY <2>1, <2>3
<1>2. \A k \in Nat : k \in T => k + 1 \in T
  <2>. SUFFICES ASSUME NEW k \in Nat, FactorialOf(m) <= FactorialOf(m + k)
                PROVE  FactorialOf(m) <= FactorialOf(m + (k + 1))
    OBVIOUS
  <2>1. PICK l \in Nat : l = m + k /\ l >= 1 /\ m + (k + 1) = l + 1
    OBVIOUS
  <2>2. FactorialOf(l) <= FactorialOf(l + 1) /\ FactorialOf(l) \in Nat
    BY <2>1, FactorialsGrow
  <2>3. FactorialOf(m) \in Nat /\ FactorialOf(l + 1) \in Nat
    <3>1. l + 1 \in Nat
      OBVIOUS
    <3>. QED
      BY <3>1, Factorials
  <2>. QED
    BY <2>1, <2>2, <2>3
<1>. HIDE DEF T
<1>3. PICK k \in Nat : k = n - m /\ n = m + k
  <2>1. n - m \in Nat /\ n = m + (n - m)
    OBVIOUS
  <2>. QED
    BY <2>1
<1>4. k \in T
  BY <1>1, <1>2, SetInduction
<1>. QED
  BY <1>3, <1>4 DEF T

\* The product of the numbers below j.
IsFactorial(j, p, n) == /\ j >= 2 /\ p = FactorialOf(j - 1) /\ (j = 2 \/ j <= n + 1)

\* The loop: the product is the factorial of j - 1
FactorialLoop(l) ==
  \E j \in Integer, p \in Integer :
    /\ l = [j |-> j, product |-> p]
    /\ j.sign = 1
    /\ IsFactorial(Magnitude(j), ValueOf(p), ValueOf(call.a))

\* The loop begins at two
LEMMA StartFactorialIsExact ==
  ASSUME call \in Calls, StartFactorial
  PROVE  Loop(loop') /\ FactorialLoop(loop')
<1>1. Loop([j |-> FromInt(2), product |-> One])
  BY DEF StartFactorial
<1>2. loop' = [j |-> FromInt(2), product |-> One] /\ call' = call
  BY <1>1 DEF Loop
<1>3. PICK one \in Nat, two \in Nat : one = 1 /\ two = 2 /\ one <= 10 /\ two <= 10
  OBVIOUS
<1>4. FromInt(one) \in Integer /\ ValueOf(FromInt(one)) = one
  BY <1>3, SmallInteger
<1>5. FromInt(two) \in Integer /\ FromInt(two).sign = 1 /\ Magnitude(FromInt(two)) = two
  BY <1>3, SmallInteger
<1>6. FactorialOf(0 + 1) = (0 + 1) * FactorialOf(0) /\ FactorialOf(0) = 1
  BY Factorials
<1>7. IsFactorial(2, 1, ValueOf(call.a))
  BY <1>6 DEF IsFactorial
<1>8. One \in Integer /\ ValueOf(One) = 1 /\ FromInt(2) \in Integer /\ FromInt(2).sign = 1 /\ Magnitude(FromInt(2)) = 2
  BY <1>3, <1>4, <1>5 DEF One
<1>9. FactorialLoop(loop')
  BY <1>2, <1>7, <1>8 DEF FactorialLoop
<1>. QED
  BY <1>1, <1>9 DEF Loop

\* A turn multiplies by j, returns, or raises because the factorial is too large
LEMMA TurnsOfFactorial ==
  ASSUME call \in Calls, FactorialLoop(loop), FactorialTurn
  PROVE  Returned' \/ (Loop(loop') /\ FactorialLoop(loop'))
<1>1. PICK a \in Integer : a = call.a
  BY CallFacts
<1>2. call.op = "factorial" /\ a.sign = 1
  BY <1>1, CallFacts DEF FactorialTurn, InLoop
<1>3. PICK n \in Nat : n = ValueOf(a) /\ n = Magnitude(a)
  BY <1>2, IntegerValues
<1>4. PICK F \in Nat : F = FactorialOf(n)
  BY Factorials
<1>5. Expected = <<F>>
  BY <1>1, <1>2, <1>3, <1>4 DEF Expected
<1>6. PICK j \in Integer, p \in Integer :
        /\ loop = [j |-> j, product |-> p]
        /\ j.sign = 1
        /\ IsFactorial(Magnitude(j), ValueOf(p), ValueOf(call.a))
  BY DEF FactorialLoop
<1>7. loop.j = j /\ loop.product = p
  BY <1>6
<1>8. PICK J \in Nat, i \in Nat, P \in Nat :
        /\ J = Magnitude(j) /\ J >= 2 /\ J = i + 1 /\ P = ValueOf(p) /\ P = FactorialOf(i) /\ (J = 2 \/ J <= n + 1)
        /\ ValueOf(j) = J
  <2>1. Magnitude(j) \in Nat /\ Magnitude(j) >= 2 /\ ValueOf(j) = Magnitude(j)
        /\ ValueOf(p) = FactorialOf(Magnitude(j) - 1) /\ (Magnitude(j) = 2 \/ Magnitude(j) <= n + 1)
    BY <1>1, <1>3, <1>6, IntegerValues DEF IsFactorial
  <2>2. Magnitude(j) - 1 \in Nat /\ (Magnitude(j) - 1) + 1 = Magnitude(j)
    BY <2>1
  <2>3. FactorialOf(Magnitude(j) - 1) \in Nat
    BY <2>2, Factorials
  <2>. QED
    BY <2>1, <2>2, <2>3
<1>9. a \in Number /\ j \in Number /\ p \in Number
  BY IntegerValues
<1>10. CompareAbs(a, j) < 0 <=> n < J
  <2>1. CompareAbs(a, j) = IF n < J THEN -1 ELSE IF n = J THEN 0 ELSE 1
    BY <1>3, <1>8, <1>9, CompareAbsFacts
  <2>. QED
    BY <2>1
<1>11. CASE n < J
  <2>1. Return(<<p>>)
    BY <1>1, <1>7, <1>10, <1>11 DEF FactorialTurn
  <2>2. P = F
    <3>1. CASE J = n + 1
      BY <1>4, <1>8, <3>1
    <3>2. CASE J = 2 /\ J # n + 1
      <4>1. i = 1 /\ n = 0
        BY <1>8, <1>11, <3>2
      <4>2. FactorialOf(0 + 1) = (0 + 1) * FactorialOf(0) /\ FactorialOf(0) = 1
        BY Factorials
      <4>. QED
        BY <1>4, <1>8, <4>1, <4>2
    <3>. QED
      BY <1>8, <1>11, <3>1, <3>2
  <2>3. Exactly(p, F, MaxDigits) /\ F \in Int
    BY <1>8, <2>2, IntegerIsExact
  <2>. QED
    BY <1>5, <2>1, <2>3, ReturnsExactly
<1>12. CASE ~ (n < J)
  <2>1. PICK m : m = Mult(j, p, 0)
    OBVIOUS
  <2>2. Turn([j |-> Usum(j, One, FALSE, 0), product |-> m], {m})
    BY <1>1, <1>7, <1>10, <1>12, <2>1 DEF FactorialTurn
  <2>3. PICK Q \in Nat : Q = FactorialOf(J) /\ Q = J * P
    BY <1>8, Factorials
  <2>4. Exactly(m, Q, MaxDigits)
    <3>1. IsProduct(Q, j, p)
      BY <1>8, <2>3 DEF IsProduct
    <3>. QED
      BY <1>9, <2>1, <3>1, ProductIsExact
  <2>5. PICK L \in Nat : L = Limit /\ L > 10
    BY LimitFacts
  <2>6. Q <= F
    <3>1. 1 <= J /\ J <= n
      BY <1>8, <1>12
    <3>. QED
      BY <1>4, <2>3, <3>1, FactorialsAreMonotone
  <2>7. CASE m = Raised
    <3>1. AbsOf(Q) >= L /\ AbsOf(Q) = Q /\ AbsOf(F) = F
      <4>1. Q \in Int
        OBVIOUS
      <4>2. AbsOf(Q) >= L
        BY <2>4, <2>5, <2>7, <4>1, ExactlyFits
      <4>. QED
        BY <4>2 DEF AbsOf
    <3>2. AbsOf(F) >= Limit /\ F \in Int
      BY <2>5, <2>6, <3>1
    <3>3. Return(<<Raised>>)
      BY <2>2, <2>7 DEF Turn
    <3>. QED
      BY <1>5, <3>2, <3>3, RaisesExactly
  <2>8. CASE m # Raised
    <3>1. m \in Integer /\ ValueOf(m) = Q /\ Q < L
      <4>1. Q \in Int /\ AbsOf(Q) = Q
        BY DEF AbsOf
      <4>. QED
        BY <2>4, <2>5, <2>8, <4>1, ExactlyFits
    <3>2. J + 1 < L
      <4>1. CASE J = 2
        BY <2>5, <4>1
      <4>2. CASE J # 2
        <5>1. i >= 1 /\ i >= 2
          BY <1>8, <4>2
        <5>2. P >= 2
          BY <1>8, <5>1, FactorialsGrow
        <5>3. J * 2 <= J * P
          BY <5>2, ProductGrows
        <5>. QED
          BY <1>8, <2>3, <3>1, <5>3
      <4>. QED
        BY <4>1, <4>2
    <3>3. PICK k \in Integer : k = Usum(j, One, FALSE, 0) /\ ValueOf(k) = J + 1
      <4>1. Magnitude(j) + 1 < Limit
        BY <1>8, <2>5, <3>2
      <4>2. Usum(j, One, FALSE, 0) \in Integer /\ ValueOf(Usum(j, One, FALSE, 0)) = Magnitude(j) + 1
        BY <1>6, <1>9, <4>1, AddOne
      <4>. QED
        BY <1>8, <4>2
    <3>4. Magnitude(k) = J + 1 /\ k.sign = 1
      <4>1. PICK K \in Nat : K = J + 1
        OBVIOUS
      <4>2. k \in Number
        BY IntegerValues
      <4>3. Magnitude(k) = K /\ k.sign = 1
        BY <3>3, <4>1, <4>2, NatValue
      <4>. QED
        BY <4>1, <4>3
    <3>5. Loop([j |-> k, product |-> m])
      BY <2>2, <2>8, <3>3 DEF Turn
    <3>6. loop' = [j |-> k, product |-> m] /\ call' = call
      BY <3>5 DEF Loop
    <3>7. IsFactorial(J + 1, Q, n)
      <4>1. (J + 1) - 1 = J /\ J + 1 >= 2 /\ J + 1 <= n + 1
        BY <1>8, <1>12
      <4>. QED
        BY <2>3, <4>1 DEF IsFactorial
    <3>8. IsFactorial(Magnitude(k), ValueOf(m), ValueOf(call.a))
      BY <1>1, <1>3, <3>1, <3>4, <3>7
    <3>9. FactorialLoop(loop')
      BY <3>1, <3>4, <3>6, <3>8 DEF FactorialLoop
    <3>. QED
      BY <3>5, <3>9 DEF Loop
  <2>. QED
    BY <2>7, <2>8
<1>. QED
  BY <1>11, <1>12

-----------------------------------------------------------------------------
(* Reading a number *)

\* The digits that are read, and the number of the first n of them.
TextOf(text) == [i \in Nat |-> IF i < Len(text) THEN text[i + 1] ELSE 0]
\* h[i] is the number that the first i digits write
ReadsTo(h, d, base) ==
  /\ h \in [Nat -> Nat] /\ h[0] = 0
  /\ \A i \in Nat : h[i + 1] = h[i] * base + d[i]

\* There is such a function for every text
LEMMA ReadsToExist ==
  ASSUME NEW d \in [Nat -> Nat], NEW base \in Nat
  PROVE  \E h : ReadsTo(h, d, base)
<1>. DEFINE g == [i \in Nat |-> [w \in Nat |-> w * base + d[i]]]
<1>1. g \in [Nat -> [Nat -> Nat]] /\ 0 \in Nat
  <2>1. ASSUME NEW i \in Nat, NEW w \in Nat PROVE w * base + d[i] \in Nat
    <3>1. w * base \in Nat /\ d[i] \in Nat
      BY ProductIsNat
    <3>. QED
      BY <3>1
  <2>. QED
    BY <2>1
<1>. HIDE DEF g
<1>2. PICK h : ComputesAll(h, Nat, 0, g)
  BY <1>1, NatRecursion
<1>3. h \in [Nat -> Nat] /\ h[0] = 0 /\ \A i \in Nat : h[i + 1] = h[i] * base + d[i]
  BY <1>2 DEF ComputesAll, g
<1>. QED
  BY <1>3 DEF ReadsTo

\* At the end it is the number of the text
LEMMA ReadsPrefixes ==
  ASSUME NEW text \in Seq(Nat), NEW base \in Nat, NEW h, ReadsTo(h, TextOf(text), base)
  PROVE  ReadOf(text, base) = h[Len(text)]
<1>1. PICK n \in Nat : n = Len(text)
  OBVIOUS
<1>2. h \in [Nat -> Nat] /\ h[0] = 0 /\ \A i \in Nat : h[i + 1] = h[i] * base + TextOf(text)[i]
  BY DEF ReadsTo
<1>. DEFINE f == CHOOSE f : f = [i \in 0 .. Len(text) |-> IF i = 0 THEN 0 ELSE f[i - 1] * base + text[i]]
            k == [i \in 0 .. n |-> h[i]]
            T == {i \in Nat : i <= n => f[i] = h[i]}
<1>3. \E x : x = [i \in 0 .. Len(text) |-> IF i = 0 THEN 0 ELSE x[i - 1] * base + text[i]]
  <2>1. ASSUME NEW i \in 0 .. n PROVE k[i] = IF i = 0 THEN 0 ELSE k[i - 1] * base + text[i]
    <3>1. CASE i = 0
      BY <1>2, <3>1
    <3>2. CASE i # 0
      <4>1. i - 1 \in 0 .. n /\ i - 1 \in Nat /\ (i - 1) + 1 = i /\ i - 1 < n
        BY <3>2
      <4>2. TextOf(text)[i - 1] = text[i]
        BY <1>1, <4>1 DEF TextOf
      <4>3. h[i] = h[i - 1] * base + text[i]
        BY <1>2, <4>1, <4>2
      <4>. QED
        BY <3>2, <4>1, <4>3
    <3>. QED
      BY <3>1, <3>2
  <2>2. k = [i \in 0 .. n |-> IF i = 0 THEN 0 ELSE k[i - 1] * base + text[i]]
    <3>1. k = [i \in 0 .. n |-> k[i]]
      OBVIOUS
    <3>. QED
      BY <2>1, <3>1
  <2>. HIDE DEF k
  <2>. QED
    BY <1>1, <2>2
<1>4. ReadOf(text, base) = f[Len(text)]
  BY DEF ReadOf
<1>5. f = [i \in 0 .. Len(text) |-> IF i = 0 THEN 0 ELSE f[i - 1] * base + text[i]]
  BY <1>3
<1>. HIDE DEF f
<1>6. 0 \in T
  <2>1. 0 \in 0 .. Len(text)
    BY <1>1
  <2>. QED
    BY <1>2, <1>5, <2>1
<1>7. \A i \in Nat : i \in T => i + 1 \in T
  <2>. SUFFICES ASSUME NEW i \in Nat, i <= n => f[i] = h[i], i + 1 <= n PROVE f[i + 1] = h[i + 1]
    OBVIOUS
  <2>1. i <= n /\ i + 1 \in 0 .. Len(text) /\ i + 1 # 0 /\ (i + 1) - 1 = i /\ i < Len(text)
    BY <1>1
  <2>2. f[i + 1] = f[i] * base + text[i + 1]
    BY <1>5, <2>1
  <2>3. TextOf(text)[i] = text[i + 1]
    BY <2>1 DEF TextOf
  <2>. QED
    BY <1>2, <2>1, <2>2, <2>3
<1>. HIDE DEF T
<1>8. n \in T
  BY <1>6, <1>7, SetInduction
<1>. QED
  BY <1>1, <1>4, <1>8 DEF T

\* A longer prefix writes no smaller number
LEMMA ReadsToGrows ==
  ASSUME NEW d \in [Nat -> Nat], NEW base \in Nat, base >= 1, NEW h, ReadsTo(h, d, base),
         NEW m \in Nat, NEW n \in Nat, m <= n
  PROVE  h[m] <= h[n]
<1>. DEFINE T == {k \in Nat : h[m] <= h[m + k]}
<1>1. h \in [Nat -> Nat] /\ \A i \in Nat : h[i + 1] = h[i] * base + d[i]
  BY DEF ReadsTo
<1>2. 0 \in T
  <2>1. m + 0 = m
    OBVIOUS
  <2>2. h[m] <= h[m]
    BY <1>1
  <2>. QED
    BY <2>1, <2>2
<1>3. \A k \in Nat : k \in T => k + 1 \in T
  <2>. SUFFICES ASSUME NEW k \in Nat, h[m] <= h[m + k] PROVE h[m] <= h[m + (k + 1)]
    OBVIOUS
  <2>1. PICK l \in Nat : l = m + k /\ m + (k + 1) = l + 1
    OBVIOUS
  <2>2. PICK x \in Nat, y \in Nat, z \in Nat, e \in Nat : x = h[m] /\ y = h[l] /\ z = h[l + 1] /\ e = d[l] /\ z = y * base + e
    <3>1. l + 1 \in Nat
      OBVIOUS
    <3>2. h[m] \in Nat /\ h[l] \in Nat /\ h[l + 1] \in Nat /\ d[l] \in Nat
      BY <1>1, <3>1
    <3>. QED
      BY <1>1, <3>2
  <2>3. y * 1 <= y * base
    BY ProductGrows
  <2>4. y * base \in Nat
    BY ProductIsNat
  <2>5. x <= y
    BY <2>1, <2>2
  <2>6. x <= z
    BY <2>2, <2>3, <2>4, <2>5
  <2>. QED
    BY <2>1, <2>2, <2>6
<1>. HIDE DEF T
<1>4. PICK k \in Nat : k = n - m /\ n = m + k
  <2>1. n - m \in Nat /\ n = m + (n - m)
    OBVIOUS
  <2>. QED
    BY <2>1
<1>5. k \in T
  BY <1>2, <1>3, SetInduction
<1>. QED
  BY <1>4, <1>5 DEF T

\* What is read is the number of a prefix, and the rest is what follows it.
IsRest(rest, text, n) ==
  /\ n <= Len(text)
  /\ rest \in Seq(Nat) /\ Len(rest) = Len(text) - n
  /\ \A k \in 1 .. Len(rest) : rest[k] = text[n + k]

\* The loop: a prefix has been read
ParseLoop(l) ==
  \E read \in Integer, rest \in Seq(Nat), n \in Nat, h \in [Nat -> Nat] :
    /\ l = [read |-> read, rest |-> rest]
    /\ IsRest(rest, call.text, n)
    /\ ReadsTo(h, TextOf(call.text), call.base)
    /\ ValueOf(read) = call.sign * h[n]

\* Reading one digit
LEMMA RestIsShortened ==
  ASSUME NEW text \in Seq(Nat), NEW rest, NEW n \in Nat, IsRest(rest, text, n), rest # <<>>
  PROVE  /\ IsRest(Tail(rest), text, n + 1) /\ Head(rest) = TextOf(text)[n] /\ n < Len(text)
         /\ \E i \in 1 .. Len(text) : Head(rest) = text[i]
<1>1. n <= Len(text) /\ rest \in Seq(Nat) /\ Len(rest) = Len(text) - n /\ \A k \in 1 .. Len(rest) : rest[k] = text[n + k]
  BY DEF IsRest
<1>2. Len(rest) >= 1 /\ Len(rest) \in Nat /\ Len(text) \in Nat
  BY <1>1
<1>3. n + 1 <= Len(text) /\ n < Len(text)
  BY <1>1, <1>2
<1>4. Head(rest) = rest[1] /\ Tail(rest) \in Seq(Nat) /\ Len(Tail(rest)) = Len(rest) - 1
      /\ \A k \in 1 .. Len(Tail(rest)) : Tail(rest)[k] = rest[k + 1]
  BY <1>1, <1>2
<1>5. Head(rest) = text[n + 1]
  <2>1. 1 \in 1 .. Len(rest)
    BY <1>2
  <2>. QED
    BY <1>1, <1>4, <2>1
<1>6. Head(rest) = TextOf(text)[n] /\ n + 1 \in 1 .. Len(text)
  BY <1>2, <1>3, <1>5 DEF TextOf
<1>7. ASSUME NEW k \in 1 .. Len(Tail(rest)) PROVE Tail(rest)[k] = text[(n + 1) + k]
  <2>1. k + 1 \in 1 .. Len(rest)
    BY <1>2, <1>4
  <2>2. rest[k + 1] = text[n + (k + 1)]
    BY <1>1, <2>1
  <2>3. n + (k + 1) = (n + 1) + k
    OBVIOUS
  <2>. QED
    BY <1>4, <2>2, <2>3
<1>8. Len(Tail(rest)) = Len(text) - (n + 1)
  BY <1>1, <1>2, <1>4
<1>. QED
  BY <1>3, <1>4, <1>5, <1>6, <1>7, <1>8 DEF IsRest

\* The text of a call
LEMMA ParseCall ==
  ASSUME call \in Calls, call.op = "parse"
  PROVE  /\ call.sign \in {1, -1} /\ call.base \in Nat /\ call.base >= 2 /\ call.base < Base
         /\ call.text \in Seq(Nat) /\ \A i \in 1 .. Len(call.text) : call.text[i] < call.base
         /\ TextOf(call.text) \in [Nat -> Nat]
<1>1. call.sign \in {1, -1} /\ call.base \in 2 .. Base - 1 /\ call.text \in Seq(0 .. call.base - 1) /\ Base \in Nat
  BY CallFacts, BaseIsPositive
<1>2. call.base \in Nat /\ call.base >= 2 /\ call.base < Base
  BY <1>1
<1>3. call.text \in Seq(Nat)
  <2>1. 0 .. call.base - 1 \subseteq Nat
    BY <1>2
  <2>. QED
    BY <1>1, <2>1
<1>4. ASSUME NEW i \in 1 .. Len(call.text) PROVE call.text[i] < call.base
  <2>1. call.text[i] \in 0 .. call.base - 1
    BY <1>1
  <2>. QED
    BY <1>2, <2>1
<1>5. TextOf(call.text) \in [Nat -> Nat]
  <2>1. ASSUME NEW i \in Nat PROVE (IF i < Len(call.text) THEN call.text[i + 1] ELSE 0) \in Nat
    <3>1. CASE i < Len(call.text)
      <4>1. i + 1 \in 1 .. Len(call.text)
        BY <1>3, <3>1
      <4>. QED
        BY <1>3, <3>1, <4>1
    <3>. QED
      BY <3>1
  <2>. QED
    BY <2>1 DEF TextOf
<1>. QED
  BY <1>1, <1>2, <1>3, <1>4, <1>5

\* Nothing is read at first
LEMMA StartParseIsExact ==
  ASSUME call \in Calls, StartParse
  PROVE  Loop(loop') /\ ParseLoop(loop')
<1>1. call.op = "parse" /\ Loop([read |-> Zero, rest |-> call.text])
  BY DEF StartParse, Called
<1>2. loop' = [read |-> Zero, rest |-> call.text] /\ call' = call
  BY <1>1 DEF Loop
<1>3. call.text \in Seq(Nat) /\ call.base \in Nat /\ TextOf(call.text) \in [Nat -> Nat] /\ call.sign \in {1, -1}
  BY <1>1, ParseCall
<1>4. PICK h \in [Nat -> Nat] : ReadsTo(h, TextOf(call.text), call.base)
  <2>1. \E h : ReadsTo(h, TextOf(call.text), call.base)
    BY <1>3, ReadsToExist
  <2>. QED
    BY <2>1 DEF ReadsTo
<1>5. h[0] = 0 /\ call.sign * 0 = 0
  <2>1. h[0] = 0
    BY <1>4 DEF ReadsTo
  <2>2. PICK s \in {1, -1} : s = call.sign
    BY <1>3
  <2>3. s * 0 = 0
    BY <2>2
  <2>. QED
    BY <2>1, <2>2, <2>3
<1>6. Zero \in Integer /\ ValueOf(Zero) = 0
  <2>1. PICK zero \in Nat : zero = 0 /\ zero <= 10
    OBVIOUS
  <2>2. FromInt(zero) \in Integer /\ ValueOf(FromInt(zero)) = zero
    BY <2>1, SmallInteger
  <2>. QED
    BY <2>1, <2>2 DEF Zero
<1>7. IsRest(call.text, call.text, 0)
  <2>1. Len(call.text) \in Nat
    <3>1. PICK text \in Seq(Nat) : text = call.text
      BY <1>3
    <3>2. Len(text) \in Nat
      OBVIOUS
    <3>. QED
      BY <3>1, <3>2
  <2>2. 0 <= Len(call.text) /\ Len(call.text) = Len(call.text) - 0 /\ \A k \in 1 .. Len(call.text) : 0 + k = k
    BY <2>1
  <2>. QED
    BY <1>3, <2>2 DEF IsRest
<1>8. ValueOf(Zero) = call.sign * h[0]
  BY <1>5, <1>6
<1>9. ParseLoop(loop')
  <2>1. PICK rest \in Seq(Nat), zero \in Nat : rest = call.text /\ zero = 0
    BY <1>3
  <2>2. /\ loop' = [read |-> Zero, rest |-> rest] /\ IsRest(rest, call.text, zero)
        /\ ValueOf(Zero) = call.sign * h[zero]
    BY <1>2, <1>7, <1>8, <2>1
  <2>. QED
    BY <1>4, <1>6, <2>2 DEF ParseLoop
<1>. QED
  BY <1>1, <1>9 DEF Loop

\* A turn reads one digit, returns, or raises because the number is too large
LEMMA TurnsOfParse ==
  ASSUME call \in Calls, ParseLoop(loop), ParseTurn
  PROVE  Returned' \/ (Loop(loop') /\ ParseLoop(loop'))
<1>1. call.op = "parse"
  BY DEF ParseTurn, InLoop
<1>2. PICK s \in {1, -1}, base \in Nat, text \in Seq(Nat) :
        /\ s = call.sign /\ base = call.base /\ text = call.text /\ base >= 2 /\ base < Base
        /\ TextOf(text) \in [Nat -> Nat] /\ \A i \in 1 .. Len(text) : text[i] < base
  BY <1>1, ParseCall
<1>3. PICK read \in Integer, rest \in Seq(Nat), n \in Nat, h \in [Nat -> Nat] :
        /\ loop = [read |-> read, rest |-> rest]
        /\ IsRest(rest, text, n)
        /\ ReadsTo(h, TextOf(text), base)
        /\ ValueOf(read) = s * h[n]
  BY <1>2 DEF ParseLoop
<1>4. loop.read = read /\ loop.rest = rest
  BY <1>3
<1>5. /\ h \in [Nat -> Nat] /\ \A i \in Nat : h[i + 1] = h[i] * base + TextOf(text)[i]
  BY <1>3 DEF ReadsTo
<1>6. PICK len \in Nat, F \in Nat : len = Len(text) /\ F = h[len]
  BY <1>5
<1>7. PICK v \in Int : v = s * F /\ AbsOf(v) = F
  <2>1. s * F \in Int /\ AbsOf(s * F) = F
    BY DEF AbsOf
  <2>. QED
    BY <2>1
<1>8. Expected = <<v>>
  <2>1. ReadOf(text, base) = F
    BY <1>3, <1>6, ReadsPrefixes
  <2>2. Expected = <<call.sign * ReadOf(call.text, call.base)>>
    BY <1>1 DEF Expected
  <2>. QED
    BY <1>2, <1>7, <2>1, <2>2
<1>9. CASE rest = <<>>
  <2>1. Return(<<read>>)
    BY <1>4, <1>9 DEF ParseTurn
  <2>2. n = len
    <3>1. Len(rest) = 0 /\ Len(rest) = Len(text) - n
      BY <1>3, <1>9 DEF IsRest
    <3>. QED
      BY <1>6, <3>1
  <2>3. ValueOf(read) = v
    BY <1>3, <1>6, <1>7, <2>2
  <2>4. Exactly(read, v, MaxDigits)
    BY <2>3, IntegerIsExact
  <2>. QED
    BY <1>8, <2>1, <2>4, ReturnsExactly
<1>10. CASE rest # <<>>
  <2>1. /\ IsRest(Tail(rest), text, n + 1) /\ Head(rest) = TextOf(text)[n] /\ n < len
        /\ \E i \in 1 .. len : Head(rest) = text[i]
    BY <1>3, <1>6, <1>10, RestIsShortened
  <2>2. PICK d \in Nat : d = Head(rest) /\ d < base /\ d = TextOf(text)[n]
    <3>1. TextOf(text)[n] \in Nat
      BY <1>2
    <3>2. Head(rest) < base
      BY <1>2, <1>6, <2>1
    <3>. QED
      BY <2>1, <3>1, <3>2
  <2>3. PICK b \in Integer : b = FromInt(base) /\ ValueOf(b) = base
    BY <1>2, SmallInteger
  <2>4. PICK e \in Integer : e = FromInt(d) /\ Magnitude(e) = d /\ Len(e.digits) <= 1
    <3>1. d < Base
      <4>1. Base \in Nat
        BY BaseIsPositive
      <4>2. base < Base /\ d < base
        BY <1>2, <2>2
      <4>. QED
        BY <4>1, <4>2
    <3>. QED
      BY <3>1, SmallInteger
  <2>5. PICK digit \in Number : digit = SetSign(e, s) /\ ValueOf(digit) = s * d /\ Len(digit.digits) <= 1
    <3>1. e \in Number
      BY IntegerValues
    <3>. QED
      BY <2>4, <3>1, SetSignFacts, ZenonT(60)
  <2>6. PICK product, sum : product = Mult(read, b, 0) /\ sum = Sum(product, digit, FALSE, 0)
    OBVIOUS
  <2>7. Turn([read |-> sum, rest |-> Tail(rest)], {sum})
    BY <1>2, <1>4, <1>10, <2>2, <2>3, <2>4, <2>5, <2>6 DEF ParseTurn
  <2>8. PICK H \in Nat, N \in Nat, P \in Nat : H = h[n] /\ P = H * base /\ N = h[n + 1] /\ N = P + d
    <3>1. h[n] \in Nat /\ h[n + 1] \in Nat /\ h[n + 1] = h[n] * base + d
      <4>1. n + 1 \in Nat
        OBVIOUS
      <4>. QED
        BY <1>5, <2>2, <4>1
    <3>2. h[n] * base \in Nat
      BY <1>2, <3>1, ProductIsNat
    <3>. QED
      BY <3>1, <3>2
  <2>9. N <= F
    <3>1. n + 1 \in Nat /\ n + 1 <= len /\ base >= 1
      <4>1. n < len /\ base >= 2
        BY <1>2, <2>1
      <4>. QED
        BY <4>1
    <3>. QED
      BY <1>2, <1>3, <1>6, <2>8, <3>1, ReadsToGrows
  <2>10. PICK p \in Int : p = s * P /\ AbsOf(p) = P
    <3>1. s * P \in Int /\ AbsOf(s * P) = P
      BY DEF AbsOf
    <3>. QED
      BY <3>1
  <2>11. PICK w \in Int : w = s * N /\ AbsOf(w) = N /\ w = p + s * d
    <3>1. s * N \in Int /\ AbsOf(s * N) = N
      BY DEF AbsOf
    <3>2. CASE s = 1
      <4>1. s * P = P /\ s * N = N /\ s * d = d
        BY <3>2
      <4>. QED
        BY <2>8, <2>10, <3>1, <4>1
    <3>3. CASE s = -1
      <4>1. s * P = 0 - P /\ s * N = 0 - N /\ s * d = 0 - d
        BY <3>3
      <4>2. p = 0 - P /\ N = P + d
        BY <2>8, <2>10, <4>1
      <4>3. s * N = p + s * d
        BY <4>1, <4>2
      <4>. QED
        BY <3>1, <4>3
    <3>. QED
      BY <3>2, <3>3
  <2>12. Exactly(product, p, MaxDigits)
    <3>1. read \in Number /\ b \in Number
      BY IntegerValues
    <3>2. p = (s * H) * base
      <4>1. CASE s = 1
        BY <2>8, <2>10, <4>1
      <4>2. CASE s = -1
        <5>1. (0 - H) * base = 0 * base - H * base
          BY Distributes
        <5>. QED
          BY <2>8, <2>10, <4>2, <5>1
      <4>. QED
        BY <4>1, <4>2
    <3>3. IsProduct(p, read, b)
      BY <1>3, <2>3, <2>8, <3>2 DEF IsProduct
    <3>. QED
      BY <2>6, <3>1, <3>3, ProductIsExact
  <2>13. PICK L \in Nat : L = Limit
    BY LimitFacts
  <2>14. ASSUME sum = Raised, N >= L PROVE Returned'
    <3>1. Return(<<Raised>>)
      BY <2>7, <2>14 DEF Turn
    <3>2. AbsOf(v) >= Limit
      BY <1>7, <2>9, <2>13, <2>14
    <3>. QED
      BY <1>8, <3>1, <3>2, RaisesExactly
  <2>15. CASE product = Raised
    <3>1. sum = Raised
      BY <2>6, <2>15 DEF Sum
    <3>2. P >= L
      BY <2>10, <2>12, <2>13, <2>15, ExactlyFits
    <3>3. N >= L
      BY <2>8, <3>2
    <3>. QED
      BY <2>14, <3>1, <3>3
  <2>16. CASE product # Raised
    <3>1. product \in Integer /\ ValueOf(product) = p /\ product \in Number
      BY <2>12, <2>16, ExactlyFits, IntegerValues
    <3>2. NoCarryLost(Of(product.digits), Of(digit.digits))
      BY <2>5, <3>1, OneDigitKeepsCarries
    <3>3. PICK zero \in Nat : zero = 0 /\ MaxDigits + zero = MaxDigits
      BY IntegerAssumption
    <3>4. Exactly(Sum(product, digit, FALSE, zero),
                  IF FALSE = TRUE THEN ValueOf(product) - ValueOf(digit) ELSE ValueOf(product) + ValueOf(digit),
                  MaxDigits + zero)
      BY <3>1, <3>2, SumIsExact
    <3>5. Exactly(sum, w, MaxDigits)
      <4>1. ValueOf(product) + ValueOf(digit) = w
        BY <2>5, <2>11, <3>1
      <4>. QED
        BY <2>6, <3>3, <3>4, <4>1
    <3>6. CASE sum = Raised
      <4>1. N >= L
        BY <2>11, <2>13, <3>5, <3>6, ExactlyFits
      <4>. QED
        BY <2>14, <3>6, <4>1
    <3>7. CASE sum # Raised
      <4>1. sum \in Integer /\ ValueOf(sum) = w
        BY <3>5, <3>7, ExactlyFits
      <4>2. Loop([read |-> sum, rest |-> Tail(rest)])
        BY <2>7, <3>7 DEF Turn
      <4>3. loop' = [read |-> sum, rest |-> Tail(rest)] /\ call' = call
        BY <4>2 DEF Loop
      <4>4. ValueOf(sum) = s * h[n + 1] /\ n + 1 \in Nat
        BY <2>8, <2>11, <4>1
      <4>5. ParseLoop(loop')
        <5>1. PICK rest1 \in Seq(Nat), n1 \in Nat : rest1 = Tail(rest) /\ n1 = n + 1
          <6>1. Tail(rest) \in Seq(Nat)
            BY <2>1 DEF IsRest
          <6>. QED
            BY <4>4, <6>1
        <5>2. call'.text = text /\ call'.base = base /\ call'.sign = s
          BY <1>2, <4>3
        <5>3. /\ loop' = [read |-> sum, rest |-> rest1] /\ IsRest(rest1, text, n1) /\ ValueOf(sum) = s * h[n1]
          BY <2>1, <4>3, <4>4, <5>1
        <5>4. call.text = text /\ call.base = base /\ call.sign = s
          BY <1>2
        <5>. QED
          BY <1>3, <4>1, <5>3, <5>4 DEF ParseLoop
      <4>. QED
        BY <4>2, <4>5 DEF Loop
    <3>. QED
      BY <3>6, <3>7
  <2>. QED
    BY <2>15, <2>16
<1>. QED
  BY <1>9, <1>10

-----------------------------------------------------------------------------
(* The digits in base ten, and the zeroes at the end *)

\* A counter is one digit, however large.
LEMMA CounterFacts ==
  ASSUME NEW v \in Nat
  PROVE  Canonical(FromInt(v)) /\ ValueOf(FromInt(v)) = v /\ FromInt(v) # Raised
<1>1. CASE v = 0
  <2>1. v <= 10
    BY <1>1
  <2>2. FromInt(v) \in Integer /\ ValueOf(FromInt(v)) = v
    BY <2>1, SmallInteger
  <2>. QED
    BY <2>2, IntegerValues
<1>2. CASE v # 0
  <2>1. ~ (v < 0)
    OBVIOUS
  <2>2. PICK s : s = <<v>> /\ s \in Seq(Nat) /\ Len(s) = 1 /\ s[1] = v /\ s # <<>> /\ DOMAIN s = {1}
                  /\ SubSeq(s, 1, 1) = s
    <3>1. <<v>> \in Seq(Nat) /\ Len(<<v>>) = 1 /\ <<v>>[1] = v
      OBVIOUS
    <3>2. <<v>> # <<>> /\ DOMAIN <<v>> = {1}
      OBVIOUS
    <3>3. SubSeq(<<v>>, 1, 1) = <<v>>
      <4>1. PICK t \in Seq(Nat), m \in Nat : t = <<v>> /\ m = 1 /\ m = Len(t) /\ t[m] = v
        BY <3>1
      <4>2. PICK z : z = SubSeq(t, 1, m)
        OBVIOUS
      <4>3. m \in 1 .. Len(t)
        BY <4>1
      <4>4. z \in Seq(Nat) /\ Len(z) = m /\ \A i \in 1 .. m : z[i] = t[i]
        BY <4>2, <4>3
      <4>5. z = t
        BY <4>1, <4>4
      <4>. QED
        BY <4>1, <4>2, <4>5
    <3>. QED
      BY <3>1, <3>2, <3>3
  <2>3. FromInt(v) = [sign |-> 1, digits |-> s]
    <3>1. FromInt(v) = Handler(1, s)
      BY <1>2, <2>1, <2>2 DEF FromInt
    <3>. QED
      BY <2>2, <3>1 DEF Handler
  <2>4. PICK x : x = FromInt(v) /\ x.sign = 1 /\ x.digits = s
    BY <2>3
  <2>5. Sanitize(s) = s
    <3>1. {i \in DOMAIN s : s[i] # 0} = {1}
      BY <1>2, <2>2
    <3>2. Max({1}) = 1
      <4>1. PICK one \in Nat : one = 1
        OBVIOUS
      <4>2. PICK S \in SUBSET (0 .. one) : S = {one} /\ S # {}
        <5>1. {one} \in SUBSET (0 .. one) /\ {one} # {}
          BY <4>1
        <5>. QED
          BY <5>1
      <4>3. Max(S) \in S
        BY <4>1, <4>2, MaxOf
      <4>. QED
        BY <4>1, <4>2, <4>3
    <3>4. Sanitize(s) = SubSeq(s, 1, Max({1}))
      BY <3>1 DEF Sanitize
    <3>. QED
      BY <2>2, <3>2, <3>4
  <2>6. Canonical(x)
    <3>1. Handler(1, s) = x
      BY <2>2, <2>3, <2>4 DEF Handler
    <3>. QED
      BY <2>4, <2>5, <3>1 DEF Canonical
  <2>7. ValueOf(x) = v
    <3>1. PICK d : d = [i \in Nat |-> Digit(x, i)]
      OBVIOUS
    <3>2. d \in [Nat -> Int] /\ d[0] = v
      <4>1. ASSUME NEW i \in Nat PROVE Digit(x, i) \in Int /\ (i = 0 => Digit(x, i) = v)
        <5>1. i < 1 => i = 0
          OBVIOUS
        <5>. QED
          BY <2>2, <2>4, <5>1 DEF Digit
      <4>. QED
        BY <3>1, <4>1
    <3>3. Upto(d, Base, 0) = 0 /\ Upto(d, Base, 0 + 1) = Upto(d, Base, 0) + d[0] * PowerOf(Base, 0)
      <4>1. Base \in Int
        BY BaseIsPositive
      <4>. QED
        BY <3>2, <4>1, UptoFacts
    <3>4. PowerOf(Base, 0) = 1
      <4>1. Base \in Int
        BY BaseIsPositive
      <4>. QED
        BY <4>1, Powers
    <3>5. Below(x, 1) = v
      BY <3>1, <3>2, <3>3, <3>4 DEF Below
    <3>. QED
      BY <2>2, <2>4, <3>5 DEF ValueOf
  <2>8. x # Raised
    BY <2>4 DEF Raised
  <2>. QED
    BY <2>4, <2>6, <2>7, <2>8
<1>. QED
  BY <1>1, <1>2

\* An operation that returns a counter
LEMMA ReturnsCounter ==
  ASSUME NEW v \in Nat, Return(<<FromInt(v)>>), Expected = <<v>>
  PROVE  Returned'
<1>1. PICK r : r = FromInt(v) /\ Canonical(r) /\ ValueOf(r) = v /\ r # Raised
  BY CounterFacts
<1>2. DOMAIN <<r>> = {1} /\ <<r>>[1] = r
  OBVIOUS
<1>3. call' = call /\ result' = <<r>> /\ pc' = "done"
  <2>1. ~ \E i \in DOMAIN <<r>> : <<r>>[i] = Raised
    BY <1>1, <1>2
  <2>. QED
    BY <1>1, <2>1 DEF Return
<1>4. Expected' = Expected
  BY <1>3 DEF Expected
<1>5. [i \in DOMAIN result' |-> ValueOf(result'[i])] = <<v>>
  <2>1. <<v>> = [i \in {1} |-> v]
    BY SMT
  <2>2. \A i \in {1} : ValueOf(result'[i]) = v
    BY <1>1, <1>2, <1>3
  <2>3. [i \in DOMAIN result' |-> ValueOf(result'[i])] = [i \in {1} |-> v]
    BY <1>2, <1>3, <2>2
  <2>. QED
    BY <2>1, <2>3
<1>6. \A i \in DOMAIN result' : Canonical(result'[i])
  BY <1>1, <1>2, <1>3
<1>. QED
  BY <1>3, <1>4, <1>5, <1>6 DEF Exact, Returned

\* The number of digits: 10^(n - 1) <= v < 10^n.
IsLength(n, v) == v < PowerOf(10, n) /\ (n = 1 \/ v >= PowerOf(10, n - 1))

\* The powers of ten never decrease
LEMMA TenPowersGrow ==
  ASSUME NEW m \in Nat, NEW n \in Nat, m <= n
  PROVE  PowerOf(10, m) <= PowerOf(10, n) /\ PowerOf(10, m) \in Nat /\ PowerOf(10, n) \in Nat /\ PowerOf(10, m) >= 1
<1>1. PICK ten \in Nat : ten = 10 /\ ten >= 1
  OBVIOUS
<1>. QED
  BY <1>1, PowersGrow

\* A number has one length in base ten
LEMMA LengthIsUnique ==
  ASSUME NEW v \in Nat, v >= 1, NEW m \in Nat, m >= 1, NEW n \in Nat, n >= 1, IsLength(m, v), IsLength(n, v)
  PROVE  m = n
<1>1. \A k, l \in Nat : k >= 1 /\ l >= 1 /\ IsLength(k, v) /\ IsLength(l, v) => ~ (k < l)
  <2>. SUFFICES ASSUME NEW k \in Nat, NEW l \in Nat, k >= 1, k < l, IsLength(k, v), IsLength(l, v) PROVE FALSE
    OBVIOUS
  <2>1. PICK j \in Nat : j = l - 1 /\ k <= j
    <3>1. l - 1 \in Nat /\ k <= l - 1
      OBVIOUS
    <3>. QED
      BY <3>1
  <2>2. PowerOf(10, k) <= PowerOf(10, j) /\ PowerOf(10, k) \in Nat /\ PowerOf(10, j) \in Nat
    BY <2>1, TenPowersGrow
  <2>3. v < PowerOf(10, k) /\ v >= PowerOf(10, j)
    BY <2>1 DEF IsLength
  <2>. QED
    BY <2>2, <2>3
<1>. QED
  BY <1>1

\* The loop: the power of ten has n zeroes, and the one before does not exceed the number
Base10Loop(l) ==
  \E power \in Number, n \in Nat :
    /\ l = [power |-> power, n |-> n]
    /\ ValueOf(power) = PowerOf(10, n)
    /\ n = 0 \/ Magnitude(call.a) >= PowerOf(10, n - 1)
    /\ Magnitude(call.a) # 0

\* The loop begins with one
LEMMA StartBase10IsExact ==
  ASSUME call \in Calls, StartBase10
  PROVE  Returned' \/ (Loop(loop') /\ Base10Loop(loop'))
<1>1. PICK a \in Integer : a = call.a
  BY CallFacts
<1>2. call.op = "base10"
  BY DEF StartBase10, Called
<1>3. PICK x \in Int, X \in Nat : x = ValueOf(a) /\ X = Magnitude(a) /\ X = AbsOf(x) /\ (IsZero(a) <=> x = 0)
                                   /\ (x = 0 <=> X = 0)
  <2>1. ValueOf(a) \in Int /\ Magnitude(a) \in Nat /\ AbsOf(ValueOf(a)) = Magnitude(a) /\ a \in Number
    BY IntegerValues
  <2>2. IsZero(a) <=> ValueOf(a) = 0
    BY <2>1, ZeroAndOne
  <2>3. ValueOf(a) = 0 <=> Magnitude(a) = 0
    BY <2>1, AbsFacts
  <2>. QED
    BY <2>1, <2>2, <2>3
<1>4. PICK one \in Nat : one = 1 /\ One = FromInt(one)
  BY DEF One
<1>5. PowerOf(10, 0) = 1 /\ PowerOf(10, 0 + 1) = 10 * PowerOf(10, 0)
  <2>1. PICK ten \in Nat : ten = 10
    OBVIOUS
  <2>2. PowerOf(ten, 0) = 1 /\ PowerOf(ten, 0 + 1) = ten * PowerOf(ten, 0)
    BY Powers
  <2>. QED
    BY <2>1, <2>2
<1>6. CASE X = 0
  <2>1. Return(<<FromInt(one)>>)
    BY <1>1, <1>3, <1>4, <1>6 DEF StartBase10
  <2>. DEFINE P(n) == AbsOf(x) < PowerOf(10, n) /\ (n = 1 \/ AbsOf(x) >= PowerOf(10, n - 1))
  <2>2. Expected = <<CHOOSE n \in 1 .. AbsOf(x) + 1 : P(n)>>
    BY <1>1, <1>2, <1>3 DEF Expected
  <2>3. P(1)
    BY <1>3, <1>5, <1>6
  <2>. HIDE DEF P
  <2>4. 1 .. AbsOf(x) + 1 = {1}
    BY <1>3, <1>6
  <2>5. (CHOOSE n \in 1 .. AbsOf(x) + 1 : P(n)) = 1
    <3>1. \E n \in 1 .. AbsOf(x) + 1 : P(n)
      BY <2>3, <2>4
    <3>2. (CHOOSE n \in 1 .. AbsOf(x) + 1 : P(n)) \in 1 .. AbsOf(x) + 1
      BY <3>1
    <3>. QED
      BY <2>4, <3>2
  <2>6. Expected = <<one>>
    BY <1>4, <2>2, <2>5
  <2>. QED
    BY <2>1, <2>6, ReturnsCounter
<1>7. CASE X # 0
  <2>1. Loop([power |-> One, n |-> 0])
    BY <1>1, <1>3, <1>7 DEF StartBase10
  <2>2. PICK zero \in Nat : zero = 0
    OBVIOUS
  <2>3. loop' = [power |-> One, n |-> zero] /\ call' = call
    BY <2>1, <2>2 DEF Loop
  <2>4. One \in Number /\ ValueOf(One) = PowerOf(10, zero)
    BY <1>5, <2>2, ZeroAndOne
  <2>5. Base10Loop(loop')
    BY <1>1, <1>3, <1>7, <2>2, <2>3, <2>4 DEF Base10Loop
  <2>. QED
    BY <2>1, <2>5 DEF Loop
<1>. QED
  BY <1>6, <1>7

\* A turn multiplies by ten, or returns; it never raises, for the power may have a digit more
LEMMA TurnsOfBase10 ==
  ASSUME call \in Calls, Base10Loop(loop), Base10Turn
  PROVE  Returned' \/ (Loop(loop') /\ Base10Loop(loop'))
<1>1. PICK a \in Integer : a = call.a
  BY CallFacts
<1>2. call.op = "base10"
  BY DEF Base10Turn, InLoop
<1>3. PICK x \in Int, X \in Nat : x = ValueOf(a) /\ X = Magnitude(a) /\ X = AbsOf(x) /\ X < Limit
  BY IntegerValues
<1>4. PICK power \in Number, n \in Nat :
        /\ loop = [power |-> power, n |-> n]
        /\ ValueOf(power) = PowerOf(10, n)
        /\ n = 0 \/ Magnitude(call.a) >= PowerOf(10, n - 1)
        /\ Magnitude(call.a) # 0
  BY DEF Base10Loop
<1>5. loop.power = power /\ loop.n = n
  BY <1>4
<1>6. PICK p \in Nat : p = PowerOf(10, n) /\ p = Magnitude(power) /\ p >= n + 1 /\ PowerOf(10, n + 1) = 10 * p /\ ValueOf(power) = p
  <2>1. PowerOf(10, n) \in Nat /\ PowerOf(10, n) >= n + 1 /\ PowerOf(10, n + 1) = 10 * PowerOf(10, n)
    BY TenPowers
  <2>2. PICK p \in Nat : p = PowerOf(10, n)
    BY <2>1
  <2>3. Magnitude(power) = p
    BY <1>4, <2>2, NatValue
  <2>. QED
    BY <1>4, <2>1, <2>2, <2>3
<1>7. X >= 1 /\ (n = 0 \/ X >= PowerOf(10, n - 1))
  BY <1>1, <1>3, <1>4
<1>8. a \in Number
  BY IntegerValues
<1>9. CompareAbs(power, a) > 0 <=> p > X
  <2>1. CompareAbs(power, a) = IF p < X THEN -1 ELSE IF p = X THEN 0 ELSE 1
    BY <1>3, <1>6, <1>8, CompareAbsFacts
  <2>. QED
    BY <2>1
<1>10. CASE p > X
  <2>1. Return(<<FromInt(n)>>)
    BY <1>1, <1>5, <1>9, <1>10 DEF Base10Turn
  <2>2. n >= 1
    <3>1. CASE n = 0
      <4>1. p = 1
        <5>1. PICK ten \in Nat : ten = 10
          OBVIOUS
        <5>2. PowerOf(ten, 0) = 1
          BY Powers
        <5>. QED
          BY <1>6, <3>1, <5>1, <5>2
      <4>. QED
        BY <1>7, <1>10, <4>1
    <3>. QED
      BY <3>1
  <2>3. IsLength(n, X)
    BY <1>6, <1>7, <1>10, <2>2 DEF IsLength
  <2>4. n \in 1 .. X + 1
    <3>1. PICK m \in Nat : m = n - 1 /\ n = m + 1
      <4>1. n - 1 \in Nat /\ n = (n - 1) + 1
        BY <2>2
      <4>. QED
        BY <4>1
    <3>2. PowerOf(10, m) \in Nat /\ PowerOf(10, m) >= m + 1
      BY TenPowers
    <3>3. X >= PowerOf(10, m)
      BY <1>7, <2>2, <3>1
    <3>. QED
      BY <2>2, <3>1, <3>2, <3>3
  <2>5. Expected = <<CHOOSE m \in 1 .. X + 1 : IsLength(m, X)>>
    <3>1. Expected = <<CHOOSE m \in 1 .. AbsOf(x) + 1 :
                         AbsOf(x) < PowerOf(10, m) /\ (m = 1 \/ AbsOf(x) >= PowerOf(10, m - 1))>>
      BY <1>1, <1>2, <1>3 DEF Expected
    <3>. QED
      BY <1>3, <3>1 DEF IsLength
  <2>6. PICK m : m = CHOOSE l \in 1 .. X + 1 : IsLength(l, X)
    OBVIOUS
  <2>7. m \in 1 .. X + 1 /\ IsLength(m, X)
    <3>1. \E k \in 1 .. X + 1 : IsLength(k, X)
      BY <2>3, <2>4
    <3>. QED
      BY <2>6, <3>1
  <2>8. m \in Nat /\ m >= 1
    BY <2>7
  <2>9. m = n
    BY <1>7, <2>2, <2>3, <2>7, <2>8, LengthIsUnique
  <2>10. Expected = <<n>>
    BY <2>5, <2>6, <2>9
  <2>. QED
    BY <2>1, <2>10, ReturnsCounter
<1>11. CASE ~ (p > X)
  <2>1. PICK m : m = Mult(power, Ten, 1)
    OBVIOUS
  <2>2. Turn([power |-> m, n |-> n + 1], {m})
    BY <1>1, <1>5, <1>9, <1>11, <2>1 DEF Base10Turn
  <2>3. PICK ten \in Nat : ten = 10 /\ ten <= 10
    OBVIOUS
  <2>4. PICK t \in Number : t = Ten /\ ValueOf(t) = ten
    <3>1. FromInt(ten) \in Integer /\ ValueOf(FromInt(ten)) = ten
      BY <2>3, SmallInteger
    <3>2. FromInt(ten) \in Number
      BY <3>1, IntegerValues
    <3>. QED
      BY <2>3, <3>1, <3>2 DEF Ten
  <2>5. PICK one \in Nat : one = 1
    OBVIOUS
  <2>6. Exactly(Mult(power, t, one), ValueOf(power) * ValueOf(t), MaxDigits + one)
    BY MultIsExact
  <2>7. PICK w \in Nat : w = 10 * p /\ w = PowerOf(10, n + 1)
    BY <1>6
  <2>8. ValueOf(power) * ValueOf(t) = w
    BY <1>6, <2>3, <2>4, <2>7
  <2>9. AbsOf(w) < PowerOf(Base, MaxDigits + one)
    <3>1. PICK L \in Nat, B \in Nat : L = Limit /\ B = Base /\ B > 10 /\ X < L
      BY <1>3, LimitFacts, BaseIsPositive, IntegerAssumption
    <3>2. PowerOf(Base, MaxDigits + 1) = B * L
      <4>1. MaxDigits \in Nat
        BY IntegerAssumption
      <4>2. PowerOf(Base, MaxDigits + 1) = Base * PowerOf(Base, MaxDigits)
        BY <4>1, BasePowers
      <4>. QED
        BY <3>1, <4>2, LimitFacts
    <3>3. p < L /\ L >= 1
      BY <1>11, <3>1
    <3>4. 10 * L <= B * L
      <4>1. 10 <= B /\ 10 \in Int
        BY <3>1
      <4>. QED
        BY <4>1, ProductGrows
    <3>5. B * L \in Nat
      BY ProductIsNat
    <3>6. w < B * L
      BY <2>7, <3>3, <3>4, <3>5
    <3>7. AbsOf(w) = w
      BY DEF AbsOf
    <3>. QED
      BY <2>5, <3>2, <3>6, <3>7
  <2>10. m \in Number /\ ValueOf(m) = w
    <3>1. Exactly(m, w, MaxDigits + one)
      BY <2>1, <2>4, <2>5, <2>6, <2>8
    <3>2. PICK c : c = PowerOf(Base, MaxDigits + one) /\ c \in Nat
      <4>1. MaxDigits + one \in Nat
        BY IntegerAssumption
      <4>. QED
        BY <4>1, BasePowers
    <3>3. AbsOf(w) \in Nat
      BY AbsFacts
    <3>4. ~ (AbsOf(w) >= c)
      BY <2>9, <3>2, <3>3
    <3>. QED
      BY <3>1, <3>2, <3>4 DEF Exactly
  <2>11. m # Raised
    BY <2>10, NumberFacts
  <2>12. Loop([power |-> m, n |-> n + 1])
    BY <2>2, <2>11 DEF Turn
  <2>13. PICK k \in Nat : k = n + 1 /\ k - 1 = n
    OBVIOUS
  <2>14. loop' = [power |-> m, n |-> k] /\ call' = call
    BY <2>12, <2>13 DEF Loop
  <2>15. Magnitude(call.a) >= PowerOf(10, k - 1)
    BY <1>1, <1>3, <1>6, <1>11, <2>13
  <2>16. ValueOf(m) = PowerOf(10, k)
    BY <2>7, <2>10, <2>13
  <2>17. Base10Loop(loop')
    BY <1>4, <2>10, <2>14, <2>15, <2>16 DEF Base10Loop
  <2>. QED
    BY <2>12, <2>17 DEF Loop
<1>. QED
  BY <1>10, <1>11

\* The number of zeroes at the end.
IsTrailing(n, x) == x % PowerOf(10, n) = 0 /\ x % PowerOf(10, n + 1) # 0

\* By its divisors
LEMMA TrailingFacts ==
  ASSUME NEW x \in Int, NEW n \in Nat
  PROVE  IsTrailing(n, x) <=> IsMultiple(x, PowerOf(10, n)) /\ ~ IsMultiple(x, PowerOf(10, n + 1))
<1>1. n + 1 \in Nat
  OBVIOUS
<1>2. PICK p \in Nat, q \in Nat : p = PowerOf(10, n) /\ q = PowerOf(10, n + 1) /\ p >= 1 /\ q >= 1
  <2>1. PowerOf(10, n) \in Nat /\ PowerOf(10, n) >= 1 /\ PowerOf(10, n + 1) \in Nat /\ PowerOf(10, n + 1) >= 1
    BY <1>1, TenPowersGrow
  <2>. QED
    BY <2>1
<1>3. (x % p = 0 <=> IsMultiple(x, p)) /\ (x % q = 0 <=> IsMultiple(x, q))
  BY <1>2, Multiples
<1>. QED
  BY <1>2, <1>3 DEF IsTrailing

\* The zeroes at the end are counted in one way
LEMMA TrailingIsUnique ==
  ASSUME NEW x \in Int, NEW m \in Nat, NEW n \in Nat, IsTrailing(m, x), IsTrailing(n, x)
  PROVE  m = n
<1>1. \A k, l \in Nat : IsTrailing(k, x) /\ IsTrailing(l, x) => ~ (k < l)
  <2>. SUFFICES ASSUME NEW k \in Nat, NEW l \in Nat, k < l, IsTrailing(k, x), IsTrailing(l, x) PROVE FALSE
    OBVIOUS
  <2>1. PICK k1 \in Nat, j \in Nat : k1 = k + 1 /\ j = l - k1 /\ l = k1 + j
    <3>1. k + 1 \in Nat /\ l - (k + 1) \in Nat /\ l = (k + 1) + (l - (k + 1))
      OBVIOUS
    <3>. QED
      BY <3>1
  <2>2. IsMultiple(x, PowerOf(10, l)) /\ ~ IsMultiple(x, PowerOf(10, k1))
    BY <2>1, TrailingFacts
  <2>3. PICK ten \in Int : ten = 10
    OBVIOUS
  <2>4. PowerOf(ten, k1 + j) = PowerOf(ten, k1) * PowerOf(ten, j)
    BY PowersMultiply
  <2>5. PICK p \in Int, q \in Int : p = PowerOf(ten, k1) /\ q = PowerOf(ten, j)
    BY Powers
  <2>6. PICK z \in Int : x = (p * q) * z
    BY <2>1, <2>2, <2>3, <2>4, <2>5 DEF IsMultiple
  <2>7. (p * q) * z = p * (q * z) /\ q * z \in Int
    BY ProductsAssociate, Distributes
  <2>8. IsMultiple(x, p)
    BY <2>6, <2>7 DEF IsMultiple
  <2>. QED
    BY <2>2, <2>3, <2>5, <2>8
<1>. QED
  BY <1>1

\* The loop: n zeroes have been taken away
ZeroesLoop(l) ==
  \E q \in Integer, n \in Nat :
    /\ l = [quotient |-> q, n |-> n]
    /\ Magnitude(q) >= 1
    /\ Magnitude(call.a) = Magnitude(q) * PowerOf(10, n)

\* The loop begins with the number
LEMMA StartZeroesIsExact ==
  ASSUME call \in Calls, StartZeroes
  PROVE  Returned' \/ (Loop(loop') /\ ZeroesLoop(loop'))
<1>1. PICK a \in Integer : a = call.a
  BY CallFacts
<1>2. call.op = "zeroes"
  BY DEF StartZeroes, Called
<1>3. PICK x \in Int, X \in Nat : x = ValueOf(a) /\ X = Magnitude(a) /\ X = AbsOf(x) /\ (IsZero(a) <=> x = 0)
                                   /\ (x = 0 <=> X = 0)
  <2>1. ValueOf(a) \in Int /\ Magnitude(a) \in Nat /\ AbsOf(ValueOf(a)) = Magnitude(a) /\ a \in Number
    BY IntegerValues
  <2>2. IsZero(a) <=> ValueOf(a) = 0
    BY <2>1, ZeroAndOne
  <2>3. ValueOf(a) = 0 <=> Magnitude(a) = 0
    BY <2>1, AbsFacts
  <2>. QED
    BY <2>1, <2>2, <2>3
<1>4. CASE x = 0
  <2>1. PICK one \in Nat : one = 1 /\ One = FromInt(one)
    BY DEF One
  <2>2. Return(<<FromInt(one)>>)
    BY <1>1, <1>3, <1>4, <2>1 DEF StartZeroes
  <2>3. Expected = <<one>>
    BY <1>1, <1>2, <1>3, <1>4, <2>1 DEF Expected
  <2>. QED
    BY <2>2, <2>3, ReturnsCounter
<1>5. CASE x # 0
  <2>1. Loop([quotient |-> a, n |-> 0])
    BY <1>1, <1>3, <1>5 DEF StartZeroes
  <2>2. PICK zero \in Nat : zero = 0
    OBVIOUS
  <2>3. loop' = [quotient |-> a, n |-> zero] /\ call' = call
    BY <2>1, <2>2 DEF Loop
  <2>4. PowerOf(10, zero) = 1
    <3>1. PICK ten \in Int : ten = 10
      OBVIOUS
    <3>2. PowerOf(ten, 0) = 1
      BY Powers
    <3>. QED
      BY <2>2, <3>1, <3>2
  <2>5. X = X * 1 /\ X >= 1
    BY <1>3, <1>5
  <2>6. Magnitude(a) >= 1 /\ Magnitude(call'.a) = Magnitude(a) * PowerOf(10, zero)
    BY <1>1, <1>3, <2>3, <2>4, <2>5
  <2>7. ZeroesLoop(loop')
    BY <1>1, <2>3, <2>6 DEF ZeroesLoop
  <2>. QED
    BY <2>1, <2>7 DEF Loop
<1>. QED
  BY <1>4, <1>5

\* A turn takes away a zero, or returns
LEMMA TurnsOfZeroes ==
  ASSUME call \in Calls, ZeroesLoop(loop), ZeroesTurn
  PROVE  Returned' \/ (Loop(loop') /\ ZeroesLoop(loop'))
<1>1. PICK a \in Integer : a = call.a
  BY CallFacts
<1>2. call.op = "zeroes"
  BY DEF ZeroesTurn, InLoop
<1>3. PICK x \in Int, X \in Nat : x = ValueOf(a) /\ X = Magnitude(a) /\ X = AbsOf(x)
  BY IntegerValues
<1>4. PICK q \in Integer, n \in Nat :
        /\ loop = [quotient |-> q, n |-> n]
        /\ Magnitude(q) >= 1
        /\ Magnitude(call.a) = Magnitude(q) * PowerOf(10, n)
  BY DEF ZeroesLoop
<1>5. loop.quotient = q /\ loop.n = n
  BY <1>4
<1>6. PICK Q \in Nat, p \in Nat : /\ Q = Magnitude(q) /\ Q >= 1 /\ p = PowerOf(10, n) /\ p >= n + 1 /\ X = Q * p
                                  /\ PowerOf(10, n + 1) = 10 * p
  <2>1. Magnitude(q) \in Nat
    BY IntegerValues
  <2>2. PowerOf(10, n) \in Nat /\ PowerOf(10, n) >= n + 1 /\ PowerOf(10, n + 1) = 10 * PowerOf(10, n)
    BY TenPowers
  <2>. QED
    BY <1>1, <1>3, <1>4, <2>1, <2>2
<1>7. PICK ten \in Nat : ten = 10 /\ ten <= 10 /\ ten >= 1
  OBVIOUS
<1>8. PICK t \in Integer : t = Ten /\ Magnitude(t) = ten
  <2>1. FromInt(ten) \in Integer /\ Magnitude(FromInt(ten)) = ten
    BY <1>7, SmallInteger
  <2>. QED
    BY <1>7, <2>1 DEF Ten
<1>9. q \in Number /\ t \in Number /\ Len(q.digits) <= MaxDigits /\ t.digits # <<>>
  <2>1. Magnitude(t) # 0
    BY <1>7, <1>8
  <2>. QED
    BY <2>1, IntegerValues, NumberFacts
<1>10. PICK d : d = Udiv(q, t) /\ IsDivided(d, q, t)
  BY <1>9, UdivIsExact
<1>11. PICK k \in Nat, r \in Nat : k = Q \div ten /\ r = Q % ten /\ Q = ten * k + r /\ r < ten
  <2>1. Q \in Int
    OBVIOUS
  <2>2. /\ Q \div ten \in Int /\ Q % ten \in Int /\ 0 <= Q % ten /\ Q % ten < ten
        /\ Q = ten * (Q \div ten) + (Q % ten) /\ (Q >= 0 => Q \div ten >= 0)
    BY <1>7, <2>1, Divides
  <2>. QED
    BY <2>2
<1>12. PICK dq \in Number, dr \in Number : dq = d.quotient /\ dr = d.remainder /\ Magnitude(dq) = k /\ Magnitude(dr) = r
  BY <1>6, <1>8, <1>10, <1>11 DEF IsDivided
<1>13. \A y \in Number : IsZero(y) <=> Magnitude(y) = 0
  <2>. SUFFICES ASSUME NEW y \in Number PROVE IsZero(y) <=> Magnitude(y) = 0
    OBVIOUS
  <2>1. IsZero(y) <=> ValueOf(y) = 0
    BY ZeroAndOne
  <2>2. ValueOf(y) \in Int /\ AbsOf(ValueOf(y)) = Magnitude(y)
    BY ValueFacts
  <2>3. AbsOf(ValueOf(y)) = 0 <=> ValueOf(y) = 0
    BY <2>2, AbsFacts
  <2>. QED
    BY <2>1, <2>2, <2>3
<1>14. (IsZero(dq) <=> k = 0) /\ (IsZero(dr) <=> r = 0)
  BY <1>12, <1>13
<1>15. CASE k = 0 \/ r # 0
  <2>1. Return(<<FromInt(n)>>)
    BY <1>5, <1>8, <1>10, <1>12, <1>14, <1>15 DEF ZeroesTurn
  <2>2. r # 0
    <3>1. CASE k = 0
      <4>1. ten * 0 = 0
        BY <1>7
      <4>. QED
        BY <1>6, <1>11, <3>1, <4>1
    <3>. QED
      BY <1>15, <3>1
  <2>3. IsMultiple(X, p)
    <3>1. X = p * Q
      BY <1>6
    <3>. QED
      BY <3>1 DEF IsMultiple
  <2>4. ~ IsMultiple(X, PowerOf(10, n + 1))
    <3>. SUFFICES ASSUME IsMultiple(X, PowerOf(10, n + 1)) PROVE FALSE
      OBVIOUS
    <3>1. PICK z \in Int : X = (10 * p) * z
      BY <1>6 DEF IsMultiple
    <3>2. PICK w \in Int : w = ten * z
      BY Distributes
    <3>3. p * Q = p * w
      <4>1. (ten * p) * z = p * (ten * z)
        BY ProductsAssociate
      <4>. QED
        BY <1>6, <1>7, <3>1, <3>2, <4>1
    <3>4. Q = w
      <4>1. p >= 1
        BY <1>6
      <4>2. ASSUME NEW u \in Int, NEW v \in Int, u < v PROVE p * u < p * v
        <5>1. u + 1 <= v
          BY <4>2
        <5>2. p * (u + 1) <= p * v
          BY <5>1, ProductGrows
        <5>3. p * (u + 1) = p * u + p * 1 /\ p * u \in Int /\ p * v \in Int
          BY Distributes
        <5>. QED
          BY <4>1, <5>2, <5>3
      <4>3. ~ (Q < w) /\ ~ (w < Q)
        <5>1. p * Q \in Int /\ p * w \in Int
          BY Distributes
        <5>2. Q \in Int /\ w \in Int
          OBVIOUS
        <5>. QED
          BY <3>3, <4>2, <5>1, <5>2
      <4>. QED
        BY <4>3
    <3>5. PICK zero \in Int : zero = 0
      OBVIOUS
    <3>6. Q = ten * z + zero /\ Q \in Int /\ 0 <= zero /\ zero < ten
      BY <1>7, <3>2, <3>4, <3>5
    <3>7. Q % ten = zero
      BY <3>6, DivisionIsUnique
    <3>. QED
      BY <1>11, <2>2, <3>5, <3>7
  <2>5. IsTrailing(n, x)
    <3>1. n + 1 \in Nat
      OBVIOUS
    <3>2. PICK p1 \in Int : p1 = PowerOf(10, n + 1)
      <4>1. PowerOf(10, n + 1) \in Nat
        BY <3>1, TenPowers
      <4>. QED
        BY <4>1
    <3>3. (IsMultiple(X, p) <=> IsMultiple(x, p)) /\ (IsMultiple(X, p1) <=> IsMultiple(x, p1))
      BY <1>3, AbsMultiple
    <3>. QED
      BY <1>6, <2>3, <2>4, <3>2, <3>3, TrailingFacts
  <2>6. x # 0 /\ n \in 0 .. X
    <3>1. 1 * p <= Q * p
      BY <1>6, ProductGrows
    <3>2. X >= p
      BY <1>6, <3>1
    <3>3. X >= n + 1
      BY <1>6, <3>2
    <3>4. x = 0 => X = 0
      BY <1>3 DEF AbsOf
    <3>. QED
      BY <3>3, <3>4
  <2>7. Expected = <<CHOOSE m \in 0 .. X : IsTrailing(m, x)>>
    <3>1. Expected = <<CHOOSE m \in 0 .. AbsOf(x) : x % PowerOf(10, m) = 0 /\ x % PowerOf(10, m + 1) # 0>>
      BY <1>1, <1>2, <1>3, <2>6 DEF Expected
    <3>. QED
      BY <1>3, <3>1 DEF IsTrailing
  <2>8. PICK m : m = CHOOSE l \in 0 .. X : IsTrailing(l, x)
    OBVIOUS
  <2>9. m \in 0 .. X /\ IsTrailing(m, x)
    <3>1. \E l \in 0 .. X : IsTrailing(l, x)
      BY <2>5, <2>6
    <3>. QED
      BY <2>8, <3>1
  <2>10. m \in Nat
    BY <2>9
  <2>11. m = n
    BY <2>5, <2>9, <2>10, TrailingIsUnique
  <2>12. Expected = <<n>>
    BY <2>7, <2>8, <2>11
  <2>. QED
    BY <2>1, <2>12, ReturnsCounter
<1>16. CASE ~ (k = 0 \/ r # 0)
  <2>1. Loop([quotient |-> dq, n |-> n + 1])
    BY <1>5, <1>8, <1>10, <1>12, <1>14, <1>16 DEF ZeroesTurn
  <2>2. PICK n1 \in Nat : n1 = n + 1
    OBVIOUS
  <2>3. loop' = [quotient |-> dq, n |-> n1] /\ call' = call
    BY <2>1, <2>2 DEF Loop
  <2>4. k >= 1
    BY <1>16
  <2>5. X = k * PowerOf(10, n1)
    <3>1. k * (ten * p) = (ten * k) * p
      BY ProductsAssociate
    <3>2. ten * k = Q
      <4>1. r = 0
        BY <1>16
      <4>2. ten * k \in Nat
        BY ProductIsNat
      <4>. QED
        BY <1>11, <4>1, <4>2
    <3>3. PowerOf(10, n1) = ten * p
      BY <1>6, <1>7, <2>2
    <3>. QED
      BY <1>6, <3>1, <3>2, <3>3
  <2>6. dq \in Integer
    <3>1. PICK L \in Nat : L = Limit /\ Q < L
      BY <1>6, IntegerValues, LimitFacts
    <3>2. k <= Q
      BY <1>7, <1>11
    <3>3. Magnitude(dq) < Limit
      BY <1>12, <3>1, <3>2
    <3>. QED
      BY <3>3, IntegerFacts, LimitFacts
  <2>7. Magnitude(dq) >= 1 /\ Magnitude(call.a) = Magnitude(dq) * PowerOf(10, n1)
    BY <1>1, <1>3, <1>12, <2>4, <2>5
  <2>8. ZeroesLoop(loop')
    BY <2>3, <2>6, <2>7 DEF ZeroesLoop
  <2>. QED
    BY <2>1, <2>8 DEF Loop
<1>. QED
  BY <1>15, <1>16

-----------------------------------------------------------------------------
(* The invariant *)

\* What a loop under way keeps, whatever the operation.
UnderWay ==
  /\ call.op \in {"gcd", "lcm"} => GcdLoop(loop)
  /\ call.op = "power" => PowerLoop(loop)
  /\ call.op = "factorial" => FactorialLoop(loop)
  /\ call.op = "parse" => ParseLoop(loop)
  /\ call.op = "base10" => Base10Loop(loop)
  /\ call.op = "zeroes" => ZeroesLoop(loop)

\* Between two turns the variables of the loop are as the operation needs them, and
\* what is returned is exact
ExactInv ==
  /\ call \in Calls
  /\ pc = "loop" => UnderWay
  /\ ResultIsExact

\* What is expected depends on the call only
LEMMA CarriesStay ==
  ASSUME call' = call
  PROVE  CarryIsLost' = CarryIsLost /\ Expected' = Expected
<1>1. IsSum' = IsSum
  BY DEF IsSum
<1>2. CarryIsLost' = CarryIsLost
  BY <1>1 DEF CarryIsLost
<1>3. Expected' = Expected
  BY DEF Expected
<1>. QED
  BY <1>2, <1>3

\* So do the invariants of the loops, with their variables
LEMMA LoopsStay ==
  ASSUME call' = call
  PROVE  /\ GcdLoop(loop)' <=> GcdLoop(loop')
         /\ PowerLoop(loop)' <=> PowerLoop(loop')
         /\ FactorialLoop(loop)' <=> FactorialLoop(loop')
         /\ ParseLoop(loop)' <=> ParseLoop(loop')
         /\ Base10Loop(loop)' <=> Base10Loop(loop')
         /\ ZeroesLoop(loop)' <=> ZeroesLoop(loop')
<1>1. GcdLoop(loop)' <=> GcdLoop(loop')
  BY DEF GcdLoop
<1>2. PowerLoop(loop)' <=> PowerLoop(loop')
  BY DEF PowerLoop
<1>3. FactorialLoop(loop)' <=> FactorialLoop(loop')
  BY DEF FactorialLoop
<1>4. ParseLoop(loop)' <=> ParseLoop(loop')
  BY DEF ParseLoop
<1>5. Base10Loop(loop)' <=> Base10Loop(loop')
  BY DEF Base10Loop
<1>6. ZeroesLoop(loop)' <=> ZeroesLoop(loop')
  BY DEF ZeroesLoop
<1>. QED
  BY <1>1, <1>2, <1>3, <1>4, <1>5, <1>6

\* A step that returns exactly
LEMMA ReturnedKeepsInv ==
  ASSUME call \in Calls, call' = call, Returned'
  PROVE  ExactInv'
BY DEF ExactInv, ResultIsExact, Returned

\* The operation of a step, for the loop that goes on.
LEMMA LoopKeepsInv ==
  ASSUME call \in Calls, Loop(loop'),
         \/ call.op \in {"gcd", "lcm"} /\ GcdLoop(loop')
         \/ call.op = "power" /\ PowerLoop(loop')
         \/ call.op = "factorial" /\ FactorialLoop(loop')
         \/ call.op = "parse" /\ ParseLoop(loop')
         \/ call.op = "base10" /\ Base10Loop(loop')
         \/ call.op = "zeroes" /\ ZeroesLoop(loop')
  PROVE  ExactInv'
<1>1. call' = call /\ pc' = "loop"
  BY DEF Loop
<1>2. UnderWay'
  BY <1>1, LoopsStay DEF UnderWay
<1>3. Exact'
  BY <1>1 DEF Exact
<1>. QED
  BY <1>1, <1>2, <1>3 DEF ExactInv, ResultIsExact

\* The sums, the only operations that may be wrong
LEMMA SumsKeepInv ==
  ASSUME ExactInv, Addition \/ Subtraction
  PROVE  ExactInv'
<1>1. call' = call /\ pc' # "loop" /\ call \in Calls
  BY DEF Addition, Subtraction, Return, ExactInv
<1>2. CASE CarryIsLost
  <2>1. CarryIsLost'
    BY <1>1, <1>2, CarriesStay
  <2>. QED
    BY <1>1, <2>1 DEF ExactInv, ResultIsExact
<1>3. CASE ~ CarryIsLost
  <2>1. Returned'
    BY <1>1, <1>3, AdditionIsExact, SubtractionIsExact
  <2>. QED
    BY <1>1, <2>1, ReturnedKeepsInv
<1>. QED
  BY <1>2, <1>3

\* Every action
LEMMA StepsKeepInv ==
  ASSUME ExactInv, Next
  PROVE  ExactInv'
<1>0. call \in Calls /\ (pc = "loop" => UnderWay)
  BY DEF ExactInv
<1>1. CASE Addition \/ Subtraction
  BY <1>1, SumsKeepInv
<1>2. CASE Multiplication
  <2>1. call' = call /\ Returned'
    BY <1>0, <1>2, MultiplicationIsExact DEF Multiplication, Return
  <2>. QED
    BY <1>0, <2>1, ReturnedKeepsInv
<1>3. CASE Divide
  <2>1. call' = call /\ Returned'
    BY <1>0, <1>3, DivideIsExact DEF Divide, Return
  <2>. QED
    BY <1>0, <2>1, ReturnedKeepsInv
<1>4. CASE StartGCD
  <2>1. call' = call /\ call.op \in {"gcd", "lcm"}
    BY <1>4 DEF StartGCD, Return, Loop, Called
  <2>2. Returned' \/ (Loop(loop') /\ GcdLoop(loop'))
    BY <1>0, <1>4, StartGCDIsExact
  <2>. QED
    BY <1>0, <2>1, <2>2, ReturnedKeepsInv, LoopKeepsInv
<1>5. CASE GCDTurn
  <2>1. call' = call /\ call.op \in {"gcd", "lcm"} /\ pc = "loop"
    BY <1>5 DEF GCDTurn, ReturnGCD, Return, Loop, InLoop
  <2>2. GcdLoop(loop)
    BY <1>0, <2>1 DEF UnderWay
  <2>3. Returned' \/ (Loop(loop') /\ GcdLoop(loop'))
    BY <1>0, <1>5, <2>1, <2>2, TurnsOfGCD
  <2>. QED
    BY <1>0, <2>1, <2>3, ReturnedKeepsInv, LoopKeepsInv
<1>6. CASE StartPower
  <2>1. call' = call /\ call.op = "power"
    BY <1>6 DEF StartPower, Return, Loop, Called
  <2>2. Returned' \/ (Loop(loop') /\ PowerLoop(loop'))
    BY <1>0, <1>6, StartPowerIsExact
  <2>. QED
    BY <1>0, <2>1, <2>2, ReturnedKeepsInv, LoopKeepsInv
<1>7. CASE PowerTurn
  <2>1. call' = call /\ call.op = "power" /\ pc = "loop"
    BY <1>7 DEF PowerTurn, Turn, Return, Loop, InLoop
  <2>2. PowerLoop(loop)
    BY <1>0, <2>1 DEF UnderWay
  <2>3. Returned' \/ (Loop(loop') /\ PowerLoop(loop'))
    BY <1>0, <1>7, <2>2, TurnsOfPower
  <2>. QED
    BY <1>0, <2>1, <2>3, ReturnedKeepsInv, LoopKeepsInv
<1>8. CASE StartFactorial
  <2>1. call.op = "factorial"
    BY <1>8 DEF StartFactorial, Called
  <2>2. Loop(loop') /\ FactorialLoop(loop')
    BY <1>0, <1>8, StartFactorialIsExact
  <2>. QED
    BY <1>0, <2>1, <2>2, LoopKeepsInv
<1>9. CASE FactorialTurn
  <2>1. call' = call /\ call.op = "factorial" /\ pc = "loop"
    BY <1>9 DEF FactorialTurn, Turn, Return, Loop, InLoop
  <2>2. FactorialLoop(loop)
    BY <1>0, <2>1 DEF UnderWay
  <2>3. Returned' \/ (Loop(loop') /\ FactorialLoop(loop'))
    BY <1>0, <1>9, <2>2, TurnsOfFactorial
  <2>. QED
    BY <1>0, <2>1, <2>3, ReturnedKeepsInv, LoopKeepsInv
<1>10. CASE StartParse
  <2>1. call.op = "parse"
    BY <1>10 DEF StartParse, Called
  <2>2. Loop(loop') /\ ParseLoop(loop')
    BY <1>0, <1>10, StartParseIsExact
  <2>. QED
    BY <1>0, <2>1, <2>2, LoopKeepsInv
<1>11. CASE ParseTurn
  <2>1. call' = call /\ call.op = "parse" /\ pc = "loop"
    BY <1>11 DEF ParseTurn, Turn, Return, Loop, InLoop
  <2>2. ParseLoop(loop)
    BY <1>0, <2>1 DEF UnderWay
  <2>3. Returned' \/ (Loop(loop') /\ ParseLoop(loop'))
    BY <1>0, <1>11, <2>2, TurnsOfParse
  <2>. QED
    BY <1>0, <2>1, <2>3, ReturnedKeepsInv, LoopKeepsInv
<1>12. CASE StartBase10
  <2>1. call' = call /\ call.op = "base10"
    BY <1>12 DEF StartBase10, Return, Loop, Called
  <2>2. Returned' \/ (Loop(loop') /\ Base10Loop(loop'))
    BY <1>0, <1>12, StartBase10IsExact
  <2>. QED
    BY <1>0, <2>1, <2>2, ReturnedKeepsInv, LoopKeepsInv
<1>13. CASE Base10Turn
  <2>1. call' = call /\ call.op = "base10" /\ pc = "loop"
    BY <1>13 DEF Base10Turn, Turn, Return, Loop, InLoop
  <2>2. Base10Loop(loop)
    BY <1>0, <2>1 DEF UnderWay
  <2>3. Returned' \/ (Loop(loop') /\ Base10Loop(loop'))
    BY <1>0, <1>13, <2>2, TurnsOfBase10
  <2>. QED
    BY <1>0, <2>1, <2>3, ReturnedKeepsInv, LoopKeepsInv
<1>14. CASE StartZeroes
  <2>1. call' = call /\ call.op = "zeroes"
    BY <1>14 DEF StartZeroes, Return, Loop, Called
  <2>2. Returned' \/ (Loop(loop') /\ ZeroesLoop(loop'))
    BY <1>0, <1>14, StartZeroesIsExact
  <2>. QED
    BY <1>0, <2>1, <2>2, ReturnedKeepsInv, LoopKeepsInv
<1>15. CASE ZeroesTurn
  <2>1. call' = call /\ call.op = "zeroes" /\ pc = "loop"
    BY <1>15 DEF ZeroesTurn, Return, Loop, InLoop
  <2>2. ZeroesLoop(loop)
    BY <1>0, <2>1 DEF UnderWay
  <2>3. Returned' \/ (Loop(loop') /\ ZeroesLoop(loop'))
    BY <1>0, <1>15, <2>2, TurnsOfZeroes
  <2>. QED
    BY <1>0, <2>1, <2>3, ReturnedKeepsInv, LoopKeepsInv
<1>. QED
  BY <1>1, <1>2, <1>3, <1>4, <1>5, <1>6, <1>7, <1>8, <1>9, <1>10, <1>11, <1>12, <1>13, <1>14, <1>15 DEF Next

\* Whatever the width of the digits, the largest number of digits and the operands, an
\* operation on integers returns exactly what the integers of mathematics say, in canonical
\* form, and it raises IntegerOverflow only when that has too many digits, but for the sums
\* that lose a carry (integer.cpp:434-897).
THEOREM ResultsAreExact == Spec => []ResultIsExact
<1>1. Init => ExactInv
  BY DEF Init, ExactInv, ResultIsExact, Exact
<1>2. ExactInv /\ [Next]_vars => ExactInv'
  <2>. SUFFICES ASSUME ExactInv, [Next]_vars PROVE ExactInv'
    OBVIOUS
  <2>1. CASE Next
    BY <2>1, StepsKeepInv
  <2>2. CASE UNCHANGED vars
    <3>1. call' = call /\ pc' = pc /\ loop' = loop /\ result' = result
      BY <2>2 DEF vars
    <3>2. CarryIsLost' = CarryIsLost /\ Expected' = Expected
      BY <3>1, CarriesStay
    <3>3. UnderWay' <=> UnderWay
      BY <3>1, LoopsStay DEF UnderWay
    <3>4. Exact' <=> Exact
      BY <3>1, <3>2 DEF Exact
    <3>. QED
      BY <3>1, <3>2, <3>3, <3>4 DEF ExactInv, ResultIsExact
  <2>. QED
    BY <2>1, <2>2
<1>3. ExactInv => ResultIsExact
  BY DEF ExactInv
<1>. QED
  BY <1>1, <1>2, <1>3, PTL DEF Spec

=============================================================================
