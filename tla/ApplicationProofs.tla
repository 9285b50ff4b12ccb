------------------------- MODULE ApplicationProofs -------------------------
(***************************************************************************)
(* What the applications of the calculations and of the graph rest on.     *)
(*                                                                         *)
(* First the history of the calculations, cut at any write by the home     *)
(* key, for every size of the buffer, of the offsets and of the            *)
(* calculations.  The place of an offset is a product of its index by      *)
(* their size: the first lemma says how these places are ordered, and      *)
(* nothing after it multiplies.  A deletion is described by the buffer it  *)
(* began with, of which it has moved a part.                               *)
(*                                                                         *)
(* Then the caches of the drawn functions, for every number of functions,  *)
(* of caches and of cells.  A ring is panned by additions that are brought *)
(* back into it, and a parameter hits a cell when a division is exact: a   *)
(* few lemmas say so, and the rest follows the pointers.                   *)
(***************************************************************************)
EXTENDS CalculationStore, FunctionCache, FiniteSetTheorems, SequenceTheorems,
        WellFoundedInduction, TLAPS

-----------------------------------------------------------------------------
(* Induction *)

\* A set of naturals that holds something has a least element: the library's theorem on
\* minimal elements, for the order of the naturals.
LEMMA LeastElement ==
  ASSUME NEW T, T \subseteq Nat, T # {}
  PROVE  \E x \in T : \A y \in T : x <= y
<1>1. IsWellFoundedOn(OpToRel(<, Nat), Nat)
  BY NatLessThanWellFounded, Zenon
<1>2. PICK x \in T : \A y \in T : ~ (<<y, x>> \in OpToRel(<, Nat))
  BY <1>1, WFMin, Zenon
<1>3. ASSUME NEW y \in T PROVE x <= y
  <2>1. x \in Nat /\ y \in Nat
    OBVIOUS
  <2>2. ~ (y < x)
    BY <1>2, <2>1 DEF OpToRel
  <2>. QED
    BY <2>1, <2>2
<1>. QED
  BY <1>3

\* What is true of zero and of the successor of every number it is true of is true of
\* all: the truth is a set here, since no prover instantiates the library's induction.
LEMMA SetInduction ==
  ASSUME NEW T, 0 \in T, \A n \in Nat : n \in T => n + 1 \in T
  PROVE  Nat \subseteq T
<1>. SUFFICES ASSUME Nat \ T # {} PROVE FALSE
  OBVIOUS
<1>1. PICK x \in Nat \ T : \A y \in Nat \ T : x <= y
  BY LeastElement
<1>2. x # 0 /\ x - 1 \in Nat /\ (x - 1) + 1 = x /\ ~ (x <= x - 1)
  BY <1>1
<1>3. x - 1 \in T
  BY <1>1, <1>2
<1>. QED
  BY <1>1, <1>2, <1>3

-----------------------------------------------------------------------------
(* The invariant *)

\* Where the offset of an element is written
Slot(i) == BufferSize - SizeOfOffset * (i + 1)

\* Where an element begins in a buffer
StartIn(m, i) == IF i = 0 THEN 0 ELSE m[Slot(i - 1)].at

\* A buffer whose n elements are the calculations of h
Holds(m, n, h) ==
  /\ m \in [Address -> Byte] /\ h \in Seq(Calculation) /\ n = Len(h)
  /\ Slot(n) + SizeOfOffset \in Nat /\ StartIn(m, n) <= Slot(n) + SizeOfOffset
  /\ \A i \in 0 .. n - 1 :
       /\ m[Slot(i)].at = StartIn(m, i) + SizeOf[h[i + 1]]
       /\ \A k \in 0 .. SizeOf[h[i + 1]] - 1 : m[StartIn(m, i) + k] = [of |-> h[i + 1], at |-> k]
  /\ \A i, j \in 0 .. n : i <= j => StartIn(m, i) <= StartIn(m, j)

\* The buffer in the middle of the deletion d, which began with the buffer old: the
\* elements that follow the deleted one, then their offsets, are moved in order.
Moves(old, d, m, n, h) ==
  /\ Holds(old, n, h)
  /\ d.index \in 0 .. n - 1
  /\ d.start = StartIn(old, d.index) /\ d.end = StartIn(old, d.index + 1)
  /\ d.shifted = StartIn(old, n) - d.end
  /\ d.moved \in 0 .. d.shifted
  /\ d.offsets \in d.index .. n - 1
  /\ d.offsets > d.index => d.moved = d.shifted
  /\ \A x \in 0 .. d.start - 1 : m[x] = old[x]
  /\ \A x \in d.start .. d.start + d.moved - 1 : m[x] = old[x + (d.end - d.start)]
  /\ \A x \in d.end + d.moved .. StartIn(old, n) - 1 : m[x] = old[x]
  /\ \A j \in 0 .. n - 1 :
       m[Slot(j)].at = IF d.index <= j /\ j < d.offsets
                            THEN old[Slot(j + 1)].at - (d.end - d.start) ELSE old[Slot(j)].at

Deletion ==
  [op : {"move"}, index : Nat, pushed : Calculation \cup {NoCalculation}, offsets : Nat,
   moved : Nat, start : Nat, end : Nat, shifted : Nat]
DoingOK ==
  /\ doing \in {Idle} \cup Deletion \cup [op : {"room", "count"}, pushed : Calculation]
              \cup [op : {"write"}, pushed : Calculation, written : Nat]
  /\ doing # Idle /\ doing.pushed # NoCalculation => SizeOf[doing.pushed] <= MaximumSize
  /\ locks = IF doing.op = "move" THEN 1 ELSE 0

\* The part of the pushed calculation that is written, above the elements
WriteOK ==
  LET end == StartIn(memory, numberOfElements)
      full == SizeOf[doing.pushed]
      Written(n) == \A k \in 0 .. n - 1 : memory[end + k] = [of |-> doing.pushed, at |-> k]
  IN  /\ doing.op \in {"write", "count"} => end + full <= Slot(numberOfElements)
      /\ doing.op = "write" => doing.written <= full /\ Written(doing.written)
      /\ doing.op = "count" => Written(full) /\ memory[Slot(numberOfElements)].at = end + full

IInv ==
  /\ memory \in [Address -> Byte] /\ before \in Seq(Calculation) /\ BreakerTypeOK
  /\ DoingOK /\ WriteOK
  /\ IF doing.op = "move" THEN \E old : Moves(old, doing, memory, numberOfElements, history)
     ELSE Holds(memory, numberOfElements, history)

-----------------------------------------------------------------------------
(* The places of the offsets *)

LEMMA SlotsAreApart ==
  ASSUME StoreAssumption, NEW i \in Nat
  PROVE  /\ Slot(i) \in Int /\ Slot(i + 1) + SizeOfOffset = Slot(i)
         /\ Slot(0) + SizeOfOffset = BufferSize
         /\ \A j \in Nat : i < j => Slot(j) + SizeOfOffset <= Slot(i)
         /\ OffsetBytes(i) = Slot(i) .. Slot(i) + SizeOfOffset - 1
         /\ BufferSize - SizeOfOffset * i = Slot(i) + SizeOfOffset
<1>. DEFINE s == SizeOfOffset
<1>1. s \in Nat /\ s > 0 /\ BufferSize \in Nat /\ i \in Nat
  BY DEF StoreAssumption
<1>. HIDE DEF s
<1>2. s * i \in Int /\ s * (i + 1) = s * i + s /\ s * (i + 2) = s * i + 2 * s /\ s * (0 + 1) = s
  BY <1>1
<1>3. \A j \in Nat : i < j => s * (j + 1) >= s * (i + 1) + s /\ s * (j + 1) \in Int
  <2>. SUFFICES ASSUME NEW j \in Nat, i < j
                PROVE  s * (j + 1) >= s * (i + 1) + s /\ s * (j + 1) \in Int
    OBVIOUS
  <2>. DEFINE e == j - i - 1
  <2>1. e \in Nat /\ j + 1 = (i + 1) + 1 + e
    BY <1>1
  <2>. HIDE DEF e
  <2>2. s * (j + 1) = s * (i + 1) + s + s * e
    BY <1>1, <2>1
  <2>3. s * e >= 0 /\ s * e \in Int /\ s * (i + 1) \in Int
    BY <1>1, <2>1
  <2>. QED
    BY <1>1, <2>2, <2>3
<1>4. Slot(i) = BufferSize - s * (i + 1) /\ Slot(i + 1) = BufferSize - s * (i + 2)
      /\ Slot(0) = BufferSize - s * (0 + 1)
      /\ \A j \in Nat : Slot(j) = BufferSize - s * (j + 1)
  BY <1>1 DEF Slot, s
<1>5. OffsetBytes(i) = BufferSize - s * (i + 1) .. BufferSize - s * i - 1
  BY DEF OffsetBytes, s
<1>6. BufferSize - s * i = Slot(i) + s
  BY <1>1, <1>2, <1>4
<1>7. \A j \in Nat : i < j => Slot(j) + s <= Slot(i)
  <2>. SUFFICES ASSUME NEW j \in Nat, i < j PROVE Slot(j) + s <= Slot(i)
    OBVIOUS
  <2>. DEFINE u == s * (i + 1)
              v == s * (j + 1)
  <2>1. u \in Int /\ v \in Int /\ v >= u + s
    BY <1>1, <1>2, <1>3
  <2>2. Slot(i) = BufferSize - u /\ Slot(j) = BufferSize - v
    BY <1>4
  <2>. HIDE DEF u, v
  <2>. QED
    BY <1>1, <2>1, <2>2
<1>8. Slot(i) \in Int /\ Slot(i + 1) + s = Slot(i) /\ Slot(0) + s = BufferSize
  BY <1>1, <1>2, <1>4
<1>. QED
  BY <1>5, <1>4, <1>6, <1>7, <1>8 DEF s

\* What the operators of the store read in its buffer
LEMMA Reading ==
  ASSUME StoreAssumption, numberOfElements \in Nat
  PROVE  /\ EndOfElements = StartIn(memory, numberOfElements)
         /\ OffsetArea = Slot(numberOfElements) + SizeOfOffset
         /\ \A i \in Nat : /\ OffsetAt(i) = memory[Slot(i)].at
                           /\ ElementAtIndex(i) = StartIn(memory, i)
                           /\ EndOfElementAtIndex(i) = StartIn(memory, i + 1)
<1>1. OffsetArea = Slot(numberOfElements) + SizeOfOffset
  BY SlotsAreApart DEF OffsetArea
<1>2. \A i \in Nat : OffsetAt(i) = memory[Slot(i)].at
  BY DEF OffsetAt, Slot
<1>3. \A i \in Nat : ElementAtIndex(i) = StartIn(memory, i)
  BY <1>2 DEF ElementAtIndex, EndOfElementAtIndex, StartIn
<1>4. \A i \in Nat : EndOfElementAtIndex(i) = StartIn(memory, i + 1)
  <2>. SUFFICES ASSUME NEW i \in Nat PROVE EndOfElementAtIndex(i) = StartIn(memory, i + 1)
    OBVIOUS
  <2>1. i + 1 # 0 /\ (i + 1) - 1 = i
    OBVIOUS
  <2>. QED
    BY <1>2, <2>1 DEF EndOfElementAtIndex, StartIn
<1>. QED
  BY <1>1, <1>2, <1>3, <1>4 DEF EndOfElements

\* The elements lie one after the other below the offsets.
LEMMA Placed ==
  ASSUME StoreAssumption, NEW m, NEW n, NEW h, Holds(m, n, h)
  PROVE  /\ n \in Nat
         /\ \A i \in 0 .. n - 1 :
              /\ h[i + 1] \in Calculation /\ SizeOf[h[i + 1]] \in Nat \ {0}
              /\ Slot(i) \in Address /\ m[Slot(i)].at \in Nat
              /\ StartIn(m, i + 1) = m[Slot(i)].at
              /\ StartIn(m, i + 1) = StartIn(m, i) + SizeOf[h[i + 1]]
              /\ StartIn(m, n) <= Slot(i) /\ Slot(n) + SizeOfOffset <= Slot(i)
         /\ \A i \in 0 .. n : StartIn(m, i) \in Nat /\ StartIn(m, i) <= StartIn(m, n)
         /\ Slot(n) + SizeOfOffset <= BufferSize /\ StartIn(m, n) <= BufferSize
<1>1. /\ n \in Nat /\ h \in Seq(Calculation) /\ n = Len(h) /\ m \in [Address -> Byte]
      /\ Slot(n) + SizeOfOffset \in Nat /\ StartIn(m, n) <= Slot(n) + SizeOfOffset
      /\ BufferSize \in Nat /\ SizeOfOffset \in Nat \ {0}
  BY DEF Holds, StoreAssumption
<1>2. ASSUME NEW i \in 0 .. n - 1
      PROVE  Slot(i) \in Address /\ Slot(n) + SizeOfOffset <= Slot(i)
  <2>1. i \in Nat /\ n \in Nat /\ i < n
    BY <1>1
  <2>2. /\ Slot(i) \in Int /\ Slot(n) + SizeOfOffset <= Slot(i)
        /\ Slot(0) + SizeOfOffset = BufferSize /\ Slot(0) \in Int
    BY <2>1, SlotsAreApart
  <2>3. Slot(i) <= Slot(0)
    <3>1. CASE i = 0
      BY <2>2, <3>1
    <3>2. CASE i # 0
      <4>1. 0 < i
        BY <2>1, <3>2
      <4>2. Slot(i) + SizeOfOffset <= Slot(0)
        BY <2>1, <4>1, SlotsAreApart
      <4>. QED
        BY <1>1, <2>2, <4>2
    <3>. QED
      BY <3>1, <3>2
  <2>. QED
    BY <1>1, <2>2, <2>3 DEF Address
<1>3. ASSUME NEW i \in 0 .. n - 1
      PROVE  /\ h[i + 1] \in Calculation /\ SizeOf[h[i + 1]] \in Nat \ {0}
             /\ m[Slot(i)].at \in Nat /\ StartIn(m, i + 1) = m[Slot(i)].at
             /\ m[Slot(i)].at = StartIn(m, i) + SizeOf[h[i + 1]]
  <2>1. i + 1 \in 1 .. Len(h) /\ i + 1 # 0 /\ (i + 1) - 1 = i
    BY <1>1
  <2>2. h[i + 1] \in Calculation /\ SizeOf[h[i + 1]] \in Nat \ {0}
    BY <1>1, <2>1 DEF StoreAssumption
  <2>3. m[Slot(i)].at \in Nat
    BY <1>1, <1>2 DEF Byte
  <2>4. StartIn(m, i + 1) = m[Slot(i)].at
    BY <2>1 DEF StartIn
  <2>. QED
    BY <2>2, <2>3, <2>4 DEF Holds
<1>4. ASSUME NEW i \in 0 .. n
      PROVE  StartIn(m, i) \in Nat /\ StartIn(m, i) <= StartIn(m, n)
  <2>1. StartIn(m, i) <= StartIn(m, n)
    <3>1. n \in 0 .. n /\ i <= n
      BY <1>1
    <3>. QED
      BY <3>1 DEF Holds
  <2>2. CASE i = 0
    BY <2>1, <2>2 DEF StartIn
  <2>3. CASE i # 0
    <3>1. i - 1 \in 0 .. n - 1 /\ i = (i - 1) + 1
      BY <1>1, <2>3
    <3>. QED
      BY <1>3, <2>1, <2>3, <3>1 DEF StartIn
  <2>. QED
    BY <2>2, <2>3
<1>5. StartIn(m, n) \in Nat
  BY <1>1, <1>4
<1>6. ASSUME NEW i \in 0 .. n - 1 PROVE StartIn(m, n) <= Slot(i)
  <2>1. Slot(i) \in Int
    BY <1>2 DEF Address
  <2>2. Slot(n) + SizeOfOffset <= Slot(i)
    BY <1>2
  <2>. QED
    BY <1>1, <1>5, <2>1, <2>2
<1>7. Slot(n) + SizeOfOffset <= BufferSize
  <2>1. CASE n = 0
    BY <1>1, <2>1, SlotsAreApart
  <2>2. CASE n # 0
    <3>1. 0 \in 0 .. n - 1
      BY <1>1, <2>2
    <3>2. Slot(n) + SizeOfOffset <= Slot(0) /\ Slot(0) \in 0 .. BufferSize - 1
      BY <1>2, <3>1 DEF Address
    <3>. QED
      BY <1>1, <3>2
  <2>. QED
    BY <2>1, <2>2
<1>. QED
  BY <1>1, <1>2, <1>3, <1>4, <1>5, <1>6, <1>7

\* Only the bytes of the elements and the first one of each offset matter.
LEMMA SameBytes ==
  ASSUME StoreAssumption, NEW m, NEW n, NEW h, Holds(m, n, h), NEW w \in [Address -> Byte],
         \A x \in 0 .. StartIn(m, n) - 1 : w[x] = m[x],
         \A i \in 0 .. n - 1 : w[Slot(i)] = m[Slot(i)]
  PROVE  Holds(w, n, h) /\ \A i \in 0 .. n : StartIn(w, i) = StartIn(m, i)
<1>1. n \in Nat
  BY Placed
<1>2. ASSUME NEW i \in 0 .. n PROVE StartIn(w, i) = StartIn(m, i)
  <2>1. CASE i = 0
    BY <2>1 DEF StartIn
  <2>2. CASE i # 0
    <3>1. i - 1 \in 0 .. n - 1
      BY <1>1, <2>2
    <3>. QED
      BY <2>2, <3>1 DEF StartIn
  <2>. QED
    BY <2>1, <2>2
<1>3. ASSUME NEW i \in 0 .. n - 1
      PROVE  /\ w[Slot(i)].at = StartIn(w, i) + SizeOf[h[i + 1]]
             /\ \A k \in 0 .. SizeOf[h[i + 1]] - 1 :
                  w[StartIn(w, i) + k] = [of |-> h[i + 1], at |-> k]
  <2>1. i \in 0 .. n /\ i + 1 \in 0 .. n
    BY <1>1
  <2>2. w[Slot(i)].at = StartIn(w, i) + SizeOf[h[i + 1]]
    BY <1>2, <2>1 DEF Holds
  <2>3. ASSUME NEW k \in 0 .. SizeOf[h[i + 1]] - 1
        PROVE  w[StartIn(w, i) + k] = [of |-> h[i + 1], at |-> k]
    <3>1. /\ StartIn(m, i) \in Nat /\ SizeOf[h[i + 1]] \in Nat
          /\ StartIn(m, i + 1) = StartIn(m, i) + SizeOf[h[i + 1]]
          /\ StartIn(m, i + 1) <= StartIn(m, n) /\ StartIn(m, n) \in Nat
      BY <1>1, <2>1, Placed
    <3>2. StartIn(m, i) + k \in 0 .. StartIn(m, n) - 1
      BY <3>1
    <3>3. m[StartIn(m, i) + k] = [of |-> h[i + 1], at |-> k]
      BY DEF Holds
    <3>. QED
      BY <1>2, <2>1, <3>2, <3>3
  <2>. QED
    BY <2>2, <2>3
<1>4. n \in 0 .. n
  BY <1>1
<1>. QED
  BY <1>2, <1>3, <1>4 DEF Holds

\* One element more: its bytes above the others, then its offset below the others
LEMMA OneMore ==
  ASSUME StoreAssumption, NEW m, NEW n, NEW h, Holds(m, n, h), NEW c \in Calculation,
         StartIn(m, n) + SizeOf[c] <= Slot(n), m[Slot(n)].at = StartIn(m, n) + SizeOf[c],
         \A k \in 0 .. SizeOf[c] - 1 : m[StartIn(m, n) + k] = [of |-> c, at |-> k]
  PROVE  Holds(m, n + 1, Append(h, c))
<1>. DEFINE g == Append(h, c)
            end == StartIn(m, n)
            full == SizeOf[c]
            top == StartIn(m, n + 1)
<1>1. /\ n \in Nat /\ end \in Nat /\ full \in Nat \ {0} /\ n + 1 # 0 /\ (n + 1) - 1 = n
      /\ \A i \in 0 .. n : StartIn(m, i) \in Nat /\ StartIn(m, i) <= end
  BY Placed DEF StoreAssumption
<1>2. /\ h \in Seq(Calculation) /\ n = Len(h) /\ g \in Seq(Calculation) /\ Len(g) = n + 1
      /\ \A i \in 0 .. n - 1 : g[i + 1] = h[i + 1]
      /\ g[n + 1] = c
  <2>1. h \in Seq(Calculation) /\ n = Len(h)
    BY DEF Holds
  <2>2. /\ g \in Seq(Calculation) /\ Len(g) = Len(h) + 1 /\ g[Len(h) + 1] = c
        /\ \A i \in 1 .. Len(h) : g[i] = h[i]
    BY <2>1, AppendProperties
  <2>. HIDE DEF g
  <2>3. \A i \in 0 .. n - 1 : i + 1 \in 1 .. Len(h)
    BY <1>1, <2>1
  <2>. QED
    BY <2>1, <2>2, <2>3
<1>3. top = end + full
  BY <1>1 DEF StartIn
<1>4. /\ Slot(n + 1) + SizeOfOffset = Slot(n) /\ Slot(n) \in Int
      /\ end + full <= Slot(n) /\ m[Slot(n)].at = end + full
      /\ \A k \in 0 .. full - 1 : m[end + k] = [of |-> c, at |-> k]
  BY <1>1, SlotsAreApart
<1>. HIDE DEF g, end, full, top
<1>5. Slot(n + 1) + SizeOfOffset \in Nat /\ top <= Slot(n + 1) + SizeOfOffset
  BY <1>1, <1>3, <1>4
<1>6. ASSUME NEW i \in 0 .. (n + 1) - 1
      PROVE  /\ m[Slot(i)].at = StartIn(m, i) + SizeOf[g[i + 1]]
             /\ \A k \in 0 .. SizeOf[g[i + 1]] - 1 :
                  m[StartIn(m, i) + k] = [of |-> g[i + 1], at |-> k]
  <2>1. CASE i = n
    BY <1>2, <1>4, <2>1 DEF end, full
  <2>2. CASE i # n
    <3>1. i \in 0 .. n - 1
      BY <1>1, <2>2
    <3>2. g[i + 1] = h[i + 1]
      BY <1>2, <3>1
    <3>. QED
      BY <3>1, <3>2, SMTT(30) DEF Holds
  <2>. QED
    BY <2>1, <2>2
<1>7. ASSUME NEW i \in 0 .. n + 1, NEW j \in 0 .. n + 1, i <= j
      PROVE  StartIn(m, i) <= StartIn(m, j)
  <2>1. CASE i \in 0 .. n /\ j \in 0 .. n
    BY <1>7, <2>1 DEF Holds
  <2>2. CASE i \in 0 .. n /\ j = n + 1
    <3>1. StartIn(m, i) \in Nat /\ StartIn(m, i) <= end
      BY <1>1, <2>2
    <3>2. StartIn(m, j) = end + full
      BY <1>3, <2>2 DEF top
    <3>. QED
      BY <1>1, <3>1, <3>2
  <2>3. CASE i = n + 1 /\ j = n + 1
    <3>1. StartIn(m, i) = end + full /\ StartIn(m, j) = end + full
      BY <1>3, <2>3 DEF top
    <3>. QED
      BY <1>1, <3>1
  <2>. QED
    BY <1>1, <1>7, <2>1, <2>2, <2>3
<1>. QED
  BY <1>2, <1>5, <1>6, <1>7 DEF Holds, g, top

\* What is left of a sequence without one of its elements
LEMMA Removed ==
  ASSUME NEW S, NEW h \in Seq(S), NEW p \in 0 .. Len(h) - 1
  PROVE  LET g == RemoveAt(h, p + 1)
         IN  /\ g \in Seq(S) /\ Len(g) = Len(h) - 1
             /\ \A i \in 0 .. Len(h) - 2 : g[i + 1] = IF i < p THEN h[i + 1] ELSE h[i + 2]
<1>. DEFINE n == Len(h)
            a == SubSeq(h, 1, p)
            b == SubSeq(h, p + 2, n)
            g == a \o b
<1>1. n \in Nat /\ p \in Nat /\ p < n
  <2>1. Len(h) \in Nat
    OBVIOUS
  <2>. HIDE DEF n
  <2>2. n \in Nat
    BY <2>1 DEF n
  <2>. QED
    BY <2>2 DEF n
<1>2. RemoveAt(h, p + 1) = g
  <2>1. (p + 1) - 1 = p /\ (p + 1) + 1 = p + 2
    BY <1>1
  <2>. QED
    BY <2>1 DEF RemoveAt
<1>3. a \in Seq(S) /\ Len(a) = p /\ \A i \in 1 .. p : a[i] = h[i]
  <2>1. \A i \in 1 .. p : i \in 1 .. n
    BY <1>1
  <2>2. \A i \in 1 .. p : h[i] \in S
    BY <2>1
  <2>3. /\ a \in Seq(S)
        /\ Len(a) = IF 1 <= p THEN p - 1 + 1 ELSE 0
        /\ \A i \in 1 .. p - 1 + 1 : a[i] = h[1 + i - 1]
    BY <1>1, <2>2, SubSeqProperties
  <2>. HIDE DEF a
  <2>4. Len(a) = p
    BY <1>1, <2>3
  <2>5. \A i \in 1 .. p : i \in 1 .. p - 1 + 1 /\ 1 + i - 1 = i
    BY <1>1
  <2>. QED
    BY <2>3, <2>4, <2>5
<1>4. b \in Seq(S) /\ Len(b) = n - p - 1 /\ \A i \in 1 .. n - p - 1 : b[i] = h[p + 1 + i]
  <2>1. \A i \in p + 2 .. n : i \in 1 .. n
    BY <1>1
  <2>2. \A i \in p + 2 .. n : h[i] \in S
    BY <2>1
  <2>3. /\ b \in Seq(S)
        /\ Len(b) = IF p + 2 <= n THEN n - (p + 2) + 1 ELSE 0
        /\ \A i \in 1 .. n - (p + 2) + 1 : b[i] = h[(p + 2) + i - 1]
    BY <1>1, <2>2, SubSeqProperties
  <2>. HIDE DEF b, n
  <2>4. Len(b) = n - p - 1
    BY <1>1, <2>3
  <2>5. \A i \in 1 .. n - p - 1 : i \in 1 .. n - (p + 2) + 1 /\ (p + 2) + i - 1 = p + 1 + i
    BY <1>1
  <2>. QED
    BY <2>3, <2>4, <2>5
<1>. HIDE DEF a, b
<1>5. /\ g \in Seq(S) /\ Len(g) = Len(a) + Len(b)
      /\ \A i \in 1 .. Len(g) : g[i] = IF i <= Len(a) THEN a[i] ELSE b[i - Len(a)]
  <2>1. a \in Seq(S) /\ b \in Seq(S)
    BY <1>3, <1>4
  <2>. QED
    BY <2>1, ConcatProperties
<1>. HIDE DEF g, n
<1>6. Len(g) = n - 1
  BY <1>1, <1>3, <1>4, <1>5
<1>7. /\ \A i \in 1 .. p : g[i] = a[i]
      /\ \A i \in p + 1 .. p + (n - p - 1) : g[i] = b[i - p]
  BY <1>1, <1>3, <1>5, <1>6
<1>8. ASSUME NEW i \in 0 .. n - 2 PROVE g[i + 1] = IF i < p THEN h[i + 1] ELSE h[i + 2]
  <2>1. CASE i < p
    <3>1. i + 1 \in 1 .. p
      BY <1>1, <2>1
    <3>. QED
      BY <1>3, <1>7, <2>1, <3>1
  <2>2. CASE ~(i < p)
    <3>1. /\ i + 1 \in p + 1 .. p + (n - p - 1) /\ (i + 1) - p \in 1 .. n - p - 1
          /\ p + 1 + ((i + 1) - p) = i + 2
      BY <1>1, <2>2
    <3>2. g[i + 1] = b[(i + 1) - p]
      BY <1>7, <3>1
    <3>. QED
      BY <1>4, <2>2, <3>1, <3>2
  <2>. QED
    BY <2>1, <2>2
<1>. QED
  BY <1>2, <1>5, <1>6, <1>8 DEF n

\* What a deletion leaves when the last offset is moved: the others, in their order
LEMMA OneLess ==
  ASSUME StoreAssumption, memory \in [Address -> Byte], NEW old, NEW d,
         Moves(old, d, memory, numberOfElements, history),
         d.moved = d.shifted, d.offsets >= numberOfElements - 1
  PROVE  Holds(memory, numberOfElements - 1, RemoveAt(history, d.index + 1))
<1>. DEFINE n == numberOfElements
            p == d.index
            s == d.start
            e == d.end
            w == e - s
            h == history
            g == RemoveAt(h, p + 1)
            last == StartIn(old, n)
<1>1. Holds(old, n, h)
  BY DEF Moves
<1>2. n \in Nat /\ p \in 0 .. n - 1 /\ n > 0
  <2>1. n \in Nat
    BY <1>1, Placed
  <2>2. p \in 0 .. n - 1
    BY DEF Moves
  <2>. HIDE DEF n, p
  <2>. QED
    BY <2>1, <2>2
<1>3. /\ s = StartIn(old, p) /\ e = StartIn(old, p + 1)
      /\ s \in Nat /\ e \in Nat /\ last \in Nat /\ s <= e /\ e <= last
  <2>1. s = StartIn(old, p) /\ e = StartIn(old, p + 1)
    BY DEF Moves
  <2>. HIDE DEF s, e
  <2>2. p \in 0 .. n /\ p + 1 \in 0 .. n /\ n \in 0 .. n /\ p <= p + 1 /\ p + 1 <= n
    BY <1>2
  <2>3. StartIn(old, p) \in Nat /\ StartIn(old, p + 1) \in Nat /\ last \in Nat
    BY <1>1, <2>2, Placed
  <2>4. StartIn(old, p) <= StartIn(old, p + 1) /\ StartIn(old, p + 1) <= last
    BY <1>1, <2>2 DEF Holds
  <2>. QED
    BY <2>1, <2>3, <2>4
<1>4. /\ d.moved = last - e
      /\ \A x \in 0 .. s - 1 : memory[x] = old[x]
      /\ \A x \in s .. s + d.moved - 1 : memory[x] = old[x + w]
  BY DEF Moves
<1>5. \A j \in 0 .. n - 1 :
        memory[Slot(j)].at = IF p <= j /\ j < n - 1 THEN old[Slot(j + 1)].at - w ELSE old[Slot(j)].at
  <2>1. d.offsets = n - 1
    <3>1. d.offsets \in p .. n - 1 /\ d.offsets >= n - 1
      BY DEF Moves
    <3>. HIDE DEF n, p
    <3>. QED
      BY <1>2, <3>1
  <2>. QED
    BY <2>1 DEF Moves
<1>6. /\ \A i \in 0 .. n : StartIn(old, i) \in Nat /\ StartIn(old, i) <= last
      /\ \A i \in 0 .. n - 1 :
           /\ h[i + 1] \in Calculation /\ SizeOf[h[i + 1]] \in Nat \ {0}
           /\ StartIn(old, i + 1) = old[Slot(i)].at
           /\ StartIn(old, i + 1) = StartIn(old, i) + SizeOf[h[i + 1]]
      /\ \A i, j \in 0 .. n : i <= j => StartIn(old, i) <= StartIn(old, j)
      /\ Slot(n - 1) \in Address /\ last <= Slot(n - 1)
  <2>1. n - 1 \in 0 .. n - 1
    BY <1>2
  <2>2. Slot(n - 1) \in Address /\ last <= Slot(n - 1)
    BY <1>1, <2>1, Placed
  <2>3. \A i, j \in 0 .. n : i <= j => StartIn(old, i) <= StartIn(old, j)
    BY <1>1 DEF Holds
  <2>. QED
    BY <1>1, <2>2, <2>3, Placed
<1>7. /\ g \in Seq(Calculation) /\ Len(g) = n - 1
      /\ \A i \in 0 .. n - 2 : g[i + 1] = IF i < p THEN h[i + 1] ELSE h[i + 2]
  <2>1. h \in Seq(Calculation) /\ Len(h) = n
    BY <1>1 DEF Holds
  <2>2. p \in 0 .. Len(h) - 1
    BY <1>2, <2>1
  <2>. HIDE DEF h, n, p
  <2>3. /\ g \in Seq(Calculation) /\ Len(g) = Len(h) - 1
        /\ \A i \in 0 .. Len(h) - 2 : g[i + 1] = IF i < p THEN h[i + 1] ELSE h[i + 2]
    BY <2>1, <2>2, Removed
  <2>. HIDE DEF g
  <2>. QED
    BY <2>1, <2>3
<1>. HIDE DEF n, p, s, e, h, g, last
<1>8. w \in Nat /\ s + w = e
  BY <1>3
<1>9. \A x \in s .. last - w - 1 : memory[x] = old[x + w]
  <2>1. s + d.moved - 1 = last - w - 1
    BY <1>3, <1>4
  <2>. QED
    BY <1>4, <2>1
<1>10. ASSUME NEW j \in 0 .. n - 1
       PROVE  StartIn(memory, j) = IF j < p THEN StartIn(old, j) ELSE StartIn(old, j + 1) - w
  <2>1. CASE j = 0
    <3>1. StartIn(memory, j) = 0 /\ StartIn(old, j) = 0
      BY <2>1 DEF StartIn
    <3>2. CASE p = 0
      <4>1. StartIn(old, j + 1) - w = s
        BY <1>3, <1>8, <2>1, <3>2
      <4>. QED
        BY <1>3, <2>1, <3>1, <3>2, <4>1
    <3>. QED
      BY <1>2, <2>1, <3>1, <3>2
  <2>2. CASE j # 0
    <3>1. j - 1 \in 0 .. n - 1 /\ j - 1 < n - 1 /\ (j - 1) + 1 = j /\ j \in 0 .. n
      BY <1>2, <2>2
    <3>2. StartIn(memory, j) = memory[Slot(j - 1)].at
      BY <2>2 DEF StartIn
    <3>3. CASE j <= p
      <4>1. memory[Slot(j - 1)].at = old[Slot(j - 1)].at
        BY <1>2, <1>5, <3>1, <3>3
      <4>2. StartIn(memory, j) = StartIn(old, j)
        BY <2>2, <3>2, <4>1 DEF StartIn
      <4>3. j = p => StartIn(old, j + 1) - w = StartIn(old, j)
        BY <1>3, <1>8
      <4>. QED
        BY <1>2, <3>3, <4>2, <4>3
    <3>4. CASE ~(j <= p)
      <4>1. p <= j - 1 /\ ~(j < p)
        BY <1>2, <3>1, <3>4
      <4>2. memory[Slot(j - 1)].at = old[Slot(j)].at - w
        BY <1>5, <3>1, <4>1
      <4>. QED
        BY <1>6, <3>2, <4>1, <4>2
    <3>. QED
      BY <3>3, <3>4
  <2>. QED
    BY <2>1, <2>2
<1>11. Slot(n - 1) + SizeOfOffset \in Nat /\ StartIn(memory, n - 1) <= Slot(n - 1) + SizeOfOffset
  <2>1. StartIn(memory, n - 1) = last - w
    <3>1. n - 1 \in 0 .. n - 1 /\ ~(n - 1 < p) /\ (n - 1) + 1 = n
      BY <1>2
    <3>. QED
      BY <1>10, <3>1 DEF last
  <2>2. Slot(n - 1) \in Nat /\ SizeOfOffset \in Nat
    BY <1>6 DEF Address, StoreAssumption
  <2>. QED
    BY <1>3, <1>6, <1>8, <2>1, <2>2
<1>12. ASSUME NEW i \in 0 .. (n - 1) - 1
       PROVE  /\ memory[Slot(i)].at = StartIn(memory, i) + SizeOf[g[i + 1]]
              /\ \A k \in 0 .. SizeOf[g[i + 1]] - 1 :
                   memory[StartIn(memory, i) + k] = [of |-> g[i + 1], at |-> k]
  <2>1. /\ i \in 0 .. n - 2 /\ i \in 0 .. n - 1 /\ i + 1 \in 0 .. n - 1 /\ i + 1 \in 0 .. n
        /\ (i + 1) + 1 = i + 2 /\ i + 2 \in 0 .. n /\ i \in Nat /\ (i + 1) - 1 = i /\ i + 1 # 0
    BY <1>2
  <2>2. memory[Slot(i)].at = StartIn(memory, i + 1)
    BY <2>1 DEF StartIn
  <2>3. CASE i < p
    <3>1. g[i + 1] = h[i + 1] /\ StartIn(memory, i) = StartIn(old, i)
      BY <1>7, <1>10, <2>1, <2>3
    <3>2. StartIn(memory, i + 1) = StartIn(old, i + 1)
      <4>1. CASE i + 1 < p
        BY <1>10, <2>1, <4>1
      <4>2. CASE i + 1 = p
        <5>1. StartIn(memory, i + 1) = StartIn(old, p + 1) - w
          BY <1>2, <1>10, <2>1, <4>2
        <5>2. StartIn(old, p + 1) - w = s
          BY <1>3, <1>8
        <5>. QED
          BY <1>3, <4>2, <5>1, <5>2
      <4>. QED
        BY <1>2, <2>1, <2>3, <4>1, <4>2
    <3>3. StartIn(old, i + 1) = StartIn(old, i) + SizeOf[h[i + 1]]
      BY <1>6, <2>1
    <3>4. ASSUME NEW k \in 0 .. SizeOf[h[i + 1]] - 1
          PROVE  memory[StartIn(old, i) + k] = [of |-> h[i + 1], at |-> k]
      <4>1. StartIn(old, i + 1) <= s
        <5>1. i + 1 <= p /\ p \in 0 .. n
          BY <1>2, <2>1, <2>3
        <5>. QED
          BY <1>3, <1>6, <2>1, <5>1
      <4>2. StartIn(old, i) \in Nat /\ SizeOf[h[i + 1]] \in Nat
        BY <1>2, <1>6, <2>1
      <4>3. StartIn(old, i) + k \in 0 .. s - 1
        BY <1>3, <3>3, <4>1, <4>2
      <4>4. old[StartIn(old, i) + k] = [of |-> h[i + 1], at |-> k]
        BY <1>1, <2>1 DEF Holds
      <4>. QED
        BY <1>4, <4>3, <4>4
    <3>. QED
      BY <2>2, <3>1, <3>2, <3>3, <3>4
  <2>4. CASE ~(i < p)
    <3>1. g[i + 1] = h[i + 2] /\ StartIn(memory, i) = StartIn(old, i + 1) - w
      BY <1>7, <1>10, <2>1, <2>4
    <3>2. StartIn(memory, i + 1) = StartIn(old, i + 2) - w
      <4>1. ~(i + 1 < p)
        BY <1>2, <2>1, <2>4
      <4>. QED
        BY <1>10, <2>1, <4>1
    <3>3. /\ StartIn(old, i + 2) = StartIn(old, i + 1) + SizeOf[h[i + 2]]
          /\ SizeOf[h[i + 2]] \in Nat /\ StartIn(old, i + 1) \in Nat
      BY <1>6, <2>1
    <3>4. memory[Slot(i)].at = StartIn(memory, i) + SizeOf[h[i + 2]]
      <4>. DEFINE x == StartIn(old, i + 1)
                  y == SizeOf[h[i + 2]]
      <4>1. /\ memory[Slot(i)].at = (x + y) - w /\ StartIn(memory, i) = x - w
            /\ x \in Nat /\ y \in Nat
        BY <2>2, <3>1, <3>2, <3>3
      <4>. HIDE DEF x, y
      <4>2. (x + y) - w = (x - w) + y
        BY <1>8, <4>1
      <4>. QED
        BY <4>1, <4>2 DEF y
    <3>5. ASSUME NEW k \in 0 .. SizeOf[h[i + 2]] - 1
          PROVE  memory[StartIn(memory, i) + k] = [of |-> h[i + 2], at |-> k]
      <4>1. e <= StartIn(old, i + 1) /\ StartIn(old, i + 2) <= last
        <5>1. p + 1 <= i + 1 /\ p + 1 \in 0 .. n
          BY <1>2, <2>1, <2>4
        <5>. QED
          BY <1>3, <1>6, <2>1, <5>1
      <4>. DEFINE x == StartIn(old, i + 1)
                  y == SizeOf[h[i + 2]]
                  q == StartIn(memory, i) + k
      <4>2. x \in Nat /\ y \in Nat /\ k \in 0 .. y - 1 /\ q = x - w + k /\ e <= x /\ x + y <= last
        BY <3>1, <3>3, <4>1
      <4>3. old[x + k] = [of |-> h[i + 2], at |-> k]
        <5>1. \A b \in 0 .. SizeOf[h[(i + 1) + 1]] - 1 :
                old[StartIn(old, i + 1) + b] = [of |-> h[(i + 1) + 1], at |-> b]
          BY <1>1, <2>1 DEF Holds
        <5>. QED
          BY <2>1, <5>1
      <4>. HIDE DEF x, y, q
      <4>4. q \in s .. last - w - 1 /\ q + w = x + k
        BY <1>3, <1>8, <4>2
      <4>5. memory[q] = old[x + k]
        BY <1>9, <4>4
      <4>. QED
        BY <4>3, <4>5 DEF q
    <3>. QED
      BY <3>1, <3>4, <3>5
  <2>. QED
    BY <2>3, <2>4
<1>13. ASSUME NEW i \in 0 .. n - 1, NEW j \in 0 .. n - 1, i <= j
       PROVE  StartIn(memory, i) <= StartIn(memory, j)
  <2>. DEFINE a == StartIn(old, i)
              b == StartIn(old, j)
              c == StartIn(old, i + 1)
              f == StartIn(old, j + 1)
  <2>1. /\ i \in 0 .. n /\ j \in 0 .. n /\ i + 1 \in 0 .. n /\ j + 1 \in 0 .. n
        /\ i + 1 <= j + 1 /\ p \in 0 .. n /\ p + 1 \in 0 .. n
    BY <1>2, <1>13
  <2>2. a \in Nat /\ b \in Nat /\ c \in Nat /\ f \in Nat
    BY <1>6, <2>1
  <2>3. a <= b /\ c <= f
    BY <1>6, <1>13, <2>1
  <2>4. StartIn(memory, i) = IF i < p THEN a ELSE c - w
    BY <1>10
  <2>5. StartIn(memory, j) = IF j < p THEN b ELSE f - w
    BY <1>10
  <2>6. (i < p => a <= s) /\ (~(j < p) => e <= f)
    <3>1. i < p => i <= p
      BY <1>2, <2>1
    <3>2. ~(j < p) => p + 1 <= j + 1
      BY <1>2, <2>1
    <3>. QED
      BY <1>3, <1>6, <2>1, <3>1, <3>2
  <2>7. j < p => i < p
    BY <1>2, <1>13
  <2>. HIDE DEF a, b, c, f
  <2>. QED
    BY <1>3, <1>8, <2>2, <2>3, <2>4, <2>5, <2>6, <2>7
<1>14. Holds(memory, n - 1, g)
  BY <1>7, <1>11, <1>12, <1>13 DEF Holds
<1>. QED
  BY <1>14 DEF n, g, h, p

-----------------------------------------------------------------------------
(* The steps *)

LEMMA DoingCases ==
  ASSUME DoingOK
  PROVE  /\ doing.op \in {"idle", "move", "room", "write", "count"}
         /\ doing.op = "idle" => doing = Idle
         /\ doing.op = "move" => doing \in Deletion
         /\ doing.op \in {"room", "count"} =>
              doing \in [op : {"room", "count"}, pushed : Calculation]
         /\ doing.op = "write" => doing \in [op : {"write"}, pushed : Calculation, written : Nat]
<1>1. Idle.op = "idle"
  BY DEF Idle
<1>2. CASE doing = Idle
  BY <1>1, <1>2
<1>3. CASE doing \in Deletion
  BY <1>3 DEF Deletion
<1>4. CASE doing \in [op : {"room", "count"}, pushed : Calculation]
  BY <1>4
<1>5. CASE doing \in [op : {"write"}, pushed : Calculation, written : Nat]
  BY <1>5
<1>. QED
  BY <1>2, <1>3, <1>4, <1>5 DEF DoingOK

\* What a step needs of a call that pushes
LEMMA PushedFits ==
  ASSUME StoreAssumption, DoingOK, doing.op \in {"room", "write", "count"}
  PROVE  /\ doing.pushed \in Calculation /\ doing.pushed # NoCalculation
         /\ SizeOf[doing.pushed] \in Nat \ {0} /\ SizeOf[doing.pushed] <= MaximumSize
         /\ doing # Idle
<1>1. doing.pushed \in Calculation
  BY DoingCases
<1>2. doing # Idle
  BY DEF Idle
<1>. QED
  BY <1>1, <1>2 DEF DoingOK, StoreAssumption

\* An element is deleted: the first byte or offset is not moved yet.
LEMMA DeletionBegins ==
  ASSUME StoreAssumption, IInv, doing.op # "move", NEW i \in 0 .. numberOfElements - 1,
         NEW c \in Calculation \cup {NoCalculation},
         c # NoCalculation => SizeOf[c] <= MaximumSize,
         BeginDeletion(i, c), before' = before
  PROVE  IInv'
<1>. DEFINE n == numberOfElements
            last == StartIn(memory, n)
            s == StartIn(memory, i)
            e == StartIn(memory, i + 1)
            d == [op |-> "move", index |-> i, pushed |-> c, offsets |-> i, moved |-> 0,
                  start |-> s, end |-> e, shifted |-> last - e]
<1>1. Holds(memory, n, history) /\ n \in Nat
  BY Placed DEF IInv
<1>2. /\ EndOfElements = last /\ ElementAtIndex(i) = s /\ EndOfElementAtIndex(i) = e
      /\ i \in Nat /\ i + 1 \in 0 .. n /\ i \in 0 .. n
  BY <1>1, Reading
<1>3. /\ doing' = d /\ locks' = locks + 1
      /\ memory' = memory /\ numberOfElements' = n /\ history' = history
      /\ place' = place /\ remembered' = remembered
  BY <1>2 DEF BeginDeletion, storeVars
<1>4. s \in Nat /\ e \in Nat /\ last \in Nat /\ e <= last /\ s <= e
  <2>1. s \in Nat /\ e \in Nat /\ last \in Nat /\ e <= last
    BY <1>1, <1>2, Placed
  <2>2. s <= e
    BY <1>1, <1>2 DEF Holds
  <2>. QED
    BY <2>1, <2>2
<1>. HIDE DEF n, last, s, e
<1>5. /\ d \in Deletion /\ d.op = "move" /\ d.index = i /\ d.pushed = c /\ d.offsets = i
      /\ d.moved = 0 /\ d.start = s /\ d.end = e /\ d.shifted = last - e
  <2>1. last - e \in Nat
    BY <1>4
  <2>. QED
    BY <1>2, <1>4, <2>1 DEF Deletion
<1>. HIDE DEF d
<1>6. Moves(memory, d, memory, n, history)
  <2>1. Holds(memory, n, history)
    BY <1>1 DEF n
  <2>2. /\ d.index \in 0 .. n - 1 /\ d.start = s /\ d.end = e /\ d.shifted = last - d.end
        /\ d.moved \in 0 .. d.shifted /\ d.offsets \in d.index .. n - 1
        /\ ~(d.offsets > d.index)
    BY <1>2, <1>4, <1>5 DEF n
  <2>3. \A x \in d.start .. d.start + d.moved - 1 : FALSE
    BY <1>4, <1>5
  <2>4. \A j \in 0 .. n - 1 : ~(d.index <= j /\ j < d.offsets)
    BY <1>5
  <2>. QED
    BY <1>5, <2>1, <2>2, <2>3, <2>4 DEF Moves, n, last, s, e
<1>7. DoingOK'
  <2>1. locks = 0
    BY DEF IInv, DoingOK
  <2>. QED
    BY <1>3, <1>5, <2>1 DEF DoingOK
<1>8. WriteOK'
  BY <1>3, <1>5 DEF WriteOK
<1>9. memory' \in [Address -> Byte] /\ before' \in Seq(Calculation) /\ BreakerTypeOK'
  BY <1>3 DEF IInv, BreakerTypeOK
<1>10. Moves(memory, doing', memory', numberOfElements', history')
  BY <1>3, <1>6 DEF n
<1>11. doing'.op = "move"
  BY <1>3, <1>5
<1>. QED
  BY <1>7, <1>8, <1>9, <1>10, <1>11 DEF IInv

\* A byte is copied down: those that are still to be copied lie above it.
LEMMA MoveByteKeeps ==
  ASSUME StoreAssumption, IInv, MoveByte
  PROVE  IInv'
<1>. DEFINE n == numberOfElements
            d == doing
            to == d.start + d.moved
            from == d.end + d.moved
<1>1. /\ d.op = "move" /\ d \in Deletion /\ d.moved < d.shifted
      /\ memory \in [Address -> Byte]
      /\ memory' = [memory EXCEPT ![to] = memory[from]]
      /\ d' = [d EXCEPT !.moved = d.moved + 1]
      /\ numberOfElements' = n /\ history' = history /\ before' = before
      /\ locks' = locks /\ place' = place /\ remembered' = remembered
  BY DoingCases DEF MoveByte, IInv, breaker
<1>2. PICK old : Moves(old, d, memory, n, history)
  BY <1>1 DEF IInv
<1>. DEFINE last == StartIn(old, n)
<1>3. Holds(old, n, history) /\ n \in Nat
  BY <1>2, Placed DEF Moves
<1>4. /\ d.index \in 0 .. n - 1 /\ d.start \in Nat /\ d.end \in Nat /\ last \in Nat
      /\ d.start < d.end /\ d.end <= last /\ last <= BufferSize
      /\ d.shifted = last - d.end /\ d.moved \in Nat /\ BufferSize \in Nat
  <2>1. /\ d.index \in 0 .. n - 1 /\ d.start = StartIn(old, d.index)
        /\ d.end = StartIn(old, d.index + 1) /\ d.shifted = last - d.end
    BY <1>2 DEF Moves
  <2>2. /\ SizeOf[history[d.index + 1]] \in Nat \ {0}
        /\ StartIn(old, d.index + 1) = StartIn(old, d.index) + SizeOf[history[d.index + 1]]
    BY <1>3, <2>1, Placed
  <2>3. d.index + 1 \in 0 .. n /\ d.index \in 0 .. n /\ n \in 0 .. n
    BY <1>3, <2>1
  <2>4. /\ StartIn(old, d.index) \in Nat /\ StartIn(old, d.index + 1) \in Nat
        /\ StartIn(old, d.index + 1) <= last /\ last \in Nat /\ last <= BufferSize
    BY <1>3, <2>3, Placed
  <2>5. d.moved \in Nat /\ BufferSize \in Nat
    BY <1>1 DEF Deletion, StoreAssumption
  <2>. HIDE DEF d, last
  <2>. QED
    BY <2>1, <2>2, <2>4, <2>5
<1>5. \A j \in 0 .. n - 1 : last <= Slot(j) /\ Slot(j) \in Int
  BY <1>3, Placed DEF Address
<1>6. /\ \A x \in 0 .. d.start - 1 : memory[x] = old[x]
      /\ \A x \in d.start .. d.start + d.moved - 1 : memory[x] = old[x + (d.end - d.start)]
      /\ \A x \in d.end + d.moved .. last - 1 : memory[x] = old[x]
      /\ d.offsets \in d.index .. n - 1 /\ ~(d.offsets > d.index)
      /\ \A j \in 0 .. n - 1 :
           memory[Slot(j)].at = IF d.index <= j /\ j < d.offsets
                                THEN old[Slot(j + 1)].at - (d.end - d.start) ELSE old[Slot(j)].at
  <2>1. ~(d.moved = d.shifted)
    <3>. HIDE DEF d, last
    <3>. QED
      BY <1>1, <1>4
  <2>. QED
    BY <1>2, <2>1 DEF Moves
<1>7. /\ d' \in Deletion /\ d'.op = "move" /\ d'.moved = d.moved + 1 /\ d'.pushed = d.pushed
      /\ d'.index = d.index /\ d'.start = d.start /\ d'.end = d.end
      /\ d'.shifted = d.shifted /\ d'.offsets = d.offsets
  BY <1>1 DEF Deletion
<1>8. d # Idle /\ d' # Idle
  BY <1>1, <1>7 DEF Idle
<1>9. DoingOK'
  BY <1>1, <1>7, <1>8 DEF IInv, DoingOK
<1>10. WriteOK'
  BY <1>7 DEF WriteOK
<1>. DEFINE m == memory'
            f == d'
<1>. HIDE DEF d, last, m, f, n
<1>11. /\ to \in Address /\ from \in Address /\ from \in d.end + d.moved .. last - 1
       /\ to < last /\ to < d.end + (d.moved + 1) /\ to >= d.start
       /\ to + (d.end - d.start) = from
  BY <1>1, <1>4, SMTT(30) DEF Address
<1>12. /\ m \in [Address -> Byte] /\ m[to] = old[from]
       /\ \A x \in Address : x # to => m[x] = memory[x]
  <2>1. memory[from] \in Byte /\ memory[from] = old[from]
    BY <1>1, <1>6, <1>11
  <2>2. m = [memory EXCEPT ![to] = memory[from]]
    BY <1>1 DEF m
  <2>3. m \in [Address -> Byte] /\ m[to] = old[from]
    BY <1>1, <1>11, <2>1, <2>2
  <2>4. \A x \in Address : x # to => m[x] = memory[x]
    BY <1>1, <2>2
  <2>. QED
    BY <2>3, <2>4
<1>13. \A x \in 0 .. last - 1 : x \in Address
  BY <1>4 DEF Address
<1>14. \A x \in 0 .. d.start - 1 : m[x] = old[x]
  <2>. SUFFICES ASSUME NEW x \in 0 .. d.start - 1 PROVE m[x] = old[x]
    OBVIOUS
  <2>1. x # to /\ x \in 0 .. last - 1
    BY <1>4, <1>11
  <2>. QED
    BY <1>6, <1>12, <1>13, <2>1
<1>15. \A x \in d.start .. d.start + (d.moved + 1) - 1 : m[x] = old[x + (d.end - d.start)]
  <2>. SUFFICES ASSUME NEW x \in d.start .. d.start + (d.moved + 1) - 1
                PROVE  m[x] = old[x + (d.end - d.start)]
    OBVIOUS
  <2>1. CASE x = to
    BY <1>11, <1>12, <2>1
  <2>2. CASE x # to
    <3>1. x \in d.start .. d.start + d.moved - 1 /\ x \in 0 .. last - 1
      BY <1>4, <1>11, <2>2
    <3>. QED
      BY <1>6, <1>12, <1>13, <2>2, <3>1
  <2>. QED
    BY <2>1, <2>2
<1>16. \A x \in d.end + (d.moved + 1) .. last - 1 : m[x] = old[x]
  <2>. SUFFICES ASSUME NEW x \in d.end + (d.moved + 1) .. last - 1 PROVE m[x] = old[x]
    OBVIOUS
  <2>1. x # to /\ x \in d.end + d.moved .. last - 1 /\ x \in 0 .. last - 1
    BY <1>4, <1>11
  <2>. QED
    BY <1>6, <1>12, <1>13, <2>1
<1>17. \A j \in 0 .. n - 1 : m[Slot(j)] = memory[Slot(j)]
  <2>. SUFFICES ASSUME NEW j \in 0 .. n - 1 PROVE m[Slot(j)] = memory[Slot(j)]
    OBVIOUS
  <2>1. Slot(j) \in Address
    BY <1>3, Placed
  <2>2. Slot(j) # to
    BY <1>4, <1>5, <1>11
  <2>. QED
    BY <1>12, <2>1, <2>2
<1>18. Moves(old, f, m, n, history)
  <2>1. /\ f.index = d.index /\ f.start = d.start /\ f.end = d.end /\ f.shifted = d.shifted
        /\ f.offsets = d.offsets /\ f.moved = d.moved + 1
    BY <1>7 DEF f
  <2>2. d.moved + 1 \in 0 .. d.shifted
    BY <1>1, <1>4
  <2>3. d.start = StartIn(old, d.index) /\ d.end = StartIn(old, d.index + 1)
    BY <1>2 DEF Moves
  <2>4. \A j \in 0 .. n - 1 :
          m[Slot(j)].at = IF d.index <= j /\ j < d.offsets
                          THEN old[Slot(j + 1)].at - (d.end - d.start) ELSE old[Slot(j)].at
    BY <1>6, <1>17
  <2>5. last = StartIn(old, n)
    BY DEF last
  <2>. QED
    BY <1>3, <1>4, <1>6, <1>14, <1>15, <1>16, <2>1, <2>2, <2>3, <2>4, <2>5 DEF Moves
<1>19. Moves(old, doing', memory', numberOfElements', history')
  BY <1>1, <1>18 DEF m, f, d, n
<1>20. /\ doing'.op = "move" /\ memory' \in [Address -> Byte] /\ before' \in Seq(Calculation)
       /\ BreakerTypeOK'
  BY <1>1, <1>7, <1>12 DEF d, m, IInv, BreakerTypeOK
<1>. QED
  BY <1>9, <1>10, <1>19, <1>20 DEF IInv

\* An offset is written: the one it is computed from is not written yet.
LEMMA MoveOffsetKeeps ==
  ASSUME StoreAssumption, IInv, MoveOffset
  PROVE  IInv'
<1>. DEFINE n == numberOfElements
            d == doing
            o == d.offsets
            w == d.end - d.start
            v == OffsetAt(o + 1) - w
<1>1. /\ d.op = "move" /\ d \in Deletion /\ d.moved = d.shifted /\ o < n - 1
      /\ memory \in [Address -> Byte]
      /\ memory' = WriteOffset(o, v)
      /\ d' = [d EXCEPT !.offsets = o + 1]
      /\ numberOfElements' = n /\ history' = history /\ before' = before
      /\ locks' = locks /\ place' = place /\ remembered' = remembered
  BY DoingCases DEF MoveOffset, IInv, breaker
<1>2. PICK old : Moves(old, d, memory, n, history)
  BY <1>1 DEF IInv
<1>. DEFINE last == StartIn(old, n)
<1>3. Holds(old, n, history) /\ n \in Nat
  BY <1>2, Placed DEF Moves
<1>4. /\ d.index \in 0 .. n - 1 /\ o \in d.index .. n - 1
      /\ d.start = StartIn(old, d.index) /\ d.end = StartIn(old, d.index + 1)
      /\ d.shifted = last - d.end
      /\ \A x \in 0 .. d.start - 1 : memory[x] = old[x]
      /\ \A x \in d.start .. d.start + d.moved - 1 : memory[x] = old[x + w]
      /\ \A x \in d.end + d.moved .. last - 1 : memory[x] = old[x]
      /\ \A j \in 0 .. n - 1 :
           memory[Slot(j)].at = IF d.index <= j /\ j < o
                                THEN old[Slot(j + 1)].at - w ELSE old[Slot(j)].at
  BY <1>2 DEF Moves
<1>5. /\ d' \in Deletion /\ d'.op = "move" /\ d'.offsets = o + 1 /\ d'.pushed = d.pushed
      /\ d'.index = d.index /\ d'.start = d.start /\ d'.end = d.end
      /\ d'.shifted = d.shifted /\ d'.moved = d.moved
  BY <1>1 DEF Deletion
<1>6. d # Idle /\ d' # Idle
  BY <1>1, <1>5 DEF Idle
<1>7. DoingOK'
  BY <1>1, <1>5, <1>6 DEF IInv, DoingOK
<1>8. WriteOK'
  BY <1>5 DEF WriteOK
<1>9. o \in 0 .. n - 1 /\ o + 1 \in 0 .. n - 1 /\ o \in Nat /\ o + 1 \in 0 .. n
  <2>. HIDE DEF d, n
  <2>. QED
    BY <1>1, <1>3, <1>4
<1>10. v = old[Slot(o + 1)].at - w /\ v \in Nat
  <2>1. OffsetAt(o + 1) = memory[Slot(o + 1)].at
    BY <1>9 DEF OffsetAt, Slot
  <2>2. memory[Slot(o + 1)].at = old[Slot(o + 1)].at
    <3>1. ~(o + 1 < o)
      BY <1>9
    <3>. QED
      BY <1>4, <1>9, <3>1
  <2>3. /\ d.start \in Nat /\ d.end \in Nat /\ old[Slot(o + 1)].at \in Nat
        /\ d.start <= d.end /\ d.end <= old[Slot(o + 1)].at
    <3>1. /\ d.index \in 0 .. n /\ d.index + 1 \in 0 .. n /\ (o + 1) + 1 \in 0 .. n
          /\ d.index <= d.index + 1 /\ d.index + 1 <= (o + 1) + 1
      BY <1>3, <1>4, <1>9
    <3>2. d.start <= d.end /\ d.end <= StartIn(old, (o + 1) + 1)
      BY <1>3, <1>4, <3>1 DEF Holds
    <3>3. d.start \in Nat /\ d.end \in Nat /\ old[Slot(o + 1)].at \in Nat
          /\ StartIn(old, (o + 1) + 1) = old[Slot(o + 1)].at
      BY <1>3, <1>4, <1>9, <3>1, Placed
    <3>. QED
      BY <3>2, <3>3
  <2>. QED
    BY <2>1, <2>2, <2>3
<1>. DEFINE m == memory'
            f == d'
            slot == [of |-> NoCalculation, at |-> v]
<1>11. /\ m \in [Address -> Byte] /\ m[Slot(o)] = slot
       /\ \A x \in Address : x \notin OffsetBytes(o) => m[x] = memory[x]
  <2>. HIDE DEF v, d, o
  <2>1. slot \in Byte
    BY <1>10 DEF Byte
  <2>2. m = [x \in Address |-> IF x \in OffsetBytes(o) THEN slot ELSE memory[x]]
    BY <1>1 DEF WriteOffset
  <2>3. Slot(o) \in Address
    BY <1>3, <1>9, Placed
  <2>4. Slot(o) \in OffsetBytes(o)
    <3>1. OffsetBytes(o) = Slot(o) .. Slot(o) + SizeOfOffset - 1 /\ Slot(o) \in Int
      BY <1>9, SlotsAreApart
    <3>. QED
      BY <3>1 DEF StoreAssumption
  <2>. HIDE DEF m, slot
  <2>. QED
    BY <1>1, <2>1, <2>2, <2>3, <2>4
<1>. HIDE DEF v, m, f, d, o, n, last, slot, w
<1>12. last \in Nat /\ last <= BufferSize /\ BufferSize \in Nat
  <2>1. n \in 0 .. n
    BY <1>3
  <2>. QED
    BY <1>3, <2>1, Placed DEF last, StoreAssumption
<1>13. \A x \in 0 .. last - 1 : m[x] = memory[x]
  <2>. SUFFICES ASSUME NEW x \in 0 .. last - 1 PROVE m[x] = memory[x]
    OBVIOUS
  <2>1. last <= Slot(o) /\ Slot(o) \in Int
    BY <1>3, <1>9, Placed DEF last, Address
  <2>2. OffsetBytes(o) = Slot(o) .. Slot(o) + SizeOfOffset - 1
    BY <1>9, SlotsAreApart
  <2>3. x \notin OffsetBytes(o)
    BY <1>12, <2>1, <2>2
  <2>4. x \in Address
    BY <1>12 DEF Address
  <2>. QED
    BY <1>11, <2>3, <2>4
<1>14. \A j \in 0 .. n - 1 : j # o => m[Slot(j)] = memory[Slot(j)]
  <2>. SUFFICES ASSUME NEW j \in 0 .. n - 1, j # o PROVE m[Slot(j)] = memory[Slot(j)]
    OBVIOUS
  <2>1. Slot(j) \in Address
    BY <1>3, Placed
  <2>2. OffsetBytes(o) = Slot(o) .. Slot(o) + SizeOfOffset - 1
        /\ Slot(o) \in Int /\ Slot(j) \in Int /\ SizeOfOffset \in Nat \ {0}
    BY <1>9, SlotsAreApart DEF StoreAssumption
  <2>3. Slot(j) + SizeOfOffset <= Slot(o) \/ Slot(o) + SizeOfOffset <= Slot(j)
    <3>1. j < o \/ o < j
      BY <1>3, <1>9
    <3>2. j \in Nat
      BY <1>3
    <3>. QED
      BY <1>9, <3>1, <3>2, SlotsAreApart
  <2>4. Slot(j) \notin OffsetBytes(o)
    BY <2>2, <2>3
  <2>. QED
    BY <1>11, <2>1, <2>4
<1>15. \A j \in 0 .. n - 1 :
         m[Slot(j)].at = IF d.index <= j /\ j < o + 1 THEN old[Slot(j + 1)].at - w ELSE old[Slot(j)].at
  <2>. SUFFICES ASSUME NEW j \in 0 .. n - 1
                PROVE  m[Slot(j)].at = IF d.index <= j /\ j < o + 1
                                       THEN old[Slot(j + 1)].at - w ELSE old[Slot(j)].at
    OBVIOUS
  <2>1. CASE j = o
    <3>1. d.index <= j /\ j < o + 1
      BY <1>4, <1>9, <2>1
    <3>2. m[Slot(j)].at = v
      BY <1>11, <2>1 DEF slot
    <3>. QED
      BY <1>10, <2>1, <3>1, <3>2
  <2>2. CASE j # o
    <3>1. j < o + 1 <=> j < o
      BY <1>3, <1>9, <2>2
    <3>. QED
      BY <1>4, <1>14, <2>2, <3>1
  <2>. QED
    BY <2>1, <2>2
<1>16. Moves(old, f, m, n, history)
  <2>1. /\ f.index = d.index /\ f.start = d.start /\ f.end = d.end /\ f.shifted = d.shifted
        /\ f.offsets = o + 1 /\ f.moved = d.moved /\ w = d.end - d.start /\ last = StartIn(old, n)
    BY <1>5 DEF f, w, last
  <2>2. d.moved \in 0 .. d.shifted
    BY <1>2 DEF Moves
  <2>3. o + 1 \in d.index .. n - 1
    BY <1>1, <1>3, <1>4, <1>9
  <2>4. /\ d.start \in Nat /\ d.end \in Nat /\ d.moved \in Nat /\ d.start + d.moved <= last
    <3>1. d.index \in 0 .. n /\ d.index + 1 \in 0 .. n /\ d.index <= d.index + 1
      BY <1>3, <1>4
    <3>2. d.start \in Nat /\ d.end \in Nat /\ d.end <= last
      BY <1>3, <1>4, <3>1, Placed DEF last
    <3>3. d.start <= d.end
      BY <1>3, <1>4, <3>1 DEF Holds
    <3>4. d.moved = last - d.end
      BY <1>1, <1>4
    <3>. QED
      BY <1>12, <3>2, <3>3, <3>4
  <2>5. \A x \in 0 .. d.start - 1 : m[x] = old[x]
    <3>1. \A x \in 0 .. d.start - 1 : x \in 0 .. last - 1
      BY <1>12, <2>4
    <3>. QED
      BY <1>4, <1>13, <3>1
  <2>6. \A x \in d.start .. d.start + d.moved - 1 : m[x] = old[x + w]
    <3>1. \A x \in d.start .. d.start + d.moved - 1 : x \in 0 .. last - 1
      BY <1>12, <2>4
    <3>. QED
      BY <1>4, <1>13, <3>1
  <2>7. \A x \in d.end + d.moved .. last - 1 : m[x] = old[x]
    <3>1. \A x \in d.end + d.moved .. last - 1 : x \in 0 .. last - 1
      BY <1>12, <2>4
    <3>. QED
      BY <1>4, <1>13, <3>1
  <2>. QED
    BY <1>1, <1>3, <1>4, <1>15, <2>1, <2>2, <2>3, <2>5, <2>6, <2>7 DEF Moves
<1>17. Moves(old, doing', memory', numberOfElements', history')
  BY <1>1, <1>16 DEF m, f, d, n
<1>18. /\ doing'.op = "move" /\ memory' \in [Address -> Byte] /\ before' \in Seq(Calculation)
       /\ BreakerTypeOK'
  BY <1>1, <1>5, <1>11 DEF d, m, IInv, BreakerTypeOK
<1>. QED
  BY <1>7, <1>8, <1>17, <1>18 DEF IInv

\* Between two deletions, and when an operation is given up, the elements are there.
LEMMA RestKeeps ==
  ASSUME StoreAssumption, Holds(memory', numberOfElements', history'), locks' = 0,
         before' \in Seq(Calculation), BreakerTypeOK',
         doing' = Idle \/ (/\ doing' \in [op : {"room"}, pushed : Calculation]
                           /\ SizeOf[doing'.pushed] <= MaximumSize)
  PROVE  IInv'
<1>1. doing'.op \in {"idle", "room"}
  BY DEF Idle
<1>2. doing' \in {Idle} \cup [op : {"room", "count"}, pushed : Calculation]
  OBVIOUS
<1>3. doing' # Idle => SizeOf[doing'.pushed] <= MaximumSize
  OBVIOUS
<1>4. DoingOK'
  BY <1>1, <1>2, <1>3 DEF DoingOK
<1>5. WriteOK'
  BY <1>1 DEF WriteOK
<1>6. memory' \in [Address -> Byte]
  BY DEF Holds
<1>. QED
  BY <1>1, <1>4, <1>5, <1>6 DEF IInv

LEMMA EndDeletionKeeps ==
  ASSUME StoreAssumption, IInv, EndDeletion
  PROVE  IInv'
<1>1. /\ doing.op = "move" /\ doing.moved = doing.shifted
      /\ doing.offsets >= numberOfElements - 1
      /\ numberOfElements' = numberOfElements - 1
      /\ history' = RemoveAt(history, doing.index + 1)
      /\ memory' = memory /\ before' = before /\ locks' = locks - 1
  BY DEF EndDeletion
<1>2. locks = 1 /\ doing \in Deletion
  BY <1>1, DoingCases DEF IInv, DoingOK
<1>3. PICK old : Moves(old, doing, memory, numberOfElements, history)
  BY <1>1 DEF IInv
<1>4. Holds(memory', numberOfElements', history')
  BY <1>1, <1>3, OneLess DEF IInv
<1>5. BreakerTypeOK'
  <2>1. locks' = 0
    BY <1>1, <1>2
  <2>2. /\ place' \in [CheckpointType -> Nat] /\ remembered' \in CheckpointType \cup {NoType}
    <3>1. /\ place \in [CheckpointType -> Nat] /\ remembered \in CheckpointType \cup {NoType}
      BY DEF IInv, BreakerTypeOK
    <3>2. CASE place' = UnsetLower(place, remembered) /\ remembered' = NoType
      BY <3>1, <3>2 DEF UnsetLower, Nowhere
    <3>3. CASE UNCHANGED <<place, remembered>>
      BY <3>1, <3>3
    <3>. QED
      BY <3>2, <3>3 DEF EndDeletion
  <2>. QED
    BY <2>1, <2>2 DEF BreakerTypeOK
<1>6. doing' = Idle \/ (doing.pushed # NoCalculation /\ doing' = [op |-> "room", pushed |-> doing.pushed])
  BY DEF EndDeletion
<1>7. CASE doing' = Idle
  BY <1>1, <1>2, <1>4, <1>5, <1>7, RestKeeps DEF IInv
<1>8. CASE doing.pushed # NoCalculation /\ doing' = [op |-> "room", pushed |-> doing.pushed]
  <2>1. doing.pushed \in Calculation
    BY <1>2, <1>8 DEF Deletion
  <2>2. SizeOf[doing.pushed] <= MaximumSize
    <3>1. doing # Idle
      BY <1>1 DEF Idle
    <3>. QED
      BY <1>8, <3>1 DEF IInv, DoingOK
  <2>3. /\ doing' \in [op : {"room"}, pushed : Calculation] /\ doing'.pushed = doing.pushed
    BY <1>8, <2>1
  <2>. QED
    BY <1>1, <1>2, <1>4, <1>5, <2>2, <2>3, RestKeeps DEF IInv
<1>. QED
  BY <1>6, <1>7, <1>8

LEMMA EmptyHolds ==
  ASSUME StoreAssumption, NEW m \in [Address -> Byte]
  PROVE  Holds(m, 0, <<>>)
<1>1. Slot(0) + SizeOfOffset = BufferSize /\ BufferSize \in Nat
  BY SlotsAreApart DEF StoreAssumption
<1>2. \A i \in 0 .. 0 : StartIn(m, i) = 0
  BY DEF StartIn
<1>3. <<>> \in Seq(Calculation) /\ Len(<<>>) = 0
  OBVIOUS
<1>4. \A i \in 0 .. 0 - 1 : FALSE
  OBVIOUS
<1>. QED
  BY <1>1, <1>2, <1>3, <1>4 DEF Holds

LEMMA DeleteAllKeeps ==
  ASSUME StoreAssumption, IInv, DeleteAll
  PROVE  IInv'
<1>1. /\ doing = Idle /\ doing' = Idle /\ numberOfElements' = 0 /\ history' = <<>>
      /\ memory' = memory /\ before' = before
      /\ locks' = locks /\ place' = place /\ remembered' = remembered
  BY DEF DeleteAll, breaker
<1>2. locks = 0
  BY <1>1 DEF IInv, DoingOK, Idle
<1>3. BreakerTypeOK'
  BY <1>1 DEF IInv, BreakerTypeOK
<1>4. memory \in [Address -> Byte] /\ before \in Seq(Calculation)
  BY DEF IInv
<1>. QED
  BY <1>1, <1>2, <1>3, <1>4, EmptyHolds, RestKeeps

LEMMA DeleteCalculationKeeps ==
  ASSUME StoreAssumption, IInv, NEW i \in 0 .. numberOfElements - 1, DeleteCalculation(i)
  PROVE  IInv'
<1>1. doing.op # "move" /\ BeginDeletion(i, NoCalculation) /\ before' = before
  BY DEF DeleteCalculation, Idle
<1>. QED
  BY <1>1, DeletionBegins

LEMMA PushKeeps ==
  ASSUME StoreAssumption, IInv, NEW c \in Calculation, Push(c)
  PROVE  IInv'
<1>1. /\ doing = Idle /\ SizeOf[c] <= MaximumSize
      /\ doing' = [op |-> "room", pushed |-> c] /\ before' = history
      /\ memory' = memory /\ numberOfElements' = numberOfElements /\ history' = history
      /\ locks' = locks /\ place' = place /\ remembered' = remembered
  BY DEF Push, storeVars, breaker
<1>2. doing.op # "move"
  BY <1>1 DEF Idle
<1>3. locks = 0 /\ Holds(memory, numberOfElements, history)
  BY <1>2 DEF IInv, DoingOK
<1>4. BreakerTypeOK' /\ history \in Seq(Calculation)
  BY <1>1, <1>3 DEF IInv, BreakerTypeOK, Holds
<1>5. doing' \in [op : {"room"}, pushed : Calculation] /\ doing'.pushed = c
  BY <1>1
<1>. QED
  BY <1>1, <1>3, <1>4, <1>5, RestKeeps

\* There is something to delete as long as there is no room: a calculation alone fits.
LEMMA DeleteOldestKeeps ==
  ASSUME StoreAssumption, IInv, DeleteOldestElement
  PROVE  IInv'
<1>1. /\ doing.op = "room" /\ RemainingSize < SizeOf[doing.pushed]
      /\ BeginDeletion(0, doing.pushed) /\ before' = before
  BY DEF DeleteOldestElement
<1>2. doing.pushed \in Calculation /\ SizeOf[doing.pushed] <= MaximumSize
  BY <1>1, PushedFits DEF IInv
<1>3. Holds(memory, numberOfElements, history) /\ numberOfElements \in Nat
  BY <1>1, Placed DEF IInv
<1>4. numberOfElements # 0
  <2>. SUFFICES ASSUME numberOfElements = 0 PROVE FALSE
    OBVIOUS
  <2>1. EndOfElements = 0 /\ OffsetArea = BufferSize
    BY <1>3, Reading, SlotsAreApart DEF StartIn
  <2>2. BufferSize \in Nat /\ SizeOfOffset \in Nat /\ BufferSize > SizeOfOffset
    BY DEF StoreAssumption
  <2>3. RemainingSize = BufferSize - 0 - SizeOfOffset
    BY <2>1, <2>2 DEF RemainingSize
  <2>4. MaximumSize = BufferSize - SizeOfOffset /\ SizeOf[doing.pushed] \in Nat
    BY <1>2 DEF MaximumSize, StoreAssumption
  <2>. QED
    BY <1>1, <1>2, <2>2, <2>3, <2>4
<1>5. 0 \in 0 .. numberOfElements - 1
  BY <1>3, <1>4
<1>. QED
  BY <1>1, <1>2, <1>5, DeletionBegins

LEMMA BeginWriteKeeps ==
  ASSUME StoreAssumption, IInv, BeginWrite
  PROVE  IInv'
<1>. DEFINE n == numberOfElements
            end == StartIn(memory, n)
            full == SizeOf[doing.pushed]
<1>1. /\ doing.op = "room" /\ RemainingSize >= full
      /\ doing' = [op |-> "write", pushed |-> doing.pushed, written |-> 0]
      /\ memory' = memory /\ numberOfElements' = n /\ history' = history
      /\ before' = before /\ locks' = locks /\ place' = place /\ remembered' = remembered
  BY DEF BeginWrite, storeVars, breaker
<1>2. /\ doing.pushed \in Calculation /\ full \in Nat \ {0} /\ full <= MaximumSize
  BY <1>1, PushedFits DEF IInv
<1>3. Holds(memory, n, history) /\ n \in Nat
  BY <1>1, Placed DEF IInv
<1>4. end + full <= Slot(n)
  <2>1. EndOfElements = end /\ OffsetArea = Slot(n) + SizeOfOffset
    BY <1>3, Reading
  <2>2. Slot(n) \in Int /\ SizeOfOffset \in Nat
    BY <1>3, SlotsAreApart DEF StoreAssumption
  <2>3. end \in Nat
    <3>1. n \in 0 .. n
      BY <1>3
    <3>. QED
      BY <1>3, <3>1, Placed
  <2>4. RemainingSize = IF EndOfElements + SizeOfOffset < OffsetArea
                        THEN OffsetArea - EndOfElements - SizeOfOffset ELSE 0
    BY DEF RemainingSize
  <2>. HIDE DEF end, full, n
  <2>. QED
    BY <1>1, <1>2, <2>1, <2>2, <2>3, <2>4
<1>5. /\ doing'.op = "write" /\ doing'.pushed = doing.pushed /\ doing'.written = 0
      /\ doing' \in [op : {"write"}, pushed : Calculation, written : Nat]
  BY <1>1, <1>2
<1>6. DoingOK'
  BY <1>1, <1>2, <1>5 DEF IInv, DoingOK
<1>7. WriteOK'
  <2>1. \A k \in 0 .. 0 - 1 : FALSE
    OBVIOUS
  <2>2. 0 <= full
    BY <1>2
  <2>. QED
    BY <1>1, <1>4, <1>5, <2>1, <2>2 DEF WriteOK
<1>8. /\ memory' \in [Address -> Byte] /\ before' \in Seq(Calculation) /\ BreakerTypeOK'
      /\ Holds(memory', numberOfElements', history') /\ doing'.op # "move"
  BY <1>1, <1>3, <1>5 DEF IInv, BreakerTypeOK
<1>. QED
  BY <1>6, <1>7, <1>8 DEF IInv

LEMMA WriteByteKeeps ==
  ASSUME StoreAssumption, IInv, WriteByte
  PROVE  IInv'
<1>. DEFINE n == numberOfElements
            end == StartIn(memory, n)
            c == doing.pushed
            full == SizeOf[c]
            k == doing.written
            new == [of |-> c, at |-> k]
            m == memory'
<1>1. /\ doing.op = "write" /\ k < full
      /\ doing \in [op : {"write"}, pushed : Calculation, written : Nat]
      /\ doing' = [doing EXCEPT !.written = k + 1]
      /\ memory' = [memory EXCEPT ![EndOfElements + k] = new]
      /\ numberOfElements' = n /\ history' = history
      /\ before' = before /\ locks' = locks /\ place' = place /\ remembered' = remembered
  BY DoingCases DEF WriteByte, breaker, IInv
<1>2. c \in Calculation /\ full \in Nat \ {0} /\ full <= MaximumSize /\ k \in Nat
  BY <1>1, PushedFits DEF IInv
<1>3. Holds(memory, n, history) /\ n \in Nat /\ end \in Nat /\ EndOfElements = end
  <2>1. Holds(memory, n, history) /\ n \in Nat
    BY <1>1, Placed DEF IInv
  <2>2. n \in 0 .. n
    BY <2>1
  <2>. QED
    BY <2>1, <2>2, Placed, Reading
<1>4. /\ end + full <= Slot(n) /\ Slot(n) \in Int /\ Slot(n) + SizeOfOffset <= BufferSize
      /\ SizeOfOffset \in Nat \ {0} /\ BufferSize \in Nat
      /\ \A b \in 0 .. k - 1 : memory[end + b] = [of |-> c, at |-> b]
  <2>1. end + full <= Slot(n) /\ \A b \in 0 .. k - 1 : memory[end + b] = [of |-> c, at |-> b]
    BY <1>1 DEF IInv, WriteOK
  <2>2. Slot(n) \in Int /\ Slot(n) + SizeOfOffset <= BufferSize
    BY <1>3, SlotsAreApart, Placed
  <2>. QED
    BY <2>1, <2>2 DEF StoreAssumption
<1>5. /\ doing'.op = "write" /\ doing'.pushed = c /\ doing'.written = k + 1
      /\ doing' \in [op : {"write"}, pushed : Calculation, written : Nat]
  BY <1>1
<1>6. DoingOK'
  BY <1>1, <1>2, <1>5 DEF IInv, DoingOK
<1>7. memory \in [Address -> Byte] /\ new \in Byte
  BY <1>2 DEF IInv, Byte
<1>. HIDE DEF n, end, c, full, k, new, m
<1>8. end + k \in Address
  BY <1>1, <1>2, <1>3, <1>4 DEF Address
<1>9. /\ m \in [Address -> Byte] /\ m[end + k] = new
      /\ \A x \in Address : x # end + k => m[x] = memory[x]
  <2>1. m = [memory EXCEPT ![end + k] = new]
    BY <1>1, <1>3 DEF m
  <2>. QED
    BY <1>7, <1>8, <2>1
<1>10. \A x \in 0 .. end + k - 1 : m[x] = memory[x]
  <2>1. \A x \in 0 .. end + k - 1 : x \in Address /\ x # end + k
    BY <1>1, <1>2, <1>3, <1>4 DEF Address
  <2>. QED
    BY <1>9, <2>1
<1>11. Holds(m, n, history) /\ StartIn(m, n) = end
  <2>1. \A x \in 0 .. end - 1 : m[x] = memory[x]
    <3>1. \A x \in 0 .. end - 1 : x \in 0 .. end + k - 1
      BY <1>2, <1>3
    <3>. QED
      BY <1>10, <3>1
  <2>2. \A i \in 0 .. n - 1 : m[Slot(i)] = memory[Slot(i)]
    <3>. SUFFICES ASSUME NEW i \in 0 .. n - 1 PROVE m[Slot(i)] = memory[Slot(i)]
      OBVIOUS
    <3>1. Slot(i) \in Address /\ Slot(n) + SizeOfOffset <= Slot(i)
      BY <1>3, Placed
    <3>2. Slot(i) # end + k
      BY <1>1, <1>2, <1>3, <1>4, <3>1 DEF Address
    <3>. QED
      BY <1>9, <3>1, <3>2
  <2>3. n \in 0 .. n
    BY <1>3
  <2>. QED
    BY <1>3, <1>9, <2>1, <2>2, <2>3, SameBytes DEF end
<1>12. \A b \in 0 .. (k + 1) - 1 : m[end + b] = [of |-> c, at |-> b]
  <2>. SUFFICES ASSUME NEW b \in 0 .. (k + 1) - 1 PROVE m[end + b] = [of |-> c, at |-> b]
    OBVIOUS
  <2>1. CASE b = k
    BY <1>9, <2>1 DEF new
  <2>2. CASE b # k
    <3>1. b \in 0 .. k - 1 /\ end + b \in 0 .. end + k - 1
      BY <1>2, <1>3, <2>2
    <3>. QED
      BY <1>4, <1>10, <3>1
  <2>. QED
    BY <2>1, <2>2
<1>13. k + 1 <= full
  BY <1>1, <1>2
<1>14. WriteOK'
  <2>1. StartIn(memory', numberOfElements') = end /\ Slot(numberOfElements') = Slot(n)
    BY <1>1, <1>11 DEF m
  <2>. QED
    BY <1>4, <1>5, <1>12, <1>13, <2>1 DEF WriteOK, m, full
<1>15. /\ memory' \in [Address -> Byte] /\ before' \in Seq(Calculation) /\ BreakerTypeOK'
       /\ Holds(memory', numberOfElements', history') /\ doing'.op # "move"
  BY <1>1, <1>5, <1>9, <1>11 DEF IInv, BreakerTypeOK, m
<1>. QED
  BY <1>6, <1>14, <1>15 DEF IInv

\* The offset is written below the others, where nothing reads it yet.
LEMMA RegisterElementKeeps ==
  ASSUME StoreAssumption, IInv, RegisterElement
  PROVE  IInv'
<1>. DEFINE n == numberOfElements
            end == StartIn(memory, n)
            c == doing.pushed
            full == SizeOf[c]
            slot == [of |-> NoCalculation, at |-> end + full]
            m == memory'
<1>1. /\ doing.op = "write" /\ doing.written = full
      /\ doing \in [op : {"write"}, pushed : Calculation, written : Nat]
      /\ doing' = [op |-> "count", pushed |-> c]
      /\ memory' = WriteOffset(n, EndOfElements + full)
      /\ numberOfElements' = n /\ history' = history
      /\ before' = before /\ locks' = locks /\ place' = place /\ remembered' = remembered
  BY DoingCases DEF RegisterElement, breaker, IInv
<1>2. c \in Calculation /\ full \in Nat \ {0} /\ full <= MaximumSize
  BY <1>1, PushedFits DEF IInv
<1>3. Holds(memory, n, history) /\ n \in Nat /\ end \in Nat /\ EndOfElements = end
  <2>1. Holds(memory, n, history) /\ n \in Nat
    BY <1>1, Placed DEF IInv
  <2>2. n \in 0 .. n
    BY <2>1
  <2>. QED
    BY <2>1, <2>2, Placed, Reading
<1>4. /\ end + full <= Slot(n) /\ Slot(n) \in Int /\ Slot(n) + SizeOfOffset <= BufferSize
      /\ SizeOfOffset \in Nat \ {0} /\ BufferSize \in Nat
      /\ \A b \in 0 .. full - 1 : memory[end + b] = [of |-> c, at |-> b]
      /\ OffsetBytes(n) = Slot(n) .. Slot(n) + SizeOfOffset - 1
  <2>1. end + full <= Slot(n) /\ \A b \in 0 .. full - 1 : memory[end + b] = [of |-> c, at |-> b]
    BY <1>1 DEF IInv, WriteOK
  <2>2. Slot(n) \in Int /\ Slot(n) + SizeOfOffset <= BufferSize
        /\ OffsetBytes(n) = Slot(n) .. Slot(n) + SizeOfOffset - 1
    BY <1>3, SlotsAreApart, Placed
  <2>. QED
    BY <2>1, <2>2 DEF StoreAssumption
<1>5. /\ doing'.op = "count" /\ doing'.pushed = c
      /\ doing' \in [op : {"room", "count"}, pushed : Calculation]
  BY <1>1, <1>2
<1>6. DoingOK'
  BY <1>1, <1>2, <1>5 DEF IInv, DoingOK
<1>7. memory \in [Address -> Byte]
  BY DEF IInv
<1>8. m = [x \in Address |-> IF x \in OffsetBytes(n) THEN slot ELSE memory[x]]
  BY <1>1, <1>3 DEF WriteOffset
<1>. HIDE DEF n, end, c, full, slot, m
<1>9. slot \in Byte /\ slot.at = end + full
  BY <1>2, <1>3 DEF Byte, slot
<1>10. Slot(n) \in Address /\ Slot(n) \in OffsetBytes(n)
  BY <1>2, <1>3, <1>4 DEF Address
<1>11. /\ m \in [Address -> Byte] /\ m[Slot(n)] = slot
       /\ \A x \in Address : x \notin OffsetBytes(n) => m[x] = memory[x]
  BY <1>7, <1>8, <1>9, <1>10
<1>12. \A x \in 0 .. end + full - 1 : m[x] = memory[x]
  <2>1. \A x \in 0 .. end + full - 1 : x \in Address /\ x \notin OffsetBytes(n)
    BY <1>2, <1>3, <1>4 DEF Address
  <2>. QED
    BY <1>11, <2>1
<1>13. Holds(m, n, history) /\ StartIn(m, n) = end
  <2>1. \A x \in 0 .. end - 1 : m[x] = memory[x]
    <3>1. \A x \in 0 .. end - 1 : x \in 0 .. end + full - 1
      BY <1>2, <1>3
    <3>. QED
      BY <1>12, <3>1
  <2>2. \A i \in 0 .. n - 1 : m[Slot(i)] = memory[Slot(i)]
    <3>. SUFFICES ASSUME NEW i \in 0 .. n - 1 PROVE m[Slot(i)] = memory[Slot(i)]
      OBVIOUS
    <3>1. Slot(i) \in Address /\ Slot(n) + SizeOfOffset <= Slot(i)
      BY <1>3, Placed
    <3>2. Slot(i) \notin OffsetBytes(n)
      BY <1>4, <3>1 DEF Address
    <3>. QED
      BY <1>11, <3>1, <3>2
  <2>3. n \in 0 .. n
    BY <1>3
  <2>. QED
    BY <1>3, <1>11, <2>1, <2>2, <2>3, SameBytes DEF end
<1>14. \A b \in 0 .. full - 1 : m[end + b] = [of |-> c, at |-> b]
  <2>1. \A b \in 0 .. full - 1 : end + b \in 0 .. end + full - 1
    BY <1>2, <1>3
  <2>. QED
    BY <1>4, <1>12, <2>1
<1>15. WriteOK'
  <2>1. /\ StartIn(memory', numberOfElements') = end /\ Slot(numberOfElements') = Slot(n)
        /\ memory'[Slot(n)].at = end + full
    BY <1>1, <1>9, <1>11, <1>13 DEF m
  <2>. QED
    BY <1>4, <1>5, <1>14, <2>1 DEF WriteOK, m, full
<1>16. /\ memory' \in [Address -> Byte] /\ before' \in Seq(Calculation) /\ BreakerTypeOK'
       /\ Holds(memory', numberOfElements', history') /\ doing'.op # "move"
  BY <1>1, <1>5, <1>11, <1>13 DEF IInv, BreakerTypeOK, m
<1>. QED
  BY <1>6, <1>15, <1>16 DEF IInv

LEMMA CountElementKeeps ==
  ASSUME StoreAssumption, IInv, CountElement
  PROVE  IInv'
<1>1. /\ doing.op = "count" /\ doing' = Idle
      /\ numberOfElements' = numberOfElements + 1
      /\ history' = Append(history, doing.pushed)
      /\ memory' = memory /\ before' = before
      /\ locks' = locks /\ place' = place /\ remembered' = remembered
  BY DEF CountElement, breaker
<1>2. doing.pushed \in Calculation
  BY <1>1, PushedFits DEF IInv
<1>3. /\ Holds(memory, numberOfElements, history) /\ locks = 0
      /\ BreakerTypeOK' /\ before' \in Seq(Calculation)
  BY <1>1 DEF IInv, DoingOK, BreakerTypeOK
<1>4. Holds(memory, numberOfElements + 1, Append(history, doing.pushed))
  BY <1>1, <1>2, <1>3, OneMore DEF IInv, WriteOK
<1>. QED
  BY <1>1, <1>3, <1>4, RestKeeps

\* The home key may be pressed at any step: between two deletions the buffer reads as
\* it should, and during one the jump waits.
LEMMA InterruptKeeps ==
  ASSUME StoreAssumption, IInv, Interrupt
  PROVE  IInv'
<1>1. /\ memory' = memory /\ numberOfElements' = numberOfElements
      /\ history' = history /\ before' = before
  BY DEF Interrupt, storeVars
<1>2. CASE Remember(Home) /\ UNCHANGED <<storeVars, doing, history, before>>
  <2>1. doing' = doing /\ locks' = locks /\ place' = place
        /\ remembered' \in {Home, remembered}
    BY <1>2 DEF Remember
  <2>2. BreakerTypeOK'
    BY <2>1 DEF IInv, BreakerTypeOK, CheckpointType
  <2>3. DoingOK' /\ WriteOK'
    BY <1>1, <2>1 DEF IInv, DoingOK, WriteOK
  <2>. QED
    BY <1>1, <2>1, <2>2, <2>3 DEF IInv
<1>3. CASE Jump(Home) /\ doing' = Idle
  <2>1. locks = 0 /\ locks' = locks /\ place' = UnsetLower(place, Home) /\ remembered' = NoType
    BY <1>3 DEF Jump
  <2>2. BreakerTypeOK'
    BY <2>1 DEF IInv, BreakerTypeOK, UnsetLower, Nowhere
  <2>3. doing.op # "move"
    BY <2>1 DEF IInv, DoingOK
  <2>. QED
    BY <1>1, <1>3, <2>1, <2>2, <2>3, RestKeeps DEF IInv
<1>. QED
  BY <1>2, <1>3 DEF Interrupt

LEMMA InitHolds ==
  ASSUME StoreAssumption, Init
  PROVE  IInv
<1>1. memory \in [Address -> Byte]
  BY DEF Init, Byte
<1>2. Holds(memory, 0, <<>>)
  BY <1>1, EmptyHolds
<1>3. doing = Idle /\ doing.op = "idle" /\ locks = 0 /\ numberOfElements = 0
      /\ history = <<>> /\ before = <<>>
  BY DEF Init, Idle
<1>4. BreakerTypeOK
  BY DEF Init, BreakerTypeOK, Nowhere, NoType
<1>5. before \in Seq(Calculation)
  BY <1>3
<1>. QED
  BY <1>1, <1>2, <1>3, <1>4, <1>5 DEF IInv, DoingOK, WriteOK

LEMMA StepKeeps ==
  ASSUME StoreAssumption, IInv, [Next]_vars
  PROVE  IInv'
<1>1. CASE UNCHANGED vars
  <2>1. /\ memory' = memory /\ numberOfElements' = numberOfElements /\ doing' = doing
        /\ history' = history /\ before' = before
        /\ locks' = locks /\ place' = place /\ remembered' = remembered
    BY <1>1 DEF vars, storeVars, breaker
  <2>2. DoingOK' /\ WriteOK' /\ BreakerTypeOK'
    BY <2>1 DEF IInv, DoingOK, WriteOK, BreakerTypeOK
  <2>. QED
    BY <2>1, <2>2 DEF IInv
<1>2. CASE Operation
  BY <1>2, MoveByteKeeps, MoveOffsetKeeps, EndDeletionKeeps, DeleteOldestKeeps,
     BeginWriteKeeps, WriteByteKeeps, RegisterElementKeeps, CountElementKeeps DEF Operation
<1>3. CASE \E c \in Calculation : Push(c)
  BY <1>3, PushKeeps
<1>4. CASE \E i \in 0 .. numberOfElements - 1 : DeleteCalculation(i)
  BY <1>4, DeleteCalculationKeeps
<1>5. CASE DeleteAll
  BY <1>5, DeleteAllKeeps
<1>6. CASE Interrupt
  BY <1>6, InterruptKeeps
<1>. QED
  BY <1>1, <1>2, <1>3, <1>4, <1>5, <1>6 DEF Next

-----------------------------------------------------------------------------
(* The theorems *)

\* At every write of a push and of a deletion the buffer is what the operation has
\* made of it so far, whatever the sizes of the calculations and of the buffer.
THEOREM StoreInvariance == Spec => []IInv
<1>1. Init => IInv
  BY InitHolds, StoreAssumption
<1>2. IInv /\ [Next]_vars => IInv'
  BY StepKeeps, StoreAssumption
<1>. QED
  BY <1>1, <1>2, PTL DEF Spec

\* Wherever the home key may jump out, the buffer reads as the calculations that were
\* pushed in full and not deleted: "no ill-formed element is stored" (store_impl.inc).
THEOREM StoreStaysReadable == Spec => []StoreReadable
<1>1. ASSUME IInv PROVE StoreReadable
  <2>. SUFFICES ASSUME locks = 0
                PROVE  /\ numberOfElements = Len(history)
                       /\ \A i \in 0 .. numberOfElements - 1 : Reads(i) = {history[i + 1]}
    BY DEF StoreReadable
  <2>1. Holds(memory, numberOfElements, history)
    BY <1>1 DEF IInv, DoingOK
  <2>2. numberOfElements = Len(history) /\ numberOfElements \in Nat
    BY <2>1, Placed, StoreAssumption DEF Holds
  <2>3. ASSUME NEW i \in 0 .. numberOfElements - 1
        PROVE  Reads(i) = {history[i + 1]}
    <3>. DEFINE c == history[i + 1]
                s == StartIn(memory, i)
    <3>1. /\ c \in Calculation /\ SizeOf[c] \in Nat \ {0} /\ i \in Nat
          /\ ElementAtIndex(i) = s /\ EndOfElementAtIndex(i) = s + SizeOf[c]
      <4>1. c \in Calculation /\ SizeOf[c] \in Nat \ {0} /\ StartIn(memory, i + 1) = s + SizeOf[c]
        BY <2>1, Placed, StoreAssumption
      <4>2. i \in Nat
        OBVIOUS
      <4>3. \A j \in Nat : /\ ElementAtIndex(j) = StartIn(memory, j)
                            /\ EndOfElementAtIndex(j) = StartIn(memory, j + 1)
        BY <2>2, Reading, StoreAssumption
      <4>4. ElementAtIndex(i) = s /\ EndOfElementAtIndex(i) = StartIn(memory, i + 1)
        BY <4>2, <4>3
      <4>. QED
        BY <4>1, <4>2, <4>4
    <3>2. \A k \in 0 .. SizeOf[c] - 1 : memory[s + k] = [of |-> c, at |-> k]
      BY <2>1 DEF Holds
    <3>. HIDE DEF c, s
    <3>3. Reads(i) = {b \in Calculation :
                        /\ s + SizeOf[c] = s + SizeOf[b]
                        /\ \A k \in 0 .. SizeOf[b] - 1 : memory[s + k] = [of |-> b, at |-> k]}
      BY <3>1 DEF Reads
    <3>4. ASSUME NEW b \in Calculation,
                 \A k \in 0 .. SizeOf[b] - 1 : memory[s + k] = [of |-> b, at |-> k]
          PROVE  b = c
      <4>1. 0 \in 0 .. SizeOf[b] - 1 /\ 0 \in 0 .. SizeOf[c] - 1
        BY <3>1, StoreAssumption DEF StoreAssumption
      <4>2. memory[s + 0] = [of |-> b, at |-> 0] /\ memory[s + 0] = [of |-> c, at |-> 0]
        BY <3>2, <3>4, <4>1
      <4>. QED
        BY <4>2
    <3>. QED
      BY <3>1, <3>2, <3>3, <3>4 DEF c
  <2>. QED
    BY <2>2, <2>3
<1>. QED
  BY <1>1, StoreInvariance, PTL

\* The elements and their offsets never meet, an element being written included:
\* makeRoomForElement and push.
THEOREM AreasStayDisjoint == Spec => []AreasDisjoint
<1>1. ASSUME IInv PROVE AreasDisjoint
  <2>1. PICK m, h : Holds(m, numberOfElements, h) /\ h = history
    BY <1>1 DEF IInv, Moves
  <2>2. numberOfElements \in Nat /\ history \in Seq(Calculation)
    BY <2>1, Placed, StoreAssumption DEF Holds
  <2>3. OffsetArea = Slot(numberOfElements) + SizeOfOffset
    BY <2>2, Reading, StoreAssumption
  <2>4. TypeOK
    <3>1. Slot(numberOfElements) + SizeOfOffset \in Nat
      BY <2>1 DEF Holds
    <3>2. numberOfElements * SizeOfOffset <= BufferSize
      <4>. DEFINE p == SizeOfOffset * numberOfElements
      <4>1. BufferSize - p \in Nat
        BY <2>3, <3>1 DEF OffsetArea
      <4>2. p \in Nat /\ BufferSize \in Nat /\ p = numberOfElements * SizeOfOffset
        BY <2>2, StoreAssumption DEF StoreAssumption
      <4>. HIDE DEF p
      <4>. QED
        BY <4>1, <4>2
    <3>. QED
      BY <1>1, <2>2, <3>2 DEF IInv, TypeOK
  <2>5. locks = 0 => EndOfElements <= OffsetArea
    <3>. SUFFICES ASSUME locks = 0 PROVE EndOfElements <= OffsetArea
      OBVIOUS
    <3>1. Holds(memory, numberOfElements, history)
      BY <1>1 DEF IInv, DoingOK
    <3>2. EndOfElements = StartIn(memory, numberOfElements)
      BY <2>2, Reading, StoreAssumption
    <3>. QED
      BY <2>3, <3>1, <3>2 DEF Holds
  <2>6. doing.op = "write" => EndOfElements + SizeOf[doing.pushed] <= OffsetArea - SizeOfOffset
    <3>1. Slot(numberOfElements) \in Int /\ SizeOfOffset \in Nat
      BY <2>2, SlotsAreApart, StoreAssumption DEF StoreAssumption
    <3>2. OffsetArea - SizeOfOffset = Slot(numberOfElements)
      BY <2>3, <3>1
    <3>3. EndOfElements = StartIn(memory, numberOfElements)
      BY <2>2, Reading, StoreAssumption
    <3>. QED
      BY <1>1, <3>2, <3>3 DEF IInv, WriteOK
  <2>. QED
    BY <2>4, <2>5, <2>6 DEF AreasDisjoint
<1>. QED
  BY <1>1, StoreInvariance, PTL

-----------------------------------------------------------------------------
(* What a push keeps *)

\* The last k of the calculations s
Latest(s, k) == SubSeq(s, Len(s) - k + 1, Len(s))

\* A push has kept the latest calculations, and has deleted only what did not fit with
\* the new one.
PushOK ==
  doing.op \in {"room", "write", "count"} \/ (doing.op = "move" /\ doing.pushed # NoCalculation) =>
    /\ Len(history) <= Len(before) /\ history = Latest(before, Len(history))
    /\ Len(history) < Len(before) =>
         SizeTaken(Append(Latest(before, Len(history) + 1), doing.pushed)) > BufferSize
    /\ doing.op = "move" =>
         /\ doing.index = 0 /\ Len(history) > 0
         /\ SizeTaken(Append(history, doing.pushed)) > BufferSize

\* A sum that is written as a function of the index is the recursive one.
LEMMA TakenIsUnique ==
  ASSUME StoreAssumption, NEW s \in Seq(Calculation), NEW f \in [0 .. Len(s) -> Int], f[0] = 0,
         \A i \in 1 .. Len(s) : f[i] = f[i - 1] + SizeOf[s[i]] + SizeOfOffset
  PROVE  SizeTaken(s) = f[Len(s)]
<1>. DEFINE n == Len(s)
            Sum(g) == [i \in 0 .. n |->
                         IF i = 0 THEN 0 ELSE g[i - 1] + SizeOf[s[i]] + SizeOfOffset]
            taken == CHOOSE g : g = Sum(g)
            T == {i \in Nat : i <= n => taken[i] = f[i]}
<1>1. n \in Nat
  OBVIOUS
<1>2. SizeTaken(s) = taken[n]
  BY DEF SizeTaken
<1>. HIDE DEF n
<1>3. f = Sum(f)
  <2>1. \A i \in 0 .. n : f[i] = Sum(f)[i]
    <3>. SUFFICES ASSUME NEW i \in 0 .. n PROVE f[i] = Sum(f)[i]
      OBVIOUS
    <3>1. CASE i = 0
      BY <3>1
    <3>2. CASE i # 0
      <4>1. i \in 1 .. n
        BY <1>1, <3>2
      <4>. QED
        BY <3>2, <4>1 DEF n
    <3>. QED
      BY <3>1, <3>2
  <2>2. f \in [0 .. n -> Int]
    BY DEF n
  <2>. HIDE DEF Sum
  <2>3. Sum(f) = [i \in 0 .. n |-> Sum(f)[i]] /\ f = [i \in 0 .. n |-> f[i]]
    BY <2>2 DEF Sum
  <2>. QED
    BY <2>1, <2>3
<1>4. taken = Sum(taken)
  <2>. HIDE DEF Sum
  <2>. QED
    BY <1>3
<1>. HIDE DEF taken
<1>5. 0 \in T
  <2>1. 0 \in 0 .. n
    BY <1>1
  <2>2. taken[0] = 0
    BY <1>4, <2>1
  <2>. QED
    BY <2>2
<1>6. ASSUME NEW i \in Nat, i \in T PROVE i + 1 \in T
  <2>. SUFFICES ASSUME i + 1 <= n PROVE taken[i + 1] = f[i + 1]
    OBVIOUS
  <2>1. i + 1 \in 0 .. n /\ i + 1 \in 1 .. n /\ i + 1 # 0 /\ (i + 1) - 1 = i /\ i <= n
    BY <1>1
  <2>2. taken[i + 1] = taken[i] + SizeOf[s[i + 1]] + SizeOfOffset
    BY <1>4, <2>1
  <2>3. f[i + 1] = f[i] + SizeOf[s[i + 1]] + SizeOfOffset
    BY <2>1 DEF n
  <2>. QED
    BY <1>6, <2>1, <2>2, <2>3
<1>. HIDE DEF T
<1>7. Nat \subseteq T
  BY <1>5, <1>6, SetInduction
<1>. QED
  BY <1>1, <1>2, <1>7 DEF T, n

\* The calculations of a buffer and one more take what they end at and their offsets.
LEMMA SizeOfStored ==
  ASSUME StoreAssumption, NEW m, NEW n, NEW h, Holds(m, n, h), NEW c \in Calculation
  PROVE  SizeTaken(Append(h, c)) = StartIn(m, n) + SizeOf[c] + (BufferSize - Slot(n))
<1>. DEFINE s == Append(h, c)
            Rest(i) == BufferSize - Slot(i) - SizeOfOffset
            f == [i \in 0 .. n + 1 |->
                    IF i <= n THEN StartIn(m, i) + Rest(i)
                    ELSE StartIn(m, n) + SizeOf[c] + (BufferSize - Slot(n))]
<1>1. /\ h \in Seq(Calculation) /\ n = Len(h) /\ n \in Nat /\ BufferSize \in Nat
      /\ SizeOfOffset \in Nat /\ SizeOf[c] \in Nat
  BY Placed DEF Holds, StoreAssumption
<1>2. s \in Seq(Calculation) /\ Len(s) = n + 1 /\ s[n + 1] = c /\ \A i \in 1 .. n : s[i] = h[i]
  BY <1>1, AppendProperties
<1>3. \A i \in Nat : Slot(i) \in Int /\ Slot(i + 1) + SizeOfOffset = Slot(i)
  BY SlotsAreApart
<1>4. \A i \in 0 .. n : StartIn(m, i) \in Nat
  BY Placed
<1>5. ASSUME NEW i \in 1 .. n
      PROVE  StartIn(m, i) = StartIn(m, i - 1) + SizeOf[s[i]] /\ SizeOf[s[i]] \in Nat
             /\ StartIn(m, i - 1) \in Nat
  <2>1. i - 1 \in 0 .. n - 1 /\ i - 1 \in 0 .. n /\ (i - 1) + 1 = i
    BY <1>1
  <2>. QED
    BY <1>2, <1>4, <2>1, Placed
<1>6. Slot(0) + SizeOfOffset = BufferSize /\ StartIn(m, 0) = 0
  BY SlotsAreApart DEF StartIn
<1>. HIDE DEF s
<1>7. f \in [0 .. n + 1 -> Int]
  <2>. SUFFICES ASSUME NEW i \in 0 .. n + 1
                PROVE  (IF i <= n THEN StartIn(m, i) + Rest(i)
                        ELSE StartIn(m, n) + SizeOf[c] + (BufferSize - Slot(n))) \in Int
    OBVIOUS
  <2>1. i \in Nat /\ n \in 0 .. n /\ (i <= n => i \in 0 .. n)
    BY <1>1
  <2>2. Slot(i) \in Int /\ Slot(n) \in Int /\ StartIn(m, n) \in Nat
    BY <1>1, <1>3, <1>4, <2>1
  <2>3. i <= n => StartIn(m, i) \in Nat
    BY <1>4, <2>1
  <2>. QED
    BY <1>1, <2>2, <2>3
<1>8. f[0] = 0
  <2>1. 0 \in 0 .. n + 1 /\ 0 <= n /\ Slot(0) \in Int
    BY <1>1, <1>3
  <2>. QED
    BY <1>1, <1>6, <2>1
<1>9. ASSUME NEW i \in 1 .. n + 1 PROVE f[i] = f[i - 1] + SizeOf[s[i]] + SizeOfOffset
  <2>1. /\ i \in 0 .. n + 1 /\ i - 1 \in 0 .. n + 1 /\ i - 1 <= n /\ i - 1 \in Nat
        /\ (i - 1) + 1 = i /\ i \in Nat
    BY <1>1
  <2>2. f[i - 1] = StartIn(m, i - 1) + Rest(i - 1)
    BY <2>1
  <2>3. Slot(i) + SizeOfOffset = Slot(i - 1) /\ Slot(i) \in Int /\ Slot(i - 1) \in Int
    BY <1>3, <2>1
  <2>4. CASE i <= n
    <3>1. f[i] = StartIn(m, i) + Rest(i) /\ i \in 1 .. n
      BY <2>1, <2>4
    <3>2. /\ StartIn(m, i) = StartIn(m, i - 1) + SizeOf[s[i]] /\ SizeOf[s[i]] \in Nat
          /\ StartIn(m, i - 1) \in Nat
      BY <1>5, <3>1
    <3>. HIDE DEF f
    <3>3. /\ Rest(i) \in Int /\ Rest(i - 1) \in Int
          /\ Rest(i) = Rest(i - 1) + SizeOfOffset
      BY <1>1, <2>3
    <3>. HIDE DEF Rest
    <3>4. SizeOfOffset \in Int
      BY <1>1
    <3>. QED
      BY <2>2, <3>1, <3>2, <3>3, <3>4
  <2>5. CASE ~ (i <= n)
    <3>1. i = n + 1 /\ i - 1 = n /\ n \in 0 .. n
      BY <1>1, <2>5
    <3>2. f[i] = StartIn(m, n) + SizeOf[c] + (BufferSize - Slot(n))
      BY <2>1, <2>5
    <3>3. s[i] = c /\ StartIn(m, n) \in Nat /\ Slot(n) \in Int
      BY <1>2, <1>3, <1>4, <2>1, <3>1
    <3>. QED
      BY <1>1, <2>2, <3>1, <3>2, <3>3
  <2>. QED
    BY <2>4, <2>5
<1>10. n + 1 \in 0 .. n + 1 /\ ~ (n + 1 <= n)
  BY <1>1
<1>11. f[n + 1] = StartIn(m, n) + SizeOf[c] + (BufferSize - Slot(n))
  BY <1>10
<1>. HIDE DEF f
<1>. QED
  BY <1>2, <1>7, <1>8, <1>9, <1>11, TakenIsUnique DEF s

\* Without its oldest, the last k are the last k - 1.
LEMMA LatestShorter ==
  ASSUME NEW S, NEW s \in Seq(S), NEW k \in 1 .. Len(s)
  PROVE  /\ Len(Latest(s, k)) = k
         /\ RemoveAt(Latest(s, k), 1) = Latest(s, k - 1)
         /\ Len(Latest(s, k - 1)) = k - 1
<1>. DEFINE n == Len(s)
            t == SubSeq(s, n - k + 1, n)
            u == SubSeq(s, n - (k - 1) + 1, n)
<1>1. n \in Nat /\ k \in Nat /\ k <= n /\ k >= 1
  <2>1. Len(s) \in Nat
    OBVIOUS
  <2>. QED
    BY <2>1
<1>. HIDE DEF n
<1>2. \A i \in 1 .. n : s[i] \in S
  BY DEF n
<1>3. t \in Seq(S) /\ Len(t) = k
  <2>1. \A i \in n - k + 1 .. n : i \in 1 .. n
    BY <1>1
  <2>2. n - k + 1 \in Int /\ n \in Int /\ \A i \in n - k + 1 .. n : s[i] \in S
    BY <1>1, <1>2, <2>1
  <2>3. t \in Seq(S) /\ Len(t) = IF n - k + 1 <= n THEN n - (n - k + 1) + 1 ELSE 0
    BY <2>2, SubSeqProperties
  <2>. QED
    BY <1>1, <2>3
<1>4. u \in Seq(S) /\ Len(u) = k - 1
  <2>1. \A i \in n - (k - 1) + 1 .. n : i \in 1 .. n
    BY <1>1
  <2>2. n - (k - 1) + 1 \in Int /\ n \in Int /\ \A i \in n - (k - 1) + 1 .. n : s[i] \in S
    BY <1>1, <1>2, <2>1
  <2>3. u \in Seq(S) /\ Len(u) = IF n - (k - 1) + 1 <= n THEN n - (n - (k - 1) + 1) + 1 ELSE 0
    BY <2>2, SubSeqProperties
  <2>. QED
    BY <1>1, <2>3
<1>5. RemoveAt(t, 1) = SubSeq(t, 2, k)
  <2>1. SubSeq(t, 1, 0) = <<>>
    BY SubSeqEmpty
  <2>2. SubSeq(t, 2, k) \in Seq(S)
    <3>1. \A i \in 2 .. k : i \in 1 .. Len(t)
      BY <1>1, <1>3
    <3>2. 2 \in Int /\ k \in Int /\ \A i \in 2 .. k : t[i] \in S
      BY <1>1, <1>3, <3>1
    <3>. QED
      BY <3>2, SubSeqProperties
  <2>. HIDE DEF t
  <2>3. RemoveAt(t, 1) = <<>> \o SubSeq(t, 2, k)
    BY <1>3, <2>1 DEF RemoveAt
  <2>. QED
    BY <2>2, <2>3, ConcatEmptySeq
<1>6. SubSeq(t, 2, k) = u
  <2>1. CASE k = 1
    <3>1. SubSeq(t, 2, k) = <<>>
      BY <2>1, SubSeqEmpty
    <3>2. u = <<>>
      BY <1>4, <2>1
    <3>. QED
      BY <3>1, <3>2
  <2>2. CASE k # 1
    <3>1. /\ n - k + 1 \in 1 .. Len(s) /\ n \in 1 .. Len(s) /\ n - (n - k + 1) + 1 = k
          /\ 2 \in 1 .. k /\ k \in 1 .. k
          /\ (n - k + 1) + 2 - 1 = n - (k - 1) + 1 /\ (n - k + 1) + k - 1 = n
      BY <1>1, <2>2 DEF n
    <3>. DEFINE first == n - k + 1
    <3>. HIDE DEF first
    <3>2. /\ first \in 1 .. Len(s) /\ n \in 1 .. Len(s)
          /\ 2 \in 1 .. n - first + 1 /\ k \in 1 .. n - first + 1
      BY <3>1 DEF first
    <3>3. SubSeq(SubSeq(s, first, n), 2, k) = SubSeq(s, first + 2 - 1, first + k - 1)
      BY <3>2, SubSeqOfSubSeq
    <3>. QED
      BY <3>1, <3>3 DEF first
  <2>. QED
    BY <2>1, <2>2
<1>. QED
  BY <1>3, <1>4, <1>5, <1>6 DEF Latest, n

\* There is no room: the elements, the new one and their offsets exceed the buffer.
LEMMA NoRoom ==
  ASSUME StoreAssumption, IInv, doing.op = "room", RemainingSize < SizeOf[doing.pushed]
  PROVE  SizeTaken(Append(history, doing.pushed)) > BufferSize /\ Len(history) > 0
<1>. DEFINE n == numberOfElements
            end == StartIn(memory, n)
            full == SizeOf[doing.pushed]
            slot == Slot(n)
<1>1. doing.pushed \in Calculation /\ full \in Nat \ {0} /\ full <= MaximumSize
  BY PushedFits DEF IInv
<1>2. Holds(memory, n, history) /\ n \in Nat /\ n = Len(history)
  BY Placed DEF IInv, Holds
<1>3. EndOfElements = end /\ OffsetArea = slot + SizeOfOffset
  BY <1>2, Reading
<1>4. slot \in Int /\ end \in Nat /\ SizeOfOffset \in Nat /\ BufferSize \in Nat
  <2>1. n \in 0 .. n
    BY <1>2
  <2>. QED
    BY <1>2, <2>1, SlotsAreApart, Placed DEF StoreAssumption
<1>5. SizeTaken(Append(history, doing.pushed)) = end + full + (BufferSize - slot)
  BY <1>1, <1>2, SizeOfStored
<1>6. end + full > slot
  <2>1. RemainingSize = IF EndOfElements + SizeOfOffset < OffsetArea
                        THEN OffsetArea - EndOfElements - SizeOfOffset ELSE 0
    BY DEF RemainingSize
  <2>. HIDE DEF end, full, slot
  <2>. QED
    BY <1>1, <1>3, <1>4, <2>1 DEF full
<1>7. n # 0
  <2>. SUFFICES ASSUME n = 0 PROVE FALSE
    OBVIOUS
  <2>1. end = 0 /\ slot + SizeOfOffset = BufferSize
    BY SlotsAreApart DEF StartIn
  <2>2. full <= BufferSize - SizeOfOffset
    BY <1>1 DEF MaximumSize
  <2>. HIDE DEF end, full, slot
  <2>. QED
    BY <1>1, <1>4, <1>6, <2>1, <2>2
<1>. HIDE DEF end, full, slot, n
<1>. QED
  BY <1>1, <1>2, <1>4, <1>5, <1>6, <1>7

LEMMA PushOKStays ==
  ASSUME StoreAssumption, IInv, PushOK, Next
  PROVE  PushOK'
<1>. DEFINE pushing == doing.op \in {"room", "write", "count"}
                       \/ (doing.op = "move" /\ doing.pushed # NoCalculation)
<1>1. CASE doing' = Idle
  BY <1>1 DEF PushOK, Idle
<1>2. ASSUME pushing, doing'.op \in {"move", "room", "write", "count"},
             doing'.pushed = doing.pushed, history' = history, before' = before,
             doing'.op = "move" => doing.op = "move" /\ doing'.index = doing.index
      PROVE  PushOK'
  BY <1>2 DEF PushOK
<1>3. doing.op = "idle" => doing = Idle
  BY DoingCases DEF IInv
<1>4. CASE MoveByte \/ MoveOffset
  <2>1. doing.op = "move" /\ doing \in Deletion
    BY <1>4, DoingCases DEF MoveByte, MoveOffset, IInv
  <2>2. doing' = [doing EXCEPT !.moved = doing.moved + 1]
        \/ doing' = [doing EXCEPT !.offsets = doing.offsets + 1]
    BY <1>4 DEF MoveByte, MoveOffset
  <2>3. doing'.op = "move" /\ doing'.pushed = doing.pushed /\ doing'.index = doing.index
    BY <2>1, <2>2 DEF Deletion
  <2>4. history' = history /\ before' = before
    BY <1>4 DEF MoveByte, MoveOffset
  <2>5. CASE pushing
    BY <1>2, <2>1, <2>3, <2>4, <2>5
  <2>6. CASE ~ pushing
    BY <2>1, <2>3, <2>6 DEF PushOK
  <2>. QED
    BY <2>5, <2>6
<1>5. CASE EndDeletion
  <2>. DEFINE k == Len(history)
  <2>1. /\ doing.op = "move" /\ history' = RemoveAt(history, doing.index + 1)
        /\ before' = before
        /\ \/ doing' = Idle
           \/ doing.pushed # NoCalculation /\ doing' = [op |-> "room", pushed |-> doing.pushed]
    BY <1>5 DEF EndDeletion
  <2>. SUFFICES ASSUME doing.pushed # NoCalculation,
                       doing' = [op |-> "room", pushed |-> doing.pushed]
                PROVE  PushOK'
    BY <1>1, <2>1
  <2>2. /\ k <= Len(before) /\ history = Latest(before, k) /\ doing.index = 0 /\ k > 0
        /\ SizeTaken(Append(history, doing.pushed)) > BufferSize
    BY <2>1 DEF PushOK
  <2>3. before \in Seq(Calculation) /\ Len(before) \in Nat
    BY DEF IInv
  <2>4. history \in Seq(Calculation) /\ k \in Nat
    BY <2>1 DEF IInv, Moves, Holds
  <2>5. k \in 1 .. Len(before)
    BY <2>2, <2>3, <2>4
  <2>6. history' = RemoveAt(history, 1)
    BY <2>1, <2>2
  <2>7. history' = Latest(before, k - 1) /\ Len(history') = k - 1
    BY <2>2, <2>3, <2>5, <2>6, LatestShorter
  <2>8. k - 1 <= Len(before) /\ (k - 1) + 1 = k
    BY <2>3, <2>5
  <2>9. doing'.op = "room" /\ doing'.pushed = doing.pushed
    OBVIOUS
  <2>. QED
    BY <2>1, <2>2, <2>7, <2>8, <2>9 DEF PushOK
<1>6. CASE DeleteOldestElement
  <2>1. /\ doing.op = "room" /\ RemainingSize < SizeOf[doing.pushed]
        /\ doing'.op = "move" /\ doing'.index = 0 /\ doing'.pushed = doing.pushed
        /\ history' = history /\ before' = before
    BY <1>6 DEF DeleteOldestElement, BeginDeletion
  <2>2. SizeTaken(Append(history, doing.pushed)) > BufferSize /\ Len(history) > 0
    BY <2>1, NoRoom
  <2>. QED
    BY <2>1, <2>2 DEF PushOK
<1>7. CASE BeginWrite \/ WriteByte \/ RegisterElement
  <2>1. /\ doing.op \in {"room", "write"} /\ history' = history /\ before' = before
    BY <1>7 DEF BeginWrite, WriteByte, RegisterElement
  <2>2. doing'.op \in {"write", "count"} /\ doing'.pushed = doing.pushed
    <3>1. CASE BeginWrite \/ RegisterElement
      BY <3>1 DEF BeginWrite, RegisterElement
    <3>2. CASE WriteByte
      <4>1. /\ doing \in [op : {"write"}, pushed : Calculation, written : Nat]
            /\ doing' = [doing EXCEPT !.written = doing.written + 1]
        BY <3>2, DoingCases DEF WriteByte, IInv
      <4>. QED
        BY <4>1
    <3>. QED
      BY <1>7, <3>1, <3>2
  <2>3. pushing /\ doing'.op \in {"move", "room", "write", "count"} /\ doing'.op # "move"
    BY <2>1, <2>2
  <2>. QED
    BY <1>2, <2>1, <2>2, <2>3
<1>8. CASE CountElement \/ DeleteAll
  BY <1>1, <1>8 DEF CountElement, DeleteAll
<1>9. ASSUME NEW c \in Calculation, Push(c) PROVE PushOK'
  <2>1. doing = Idle /\ doing'.op = "room" /\ history' = history /\ before' = history
    BY <1>9 DEF Push
  <2>2. history \in Seq(Calculation)
    BY <2>1 DEF IInv, Holds, Idle
  <2>3. Len(history) - Len(history) + 1 = 1 /\ Len(history) <= Len(history)
        /\ ~ (Len(history) < Len(history))
    BY <2>2
  <2>4. history = Latest(history, Len(history))
    BY <2>2, <2>3, SubSeqFull DEF Latest
  <2>. QED
    BY <2>1, <2>3, <2>4 DEF PushOK
<1>10. ASSUME NEW i \in 0 .. numberOfElements - 1, DeleteCalculation(i) PROVE PushOK'
  BY <1>10 DEF DeleteCalculation, BeginDeletion, PushOK
<1>11. CASE Interrupt
  <2>1. CASE UNCHANGED <<storeVars, doing, history, before>>
    BY <2>1 DEF PushOK
  <2>. QED
    BY <1>1, <1>11, <2>1 DEF Interrupt
<1>. QED
  BY <1>4, <1>5, <1>6, <1>7, <1>8, <1>9, <1>10, <1>11 DEF Next, Operation

\* A push that ends has kept the latest calculations, as many as fit with the new one:
\* makeRoomForElement, for all sizes of the calculations, of the offsets and the buffer.
THEOREM PushKeepsMost == Spec => PushKeepsTheMost
<1>. DEFINE Kept == doing.op = "count" /\ doing'.op = "idle" /\ numberOfElements' > numberOfElements =>
       \E kept \in 0 .. Len(before) :
         LET From(k) == Append(SubSeq(before, Len(before) - k + 1, Len(before)), doing.pushed)
         IN  /\ history' = From(kept)
             /\ kept < Len(before) => SizeTaken(From(kept + 1)) > BufferSize
<1>1. Init => PushOK
  BY DEF Init, PushOK, Idle
<1>2. IInv /\ PushOK /\ [Next]_vars => PushOK'
  <2>1. CASE UNCHANGED vars
    BY <2>1 DEF vars, PushOK
  <2>. QED
    BY <2>1, PushOKStays, StoreAssumption
<1>3. IInv /\ PushOK /\ [Next]_vars => [Kept]_vars
  <2>. SUFFICES ASSUME IInv, PushOK, Next, doing.op = "count", doing'.op = "idle",
                       numberOfElements' > numberOfElements
                PROVE  Kept
    OBVIOUS
  <2>1. numberOfElements' # numberOfElements
    <3>1. PICK m, h : Holds(m, numberOfElements, h)
      BY DEF IInv, Moves
    <3>2. numberOfElements \in Nat
      BY <3>1, Placed, StoreAssumption
    <3>. QED
      BY <3>2
  <2>2. CountElement
    <3>1. ~ Operation \/ CountElement
      BY DEF Operation, MoveByte, MoveOffset, EndDeletion, DeleteOldestElement, BeginWrite,
         WriteByte, RegisterElement
    <3>2. doing # Idle
      BY DEF Idle
    <3>3. ~ Interrupt
      BY <2>1 DEF Interrupt, storeVars
    <3>. QED
      BY <3>1, <3>2, <3>3 DEF Next, Push, DeleteCalculation, DeleteAll
  <2>3. history' = Append(history, doing.pushed)
    BY <2>2 DEF CountElement
  <2>4. /\ Len(history) <= Len(before) /\ history = Latest(before, Len(history))
        /\ Len(history) < Len(before) =>
             SizeTaken(Append(Latest(before, Len(history) + 1), doing.pushed)) > BufferSize
    <3>1. doing.op \in {"room", "write", "count"}
      OBVIOUS
    <3>. QED
      BY <3>1 DEF PushOK
  <2>5. Len(history) \in 0 .. Len(before)
    <3>1. before \in Seq(Calculation) /\ history \in Seq(Calculation)
      BY DEF IInv, Holds
    <3>. QED
      BY <2>4, <3>1
  <2>. QED
    BY <2>3, <2>4, <2>5 DEF Latest
<1>. QED
  BY <1>1, <1>2, <1>3, StoreInvariance, PTL DEF Spec, PushKeepsTheMost

-----------------------------------------------------------------------------
(* The function cache.                                                       *)
(*                                                                           *)
(* A pointer to a cache may be stale in a function that waits to be drawn,   *)
(* and is worth nothing until then, or in one whose drawing was stopped,     *)
(* which leaves the cache spoiled.  Every other one is the only pointer of   *)
(* an active function to its cache, which holds this function's values.     *)

CellValue == {SignalingNan} \cup ({d.name : d \in Contents} \X {"x", "y"} \X Int)
Memo == [tMin : Int, tStep : Nat, start : Cell, cell : [Cell -> CellValue]]

GraphTypeOK ==
  /\ content \in [Function -> Contents]
  /\ domain \in [Function -> TMins \X Steps]
  /\ active \subseteq Function
  /\ cacheOf \in [Function -> Cache \cup {NoCache}]
  /\ caches \in [Cache -> Memo]
  /\ toDraw \subseteq active
  /\ drawn \in (active \ toDraw) \cup {NoFunction}
  /\ spoiled \subseteq Cache

HomeOf(f) == CacheAtIndex(IndexOf(f))

\* The functions whose cache may be read or kept
Trusted(f) ==
  cacheOf[f] \notin spoiled \cup {NoCache} /\ (f \in toDraw => cacheOf[f] = HomeOf(f))

InactiveHoldNothing == \A f \in Function \ active : cacheOf[f] = NoCache

\* What is drawn, or was not because of an interruption, has no cache but its own,
\* or one that is spoiled
DrawnAtHome ==
  \A f \in active \ toDraw :
    IndexOf(f) \in interrupted \/ Drawing =>
      cacheOf[f] \in {NoCache, HomeOf(f)} \cup spoiled

OneOwner ==
  \A f, g \in active : Trusted(f) /\ Trusted(g) /\ cacheOf[f] = cacheOf[g] => f = g

PlaneCartesian(d) == d.kind \in {"cartesian", "vertical"}

\* A cache that a function defined by d may look its points up in
FitFor(c, d) == c.tStep # 0 /\ (PlaneCartesian(d) \/ c.start = 0)

TrustedFit == \A f \in active : Trusted(f) => FitFor(caches[cacheOf[f]], content[f])

GraphInv ==
  GraphTypeOK /\ InactiveHoldNothing /\ DrawnAtHome /\ OneOwner /\ TrustedFit

Maybe(d, part, t) == {SignalingNan, <<d.name, part, t>>}

\* A cache that holds the values of a function defined by d on the domain r
TrueTo(c, d, r) ==
  /\ c.tStep \in Steps /\ ~ TooFine(c.tStep)
  /\ IF PlaneCartesian(d)
     THEN \A i \in Cell :
            c.cell[(i + c.start) % SizeOfCache] \in Maybe(d, "y", c.tMin + i * c.tStep)
     ELSE /\ r = <<c.tMin, c.tStep>>
          /\ \A i \in 0 .. SizeOfCache \div 2 - 1 :
               /\ c.cell[2 * i] \in Maybe(d, "x", c.tMin + i * c.tStep)
               /\ c.cell[2 * i + 1] \in Maybe(d, "y", c.tMin + i * c.tStep)

TrustedTrue ==
  \A f \in active : Trusted(f) => TrueTo(caches[cacheOf[f]], content[f], domain[f])

-----------------------------------------------------------------------------
(* The ring *)

\* A ring has at least two cells, and an even number of them.
LEMMA RingIsEven ==
  /\ SizeOfCache \in Nat /\ SizeOfCache > 1
  /\ SizeOfCache \div 2 \in Nat
  /\ SizeOfCache = 2 * (SizeOfCache \div 2)
<1>1. SizeOfCache \in Nat \ {0} /\ SizeOfCache % 2 = 0
  BY CacheAssumption
<1>2. QED
  BY <1>1

\* A remainder is found by one subtraction, or one addition, when it is near
LEMMA ReduceOnce ==
  ASSUME NEW b \in Nat, b > 1, NEW x \in Int, -b <= x, x < 2 * b
  PROVE  x % b = IF x < 0 THEN x + b ELSE IF x < b THEN x ELSE x - b
<1>1. CASE x < 0
  BY <1>1
<1>2. CASE x >= 0 /\ x < b
  BY <1>2
<1>3. CASE x >= b
  BY <1>3
<1>4. QED BY <1>1, <1>2, <1>3

\* The sum of a place and of an offset, brought back into a ring.
LEMMA SumReduces ==
  ASSUME NEW n \in Nat, n > 1, NEW i \in Int, NEW s \in Int, -n <= i + s, i + s < 2 * n
  PROVE  (i + s) % n = IF i + s < 0 THEN i + s + n
                       ELSE IF i + s < n THEN i + s ELSE i + s - n
<1>1. PICK x \in Int : x = i + s
  OBVIOUS
<1>2. x % n = IF x < 0 THEN x + n ELSE IF x < n THEN x ELSE x - n
  BY <1>1, ReduceOnce
<1>3. QED
  BY <1>1, <1>2

\* The cell at a place of a ring that begins anywhere.
LEMMA RingPlace ==
  ASSUME NEW i \in Cell, NEW s \in Cell
  PROVE  /\ (i + s) % SizeOfCache = IF i + s < SizeOfCache THEN i + s ELSE i + s - SizeOfCache
         /\ (i + s) % SizeOfCache \in Cell
<1>1. SizeOfCache \in Nat /\ SizeOfCache > 1
  BY RingIsEven
<1>2. i \in Int /\ s \in Int /\ 0 <= i /\ i < SizeOfCache /\ 0 <= s /\ s < SizeOfCache
  BY <1>1 DEF Cell
<1>3. i + s \in Int /\ 0 <= i + s /\ -SizeOfCache <= i + s /\ i + s < 2 * SizeOfCache
  BY <1>1, <1>2
<1>4.. (i + s) % SizeOfCache = IF i + s < 0 THEN i + s + SizeOfCache
                              ELSE IF i + s < SizeOfCache THEN i + s ELSE i + s - SizeOfCache
  BY <1>1, <1>2, <1>3, SumReduces
<1>5. (i + s) % SizeOfCache = IF i + s < SizeOfCache THEN i + s ELSE i + s - SizeOfCache
  BY <1>2, <1>3, <1>4
<1>6. (i + s) % SizeOfCache \in Cell
  BY <1>1, <1>2, <1>5 DEF Cell
<1>7. QED
  BY <1>5, <1>6

\* Where a ring begins once it has turned by less than its length.
LEMMA RingTurn ==
  ASSUME NEW s \in Cell, NEW d \in Int, d < SizeOfCache, d > -SizeOfCache
  PROVE  /\ (s + d) % SizeOfCache = IF s + d < 0 THEN s + d + SizeOfCache
                                    ELSE IF s + d < SizeOfCache THEN s + d
                                    ELSE s + d - SizeOfCache
         /\ (s + d) % SizeOfCache \in Cell
<1>1. SizeOfCache \in Nat /\ SizeOfCache > 1
  BY RingIsEven
<1>2. s \in Int /\ 0 <= s /\ s < SizeOfCache
  BY <1>1 DEF Cell
<1>3. s + d \in Int /\ -SizeOfCache <= s + d /\ s + d < 2 * SizeOfCache
  BY <1>1, <1>2
<1>4.. (s + d) % SizeOfCache = IF s + d < 0 THEN s + d + SizeOfCache
                              ELSE IF s + d < SizeOfCache THEN s + d ELSE s + d - SizeOfCache
  BY <1>1, <1>2, <1>3, SumReduces
<1>5. (s + d) % SizeOfCache \in Cell
  BY <1>1, <1>3, <1>4 DEF Cell
<1>6. QED
  BY <1>4, <1>5

\* A division without a remainder.
LEMMA DividesExactly ==
  ASSUME NEW d \in Int, NEW s \in Nat, s # 0, d % s = 0
  PROVE  d \div s \in Int /\ d = (d \div s) * s /\ (d >= 0 => d \div s >= 0)
<1>1. d \div s \in Int /\ d = (s * (d \div s)) + (d % s)
  OBVIOUS
<1>2. s * (d \div s) = (d \div s) * s
  BY <1>1
<1>3. d = (d \div s) * s
  BY <1>1, <1>2
<1>4. ASSUME d >= 0 PROVE d \div s >= 0
  BY <1>4
<1>5. QED
  BY <1>1, <1>3, <1>4

\* Going on by a number of steps.
LEMMA StepsAdd ==
  ASSUME NEW t \in Int, NEW i \in Int, NEW j \in Int, NEW s \in Int
  PROVE  t + (i + j) * s = (t + j * s) + i * s
<1>1. (i + j) * s = i * s + j * s
  OBVIOUS
<1>2. i * s \in Int /\ j * s \in Int
  OBVIOUS
<1>3. QED
  BY <1>1, <1>2

\* A parameter that hits a cell is a whole number of steps away from the start.
LEMMA Hit ==
  ASSUME NEW f, NEW c \in Memo, c.tStep # 0, NEW t \in Int,
         IndexForParameter(f, c, t) >= 0
  PROVE  \E n \in Cell :
           /\ t = c.tMin + n * c.tStep
           /\ IndexForParameter(f, c, t) = (n + c.start) % SizeOfCache
           /\ IsCartesian(f) \/ n < SizeOfCache \div 2
<1> DEFINE d == t - c.tMin
           n == d \div c.tStep
<1>1. c.tMin \in Int /\ c.tStep \in Nat /\ c.start \in Cell
  BY DEF Memo
<1>2. /\ ~ (t < c.tMin) /\ d % c.tStep = 0 /\ ~ (n >= SizeOfCache)
      /\ ~ (n >= SizeOfCache \div 2 /\ ~ IsCartesian(f))
      /\ IndexForParameter(f, c, t) = (n + c.start) % SizeOfCache
  BY DEF IndexForParameter
<1>3. d \in Int /\ d >= 0
  BY <1>1, <1>2
<1>4. n \in Int /\ d = n * c.tStep /\ n >= 0
  <2> HIDE DEF d
  <2>1. QED
    BY <1>1, <1>2, <1>3, DividesExactly
<1>5. t = c.tMin + n * c.tStep
  <2> DEFINE p == n * c.tStep
  <2>1. d = p
    BY <1>4
  <2> HIDE DEF p, n
  <2>2. t = c.tMin + p
    BY <2>1, <1>1
  <2>3. QED
    BY <2>2 DEF p
<1> HIDE DEF n, d
<1>6. n \in Cell /\ (IsCartesian(f) \/ n < SizeOfCache \div 2)
  BY <1>2, <1>4, RingIsEven DEF Cell
<1>7. QED
  BY <1>2, <1>5, <1>6

\* Two places of a ring are in two cells.
LEMMA RingPlacesApart ==
  ASSUME NEW i \in Cell, NEW j \in Cell, NEW s \in Cell,
         (i + s) % SizeOfCache = (j + s) % SizeOfCache
  PROVE  i = j
<1>1. /\ (i + s) % SizeOfCache = IF i + s < SizeOfCache THEN i + s ELSE i + s - SizeOfCache
      /\ (j + s) % SizeOfCache = IF j + s < SizeOfCache THEN j + s ELSE j + s - SizeOfCache
  BY RingPlace
<1>2. i \in 0 .. SizeOfCache - 1 /\ j \in 0 .. SizeOfCache - 1 /\ s \in 0 .. SizeOfCache - 1
  BY DEF Cell
<1>3. QED
  BY <1>1, <1>2, RingIsEven

-----------------------------------------------------------------------------
(* One cache *)

\* The functions of the two coordinates have two cells for each point.
LEMMA CellsOfPoint ==
  ASSUME NEW n \in Nat, n < SizeOfCache \div 2
  PROVE  /\ n \in Cell /\ 2 * n \in Cell /\ 2 * n + 1 \in Cell
         /\ (2 * n) % 2 = 0 /\ (2 * n + 1) % 2 = 1
<1>1. QED
  BY RingIsEven DEF Cell

\* What is computed for an empty cell is what the cell is read for.
LEMMA FillKeeps ==
  ASSUME NEW f \in Function, NEW c \in Memo, NEW t \in Int,
         content \in [Function -> Contents], FitFor(c, content[f])
  PROVE  /\ Fill(f, c, t) \in Memo
         /\ FitFor(Fill(f, c, t), content[f])
         /\ TrueTo(c, content[f], domain[f]) => TrueTo(Fill(f, c, t), content[f], domain[f])
<1> DEFINE j == IndexForParameter(f, c, t)
           new == [k \in Cell |-> IF k \in CellsOf(f, j)
                                  THEN ValueOf(f, t, PartIn(f, k)) ELSE c.cell[k]]
           filled == [c EXCEPT !.cell = new]
<1>1. Fill(f, c, t) = c \/ (j >= 0 /\ Fill(f, c, t) = filled)
  BY DEF Fill, Memo
<1>2. ASSUME j >= 0
      PROVE  /\ filled \in Memo
             /\ FitFor(filled, content[f])
             /\ TrueTo(c, content[f], domain[f]) => TrueTo(filled, content[f], domain[f])
  <2>1. \A k \in Cell : ValueOf(f, t, PartIn(f, k)) \in CellValue
    BY DEF ValueOf, PartIn, CellValue
  <2>2. new \in [Cell -> CellValue]
    BY <2>1 DEF Memo
  <2>3. /\ filled \in Memo /\ filled.cell = new /\ filled.tMin = c.tMin
        /\ filled.tStep = c.tStep /\ filled.start = c.start
    <3> HIDE DEF new
    <3>1. QED
      BY <2>2 DEF Memo
  <2>4. FitFor(filled, content[f])
    <3> HIDE DEF filled
    <3>1. QED
      BY <2>3 DEF FitFor
  <2>5. PICK n \in Cell : /\ t = c.tMin + n * c.tStep
                          /\ j = (n + c.start) % SizeOfCache
                          /\ IsCartesian(f) \/ n < SizeOfCache \div 2
    BY <1>2, Hit DEF FitFor
  <2> HIDE DEF j
  <2>6. c.start \in Cell /\ c.tMin \in Int /\ c.tStep \in Nat
    BY DEF Memo
  <2>7. ASSUME TrueTo(c, content[f], domain[f]), IsCartesian(f)
        PROVE  TrueTo(filled, content[f], domain[f])
    <3>1. ASSUME NEW i \in Cell
          PROVE  new[(i + c.start) % SizeOfCache]
                   \in Maybe(content[f], "y", c.tMin + i * c.tStep)
      <4>1. (i + c.start) % SizeOfCache \in Cell
        BY <2>6, RingPlace
      <4>2. CASE (i + c.start) % SizeOfCache = j
        <5>1. i = n
          BY <4>2, <2>5, <2>6, RingPlacesApart
        <5>2. new[(i + c.start) % SizeOfCache] = ValueOf(f, t, "y")
          BY <4>1, <4>2, <2>7 DEF CellsOf, PartIn
        <5>3. QED
          BY <5>1, <5>2, <2>5 DEF ValueOf, Maybe
      <4>3. CASE (i + c.start) % SizeOfCache # j
        <5>1. new[(i + c.start) % SizeOfCache] = c.cell[(i + c.start) % SizeOfCache]
          BY <4>1, <4>3, <2>7 DEF CellsOf
        <5>2. c.cell[(i + c.start) % SizeOfCache]
                \in Maybe(content[f], "y", c.tMin + i * c.tStep)
          BY <2>7 DEF TrueTo, IsCartesian, PlaneCartesian
        <5>3. QED
          BY <5>1, <5>2
      <4>4. QED
        BY <4>2, <4>3
    <3>2. c.tStep \in Steps /\ ~ TooFine(c.tStep)
      BY <2>7 DEF TrueTo
    <3> HIDE DEF new, filled
    <3>3. QED
      BY <2>3, <2>7, <3>1, <3>2 DEF TrueTo, IsCartesian, PlaneCartesian
  <2>8. ASSUME TrueTo(c, content[f], domain[f]), ~ IsCartesian(f)
        PROVE  TrueTo(filled, content[f], domain[f])
    <3>1. c.start = 0 /\ n \in Nat /\ n < SizeOfCache \div 2
      BY <2>5, <2>8, RingIsEven DEF FitFor, IsCartesian, PlaneCartesian, Cell
    <3>2. j = n
      <4>1. n \in 0 .. SizeOfCache - 1
        BY DEF Cell
      <4>2. j = IF n + 0 < SizeOfCache THEN n + 0 ELSE n + 0 - SizeOfCache
        BY <2>5, <2>6, <3>1, RingPlace
      <4>3. QED
        BY <4>1, <4>2, RingIsEven
    <3>3. ASSUME NEW i \in 0 .. SizeOfCache \div 2 - 1
          PROVE  /\ new[2 * i] \in Maybe(content[f], "x", c.tMin + i * c.tStep)
                 /\ new[2 * i + 1] \in Maybe(content[f], "y", c.tMin + i * c.tStep)
      <4>1. i \in Nat /\ i < SizeOfCache \div 2
        BY RingIsEven
      <4>2. 2 * i \in Cell /\ 2 * i + 1 \in Cell /\ (2 * i) % 2 = 0 /\ (2 * i + 1) % 2 = 1
        BY <4>1, CellsOfPoint
      <4>3. /\ c.cell[2 * i] \in Maybe(content[f], "x", c.tMin + i * c.tStep)
            /\ c.cell[2 * i + 1] \in Maybe(content[f], "y", c.tMin + i * c.tStep)
        BY <2>8 DEF TrueTo, IsCartesian, PlaneCartesian
      <4>4. CASE i = n
        <5>1. 2 * i \in CellsOf(f, j) /\ 2 * i + 1 \in CellsOf(f, j)
          BY <4>4, <3>2, <2>8 DEF CellsOf
        <5>2. PartIn(f, 2 * i) = "x" /\ PartIn(f, 2 * i + 1) = "y"
          BY <4>2, <2>8 DEF PartIn
        <5>3. new[2 * i] = ValueOf(f, t, "x") /\ new[2 * i + 1] = ValueOf(f, t, "y")
          BY <5>1, <5>2, <4>2
        <5>4. QED
          BY <5>3, <4>4, <2>5 DEF ValueOf, Maybe
      <4>5. CASE i # n
        <5>1. 2 * i \notin {2 * n, 2 * n + 1} /\ 2 * i + 1 \notin {2 * n, 2 * n + 1}
          BY <4>1, <4>5, <3>1
        <5>2. new[2 * i] = c.cell[2 * i] /\ new[2 * i + 1] = c.cell[2 * i + 1]
          BY <5>1, <4>2, <3>2, <2>8 DEF CellsOf
        <5>3. QED
          BY <5>2, <4>3
      <4>6. QED
        BY <4>4, <4>5
    <3>4. c.tStep \in Steps /\ ~ TooFine(c.tStep) /\ domain[f] = <<c.tMin, c.tStep>>
      BY <2>8 DEF TrueTo, IsCartesian, PlaneCartesian
    <3> HIDE DEF new, filled
    <3>5. QED
      BY <2>3, <2>8, <3>3, <3>4 DEF TrueTo, IsCartesian, PlaneCartesian
  <2>9. QED
    BY <2>3, <2>4, <2>7, <2>8
<1> HIDE DEF filled, j
<1>3. QED
  BY <1>1, <1>2

\* A value that is found is the one that was asked for.
LEMMA FoundIsTrue ==
  ASSUME NEW f, NEW c \in Memo, NEW t \in Int, FitFor(c, content[f]),
         TrueTo(c, content[f], domain[f]), IndexForParameter(f, c, t) >= 0,
         NEW k \in CellsOf(f, IndexForParameter(f, c, t))
  PROVE  c.cell[k] \in {SignalingNan, ValueOf(f, t, PartIn(f, k))}
<1> DEFINE j == IndexForParameter(f, c, t)
<1>1. PICK n \in Cell : /\ t = c.tMin + n * c.tStep
                        /\ j = (n + c.start) % SizeOfCache
                        /\ IsCartesian(f) \/ n < SizeOfCache \div 2
  BY Hit DEF FitFor
<1>2. k \in CellsOf(f, j)
  OBVIOUS
<1> HIDE DEF j
<1>3. CASE IsCartesian(f)
  <2>1. k = j /\ PartIn(f, k) = "y"
    BY <1>2, <1>3 DEF CellsOf, PartIn
  <2>2. c.cell[j] \in Maybe(content[f], "y", c.tMin + n * c.tStep)
    BY <1>1, <1>3 DEF TrueTo, IsCartesian, PlaneCartesian
  <2>3. QED
    BY <1>1, <2>1, <2>2 DEF Maybe, ValueOf
<1>4. CASE ~ IsCartesian(f)
  <2>1. c.start = 0 /\ n \in Nat /\ n < SizeOfCache \div 2
    BY <1>1, <1>4, RingIsEven DEF FitFor, IsCartesian, PlaneCartesian, Cell
  <2>2. j = n
    <3>1. n \in 0 .. SizeOfCache - 1 /\ c.start \in Cell
      BY DEF Cell, Memo
    <3>2. j = IF n + 0 < SizeOfCache THEN n + 0 ELSE n + 0 - SizeOfCache
      BY <1>1, <2>1, <3>1, RingPlace
    <3>3. QED
      BY <3>1, <3>2, RingIsEven
  <2>3. n \in 0 .. SizeOfCache \div 2 - 1
    BY <2>1, RingIsEven
  <2>4. /\ c.cell[2 * n] \in Maybe(content[f], "x", c.tMin + n * c.tStep)
        /\ c.cell[2 * n + 1] \in Maybe(content[f], "y", c.tMin + n * c.tStep)
    BY <1>4, <2>3 DEF TrueTo, IsCartesian, PlaneCartesian
  <2>5. k = 2 * n \/ k = 2 * n + 1
    BY <1>2, <1>4, <2>2 DEF CellsOf
  <2>6. PartIn(f, 2 * n) = "x" /\ PartIn(f, 2 * n + 1) = "y"
    BY <1>4, <2>1, CellsOfPoint DEF PartIn
  <2>7. QED
    BY <1>1, <2>4, <2>5, <2>6 DEF Maybe, ValueOf
<1>5. QED
  BY <1>3, <1>4

\* Clearing leaves a cache without a value and a ring that begins at its start.
LEMMA ClearIsEmpty ==
  ASSUME NEW c \in Memo
  PROVE  /\ Clear(c) \in Memo /\ Clear(c).start = 0
         /\ \A k \in Cell : Clear(c).cell[k] = SignalingNan
<1>1. 0 \in Cell
  BY RingIsEven DEF Cell
<1>2. [k \in Cell |-> SignalingNan] \in [Cell -> CellValue]
  BY DEF CellValue
<1>3. QED
  BY <1>1, <1>2 DEF Clear, Memo

LEMMA RangeIsSet ==
  ASSUME NEW c \in Memo, NEW tMin \in Int, NEW tStep \in Nat
  PROVE  /\ SetRange(c, tMin, tStep) \in Memo
         /\ SetRange(c, tMin, tStep).tMin = tMin /\ SetRange(c, tMin, tStep).tStep = tStep
         /\ SetRange(c, tMin, tStep).start = c.start /\ SetRange(c, tMin, tStep).cell = c.cell
<1>1. QED
  BY DEF SetRange, Memo

\* A cache without a value is true to any function, in the range it is given.
LEMMA EmptyIsTrue ==
  ASSUME NEW c \in Memo, \A k \in Cell : c.cell[k] = SignalingNan,
         NEW tMin \in Int, NEW tStep \in Steps, ~ TooFine(tStep),
         NEW d, NEW r, PlaneCartesian(d) \/ r = <<tMin, tStep>>
  PROVE  TrueTo(SetRange(c, tMin, tStep), d, r)
<1> DEFINE new == SetRange(c, tMin, tStep)
<1>1. tStep \in Nat
  BY CacheAssumption
<1>2. new.tMin = tMin /\ new.tStep = tStep /\ new.start \in Cell /\ new.cell = c.cell
  BY <1>1, RangeIsSet DEF Memo
<1> HIDE DEF new
<1>3. ASSUME NEW i \in Cell
      PROVE  new.cell[(i + new.start) % SizeOfCache] \in Maybe(d, "y", new.tMin + i * new.tStep)
  BY <1>2, RingPlace DEF Maybe
<1>4. ASSUME NEW i \in 0 .. SizeOfCache \div 2 - 1
      PROVE  /\ new.cell[2 * i] \in Maybe(d, "x", new.tMin + i * new.tStep)
             /\ new.cell[2 * i + 1] \in Maybe(d, "y", new.tMin + i * new.tStep)
  <2>1. i \in Nat /\ i < SizeOfCache \div 2
    BY RingIsEven
  <2>2. 2 * i \in Cell /\ 2 * i + 1 \in Cell
    BY <2>1, CellsOfPoint
  <2>3. QED
    BY <1>2, <2>2 DEF Maybe
<1>5. TrueTo(new, d, r)
  BY <1>2, <1>3, <1>4 DEF TrueTo
<1>6. QED
  BY <1>5 DEF new

\* A cell that does not leave the window when the ring turns is that of the same
\* parameter before and after.
LEMMA RingShift ==
  ASSUME NEW i \in Cell, NEW old \in Cell,
         NEW d \in Int, d # 0, d < SizeOfCache, d > -SizeOfCache,
         NEW new, new = (old + d) % SizeOfCache,
         (i + new) % SizeOfCache \notin LeftBehind(old, new, d)
  PROVE  i + d \in Cell /\ ((i + d) + old) % SizeOfCache = (i + new) % SizeOfCache
<1> DEFINE m == (i + new) % SizeOfCache
<1>1. /\ new = IF old + d < 0 THEN old + d + SizeOfCache
               ELSE IF old + d < SizeOfCache THEN old + d ELSE old + d - SizeOfCache
      /\ new \in Cell
  BY RingTurn
<1>2. m = (IF i + new < SizeOfCache THEN i + new ELSE i + new - SizeOfCache) /\ m \in Cell
  BY <1>1, RingPlace
<1>3. m \notin LeftBehind(old, new, d)
  OBVIOUS
<1> HIDE DEF m
<1>4. /\ i \in Int /\ old \in Int /\ new \in Int /\ m \in Int
      /\ 0 <= i /\ i < SizeOfCache /\ 0 <= old /\ old < SizeOfCache
      /\ 0 <= new /\ new < SizeOfCache /\ 0 <= m /\ m < SizeOfCache
  BY <1>1, <1>2, RingIsEven DEF Cell
<1>5. CASE d > 0
  <2>1. new > old => ~ (old <= m /\ m < new)
    BY <1>3, <1>4, <1>5, RingIsEven DEF LeftBehind
  <2>2. ~ (new > old) => m < old /\ m >= new
    BY <1>3, <1>4, <1>5, RingIsEven DEF LeftBehind
  <2>3. 0 <= i + d /\ i + d < SizeOfCache /\ (m = i + d + old \/ m = i + d + old - SizeOfCache)
    BY <1>1, <1>2, <1>4, <1>5, <2>1, <2>2, RingIsEven
  <2>4. i + d \in Cell
    BY <1>4, <2>3, RingIsEven DEF Cell
  <2>5. ((i + d) + old) % SizeOfCache = m
    <3>1. PICK j \in Cell : j = i + d
      BY <2>4
    <3>2. (j + old) % SizeOfCache = IF j + old < SizeOfCache THEN j + old
                                     ELSE j + old - SizeOfCache
      BY RingPlace
    <3>3. j + old = (i + d) + old /\ (m = j + old \/ m = j + old - SizeOfCache)
      BY <2>3, <3>1, <1>4
    <3>4. (j + old) % SizeOfCache = m
      BY <1>4, <3>2, <3>3, RingIsEven
    <3>5. QED
      BY <3>1, <3>4
  <2>6. QED
    BY <2>4, <2>5 DEF m
<1>6. CASE d < 0
  <2>1. new > old => m < new /\ m >= old
    BY <1>3, <1>4, <1>6, RingIsEven DEF LeftBehind
  <2>2. ~ (new > old) => ~ (new <= m /\ m < old)
    BY <1>3, <1>4, <1>6, RingIsEven DEF LeftBehind
  <2>3. 0 <= i + d /\ i + d < SizeOfCache /\ (m = i + d + old \/ m = i + d + old - SizeOfCache)
    BY <1>1, <1>2, <1>4, <1>6, <2>1, <2>2, RingIsEven
  <2>4. i + d \in Cell
    BY <1>4, <2>3, RingIsEven DEF Cell
  <2>5. ((i + d) + old) % SizeOfCache = m
    <3>1. PICK j \in Cell : j = i + d
      BY <2>4
    <3>2. (j + old) % SizeOfCache = IF j + old < SizeOfCache THEN j + old
                                     ELSE j + old - SizeOfCache
      BY RingPlace
    <3>3. j + old = (i + d) + old /\ (m = j + old \/ m = j + old - SizeOfCache)
      BY <2>3, <3>1, <1>4
    <3>4. (j + old) % SizeOfCache = m
      BY <1>4, <3>2, <3>3, RingIsEven
    <3>5. QED
      BY <3>1, <3>4
  <2>6. QED
    BY <2>4, <2>5 DEF m
<1>7. QED
  BY <1>5, <1>6

\* A cache that is panned holds the values of its function in the new window.
LEMMA PanKeeps ==
  ASSUME NEW c \in Memo, c.tStep # 0, NEW tMin \in Int
  PROVE  /\ Pan(c, tMin) \in Memo
         /\ \A d, r : PlaneCartesian(d) /\ TrueTo(c, d, r) =>
              TrueTo(SetRange(Pan(c, tMin), tMin, c.tStep), d, r)
<1> DEFINE delta == tMin - c.tMin
           dI == delta \div c.tStep
           start == (c.start + dI) % SizeOfCache
           moved == [c EXCEPT !.tMin = tMin]
           cells == [i \in Cell |-> IF i \in LeftBehind(c.start, start, dI)
                                    THEN SignalingNan ELSE c.cell[i]]
           panned == [moved EXCEPT !.start = start, !.cell = cells]
           jumps == delta % c.tStep # 0 \/ dI >= SizeOfCache \/ dI <= -SizeOfCache
<1>1. /\ c.tMin \in Int /\ c.tStep \in Nat /\ c.start \in Cell /\ c.cell \in [Cell -> CellValue]
      /\ delta \in Int /\ moved \in Memo
  BY DEF Memo
<1>2. Pan(c, tMin) = IF delta = 0 THEN c ELSE IF jumps THEN Clear(moved) ELSE panned
  <2>1. CASE delta = 0
    BY <2>1 DEF Pan
  <2>2. CASE delta # 0 /\ jumps
    BY <2>2 DEF Pan
  <2>3. CASE delta # 0 /\ ~ jumps
    BY <2>3 DEF Pan
  <2>4. QED
    BY <2>1, <2>2, <2>3
<1>3. CASE delta = 0
  <2>1. tMin = c.tMin
    BY <1>1, <1>3
  <2>2. Pan(c, tMin) = c
    BY <1>2, <1>3
  <2>3. SetRange(c, tMin, c.tStep) = c
    BY <2>1 DEF SetRange, Memo
  <2>4. QED
    BY <2>2, <2>3
<1>4. CASE delta # 0 /\ jumps
  <2>1. Pan(c, tMin) = Clear(moved)
    BY <1>2, <1>4
  <2> HIDE DEF moved, jumps, delta
  <2>2. Clear(moved) \in Memo /\ \A k \in Cell : Clear(moved).cell[k] = SignalingNan
    BY <1>1, ClearIsEmpty
  <2>3. ASSUME NEW d, NEW r, PlaneCartesian(d), TrueTo(c, d, r)
        PROVE  TrueTo(SetRange(Clear(moved), tMin, c.tStep), d, r)
    <3>1. c.tStep \in Steps /\ ~ TooFine(c.tStep)
      BY <2>3 DEF TrueTo
    <3>2. QED
      BY <2>2, <2>3, <3>1, EmptyIsTrue
  <2>4. QED
    BY <2>1, <2>2, <2>3
<1>5. CASE delta # 0 /\ ~ jumps
  <2>1. Pan(c, tMin) = panned
    BY <1>2, <1>5
  <2>2. delta % c.tStep = 0 /\ dI < SizeOfCache /\ dI > -SizeOfCache /\ dI \in Int
    <3>1. delta % c.tStep = 0
      BY <1>5
    <3>2. dI \in Int
      <4> HIDE DEF delta
      <4>1. QED
        BY <1>1, <3>1, DividesExactly
    <3>3. ~ (dI >= SizeOfCache) /\ ~ (dI <= -SizeOfCache)
      BY <1>5
    <3> HIDE DEF dI, delta
    <3>4. QED
      BY <3>1, <3>2, <3>3, RingIsEven
  <2>3. delta = dI * c.tStep
    <3> HIDE DEF delta
    <3>1. QED
      BY <1>1, <2>2, DividesExactly
  <2>4. dI # 0
    <3>1. delta # 0 /\ 0 * c.tStep = 0
      BY <1>5, <1>1
    <3> HIDE DEF delta, dI
    <3>2. QED
      BY <2>3, <3>1
  <2>5. tMin = c.tMin + dI * c.tStep
    <3> DEFINE p == dI * c.tStep
    <3>1. tMin - c.tMin = p
      BY <2>3
    <3> HIDE DEF p, dI
    <3>2. tMin = c.tMin + p
      BY <3>1, <1>1
    <3>3. QED
      BY <3>2 DEF p
  <2> HIDE DEF delta, jumps, dI
  <2>6. start \in Cell
    BY <1>1, <2>2, RingTurn
  <2>7. cells \in [Cell -> CellValue]
    <3>1. SignalingNan \in CellValue
      BY DEF CellValue
    <3> HIDE DEF start
    <3>2. QED
      BY <3>1, <1>1
  <2>8. panned \in Memo /\ panned.start = start /\ panned.cell = cells
    <3> HIDE DEF start, cells
    <3>1. QED
      BY <1>1, <2>6, <2>7 DEF Memo
  <2>9. ASSUME NEW d, NEW r, PlaneCartesian(d), TrueTo(c, d, r)
        PROVE  TrueTo(SetRange(panned, tMin, c.tStep), d, r)
    <3> DEFINE new == SetRange(panned, tMin, c.tStep)
    <3>1. new.tMin = tMin /\ new.tStep = c.tStep /\ new.start = start /\ new.cell = cells
      <4> HIDE DEF panned, start, cells
      <4>1. QED
        BY <1>1, <2>8, RangeIsSet
    <3>2. ASSUME NEW i \in Cell
          PROVE  cells[(i + start) % SizeOfCache] \in Maybe(d, "y", tMin + i * c.tStep)
      <4> DEFINE m == (i + start) % SizeOfCache
      <4>1. m \in Cell
        <5> HIDE DEF start
        <5>1. QED
          BY <2>6, RingPlace
      <4>2. CASE m \in LeftBehind(c.start, start, dI)
        <5>1. cells[m] = SignalingNan
          <6> HIDE DEF m, start
          <6>1. QED
            BY <4>1, <4>2
        <5>2. QED
          BY <5>1 DEF Maybe
      <4>3. CASE m \notin LeftBehind(c.start, start, dI)
        <5>1. i + dI \in Cell /\ ((i + dI) + c.start) % SizeOfCache = m
          BY <1>1, <2>2, <2>4, <4>3, RingShift
        <5>2. cells[m] = c.cell[m]
          <6> HIDE DEF m, start
          <6>1. QED
            BY <4>1, <4>3
        <5>3. c.cell[((i + dI) + c.start) % SizeOfCache]
                \in Maybe(d, "y", c.tMin + (i + dI) * c.tStep)
          BY <5>1, <2>9 DEF TrueTo
        <5>4. c.tMin + (i + dI) * c.tStep = tMin + i * c.tStep
          <6>1. i \in Int
            BY RingIsEven DEF Cell
          <6>2. c.tMin + (i + dI) * c.tStep = (c.tMin + dI * c.tStep) + i * c.tStep
            BY <1>1, <2>2, <6>1, StepsAdd
          <6>3. QED
            BY <6>2, <2>5
        <5> HIDE DEF m
        <5>5. QED
          BY <5>1, <5>2, <5>3, <5>4 DEF m
      <4>4. QED
        BY <4>2, <4>3
    <3>3. c.tStep \in Steps /\ ~ TooFine(c.tStep)
      BY <2>9 DEF TrueTo
    <3> HIDE DEF new, cells, start
    <3>4. QED
      BY <2>9, <3>1, <3>2, <3>3 DEF TrueTo, new
  <2> HIDE DEF panned
  <2>10. QED
    BY <2>1, <2>8, <2>9
<1>6. QED
  BY <1>3, <1>4, <1>5

\* A function that gets a cache to be drawn finds in it its own values only.
LEMMA PreparedKeeps ==
  ASSUME NEW f \in Function, NEW k \in Cache, GraphTypeOK,
         NEW tMin \in Int, NEW tStep \in Steps, ~ TooFine(tStep),
         IsCartesian(f) \/ domain[f] = <<tMin, tStep>>,
         ~ Clears(f, k, tStep) => FitFor(caches[k], content[f])
  PROVE  LET new == SetRange(Prepared(f, k, tMin, tStep), tMin, tStep)
         IN  /\ new \in Memo /\ FitFor(new, content[f])
             /\ /\ StepsAreApart
                /\ ~ Clears(f, k, tStep) => TrueTo(caches[k], content[f], domain[f])
                => TrueTo(new, content[f], domain[f])
<1> DEFINE c == caches[k]
           prepared == Prepared(f, k, tMin, tStep)
           new == SetRange(prepared, tMin, tStep)
<1>1. c \in Memo
  BY DEF GraphTypeOK
<1>2. tStep \in Nat /\ tStep # 0 /\ Steps \subseteq Nat
  BY CacheAssumption
<1>3. /\ Clear(c) \in Memo /\ Clear(c).start = 0
      /\ \A i \in Cell : Clear(c).cell[i] = SignalingNan
  BY <1>1, ClearIsEmpty
<1>4. IsCartesian(f) <=> PlaneCartesian(content[f])
  BY DEF IsCartesian, PlaneCartesian
<1> HIDE DEF c
<1>5. CASE prepared = Clear(c)
  <2>1. new \in Memo /\ new.tStep = tStep /\ new.start = 0
    BY <1>2, <1>3, <1>5, RangeIsSet
  <2>2. FitFor(new, content[f])
    BY <1>2, <2>1 DEF FitFor
  <2>3. TrueTo(new, content[f], domain[f])
    BY <1>3, <1>4, <1>5, EmptyIsTrue
  <2>4. QED
    BY <2>1, <2>2, <2>3
<1>6. CASE ~ Clears(f, k, tStep)
  <2>1. FitFor(c, content[f])
    BY <1>6 DEF c
  <2>2. ASSUME StepsAreApart, TrueTo(c, content[f], domain[f])
        PROVE  tStep = c.tStep
    <3>1. c.tStep \in Steps /\ ~ TooFine(c.tStep)
      BY <2>2 DEF TrueTo
    <3>2. tStep = c.tStep \/ tStep > c.tStep + Tolerance \/ c.tStep > tStep + Tolerance
      BY <2>2, <3>1 DEF StepsAreApart
    <3>3. ~ (tStep > c.tStep + Tolerance) /\ ~ (tStep < c.tStep - Tolerance)
      BY <1>6 DEF Clears, OtherStep, c
    <3>4. tStep \in Int /\ c.tStep \in Int /\ Tolerance \in Int
      <4>1. \A s \in Steps : s \in Int
        BY <1>2
      <4>2. QED
        BY <3>1, <4>1 DEF Tolerance
    <3> HIDE DEF Tolerance
    <3>5. QED
      BY <3>2, <3>3, <3>4
  <2>3. CASE IsCartesian(f)
    <3>1. prepared = Pan(c, tMin)
      BY <1>6, <2>3 DEF Prepared, c
    <3>2. c.tStep # 0
      BY <2>1 DEF FitFor
    <3>3. Pan(c, tMin) \in Memo
      BY <1>1, <3>2, PanKeeps
    <3>4. new \in Memo /\ new.tStep = tStep
      BY <1>2, <3>1, <3>3, RangeIsSet
    <3>5. FitFor(new, content[f])
      BY <1>2, <1>4, <2>3, <3>4 DEF FitFor
    <3>6. ASSUME StepsAreApart, TrueTo(c, content[f], domain[f])
          PROVE  TrueTo(new, content[f], domain[f])
      <4>1. tStep = c.tStep
        BY <2>2, <3>6
      <4>2. TrueTo(SetRange(Pan(c, tMin), tMin, c.tStep), content[f], domain[f])
        BY <1>1, <1>4, <2>3, <3>2, <3>6, PanKeeps
      <4>3. QED
        BY <3>1, <4>1, <4>2
    <3>7. QED
      BY <1>6, <3>4, <3>5, <3>6 DEF c
  <2>4. CASE ~ IsCartesian(f)
    <3>1. prepared = c
      BY <1>6, <2>4 DEF Prepared, c
    <3>2. c.start = 0
      BY <1>4, <2>1, <2>4 DEF FitFor
    <3>3. new \in Memo /\ new.tStep = tStep /\ new.start = 0
      BY <1>1, <1>2, <3>1, <3>2, RangeIsSet
    <3>4. FitFor(new, content[f])
      BY <1>2, <3>3 DEF FitFor
    <3>5. ASSUME StepsAreApart, TrueTo(c, content[f], domain[f])
          PROVE  TrueTo(new, content[f], domain[f])
      <4>1. domain[f] = <<c.tMin, c.tStep>> /\ domain[f] = <<tMin, tStep>>
        BY <1>4, <2>4, <3>5 DEF TrueTo
      <4>2. c.tMin = tMin /\ c.tStep = tStep
        BY <4>1
      <4>3. new = c
        BY <1>1, <3>1, <4>2 DEF SetRange, Memo
      <4>4. QED
        BY <3>5, <4>3
    <3>6. QED
      BY <1>6, <3>3, <3>4, <3>5 DEF c
  <2>5. QED
    BY <2>3, <2>4
<1>7. prepared = Clear(c) \/ ~ Clears(f, k, tStep)
  BY DEF Prepared, c
<1> HIDE DEF prepared
<1>8. QED
  BY <1>5, <1>6, <1>7 DEF prepared

\* Whatever is left of a cache when it is cleared or panned is a cache still.
LEMMA PartlyClearedIsMemo ==
  ASSUME NEW c \in Memo
  PROVE  PartlyCleared(c) \subseteq Memo
<1>1. 0 \in Cell /\ SignalingNan \in CellValue
  BY RingIsEven DEF Cell, CellValue
<1>2. [c EXCEPT !.start = 0] \in Memo
  BY <1>1 DEF Memo
<1>3. ASSUME NEW n \in 0 .. SizeOfCache
      PROVE  ClearedUpTo(c, n) \in Memo
  <2> DEFINE cells == [i \in Cell |-> IF i < n THEN SignalingNan ELSE c.cell[i]]
  <2>1. cells \in [Cell -> CellValue]
    BY <1>1 DEF Memo
  <2>2. ClearedUpTo(c, n) = [c EXCEPT !.start = 0, !.tStep = 0, !.cell = cells]
    BY DEF ClearedUpTo
  <2> HIDE DEF cells
  <2>3. 0 \in Nat
    OBVIOUS
  <2>4. QED
    BY <1>1, <2>1, <2>2, <2>3 DEF Memo
<1>4. QED
  BY <1>2, <1>3 DEF PartlyCleared

LEMMA PartlyPannedIsMemo ==
  ASSUME NEW c \in Memo, c.tStep # 0, NEW tMin \in Int
  PROVE  PartlyPanned(c, tMin) \subseteq Memo
<1> DEFINE d == tMin - c.tMin
           dI == d \div c.tStep
           start == (c.start + dI) % SizeOfCache
           first == IF dI > 0 THEN c.start ELSE start
           moved == [c EXCEPT !.tMin = tMin]
<1>1. moved \in Memo /\ c.start \in Int /\ SizeOfCache \in Nat \ {0}
  BY CacheAssumption DEF Memo, Cell
<1>2. start \in Cell
  <2>1. d \in Int /\ c.tStep \in Nat \ {0}
    BY DEF Memo
  <2>2. dI \in Int
    <3> HIDE DEF d
    <3>1. QED
      BY <2>1
  <2> HIDE DEF dI
  <2>3. c.start + dI \in Int
    BY <1>1, <2>2
  <2>4. QED
    BY <1>1, <2>3 DEF Cell
<1>3. ASSUME NEW n \in Cell
      PROVE  PannedUpTo(c, tMin, n) \in Memo
  <2> DEFINE cells == [i \in Cell |-> IF /\ i \in LeftBehind(c.start, start, dI)
                                         /\ (i - first) % SizeOfCache < n
                                      THEN SignalingNan ELSE c.cell[i]]
  <2>1. cells \in [Cell -> CellValue]
    <3> HIDE DEF start, first, dI
    <3>1. QED
      BY DEF Memo, CellValue
  <2>2. PannedUpTo(c, tMin, n) = [c EXCEPT !.tMin = tMin, !.start = start, !.cell = cells]
    BY DEF PannedUpTo
  <2> HIDE DEF cells, start
  <2>3. QED
    BY <1>2, <2>1, <2>2 DEF Memo
<1>4. PartlyCleared(moved) \subseteq Memo
  BY <1>1, PartlyClearedIsMemo
<1>5. PartlyPanned(c, tMin) \subseteq {c, moved} \cup PartlyCleared(moved)
                                       \cup {PannedUpTo(c, tMin, n) : n \in Cell}
  BY DEF PartlyPanned
<1> HIDE DEF d, moved
<1>6. QED
  BY <1>1, <1>3, <1>4, <1>5

\* A cache that is not cleared for a step that is cached has a step.
LEMMA KeptHasStep ==
  ASSUME NEW f, NEW k \in Cache, caches[k] \in Memo, NEW tStep \in Steps,
         ~ TooFine(tStep), ~ Clears(f, k, tStep)
  PROVE  caches[k].tStep # 0
<1>1. tStep \in Nat /\ ~ (tStep < 3)
  BY CacheAssumption DEF TooFine, Tolerance
<1>2. ~ (tStep > caches[k].tStep + 1)
  BY DEF Clears, OtherStep, Tolerance
<1>3. caches[k].tStep \in Nat
  BY DEF Memo
<1>4. QED
  BY <1>1, <1>2, <1>3

LEMMA PreparedIsMemo ==
  ASSUME NEW f, NEW k \in Cache, caches[k] \in Memo,
         NEW tMin \in Int, NEW tStep \in Steps, ~ TooFine(tStep)
  PROVE  /\ Prepared(f, k, tMin, tStep) \in Memo
         /\ PartlyPrepared(f, k, tMin, tStep) \subseteq Memo
<1>1. CASE Clears(f, k, tStep)
  BY <1>1, ClearIsEmpty, PartlyClearedIsMemo DEF Prepared, PartlyPrepared
<1>2. CASE ~ Clears(f, k, tStep)
  <2>1. caches[k].tStep # 0
    BY <1>2, KeptHasStep
  <2>2. Pan(caches[k], tMin) \in Memo /\ PartlyPanned(caches[k], tMin) \subseteq Memo
    BY <2>1, PanKeeps, PartlyPannedIsMemo
  <2>3. QED
    BY <1>2, <2>2 DEF Prepared, PartlyPrepared
<1>3. QED
  BY <1>1, <1>2

\* A stop leaves the function with its old pointer or with the cache of its place,
\* which is the only one that may have changed.
LEMMA StopPreparingLeaves ==
  ASSUME NEW f \in Function, NEW k \in Cache \cup {NoCache}, GraphTypeOK,
         NEW tMin \in Int, NEW tStep \in Steps, StopPreparing(f, k, tMin, tStep)
  PROVE  /\ cacheOf' \in [Function -> Cache \cup {NoCache}]
         /\ caches' \in [Cache -> Memo]
         /\ \A g \in Function : g # f => cacheOf'[g] = cacheOf[g]
         /\ \A j \in Cache : j # k => caches'[j] = caches[j]
<1>1. k \in Cache /\ ~ TooFine(tStep)
  BY DEF StopPreparing, Uncached
<1>2. caches \in [Cache -> Memo] /\ cacheOf \in [Function -> Cache \cup {NoCache}]
  BY DEF GraphTypeOK
<1>3. /\ Prepared(f, k, tMin, tStep) \in Memo
      /\ PartlyPrepared(f, k, tMin, tStep) \subseteq Memo
  BY <1>1, <1>2, PreparedIsMemo
<1>4. CASE /\ cacheOf' = cacheOf
           /\ \E c \in PartlyPrepared(f, k, tMin, tStep) : caches' = [caches EXCEPT ![k] = c]
  BY <1>1, <1>2, <1>3, <1>4
<1>5. CASE /\ cacheOf' = [cacheOf EXCEPT ![f] = k]
           /\ LET c == Prepared(f, k, tMin, tStep)
              IN  \E t \in {c.tMin, tMin} : caches' = [caches EXCEPT ![k] = [c EXCEPT !.tMin = t]]
  <2> DEFINE c == Prepared(f, k, tMin, tStep)
  <2>1. PICK t \in {c.tMin, tMin} : caches' = [caches EXCEPT ![k] = [c EXCEPT !.tMin = t]]
    BY <1>5
  <2>2. c \in Memo
    BY <1>3
  <2> HIDE DEF c
  <2>3. [c EXCEPT !.tMin = t] \in Memo
    BY <2>2 DEF Memo
  <2>4. QED
    BY <1>1, <1>2, <1>5, <2>1, <2>3
<1>6. QED
  BY <1>4, <1>5 DEF StopPreparing

\* A point whose ordinate is not stored is as good as one that is.
LEMMA PartlyFilledKeeps ==
  ASSUME NEW f \in Function, NEW c \in Memo, NEW t \in Int,
         content \in [Function -> Contents], FitFor(c, content[f])
  PROVE  /\ PartlyFilled(f, c, t) \in Memo
         /\ FitFor(PartlyFilled(f, c, t), content[f])
         /\ TrueTo(c, content[f], domain[f]) =>
              TrueTo(PartlyFilled(f, c, t), content[f], domain[f])
<1> DEFINE full == Fill(f, c, t)
           cells == [k \in Cell |-> IF PartIn(f, k) = "x" THEN full.cell[k] ELSE c.cell[k]]
           part == PartlyFilled(f, c, t)
<1>1. /\ full \in Memo
      /\ TrueTo(c, content[f], domain[f]) => TrueTo(full, content[f], domain[f])
  BY FillKeeps
<1>2. full.tMin = c.tMin /\ full.tStep = c.tStep /\ full.start = c.start
  BY DEF Fill, Memo
<1>3. c.cell \in [Cell -> CellValue] /\ full.cell \in [Cell -> CellValue] /\ c.start \in Cell
  BY <1>1 DEF Memo
<1> HIDE DEF full
<1>4. cells \in [Cell -> CellValue]
  BY <1>3
<1>5. \A k \in Cell : cells[k] \in {c.cell[k], full.cell[k]}
  OBVIOUS
<1>6. part = [c EXCEPT !.cell = cells]
  BY DEF PartlyFilled, full, Memo
<1> HIDE DEF cells, part
<1>7. /\ part \in Memo /\ part.tMin = c.tMin /\ part.tStep = c.tStep /\ part.start = c.start
      /\ part.cell = cells
  BY <1>4, <1>6 DEF Memo
<1>8. FitFor(part, content[f])
  BY <1>7 DEF FitFor
<1>9. ASSUME TrueTo(c, content[f], domain[f])
      PROVE  TrueTo(part, content[f], domain[f])
  <2>1. TrueTo(full, content[f], domain[f])
    BY <1>1, <1>9
  <2>2. ASSUME PlaneCartesian(content[f]), NEW i \in Cell
        PROVE  part.cell[(i + part.start) % SizeOfCache]
                 \in Maybe(content[f], "y", part.tMin + i * part.tStep)
    <3> DEFINE m == (i + c.start) % SizeOfCache
               v == Maybe(content[f], "y", c.tMin + i * c.tStep)
    <3>1. m \in Cell
      BY <1>3, RingPlace
    <3>2. c.cell[m] \in v
      BY <1>9, <2>2 DEF TrueTo
    <3>3. full.cell[m] \in v
      BY <1>2, <2>1, <2>2 DEF TrueTo
    <3> HIDE DEF m, v
    <3>4. part.cell[m] \in v
      BY <1>5, <1>7, <3>1, <3>2, <3>3
    <3>5. QED
      BY <1>7, <3>4 DEF m, v
  <2>3. ASSUME ~ PlaneCartesian(content[f]), NEW i \in 0 .. SizeOfCache \div 2 - 1
        PROVE  /\ part.cell[2 * i] \in Maybe(content[f], "x", part.tMin + i * part.tStep)
               /\ part.cell[2 * i + 1] \in Maybe(content[f], "y", part.tMin + i * part.tStep)
    <3> DEFINE t1 == c.tMin + i * c.tStep
    <3>1. i \in Nat /\ i < SizeOfCache \div 2
      BY RingIsEven
    <3>2. 2 * i \in Cell /\ 2 * i + 1 \in Cell
      BY <3>1, CellsOfPoint
    <3>3. /\ c.cell[2 * i] \in Maybe(content[f], "x", t1)
          /\ c.cell[2 * i + 1] \in Maybe(content[f], "y", t1)
      BY <1>9, <2>3 DEF TrueTo
    <3>4. /\ full.cell[2 * i] \in Maybe(content[f], "x", t1)
          /\ full.cell[2 * i + 1] \in Maybe(content[f], "y", t1)
      BY <1>2, <2>1, <2>3 DEF TrueTo
    <3> HIDE DEF t1
    <3>5. /\ part.cell[2 * i] \in Maybe(content[f], "x", t1)
          /\ part.cell[2 * i + 1] \in Maybe(content[f], "y", t1)
      BY <1>5, <1>7, <3>2, <3>3, <3>4
    <3>6. QED
      BY <1>7, <3>5 DEF t1
  <2>4. /\ part.tStep \in Steps /\ ~ TooFine(part.tStep)
        /\ PlaneCartesian(content[f]) \/ domain[f] = <<part.tMin, part.tStep>>
    BY <1>7, <1>9 DEF TrueTo
  <2>5. QED
    BY <2>2, <2>3, <2>4 DEF TrueTo
<1>10. QED
  BY <1>7, <1>8, <1>9 DEF part

-----------------------------------------------------------------------------
(* Places among the active functions *)

\* Two active functions are at two places.
LEMMA IndexesApart ==
  ASSUME active \subseteq Function, NEW f \in active, NEW g \in active, IndexOf(f) = IndexOf(g)
  PROVE  f = g
<1> DEFINE Before(h) == {e \in active : e < h}
<1>1. Function \subseteq Int /\ IsFiniteSet(Function)
  <2>1. MaxFunctions \in Int
    BY CacheAssumption
  <2>2. QED
    BY <2>1, FS_Interval DEF Function
<1>2. ASSUME NEW h \in active, NEW e \in active, e < h
      PROVE  IndexOf(e) # IndexOf(h)
  <2>1. Before(e) \in SUBSET Before(h) /\ e \in Before(h) /\ e \notin Before(e)
    <3>1. active \subseteq Int
      BY <1>1
    <3>2. e \in Int /\ h \in Int /\ ~ (e < e)
      BY <3>1
    <3>3. \A y \in active : y < e => y < h
      BY <1>2, <3>1, <3>2
    <3>4. QED
      BY <1>2, <3>2, <3>3
  <2>2. IsFiniteSet(Before(h))
    BY <1>1, FS_Subset
  <2>3. Cardinality(Before(h)) # Cardinality(Before(e))
    BY <2>1, <2>2, FS_Subset
  <2>4. QED
    BY <2>3 DEF IndexOf
<1>3. f \in Int /\ g \in Int
  BY <1>1
<1>4. f = g \/ f < g \/ g < f
  BY <1>3
<1>5. QED
  BY <1>2, <1>4

\* A cache is the home of one active function only.
LEMMA HomesApart ==
  ASSUME active \subseteq Function, NEW f \in active, NEW g \in active,
         HomeOf(f) = HomeOf(g), HomeOf(f) # NoCache
  PROVE  f = g
<1>1. IndexOf(f) = IndexOf(g)
  BY DEF HomeOf, CacheAtIndex
<1>2. QED
  BY <1>1, IndexesApart

LEMMA HomeIsCache ==
  ASSUME NEW f \in active, active \subseteq Function
  PROVE  HomeOf(f) \in Cache \cup {NoCache}
<1>1. Function \subseteq Int /\ IsFiniteSet(Function)
  <2>1. MaxFunctions \in Int
    BY CacheAssumption
  <2>2. QED
    BY <2>1, FS_Interval DEF Function
<1>2. {e \in active : e < f} \in SUBSET Function
  OBVIOUS
<1>3. IndexOf(f) \in Nat
  BY <1>1, <1>2, FS_Subset, FS_CardinalityType DEF IndexOf
<1>4. QED
  BY <1>3, CacheAssumption DEF HomeOf, CacheAtIndex, Cache

\* Places only change with the functions that are drawn.
LEMMA HomesStay ==
  ASSUME active' = active
  PROVE  \A f : IndexOf(f)' = IndexOf(f) /\ HomeOf(f)' = HomeOf(f)
<1>1. \A f : IndexOf(f)' = IndexOf(f)
  BY DEF IndexOf
<1>2. QED
  BY <1>1 DEF HomeOf, CacheAtIndex, NoCache

-----------------------------------------------------------------------------
(* The steps *)

\* What is left to say of a step after which what is trusted was, as it is.
LEMMA TrustOnlyLost ==
  ASSUME OneOwner, TrustedFit,
         \A f \in active' : Trusted(f)' =>
           /\ f \in active /\ Trusted(f) /\ cacheOf'[f] = cacheOf[f]
           /\ caches'[cacheOf[f]] = caches[cacheOf[f]]
           /\ content'[f] = content[f] /\ domain'[f] = domain[f]
  PROVE  OneOwner' /\ TrustedFit' /\ (TrustedTrue => TrustedTrue')
<1>1. OneOwner'
  BY DEF OneOwner
<1>2. TrustedFit'
  BY DEF TrustedFit
<1>3. TrustedTrue => TrustedTrue'
  BY DEF TrustedTrue
<1>4. QED
  BY <1>1, <1>2, <1>3

\* A step that keeps the functions, their pointers and the caches, and what is left
\* to draw but for functions that may keep what they have.
LEMMA DrawingOnly ==
  ASSUME GraphInv, UNCHANGED functionVars, UNCHANGED cacheVars, spoiled' = spoiled,
         toDraw' \subseteq active, drawn' \in (active \ toDraw') \cup {NoFunction},
         toDraw \subseteq toDraw',
         \A f \in active \ toDraw' :
           IndexOf(f) \in interrupted' \/ Drawing' =>
             cacheOf[f] \in {NoCache, HomeOf(f)} \cup spoiled
  PROVE  GraphInv' /\ (TrustedTrue => TrustedTrue')
<1> USE DEF GraphInv, functionVars, cacheVars
<1>1. \A f : IndexOf(f)' = IndexOf(f) /\ HomeOf(f)' = HomeOf(f)
  BY HomesStay
<1>2. GraphTypeOK'
  BY DEF GraphTypeOK
<1>3. InactiveHoldNothing'
  BY DEF InactiveHoldNothing
<1>4. DrawnAtHome'
  BY <1>1 DEF DrawnAtHome, NoCache
<1>5. \A f \in active' : Trusted(f)' => Trusted(f)
  BY <1>1 DEF Trusted, NoCache
<1>6. OneOwner' /\ TrustedFit' /\ (TrustedTrue => TrustedTrue')
  BY <1>5, TrustOnlyLost
<1>7. QED
  BY <1>2, <1>3, <1>4, <1>6

LEMMA StartDrawingKeeps ==
  ASSUME GraphInv, StartDrawing
  PROVE  GraphInv' /\ (TrustedTrue => TrustedTrue')
<1>1. /\ UNCHANGED functionVars /\ UNCHANGED cacheVars /\ drawn' = drawn /\ spoiled' = spoiled
      /\ drawn = NoFunction /\ toDraw = {} /\ interrupted' = interrupted
      /\ toDraw' = {f \in active : IndexOf(f) \notin interrupted}
  BY DEF StartDrawing, Drawing
<1>2. \A f \in active : f \notin toDraw' => IndexOf(f) \in interrupted
  BY <1>1
<1>3. \A f \in active \ toDraw' : cacheOf[f] \in {NoCache, HomeOf(f)} \cup spoiled
  BY <1>1, <1>2 DEF GraphInv, DrawnAtHome
<1>4. QED
  BY <1>1, <1>3, DrawingOnly

LEMMA FinishRecordKeeps ==
  ASSUME GraphInv, FinishRecord
  PROVE  GraphInv' /\ (TrustedTrue => TrustedTrue')
<1>1. /\ UNCHANGED functionVars /\ UNCHANGED cacheVars /\ drawn' = NoFunction
      /\ toDraw' = toDraw /\ interrupted' = interrupted /\ Drawing /\ spoiled' = spoiled
  BY DEF FinishRecord, Drawing
<1>2. \A f \in active \ toDraw' : cacheOf[f] \in {NoCache, HomeOf(f)} \cup spoiled
  BY <1>1 DEF GraphInv, DrawnAtHome
<1>3. QED
  BY <1>1, <1>2, DrawingOnly DEF GraphInv, GraphTypeOK

LEMMA InterruptRecordKeeps ==
  ASSUME GraphInv, InterruptRecord
  PROVE  GraphInv' /\ (TrustedTrue => TrustedTrue')
<1>1. /\ UNCHANGED functionVars /\ UNCHANGED cacheVars /\ drawn' = NoFunction
      /\ toDraw' = toDraw /\ Drawing /\ spoiled' = spoiled
  BY DEF InterruptRecord, Drawing
<1>2. \A f \in active \ toDraw' : cacheOf[f] \in {NoCache, HomeOf(f)} \cup spoiled
  BY <1>1 DEF GraphInv, DrawnAtHome
<1>3. QED
  BY <1>1, <1>2, DrawingOnly DEF GraphInv, GraphTypeOK

\* Wherever a drawing is stopped before its cache is ready, the other functions
\* keep what they have, and this one has a spoiled cache, its own as it was, or none.
LEMMA InterruptEarlyKeeps ==
  ASSUME GraphInv, NEW f \in toDraw, InterruptEarly(f)
  PROVE  GraphInv' /\ (TrustedTrue => TrustedTrue')
<1> DEFINE k == HomeOf(f)
           harmless == cacheOf[f] = k /\ UNCHANGED cacheVars
<1>1. /\ UNCHANGED functionVars /\ drawn' = drawn /\ drawn = NoFunction
      /\ toDraw' = toDraw \ {f} /\ interrupted' = interrupted \cup {IndexOf(f)} /\ Drawing
      /\ spoiled' = IF harmless THEN spoiled ELSE spoiled \cup ({cacheOf'[f]} \ {NoCache})
      /\ \/ UNCHANGED cacheVars
         \/ \E r \in DrawnRanges(f) : StopPreparing(f, k, r[1], r[2])
  BY DEF InterruptEarly, Drawing, HomeOf
<1>2. /\ f \in active /\ f \in Function /\ active \subseteq Function /\ toDraw \subseteq active
      /\ GraphTypeOK
  BY DEF GraphInv, GraphTypeOK
<1>3. \A g : IndexOf(g)' = IndexOf(g) /\ HomeOf(g)' = HomeOf(g)
  BY <1>1, HomesStay DEF functionVars
<1>4. k \in Cache \cup {NoCache}
  BY <1>2, HomeIsCache
<1>5. \A g \in active : IndexOf(g) = IndexOf(f) => g = f
  BY <1>2, IndexesApart
<1>6. \A g \in active : k # NoCache /\ HomeOf(g) = k => g = f
  BY <1>2, HomesApart
<1> HIDE DEF k
<1>7. /\ cacheOf' \in [Function -> Cache \cup {NoCache}]
      /\ caches' \in [Cache -> Memo]
      /\ \A g \in Function : g # f => cacheOf'[g] = cacheOf[g]
      /\ \A j \in Cache : j # k => caches'[j] = caches[j]
  <2>1. CASE UNCHANGED cacheVars
    BY <1>2, <2>1 DEF GraphTypeOK, cacheVars
  <2>2. ASSUME NEW r \in DrawnRanges(f), StopPreparing(f, k, r[1], r[2])
        PROVE  /\ cacheOf' \in [Function -> Cache \cup {NoCache}]
               /\ caches' \in [Cache -> Memo]
               /\ \A g \in Function : g # f => cacheOf'[g] = cacheOf[g]
               /\ \A j \in Cache : j # k => caches'[j] = caches[j]
    <3>1. r \in TMins \X Steps
      BY <1>2 DEF DrawnRanges, GraphTypeOK
    <3>2. r[1] \in Int /\ r[2] \in Steps
      BY <3>1, CacheAssumption
    <3>3. QED
      BY <1>2, <1>4, <2>2, <3>2, StopPreparingLeaves
  <2>3. QED
    BY <1>1, <2>1, <2>2
<1>8. spoiled \subseteq spoiled' /\ spoiled' \subseteq Cache
  BY <1>1, <1>2, <1>7 DEF GraphTypeOK
<1>9. GraphTypeOK' /\ InactiveHoldNothing'
  BY <1>1, <1>2, <1>7, <1>8
     DEF GraphInv, GraphTypeOK, InactiveHoldNothing, functionVars, NoCache, NoFunction
<1>10. cacheOf'[f] \in {NoCache, k} \cup spoiled'
  <2>1. CASE harmless
    BY <2>1 DEF cacheVars
  <2>2. CASE ~ harmless
    BY <1>1, <2>2
  <2>3. QED
    BY <2>1, <2>2
<1> HIDE DEF harmless
<1>11. DrawnAtHome'
  <2>1. ASSUME NEW g \in active, g \notin toDraw'
        PROVE  cacheOf'[g] \in {NoCache, HomeOf(g)} \cup spoiled'
    <3>1. CASE g = f
      BY <1>10, <3>1 DEF k
    <3>2. CASE g # f
      BY <1>1, <1>2, <1>7, <1>8, <2>1, <3>2 DEF GraphInv, DrawnAtHome
    <3>3. QED
      BY <3>1, <3>2
  <2>2. QED
    BY <1>1, <1>3, <2>1 DEF DrawnAtHome, functionVars, NoCache
<1>12. ASSUME NEW g \in active', Trusted(g)'
       PROVE  /\ g \in active /\ Trusted(g) /\ cacheOf'[g] = cacheOf[g]
              /\ caches'[cacheOf[g]] = caches[cacheOf[g]]
              /\ content'[g] = content[g] /\ domain'[g] = domain[g]
  <2>1. /\ g \in active /\ g \in Function /\ content' = content /\ domain' = domain
        /\ cacheOf'[g] \notin spoiled' \cup {NoCache}
        /\ g \in toDraw' => cacheOf'[g] = HomeOf(g)
    BY <1>1, <1>2, <1>3, <1>12 DEF Trusted, functionVars, NoCache
  <2>2. CASE g = f
    <3>1. harmless
      BY <1>1, <2>1, <2>2
    <3>2. cacheOf' = cacheOf /\ caches' = caches /\ cacheOf[g] = HomeOf(g)
      BY <2>2, <3>1 DEF harmless, cacheVars, k
    <3>3. QED
      BY <1>8, <2>1, <3>2 DEF Trusted
  <2>3. CASE g # f
    <3>1. cacheOf'[g] = cacheOf[g] /\ cacheOf[g] \in Cache
      BY <1>2, <1>7, <2>1, <2>3 DEF GraphTypeOK
    <3>2. Trusted(g)
      BY <1>1, <1>8, <2>1, <2>3, <3>1 DEF Trusted
    <3>3. cacheOf[g] = HomeOf(g)
      BY <1>1, <2>1, <3>1, <3>2 DEF GraphInv, DrawnAtHome, Trusted
    <3>4. cacheOf[g] # k
      BY <1>6, <2>1, <2>3, <3>1, <3>3 DEF Cache, NoCache
    <3>5. QED
      BY <1>7, <2>1, <3>1, <3>2, <3>4
  <2>4. QED
    BY <2>2, <2>3
<1>13. OneOwner' /\ TrustedFit' /\ (TrustedTrue => TrustedTrue')
  BY <1>12, TrustOnlyLost DEF GraphInv
<1>14. QED
  BY <1>9, <1>11, <1>13 DEF GraphInv

LEMMA ReloadKeeps ==
  ASSUME GraphInv, Reload
  PROVE  GraphInv' /\ (TrustedTrue => TrustedTrue')
<1>1. /\ UNCHANGED functionVars /\ UNCHANGED cacheVars /\ drawn' = drawn /\ drawn = NoFunction
      /\ toDraw' = toDraw /\ toDraw = {} /\ interrupted' = {} /\ spoiled' = spoiled
  BY DEF Reload, Drawing
<1>2. ~ Drawing'
  BY <1>1 DEF Drawing, NoFunction
<1>3. QED
  BY <1>1, <1>2, DrawingOnly

LEMMA SelectRecordKeeps ==
  ASSUME GraphInv, NEW f \in Function, SelectRecord(f)
  PROVE  GraphInv' /\ (TrustedTrue => TrustedTrue')
<1>1. /\ content' = content /\ domain' = domain /\ active' = active
      /\ UNCHANGED cacheVars /\ UNCHANGED drawVars /\ spoiled' = spoiled
  BY DEF SelectRecord
<1>2. \A g : IndexOf(g)' = IndexOf(g) /\ HomeOf(g)' = HomeOf(g)
  BY <1>1, HomesStay
<1>3. GraphTypeOK' /\ InactiveHoldNothing'
  BY <1>1 DEF GraphInv, GraphTypeOK, InactiveHoldNothing, cacheVars, drawVars
<1>4. DrawnAtHome'
  BY <1>1, <1>2 DEF GraphInv, DrawnAtHome, Drawing, NoCache, cacheVars, drawVars
<1>5. \A g \in active' : Trusted(g)' => Trusted(g)
  BY <1>1, <1>2 DEF Trusted, NoCache, cacheVars, drawVars
<1>6. OneOwner' /\ TrustedFit' /\ (TrustedTrue => TrustedTrue')
  BY <1>1, <1>5, TrustOnlyLost DEF GraphInv, cacheVars
<1>7. QED
  BY <1>3, <1>4, <1>6 DEF GraphInv

\* At rest, caches are only taken back and functions only come without one.
LEMMA AtRest ==
  ASSUME GraphInv, ~ Drawing, UNCHANGED <<caches, toDraw, drawn>>,
         content' \in [Function -> Contents], domain' \in [Function -> TMins \X Steps],
         active' \subseteq Function,
         cacheOf' \in [Function -> Cache \cup {NoCache}],
         \A g \in Function : cacheOf'[g] \in {NoCache, cacheOf[g]},
         \A g \in Function \ active' : cacheOf'[g] = NoCache,
         \A g \in Function : cacheOf'[g] # NoCache =>
           content'[g] = content[g] /\ domain'[g] = domain[g] /\ spoiled' = spoiled,
         spoiled' \subseteq Cache,
         DrawnAtHome'
  PROVE  GraphInv' /\ (TrustedTrue => TrustedTrue')
<1>1. toDraw = {} /\ drawn = NoFunction /\ toDraw' = {} /\ drawn' = NoFunction
  BY DEF Drawing
<1>2. GraphTypeOK'
  BY <1>1 DEF GraphInv, GraphTypeOK, NoFunction
<1>3. InactiveHoldNothing'
  BY DEF InactiveHoldNothing
<1>4. ASSUME NEW g \in active', Trusted(g)'
      PROVE  /\ g \in active /\ Trusted(g) /\ cacheOf'[g] = cacheOf[g]
             /\ caches'[cacheOf[g]] = caches[cacheOf[g]]
             /\ content'[g] = content[g] /\ domain'[g] = domain[g]
  <2>1. g \in Function /\ cacheOf'[g] \notin spoiled' \cup {NoCache}
    BY <1>4 DEF Trusted, NoCache
  <2>2. cacheOf'[g] = cacheOf[g] /\ cacheOf[g] # NoCache
    BY <2>1
  <2>3. g \in active
    BY <2>1, <2>2 DEF GraphInv, InactiveHoldNothing
  <2>4. QED
    BY <1>1, <2>1, <2>2, <2>3 DEF Trusted
<1>5. OneOwner' /\ TrustedFit' /\ (TrustedTrue => TrustedTrue')
  BY <1>4, TrustOnlyLost DEF GraphInv
<1>6. QED
  BY <1>2, <1>3, <1>5 DEF GraphInv

LEMMA ForgetKeeps ==
  ASSUME GraphInv, NEW f \in Function, Forget(f)
  PROVE  GraphInv' /\ (TrustedTrue => TrustedTrue')
<1>1. /\ ~ Drawing /\ cacheOf' = [cacheOf EXCEPT ![f] = NoCache]
      /\ UNCHANGED functionVars /\ UNCHANGED <<caches, toDraw, drawn, interrupted, spoiled>>
  BY DEF Forget, TidyCache, drawVars
<1>2. \A g : IndexOf(g)' = IndexOf(g) /\ HomeOf(g)' = HomeOf(g)
  BY <1>1, HomesStay DEF functionVars
<1>3. /\ cacheOf' \in [Function -> Cache \cup {NoCache}]
      /\ \A g \in Function : cacheOf'[g] \in {NoCache, cacheOf[g]}
  BY <1>1 DEF GraphInv, GraphTypeOK
<1>4. DrawnAtHome'
  BY <1>1, <1>2, <1>3 DEF GraphInv, GraphTypeOK, DrawnAtHome, Drawing, NoCache, functionVars
<1>5. \A g \in Function \ active' : cacheOf'[g] = NoCache
  BY <1>1, <1>3 DEF GraphInv, InactiveHoldNothing, functionVars
<1>6. QED
  BY <1>1, <1>3, <1>4, <1>5, AtRest DEF GraphInv, GraphTypeOK, functionVars

LEMMA SetActiveKeeps ==
  ASSUME GraphInv, NEW f \in Function, NEW value \in BOOLEAN, SetActive(f, value)
  PROVE  GraphInv' /\ (TrustedTrue => TrustedTrue')
<1>1. /\ ~ Drawing /\ interrupted' = {} /\ content' = content /\ domain' = domain
      /\ UNCHANGED <<caches, toDraw, drawn, spoiled>>
      /\ active' = IF value THEN active \cup {f} ELSE active \ {f}
      /\ cacheOf' = IF value THEN cacheOf ELSE [cacheOf EXCEPT ![f] = NoCache]
  BY DEF SetActive, DidBecomeInactive
<1>2. /\ cacheOf' \in [Function -> Cache \cup {NoCache}]
      /\ \A g \in Function : cacheOf'[g] \in {NoCache, cacheOf[g]}
  BY <1>1 DEF GraphInv, GraphTypeOK
<1>3. ASSUME NEW g \in Function \ active' PROVE cacheOf'[g] = NoCache
  <2>1. CASE g = f
    BY <1>1, <2>1 DEF GraphInv, GraphTypeOK
  <2>2. CASE g # f
    BY <1>1, <1>2, <2>2 DEF GraphInv, InactiveHoldNothing
  <2>3. QED
    BY <2>1, <2>2
<1>4. DrawnAtHome'
  BY <1>1 DEF DrawnAtHome, Drawing, NoFunction
<1>5. active' \subseteq Function
  BY <1>1 DEF GraphInv, GraphTypeOK
<1>6. QED
  BY <1>1, <1>2, <1>3, <1>4, <1>5, AtRest DEF GraphInv, GraphTypeOK

LEMMA SetContentKeeps ==
  ASSUME GraphInv, NEW f \in Function, NEW c \in Contents, SetContent(f, c)
  PROVE  GraphInv' /\ (TrustedTrue => TrustedTrue')
<1>1. /\ ~ Drawing /\ interrupted' = {} /\ content' = [content EXCEPT ![f] = c]
      /\ domain' = domain /\ active' = active /\ UNCHANGED <<caches, toDraw, drawn>>
      /\ spoiled' = {}
      /\ cacheOf' = [g \in Function |-> NoCache]
  BY DEF SetContent, CachesAfterContent, TidyAll
<1>2. DrawnAtHome'
  BY <1>1 DEF DrawnAtHome, Drawing, NoFunction
<1>3. content' \in [Function -> Contents]
  BY <1>1 DEF GraphInv, GraphTypeOK
<1>4. QED
  BY <1>1, <1>2, <1>3, AtRest DEF GraphInv, GraphTypeOK

LEMMA SetDomainKeeps ==
  ASSUME GraphInv, NEW f \in Function, NEW range \in TMins \X Steps, SetDomain(f, range)
  PROVE  GraphInv' /\ (TrustedTrue => TrustedTrue')
<1>1. /\ ~ Drawing /\ interrupted' = {} /\ domain' = [domain EXCEPT ![f] = range]
      /\ content' = content /\ active' = active /\ UNCHANGED <<caches, toDraw, drawn, spoiled>>
      /\ cacheOf' = [cacheOf EXCEPT ![f] = NoCache]
  BY DEF SetDomain, TidyCache
<1>2. DrawnAtHome'
  BY <1>1 DEF DrawnAtHome, Drawing, NoFunction
<1>3. domain' \in [Function -> TMins \X Steps]
  BY <1>1 DEF GraphInv, GraphTypeOK
<1>4. /\ cacheOf' \in [Function -> Cache \cup {NoCache}]
      /\ \A g \in Function : cacheOf'[g] \in {NoCache, cacheOf[g]}
      /\ \A g \in Function : cacheOf'[g] # NoCache => domain'[g] = domain[g]
      /\ \A g \in Function \ active' : cacheOf'[g] = NoCache
  BY <1>1 DEF GraphInv, GraphTypeOK, InactiveHoldNothing
<1>5. QED
  BY <1>1, <1>2, <1>3, <1>4, AtRest DEF GraphInv, GraphTypeOK

LEMMA ReopenKeeps ==
  ASSUME GraphInv, Reopen
  PROVE  GraphInv' /\ (TrustedTrue => TrustedTrue')
<1>1. /\ UNCHANGED functionVars /\ toDraw' = {} /\ drawn' = NoFunction
      /\ cacheOf' = [g \in Function |-> NoCache]
      /\ caches' = [k \in Cache |-> [Clear(caches[k]) EXCEPT !.tMin = 0]]
      /\ interrupted' = {} /\ spoiled' = {}
  BY DEF Reopen, TidyAll
<1>2. ASSUME NEW k \in Cache PROVE [Clear(caches[k]) EXCEPT !.tMin = 0] \in Memo
  <2>1. Clear(caches[k]) \in Memo
    BY ClearIsEmpty DEF GraphInv, GraphTypeOK
  <2>2. QED
    BY <2>1 DEF Memo
<1>3. caches' \in [Cache -> Memo]
  BY <1>1, <1>2
<1>4. GraphTypeOK'
  BY <1>1, <1>3 DEF GraphInv, GraphTypeOK, functionVars, NoFunction
<1>5. InactiveHoldNothing'
  BY <1>1 DEF InactiveHoldNothing, NoCache
<1>6. DrawnAtHome'
  BY <1>1, <1>4 DEF DrawnAtHome, NoCache, GraphTypeOK
<1>7. \A g \in active' : ~ Trusted(g)'
  BY <1>1, <1>4 DEF Trusted, NoCache, GraphTypeOK
<1>8. OneOwner' /\ TrustedFit' /\ TrustedTrue'
  BY <1>7 DEF OneOwner, TrustedFit, TrustedTrue
<1>9. QED
  BY <1>4, <1>5, <1>6, <1>8 DEF GraphInv

\* What may be evaluated is active, and may be trusted with a cache that is not spoiled.
LEMMA EvaluableTrusted ==
  ASSUME GraphInv, NEW f \in Evaluable, cacheOf[f] # NoCache
  PROVE  /\ f \in active /\ f \in Function /\ f \notin toDraw /\ cacheOf[f] \in Cache
         /\ cacheOf[f] \notin spoiled => Trusted(f)
<1>1. f \in active /\ f \notin toDraw
  BY DEF Evaluable, Drawing, GraphInv, GraphTypeOK, NoFunction
<1>2. QED
  BY <1>1 DEF GraphInv, GraphTypeOK, Trusted

\* A step that changes one cache, of a function that may be evaluated and for the
\* better.
LEMMA OneCacheKeeps ==
  ASSUME GraphInv, NEW f \in Evaluable, cacheOf[f] # NoCache,
         NEW new \in Memo, FitFor(new, content[f]),
         TrueTo(caches[cacheOf[f]], content[f], domain[f]) => TrueTo(new, content[f], domain[f]),
         caches' = [caches EXCEPT ![cacheOf[f]] = new],
         UNCHANGED functionVars, UNCHANGED <<cacheOf, toDraw, spoiled>>,
         drawn' \in {drawn, NoFunction}, interrupted' = interrupted \/ Drawing
  PROVE  GraphInv' /\ (TrustedTrue => TrustedTrue')
<1> DEFINE k == cacheOf[f]
<1>2. f \in active /\ k \in Cache /\ f \notin toDraw
  BY EvaluableTrusted
<1>6. \A g : IndexOf(g)' = IndexOf(g) /\ HomeOf(g)' = HomeOf(g)
  BY HomesStay DEF functionVars
<1>7. caches' \in [Cache -> Memo]
  BY <1>2 DEF GraphInv, GraphTypeOK
<1>8. GraphTypeOK' /\ InactiveHoldNothing'
  BY <1>7 DEF GraphInv, GraphTypeOK, InactiveHoldNothing, functionVars, NoFunction
<1>9. DrawnAtHome'
  <2>1. Drawing' => Drawing
    BY DEF Drawing, NoFunction
  <2>2. QED
    BY <1>6, <2>1 DEF GraphInv, DrawnAtHome, NoCache, functionVars
<1>10. \A g \in active : Trusted(g)' <=> Trusted(g)
  BY <1>6 DEF Trusted, NoCache
<1>11. OneOwner'
  BY <1>10 DEF GraphInv, OneOwner, functionVars
<1>12. ASSUME NEW g \in active, Trusted(g)
       PROVE  /\ cacheOf[g] \in Cache
              /\ g # f => caches'[cacheOf[g]] = caches[cacheOf[g]]
              /\ g = f => caches'[cacheOf[g]] = new
  <2>1. cacheOf[g] \in Cache
    BY <1>12 DEF GraphInv, GraphTypeOK, Trusted
  <2>2. g # f => cacheOf[g] # k
    <3>1. CASE k \in spoiled
      BY <1>12, <3>1 DEF Trusted
    <3>2. CASE k \notin spoiled
      BY <1>2, <1>12, <3>2, EvaluableTrusted DEF GraphInv, OneOwner
    <3>3. QED
      BY <3>1, <3>2
  <2>3. QED
    BY <1>2, <2>1, <2>2 DEF GraphInv, GraphTypeOK
<1>13. TrustedFit'
  BY <1>10, <1>12 DEF GraphInv, TrustedFit, functionVars
<1>14. TrustedTrue => TrustedTrue'
  BY <1>2, <1>10, <1>12 DEF TrustedTrue, functionVars
<1>15. QED
  BY <1>8, <1>9, <1>11, <1>13, <1>14 DEF GraphInv

LEMMA ReadyIsFit ==
  ASSUME GraphInv, NEW f \in Evaluable, cacheOf[f] # NoCache, Ready(f)
  PROVE  /\ f \in Function /\ caches[cacheOf[f]] \in Memo
         /\ content \in [Function -> Contents]
         /\ FitFor(caches[cacheOf[f]], content[f])
<1>1. f \in Function /\ cacheOf[f] \in Cache
  BY EvaluableTrusted
<1>2. QED
  BY <1>1 DEF GraphInv, GraphTypeOK, Ready, FitFor, IsCartesian, PlaneCartesian

LEMMA EvaluateKeeps ==
  ASSUME GraphInv, NEW f \in Function, NEW t \in Parameters, EvaluateXYAtParameter(f, t)
  PROVE  GraphInv' /\ (TrustedTrue => TrustedTrue')
<1> DEFINE c == caches[cacheOf[f]]
<1>1. /\ f \in Evaluable /\ cacheOf[f] # NoCache /\ Ready(f)
      /\ caches' = [caches EXCEPT ![cacheOf[f]] = Fill(f, c, t)]
      /\ UNCHANGED functionVars /\ UNCHANGED <<cacheOf, toDraw, spoiled>>
      /\ drawn' = drawn /\ interrupted' = interrupted
  BY DEF EvaluateXYAtParameter, drawVars
<1>2. t \in Int /\ content \in [Function -> Contents] /\ c \in Memo /\ FitFor(c, content[f])
  BY <1>1, ReadyIsFit, CacheAssumption
<1>3. /\ Fill(f, c, t) \in Memo /\ FitFor(Fill(f, c, t), content[f])
      /\ TrueTo(c, content[f], domain[f]) => TrueTo(Fill(f, c, t), content[f], domain[f])
  <2> HIDE DEF c
  <2>1. QED
    BY <1>2, FillKeeps
<1>4. QED
  BY <1>1, <1>3, OneCacheKeeps

LEMMA InterruptFillKeeps ==
  ASSUME GraphInv, NEW t \in Parameters, InterruptFill(t)
  PROVE  GraphInv' /\ (TrustedTrue => TrustedTrue')
<1> DEFINE f == drawn
           c == caches[cacheOf[f]]
<1>1. /\ drawn # NoFunction /\ Drawing /\ cacheOf[f] # NoCache /\ Ready(f)
      /\ caches' = [caches EXCEPT ![cacheOf[f]] = PartlyFilled(f, c, t)]
      /\ UNCHANGED functionVars /\ UNCHANGED <<cacheOf, toDraw, spoiled>>
      /\ drawn' = NoFunction
  BY DEF InterruptFill, Drawing
<1>2. f \in Evaluable
  BY <1>1 DEF Evaluable
<1>3. /\ t \in Int /\ f \in Function /\ content \in [Function -> Contents] /\ c \in Memo
      /\ FitFor(c, content[f])
  BY <1>1, <1>2, ReadyIsFit, CacheAssumption
<1> HIDE DEF f
<1>4. /\ PartlyFilled(f, c, t) \in Memo /\ FitFor(PartlyFilled(f, c, t), content[f])
      /\ TrueTo(c, content[f], domain[f]) => TrueTo(PartlyFilled(f, c, t), content[f], domain[f])
  <2> HIDE DEF c
  <2>1. QED
    BY <1>3, PartlyFilledKeeps
<1>5. QED
  BY <1>1, <1>2, <1>4, OneCacheKeeps

\* Drawing a function gives it the cache of its place, which no other function
\* that has been drawn may hold, or none.
LEMMA DrawRecordKeeps ==
  ASSUME GraphInv, NEW f \in toDraw, DrawRecord(f)
  PROVE  GraphInv' /\ (StepsAreApart /\ TrustedTrue => TrustedTrue')
<1> DEFINE k == HomeOf(f)
           restored(r) == spoiled' = IF Restored(f, k, r[2]) THEN spoiled \ {k} ELSE spoiled
<1>1. /\ drawn = NoFunction /\ drawn' = f /\ toDraw' = toDraw \ {f}
      /\ UNCHANGED functionVars /\ interrupted' = interrupted
      /\ \E r \in DrawnRanges(f) : PrepareForCaching(f, k, r[1], r[2]) /\ restored(r)
  BY DEF DrawRecord, HomeOf
<1>2. /\ f \in active /\ f \in Function /\ active \subseteq Function /\ Drawing
      /\ toDraw \subseteq active
  BY DEF GraphInv, GraphTypeOK, Drawing
<1>3. \A g : IndexOf(g)' = IndexOf(g) /\ HomeOf(g)' = HomeOf(g)
  BY <1>1, HomesStay DEF functionVars
<1>4. PICK r \in DrawnRanges(f) : PrepareForCaching(f, k, r[1], r[2]) /\ restored(r)
  BY <1>1
<1>5. r \in TMins \X Steps /\ (IsCartesian(f) \/ domain[f] = <<r[1], r[2]>>)
  BY <1>2 DEF DrawnRanges, GraphInv, GraphTypeOK
<1>6. r[1] \in Int /\ r[2] \in Steps
  BY <1>5, CacheAssumption
<1>7. k \in Cache \cup {NoCache}
  BY <1>2, HomeIsCache
<1>8. ASSUME NEW g \in active, g # f, Trusted(g), k # NoCache
      PROVE  cacheOf[g] # k
  <2>1. cacheOf[g] = HomeOf(g)
    BY <1>2, <1>8 DEF GraphInv, DrawnAtHome, Trusted
  <2>2. QED
    BY <1>2, <1>8, <2>1, HomesApart
<1>9. /\ UNCHANGED <<content, domain, active>>
      /\ toDraw' \subseteq active /\ drawn' \in active \ toDraw'
  BY <1>1, <1>2 DEF functionVars
<1>10. ASSUME NEW g \in active, g # f, cacheOf[g] \in spoiled, cacheOf[g] \notin spoiled'
       PROVE  g \in toDraw /\ cacheOf[g] = k /\ cacheOf[g] # HomeOf(g)
  <2>1. Restored(f, k, r[2]) /\ cacheOf[g] = k
    BY <1>4, <1>10
  <2>2. g \in toDraw /\ k # NoCache
    BY <1>2, <2>1 DEF Restored, Uncached
  <2>3. QED
    BY <1>2, <1>10, <2>1, <2>2, HomesApart
<1>11. spoiled' \subseteq spoiled /\ spoiled' \subseteq Cache
  BY <1>4 DEF GraphInv, GraphTypeOK
<1>12. ASSUME NEW g \in active, g # f, cacheOf'[g] = cacheOf[g], Trusted(g)'
       PROVE  Trusted(g)
  <2>1. cacheOf[g] \notin spoiled' \cup {NoCache} /\ (g \in toDraw => cacheOf[g] = HomeOf(g))
    BY <1>1, <1>3, <1>12 DEF Trusted, NoCache
  <2>2. QED
    BY <1>10, <1>12, <2>1 DEF Trusted
<1> HIDE DEF k, restored
<1>13. ASSUME /\ \A g \in Function : g # f => cacheOf'[g] = cacheOf[g]
              /\ cacheOf'[f] \in {NoCache, k}
       PROVE  DrawnAtHome'
  <2>1. ASSUME NEW g \in active, g \notin toDraw'
        PROVE  cacheOf'[g] \in {NoCache, HomeOf(g)} \cup spoiled'
    <3>1. CASE g = f
      BY <1>13, <3>1 DEF k
    <3>2. CASE g # f
      BY <1>1, <1>2, <1>10, <1>13, <2>1, <3>2 DEF GraphInv, DrawnAtHome
    <3>3. QED
      BY <3>1, <3>2
  <2>2. QED
    BY <1>3, <1>9, <2>1 DEF DrawnAtHome, NoCache
<1>14. CASE cacheOf' = [cacheOf EXCEPT ![f] = NoCache] /\ caches' = caches
  <2>1. /\ cacheOf' \in [Function -> Cache \cup {NoCache}]
        /\ cacheOf'[f] = NoCache /\ \A g \in Function : g # f => cacheOf'[g] = cacheOf[g]
    BY <1>2, <1>14 DEF GraphInv, GraphTypeOK
  <2>2. GraphTypeOK' /\ InactiveHoldNothing'
    BY <1>2, <1>9, <1>11, <1>14, <2>1 DEF GraphInv, GraphTypeOK, InactiveHoldNothing, NoCache
  <2>3. DrawnAtHome'
    BY <1>13, <2>1
  <2>4. \A g \in active' : Trusted(g)' => Trusted(g) /\ cacheOf'[g] = cacheOf[g]
    <3>1. ~ Trusted(f)'
      BY <2>1 DEF Trusted, NoCache
    <3>2. QED
      BY <1>2, <1>9, <1>12, <2>1, <3>1
  <2>5. OneOwner' /\ TrustedFit' /\ (TrustedTrue => TrustedTrue')
    BY <1>9, <1>14, <2>4, TrustOnlyLost DEF GraphInv
  <2>6. QED
    BY <2>2, <2>3, <2>5 DEF GraphInv
<1>15. CASE /\ k # NoCache /\ ~ TooFine(r[2])
            /\ cacheOf' = [cacheOf EXCEPT ![f] = k]
            /\ caches' = [caches EXCEPT ![k] = SetRange(Prepared(f, k, r[1], r[2]), r[1], r[2])]
  <2> DEFINE new == SetRange(Prepared(f, k, r[1], r[2]), r[1], r[2])
  <2>1. k \in Cache /\ caches[k] \in Memo /\ r[2] \in Nat
    BY <1>6, <1>7, <1>15, CacheAssumption DEF GraphInv, GraphTypeOK
  <2>2. new \in Memo
    BY <1>6, <1>15, <2>1, PreparedIsMemo, RangeIsSet
  <2>3. ASSUME k \notin spoiled'
        PROVE  /\ FitFor(new, content[f])
               /\ StepsAreApart /\ TrustedTrue => TrueTo(new, content[f], domain[f])
    <3>1. ~ Clears(f, k, r[2]) => Trusted(f)
      BY <1>4, <1>15, <2>3 DEF Clears, Restored, Trusted, k, restored
    <3>2. ~ Clears(f, k, r[2]) => cacheOf[f] = k
      BY DEF Clears
    <3>3. ~ Clears(f, k, r[2]) => FitFor(caches[k], content[f])
      BY <1>2, <3>1, <3>2 DEF GraphInv, TrustedFit
    <3>4. ASSUME TrustedTrue, ~ Clears(f, k, r[2])
          PROVE  TrueTo(caches[k], content[f], domain[f])
      BY <1>2, <3>1, <3>2, <3>4 DEF TrustedTrue
    <3>5. GraphTypeOK
      BY DEF GraphInv
    <3>6. QED
      BY <1>2, <1>5, <1>6, <1>15, <2>1, <3>3, <3>4, <3>5, PreparedKeeps
  <2> HIDE DEF new
  <2>4. /\ cacheOf' \in [Function -> Cache \cup {NoCache}]
        /\ cacheOf'[f] = k /\ \A g \in Function : g # f => cacheOf'[g] = cacheOf[g]
    BY <1>2, <1>15, <2>1 DEF GraphInv, GraphTypeOK
  <2>5. /\ caches' \in [Cache -> Memo] /\ caches'[k] = new
        /\ \A j \in Cache : j # k => caches'[j] = caches[j]
    BY <1>15, <2>1, <2>2 DEF GraphInv, GraphTypeOK, new
  <2>6. GraphTypeOK' /\ InactiveHoldNothing'
    BY <1>2, <1>9, <1>11, <2>4, <2>5 DEF GraphInv, GraphTypeOK, InactiveHoldNothing, NoCache
  <2>7. DrawnAtHome'
    BY <1>13, <2>4
  <2>8. ASSUME NEW g \in active, g # f, Trusted(g)'
        PROVE  /\ Trusted(g) /\ cacheOf'[g] = cacheOf[g] /\ cacheOf[g] # k
               /\ caches'[cacheOf[g]] = caches[cacheOf[g]]
    <3>1. Trusted(g) /\ cacheOf'[g] = cacheOf[g]
      BY <1>2, <1>12, <2>4, <2>8
    <3>2. cacheOf[g] # k
      BY <1>8, <1>15, <2>8, <3>1
    <3>3. cacheOf[g] \in Cache
      BY <1>2, <3>1 DEF GraphInv, GraphTypeOK, Trusted
    <3>4. QED
      BY <2>5, <3>1, <3>2, <3>3
  <2>9. Trusted(f)' => k \notin spoiled'
    BY <2>4 DEF Trusted
  <2>10. OneOwner'
    BY <1>9, <2>4, <2>8 DEF GraphInv, OneOwner
  <2>11. TrustedFit'
    BY <1>9, <2>3, <2>4, <2>5, <2>8, <2>9 DEF GraphInv, TrustedFit
  <2>12. StepsAreApart /\ TrustedTrue => TrustedTrue'
    BY <1>9, <2>3, <2>4, <2>5, <2>8, <2>9 DEF TrustedTrue
  <2>13. QED
    BY <2>6, <2>7, <2>10, <2>11, <2>12 DEF GraphInv
<1>16. QED
  BY <1>4, <1>14, <1>15 DEF PrepareForCaching, Uncached

-----------------------------------------------------------------------------
(* What is proved of the function cache *)

LEMMA GraphInitHolds ==
  ASSUME GraphInit
  PROVE  GraphInv /\ TrustedTrue
<1>1. 0 \in Cell
  BY RingIsEven DEF Cell
<1>2. [i \in Cell |-> SignalingNan] \in [Cell -> CellValue]
  BY DEF CellValue
<1>3. caches \in [Cache -> Memo]
  BY <1>1, <1>2 DEF GraphInit, Memo
<1>4. GraphTypeOK
  BY <1>3 DEF GraphInit, GraphTypeOK, TidyAll
<1>5. \A f \in Function : cacheOf[f] = NoCache
  BY DEF GraphInit, TidyAll
<1>6. InactiveHoldNothing /\ DrawnAtHome
  BY <1>4, <1>5 DEF InactiveHoldNothing, DrawnAtHome, GraphTypeOK
<1>7. \A f \in active : ~ Trusted(f)
  BY <1>4, <1>5 DEF Trusted, GraphTypeOK
<1>8. OneOwner /\ TrustedFit /\ TrustedTrue
  BY <1>7 DEF OneOwner, TrustedFit, TrustedTrue
<1>9. QED
  BY <1>4, <1>6, <1>8 DEF GraphInv

LEMMA GraphStepKeeps ==
  ASSUME GraphInv, [GraphNext]_graphVars
  PROVE  GraphInv' /\ (StepsAreApart /\ TrustedTrue => TrustedTrue')
<1>1. ASSUME StartDrawing PROVE GraphInv' /\ (TrustedTrue => TrustedTrue')
  BY <1>1, StartDrawingKeeps
<1>2. ASSUME FinishRecord PROVE GraphInv' /\ (TrustedTrue => TrustedTrue')
  BY <1>2, FinishRecordKeeps
<1>3. ASSUME InterruptRecord PROVE GraphInv' /\ (TrustedTrue => TrustedTrue')
  BY <1>3, InterruptRecordKeeps
<1>4. ASSUME Reload PROVE GraphInv' /\ (TrustedTrue => TrustedTrue')
  BY <1>4, ReloadKeeps
<1>5. ASSUME Reopen PROVE GraphInv' /\ (TrustedTrue => TrustedTrue')
  BY <1>5, ReopenKeeps
<1>6. ASSUME NEW f \in toDraw, DrawRecord(f)
      PROVE  GraphInv' /\ (StepsAreApart /\ TrustedTrue => TrustedTrue')
  BY <1>6, DrawRecordKeeps
<1>7. ASSUME NEW f \in toDraw, InterruptEarly(f)
      PROVE  GraphInv' /\ (TrustedTrue => TrustedTrue')
  BY <1>7, InterruptEarlyKeeps
<1>8. ASSUME NEW f \in Function, NEW t \in Parameters, EvaluateXYAtParameter(f, t)
      PROVE  GraphInv' /\ (TrustedTrue => TrustedTrue')
  BY <1>8, EvaluateKeeps
<1>9. ASSUME NEW f \in Function, SelectRecord(f)
      PROVE  GraphInv' /\ (TrustedTrue => TrustedTrue')
  BY <1>9, SelectRecordKeeps
<1>10. ASSUME NEW f \in Function, Forget(f)
       PROVE  GraphInv' /\ (TrustedTrue => TrustedTrue')
  BY <1>10, ForgetKeeps
<1>11. ASSUME NEW f \in Function, NEW value \in BOOLEAN, SetActive(f, value)
       PROVE  GraphInv' /\ (TrustedTrue => TrustedTrue')
  BY <1>11, SetActiveKeeps
<1>12. ASSUME NEW f \in Function, NEW c \in Contents, SetContent(f, c)
       PROVE  GraphInv' /\ (TrustedTrue => TrustedTrue')
  BY <1>12, SetContentKeeps
<1>13. ASSUME NEW f \in Function, NEW range \in TMins \X Steps, SetDomain(f, range)
       PROVE  GraphInv' /\ (TrustedTrue => TrustedTrue')
  BY <1>13, SetDomainKeeps
<1>14. ASSUME UNCHANGED graphVars PROVE GraphInv' /\ (TrustedTrue => TrustedTrue')
  <2>1. /\ UNCHANGED functionVars /\ UNCHANGED cacheVars /\ UNCHANGED drawVars
        /\ spoiled' = spoiled
    BY <1>14 DEF graphVars
  <2>2. Drawing' = Drawing
    BY <2>1 DEF Drawing, drawVars, NoFunction
  <2>3. QED
    BY <2>1, <2>2, DrawingOnly DEF GraphInv, GraphTypeOK, DrawnAtHome, drawVars
<1>15. CASE UNCHANGED graphVars
  BY <1>14, <1>15
<1>16. ASSUME NEW t \in Parameters, InterruptFill(t)
       PROVE  GraphInv' /\ (TrustedTrue => TrustedTrue')
  BY <1>16, InterruptFillKeeps
<1>17. CASE GraphNext
  BY <1>1, <1>2, <1>3, <1>4, <1>5, <1>6, <1>7, <1>8, <1>9, <1>10, <1>11, <1>12, <1>13, <1>16,
     <1>17 DEF GraphNext
<1>18. QED
  BY <1>15, <1>17

\* However the functions are changed, drawn and panned, and wherever a drawing is
\* stopped, a function that may be evaluated is active and holds a cache alone, fit
\* for it, or has none, or has one that a stopped drawing left it, of another place
\* or half prepared (continuous_function_cache.cpp:12-56,
\* function_graph_view.cpp:16-54).
THEOREM GraphInvariance == GraphSpec => []GraphInv
<1>1. GraphInit => GraphInv
  BY GraphInitHolds
<1>2. GraphInv /\ [GraphNext]_graphVars => GraphInv'
  BY GraphStepKeeps
<1>3. QED
  BY <1>1, <1>2, PTL DEF GraphSpec

\* The assertions of indexForParameter hold of every function that is evaluated,
\* unless a stopped drawing left it its cache (continuous_function_cache.cpp:119
\* and :139).
THEOREM LookupsStayReady == GraphSpec => []LookupsAreReady
<1>1. GraphInv => LookupsAreReady
  <2>1. SUFFICES ASSUME GraphInv, NEW f \in Evaluable, cacheOf[f] # NoCache,
                        cacheOf[f] \notin spoiled
                 PROVE  LET c == caches[cacheOf[f]]
                        IN  c.tStep # 0 /\ (IsCartesian(f) \/ c.start = 0)
    BY DEF LookupsAreReady, Ready
  <2>2. f \in active /\ Trusted(f)
    BY <2>1, EvaluableTrusted
  <2>3. FitFor(caches[cacheOf[f]], content[f])
    BY <2>1, <2>2 DEF GraphInv, TrustedFit
  <2>4. QED
    BY <2>3 DEF FitFor, IsCartesian, PlaneCartesian
<1>2. GraphSpec => []GraphInv
  BY GraphInvariance
<1>3. QED
  BY <1>1, <1>2, PTL

\* A value found in the cache is that of its function at the parameter asked for,
\* never one of another function, definition, window or step, unless a stopped
\* drawing left the function its cache, and if the steps that are cached differ by
\* more than the tolerance (continuous_function.h:169-173).
THEOREM CachedValuesStayTrue ==
  ASSUME StepsAreApart
  PROVE  GraphSpec => []CachedValuesAreTrue
<1>1. GraphInit => GraphInv /\ TrustedTrue
  BY GraphInitHolds
<1>2. GraphInv /\ TrustedTrue /\ [GraphNext]_graphVars => GraphInv' /\ TrustedTrue'
  BY GraphStepKeeps
<1>3. GraphInv /\ TrustedTrue => CachedValuesAreTrue
  <2>1. SUFFICES ASSUME GraphInv, TrustedTrue,
                        NEW f \in Evaluable, cacheOf[f] # NoCache, cacheOf[f] \notin spoiled,
                        NEW t \in Reached(caches[cacheOf[f]]),
                        IndexForParameter(f, caches[cacheOf[f]], t) >= 0,
                        NEW k \in CellsOf(f, IndexForParameter(f, caches[cacheOf[f]], t))
                 PROVE  caches[cacheOf[f]].cell[k] \in {SignalingNan, ValueOf(f, t, PartIn(f, k))}
    BY DEF CachedValuesAreTrue
  <2> DEFINE c == caches[cacheOf[f]]
  <2>2. f \in active /\ Trusted(f) /\ cacheOf[f] \in Cache
    BY <2>1, EvaluableTrusted
  <2>3. c \in Memo /\ FitFor(c, content[f]) /\ TrueTo(c, content[f], domain[f])
    BY <2>1, <2>2 DEF GraphInv, GraphTypeOK, TrustedFit, TrustedTrue
  <2>4. t \in Reached(c)
    OBVIOUS
  <2>5. IndexForParameter(f, c, t) >= 0 /\ k \in CellsOf(f, IndexForParameter(f, c, t))
    BY <2>1
  <2> HIDE DEF c
  <2>6. t \in Int
    <3>1. PICK i \in Cell : t = c.tMin + i * c.tStep
      BY <2>4 DEF Reached
    <3>2. c.tMin \in Int /\ c.tStep \in Int /\ i \in Int
      BY <2>3, RingIsEven DEF Memo, Cell
    <3>3. i * c.tStep \in Int
      BY <3>2
    <3>4. QED
      BY <3>1, <3>2, <3>3
  <2>7. c.cell[k] \in {SignalingNan, ValueOf(f, t, PartIn(f, k))}
    BY <2>3, <2>5, <2>6, FoundIsTrue
  <2>8. QED
    BY <2>7 DEF c
<1>4. QED
  BY <1>1, <1>2, <1>3, PTL DEF GraphSpec
=============================================================================
