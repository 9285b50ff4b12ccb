-------------------------- MODULE FileSystemProofs --------------------------
(***************************************************************************)
(* The storage is well formed in every state, for every size of the buffer *)
(* and every set of names, extensions, precedences and values; no step of  *)
(* it moves a setting or changes a record and reports a failure; and it    *)
(* implements the dictionary of RecordStore.                               *)
(*                                                                         *)
(* The lemmas come in layers: what the moves of slideBuffer do to packed   *)
(* records; what a lookup and the competition of names return when the     *)
(* records and the cache are well formed; what each action keeps; then     *)
(* what each action does to the settings, to the records when it fails,    *)
(* and to the dictionary.                                                  *)
(***************************************************************************)
EXTENDS FileSystem, TLAPS, WellFoundedInduction

-----------------------------------------------------------------------------
(* Records *)

\* A record has a positive size: the walk of the buffer moves on.
LEMMA RecordSize ==
  ASSUME NEW n \in Name, NEW v \in Value
  PROVE  /\ SizeOfName(n) \in Nat /\ SizeOfName(n) >= 2
         /\ SizeOfRecordWithName(n, v) \in Nat
         /\ SizeOfRecordWithName(n, v) >= 3
BY NamesAssumption, SizesAssumption DEF SizeOfName, SizeOfRecordWithName, Name

\* A set of records that is not empty has a first one.
LEMMA FirstExists ==
  ASSUME NEW R, R \subseteq Record, R # {}
  PROVE  First(R) \in R /\ \A s \in R : First(R).pos <= s.pos
<1> DEFINE P == {r.pos : r \in R}
<1>1. P \subseteq Nat /\ P # {}
  BY DEF Record
<1>2. PICK p \in P : \A q \in P : ~(<<q, p>> \in OpToRel(<, Nat))
  BY <1>1, WFMin, NatLessThanWellFounded
<1>3. ASSUME NEW q \in P PROVE p <= q
  <2>1. q < p => <<q, p>> \in OpToRel(<, Nat)
    BY <1>1, Zenon DEF OpToRel
  <2>2. ~(q < p)
    BY <1>2, <2>1, Zenon
  <2>3. p \in Nat /\ q \in Nat
    BY <1>1, Zenon
  <2> HIDE DEF P
  <2> QED
    BY <2>2, <2>3
<1>4. PICK r \in R : r.pos = p
  OBVIOUS
<1> QED
  BY <1>3, <1>4 DEF First

-----------------------------------------------------------------------------
(* Moving records *)

Positive(R) == \A r \in R : r.size > 0

LEMMA SlidFields ==
  ASSUME NEW r \in Record, NEW from \in Nat, NEW delta \in Int,
         r.pos >= from => r.pos + delta \in Nat
  PROVE  /\ Slid(r, from, delta) \in Record
         /\ Slid(r, from, delta).name = r.name
         /\ Slid(r, from, delta).size = r.size
         /\ Slid(r, from, delta).value = r.value
         /\ Slid(r, from, delta).pos = IF r.pos >= from THEN r.pos + delta ELSE r.pos
BY DEF Slid, Moved, Record

\* The records fill the buffer up to hi.
Sound(R, hi) == hi \in Nat /\ R \subseteq Record /\ Positive(R) /\ Packed(R, 0, hi)

\* The records of T fill the buffer up to hi + delta but for the place of r,
\* which is delta longer than r.
FillAround(T, r, hi, delta) ==
  /\ T \subseteq Record
  /\ \A t \in T :
       /\ t.pos + t.size <= r.pos \/ t.pos >= r.pos + r.size + delta
       /\ t.pos + t.size <= hi + delta
  /\ \A t, u \in T : t = u \/ t.pos + t.size <= u.pos \/ u.pos + u.size <= t.pos
  /\ {t.pos : t \in T} \cup {r.pos, hi + delta}
       = {t.pos + t.size : t \in T} \cup {r.pos + r.size + delta, 0}

\* slideBuffer, when the record r goes or changes its size by delta
LEMMA SlideAround ==
  ASSUME NEW R, NEW hi, Sound(R, hi), NEW r \in R,
         NEW delta \in Int, r.size + delta >= 0
  PROVE  FillAround(Slide(R \ {r}, r.pos + r.size, delta), r, hi, delta)
<1> DEFINE Q == R \ {r}
           from == r.pos + r.size
           T == Slide(Q, from, delta)
           to == r.pos + r.size + delta
           S(q) == Slid(q, from, delta)
           m(x) == IF x >= from THEN x + delta ELSE x
<1>1. /\ r \in Record /\ r.pos \in Nat /\ r.size \in Nat /\ r.size > 0
      /\ from \in Nat /\ from <= hi /\ from > 0 /\ to >= r.pos /\ hi \in Nat
  BY DEF Record, Packed, Positive, Sound
<1>2. ASSUME NEW q \in Q
      PROVE  /\ q \in Record /\ q.pos \in Nat /\ q.size \in Nat /\ q.size > 0
             /\ \/ q.pos + q.size <= r.pos
                \/ q.pos >= from
             /\ q.pos + q.size <= hi
  BY <1>1 DEF Record, Packed, Positive, Sound
<1>3. ASSUME NEW q \in Q
      PROVE  /\ S(q) \in Record
             /\ S(q).size = q.size
             /\ S(q).pos = m(q.pos)
             /\ S(q).pos + S(q).size = m(q.pos + q.size)
  <2>1. q.pos >= from => q.pos + delta \in Nat
    BY <1>1, <1>2
  <2> QED
    BY <2>1, <1>1, <1>2, SlidFields
<1>4. T = {S(q) : q \in Q}
  BY DEF Slide
<1>5. T \subseteq Record
  BY <1>3, <1>4
<1>6. \A t \in T : t.pos + t.size <= r.pos \/ t.pos >= to
  BY <1>1, <1>2, <1>3, <1>4
<1>7. \A t \in T : t.pos + t.size <= hi + delta
  BY <1>1, <1>2, <1>3, <1>4
<1>8. \A t, u \in T : t = u \/ t.pos + t.size <= u.pos \/ u.pos + u.size <= t.pos
  <2>1. \A p, q \in Q : p = q \/ p.pos + p.size <= q.pos \/ q.pos + q.size <= p.pos
    BY DEF Packed, Sound
  <2>2. \A p, q \in Q : S(p) = S(q) \/ S(p).pos + S(p).size <= S(q).pos \/ S(q).pos + S(q).size <= S(p).pos
    BY <2>1, <1>1, <1>2, <1>3
  <2> QED
    BY <2>2, <1>4
<1>9. {t.pos : t \in T} \cup {r.pos, hi + delta} = {t.pos + t.size : t \in T} \cup {to, 0}
  <2>1. {q.pos : q \in Q} \cup {r.pos, hi} = {q.pos + q.size : q \in Q} \cup {from, 0}
    <3>1. {q.pos : q \in R} = {q.pos : q \in Q} \cup {r.pos}
      OBVIOUS
    <3>2. {q.pos + q.size : q \in R} = {q.pos + q.size : q \in Q} \cup {from}
      OBVIOUS
    <3> QED
      BY <3>1, <3>2 DEF Packed, Sound
  <2>2. {t.pos : t \in T} = {m(q.pos) : q \in Q}
    <3> HIDE DEF S, T, Q, m
    <3> QED
      BY <1>3, <1>4
  <2>3. {t.pos + t.size : t \in T} = {m(q.pos + q.size) : q \in Q}
    <3> HIDE DEF S, T, Q, m
    <3> QED
      BY <1>3, <1>4
  <2>4. m(hi) = hi + delta /\ m(r.pos) = r.pos /\ m(from) = to /\ m(0) = 0
    BY <1>1
  <2>5. {m(q.pos) : q \in Q} \cup {m(r.pos), m(hi)} = {m(x) : x \in {q.pos : q \in Q} \cup {r.pos, hi}}
    OBVIOUS
  <2>6. {m(q.pos + q.size) : q \in Q} \cup {m(from), m(0)} = {m(x) : x \in {q.pos + q.size : q \in Q} \cup {from, 0}}
    OBVIOUS
  <2> HIDE DEF m, from, to
  <2> QED
    BY <2>1, <2>2, <2>3, <2>4, <2>5, <2>6
<1>10. FillAround(T, r, hi, delta)
  <2> HIDE DEF T, S, Q
  <2> QED
    BY <1>5, <1>6, <1>7, <1>8, <1>9 DEF FillAround
<1> QED
  BY <1>10

\* What followed r now starts where r did.
LEMMA NextTakesItsPlace ==
  ASSUME NEW R, NEW hi, Sound(R, hi), NEW r \in R
  PROVE  r.pos \in {t.pos : t \in Without(R, r)} \cup {hi - r.size}
<1> DEFINE from == r.pos + r.size
<1>1. /\ r \in Record /\ r.pos \in Nat /\ r.size \in Nat /\ r.size > 0
      /\ from <= hi /\ hi \in Nat
  BY DEF Record, Packed, Positive, Sound
<1>2. CASE from = hi
  BY <1>1, <1>2
<1>3. CASE from # hi
  <2>1. PICK q \in R : q.pos = from
    BY <1>3 DEF Packed, Sound
  <2>2. q # r /\ q \in Record
    BY <2>1, <1>1 DEF Sound
  <2>3. Slid(q, from, -r.size) \in Without(R, r)
    BY <2>2 DEF Slide, Without
  <2>4. Slid(q, from, -r.size).pos = r.pos
    BY <2>1, <2>2, <1>1 DEF Slid, Moved, Record
  <2> QED
    BY <2>3, <2>4
<1> QED
  BY <1>2, <1>3

LEMMA WithoutSound ==
  ASSUME NEW R, NEW hi, Sound(R, hi), NEW r \in R
  PROVE  Sound(Without(R, r), hi - r.size)
<1> DEFINE from == r.pos + r.size
           T == Slide(R \ {r}, from, -r.size)
<1>1. /\ r \in Record /\ r.pos \in Nat /\ r.size \in Nat /\ r.size > 0
      /\ from <= hi /\ hi \in Nat
  BY DEF Record, Packed, Positive, Sound
<1>2. FillAround(T, r, hi, -r.size)
  <2>1. -r.size \in Int /\ r.size + (-r.size) >= 0
    BY <1>1
  <2> QED
    BY <2>1, SlideAround
<1>3. \A t \in T : \E q \in R \ {r} : t = Slid(q, from, -r.size)
  BY DEF Slide
<1>4. r.pos \in {t.pos : t \in T} \cup {hi - r.size}
  BY NextTakesItsPlace DEF Without
\* What preceded r still ends where r started.
<1>5. r.pos \in {t.pos + t.size : t \in T} \cup {0}
  <2>1. CASE r.pos = 0
    BY <2>1
  <2>2. CASE r.pos # 0
    <3>1. PICK q \in R : q.pos + q.size = r.pos
      BY <2>2 DEF Packed, Sound
    <3>2. q # r /\ q \in Record /\ ~(q.pos >= from)
      BY <3>1, <1>1 DEF Record, Sound
    <3>3. Slid(q, from, -r.size) \in T
      BY <3>2 DEF Slide
    <3>4. Slid(q, from, -r.size) = q
      BY <3>2 DEF Slid
    <3> QED
      BY <3>1, <3>3, <3>4
  <2> QED
    BY <2>1, <2>2
<1>6. Positive(T)
  BY <1>3 DEF Slid, Moved, Sound, Positive, Record
<1>7. T = Without(R, r)
  BY DEF Without
<1> HIDE DEF T, from
<1>8. {t.pos : t \in T} \cup {hi - r.size} = {t.pos + t.size : t \in T} \cup {0}
  BY <1>1, <1>2, <1>4, <1>5 DEF FillAround
<1>9. \A t \in T : 0 <= t.pos /\ t.pos + t.size <= hi - r.size
  BY <1>1, <1>2 DEF FillAround, Record
<1>10. hi - r.size \in Nat
  BY <1>1 DEF from
<1> QED
  BY <1>2, <1>6, <1>7, <1>8, <1>9, <1>10 DEF Packed, FillAround, Sound

LEMMA ResizedSound ==
  ASSUME NEW R, NEW hi, Sound(R, hi), NEW r \in R,
         NEW new \in Record, new.pos = r.pos, new.size > 0
  PROVE  Sound(Resized(R, r, new), hi + (new.size - r.size))
<1> DEFINE delta == new.size - r.size
           T == Slide(R \ {r}, r.pos + r.size, delta)
           U == T \cup {new}
<1>1. /\ r \in Record /\ r.pos \in Nat /\ r.size \in Nat /\ r.size > 0
      /\ r.pos + r.size <= hi /\ hi \in Nat
      /\ new.pos \in Nat /\ new.size \in Nat
  BY DEF Record, Packed, Positive, Sound
<1>2. delta \in Int /\ r.size + delta >= 0 /\ r.pos + r.size + delta = new.pos + new.size
      /\ hi + delta \in Nat /\ new.pos + new.size <= hi + delta
  BY <1>1
<1>3. FillAround(T, r, hi, delta)
  BY <1>2, SlideAround
<1>4. \A t \in T : \E q \in R \ {r} : t = Slid(q, r.pos + r.size, delta)
  BY DEF Slide
<1>5. Positive(U)
  BY <1>4 DEF Slid, Moved, Sound, Positive, Record
<1>6. U = Resized(R, r, new)
  BY DEF Resized
<1> HIDE DEF T, delta
<1>7. \A t \in U : 0 <= t.pos /\ t.pos + t.size <= hi + delta
  BY <1>1, <1>2, <1>3 DEF Record, FillAround
<1>8. \A t, u \in U : t = u \/ t.pos + t.size <= u.pos \/ u.pos + u.size <= t.pos
  BY <1>2, <1>3 DEF FillAround
<1>9. {t.pos : t \in U} \cup {hi + delta} = {t.pos + t.size : t \in U} \cup {0}
  <2>1. {t.pos : t \in U} = {t.pos : t \in T} \cup {r.pos}
    OBVIOUS
  <2>2. {t.pos + t.size : t \in U} = {t.pos + t.size : t \in T} \cup {new.pos + new.size}
    OBVIOUS
  <2> QED
    BY <2>1, <2>2, <1>2, <1>3 DEF FillAround
<1>10. U \subseteq Record
  BY <1>3 DEF FillAround
<1> HIDE DEF U
<1> QED
  BY <1>2, <1>5, <1>6, <1>7, <1>8, <1>9, <1>10 DEF Sound, Packed, delta

\* A record written at the end
LEMMA AppendedSound ==
  ASSUME NEW R, NEW hi, Sound(R, hi),
         NEW new \in Record, new.pos = hi, new.size > 0
  PROVE  Sound(R \cup {new}, hi + new.size)
<1> DEFINE U == R \cup {new}
<1>1. new.pos \in Nat /\ new.size \in Nat /\ hi \in Nat /\ \A r \in R : r.pos \in Nat /\ r.size \in Nat
  BY DEF Record, Sound
<1>2. {t.pos : t \in U} = {t.pos : t \in R} \cup {hi}
  OBVIOUS
<1>3. {t.pos + t.size : t \in U} = {t.pos + t.size : t \in R} \cup {hi + new.size}
  OBVIOUS
<1>4. \A r \in U : 0 <= r.pos /\ r.pos + r.size <= hi + new.size
  BY <1>1 DEF Packed, Sound
<1>5. \A r, s \in U : r = s \/ r.pos + r.size <= s.pos \/ s.pos + s.size <= r.pos
  BY <1>1 DEF Packed, Sound
<1>6. {t.pos : t \in U} \cup {hi + new.size} = {t.pos + t.size : t \in U} \cup {0}
  BY <1>2, <1>3 DEF Packed, Sound
<1>7. U \subseteq Record /\ Positive(U)
  BY DEF Sound, Positive
<1> QED
  BY <1>1, <1>4, <1>5, <1>6, <1>7 DEF Packed, Sound
\* A cut at a record leaves two packed halves.
LEMMA SplitPacked ==
  ASSUME NEW R, NEW hi, Sound(R, hi), NEW r \in R
  PROVE  /\ Packed({q \in R : q.pos < r.pos}, 0, r.pos)
         /\ Packed({q \in R : q.pos >= r.pos}, r.pos, hi)
<1> DEFINE L == {q \in R : q.pos < r.pos}
           H == {q \in R : q.pos >= r.pos}
           starts(Q) == {q.pos : q \in Q}
           ends(Q) == {q.pos + q.size : q \in Q}
<1>1. /\ hi \in Nat
      /\ \A q \in R : q.pos \in Nat /\ q.size \in Nat /\ q.size > 0 /\ q.pos + q.size <= hi
      /\ \A q, s \in R : q = s \/ q.pos + q.size <= s.pos \/ s.pos + s.size <= q.pos
      /\ starts(R) \cup {hi} = ends(R) \cup {0}
  BY DEF Sound, Packed, Positive, Record
<1>2. \A q \in L : q.pos + q.size <= r.pos
  BY <1>1
<1>3. starts(L) \cup {r.pos} = ends(L) \cup {0}
  <2>1. ASSUME NEW q \in R, q.pos <= r.pos
        PROVE  q.pos \in ends(L) \cup {0}
    BY <1>1, <2>1
  <2>2. ASSUME NEW q \in L
        PROVE  q.pos + q.size \in starts(L) \cup {r.pos}
    BY <1>1, <1>2
  <2>3. 0 \in starts(L) \cup {r.pos}
    BY <1>1
  <2> QED
    BY <2>1, <2>2, <2>3, <1>1
<1>4. starts(H) \cup {hi} = ends(H) \cup {r.pos}
  <2>1. ASSUME NEW q \in H
        PROVE  q.pos \in ends(H) \cup {r.pos}
    BY <1>1, <1>2
  <2>2. ASSUME NEW q \in H
        PROVE  q.pos + q.size \in starts(H) \cup {hi}
    <3>1. q.pos + q.size \in ends(R)
      OBVIOUS
    <3>2. q.pos + q.size = hi \/ \E s \in R : s.pos = q.pos + q.size
      BY <3>1, <1>1
    <3>3. \A s \in R : s.pos = q.pos + q.size => s \in H
      BY <1>1
    <3> QED
      BY <3>2, <3>3
  <2>3. hi \in ends(H)
    BY <1>1, <1>2
  <2> QED
    BY <2>1, <2>2, <2>3, <1>1
<1>5. /\ \A q \in L : 0 <= q.pos /\ q.pos + q.size <= r.pos
      /\ \A q \in H : r.pos <= q.pos /\ q.pos + q.size <= hi
  BY <1>1, <1>2
<1>6. L \subseteq R /\ H \subseteq R
  OBVIOUS
<1>7. Packed(L, 0, r.pos) /\ Packed(H, r.pos, hi)
  <2> HIDE DEF L, H
  <2> QED
    BY <1>1, <1>3, <1>4, <1>5, <1>6 DEF Packed
<1> QED
  BY <1>7

LEMMA MovedPacked ==
  ASSUME NEW R, R \subseteq Record, NEW lo \in Nat, NEW hi \in Nat, Packed(R, lo, hi),
         NEW delta \in Int, lo + delta \in Nat
  PROVE  LET T == {Moved(r, delta) : r \in R}
         IN  T \subseteq Record /\ Packed(T, lo + delta, hi + delta)
<1> DEFINE M(r) == Moved(r, delta)
           T == {M(r) : r \in R}
<1>1. ASSUME NEW r \in R
      PROVE  /\ r.pos \in Nat /\ r.size \in Nat /\ r.pos >= lo
             /\ M(r) \in Record /\ M(r).pos = r.pos + delta /\ M(r).size = r.size
             /\ M(r).pos + M(r).size = (r.pos + r.size) + delta
  BY DEF Moved, Record, Packed
<1>2. {t.pos : t \in T} = {r.pos + delta : r \in R}
  <2> HIDE DEF M
  <2> QED
    BY <1>1
<1>3. {t.pos + t.size : t \in T} = {(r.pos + r.size) + delta : r \in R}
  <2> HIDE DEF M
  <2> QED
    BY <1>1
<1>4. {r.pos + delta : r \in R} \cup {hi + delta} = {(r.pos + r.size) + delta : r \in R} \cup {lo + delta}
  <2>1. {r.pos : r \in R} \cup {hi} = {r.pos + r.size : r \in R} \cup {lo}
    BY DEF Packed
  <2>2. {r.pos + delta : r \in R} \cup {hi + delta} = {x + delta : x \in {r.pos : r \in R} \cup {hi}}
    OBVIOUS
  <2>3. {(r.pos + r.size) + delta : r \in R} \cup {lo + delta} = {x + delta : x \in {r.pos + r.size : r \in R} \cup {lo}}
    OBVIOUS
  <2> QED
    BY <2>1, <2>2, <2>3
<1>5. \A t \in T : lo + delta <= t.pos /\ t.pos + t.size <= hi + delta
  <2> HIDE DEF M
  <2> QED
    BY <1>1 DEF Packed
<1>6. \A t, u \in T : t = u \/ t.pos + t.size <= u.pos \/ u.pos + u.size <= t.pos
  <2> HIDE DEF M
  <2> QED
    BY <1>1 DEF Packed
<1>7. T \subseteq Record
  BY <1>1
<1>8. T \subseteq Record /\ Packed(T, lo + delta, hi + delta)
  <2> HIDE DEF T
  <2> QED
    BY <1>2, <1>3, <1>4, <1>5, <1>6, <1>7 DEF Packed
<1> QED
  BY <1>8

LEMMA JoinedPacked ==
  ASSUME NEW R, R \subseteq Record, NEW S, S \subseteq Record, NEW mid \in Nat, NEW hi \in Nat, mid <= hi,
         Packed(R, 0, mid), Packed(S, mid, hi)
  PROVE  Packed(R \cup S, 0, hi)
<1> DEFINE U == R \cup S
<1>1. \A r \in U : r.pos \in Nat /\ r.size \in Nat
  BY DEF Record
<1>2. \A r \in U : 0 <= r.pos /\ r.pos + r.size <= hi
  BY <1>1 DEF Packed
<1>3. \A r, s \in U : r = s \/ r.pos + r.size <= s.pos \/ s.pos + s.size <= r.pos
  BY <1>1 DEF Packed
<1>4. {r.pos : r \in U} = {r.pos : r \in R} \cup {r.pos : r \in S}
  OBVIOUS
<1>5. {r.pos + r.size : r \in U} = {r.pos + r.size : r \in R} \cup {r.pos + r.size : r \in S}
  OBVIOUS
<1>6. {r.pos : r \in U} \cup {hi} = {r.pos + r.size : r \in U} \cup {0}
  BY <1>4, <1>5 DEF Packed
<1> QED
  BY <1>2, <1>3, <1>6 DEF Packed

-----------------------------------------------------------------------------
(* Names *)

\* The name n may be given to a record that joins R.
Fits(n, R) ==
  \A q \in R : q.name # n /\ ~(q.name.base = n.base /\ Restrictive(q.name.ext) /\ Restrictive(n.ext))

WellNamed(R) == UniqueNames(R) /\ OneMeaning(R)

\* What the records are when no operation is in the middle of a move.
Good(R, hi) == Sound(R, hi) /\ Sized(R) /\ WellNamed(R) /\ SettingsFirst(R)

\* T holds the records of Q in the same order, and where they were those that
\* stand before p.
Copy(f, Q, T, p) ==
  /\ f \in [Q -> T]
  /\ \A t \in T : \E q \in Q : t = f[q]
  /\ \A q \in Q : /\ f[q].name = q.name /\ f[q].value = q.value /\ f[q].size = q.size
                  /\ q.pos < p => f[q] = q
                  /\ q.pos < p <=> f[q].pos < p
  /\ \A q, s \in Q : q.pos < s.pos => f[q].pos < f[s].pos

LEMMA SlideCopies ==
  ASSUME NEW R, NEW hi, Good(R, hi), NEW r \in R,
         NEW delta \in Int, r.size + delta >= 0
  PROVE  \E f : Copy(f, R \ {r}, Slide(R \ {r}, r.pos + r.size, delta), r.pos)
<1> DEFINE Q == R \ {r}
           S(q) == Slid(q, r.pos + r.size, delta)
<1>1. /\ r \in Record /\ r.pos \in Nat /\ r.size \in Nat /\ r.size > 0
  BY DEF Good, Sound, Record, Positive
<1>2. ASSUME NEW q \in Q
      PROVE  /\ q \in Record /\ q.pos \in Nat /\ q.size \in Nat /\ q.size > 0
             /\ q.pos + q.size <= r.pos \/ r.pos + r.size <= q.pos
  BY DEF Good, Sound, Record, Positive, Packed
<1>3. ASSUME NEW q \in Q
      PROVE  /\ S(q).name = q.name /\ S(q).value = q.value /\ S(q).size = q.size
             /\ S(q).pos = IF q.pos >= r.pos + r.size THEN q.pos + delta ELSE q.pos
  BY <1>1, <1>2 DEF Slid, Moved, Record
<1>4. ASSUME NEW q \in Q
      PROVE  /\ q.pos < r.pos => S(q) = q
             /\ q.pos < r.pos <=> S(q).pos < r.pos
  <2>1. q.pos < r.pos => S(q) = q
    BY <1>1, <1>2 DEF Slid
  <2> HIDE DEF S
  <2> QED
    BY <2>1, <1>1, <1>2, <1>3
<1>5. ASSUME NEW p \in Q, NEW q \in Q, p.pos < q.pos
      PROVE  S(p).pos < S(q).pos
  <2> HIDE DEF S
  <2> QED
    BY <1>1, <1>2, <1>3, <1>5
<1>6. Slide(Q, r.pos + r.size, delta) = {S(q) : q \in Q}
  BY DEF Slide
<1> DEFINE T == Slide(Q, r.pos + r.size, delta)
           f == [q \in Q |-> S(q)]
<1> HIDE DEF Q, S, T
<1>7. Copy(f, Q, T, r.pos)
  BY <1>3, <1>4, <1>5, <1>6 DEF Copy, T
<1> QED
  BY <1>7 DEF Q, T

LEMMA CopyKeeps ==
  ASSUME NEW f, NEW Q, NEW T, NEW p, Copy(f, Q, T, p), WellNamed(Q), Sized(Q), SettingsFirst(Q)
  PROVE  /\ WellNamed(T) /\ Sized(T) /\ SettingsFirst(T)
         /\ \A n : Fits(n, Q) => Fits(n, T)
<1>1. UniqueNames(T)
  BY DEF Copy, WellNamed, UniqueNames
<1>2. OneMeaning(T)
  BY DEF Copy, WellNamed, OneMeaning
<1>3. Sized(T)
  BY DEF Copy, Sized
<1>4. SettingsFirst(T)
  BY DEF Copy, SettingsFirst, IsSystem
<1>5. \A n : Fits(n, Q) => Fits(n, T)
  BY DEF Copy, Fits
<1> QED
  BY <1>1, <1>2, <1>3, <1>4, <1>5 DEF WellNamed
LEMMA GoodRecords ==
  ASSUME NEW R, NEW hi, Good(R, hi)
  PROVE  /\ hi \in Nat
         /\ \A r \in R : /\ r \in Record /\ r.name \in Name /\ r.value \in Value
                         /\ r.pos \in Nat /\ r.size \in Nat /\ r.size > 0
                         /\ r.pos + r.size <= hi
         /\ \A r, s \in R : r = s \/ r.pos + r.size <= s.pos \/ s.pos + s.size <= r.pos
         /\ \A r, s \in R : r.pos = s.pos \/ r.name = s.name => r = s
<1>1. /\ hi \in Nat
      /\ \A r \in R : /\ r \in Record /\ r.name \in Name /\ r.value \in Value
                      /\ r.pos \in Nat /\ r.size \in Nat /\ r.size > 0
                      /\ r.pos + r.size <= hi
      /\ \A r, s \in R : r = s \/ r.pos + r.size <= s.pos \/ s.pos + s.size <= r.pos
  BY DEF Good, Sound, Packed, Positive, Record
<1>2. \A r, s \in R : r.name = s.name => r = s
  BY DEF Good, WellNamed, UniqueNames
<1> QED
  BY <1>1, <1>2

LEMMA SubsetKeeps ==
  ASSUME NEW R, NEW Q \in SUBSET R, WellNamed(R), Sized(R), SettingsFirst(R)
  PROVE  WellNamed(Q) /\ Sized(Q) /\ SettingsFirst(Q) /\ \A n : Fits(n, R) => Fits(n, Q)
BY DEF WellNamed, UniqueNames, OneMeaning, Sized, SettingsFirst, Fits

LEMMA WithoutGood ==
  ASSUME NEW R, NEW hi, Good(R, hi), NEW r \in R
  PROVE  /\ Good(Without(R, r), hi - r.size)
         /\ \E f : Copy(f, R \ {r}, Without(R, r), r.pos)
<1>1. r.size \in Nat /\ -r.size \in Int /\ r.size + (-r.size) >= 0
  BY GoodRecords
<1>2. PICK f : Copy(f, R \ {r}, Without(R, r), r.pos)
  BY <1>1, SlideCopies DEF Without
<1>3. WellNamed(R \ {r}) /\ Sized(R \ {r}) /\ SettingsFirst(R \ {r})
  BY SubsetKeeps DEF Good
<1>4. WellNamed(Without(R, r)) /\ Sized(Without(R, r)) /\ SettingsFirst(Without(R, r))
  BY <1>2, <1>3, CopyKeeps
<1>5. Sound(Without(R, r), hi - r.size)
  BY WithoutSound DEF Good
<1> QED
  BY <1>2, <1>4, <1>5 DEF Good

LEMMA ResizedGood ==
  ASSUME NEW R, NEW hi, Good(R, hi), NEW r \in R,
         NEW new \in Record, new.pos = r.pos,
         SizeOfRecordWithName(new.name, new.value) <= new.size,
         IsSystem(new) <=> IsSystem(r),
         new.name = r.name \/ Fits(new.name, R \ {r})
  PROVE  /\ Good(Resized(R, r, new), hi + (new.size - r.size))
         /\ \E f, T : Copy(f, R \ {r}, T, r.pos) /\ Resized(R, r, new) = T \cup {new}
<1> DEFINE Q == R \ {r}
           delta == new.size - r.size
           T == Slide(Q, r.pos + r.size, delta)
<1>1. /\ new.name \in Name /\ new.value \in Value /\ new.pos \in Nat /\ new.size \in Nat /\ new.size > 0
  BY RecordSize DEF Record
<1>2. delta \in Int /\ r.size + delta >= 0
  BY <1>1, GoodRecords
<1>3. PICK f : Copy(f, Q, T, r.pos)
  BY <1>2, SlideCopies
<1>4. WellNamed(Q) /\ Sized(Q) /\ SettingsFirst(Q)
  BY SubsetKeeps DEF Good
<1>5. WellNamed(T) /\ Sized(T) /\ SettingsFirst(T)
  BY <1>3, <1>4, CopyKeeps
<1>6. Resized(R, r, new) = T \cup {new}
  BY DEF Resized
<1>7. Fits(r.name, Q)
  BY DEF Good, WellNamed, UniqueNames, OneMeaning, Fits
<1>8. Fits(new.name, T)
  BY <1>3, <1>4, <1>7, CopyKeeps
<1>9. \A t \in T : /\ IsSystem(t) /\ ~IsSystem(new) => t.pos < new.pos
                   /\ IsSystem(new) /\ ~IsSystem(t) => new.pos < t.pos
  <2>1. \A q \in Q : /\ IsSystem(q) /\ ~IsSystem(r) => q.pos < r.pos
                     /\ IsSystem(r) /\ ~IsSystem(q) => r.pos < q.pos
    BY DEF Good, SettingsFirst
  <2>2. \A q \in Q : q \in Record /\ f[q] \in Record /\ f[q].pos # r.pos
    <3>1. Sound(T \cup {new}, hi + delta)
      BY <1>1, <1>6, ResizedSound DEF Good
    <3>2. \A t \in T : t.pos # new.pos \/ t = new
      <4> DEFINE U == T \cup {new}
      <4> HIDE DEF U
      <4>1. /\ \A t \in U : t.pos \in Nat /\ t.size \in Nat /\ t.size > 0
            /\ \A t, u \in U : t = u \/ t.pos + t.size <= u.pos \/ u.pos + u.size <= t.pos
        BY <3>1 DEF U, Sound, Packed, Positive, Record
      <4>2. \A t, u \in U : t.pos = u.pos => t = u
        BY <4>1
      <4> QED
        BY <4>2 DEF U
    <3>3. \A t \in T : t.name # new.name
      BY <1>8 DEF Fits
    <3> QED
      BY <3>1, <3>2, <3>3, <1>3, GoodRecords DEF Copy, Sound
  <2>3. \A t \in T : \E q \in Q : t = f[q]
    BY <1>3 DEF Copy
  <2>4. \A q \in Q : /\ f[q].name = q.name
                     /\ q.pos < r.pos <=> f[q].pos < r.pos
    BY <1>3 DEF Copy
  <2>5. r.pos \in Nat
    BY GoodRecords
  <2> HIDE DEF Q, T
  <2> QED
    BY <2>1, <2>2, <2>3, <2>4, <2>5 DEF IsSystem, Record
<1> HIDE DEF T, Q
<1>10. SettingsFirst(T \cup {new})
  BY <1>5, <1>9 DEF SettingsFirst
<1>11. WellNamed(T \cup {new})
  BY <1>5, <1>8 DEF WellNamed, UniqueNames, OneMeaning, Fits
<1>12. Sized(T \cup {new})
  BY <1>5 DEF Sized
<1>13. Sound(Resized(R, r, new), hi + delta)
  BY <1>1, ResizedSound DEF Good
<1> QED
  BY <1>3, <1>6, <1>10, <1>11, <1>12, <1>13 DEF Good, Q

LEMMA AppendedGood ==
  ASSUME NEW R, NEW hi, Good(R, hi), NEW new \in Record, new.pos = hi,
         SizeOfRecordWithName(new.name, new.value) <= new.size,
         ~IsSystem(new), Fits(new.name, R)
  PROVE  Good(R \cup {new}, hi + new.size)
<1>1. new.name \in Name /\ new.value \in Value /\ new.size \in Nat /\ new.size > 0
  BY RecordSize DEF Record
<1>2. Sound(R \cup {new}, hi + new.size)
  BY <1>1, AppendedSound DEF Good
<1>3. \A r \in R : r.pos < hi
  BY GoodRecords
<1>4. SettingsFirst(R \cup {new})
  BY <1>3 DEF SettingsFirst, Good
<1>5. WellNamed(R \cup {new})
  BY DEF WellNamed, UniqueNames, OneMeaning, Fits, Good
<1>6. Sized(R \cup {new})
  BY DEF Sized, Good
<1> QED
  BY <1>2, <1>4, <1>5, <1>6 DEF Good

-----------------------------------------------------------------------------
(* Lookups *)

GoodCache(R, c) ==
  /\ c \in [record : Name \cup {NoRecord}, ptr : Nat \cup {NullPtr}]
  /\ c.record = NoRecord <=> c.ptr = NullPtr
  /\ c.record # NoRecord => \E r \in R : r.name = c.record /\ r.pos = c.ptr

LEMMA EmptyCacheGood == ASSUME NEW R PROVE GoodCache(R, EmptyCache)
BY DEF GoodCache, EmptyCache, NullPtr

LEMMA CacheOf ==
  ASSUME NEW R, NEW hi, Good(R, hi), NEW r \in R
  PROVE  GoodCache(R, [record |-> r.name, ptr |-> r.pos])
BY GoodRecords, NamesAssumption DEF GoodCache, NullPtr

LEMMA RecordAtItsAddress ==
  ASSUME NEW R, NEW hi, Good(R, hi), NEW r \in R
  PROVE  RecordAt(R, r.pos) = r
<1>1. \A s \in R : s.pos = r.pos => s = r
  BY GoodRecords
<1> QED
  BY <1>1 DEF RecordAt

LEMMA FirstOfOne ==
  ASSUME NEW r \in Record
  PROVE  First({r}) = r
BY FirstExists

\* A lookup finds the record of that name, whatever the cache holds.
LEMMA Lookup ==
  ASSUME NEW R, NEW hi, Good(R, hi), NEW c, GoodCache(R, c), NEW n \in Name
  PROVE  /\ \A r \in R : r.name = n =>
              PointerOfRecord(R, c, n) = r.pos /\ SizeAt(R, PointerOfRecord(R, c, n)) = r.size
         /\ Named(R, n) = {} =>
              PointerOfRecord(R, c, n) = NullPtr /\ SizeAt(R, PointerOfRecord(R, c, n)) = 0
         /\ GoodCache(R, Recall(R, c, n))
<1>1. \A r \in R : r.pos \in Nat /\ r.pos # NullPtr /\ r \in Record
  BY GoodRecords DEF NullPtr
<1>2. n # NoRecord
  BY NamesAssumption
<1>3. ASSUME NEW r \in R, r.name = n
      PROVE  PointerOfRecord(R, c, n) = r.pos
  <2>1. CASE c.record = n
    <3>1. \E s \in R : s.name = c.record /\ s.pos = c.ptr
      BY <1>2, <2>1 DEF GoodCache
    <3> QED
      BY <3>1, <2>1, <1>3, GoodRecords DEF PointerOfRecord
  <2>2. CASE c.record # n
    <3>1. Named(R, n) = {r}
      BY <1>3, GoodRecords DEF Named
    <3> QED
      BY <2>2, <3>1, <1>1, FirstOfOne DEF PointerOfRecord
  <2> QED
    BY <2>1, <2>2
<1>4. ASSUME Named(R, n) = {}
      PROVE  PointerOfRecord(R, c, n) = NullPtr
  <2>1. c.record # n
    BY <1>2, <1>4 DEF GoodCache, Named
  <2> QED
    BY <1>4, <2>1 DEF PointerOfRecord
<1>5. GoodCache(R, Recall(R, c, n))
  <2>1. CASE Named(R, n) = {}
    BY <1>4, <2>1 DEF Recall
  <2>2. CASE Named(R, n) # {}
    <3>1. PICK r \in R : r.name = n
      BY <2>2 DEF Named
    <3>2. Recall(R, c, n) = [record |-> r.name, ptr |-> r.pos]
      BY <1>1, <1>3, <3>1 DEF Recall
    <3> QED
      BY <3>2, CacheOf
  <2> QED
    BY <2>1, <2>2
<1>6. \A r \in R : SizeAt(R, r.pos) = r.size
  BY <1>1, RecordAtItsAddress DEF SizeAt
<1>7. SizeAt(R, NullPtr) = 0
  BY DEF SizeAt
<1> QED
  BY <1>3, <1>4, <1>5, <1>6, <1>7

\* The competitor is the one record that gives the base name a meaning.
LEMMA CompetitorFound ==
  ASSUME NEW R, NEW hi, Good(R, hi), NEW c, GoodCache(R, c), NEW n \in Name
  PROVE  \/ Competitor(R, c, n) = NoRecord /\ Rivals(R, n) = {}
         \/ \E r \in Rivals(R, n) : Competitor(R, c, n) = r.name
<1>1. CASE c.ptr # NullPtr /\ RecordAt(R, c.ptr) \in Rivals(R, n)
  <2>1. PICK r \in R : r.name = c.record /\ r.pos = c.ptr
    BY <1>1 DEF GoodCache
  <2>2. RecordAt(R, c.ptr) = r
    BY <2>1, RecordAtItsAddress
  <2> QED
    BY <1>1, <2>1, <2>2 DEF Competitor
<1>2. CASE ~(c.ptr # NullPtr /\ RecordAt(R, c.ptr) \in Rivals(R, n))
  <2>1. CASE Rivals(R, n) = {}
    BY <1>2, <2>1 DEF Competitor
  <2>2. CASE Rivals(R, n) # {}
    <3>1. Rivals(R, n) \subseteq Record
      BY DEF Rivals, Good, Sound
    <3>2. First(Rivals(R, n)) \in Rivals(R, n)
      BY <2>2, <3>1, FirstExists
    <3> QED
      BY <1>2, <2>2, <3>2 DEF Competitor
  <2> QED
    BY <2>1, <2>2
<1> QED
  BY <1>1, <1>2

LEMMA RecallRivalGood ==
  ASSUME NEW R, NEW hi, Good(R, hi), NEW c, GoodCache(R, c), NEW n \in Name
  PROVE  GoodCache(R, RecallRival(R, c, n))
<1>1. CASE Named(R, n) # {} \/ Competitor(R, c, n) = NoRecord
  BY <1>1 DEF RecallRival
<1>2. CASE ~(Named(R, n) # {} \/ Competitor(R, c, n) = NoRecord)
  <2>1. Competitor(R, c, n) \in Name
    BY <1>2, CompetitorFound, GoodRecords DEF Rivals
  <2> QED
    BY <1>2, <2>1, Lookup DEF RecallRival
<1> QED
  BY <1>1, <1>2

\* Once the victim is gone the name has no competitor.
LEMMA VictimLeaves ==
  ASSUME NEW R, NEW hi, Good(R, hi), NEW c, GoodCache(R, c), NEW n \in Name,
         NEW o \in BOOLEAN, ~Refuses(R, c, n, o)
  PROVE  \/ /\ Victim(R, c, n) = NoRecord
            /\ Fits(n, R)
            /\ VictimSize(R, c, Victim(R, c, n)) = 0
            /\ WithoutVictim(R, c, Victim(R, c, n)) = R
         \/ \E r \in R :
              /\ Victim(R, c, n) = r.name
              /\ Fits(n, R \ {r})
              /\ r.name.base = n.base
              /\ r.name = n \/ Restrictive(r.name.ext)
              /\ VictimSize(R, c, Victim(R, c, n)) = r.size
              /\ WithoutVictim(R, c, Victim(R, c, n)) = Without(R, r)
<1>1. ASSUME NEW r \in R
      PROVE  /\ VictimSize(R, c, r.name) = r.size
             /\ WithoutVictim(R, c, r.name) = Without(R, r)
  <2>1. r.name \in Name /\ r.name # NoRecord /\ r.pos # NullPtr
    BY GoodRecords, NamesAssumption DEF NullPtr
  <2>2. PointerOfRecord(R, c, r.name) = r.pos /\ SizeAt(R, PointerOfRecord(R, c, r.name)) = r.size
    BY <2>1, Lookup
  <2>3. RecordAt(R, r.pos) = r
    BY RecordAtItsAddress
  <2> QED
    BY <2>1, <2>2, <2>3 DEF VictimSize, WithoutVictim
<1>2. VictimSize(R, c, NoRecord) = 0 /\ WithoutVictim(R, c, NoRecord) = R
  BY DEF VictimSize, WithoutVictim
<1>3. ASSUME NEW r \in Rivals(R, n), Named(R, n) = {}
      PROVE  Fits(n, R \ {r})
  BY <1>3 DEF Fits, Rivals, Named, Good, WellNamed, UniqueNames, OneMeaning
<1>4. CASE Named(R, n) # {}
  <2>1. PICK r \in R : r.name = n
    BY <1>4 DEF Named
  <2>2. Victim(R, c, n) = r.name
    BY <1>4, <2>1 DEF Victim
  <2>3. Fits(n, R \ {r})
    BY <2>1 DEF Fits, Good, WellNamed, UniqueNames, OneMeaning
  <2> QED
    BY <1>1, <2>1, <2>2, <2>3
<1>5. CASE Named(R, n) = {} /\ Competitor(R, c, n) = NoRecord
  <2>1. Rivals(R, n) = {}
    BY <1>5, CompetitorFound, NamesAssumption, GoodRecords DEF Rivals
  <2>2. Fits(n, R)
    BY <1>5, <2>1 DEF Fits, Rivals, Named
  <2>3. Victim(R, c, n) = NoRecord
    BY <1>5 DEF Victim
  <2> QED
    BY <1>2, <2>2, <2>3
<1>6. CASE Named(R, n) = {} /\ Competitor(R, c, n) # NoRecord
  <2>1. PICK r \in Rivals(R, n) : Competitor(R, c, n) = r.name
    BY <1>6, CompetitorFound
  <2>2. r \in R /\ Restrictive(r.name.ext) /\ r.name.base = n.base
    BY <2>1 DEF Rivals
  <2>3. CanOverrideRecordWithNewExtension(r.name, n.ext) # "Forbidden"
    BY <1>6, <2>1 DEF Refuses
  <2>4. CASE CanOverrideRecordWithNewExtension(r.name, n.ext) = "Allowed"
    <3>1. Victim(R, c, n) = r.name
      BY <1>6, <2>1, <2>4 DEF Victim
    <3>2. Fits(n, R \ {r})
      BY <1>3, <1>6, <2>1
    <3> QED
      BY <1>1, <2>2, <3>1, <3>2
  <2>5. CASE CanOverrideRecordWithNewExtension(r.name, n.ext) # "Allowed"
    <3>1. ~Restrictive(n.ext)
      BY <2>2, <2>3, <2>5 DEF CanOverrideRecordWithNewExtension
    <3>2. Fits(n, R)
      BY <1>6, <3>1 DEF Fits, Named
    <3>3. Victim(R, c, n) = NoRecord
      BY <1>6, <2>1, <2>5 DEF Victim
    <3> QED
      BY <1>2, <3>2, <3>3
  <2> QED
    BY <2>4, <2>5
<1> QED
  BY <1>4, <1>5, <1>6

LEMMA WithoutVictimGood ==
  ASSUME NEW R, NEW hi, Good(R, hi), NEW c, GoodCache(R, c), NEW n \in Name,
         NEW o \in BOOLEAN, ~Refuses(R, c, n, o),
         NEW v, v = Victim(R, c, n)
  PROVE  /\ Good(WithoutVictim(R, c, v), hi - VictimSize(R, c, v))
         /\ Fits(n, WithoutVictim(R, c, v))
         /\ VictimSize(R, c, v) \in Nat
         /\ \A r \in R : r.name = n => VictimSize(R, c, v) = r.size
<1>1. hi \in Nat
  BY GoodRecords
<1>2. CASE Fits(n, R) /\ VictimSize(R, c, v) = 0 /\ WithoutVictim(R, c, v) = R
  <2>1. \A r \in R : r.name # n
    BY <1>2 DEF Fits
  <2>2. hi - 0 = hi
    BY <1>1
  <2> QED
    BY <1>2, <2>1, <2>2
<1>3. ASSUME NEW r \in R, Fits(n, R \ {r}),
             VictimSize(R, c, v) = r.size, WithoutVictim(R, c, v) = Without(R, r)
      PROVE  /\ Good(WithoutVictim(R, c, v), hi - VictimSize(R, c, v))
             /\ Fits(n, WithoutVictim(R, c, v))
             /\ VictimSize(R, c, v) \in Nat
             /\ \A q \in R : q.name = n => VictimSize(R, c, v) = q.size
  <2>1. Good(Without(R, r), hi - r.size)
    BY WithoutGood
  <2>2. PICK f : Copy(f, R \ {r}, Without(R, r), r.pos)
    BY WithoutGood
  <2>3. WellNamed(R \ {r}) /\ Sized(R \ {r}) /\ SettingsFirst(R \ {r})
    BY SubsetKeeps DEF Good
  <2>4. Fits(n, Without(R, r))
    BY <1>3, <2>2, <2>3, CopyKeeps
  <2>5. \A q \in R : q.name = n => q = r
    BY <1>3 DEF Fits
  <2> QED
    BY <1>3, <2>1, <2>4, <2>5, GoodRecords
<1> QED
  BY <1>2, <1>3, VictimLeaves

-----------------------------------------------------------------------------
(* The invariant.  No part of it is inductive alone: a move keeps the      *)
(* records packed only if the cache gave it the address of a record, the   *)
(* cache is right only if names are unique, and the records hidden or      *)
(* restored are the right ones only if the settings come first.            *)

IInv == TypeOK /\ LayoutOK /\ CacheOK /\ NamesOK /\ SystemRecordsFirst /\ SweepOK

\* The same facts, on the variables apart.
GoodHidden(D, a) ==
  /\ D \subseteq Record /\ Sized(D) /\ WellNamed(D)
  /\ Packed(D, a, TotalSize)
  /\ \A r \in D : ~IsSystem(r)

Whole(R, e, D, a, c) ==
  /\ Good(R, e)
  /\ GoodHidden(D, a)
  /\ a \in Nat /\ a <= TotalSize /\ e + SizeOfHeader <= a
  /\ GoodCache(R, c)

Rest(v, st) == v \subseteq Extension /\ st \in Status

LEMMA IInvParts ==
  ASSUME IInv
  PROVE  /\ Whole(records, end, disabled, accessible, cache)
         /\ Rest(vetoed, status)
         /\ sweep \in [exts : SUBSET Extension, ptr : Nat \cup {NullPtr}]
         /\ SweepOK
<1>1. Positive(records)
  <2>1. \A r \in records : r \in Record /\ r.name \in Name /\ r.value \in Value /\ r.size \in Nat
                           /\ SizeOfRecordWithName(r.name, r.value) <= r.size
    BY DEF IInv, TypeOK, LayoutOK, Sized, Record
  <2>2. \A r \in records : SizeOfRecordWithName(r.name, r.value) \in Nat /\ SizeOfRecordWithName(r.name, r.value) >= 3
    BY <2>1, RecordSize
  <2> QED
    BY <2>1, <2>2 DEF Positive
<1>2. Good(records, end)
  BY <1>1 DEF IInv, TypeOK, LayoutOK, NamesOK, SystemRecordsFirst, Good, Sound, WellNamed
<1>3. GoodHidden(disabled, accessible)
  BY DEF IInv, TypeOK, LayoutOK, NamesOK, SystemRecordsFirst, GoodHidden, WellNamed
<1>4. GoodCache(records, cache)
  BY DEF IInv, TypeOK, CacheOK, GoodCache
<1> QED
  BY <1>2, <1>3, <1>4 DEF IInv, TypeOK, LayoutOK, Whole, Rest

\* What there is to show of a step.
LEMMA IInvFromParts ==
  ASSUME Whole(records', end', disabled', accessible', cache'),
         Rest(vetoed', status'),
         sweep' \in [exts : SUBSET Extension, ptr : Nat \cup {NullPtr}],
         SweepOK'
  PROVE  IInv'
<1>1. TypeOK'
  BY DEF TypeOK, Whole, Rest, Good, Sound, GoodHidden, GoodCache
<1>2. LayoutOK'
  BY DEF LayoutOK, Whole, Good, Sound, GoodHidden
<1>3. CacheOK'
  BY DEF CacheOK, Whole, GoodCache
<1>4. NamesOK' /\ SystemRecordsFirst'
  BY DEF NamesOK, SystemRecordsFirst, Whole, Good, GoodHidden, WellNamed
<1> QED
  BY <1>1, <1>2, <1>3, <1>4 DEF IInv

LEMMA InitInvariant == Init => IInv
<1> SUFFICES ASSUME Init PROVE IInv
  OBVIOUS
<1>1. TypeOK
  BY BootAssumption, SizesAssumption DEF Init, TypeOK, EmptyCache, NoSweep, Status, NullPtr
<1>2. LayoutOK
  <2>1. Packed({}, TotalSize, TotalSize)
    BY DEF Packed
  <2>2. \A r \in SystemRecords : r \in Record /\ r.size = SizeOfRecordWithName(r.name, r.value) /\ r.size \in Nat
    BY BootAssumption DEF Record
  <2> QED
    BY <2>1, <2>2, BootAssumption, SizesAssumption DEF Init, LayoutOK, Sized
<1>3. CacheOK
  BY DEF Init, CacheOK, EmptyCache
<1>4. NamesOK
  BY BootAssumption, NamesAssumption DEF Init, NamesOK, UniqueNames, OneMeaning, Restrictive
<1>5. SystemRecordsFirst
  BY BootAssumption DEF Init, SystemRecordsFirst, SettingsFirst, IsSystem
<1>6. SweepOK
  BY DEF Init, SweepOK, NoSweep
<1> QED
  BY <1>1, <1>2, <1>3, <1>4, <1>5, <1>6 DEF IInv

\* freeSpaceFor
LEMMA SpaceIsFreed ==
  ASSUME IInv, NEW size \in Int, NEW e \in Nat, e <= end, CanFree(size, e), FreeSpaceFor(size, e)
  PROVE  /\ GoodHidden(disabled', accessible')
         /\ accessible' \in Nat /\ accessible' <= TotalSize
         /\ e + size + SizeOfHeader <= accessible'
         /\ e + SizeOfHeader <= accessible'
<1>1. /\ GoodHidden(disabled, accessible)
      /\ accessible \in Nat /\ accessible <= TotalSize /\ end + SizeOfHeader <= accessible
      /\ end \in Nat /\ TotalSize \in Nat /\ SizeOfHeader \in Nat
  BY IInvParts, SizesAssumption DEF Whole, Good, Sound
<1>2. CASE size <= AvailableSize(e)
  BY <1>1, <1>2 DEF FreeSpaceFor, AvailableSize
<1>3. CASE ~(size <= AvailableSize(e))
  <2>1. accessible' = TotalSize /\ disabled' = {}
    BY <1>3 DEF FreeSpaceFor
  <2>2. GoodHidden({}, TotalSize)
    BY DEF GoodHidden, Sized, WellNamed, UniqueNames, OneMeaning, Packed
  <2> QED
    BY <1>1, <1>3, <2>1, <2>2 DEF CanFree, AvailableSize
<1> QED
  BY <1>2, <1>3

LEMMA IdleSweepOK == Idle /\ sweep' = sweep => SweepOK'
BY DEF Idle, SweepOK

-----------------------------------------------------------------------------
(* The operations *)

\* A refusal changes the cache only, or frees the hidden records before it.
LEMMA FailKeeps ==
  ASSUME IInv, Idle, NEW s \in Failure, NEW c, GoodCache(records, c), Fail(s, c),
         UNCHANGED <<vetoed, sweep>>,
         GoodHidden(disabled', accessible'),
         accessible' \in Nat, accessible' <= TotalSize, end + SizeOfHeader <= accessible'
  PROVE  IInv'
<1>1. Whole(records', end', disabled', accessible', cache')
  BY IInvParts DEF Whole, Fail
<1>2. Rest(vetoed', status')
  BY IInvParts DEF Rest, Fail, Status
<1>3. SweepOK' /\ sweep' \in [exts : SUBSET Extension, ptr : Nat \cup {NullPtr}]
  BY IdleSweepOK, IInvParts
<1> QED
  BY <1>1, <1>2, <1>3, IInvFromParts

LEMMA FailAloneKeeps ==
  ASSUME IInv, Idle, NEW s \in Failure, NEW c, GoodCache(records, c), Fail(s, c),
         UNCHANGED <<vetoed, sweep, accessible, disabled>>
  PROVE  IInv'
BY IInvParts, FailKeeps DEF Whole

\* An operation that does not fail.
LEMMA SuccessKeeps ==
  ASSUME IInv, Idle, UNCHANGED <<vetoed, sweep>>, status' \in Status,
         Whole(records', end', disabled', accessible', cache')
  PROVE  IInv'
<1>1. SweepOK' /\ sweep' \in [exts : SUBSET Extension, ptr : Nat \cup {NullPtr}] /\ Rest(vetoed', status')
  BY IdleSweepOK, IInvParts DEF Rest
<1> QED
  BY <1>1, IInvFromParts

LEMMA CreateKeeps ==
  ASSUME IInv, NEW n \in UserName, NEW v \in Value, NEW o \in BOOLEAN, CreateRecord(n, v, o)
  PROVE  IInv'
<1> DEFINE found  == Recall(records, cache, n)
           size   == SizeOfRecordWithName(n, v)
           more   == size - SizeAt(records, PointerOfRecord(records, cache, n))
           victim == Victim(records, found, n)
           kept   == WithoutVictim(records, found, victim)
           newEnd == end - VictimSize(records, found, victim)
           new    == [name |-> n, pos |-> newEnd, size |-> size, value |-> v]
<1>1. /\ Good(records, end) /\ GoodCache(records, cache)
      /\ GoodHidden(disabled, accessible)
      /\ accessible \in Nat /\ accessible <= TotalSize /\ end + SizeOfHeader <= accessible
      /\ end \in Nat
  BY IInvParts DEF Whole, Good, Sound
<1>2. n \in Name /\ size \in Nat /\ size >= 3
  BY RecordSize DEF UserName
<1>3. GoodCache(records, found)
  BY <1>1, <1>2, Lookup
<1>4. Idle /\ UNCHANGED <<vetoed, sweep>>
  BY DEF CreateRecord
\* The size of the record of that name, 0 if there is none
<1>5. SizeAt(records, PointerOfRecord(records, cache, n)) \in Nat
  <2>1. CASE Named(records, n) = {}
    BY <1>1, <1>2, <2>1, Lookup
  <2>2. CASE Named(records, n) # {}
    <3>1. PICK r \in records : r.name = n
      BY <2>2 DEF Named
    <3> QED
      BY <1>1, <1>2, <3>1, Lookup, GoodRecords
  <2> QED
    BY <2>1, <2>2
<1>6. more \in Int
  BY <1>2, <1>5
<1>7. CASE Fail("CanceledByDelegate", cache) /\ UNCHANGED <<accessible, disabled>>
  BY <1>1, <1>4, <1>7, FailAloneKeeps DEF Failure
<1>8. CASE Fail("NotEnoughSpaceAvailable", found) /\ UNCHANGED <<accessible, disabled>>
  BY <1>3, <1>4, <1>8, FailAloneKeeps DEF Failure
<1>9. ASSUME more > 0 => CanFree(more, end),
             IF more > 0 THEN FreeSpaceFor(more, end) ELSE UNCHANGED <<accessible, disabled>>
      PROVE  /\ GoodHidden(disabled', accessible')
             /\ accessible' \in Nat /\ accessible' <= TotalSize
             /\ end + SizeOfHeader <= accessible'
             /\ more > 0 => end + more + SizeOfHeader <= accessible'
  <2>1. CASE more > 0
    BY <1>1, <1>6, <1>9, <2>1, SpaceIsFreed
  <2>2. CASE ~(more > 0)
    BY <1>1, <1>9, <2>2
  <2> QED
    BY <2>1, <2>2
<1>10. CASE /\ more > 0 => CanFree(more, end)
            /\ IF more > 0 THEN FreeSpaceFor(more, end) ELSE UNCHANGED <<accessible, disabled>>
            /\ Fail("NameTaken", RecallRival(records, found, n))
  <2>1. GoodCache(records, RecallRival(records, found, n))
    BY <1>1, <1>2, <1>3, RecallRivalGood
  <2> QED
    BY <1>4, <1>9, <1>10, <2>1, FailKeeps DEF Failure
<1>11. CASE /\ more > 0 => CanFree(more, end)
            /\ ~Refuses(records, found, n, o)
            /\ IF more > 0 THEN FreeSpaceFor(more, end) ELSE UNCHANGED <<accessible, disabled>>
            /\ records' = kept \cup {new}
            /\ end' = newEnd + size
            /\ cache' = [record |-> n, ptr |-> newEnd]
            /\ status' = "None"
  <2>1. /\ Good(kept, newEnd) /\ Fits(n, kept)
        /\ newEnd \in Nat /\ newEnd <= end /\ newEnd + size <= end + more
    <3>1. /\ Good(kept, newEnd) /\ Fits(n, kept)
          /\ VictimSize(records, found, victim) \in Nat
          /\ \A r \in records : r.name = n => VictimSize(records, found, victim) = r.size
      BY <1>1, <1>2, <1>3, <1>11, WithoutVictimGood
    <3>2. SizeAt(records, PointerOfRecord(records, cache, n)) <= VictimSize(records, found, victim)
      <4>1. CASE Named(records, n) = {}
        BY <1>1, <1>2, <3>1, <4>1, Lookup
      <4>2. CASE Named(records, n) # {}
        <5>1. PICK r \in records : r.name = n
          BY <4>2 DEF Named
        <5> QED
          BY <1>1, <1>2, <3>1, <5>1, Lookup, GoodRecords
      <4> QED
        BY <4>1, <4>2
    <3>3. newEnd \in Nat
      BY <3>1, GoodRecords
    <3> HIDE DEF kept, victim, found, size
    <3> QED
      BY <1>1, <1>2, <1>5, <3>1, <3>2, <3>3
  <2>2. new \in Record /\ new.pos = newEnd /\ new.name = n /\ new.value = v /\ new.size = size
    BY <1>2, <2>1 DEF Record
  <2>3. Good(records', end')
    <3>1. ~IsSystem(new)
      BY <2>2 DEF IsSystem, UserName
    <3>2. SizeOfRecordWithName(new.name, new.value) <= new.size
      BY <1>2, <2>2
    <3> HIDE DEF kept, newEnd, new, size
    <3> QED
      BY <1>11, <2>1, <2>2, <3>1, <3>2, AppendedGood
  <2>4. GoodCache(records', cache')
    BY <1>11, <2>2, <2>3, CacheOf
  <2>5. /\ GoodHidden(disabled', accessible')
        /\ accessible' \in Nat /\ accessible' <= TotalSize
        /\ end + SizeOfHeader <= accessible'
        /\ more > 0 => end + more + SizeOfHeader <= accessible'
    BY <1>9, <1>11
  <2>6. end' + SizeOfHeader <= accessible'
    BY <1>1, <1>2, <1>6, <1>11, <2>1, <2>5, SizesAssumption
  <2>7. Whole(records', end', disabled', accessible', cache')
    BY <2>3, <2>4, <2>5, <2>6 DEF Whole
  <2> QED
    BY <1>4, <1>11, <2>7, SuccessKeeps DEF Status
<1> HIDE DEF found, size, more, victim, kept, newEnd, new
<1>12. \/ Fail("CanceledByDelegate", cache) /\ UNCHANGED <<accessible, disabled>>
       \/ Fail("NotEnoughSpaceAvailable", found) /\ UNCHANGED <<accessible, disabled>>
       \/ /\ more > 0 => CanFree(more, end)
          /\ IF more > 0 THEN FreeSpaceFor(more, end) ELSE UNCHANGED <<accessible, disabled>>
          /\ Fail("NameTaken", RecallRival(records, found, n))
       \/ /\ more > 0 => CanFree(more, end)
          /\ ~Refuses(records, found, n, o)
          /\ IF more > 0 THEN FreeSpaceFor(more, end) ELSE UNCHANGED <<accessible, disabled>>
          /\ records' = kept \cup {new}
          /\ end' = newEnd + size
          /\ cache' = [record |-> n, ptr |-> newEnd]
          /\ status' = "None"
  BY Zenon DEF CreateRecord, found, size, more, victim, kept, newEnd, new
<1> QED
  BY <1>7, <1>8, <1>10, <1>11, <1>12, Zenon

\* The record found by its name, and its address.
LEMMA Found ==
  ASSUME NEW R, NEW hi, Good(R, hi), NEW c, GoodCache(R, c), NEW n \in Name,
         PointerOfRecord(R, c, n) # NullPtr
  PROVE  \E r \in R : /\ r.name = n /\ r.pos = PointerOfRecord(R, c, n)
                      /\ RecordAt(R, PointerOfRecord(R, c, n)) = r
<1>1. Named(R, n) # {}
  BY Lookup
<1>2. PICK r \in R : r.name = n
  BY <1>1 DEF Named
<1>3. PointerOfRecord(R, c, n) = r.pos
  BY <1>2, Lookup
<1> QED
  BY <1>2, <1>3, RecordAtItsAddress

\* A record that grows or shrinks in place, once there is room for it
LEMMA ResizeKeeps ==
  ASSUME IInv, Idle, UNCHANGED <<vetoed, sweep>>, status' \in Status,
         NEW R, NEW hi, Good(R, hi), hi <= end, NEW r \in R,
         NEW new \in Record, new.pos = r.pos,
         SizeOfRecordWithName(new.name, new.value) <= new.size,
         IsSystem(new) <=> IsSystem(r),
         new.name = r.name \/ Fits(new.name, R \ {r}),
         CanFree(new.size - r.size, hi), FreeSpaceFor(new.size - r.size, hi),
         records' = Resized(R, r, new),
         end' = hi + (new.size - r.size),
         GoodCache(records', cache')
  PROVE  IInv'
<1>1. hi \in Nat /\ r.size \in Nat /\ new.size \in Nat
  BY GoodRecords DEF Record
<1>2. Good(records', end')
  BY ResizedGood
<1>3. /\ GoodHidden(disabled', accessible')
      /\ accessible' \in Nat /\ accessible' <= TotalSize
      /\ hi + (new.size - r.size) + SizeOfHeader <= accessible'
  BY <1>1, SpaceIsFreed
<1>4. Whole(records', end', disabled', accessible', cache')
  BY <1>2, <1>3 DEF Whole
<1> QED
  BY <1>4, SuccessKeeps

\* setNameOfRecord, once the victim is gone and before the record is looked up
\* again
LEMMA VictimGone ==
  ASSUME IInv, NEW old \in Name, NEW n \in Name,
         ~Refuses(records, Recall(records, cache, old), n, FALSE)
  PROVE  LET found  == Recall(records, cache, old)
             victim == Victim(records, found, n)
             rest   == WithoutVictim(records, found, victim)
             newEnd == end - VictimSize(records, found, victim)
             after  == IF victim = NoRecord THEN RecallRival(records, found, n) ELSE EmptyCache
         IN  /\ Good(rest, newEnd) /\ Fits(n, rest) /\ GoodCache(rest, after)
             /\ newEnd \in Nat /\ newEnd <= end
<1> DEFINE found  == Recall(records, cache, old)
           victim == Victim(records, found, n)
           rest   == WithoutVictim(records, found, victim)
           newEnd == end - VictimSize(records, found, victim)
           after  == IF victim = NoRecord THEN RecallRival(records, found, n) ELSE EmptyCache
<1>1. Good(records, end) /\ GoodCache(records, cache) /\ end \in Nat
  BY IInvParts DEF Whole, Good, Sound
<1>2. GoodCache(records, found)
  BY <1>1, Lookup
<1>3. /\ Good(rest, newEnd) /\ Fits(n, rest)
      /\ VictimSize(records, found, victim) \in Nat
  BY <1>1, <1>2, WithoutVictimGood
<1>4. newEnd \in Nat /\ newEnd <= end
  BY <1>1, <1>3, GoodRecords
<1>5. GoodCache(rest, after)
  <2>1. CASE victim = NoRecord
    <3>1. rest = records
      BY <2>1 DEF WithoutVictim
    <3>2. GoodCache(records, RecallRival(records, found, n))
      BY <1>1, <1>2, RecallRivalGood
    <3> QED
      BY <2>1, <3>1, <3>2
  <2>2. CASE victim # NoRecord
    BY <2>2, EmptyCacheGood
  <2> QED
    BY <2>1, <2>2
<1> QED
  BY <1>3, <1>4, <1>5

LEMMA RenameKeeps ==
  ASSUME IInv, NEW r0 \in UserRecords, NEW n \in UserName, r0.name.ext = n.ext,
         SetNameOfRecord(r0.name, n)
  PROVE  IInv'
<1> DEFINE old    == r0.name
           found  == Recall(records, cache, old)
           victim == Victim(records, found, n)
           rest   == WithoutVictim(records, found, victim)
           newEnd == end - VictimSize(records, found, victim)
           after  == IF victim = NoRecord THEN RecallRival(records, found, n) ELSE EmptyCache
           ptr    == PointerOfRecord(rest, after, old)
           r      == RecordAt(rest, ptr)
           delta  == SizeOfName(n) - SizeOfName(old)
           new    == [r EXCEPT !.name = n, !.size = r.size + delta]
<1>1. /\ Good(records, end) /\ GoodCache(records, cache)
      /\ GoodHidden(disabled, accessible)
      /\ accessible \in Nat /\ accessible <= TotalSize /\ end + SizeOfHeader <= accessible
      /\ end \in Nat /\ SizeOfHeader \in Nat /\ vetoed \subseteq Extension
  BY IInvParts, SizesAssumption DEF Whole, Good, Sound, Rest
<1>2. n \in Name /\ old \in Name /\ r0 \in records /\ n.ext # SystemExtension
  BY <1>1, GoodRecords DEF UserName, UserRecords
<1>3. GoodCache(records, found)
  BY <1>1, <1>2, Lookup
<1>4. Idle /\ UNCHANGED <<vetoed, sweep>>
  BY DEF SetNameOfRecord
<1>5. CASE status' = "None" /\ UNCHANGED <<records, end, cache, accessible, disabled>>
  <2>1. Whole(records', end', disabled', accessible', cache')
    BY <1>1, <1>5 DEF Whole
  <2> QED
    BY <1>4, <1>5, <2>1, SuccessKeeps DEF Status
<1>6. CASE Fail("CanceledByDelegate", found) /\ UNCHANGED <<accessible, disabled>>
  BY <1>3, <1>4, <1>6, FailAloneKeeps DEF Failure
<1>7. CASE Fail("NameTaken", RecallRival(records, found, n)) /\ UNCHANGED <<accessible, disabled>>
  <2>1. GoodCache(records, RecallRival(records, found, n))
    BY <1>1, <1>2, <1>3, RecallRivalGood
  <2> QED
    BY <1>4, <1>7, <2>1, FailAloneKeeps DEF Failure
<1>8. ASSUME ~Refuses(records, found, n, FALSE)
      PROVE  /\ Good(rest, newEnd) /\ Fits(n, rest) /\ GoodCache(rest, after)
             /\ newEnd \in Nat /\ newEnd <= end
  BY <1>2, <1>8, VictimGone, Zenon
<1>9. CASE /\ ~Refuses(records, found, n, FALSE)
           /\ status' \in {"RecordDoesNotExist", "NotEnoughSpaceAvailable"}
           /\ records' = rest
           /\ end' = newEnd
           /\ cache' = Recall(rest, after, old)
           /\ UNCHANGED <<accessible, disabled>>
  <2>1. Good(rest, newEnd) /\ GoodCache(rest, after) /\ newEnd \in Nat /\ newEnd <= end
    BY <1>8, <1>9
  <2>2. GoodCache(records', cache')
    BY <1>2, <1>9, <2>1, Lookup
  <2>3. Whole(records', end', disabled', accessible', cache')
    <3> HIDE DEF rest, newEnd, after
    <3> QED
      BY <1>1, <1>9, <2>1, <2>2 DEF Whole
  <2> QED
    BY <1>4, <1>9, <2>3, SuccessKeeps DEF Status, Failure
<1>10. CASE /\ ~Refuses(records, found, n, FALSE)
            /\ ptr # NullPtr /\ CanFree(delta, newEnd)
            /\ status' = "None"
            /\ FreeSpaceFor(delta, newEnd)
            /\ records' = Resized(rest, r, new)
            /\ end' = newEnd + delta
            /\ cache' = [record |-> n, ptr |-> ptr]
  <2>1. Good(rest, newEnd) /\ Fits(n, rest) /\ GoodCache(rest, after) /\ newEnd \in Nat /\ newEnd <= end
    BY <1>8, <1>10
  <2>2. r \in rest /\ r.name = old /\ r.pos = ptr
    BY <1>2, <1>10, <2>1, Found
  <2>3. /\ r \in Record /\ r.size \in Nat /\ r.value \in Value /\ r.pos \in Nat
        /\ SizeOfRecordWithName(old, r.value) <= r.size
    BY <2>1, <2>2, GoodRecords DEF Good, Sized
  <2> HIDE DEF r, rest, newEnd, after, ptr, found, victim
  <2>4. SizeOfName(n) \in Nat /\ SizeOfName(old) \in Nat /\ SizeOfValue[r.value] \in Nat /\ SizeOfHeader \in Nat
    BY <1>1, <1>2, <2>3, RecordSize, SizesAssumption
  <2>5. r.size + delta \in Nat /\ SizeOfRecordWithName(n, r.value) <= r.size + delta
    BY <2>3, <2>4 DEF SizeOfRecordWithName
  <2>6. new \in Record /\ new.pos = r.pos /\ new.name = n /\ new.value = r.value /\ new.size = r.size + delta
    BY <1>2, <2>3, <2>5 DEF Record
  <2>7. IsSystem(new) <=> IsSystem(r)
    BY <1>2, <2>2, <2>6 DEF IsSystem
  <2>8. Fits(n, rest \ {r})
    BY <2>1 DEF Fits
  <2> HIDE DEF new, delta
  <2>9. new.size - r.size = delta
    BY <2>3, <2>4, <2>6 DEF delta
  <2>10. Good(records', newEnd + delta)
    BY <1>10, <2>1, <2>2, <2>5, <2>6, <2>7, <2>8, <2>9, ResizedGood
  <2>11. GoodCache(records', cache')
    BY <1>10, <2>2, <2>6, <2>10, CacheOf DEF Resized
  <2> QED
    BY <1>4, <1>10, <2>1, <2>2, <2>5, <2>6, <2>7, <2>8, <2>9, <2>11, ResizeKeeps DEF Status
<1>11. \/ status' = "None" /\ UNCHANGED <<records, end, cache, accessible, disabled>>
       \/ Fail("CanceledByDelegate", found) /\ UNCHANGED <<accessible, disabled>>
       \/ Fail("NameTaken", RecallRival(records, found, n)) /\ UNCHANGED <<accessible, disabled>>
       \/ /\ ~Refuses(records, found, n, FALSE)
          /\ IF ptr = NullPtr \/ ~CanFree(delta, newEnd)
             THEN /\ status' = IF ptr = NullPtr THEN "RecordDoesNotExist" ELSE "NotEnoughSpaceAvailable"
                  /\ records' = rest
                  /\ end' = newEnd
                  /\ cache' = Recall(rest, after, old)
                  /\ UNCHANGED <<accessible, disabled>>
             ELSE /\ status' = "None"
                  /\ FreeSpaceFor(delta, newEnd)
                  /\ records' = Resized(rest, r, new)
                  /\ end' = newEnd + delta
                  /\ cache' = [record |-> n, ptr |-> ptr]
  BY Zenon DEF SetNameOfRecord
<1> HIDE DEF old, found, victim, rest, newEnd, after, ptr, r, delta, new
<1> QED
  BY <1>5, <1>6, <1>7, <1>9, <1>10, <1>11

LEMMA SetValueKeeps ==
  ASSUME IInv, NEW n \in UserName, NEW v \in Value, SetValueOfRecord(n, v)
  PROVE  IInv'
<1> DEFINE ptr   == PointerOfRecord(records, cache, n)
           found == Recall(records, cache, n)
           r     == RecordAt(records, ptr)
           size  == SizeOfRecordWithName(n, v)
           new   == [r EXCEPT !.value = v, !.size = size]
<1>1. Good(records, end) /\ GoodCache(records, cache) /\ end \in Nat
  BY IInvParts DEF Whole, Good, Sound
<1>2. n \in Name /\ size \in Nat
  BY RecordSize DEF UserName
<1>3. GoodCache(records, found)
  BY <1>1, <1>2, Lookup
<1>4. Idle /\ UNCHANGED <<vetoed, sweep>>
  BY DEF SetValueOfRecord
<1>5. ASSUME NEW s \in Failure, Fail(s, cache) \/ Fail(s, found), UNCHANGED <<accessible, disabled>>
      PROVE  IInv'
  BY <1>1, <1>3, <1>4, <1>5, FailAloneKeeps
<1>6. CASE /\ ptr # NullPtr
           /\ CanFree(size - r.size, end)
           /\ FreeSpaceFor(size - r.size, end)
           /\ records' = Resized(records, r, new)
           /\ end' = end + size - r.size
           /\ cache' = [record |-> n, ptr |-> ptr]
           /\ status' = "None"
  <2>1. r \in records /\ r.name = n /\ r.pos = ptr
    BY <1>1, <1>2, <1>6, Found
  <2>2. r \in Record /\ r.size \in Nat
    BY <1>1, <2>1, GoodRecords
  <2> HIDE DEF r, ptr, size
  <2>3. new \in Record /\ new.pos = r.pos /\ new.name = n /\ new.value = v /\ new.size = size
    BY <1>2, <2>1, <2>2 DEF Record
  <2> HIDE DEF new
  <2>4. SizeOfRecordWithName(new.name, new.value) <= new.size /\ (IsSystem(new) <=> IsSystem(r))
    BY <1>2, <2>1, <2>3 DEF size, IsSystem
  <2>5. end' = end + (new.size - r.size) /\ size - r.size = new.size - r.size
    BY <1>1, <1>2, <1>6, <2>2, <2>3
  <2>6. Good(records', end')
    <3>1. new.name = r.name
      BY <2>1, <2>3
    <3>2. Good(Resized(records, r, new), end + (new.size - r.size))
      BY <1>1, <2>1, <2>3, <2>4, <3>1, ResizedGood
    <3> QED
      BY <1>6, <2>5, <3>2
  <2>7. GoodCache(records', cache')
    BY <1>6, <2>1, <2>3, <2>6, CacheOf DEF Resized
  <2>8. new.name = r.name /\ end <= end
    BY <1>1, <2>1, <2>3
  <2>9. CanFree(new.size - r.size, end) /\ FreeSpaceFor(new.size - r.size, end)
    BY <1>6, <2>5
  <2> QED
    BY <1>1, <1>4, <1>6, <2>1, <2>3, <2>4, <2>5, <2>7, <2>8, <2>9, ResizeKeeps DEF Status
<1> HIDE DEF ptr, found, r, size, new
<1>7. \/ \E s \in Failure : (Fail(s, cache) \/ Fail(s, found)) /\ UNCHANGED <<accessible, disabled>>
      \/ /\ ptr # NullPtr
         /\ CanFree(size - r.size, end)
         /\ FreeSpaceFor(size - r.size, end)
         /\ records' = Resized(records, r, new)
         /\ end' = end + size - r.size
         /\ cache' = [record |-> n, ptr |-> ptr]
         /\ status' = "None"
  BY DEF SetValueOfRecord, ptr, found, r, size, new, Failure
<1> QED
  BY <1>5, <1>6, <1>7

\* destroyRecord, alone or in the walk of destroyRecordsMatching
LEMMA DestroyKeepsWhole ==
  ASSUME IInv, NEW r \in records, Destroy(r.name)
  PROVE  /\ Whole(records', end', disabled', accessible', cache')
         /\ Rest(vetoed', status')
         /\ vetoed' = vetoed
         /\ r.name.ext \notin vetoed =>
              /\ end' = end - r.size
              /\ records' = Without(records, r)
<1>1. /\ Good(records, end) /\ GoodCache(records, cache)
      /\ GoodHidden(disabled, accessible)
      /\ accessible \in Nat /\ accessible <= TotalSize /\ end + SizeOfHeader <= accessible
      /\ end \in Nat /\ SizeOfHeader \in Nat /\ vetoed \subseteq Extension
  BY IInvParts, SizesAssumption DEF Whole, Good, Sound, Rest
<1>2. /\ r.name \in Name /\ r.size \in Nat
      /\ RecordAt(records, PointerOfRecord(records, cache, r.name)) = r
      /\ GoodCache(records, Recall(records, cache, r.name))
  BY <1>1, GoodRecords, Lookup, RecordAtItsAddress
<1>3. UNCHANGED <<vetoed, accessible, disabled>>
  BY DEF Destroy
<1>4. CASE r.name.ext \in vetoed /\ Fail("CanceledByDelegate", Recall(records, cache, r.name))
  BY <1>1, <1>2, <1>3, <1>4 DEF Fail, Whole, Rest, Status, Failure
<1>5. CASE /\ r.name.ext \notin vetoed
           /\ records' = Without(records, r)
           /\ end' = end - r.size
           /\ cache' = EmptyCache
           /\ status' = "None"
  <2>1. Good(records', end')
    BY <1>1, <1>5, WithoutGood
  <2>2. end' + SizeOfHeader <= accessible'
    BY <1>1, <1>2, <1>3, <1>5
  <2>3. GoodCache(records', cache')
    BY <1>5, EmptyCacheGood
  <2> QED
    BY <1>1, <1>3, <1>5, <2>1, <2>2, <2>3 DEF Whole, Rest, Status
<1> QED
  BY <1>2, <1>4, <1>5 DEF Destroy

LEMMA DestroyKeeps ==
  ASSUME IInv, NEW r \in records, DestroyRecord(r.name)
  PROVE  IInv'
<1>1. Idle /\ Destroy(r.name) /\ sweep' = sweep
  BY DEF DestroyRecord
<1> QED
  BY <1>1, DestroyKeepsWhole, SuccessKeeps DEF Rest

LEMMA BeginSweepKeeps ==
  ASSUME IInv, NEW exts, exts \subseteq Extension \ {SystemExtension}, BeginSweep(exts)
  PROVE  IInv'
<1>1. /\ Whole(records, end, disabled, accessible, cache) /\ Rest(vetoed, status)
      /\ Good(records, end)
  BY IInvParts DEF Whole
<1>2. Whole(records', end', disabled', accessible', cache') /\ Rest(vetoed', status')
  BY <1>1 DEF BeginSweep, Rest, Status
<1>3. sweep'.exts = exts /\ sweep'.ptr = IF records = {} THEN NullPtr ELSE 0
  BY DEF BeginSweep
<1>4. 0 \in {end} \cup {r.pos : r \in records}
  BY <1>1 DEF Good, Sound, Packed
<1>5. sweep' \in [exts : SUBSET Extension, ptr : Nat \cup {NullPtr}]
  BY DEF BeginSweep
<1>6. SweepOK'
  BY <1>3, <1>4 DEF SweepOK, BeginSweep
<1> QED
  BY <1>2, <1>5, <1>6, IInvFromParts

LEMMA SweepOneKeeps ==
  ASSUME IInv, SweepOne
  PROVE  IInv'
<1> DEFINE r == RecordAt(records, sweep.ptr)
<1>1. /\ Good(records, end) /\ end \in Nat
      /\ Whole(records, end, disabled, accessible, cache)
      /\ Rest(vetoed, status) /\ SweepOK
      /\ sweep \in [exts : SUBSET Extension, ptr : Nat \cup {NullPtr}]
  BY IInvParts DEF Whole, Good, Sound
<1>2. /\ sweep.exts \cap vetoed = {}
      /\ SystemExtension \notin sweep.exts
      /\ sweep.ptr \in {q.pos : q \in records}
      /\ sweep.exts # {}
  BY <1>1 DEF SweepOne, Idle, SweepOK
<1>3. r \in records /\ r.pos = sweep.ptr
  BY <1>1, <1>2, RecordAtItsAddress
<1>4. r.pos \in Nat /\ r.size \in Nat
  BY <1>1, <1>3, GoodRecords
<1>5. CASE r.name.ext \in sweep.exts /\ Destroy(r.name) /\ UNCHANGED sweep
  <2>1. /\ Whole(records', end', disabled', accessible', cache') /\ Rest(vetoed', status')
        /\ vetoed' = vetoed
    BY <1>3, <1>5, DestroyKeepsWhole
  <2>2. end' = end - r.size /\ records' = Without(records, r)
    BY <1>2, <1>3, <1>5, DestroyKeepsWhole
  <2>3. r.pos \in {end'} \cup {q.pos : q \in records'}
    BY <1>1, <1>3, <2>2, NextTakesItsPlace DEF Good
  <2> HIDE DEF r
  <2>4. SweepOK'
    BY <1>2, <1>3, <1>5, <2>1, <2>3 DEF SweepOK
  <2> QED
    BY <1>1, <1>5, <2>1, <2>4, IInvFromParts
<1>6. CASE /\ sweep' = [sweep EXCEPT !.ptr = IF r.pos + r.size = end THEN NullPtr ELSE r.pos + r.size]
           /\ status' = "None"
           /\ UNCHANGED <<records, disabled, end, accessible, cache, vetoed>>
  <2>1. r.pos + r.size \in {end} \cup {q.pos : q \in records}
    BY <1>1, <1>3 DEF Good, Sound, Packed
  <2> HIDE DEF r
  <2>2. /\ sweep'.exts = sweep.exts
        /\ sweep'.ptr \in {NullPtr} \cup {q.pos : q \in records}
        /\ sweep' \in [exts : SUBSET Extension, ptr : Nat \cup {NullPtr}]
    BY <1>1, <1>4, <1>6, <2>1
  <2>3. SweepOK'
    BY <1>2, <1>6, <2>2 DEF SweepOK
  <2>4. Whole(records', end', disabled', accessible', cache') /\ Rest(vetoed', status')
    BY <1>1, <1>6 DEF Rest, Status
  <2> QED
    BY <2>2, <2>3, <2>4, IInvFromParts
<1> QED
  BY <1>5, <1>6 DEF SweepOne, NextRecord

LEMMA EndSweepKeeps ==
  ASSUME IInv, EndSweep
  PROVE  IInv'
<1>1. Whole(records', end', disabled', accessible', cache') /\ Rest(vetoed', status')
  BY IInvParts DEF EndSweep, Rest, Status
<1>2. sweep' = NoSweep
  BY DEF EndSweep
<1>3. SweepOK' /\ sweep' \in [exts : SUBSET Extension, ptr : Nat \cup {NullPtr}]
  BY <1>2 DEF NoSweep, SweepOK
<1> QED
  BY <1>1, <1>3, IInvFromParts

LEMMA DisableKeeps ==
  ASSUME IInv, DisableAllRecords
  PROVE  IInv'
<1> DEFINE users == {r \in records : ~IsSystem(r)}
           f     == First(users).pos
           moved == {r \in records : r.pos >= f}
           kept  == {r \in records : r.pos < f}
<1>1. /\ Good(records, end) /\ end \in Nat
      /\ Whole(records, end, disabled, accessible, cache)
      /\ end + SizeOfHeader <= TotalSize /\ TotalSize \in Nat /\ SizeOfHeader \in Nat
      /\ accessible = TotalSize
  BY IInvParts, SizesAssumption DEF Whole, Good, Sound, DisableAllRecords
<1>2. Idle /\ UNCHANGED <<vetoed, sweep>> /\ status' = "None"
  BY DEF DisableAllRecords
<1>3. CASE UNCHANGED <<records, disabled, end, accessible, cache>>
  <2>1. Whole(records', end', disabled', accessible', cache')
    BY <1>1, <1>3
  <2> QED
    BY <1>2, <2>1, SuccessKeeps DEF Status
<1>4. CASE /\ users # {}
           /\ disabled' = {Moved(r, TotalSize - end) : r \in moved}
           /\ records' = records \ moved
           /\ end' = f
           /\ accessible' = TotalSize - (end - f)
           /\ cache' = EmptyCache
  <2>1. PICK u \in users : f = u.pos /\ \A s \in users : f <= s.pos
    <3>1. users \subseteq Record
      BY <1>1 DEF Good, Sound
    <3> HIDE DEF users
    <3> QED
      BY <1>4, <3>1, FirstExists
  <2>2. u \in records /\ f \in Nat /\ f <= end
    BY <1>1, <2>1, GoodRecords
  <2> HIDE DEF f
  <2>3. \A r \in records : r.pos \in Nat /\ r \in Record
    BY <1>1, GoodRecords
  <2>4. /\ \A r \in kept : IsSystem(r)
        /\ \A r \in moved : ~IsSystem(r)
    BY <1>1, <2>1, <2>2, <2>3 DEF Good, SettingsFirst
  <2>5. Packed(kept, 0, f) /\ Packed(moved, f, end)
    BY <1>1, <2>1, <2>2, SplitPacked DEF Good
  <2>6. records' = kept
    BY <1>4, <2>2, <2>3
  <2>7. kept \in SUBSET records /\ moved \in SUBSET records
    OBVIOUS
  <2> HIDE DEF kept, moved
  <2>8. /\ WellNamed(kept) /\ Sized(kept) /\ SettingsFirst(kept)
        /\ WellNamed(moved) /\ Sized(moved)
    BY <1>1, <2>7, SubsetKeeps DEF Good
  <2>9. Good(records', end')
    BY <1>1, <1>4, <2>2, <2>5, <2>6, <2>7, <2>8 DEF Good, Sound, Positive
  <2>10. GoodHidden(disabled', accessible')
    <3> DEFINE delta == TotalSize - end
               M(r) == Moved(r, delta)
               D == {M(r) : r \in moved}
    <3>1. delta \in Int /\ f + delta \in Nat /\ f + delta = accessible' /\ end + delta = TotalSize
      BY <1>1, <1>4, <2>2
    <3>2. moved \subseteq Record
      BY <2>3, <2>7
    <3>3. D \subseteq Record /\ Packed(D, accessible', TotalSize)
      <4> HIDE DEF delta
      <4>1. D \subseteq Record /\ Packed(D, f + delta, end + delta)
        BY <1>1, <2>2, <2>5, <3>1, <3>2, MovedPacked
      <4> QED
        BY <3>1, <4>1
    <3>4. ASSUME NEW r \in moved
          PROVE  M(r).name = r.name /\ M(r).value = r.value /\ M(r).size = r.size
      BY <3>2 DEF Moved, Record
    <3> HIDE DEF M
    <3>5. Sized(D)
      BY <2>8, <3>4 DEF Sized
    <3>6. WellNamed(D)
      BY <2>8, <3>4 DEF WellNamed, UniqueNames, OneMeaning
    <3>7. \A d \in D : ~IsSystem(d)
      BY <2>4, <3>4 DEF IsSystem
    <3>8. disabled' = D
      BY <1>4 DEF M
    <3> QED
      BY <3>3, <3>5, <3>6, <3>7, <3>8 DEF GoodHidden
  <2>11. /\ accessible' \in Nat /\ accessible' <= TotalSize
         /\ end' + SizeOfHeader <= accessible'
    BY <1>1, <1>4, <2>2
  <2>12. GoodCache(records', cache')
    BY <1>4, EmptyCacheGood
  <2>13. Whole(records', end', disabled', accessible', cache')
    BY <2>9, <2>10, <2>11, <2>12 DEF Whole
  <2> QED
    BY <1>2, <2>13, SuccessKeeps DEF Status
<1> QED
  BY <1>3, <1>4 DEF DisableAllRecords, FirstNonSysRecord

LEMMA RestoreKeeps ==
  ASSUME IInv, RestoreDisabledRecords
  PROVE  IInv'
<1> DEFINE delta == end - accessible
           M(r) == Moved(r, delta)
           D == {M(r) : r \in disabled}
<1>1. /\ Good(records, end) /\ end \in Nat /\ GoodCache(records, cache)
      /\ GoodHidden(disabled, accessible)
      /\ accessible \in Nat /\ accessible <= TotalSize /\ end + SizeOfHeader <= accessible
      /\ TotalSize \in Nat /\ SizeOfHeader \in Nat /\ SizeOfHeader > 0
  BY IInvParts, SizesAssumption DEF Whole, Good, Sound
<1>2. /\ Idle /\ UNCHANGED <<vetoed, sweep>> /\ status' = "None"
      /\ \A r \in records : IsSystem(r)
      /\ records' = records \cup D
      /\ end' = end + TotalSize - accessible
      /\ accessible' = TotalSize /\ disabled' = {} /\ cache' = cache
  BY DEF RestoreDisabledRecords
<1>3. /\ delta \in Int /\ accessible + delta = end /\ TotalSize + delta = end'
      /\ end' \in Nat /\ end <= end' /\ end' + SizeOfHeader <= TotalSize
  BY <1>1, <1>2
<1>4. D \subseteq Record /\ Packed(D, end, end')
  <2> HIDE DEF delta
  <2>1. D \subseteq Record /\ Packed(D, accessible + delta, TotalSize + delta)
    BY <1>1, <1>3, MovedPacked DEF GoodHidden
  <2> QED
    BY <1>3, <2>1
<1>5. ASSUME NEW r \in disabled
      PROVE  M(r).name = r.name /\ M(r).value = r.value /\ M(r).size = r.size /\ ~IsSystem(M(r))
  BY <1>1 DEF Moved, Record, GoodHidden, IsSystem
<1> HIDE DEF M
<1>6. Sized(D)
  BY <1>1, <1>5 DEF Sized, GoodHidden
<1>7. WellNamed(D)
  BY <1>1, <1>5 DEF WellNamed, UniqueNames, OneMeaning, GoodHidden
<1>8. \A d \in D : ~IsSystem(d)
  BY <1>5
<1> HIDE DEF D
<1>9. Packed(records', 0, end')
  BY <1>1, <1>2, <1>3, <1>4, JoinedPacked DEF Good, Sound
<1>10. Positive(D)
  <2>1. \A d \in D : d.name \in Name /\ d.value \in Value /\ d.size \in Nat
    BY <1>4 DEF Record
  <2>2. \A d \in D : SizeOfRecordWithName(d.name, d.value) \in Nat /\ SizeOfRecordWithName(d.name, d.value) >= 3
    BY <2>1, RecordSize
  <2> QED
    BY <1>6, <2>1, <2>2 DEF Sized, Positive
<1>11. Sound(records', end')
  BY <1>1, <1>2, <1>3, <1>4, <1>9, <1>10 DEF Good, Sound, Positive
<1>12. WellNamed(records')
  <2>1. \A r \in records, d \in D : r.name # d.name /\ ~Restrictive(r.name.ext)
    BY <1>2, <1>8, NamesAssumption DEF IsSystem, Restrictive
  <2> QED
    BY <1>1, <1>2, <1>7, <2>1 DEF Good, WellNamed, UniqueNames, OneMeaning
<1>13. Sized(records')
  BY <1>1, <1>2, <1>6 DEF Good, Sized
<1>14. SettingsFirst(records')
  <2>1. \A r \in records, d \in D : r.pos < d.pos
    BY <1>1, <1>4, GoodRecords DEF Packed, Record
  <2> QED
    BY <1>2, <1>8, <2>1 DEF SettingsFirst
<1>15. GoodHidden(disabled', accessible')
  BY <1>2 DEF GoodHidden, Sized, WellNamed, UniqueNames, OneMeaning, Packed
<1>16. GoodCache(records', cache')
  BY <1>1, <1>2 DEF GoodCache
<1>17. Whole(records', end', disabled', accessible', cache')
  BY <1>1, <1>2, <1>3, <1>11, <1>12, <1>13, <1>14, <1>15, <1>16 DEF Whole, Good
<1> QED
  BY <1>2, <1>17, SuccessKeeps DEF Status

\* putAvailableSpaceAtEndOfRecord
LEMMA PutKeeps ==
  ASSUME IInv, NEW r \in records, PutAvailableSpaceAtEndOfRecord(r.name)
  PROVE  IInv'
<1> DEFINE new == [r EXCEPT !.size = r.size + AvailableSize(end)]
<1>1. /\ Good(records, end) /\ end \in Nat /\ GoodCache(records, cache)
      /\ GoodHidden(disabled, accessible)
      /\ accessible \in Nat /\ accessible <= TotalSize /\ end + SizeOfHeader <= accessible
      /\ SizeOfHeader \in Nat
  BY IInvParts, SizesAssumption DEF Whole, Good, Sound
<1>2. /\ r.name \in Name /\ r \in Record /\ r.size \in Nat
      /\ SizeOfRecordWithName(r.name, r.value) \in Nat
      /\ SizeOfRecordWithName(r.name, r.value) <= r.size
      /\ RecordAt(records, PointerOfRecord(records, cache, r.name)) = r
  <2>1. r.name \in Name /\ r.value \in Value /\ r \in Record /\ r.size \in Nat
    BY <1>1, GoodRecords
  <2> QED
    BY <1>1, <2>1, RecordSize, Lookup, RecordAtItsAddress DEF Good, Sized
<1>3. /\ Idle /\ UNCHANGED <<disabled, accessible, vetoed, sweep>> /\ status' = "None"
      /\ records' = Resized(records, r, new)
      /\ end' = end + AvailableSize(end)
      /\ cache' = Recall(records, cache, r.name)
  BY <1>2 DEF PutAvailableSpaceAtEndOfRecord
<1>4. AvailableSize(end) \in Nat /\ end + AvailableSize(end) + SizeOfHeader = accessible
  BY <1>1 DEF AvailableSize
<1>5. /\ new \in Record /\ new.pos = r.pos /\ new.name = r.name /\ new.value = r.value
      /\ new.size = r.size + AvailableSize(end)
  BY <1>2, <1>4 DEF Record
<1> HIDE DEF new
<1>6. /\ SizeOfRecordWithName(new.name, new.value) <= new.size
      /\ IsSystem(new) <=> IsSystem(r)
      /\ new.size - r.size = AvailableSize(end)
  BY <1>2, <1>4, <1>5 DEF IsSystem
<1>7. Good(records', end')
  <2>1. Good(Resized(records, r, new), end + (new.size - r.size))
    BY <1>1, <1>5, <1>6, ResizedGood
  <2> QED
    BY <1>3, <1>6, <2>1
<1>8. GoodCache(records', cache')
  <2>1. Recall(records, cache, r.name) = [record |-> r.name, ptr |-> r.pos]
    <3>1. PointerOfRecord(records, cache, r.name) = r.pos /\ r.pos # NullPtr
      BY <1>1, <1>2, Lookup, GoodRecords DEF NullPtr
    <3> QED
      BY <3>1 DEF Recall
  <2> QED
    BY <1>3, <1>5, <1>7, <2>1, CacheOf DEF Resized
<1>9. Whole(records', end', disabled', accessible', cache')
  BY <1>1, <1>3, <1>4, <1>7, <1>8 DEF Whole
<1> QED
  BY <1>3, <1>9, SuccessKeeps DEF Status

\* removeDataFromEndOfRecord, of the bytes that the script does not use
LEMMA RemoveKeeps ==
  ASSUME IInv, NEW r \in records, RemoveDataFromEndOfRecord(r.name, SpareSize(r))
  PROVE  IInv'
<1> DEFINE new == [r EXCEPT !.size = r.size - SpareSize(r)]
<1>1. /\ Good(records, end) /\ end \in Nat /\ GoodCache(records, cache)
      /\ GoodHidden(disabled, accessible)
      /\ accessible \in Nat /\ accessible <= TotalSize /\ end + SizeOfHeader <= accessible
      /\ SizeOfHeader \in Nat
  BY IInvParts, SizesAssumption DEF Whole, Good, Sound
<1>2. /\ r.name \in Name /\ r \in Record /\ r.size \in Nat
      /\ SizeOfRecordWithName(r.name, r.value) \in Nat
      /\ SizeOfRecordWithName(r.name, r.value) <= r.size
      /\ RecordAt(records, PointerOfRecord(records, cache, r.name)) = r
  <2>1. r.name \in Name /\ r.value \in Value /\ r \in Record /\ r.size \in Nat
    BY <1>1, GoodRecords
  <2> QED
    BY <1>1, <2>1, RecordSize, Lookup, RecordAtItsAddress DEF Good, Sized
<1>3. /\ Idle /\ UNCHANGED <<disabled, accessible, vetoed, sweep>> /\ status' = "None"
      /\ records' = Resized(records, r, new)
      /\ end' = end - SpareSize(r)
      /\ cache' = Recall(records, cache, r.name)
  BY <1>2 DEF RemoveDataFromEndOfRecord
<1>4. SpareSize(r) \in Nat /\ r.size - SpareSize(r) = SizeOfRecordWithName(r.name, r.value)
  BY <1>2 DEF SpareSize
<1>5. /\ new \in Record /\ new.pos = r.pos /\ new.name = r.name /\ new.value = r.value
      /\ new.size = SizeOfRecordWithName(r.name, r.value)
  BY <1>2, <1>4 DEF Record
<1> HIDE DEF new
<1>6. /\ SizeOfRecordWithName(new.name, new.value) <= new.size
      /\ IsSystem(new) <=> IsSystem(r)
      /\ end + (new.size - r.size) = end - SpareSize(r)
  BY <1>1, <1>2, <1>4, <1>5 DEF IsSystem
<1>7. Good(records', end')
  <2>1. Good(Resized(records, r, new), end + (new.size - r.size))
    BY <1>1, <1>5, <1>6, ResizedGood
  <2> QED
    BY <1>3, <1>6, <2>1
<1>8. GoodCache(records', cache')
  <2>1. Recall(records, cache, r.name) = [record |-> r.name, ptr |-> r.pos]
    <3>1. PointerOfRecord(records, cache, r.name) = r.pos /\ r.pos # NullPtr
      BY <1>1, <1>2, Lookup, GoodRecords DEF NullPtr
    <3> QED
      BY <3>1 DEF Recall
  <2> QED
    BY <1>3, <1>5, <1>7, <2>1, CacheOf DEF Resized
<1>9. end' + SizeOfHeader <= accessible'
  BY <1>1, <1>3, <1>4
<1>10. Whole(records', end', disabled', accessible', cache')
  BY <1>1, <1>3, <1>7, <1>8, <1>9 DEF Whole
<1> QED
  BY <1>3, <1>10, SuccessKeeps DEF Status

LEMMA WriteKeeps ==
  ASSUME IInv, NEW r \in records, NEW v \in Value, WriteInPlace(r, v)
  PROVE  IInv'
<1> DEFINE new == [r EXCEPT !.value = v]
           T == (records \ {r}) \cup {new}
<1>1. /\ Whole(records, end, disabled, accessible, cache)
      /\ Good(records, end) /\ end \in Nat /\ GoodCache(records, cache)
  BY IInvParts DEF Whole, Good, Sound
<1>2. r \in Record /\ r.size \in Nat /\ r.size > 0 /\ r.pos \in Nat
  BY <1>1, GoodRecords
<1>3. /\ new \in Record /\ new.name = r.name /\ new.pos = r.pos /\ new.size = r.size
      /\ new.value = v
  BY <1>2 DEF Record
<1>4. SizeOfRecordWithName(r.name, v) <= r.size
  BY <1>2 DEF WriteInPlace
<1> HIDE DEF new
<1>5. Packed(T, 0, end)
  <2>1. {t.pos : t \in T} = {q.pos : q \in records}
    BY <1>3
  <2>2. {t.pos + t.size : t \in T} = {q.pos + q.size : q \in records}
    BY <1>3
  <2>3. \A t \in T : 0 <= t.pos /\ t.pos + t.size <= end
    BY <1>1, <1>3 DEF Good, Sound, Packed
  <2>4. \A t, u \in T : t = u \/ t.pos + t.size <= u.pos \/ u.pos + u.size <= t.pos
    BY <1>1, <1>3 DEF Good, Sound, Packed
  <2>5. {q.pos : q \in records} \cup {end} = {q.pos + q.size : q \in records} \cup {0}
    BY <1>1 DEF Good, Sound, Packed
  <2> QED
    BY <2>1, <2>2, <2>3, <2>4, <2>5 DEF Packed
<1>6. Sound(T, end) /\ Sized(T)
  BY <1>1, <1>2, <1>3, <1>4, <1>5 DEF Good, Sound, Positive, Sized
<1>7. WellNamed(T)
  BY <1>1, <1>3 DEF Good, WellNamed, UniqueNames, OneMeaning
<1>8. SettingsFirst(T)
  BY <1>1, <1>3 DEF Good, SettingsFirst, IsSystem
<1>9. GoodCache(T, cache)
  BY <1>1, <1>3 DEF GoodCache
<1>10. /\ Idle /\ UNCHANGED <<disabled, end, accessible, cache, vetoed, sweep>>
       /\ records' = T /\ status' = "None"
  BY DEF WriteInPlace, new
<1> HIDE DEF T
<1>11. Whole(records', end', disabled', accessible', cache')
  BY <1>1, <1>6, <1>7, <1>8, <1>9, <1>10 DEF Whole, Good
<1> QED
  BY <1>10, <1>11, SuccessKeeps DEF Status

LEMMA LookUpKeeps ==
  ASSUME IInv, NEW n \in Name, LookUp(n)
  PROVE  IInv'
<1>1. Good(records, end) /\ GoodCache(records, cache) /\ Whole(records, end, disabled, accessible, cache)
  BY IInvParts DEF Whole
<1>2. Whole(records', end', disabled', accessible', cache')
  BY <1>1, Lookup DEF LookUp, Whole
<1> QED
  BY <1>2, SuccessKeeps DEF LookUp, Status

LEMMA VetoKeeps ==
  ASSUME IInv, NEW exts \in SUBSET Extension, SetVeto(exts)
  PROVE  IInv'
<1>1. Whole(records', end', disabled', accessible', cache') /\ Rest(vetoed', status')
  BY IInvParts DEF SetVeto, Rest, Status
<1>2. SweepOK' /\ sweep' \in [exts : SUBSET Extension, ptr : Nat \cup {NullPtr}]
  BY IInvParts, IdleSweepOK DEF SetVeto
<1> QED
  BY <1>1, <1>2, IInvFromParts

LEMMA NextKeeps == IInv /\ [Next]_vars => IInv'
<1> SUFFICES ASSUME IInv, [Next]_vars PROVE IInv'
  OBVIOUS
<1>1. CASE Create
  BY <1>1, CreateKeeps DEF Create
<1>2. CASE Rename
  BY <1>2, RenameKeeps DEF Rename
<1>3. CASE SetValue
  BY <1>3, SetValueKeeps DEF SetValue
<1>4. CASE DestroyOne
  BY <1>4, DestroyKeeps DEF DestroyOne, UserRecords
<1>5. CASE DestroyMany
  <2>1. CASE DestroyAllRecords
    BY <2>1, BeginSweepKeeps DEF DestroyAllRecords
  <2>2. ASSUME NEW ext \in Extension \ {SystemExtension}, DestroyRecordsWithExtension(ext) PROVE IInv'
    BY <2>2, BeginSweepKeeps DEF DestroyRecordsWithExtension
  <2> QED
    BY <1>5, <2>1, <2>2 DEF DestroyMany
<1>6. CASE SweepOne
  BY <1>6, SweepOneKeeps
<1>7. CASE EndSweep
  BY <1>7, EndSweepKeeps
<1>8. CASE DisableAllRecords
  BY <1>8, DisableKeeps
<1>9. CASE RestoreDisabledRecords
  BY <1>9, RestoreKeeps
<1>10. CASE Edit
  BY <1>10, PutKeeps, RemoveKeeps DEF Edit, Scripts
<1>11. CASE Write
  BY <1>11, WriteKeeps DEF Write
<1>12. CASE Read
  BY <1>12, LookUpKeeps DEF Read
<1>13. CASE Veto
  BY <1>13, VetoKeeps, BootAssumption DEF Veto
<1>14. CASE UNCHANGED vars
  BY <1>14 DEF vars, IInv, TypeOK, LayoutOK, CacheOK, NamesOK, SystemRecordsFirst, SweepOK
<1> QED
  BY <1>1, <1>2, <1>3, <1>4, <1>5, <1>6, <1>7, <1>8, <1>9, <1>10, <1>11, <1>12, <1>13, <1>14 DEF Next

\* Every state the storage reaches satisfies the invariant.
THEOREM Invariance == Spec => []IInv
BY InitInvariant, NextKeeps, PTL DEF Spec

\* The variables keep their types: no operation makes an address negative.
THEOREM TypeCorrect == Spec => []TypeOK
<1>1. IInv => TypeOK
  BY DEF IInv
<1> QED
  BY <1>1, Invariance, PTL

\* The buffer can always be walked, whatever was created, renamed, resized,
\* destroyed, hidden or restored: freeSpaceFor and slideBuffer agree.
THEOREM LayoutCorrect == Spec => []LayoutOK
<1>1. IInv => LayoutOK
  BY DEF IInv
<1> QED
  BY <1>1, Invariance, PTL

\* pointerOfRecord never answers from a cache that a move has made stale.
THEOREM CacheCorrect == Spec => []CacheOK
<1>1. IInv => CacheOK
  BY DEF IInv
<1> QED
  BY <1>1, Invariance, PTL

\* handleCompetingRecord leaves one meaning to each symbol.
THEOREM NamesCorrect == Spec => []NamesOK
<1>1. IInv => NamesOK
  BY DEF IInv
<1> QED
  BY <1>1, Invariance, PTL

\* What disableAllRecords asserts of the order of the records holds.
THEOREM SettingsStayFirst == Spec => []SystemRecordsFirst
<1>1. IInv => SystemRecordsFirst
  BY DEF IInv
<1> QED
  BY <1>1, Invariance, PTL

\* While records are destroyed one after the other, the walk of
\* destroyRecordsMatching stands at a record or at the end.
THEOREM SweepCorrect == Spec => []SweepOK
<1>1. IInv => SweepOK
  BY DEF IInv
<1> QED
  BY <1>1, Invariance, PTL

-----------------------------------------------------------------------------
(* The settings never move *)

\* The settings of R are in S, where they were.
Stay(R, S) ==
  \A r \in R : IsSystem(r) =>
    \E s \in S : s.name = r.name /\ s.pos = r.pos /\ s.size = r.size

LEMMA SameStay == ASSUME NEW R, NEW S, R \subseteq S PROVE Stay(R, S)
BY DEF Stay

LEMMA CopyStays ==
  ASSUME NEW R, NEW hi, Good(R, hi), NEW r \in R, ~IsSystem(r),
         NEW f, NEW T, Copy(f, R \ {r}, T, r.pos)
  PROVE  Stay(R, T)
<1>1. \A q \in R : IsSystem(q) => q \in R \ {r} /\ q.pos < r.pos
  BY DEF Good, SettingsFirst
<1>2. \A q \in R : IsSystem(q) => q \in T
  BY <1>1 DEF Copy
<1> QED
  BY <1>2 DEF Stay

LEMMA WithoutStays ==
  ASSUME NEW R, NEW hi, Good(R, hi), NEW r \in R, ~IsSystem(r)
  PROVE  Stay(R, Without(R, r))
BY WithoutGood, CopyStays

LEMMA ResizedStays ==
  ASSUME NEW R, NEW hi, Good(R, hi), NEW r \in R, ~IsSystem(r),
         NEW new, new.pos = r.pos, new.size - r.size \in Int, r.size + (new.size - r.size) >= 0
  PROVE  Stay(R, Resized(R, r, new))
<1>1. PICK f : Copy(f, R \ {r}, Slide(R \ {r}, r.pos + r.size, new.size - r.size), r.pos)
  BY SlideCopies
<1>2. Stay(R, Slide(R \ {r}, r.pos + r.size, new.size - r.size))
  BY <1>1, CopyStays
<1> QED
  BY <1>2 DEF Stay, Resized

LEMMA StayTransitive ==
  ASSUME NEW R, NEW S, NEW T, Stay(R, S), Stay(S, T)
  PROVE  Stay(R, T)
BY DEF Stay, IsSystem

\* The victim of a competition between names is no setting.
LEMMA VictimStays ==
  ASSUME NEW R, NEW hi, Good(R, hi), NEW c, GoodCache(R, c), NEW n \in UserName,
         NEW o \in BOOLEAN, ~Refuses(R, c, n, o)
  PROVE  Stay(R, WithoutVictim(R, c, Victim(R, c, n)))
<1>1. n \in Name /\ n.ext # SystemExtension
  BY DEF UserName
<1>2. CASE WithoutVictim(R, c, Victim(R, c, n)) = R
  BY <1>2, SameStay
<1>3. ASSUME NEW r \in R, r.name = n \/ Restrictive(r.name.ext),
             WithoutVictim(R, c, Victim(R, c, n)) = Without(R, r)
      PROVE  Stay(R, WithoutVictim(R, c, Victim(R, c, n)))
  <2>1. ~IsSystem(r)
    BY <1>1, <1>3, NamesAssumption DEF IsSystem, Restrictive
  <2> QED
    BY <1>3, <2>1, WithoutStays
<1>4. \/ WithoutVictim(R, c, Victim(R, c, n)) = R
      \/ \E r \in R : /\ r.name = n \/ Restrictive(r.name.ext)
                      /\ WithoutVictim(R, c, Victim(R, c, n)) = Without(R, r)
  BY <1>1, VictimLeaves
<1> QED
  BY <1>2, <1>3, <1>4

LEMMA CreateStays ==
  ASSUME IInv, NEW n \in UserName, NEW v \in Value, NEW o \in BOOLEAN, CreateRecord(n, v, o)
  PROVE  Stay(records, records')
<1> DEFINE found == Recall(records, cache, n)
           kept  == WithoutVictim(records, found, Victim(records, found, n))
<1>1. Good(records, end) /\ GoodCache(records, found)
  BY IInvParts, Lookup DEF Whole, UserName
<1>2. CASE records' = records
  BY <1>2, SameStay
<1>3. CASE ~Refuses(records, found, n, o) /\ kept \subseteq records'
  <2>1. Stay(records, kept)
    BY <1>1, <1>3, VictimStays
  <2> QED
    BY <1>3, <2>1 DEF Stay
<1> QED
  BY <1>2, <1>3 DEF CreateRecord, Fail

LEMMA RenameStays ==
  ASSUME IInv, NEW r0 \in UserRecords, NEW n \in UserName, r0.name.ext = n.ext,
         SetNameOfRecord(r0.name, n)
  PROVE  Stay(records, records')
<1> DEFINE old    == r0.name
           found  == Recall(records, cache, old)
           victim == Victim(records, found, n)
           rest   == WithoutVictim(records, found, victim)
           newEnd == end - VictimSize(records, found, victim)
           after  == IF victim = NoRecord THEN RecallRival(records, found, n) ELSE EmptyCache
           ptr    == PointerOfRecord(rest, after, old)
           r      == RecordAt(rest, ptr)
           delta  == SizeOfName(n) - SizeOfName(old)
           new    == [r EXCEPT !.name = n, !.size = r.size + delta]
<1>1. /\ Good(records, end) /\ GoodCache(records, cache)
      /\ n \in Name /\ old \in Name /\ n.ext # SystemExtension
  BY IInvParts, GoodRecords DEF Whole, UserName, UserRecords
<1>2. GoodCache(records, found)
  BY <1>1, Lookup
<1>3. ASSUME ~Refuses(records, found, n, FALSE)
      PROVE  Good(rest, newEnd) /\ GoodCache(rest, after) /\ Stay(records, rest)
  <2>1. Good(rest, newEnd) /\ GoodCache(rest, after)
    BY <1>1, <1>3, VictimGone, Zenon
  <2>2. Stay(records, rest)
    BY <1>1, <1>2, <1>3, VictimStays
  <2> QED
    BY <2>1, <2>2
<1>4. CASE records' = records
  BY <1>4, SameStay
<1>5. CASE ~Refuses(records, found, n, FALSE) /\ records' = rest
  BY <1>3, <1>5
<1>6. CASE /\ ~Refuses(records, found, n, FALSE)
           /\ ptr # NullPtr
           /\ records' = Resized(rest, r, new)
  <2>1. Good(rest, newEnd) /\ GoodCache(rest, after) /\ Stay(records, rest)
    BY <1>3, <1>6
  <2>2. r \in rest /\ r.name = old
    BY <1>1, <1>6, <2>1, Found
  <2>3. r \in Record /\ r.size \in Nat /\ r.pos \in Nat /\ r.value \in Value
        /\ SizeOfRecordWithName(old, r.value) <= r.size
    BY <2>1, <2>2, GoodRecords DEF Good, Sized
  <2> HIDE DEF r, rest, newEnd, after, ptr, found, victim
  <2>4. SizeOfName(n) \in Nat /\ SizeOfName(old) \in Nat /\ SizeOfValue[r.value] \in Nat /\ SizeOfHeader \in Nat
    BY <1>1, <2>3, RecordSize, SizesAssumption
  <2>5. SizeOfName(old) <= r.size
    BY <2>3, <2>4 DEF SizeOfRecordWithName
  <2>6. new.pos = r.pos /\ new.size = r.size + delta
    BY <2>3 DEF Record
  <2>7. new.size - r.size \in Int /\ r.size + (new.size - r.size) >= 0
    BY <2>3, <2>4, <2>5, <2>6
  <2>8. ~IsSystem(r)
    BY <1>1, <2>2 DEF IsSystem
  <2> HIDE DEF new, delta
  <2>9. Stay(rest, records')
    BY <1>6, <2>1, <2>2, <2>6, <2>7, <2>8, ResizedStays
  <2> QED
    BY <2>1, <2>9, StayTransitive
<1>7. \/ records' = records
      \/ /\ ~Refuses(records, found, n, FALSE)
         /\ IF ptr = NullPtr \/ ~CanFree(delta, newEnd)
            THEN records' = rest
            ELSE records' = Resized(rest, r, new)
  BY Zenon DEF SetNameOfRecord, Fail
<1> HIDE DEF old, found, victim, rest, newEnd, after, ptr, r, delta, new
<1> QED
  BY <1>4, <1>5, <1>6, <1>7

LEMMA SetValueStays ==
  ASSUME IInv, NEW n \in UserName, NEW v \in Value, SetValueOfRecord(n, v)
  PROVE  Stay(records, records')
<1> DEFINE ptr  == PointerOfRecord(records, cache, n)
           r    == RecordAt(records, ptr)
           size == SizeOfRecordWithName(n, v)
           new  == [r EXCEPT !.value = v, !.size = size]
<1>1. /\ Good(records, end) /\ GoodCache(records, cache)
      /\ n \in Name /\ n.ext # SystemExtension /\ size \in Nat
  BY IInvParts, RecordSize DEF Whole, UserName
<1>2. CASE records' = records
  BY <1>2, SameStay
<1>3. CASE ptr # NullPtr /\ records' = Resized(records, r, new)
  <2>1. r \in records /\ r.name = n
    BY <1>1, <1>3, Found
  <2>2. r \in Record /\ r.size \in Nat /\ r.pos \in Nat
    BY <1>1, <2>1, GoodRecords
  <2> HIDE DEF r, size, ptr
  <2>3. new.pos = r.pos /\ new.size = size
    BY <2>2 DEF Record
  <2>4. new.size - r.size \in Int /\ r.size + (new.size - r.size) >= 0
    BY <1>1, <2>2, <2>3
  <2>5. ~IsSystem(r)
    BY <1>1, <2>1 DEF IsSystem
  <2> HIDE DEF new
  <2> QED
    BY <1>1, <1>3, <2>1, <2>3, <2>4, <2>5, ResizedStays
<1>4. \/ records' = records
      \/ ptr # NullPtr /\ records' = Resized(records, r, new)
  BY Zenon DEF SetValueOfRecord, Fail
<1> QED
  BY <1>2, <1>3, <1>4, Zenon

LEMMA DestroyStays ==
  ASSUME IInv, NEW r \in records, ~IsSystem(r), Destroy(r.name)
  PROVE  Stay(records, records')
<1>1. Good(records, end)
  BY IInvParts DEF Whole
<1>2. CASE r.name.ext \in vetoed
  <2>1. records' = records
    BY <1>2 DEF Destroy, Fail
  <2> QED
    BY <2>1, SameStay
<1>3. CASE r.name.ext \notin vetoed
  BY <1>1, <1>3, DestroyKeepsWhole, WithoutStays
<1> QED
  BY <1>2, <1>3

LEMMA SweepStays ==
  ASSUME IInv, SweepOne
  PROVE  Stay(records, records')
<1> DEFINE r == RecordAt(records, sweep.ptr)
<1>1. Good(records, end) /\ SweepOK
  BY IInvParts DEF Whole
<1>2. /\ sweep.ptr \in {q.pos : q \in records}
      /\ SystemExtension \notin sweep.exts
  BY <1>1 DEF SweepOne, Idle, SweepOK
<1>3. r \in records
  BY <1>1, <1>2, RecordAtItsAddress
<1>4. CASE r.name.ext \in sweep.exts /\ Destroy(r.name)
  <2>1. ~IsSystem(r)
    BY <1>2, <1>4 DEF IsSystem
  <2> QED
    BY <1>3, <1>4, <2>1, DestroyStays
<1>5. CASE UNCHANGED records
  BY <1>5, SameStay
<1> QED
  BY <1>4, <1>5 DEF SweepOne

LEMMA DisableStays ==
  ASSUME IInv, DisableAllRecords
  PROVE  Stay(records, records')
<1> DEFINE users == {r \in records : ~IsSystem(r)}
           f     == First(users).pos
<1>1. Good(records, end)
  BY IInvParts DEF Whole
<1>2. CASE records' = records
  BY <1>2, SameStay
<1>3. CASE users # {} /\ records' = records \ {r \in records : r.pos >= f}
  <2>1. users \subseteq Record
    BY <1>1 DEF Good, Sound
  <2>2. First(users) \in users
    BY <1>3, <2>1, FirstExists
  <2>3. \A r \in records : IsSystem(r) => r.pos < f
    BY <1>1, <2>2 DEF Good, SettingsFirst
  <2>4. \A r \in records : r.pos \in Nat
    BY <1>1, GoodRecords
  <2> HIDE DEF f
  <2>5. f \in Nat
    BY <2>2, <2>4 DEF f
  <2>6. \A r \in records : IsSystem(r) => r \in records'
    BY <1>3, <2>3, <2>4, <2>5
  <2> QED
    BY <2>6 DEF Stay
<1> QED
  BY <1>2, <1>3 DEF DisableAllRecords, FirstNonSysRecord

LEMMA EditStays ==
  ASSUME IInv, NEW r \in Scripts,
         PutAvailableSpaceAtEndOfRecord(r.name) \/ RemoveDataFromEndOfRecord(r.name, SpareSize(r))
  PROVE  Stay(records, records')
<1>1. /\ Good(records, end) /\ GoodCache(records, cache) /\ end \in Nat
      /\ accessible \in Nat /\ end + SizeOfHeader <= accessible /\ SizeOfHeader \in Nat
  BY IInvParts, SizesAssumption DEF Whole, Good, Sound
<1>2. /\ r \in records /\ ~IsSystem(r)
      /\ r.name \in Name /\ r.value \in Value /\ r \in Record /\ r.size \in Nat
      /\ SizeOfRecordWithName(r.name, r.value) <= r.size
  <2>1. r \in records /\ ~IsSystem(r)
    BY BootAssumption DEF Scripts, IsSystem
  <2> QED
    BY <1>1, <2>1, GoodRecords DEF Good, Sized
<1>3. /\ RecordAt(records, PointerOfRecord(records, cache, r.name)) = r
      /\ SizeOfRecordWithName(r.name, r.value) \in Nat
  BY <1>1, <1>2, RecordSize, Lookup, RecordAtItsAddress
<1>4. ASSUME NEW delta \in Int, r.size + delta >= 0,
             records' = Resized(records, r, [r EXCEPT !.size = r.size + delta])
      PROVE  Stay(records, records')
  <2> DEFINE new == [r EXCEPT !.size = r.size + delta]
  <2>1. new.pos = r.pos /\ new.size = r.size + delta
    BY <1>2 DEF Record
  <2>2. new.size - r.size \in Int /\ r.size + (new.size - r.size) >= 0
    BY <1>2, <1>4, <2>1
  <2> HIDE DEF new
  <2>3. records' = Resized(records, r, new)
    BY <1>4 DEF new
  <2> QED
    BY <1>1, <1>2, <2>1, <2>2, <2>3, ResizedStays
<1>5. CASE PutAvailableSpaceAtEndOfRecord(r.name)
  <2>1. AvailableSize(end) \in Int /\ r.size + AvailableSize(end) >= 0
    BY <1>1, <1>2 DEF AvailableSize
  <2> QED
    BY <1>3, <1>4, <1>5, <2>1 DEF PutAvailableSpaceAtEndOfRecord
<1>6. CASE RemoveDataFromEndOfRecord(r.name, SpareSize(r))
  <2>1. -SpareSize(r) \in Int /\ r.size + (-SpareSize(r)) >= 0 /\ r.size + (-SpareSize(r)) = r.size - SpareSize(r)
    BY <1>2, <1>3 DEF SpareSize
  <2>2. records' = Resized(records, r, [r EXCEPT !.size = r.size - SpareSize(r)])
    BY <1>3, <1>6 DEF RemoveDataFromEndOfRecord
  <2> QED
    BY <1>4, <2>1, <2>2
<1> QED
  BY <1>5, <1>6

LEMMA WriteStays ==
  ASSUME IInv, NEW r \in records, NEW v \in Value, WriteInPlace(r, v)
  PROVE  Stay(records, records')
<1>1. r \in Record
  BY IInvParts, GoodRecords DEF Whole
<1>2. [r EXCEPT !.value = v].name = r.name /\ [r EXCEPT !.value = v].pos = r.pos
      /\ [r EXCEPT !.value = v].size = r.size
  BY <1>1 DEF Record
<1> QED
  BY <1>2 DEF WriteInPlace, Stay

\* ExamModeManager and GlobalPreferences keep raw pointers to the settings they
\* made at boot: no operation moves, resizes, renames or destroys them.
THEOREM SettingsNeverMove == Spec => SystemRecordsNeverMove
<1>1. IInv /\ [Next]_vars => Stay(records, records')
  <2> SUFFICES ASSUME IInv, [Next]_vars PROVE Stay(records, records')
    OBVIOUS
  <2>1. CASE Create
    BY <2>1, CreateStays DEF Create
  <2>2. CASE Rename
    BY <2>2, RenameStays DEF Rename
  <2>3. CASE SetValue
    BY <2>3, SetValueStays DEF SetValue
  <2>4. CASE DestroyOne
    BY <2>4, DestroyStays DEF DestroyOne, DestroyRecord, UserRecords
  <2>5. CASE SweepOne
    BY <2>5, SweepStays
  <2>6. CASE DisableAllRecords
    BY <2>6, DisableStays
  <2>7. CASE RestoreDisabledRecords
    BY <2>7, SameStay DEF RestoreDisabledRecords
  <2>8. CASE Edit
    BY <2>8, EditStays DEF Edit
  <2>9. CASE Write
    BY <2>9, WriteStays DEF Write
  <2>10. CASE DestroyMany \/ EndSweep \/ Read \/ Veto \/ UNCHANGED vars
    <3>1. records' = records
      BY <2>10 DEF DestroyMany, DestroyAllRecords, DestroyRecordsWithExtension, BeginSweep,
                   EndSweep, Read, LookUp, Veto, SetVeto, vars
    <3> QED
      BY <3>1, SameStay
  <2> QED
    BY <2>1, <2>2, <2>3, <2>4, <2>5, <2>6, <2>7, <2>8, <2>9, <2>10 DEF Next
<1>2. IInv /\ [Next]_vars =>
        [\A r \in records : IsSystem(r) =>
           \E s \in records' : s.name = r.name /\ s.pos = r.pos /\ s.size = r.size]_vars
  BY <1>1 DEF Stay
<1> QED
  BY <1>2, Invariance, PTL DEF Spec, SystemRecordsNeverMove

-----------------------------------------------------------------------------
(* A failure changes nothing *)

\* A rename that makes its competitor disappear goes through: the record is
\* still there, and the competitor's name made room for the new one.
LEMMA DisplacingRenameSucceeds ==
  ASSUME IInv, NEW r0 \in UserRecords, NEW n \in UserName, r0.name.ext = n.ext, n # r0.name,
         ~Refuses(records, Recall(records, cache, r0.name), n, FALSE),
         Victim(records, Recall(records, cache, r0.name), n) # NoRecord
  PROVE  LET old    == r0.name
             found  == Recall(records, cache, old)
             victim == Victim(records, found, n)
             rest   == WithoutVictim(records, found, victim)
             newEnd == end - VictimSize(records, found, victim)
         IN  /\ PointerOfRecord(rest, EmptyCache, old) # NullPtr
             /\ CanFree(SizeOfName(n) - SizeOfName(old), newEnd)
<1> DEFINE old    == r0.name
           found  == Recall(records, cache, old)
           victim == Victim(records, found, n)
           rest   == WithoutVictim(records, found, victim)
           newEnd == end - VictimSize(records, found, victim)
<1>1. /\ Good(records, end) /\ GoodCache(records, cache) /\ end \in Nat
      /\ n \in Name /\ old \in Name /\ r0 \in records
      /\ accessible \in Nat /\ end + SizeOfHeader <= accessible /\ SizeOfHeader \in Nat
  BY IInvParts, GoodRecords, SizesAssumption DEF Whole, Good, Sound, UserName, UserRecords
<1>2. GoodCache(records, found)
  BY <1>1, Lookup
<1>3. PICK r1 \in records : /\ victim = r1.name /\ r1.name.base = n.base
                            /\ VictimSize(records, found, victim) = r1.size
                            /\ rest = Without(records, r1)
  BY <1>1, <1>2, VictimLeaves, Zenon
<1>4. r1 # r0
  <2>1. Named(records, n) = {}
    BY DEF Refuses
  <2>2. r1.name # n
    BY <2>1 DEF Named
  <2> QED
    BY <1>1, <1>3, <2>2 DEF Name
<1>5. Good(rest, newEnd) /\ GoodCache(rest, EmptyCache)
  BY <1>1, <1>3, WithoutGood, EmptyCacheGood
<1>6. PointerOfRecord(rest, EmptyCache, old) # NullPtr
  <2>1. PICK f : Copy(f, records \ {r1}, rest, r1.pos)
    BY <1>1, <1>3, WithoutGood
  <2>2. f[r0] \in rest /\ f[r0].name = old
    BY <1>1, <1>4, <2>1 DEF Copy
  <2>3. f[r0].pos \in Nat
    BY <1>5, <2>2, GoodRecords
  <2> HIDE DEF rest, newEnd
  <2> QED
    BY <1>1, <1>5, <2>2, <2>3, Lookup DEF NullPtr
<1>7. CanFree(SizeOfName(n) - SizeOfName(old), newEnd)
  <2>1. /\ SizeOfBase[n.base] \in Nat /\ SizeOfBase[old.base] \in Nat
        /\ SizeOfExtension[n.ext] \in Nat /\ SizeOfExtension[old.ext] \in Nat
        /\ SizeOfExtension[r1.name.ext] \in Nat
        /\ r1.name \in Name /\ r1.value \in Value /\ r1.size \in Nat
    BY <1>1, GoodRecords, NamesAssumption DEF Name
  <2>2. SizeOfName(n) - SizeOfName(old) <= SizeOfBase[n.base]
    BY <2>1 DEF SizeOfName
  <2>3. SizeOfBase[n.base] <= r1.size
    <3>1. SizeOfRecordWithName(r1.name, r1.value) <= r1.size
      BY <1>1 DEF Good, Sized
    <3>2. SizeOfValue[r1.value] \in Nat
      BY <2>1, SizesAssumption
    <3> QED
      BY <1>1, <1>3, <2>1, <3>1, <3>2 DEF SizeOfRecordWithName, SizeOfName
  <2>4. newEnd = end - r1.size
    BY <1>3
  <2>5. SizeOfName(n) - SizeOfName(old) \in Int
    BY <2>1 DEF SizeOfName
  <2> HIDE DEF newEnd
  <2> QED
    BY <1>1, <2>1, <2>2, <2>3, <2>4, <2>5 DEF CanFree, AvailableSize
<1> QED
  BY <1>6, <1>7

LEMMA FailedRename ==
  ASSUME IInv, NEW r0 \in UserRecords, NEW n \in UserName, r0.name.ext = n.ext,
         SetNameOfRecord(r0.name, n), status' \in Failure
  PROVE  records' = records
<1> DEFINE old    == r0.name
           found  == Recall(records, cache, old)
           victim == Victim(records, found, n)
           rest   == WithoutVictim(records, found, victim)
           newEnd == end - VictimSize(records, found, victim)
           after  == IF victim = NoRecord THEN RecallRival(records, found, n) ELSE EmptyCache
           ptr    == PointerOfRecord(rest, after, old)
           delta  == SizeOfName(n) - SizeOfName(old)
<1>1. CASE /\ n # old
           /\ ~Refuses(records, found, n, FALSE)
           /\ ptr = NullPtr \/ ~CanFree(delta, newEnd)
           /\ records' = rest
  <2>1. victim = NoRecord
    <3> SUFFICES ASSUME victim # NoRecord PROVE FALSE
      OBVIOUS
    <3>1. PointerOfRecord(rest, EmptyCache, old) # NullPtr /\ CanFree(delta, newEnd)
      BY <1>1, DisplacingRenameSucceeds, Zenon
    <3>2. after = EmptyCache
      OBVIOUS
    <3> QED
      BY <1>1, <3>1, <3>2
  <2> QED
    BY <1>1, <2>1 DEF WithoutVictim
<1>2. "None" \notin Failure
  BY DEF Failure
<1>3. \/ records' = records
      \/ status' = "None"
      \/ /\ n # old
         /\ ~Refuses(records, found, n, FALSE)
         /\ ptr = NullPtr \/ ~CanFree(delta, newEnd)
         /\ records' = rest
  BY Zenon DEF SetNameOfRecord, Fail
<1> HIDE DEF old, found, victim, rest, newEnd, after, ptr, delta
<1> QED
  BY <1>1, <1>2, <1>3

\* An operation that reports a failure has not touched an accessible record,
\* though createRecord and setNameOfRecord destroy the competitor of a name
\* before they are done.
THEOREM FailuresChangeNothing == Spec => FailureChangesNothing
<1>1. IInv /\ [Next]_vars /\ status' \in Failure => Content(records') = Content(records)
  <2> SUFFICES ASSUME IInv, [Next]_vars, status' \in Failure
               PROVE  Content(records') = Content(records)
    OBVIOUS
  <2>1. "None" \notin Failure
    BY DEF Failure
  <2>2. CASE Create
    <3>1. records' = records
      BY <2>1, <2>2 DEF Create, CreateRecord, Fail
    <3> QED
      BY <3>1
  <2>3. CASE Rename
    <3>1. records' = records
      BY <2>3, FailedRename DEF Rename
    <3> QED
      BY <3>1
  <2>4. CASE SetValue
    <3>1. records' = records
      BY <2>1, <2>4 DEF SetValue, SetValueOfRecord, Fail
    <3> QED
      BY <3>1
  <2>5. CASE DestroyOne \/ SweepOne
    <3>1. records' = records
      BY <2>1, <2>5 DEF DestroyOne, DestroyRecord, SweepOne, Destroy, Fail
    <3> QED
      BY <3>1
  <2>6. CASE DestroyMany \/ EndSweep \/ Read \/ Veto \/ UNCHANGED vars
    <3>1. records' = records
      BY <2>6 DEF DestroyMany, DestroyAllRecords, DestroyRecordsWithExtension, BeginSweep,
                  EndSweep, Read, LookUp, Veto, SetVeto, vars
    <3> QED
      BY <3>1
  <2>7. CASE DisableAllRecords \/ RestoreDisabledRecords \/ Edit \/ Write
    <3>1. status' = "None"
      BY <2>7 DEF DisableAllRecords, RestoreDisabledRecords, Edit, Write, WriteInPlace,
                  PutAvailableSpaceAtEndOfRecord, RemoveDataFromEndOfRecord
    <3> QED
      BY <2>1, <3>1
  <2> QED
    BY <2>2, <2>3, <2>4, <2>5, <2>6, <2>7 DEF Next
<1>2. IInv /\ [Next]_vars => [status' \in Failure => Content(records') = Content(records)]_vars
  BY <1>1
<1> QED
  BY <1>2, Invariance, PTL DEF Spec, FailureChangesNothing

-----------------------------------------------------------------------------
(* The records implement a dictionary *)

LEMMA EntriesAre ==
  ASSUME NEW R, UniqueNames(R)
  PROVE  /\ DOMAIN Entries(R) = {r.name : r \in R}
         /\ \A r \in R : Entries(R)[r.name] = r.value
<1>1. ASSUME NEW r \in R
      PROVE  (CHOOSE s \in R : s.name = r.name) = r
  BY DEF UniqueNames
<1> QED
  BY <1>1 DEF Entries

\* The value of a name in R
ValueIn(R, n) == (CHOOSE r \in R : r.name = n).value

LEMMA ValueOf ==
  ASSUME NEW R, UniqueNames(R), NEW r \in R
  PROVE  ValueIn(R, r.name) = r.value
<1>1. (CHOOSE s \in R : s.name = r.name) = r
  BY DEF UniqueNames
<1> QED
  BY <1>1 DEF ValueIn

LEMMA EntriesAreValues ==
  ASSUME NEW R
  PROVE  Entries(R) = [n \in {r.name : r \in R} |-> ValueIn(R, n)]
BY DEF Entries, ValueIn

\* r is an entry of S, too.
In(r, S) == \E s \in S : s.name = r.name /\ s.value = r.value

LEMMA EntriesSame ==
  ASSUME NEW R, UniqueNames(R), NEW S, UniqueNames(S),
         \A r \in R : In(r, S), \A s \in S : In(s, R)
  PROVE  Entries(S) = Entries(R)
<1> DEFINE D == {r.name : r \in R}
<1>1. D = {s.name : s \in S}
  BY DEF In
<1>2. \A n \in D : ValueIn(S, n) = ValueIn(R, n)
  BY ValueOf DEF In
<1>3. Entries(R) = [n \in D |-> ValueIn(R, n)]
  BY EntriesAreValues
<1>4. Entries(S) = [n \in D |-> ValueIn(S, n)]
  BY <1>1, EntriesAreValues
<1> HIDE DEF D
<1> QED
  BY <1>2, <1>3, <1>4

\* Some names go.
LEMMA EntriesRestrict ==
  ASSUME NEW R, UniqueNames(R), NEW S, UniqueNames(S), NEW P \in SUBSET {r.name : r \in R},
         \A s \in S : s.name \in P /\ In(s, R),
         \A r \in R : r.name \in P => In(r, S)
  PROVE  Entries(S) = Store!Restrict(Entries(R), P)
<1>1. DOMAIN Entries(R) = {r.name : r \in R} /\ \A r \in R : Entries(R)[r.name] = r.value
  BY EntriesAre
<1>2. P = {s.name : s \in S}
  BY DEF In
<1>3. \A n \in P : ValueIn(S, n) = Entries(R)[n]
  BY <1>1, <1>2, ValueOf DEF In
<1>4. Entries(S) = [n \in P |-> ValueIn(S, n)]
  BY <1>2, EntriesAreValues
<1>5. Store!Restrict(Entries(R), P) = [n \in P |-> Entries(R)[n]]
  BY DEF Store!Restrict
<1> QED
  BY <1>3, <1>4, <1>5

\* From R to S the names of G go, and n has the value v.
Becomes(R, S, G, n, v) ==
  /\ \E s \in S : s.name = n /\ s.value = v
  /\ \A s \in S : s.name = n \/ (s.name \notin G /\ In(s, R))
  /\ \A r \in R : r.name = n \/ r.name \in G \/ In(r, S)

LEMMA EntriesWith ==
  ASSUME NEW R, UniqueNames(R), NEW S, UniqueNames(S), NEW G, NEW n, NEW v, Becomes(R, S, G, n, v)
  PROVE  Entries(S) = Store!With(Store!Restrict(Entries(R), DOMAIN Entries(R) \ G), n, v)
<1> DEFINE D == DOMAIN Entries(R)
           g == [m \in D \ G |-> Entries(R)[m]]
           f == [m \in (D \ G) \cup {n} |-> IF m = n THEN v ELSE g[m]]
<1>1. D = {r.name : r \in R} /\ \A r \in R : Entries(R)[r.name] = r.value
  BY EntriesAre
<1>2. (D \ G) \cup {n} = {s.name : s \in S}
  BY <1>1 DEF In, Becomes
<1>3. \A s \in S : ValueIn(S, s.name) = f[s.name]
  <2> TAKE s \in S
  <2>1. ValueIn(S, s.name) = s.value
    BY ValueOf
  <2>2. CASE s.name = n
    BY <1>2, <2>1, <2>2 DEF UniqueNames, Becomes
  <2>3. CASE s.name # n
    <3>1. s.name \in D \ G /\ Entries(R)[s.name] = s.value
      BY <1>1, <2>3 DEF In, Becomes
    <3> HIDE DEF D
    <3> QED
      BY <2>1, <2>3, <3>1
  <2> QED
    BY <2>2, <2>3
<1>4. \A m \in (D \ G) \cup {n} : ValueIn(S, m) = f[m]
  BY <1>2, <1>3
<1>5. Entries(S) = [m \in (D \ G) \cup {n} |-> ValueIn(S, m)]
  BY <1>2, EntriesAreValues
<1>6. Store!Restrict(Entries(R), D \ G) = g /\ DOMAIN g = D \ G
  BY DEF Store!Restrict
<1>7. Store!With(Store!Restrict(Entries(R), D \ G), n, v) = f
  BY <1>6 DEF Store!With
<1>8. [m \in (D \ G) \cup {n} |-> ValueIn(S, m)] = f
  <2> HIDE DEF g, D
  <2> QED
    BY <1>4
<1> QED
  BY <1>5, <1>7, <1>8

LEMMA NoEntries == Entries({}) = Store!Nothing
BY DEF Entries, Store!Nothing

-----------------------------------------------------------------------------
(* The steps of the dictionary *)

KeptOrLost == disabled' = disabled \/ disabled' = {}

LEMMA Keeps ==
  ASSUME KeptOrLost PROVE Store!KeepOrLose
BY NoEntries DEF KeptOrLost, Store!KeepOrLose

LEMMA FreeKeeps ==
  ASSUME NEW size, NEW e, FreeSpaceFor(size, e) PROVE KeptOrLost
BY DEF FreeSpaceFor, KeptOrLost

LEMMA RefuseStep ==
  ASSUME Entries(records') = Entries(records), KeptOrLost
  PROVE  Store!StoreNext
<1>1. Store!Refuse
  BY Keeps DEF Store!Refuse
<1> QED
  BY <1>1 DEF Store!StoreNext

\* A name appears, or changes its value.
LEMMA PutStep ==
  ASSUME UniqueNames(records), UniqueNames(records'), NEW n \in Name, NEW v \in Value, KeptOrLost,
         NEW G, G = Store!Displaced(DOMAIN Entries(records), n),
         Store!MayAppear(DOMAIN Entries(records), n),
         Becomes(records, records', G, n, v)
  PROVE  Store!StoreNext
<1>1. Entries(records') = Store!With(Store!Restrict(Entries(records), DOMAIN Entries(records) \ G), n, v)
  BY EntriesWith
<1>2. Store!Put(n, v)
  BY <1>1, Keeps DEF Store!Put
<1> QED
  BY <1>2 DEF Store!StoreNext, Store!Name, Name

LEMMA RenameStep ==
  ASSUME UniqueNames(records), UniqueNames(records'), NEW m \in Name, NEW n \in Name, KeptOrLost,
         NEW G, G = Store!Displaced(DOMAIN Entries(records), n) \cup {m},
         Store!MayAppear(DOMAIN Entries(records), n),
         m \in DOMAIN Entries(records), n \notin DOMAIN Entries(records),
         Becomes(records, records', G, n, Entries(records)[m])
  PROVE  Store!StoreNext
<1>1. Entries(records') = Store!With(Store!Restrict(Entries(records), DOMAIN Entries(records) \ G),
                                     n, Entries(records)[m])
  BY EntriesWith
<1>2. Store!Rename(m, n)
  BY <1>1, Keeps DEF Store!Rename
<1> QED
  BY <1>2 DEF Store!StoreNext, Store!Name, Name

LEMMA RemoveStep ==
  ASSUME NEW r \in records, UniqueNames(records), UniqueNames(records'), r.name \in Name, disabled' = disabled,
         \A s \in records' : s.name # r.name /\ In(s, records),
         \A q \in records : q.name = r.name \/ In(q, records')
  PROVE  Store!StoreNext
<1> DEFINE P == {q.name : q \in records} \ {r.name}
<1>1. Entries(records') = Store!Restrict(Entries(records), P)
  <2>1. P \in SUBSET {q.name : q \in records}
    OBVIOUS
  <2>2. \A s \in records' : s.name \in P /\ In(s, records)
    BY DEF In
  <2>3. \A q \in records : q.name \in P => In(q, records')
    OBVIOUS
  <2> HIDE DEF P
  <2> QED
    BY <2>1, <2>2, <2>3, EntriesRestrict
<1>2. P = DOMAIN Entries(records) \ {r.name} /\ r.name \in DOMAIN Entries(records)
  BY EntriesAre
<1>3. Store!Remove(r.name)
  BY <1>1, <1>2 DEF Store!Remove
<1> QED
  BY <1>3 DEF Store!StoreNext, Store!Name, Name

\* A record gives way to no other than the one that gives its base name a meaning.
LEMMA VictimEntries ==
  ASSUME NEW R, NEW hi, Good(R, hi), NEW c, GoodCache(R, c), NEW n \in Name,
         NEW o \in BOOLEAN, ~Refuses(R, c, n, o),
         NEW K, K = WithoutVictim(R, c, Victim(R, c, n))
  PROVE  /\ \A s \in K : s.name # n /\ ~Store!Competing(s.name, n) /\ In(s, R)
         /\ \A r \in R : r.name = n \/ Store!Competing(r.name, n) \/ In(r, K)
         /\ \A r \in R : Store!Competing(r.name, n) =>
                           CanOverrideRecordWithNewExtension(r.name, n.ext) = "Allowed"
<1>1. ASSUME NEW s \in R
      PROVE  Store!Competing(s.name, n) <=> /\ s.name.base = n.base /\ s.name # n
                                            /\ Restrictive(s.name.ext) /\ Restrictive(n.ext)
  BY DEF Store!Competing, Store!Restrictive, Restrictive, Store!NoPrecedence, NoPrecedence
<1>2. ASSUME Fits(n, R), K = R
      PROVE  /\ \A s \in K : s.name # n /\ ~Store!Competing(s.name, n) /\ In(s, R)
             /\ \A r \in R : r.name = n \/ Store!Competing(r.name, n) \/ In(r, K)
             /\ \A r \in R : Store!Competing(r.name, n) =>
                               CanOverrideRecordWithNewExtension(r.name, n.ext) = "Allowed"
  BY <1>1, <1>2 DEF Fits, In
<1>3. ASSUME NEW v \in R, Victim(R, c, n) = v.name, Fits(n, R \ {v}), v.name.base = n.base,
             v.name = n \/ Restrictive(v.name.ext), K = Without(R, v)
      PROVE  /\ \A s \in K : s.name # n /\ ~Store!Competing(s.name, n) /\ In(s, R)
             /\ \A r \in R : r.name = n \/ Store!Competing(r.name, n) \/ In(r, K)
             /\ \A r \in R : Store!Competing(r.name, n) =>
                               CanOverrideRecordWithNewExtension(r.name, n.ext) = "Allowed"
  <2>1. PICK f : Copy(f, R \ {v}, K, v.pos)
    BY <1>3, WithoutGood
  <2>2. \A s \in K : \E q \in R \ {v} : q.name = s.name /\ q.value = s.value
    BY <2>1 DEF Copy
  <2>3. \A q \in R \ {v} : In(q, K)
    BY <2>1 DEF Copy, In
  <2>4. \A q \in R \ {v} : q.name # n /\ ~Store!Competing(q.name, n)
    BY <1>1, <1>3 DEF Fits
  <2>5. \A s \in K : s.name # n /\ ~Store!Competing(s.name, n) /\ In(s, R)
    BY <2>2, <2>4 DEF In
  <2>6. v.name # n => CanOverrideRecordWithNewExtension(v.name, n.ext) = "Allowed"
    <3> SUFFICES ASSUME v.name # n PROVE CanOverrideRecordWithNewExtension(v.name, n.ext) = "Allowed"
      OBVIOUS
    <3>1. v.name # NoRecord
      BY GoodRecords, NamesAssumption
    <3> QED
      BY <1>3, <3>1 DEF Victim
  <2>7. v.name # n => Restrictive(v.name.ext) /\ Restrictive(n.ext)
    BY <1>3, <2>6 DEF CanOverrideRecordWithNewExtension
  <2>8. v.name = n \/ Store!Competing(v.name, n)
    BY <1>1, <1>3, <2>7
  <2> QED
    BY <1>1, <2>3, <2>4, <2>5, <2>6, <2>8
<1>5. \/ Fits(n, R) /\ K = R
      \/ \E v \in R : /\ Victim(R, c, n) = v.name /\ Fits(n, R \ {v}) /\ v.name.base = n.base
                      /\ v.name = n \/ Restrictive(v.name.ext)
                      /\ K = Without(R, v)
  BY VictimLeaves, Zenon
<1>6. CASE Fits(n, R) /\ K = R
  BY <1>2, <1>6
<1>7. CASE \E v \in R : /\ Victim(R, c, n) = v.name /\ Fits(n, R \ {v}) /\ v.name.base = n.base
                        /\ v.name = n \/ Restrictive(v.name.ext)
                        /\ K = Without(R, v)
  BY <1>3, <1>7
<1> QED
  BY <1>5, <1>6, <1>7

\* The names that a record displaces
LEMMA Displacing ==
  ASSUME NEW R, UniqueNames(R), NEW n,
         \A r \in R : Store!Competing(r.name, n) =>
                        CanOverrideRecordWithNewExtension(r.name, n.ext) = "Allowed"
  PROVE  /\ Store!MayAppear(DOMAIN Entries(R), n)
         /\ \A r \in R : r.name \in Store!Displaced(DOMAIN Entries(R), n) <=> Store!Competing(r.name, n)
         /\ \A m : m \in Store!Displaced(DOMAIN Entries(R), n) => Store!Competing(m, n)
<1>1. DOMAIN Entries(R) = {r.name : r \in R}
  BY EntriesAre
<1>2. \A m, e : Store!CanOverrideRecordWithNewExtension(m, e) = CanOverrideRecordWithNewExtension(m, e)
  BY DEF Store!CanOverrideRecordWithNewExtension, CanOverrideRecordWithNewExtension, Store!Restrictive,
         Restrictive, Store!NoPrecedence, NoPrecedence, Store!IsReserved, IsReserved
<1> QED
  BY <1>1, <1>2 DEF Store!MayAppear, Store!Displaced

-----------------------------------------------------------------------------
(* The operations *)

LEMMA Uniques ==
  ASSUME IInv PROVE UniqueNames(records) /\ UniqueNames(disabled) /\ OneMeaning(records)
BY DEF IInv, NamesOK

\* A copy holds the same entries.
LEMMA CopyEntries ==
  ASSUME NEW f, NEW Q, NEW T, NEW p, Copy(f, Q, T, p)
  PROVE  (\A q \in Q : In(q, T)) /\ (\A t \in T : In(t, Q))
BY DEF Copy, In

LEMMA CreateSteps ==
  ASSUME IInv, IInv', NEW n \in UserName, NEW v \in Value, NEW o \in BOOLEAN, CreateRecord(n, v, o)
  PROVE  Store!StoreNext
<1> DEFINE found == Recall(records, cache, n)
           K     == WithoutVictim(records, found, Victim(records, found, n))
<1>1. /\ Good(records, end) /\ GoodCache(records, found) /\ n \in Name
      /\ UniqueNames(records) /\ UniqueNames(records')
  BY IInvParts, Lookup, Uniques DEF Whole, UserName, IInv, NamesOK
<1>2. KeptOrLost
  BY FreeKeeps DEF CreateRecord, KeptOrLost
<1>3. CASE records' = records
  BY <1>2, <1>3, RefuseStep
<1>4. ASSUME NEW new, ~Refuses(records, found, n, o), records' = K \cup {new}, new.name = n, new.value = v
      PROVE  Store!StoreNext
  <2> DEFINE G == Store!Displaced(DOMAIN Entries(records), n)
  <2>1. /\ \A s \in K : s.name # n /\ ~Store!Competing(s.name, n) /\ In(s, records)
        /\ \A r \in records : r.name = n \/ Store!Competing(r.name, n) \/ In(r, K)
        /\ \A r \in records : Store!Competing(r.name, n) =>
                                CanOverrideRecordWithNewExtension(r.name, n.ext) = "Allowed"
    BY <1>1, <1>4, VictimEntries
  <2>2. /\ Store!MayAppear(DOMAIN Entries(records), n)
        /\ \A r \in records : r.name \in G <=> Store!Competing(r.name, n)
        /\ \A m : m \in G => Store!Competing(m, n)
    BY <1>1, <2>1, Displacing
  <2> HIDE DEF G, K, found
  <2>3. Becomes(records, records', G, n, v)
    BY <1>4, <2>1, <2>2 DEF Becomes, In
  <2> QED
    BY <1>1, <1>2, <2>2, <2>3, PutStep DEF G
<1> DEFINE new == [name  |-> n,
                   pos   |-> end - VictimSize(records, found, Victim(records, found, n)),
                   size  |-> SizeOfRecordWithName(n, v),
                   value |-> v]
<1>5. \/ records' = records
      \/ ~Refuses(records, found, n, o) /\ records' = K \cup {new}
  BY Zenon DEF CreateRecord, Fail
<1>6. new.name = n /\ new.value = v
  OBVIOUS
<1> HIDE DEF K, found, new
<1> QED
  BY <1>3, <1>4, <1>5, <1>6

\* A record whose name stays gets a value.
LEMMA ValueSteps ==
  ASSUME IInv, IInv', KeptOrLost, NEW r \in records, NEW n, n = r.name, n \in Name, NEW v \in Value,
         \E s \in records' : s.name = n /\ s.value = v,
         \A s \in records' : s.name = n \/ In(s, records \ {r}),
         \A q \in records \ {r} : In(q, records')
  PROVE  Store!StoreNext
<1> DEFINE G == Store!Displaced(DOMAIN Entries(records), n)
<1>1. UniqueNames(records) /\ UniqueNames(records') /\ OneMeaning(records)
  BY Uniques DEF IInv, NamesOK
<1>2. \A q \in records : ~Store!Competing(q.name, n)
  BY <1>1 DEF OneMeaning, Store!Competing, Store!Restrictive, Restrictive, Store!NoPrecedence, NoPrecedence
<1>3. /\ Store!MayAppear(DOMAIN Entries(records), n)
      /\ \A m : m \in G => Store!Competing(m, n)
  BY <1>1, <1>2, Displacing
<1> HIDE DEF G
<1>4. Becomes(records, records', G, n, v)
  BY <1>2, <1>3 DEF Becomes, In
<1> QED
  BY <1>1, <1>3, <1>4, PutStep DEF G

LEMMA SetValueSteps ==
  ASSUME IInv, IInv', NEW n \in UserName, NEW v \in Value, SetValueOfRecord(n, v)
  PROVE  Store!StoreNext
<1> DEFINE ptr  == PointerOfRecord(records, cache, n)
           r    == RecordAt(records, ptr)
           size == SizeOfRecordWithName(n, v)
           new  == [r EXCEPT !.value = v, !.size = size]
<1>1. /\ Good(records, end) /\ GoodCache(records, cache)
      /\ n \in Name /\ size \in Nat
  BY IInvParts, RecordSize DEF Whole, UserName
<1>2. KeptOrLost
  BY FreeKeeps DEF SetValueOfRecord, KeptOrLost
<1>3. CASE records' = records
  BY <1>2, <1>3, RefuseStep
<1>4. CASE ptr # NullPtr /\ records' = Resized(records, r, new)
  <2>1. r \in records /\ r.name = n
    BY <1>1, <1>4, Found
  <2>2. r \in Record /\ r.size \in Nat
    BY <1>1, <2>1, GoodRecords
  <2> HIDE DEF r, size, ptr
  <2>3. new.name = n /\ new.value = v /\ new.size = size
    BY <2>1, <2>2 DEF Record
  <2>4. new.size - r.size \in Int /\ r.size + (new.size - r.size) >= 0
    BY <1>1, <2>2, <2>3
  <2> HIDE DEF new
  <2>5. PICK f : Copy(f, records \ {r}, Slide(records \ {r}, r.pos + r.size, new.size - r.size), r.pos)
    BY <1>1, <2>1, <2>4, SlideCopies
  <2> DEFINE T == Slide(records \ {r}, r.pos + r.size, new.size - r.size)
  <2>6. (\A q \in records \ {r} : In(q, T)) /\ (\A t \in T : In(t, records \ {r}))
    BY <2>5, CopyEntries
  <2>7. records' = T \cup {new}
    BY <1>4 DEF Resized
  <2> HIDE DEF T
  <2>8. /\ \E s \in records' : s.name = n /\ s.value = v
        /\ \A s \in records' : s.name = n \/ In(s, records \ {r})
        /\ \A q \in records \ {r} : In(q, records')
    BY <2>3, <2>6, <2>7 DEF In
  <2> QED
    BY <1>1, <1>2, <2>1, <2>8, ValueSteps
<1>5. \/ records' = records
      \/ ptr # NullPtr /\ records' = Resized(records, r, new)
  BY Zenon DEF SetValueOfRecord, Fail
<1> QED
  BY <1>3, <1>4, <1>5, Zenon

LEMMA WriteSteps ==
  ASSUME IInv, IInv', NEW r \in records, NEW v \in Value, WriteInPlace(r, v)
  PROVE  Store!StoreNext
<1> DEFINE new == [r EXCEPT !.value = v]
<1>1. r \in Record /\ r.name \in Name
  BY IInvParts, GoodRecords DEF Whole
<1>2. new.name = r.name /\ new.value = v
  BY <1>1 DEF Record
<1>3. records' = (records \ {r}) \cup {new} /\ KeptOrLost
  BY DEF WriteInPlace, KeptOrLost
<1> HIDE DEF new
<1>4. /\ \E s \in records' : s.name = r.name /\ s.value = v
      /\ \A s \in records' : s.name = r.name \/ In(s, records \ {r})
      /\ \A q \in records \ {r} : In(q, records')
  BY <1>2, <1>3 DEF In
<1> QED
  BY <1>1, <1>3, <1>4, ValueSteps

LEMMA DestroySteps ==
  ASSUME IInv, IInv', NEW r \in records, Destroy(r.name)
  PROVE  Store!StoreNext
<1>1. Good(records, end) /\ GoodCache(records, cache) /\ r.name \in Name
      /\ UniqueNames(records) /\ UniqueNames(records')
  BY IInvParts, GoodRecords, Uniques DEF Whole, IInv, NamesOK
<1>2. disabled' = disabled
  BY DEF Destroy
<1>3. CASE records' = records
  BY <1>2, <1>3, RefuseStep DEF KeptOrLost
<1>4. CASE records' = Without(records, r)
  <2>1. PICK f : Copy(f, records \ {r}, records', r.pos)
    BY <1>1, <1>4, WithoutGood
  <2>2. (\A q \in records \ {r} : In(q, records')) /\ (\A t \in records' : In(t, records \ {r}))
    BY <2>1, CopyEntries
  <2>3. /\ \A s \in records' : s.name # r.name /\ In(s, records)
        /\ \A q \in records : q.name = r.name \/ In(q, records')
    BY <1>1, <2>2 DEF In, UniqueNames
  <2> QED
    BY <1>1, <1>2, <2>3, RemoveStep
<1>5. RecordAt(records, PointerOfRecord(records, cache, r.name)) = r
  BY <1>1, Lookup, RecordAtItsAddress
<1> QED
  BY <1>3, <1>4, <1>5 DEF Destroy, Fail

\* The record that is renamed leaves its name, and the competitor of the new name goes.
LEMMA RenameSteps ==
  ASSUME IInv, IInv', NEW r0 \in UserRecords, NEW n \in UserName, r0.name.ext = n.ext,
         SetNameOfRecord(r0.name, n)
  PROVE  Store!StoreNext
<1> DEFINE old    == r0.name
           found  == Recall(records, cache, old)
           victim == Victim(records, found, n)
           rest   == WithoutVictim(records, found, victim)
           newEnd == end - VictimSize(records, found, victim)
           after  == IF victim = NoRecord THEN RecallRival(records, found, n) ELSE EmptyCache
           ptr    == PointerOfRecord(rest, after, old)
           r      == RecordAt(rest, ptr)
           delta  == SizeOfName(n) - SizeOfName(old)
           new    == [r EXCEPT !.name = n, !.size = r.size + delta]
<1>1. /\ Good(records, end) /\ GoodCache(records, cache)
      /\ n \in Name /\ old \in Name /\ r0 \in records
      /\ UniqueNames(records) /\ UniqueNames(records')
  BY IInvParts, GoodRecords, Uniques DEF Whole, UserName, UserRecords, IInv, NamesOK
<1>2. GoodCache(records, found)
  BY <1>1, Lookup
<1>3. KeptOrLost
  BY FreeKeeps, Zenon DEF SetNameOfRecord, KeptOrLost
<1>4. CASE records' = records
  BY <1>3, <1>4, RefuseStep
<1>5. CASE status' \in Failure
  BY <1>4, <1>5, FailedRename
<1>6. CASE /\ ~Refuses(records, found, n, FALSE)
           /\ ptr # NullPtr
           /\ records' = Resized(rest, r, new)
  <2>1. Good(rest, newEnd) /\ GoodCache(rest, after)
    BY <1>1, <1>6, VictimGone, Zenon
  <2>2. r \in rest /\ r.name = old
    BY <1>1, <1>6, <2>1, Found
  <2>3. r \in Record /\ r.size \in Nat /\ r.pos \in Nat /\ r.value \in Value
        /\ SizeOfRecordWithName(old, r.value) <= r.size
    BY <2>1, <2>2, GoodRecords DEF Good, Sized
  <2>4. /\ \A s \in rest : s.name # n /\ ~Store!Competing(s.name, n) /\ In(s, records)
        /\ \A q \in records : q.name = n \/ Store!Competing(q.name, n) \/ In(q, rest)
        /\ \A q \in records : Store!Competing(q.name, n) =>
                                CanOverrideRecordWithNewExtension(q.name, n.ext) = "Allowed"
    <3>1. rest = WithoutVictim(records, found, Victim(records, found, n)) /\ FALSE \in BOOLEAN
      OBVIOUS
    <3>2. ~Refuses(records, found, n, FALSE)
      BY <1>6
    <3> HIDE DEF r, rest, newEnd, after, ptr, found, victim
    <3> QED
      BY <1>1, <1>2, <3>1, <3>2, VictimEntries
  <2>5a. \A q \in records : q.name # n
    BY <1>6 DEF Refuses, Named
  <2> HIDE DEF r, rest, newEnd, after, ptr, found, victim
  <2>5. SizeOfName(n) \in Nat /\ SizeOfName(old) \in Nat /\ SizeOfValue[r.value] \in Nat /\ SizeOfHeader \in Nat
    BY <1>1, <2>3, RecordSize, SizesAssumption
  <2>6. SizeOfName(old) <= r.size
    BY <2>3, <2>5 DEF SizeOfRecordWithName
  <2>7. new.name = n /\ new.value = r.value /\ new.size = r.size + delta
    BY <2>3 DEF Record
  <2>8. new.size - r.size \in Int /\ r.size + (new.size - r.size) >= 0
    BY <2>3, <2>5, <2>6, <2>7
  <2> HIDE DEF new, delta
  <2>9. PICK f : Copy(f, rest \ {r}, Slide(rest \ {r}, r.pos + r.size, new.size - r.size), r.pos)
    BY <2>1, <2>2, <2>8, SlideCopies
  <2> DEFINE T == Slide(rest \ {r}, r.pos + r.size, new.size - r.size)
             G == Store!Displaced(DOMAIN Entries(records), n) \cup {old}
  <2>10. (\A q \in rest \ {r} : In(q, T)) /\ (\A t \in T : In(t, rest \ {r}))
    BY <2>9, CopyEntries
  <2>11. records' = T \cup {new}
    BY <1>6 DEF Resized
  <2>12. /\ Store!MayAppear(DOMAIN Entries(records), n)
         /\ \A q \in records : q.name \in G <=> q.name = old \/ Store!Competing(q.name, n)
         /\ \A m : m \in G => m = old \/ Store!Competing(m, n)
    BY <1>1, <2>4, Displacing
  <2>13. /\ DOMAIN Entries(records) = {q.name : q \in records}
         /\ Entries(records)[old] = r0.value
    BY <1>1, EntriesAre
  <2>14. r0.value = r.value
    BY <1>1, <2>2, <2>4 DEF In, UniqueNames
  <2>15. \A q \in rest \ {r} : q.name # old
    BY <2>1, <2>2, GoodRecords
  <2> HIDE DEF T, G, old
  <2>16. \A s \in records' : s.name = n \/ (s.name \notin G /\ In(s, records))
    BY <2>4, <2>7, <2>10, <2>11, <2>12, <2>15 DEF In
  <2>17. \A q \in records : q.name = n \/ q.name \in G \/ In(q, records')
    BY <2>2, <2>4, <2>10, <2>11, <2>12, <2>15 DEF In
  <2>18. Becomes(records, records', G, n, Entries(records)[old])
    BY <2>7, <2>11, <2>13, <2>14, <2>16, <2>17 DEF Becomes
  <2>19. old \in DOMAIN Entries(records) /\ n \notin DOMAIN Entries(records)
    BY <1>1, <2>13, <2>5a DEF old
  <2> QED
    BY <1>1, <1>3, <2>12, <2>18, <2>19, RenameStep DEF G
<1>7. \/ records' = records
      \/ /\ ~Refuses(records, found, n, FALSE)
         /\ IF ptr = NullPtr \/ ~CanFree(delta, newEnd)
            THEN status' = IF ptr = NullPtr THEN "RecordDoesNotExist" ELSE "NotEnoughSpaceAvailable"
            ELSE records' = Resized(rest, r, new)
  BY Zenon DEF SetNameOfRecord, Fail
<1> HIDE DEF old, found, victim, rest, newEnd, after, ptr, r, delta, new
<1> QED
  BY <1>4, <1>5, <1>6, <1>7 DEF Failure

LEMMA SweepSteps ==
  ASSUME IInv, IInv', SweepOne
  PROVE  Store!StoreNext
<1> DEFINE r == RecordAt(records, sweep.ptr)
<1>1. Good(records, end) /\ SweepOK
  BY IInvParts DEF Whole
<1>2. sweep.ptr \in {q.pos : q \in records}
  BY <1>1 DEF SweepOne, Idle, SweepOK
<1>3. r \in records
  BY <1>1, <1>2, RecordAtItsAddress
<1>4. CASE Destroy(r.name)
  BY <1>3, <1>4, DestroySteps
<1>5. CASE UNCHANGED <<records, disabled>>
  BY <1>5, RefuseStep DEF KeptOrLost
<1> QED
  BY <1>4, <1>5 DEF SweepOne

\* The records that are not settings follow the first of them: they are all hidden, and
\* nothing was.
LEMMA DisableSteps ==
  ASSUME IInv, IInv', DisableAllRecords
  PROVE  Store!StoreNext
<1> DEFINE users == {r \in records : ~IsSystem(r)}
           f     == First(users).pos
           moved == {r \in records : r.pos >= f}
<1>1. /\ Good(records, end) /\ UniqueNames(records) /\ UniqueNames(records') /\ UniqueNames(disabled')
      /\ end \in Nat /\ TotalSize \in Nat
  BY IInvParts, Uniques, SizesAssumption DEF Whole, IInv, NamesOK, Good, Sound
<1>2. CASE UNCHANGED <<records, disabled>>
  BY <1>2, RefuseStep DEF KeptOrLost
<1>3. CASE /\ users # {} /\ accessible = TotalSize
           /\ disabled' = {Moved(r, TotalSize - end) : r \in moved}
           /\ records' = records \ moved
  <2>1. users \subseteq Record
    BY <1>1 DEF Good, Sound
  <2>2. First(users) \in users /\ \A r \in users : First(users).pos <= r.pos
    BY <1>3, <2>1, FirstExists
  <2>3. \A r \in records : IsSystem(r) => r.pos < f
    BY <1>1, <2>2 DEF Good, SettingsFirst
  <2>4. \A r \in records : r.pos \in Nat /\ r \in Record
    BY <1>1, GoodRecords
  <2> HIDE DEF f
  <2>5. f \in Nat
    BY <2>2, <2>4 DEF f
  <2>6. \A r \in records : r \in moved <=> ~IsSystem(r)
    BY <2>2, <2>3, <2>4, <2>5 DEF f
  <2>7. moved \subseteq records
    OBVIOUS
  <2> HIDE DEF moved, users
  <2>8. \A r \in moved : Moved(r, TotalSize - end).name = r.name /\ Moved(r, TotalSize - end).value = r.value
    BY <2>4, <2>7 DEF Moved, Record
  <2> DEFINE P == {n \in DOMAIN Entries(records) : ~Store!IsSystemName(n)}
             Q == {n \in DOMAIN Entries(records) : Store!IsSystemName(n)}
  <2>9. DOMAIN Entries(records) = {r.name : r \in records}
    BY <1>1, EntriesAre
  <2>10. \A r \in records : IsSystem(r) <=> Store!IsSystemName(r.name)
    BY DEF IsSystem, Store!IsSystemName
  <2>11. Entries(disabled') = Store!Restrict(Entries(records), P)
    <3>1. \A s \in disabled' : s.name \in P /\ In(s, records)
      BY <1>3, <2>6, <2>7, <2>8, <2>9, <2>10 DEF In
    <3>2. \A r \in records : r.name \in P => In(r, disabled')
      BY <1>3, <2>6, <2>7, <2>8, <2>9, <2>10 DEF In
    <3>3. P \in SUBSET {r.name : r \in records}
      BY <2>9
    <3> HIDE DEF P
    <3> QED
      BY <1>1, <3>1, <3>2, <3>3, EntriesRestrict
  <2>12. Entries(records') = Store!Restrict(Entries(records), Q)
    <3>1. \A s \in records' : s.name \in Q /\ In(s, records)
      BY <1>3, <2>6, <2>7, <2>9, <2>10 DEF In
    <3>2. \A r \in records : r.name \in Q => In(r, records')
      BY <1>3, <2>6, <2>7, <2>9, <2>10 DEF In
    <3>3. Q \in SUBSET {r.name : r \in records}
      BY <2>9
    <3> HIDE DEF Q
    <3> QED
      BY <1>1, <3>1, <3>2, <3>3, EntriesRestrict
  <2>13. disabled = {}
    <3>1. GoodHidden(disabled, TotalSize)
      BY <1>3, IInvParts DEF Whole
    <3>2. ASSUME NEW d \in disabled PROVE FALSE
      <4>1. d \in Record /\ d.name \in Name /\ d.value \in Value /\ d.pos \in Nat /\ d.size \in Nat
            /\ TotalSize <= d.pos /\ d.pos + d.size <= TotalSize
            /\ SizeOfRecordWithName(d.name, d.value) <= d.size
        BY <3>1 DEF GoodHidden, Packed, Sized, Record
      <4>2. SizeOfRecordWithName(d.name, d.value) \in Nat /\ SizeOfRecordWithName(d.name, d.value) >= 3
        BY <4>1, RecordSize
      <4> QED
        BY <1>1, <4>1, <4>2
    <3> QED
      BY <3>2
  <2>14. Entries(disabled) = Store!Nothing
    BY <2>13, NoEntries
  <2>15. Store!SetAside
    BY <2>11, <2>12, <2>14 DEF Store!SetAside
  <2> QED
    BY <2>15 DEF Store!StoreNext
<1>4. \/ UNCHANGED <<records, disabled>>
      \/ /\ users # {} /\ accessible = TotalSize
         /\ disabled' = {Moved(r, TotalSize - end) : r \in moved}
         /\ records' = records \ moved
  BY DEF DisableAllRecords, FirstNonSysRecord
<1> QED
  BY <1>2, <1>3, <1>4

LEMMA RestoreSteps ==
  ASSUME IInv, IInv', RestoreDisabledRecords
  PROVE  Store!StoreNext
<1>1. /\ Good(records, end) /\ GoodHidden(disabled, accessible)
      /\ UniqueNames(records) /\ UniqueNames(disabled) /\ UniqueNames(records')
      /\ end \in Nat /\ accessible \in Nat
  BY IInvParts, Uniques DEF Whole, IInv, NamesOK, Good, Sound
<1>2. /\ \A r \in records : IsSystem(r)
      /\ records' = records \cup {Moved(r, end - accessible) : r \in disabled}
      /\ disabled' = {}
  BY DEF RestoreDisabledRecords
<1>3. \A r \in disabled : /\ Moved(r, end - accessible).name = r.name
                          /\ Moved(r, end - accessible).value = r.value
  BY <1>1 DEF GoodHidden, Moved, Record
<1>4. \A r \in records, d \in disabled : r.name # d.name
  BY <1>1, <1>2 DEF GoodHidden, IsSystem
<1>5. /\ DOMAIN Entries(records) = {r.name : r \in records}
      /\ \A r \in records : Entries(records)[r.name] = r.value
  BY <1>1, EntriesAre
<1>6. /\ DOMAIN Entries(disabled) = {r.name : r \in disabled}
      /\ \A r \in disabled : Entries(disabled)[r.name] = r.value
  BY <1>1, EntriesAre
<1> DEFINE D == DOMAIN Entries(records) \cup DOMAIN Entries(disabled)
           f == [n \in D |-> IF n \in DOMAIN Entries(disabled) THEN Entries(disabled)[n] ELSE Entries(records)[n]]
<1>7. D = {s.name : s \in records'}
  BY <1>2, <1>3, <1>5, <1>6
<1>8. \A s \in records' : f[s.name] = s.value
  <2> TAKE s \in records'
  <2>1. CASE s \in records
    BY <1>4, <1>5, <1>6, <2>1
  <2>2. CASE \E d \in disabled : s = Moved(d, end - accessible)
    BY <1>3, <1>6, <2>2
  <2> QED
    BY <1>2, <2>1, <2>2
<1>9. Entries(records') = f
  <2>1. \A n \in D : ValueIn(records', n) = f[n]
    <3> TAKE n \in D
    <3>1. PICK s \in records' : s.name = n
      BY <1>7
    <3>2. ValueIn(records', s.name) = s.value
      BY <1>1, ValueOf
    <3>3. f[s.name] = s.value
      BY <1>8
    <3> HIDE DEF f
    <3> QED
      BY <3>1, <3>2, <3>3
  <2>2. Entries(records') = [n \in D |-> ValueIn(records', n)]
    BY <1>7, EntriesAreValues
  <2> HIDE DEF D
  <2> QED
    BY <2>1, <2>2
<1>10. \A n \in DOMAIN Entries(records) : Store!IsSystemName(n)
  BY <1>2, <1>5 DEF IsSystem, Store!IsSystemName
<1>11. Store!BringBack
  BY <1>2, <1>9, <1>10, NoEntries DEF Store!BringBack
<1> QED
  BY <1>11 DEF Store!StoreNext

LEMMA EditSteps ==
  ASSUME IInv, IInv', NEW r \in Scripts,
         PutAvailableSpaceAtEndOfRecord(r.name) \/ RemoveDataFromEndOfRecord(r.name, SpareSize(r))
  PROVE  Store!StoreNext
<1>1. /\ Good(records, end) /\ GoodCache(records, cache) /\ end \in Nat
      /\ UniqueNames(records) /\ UniqueNames(records')
      /\ accessible \in Nat /\ end + SizeOfHeader <= accessible /\ SizeOfHeader \in Nat
  BY IInvParts, Uniques, SizesAssumption DEF Whole, Good, Sound, IInv, NamesOK
<1>2. /\ r \in records
      /\ r.name \in Name /\ r.value \in Value /\ r \in Record /\ r.size \in Nat
      /\ SizeOfRecordWithName(r.name, r.value) <= r.size
  BY <1>1, GoodRecords DEF Scripts, Good, Sized
<1>3. /\ RecordAt(records, PointerOfRecord(records, cache, r.name)) = r
      /\ SizeOfRecordWithName(r.name, r.value) \in Nat
  BY <1>1, <1>2, RecordSize, Lookup, RecordAtItsAddress
<1>4. KeptOrLost
  BY DEF PutAvailableSpaceAtEndOfRecord, RemoveDataFromEndOfRecord, KeptOrLost
<1>5. ASSUME NEW delta \in Int, r.size + delta >= 0,
             records' = Resized(records, r, [r EXCEPT !.size = r.size + delta])
      PROVE  Store!StoreNext
  <2> DEFINE new == [r EXCEPT !.size = r.size + delta]
             T   == Slide(records \ {r}, r.pos + r.size, new.size - r.size)
  <2>1. new.name = r.name /\ new.value = r.value /\ new.size = r.size + delta
    BY <1>2 DEF Record
  <2>2. new.size - r.size \in Int /\ r.size + (new.size - r.size) >= 0
    BY <1>2, <1>5, <2>1
  <2>3. records' = T \cup {new}
    BY <1>5 DEF Resized
  <2> HIDE DEF new
  <2>4. PICK f : Copy(f, records \ {r}, T, r.pos)
    BY <1>1, <1>2, <2>2, SlideCopies
  <2>5. (\A q \in records \ {r} : In(q, T)) /\ (\A t \in T : In(t, records \ {r}))
    BY <2>4, CopyEntries
  <2> HIDE DEF T
  <2>6. (\A q \in records : In(q, records')) /\ (\A t \in records' : In(t, records))
    BY <1>2, <2>1, <2>3, <2>5 DEF In
  <2>7. Entries(records') = Entries(records)
    BY <1>1, <2>6, EntriesSame
  <2> QED
    BY <1>4, <2>7, RefuseStep
<1>6. CASE PutAvailableSpaceAtEndOfRecord(r.name)
  <2>1. AvailableSize(end) \in Int /\ r.size + AvailableSize(end) >= 0
    BY <1>1, <1>2 DEF AvailableSize
  <2> QED
    BY <1>3, <1>5, <1>6, <2>1 DEF PutAvailableSpaceAtEndOfRecord
<1>7. CASE RemoveDataFromEndOfRecord(r.name, SpareSize(r))
  <2>1. -SpareSize(r) \in Int /\ r.size + (-SpareSize(r)) >= 0 /\ r.size + (-SpareSize(r)) = r.size - SpareSize(r)
    BY <1>2, <1>3 DEF SpareSize
  <2>2. records' = Resized(records, r, [r EXCEPT !.size = r.size - SpareSize(r)])
    BY <1>3, <1>7 DEF RemoveDataFromEndOfRecord
  <2> QED
    BY <1>5, <2>1, <2>2
<1> QED
  BY <1>6, <1>7

\* Each step of the storage is a step of the dictionary.
LEMMA StepImplements == IInv /\ IInv' /\ [Next]_vars => Store!StoreNext
<1> SUFFICES ASSUME IInv, IInv', [Next]_vars PROVE Store!StoreNext
  OBVIOUS
<1>1. CASE Create
  BY <1>1, CreateSteps DEF Create
<1>2. CASE Rename
  BY <1>2, RenameSteps DEF Rename
<1>3. CASE SetValue
  BY <1>3, SetValueSteps DEF SetValue
<1>4. CASE DestroyOne
  BY <1>4, DestroySteps DEF DestroyOne, DestroyRecord, UserRecords
<1>5. CASE SweepOne
  BY <1>5, SweepSteps
<1>6. CASE DisableAllRecords
  BY <1>6, DisableSteps
<1>7. CASE RestoreDisabledRecords
  BY <1>7, RestoreSteps
<1>8. CASE Edit
  BY <1>8, EditSteps DEF Edit
<1>9. CASE Write
  BY <1>9, WriteSteps DEF Write
<1>10. CASE DestroyMany \/ EndSweep \/ Read \/ Veto \/ UNCHANGED vars
  <2>1. records' = records /\ disabled' = disabled
    BY <1>10 DEF DestroyMany, DestroyAllRecords, DestroyRecordsWithExtension, BeginSweep,
                 EndSweep, Read, LookUp, Veto, SetVeto, vars
  <2> QED
    BY <2>1, RefuseStep DEF KeptOrLost
<1> QED
  BY <1>1, <1>2, <1>3, <1>4, <1>5, <1>6, <1>7, <1>8, <1>9, <1>10 DEF Next

LEMMA InitImplements == Init => Store!StoreInit
<1> SUFFICES ASSUME Init PROVE Store!StoreInit
  OBVIOUS
<1>1. UniqueNames(records) /\ disabled = {} /\ \A r \in records : r.name.ext = SystemExtension
  BY BootAssumption DEF Init
<1>2. DOMAIN Entries(records) = {r.name : r \in records}
  BY <1>1, EntriesAre
<1>3. Entries(disabled) = Store!Nothing
  BY <1>1, NoEntries
<1> QED
  BY <1>1, <1>2, <1>3 DEF Store!StoreInit, Store!IsSystemName

\* With no buffer, no address and no cache, the storage is a dictionary whose names
\* displace each other as RecordNames says, with another set aside during an exam:
\* every operation on the buffer is one step of it, or none.
THEOREM StorageIsADictionary == Spec => ImplementsRecordStore
<1>1. IInv /\ IInv' /\ [Next]_vars => [Store!StoreNext]_(Store!storeVars)
  BY StepImplements
<1> QED
  BY <1>1, InitImplements, Invariance, PTL DEF Spec, ImplementsRecordStore, Store!StoreSpec

-----------------------------------------------------------------------------
(* A name displaces another only by the rule *)

\* Whatever the dictionary does, a name that disappears while another of its base appears
\* was one that this other may override.
LEMMA StoreDisplaces ==
  ASSUME Store!StoreNext, NEW r \in DOMAIN Entries(records), r \in Name,
         NEW s \in DOMAIN Entries(records'), s \in Name,
         s \notin DOMAIN Entries(records), r \notin DOMAIN Entries(records'),
         s.base = r.base, Restrictive(s.ext), Restrictive(r.ext)
  PROVE  CanOverrideRecordWithNewExtension(r, s.ext) = "Allowed"
<1> DEFINE N == DOMAIN Entries(records)
<1>1. r # s /\ Store!Competing(r, s)
  BY DEF Store!Competing, Store!Restrictive, Restrictive, Store!NoPrecedence, NoPrecedence
<1>2. Store!CanOverrideRecordWithNewExtension(r, s.ext) = CanOverrideRecordWithNewExtension(r, s.ext)
  BY DEF Store!CanOverrideRecordWithNewExtension, CanOverrideRecordWithNewExtension, Store!Restrictive,
         Restrictive, Store!NoPrecedence, NoPrecedence, Store!IsReserved, IsReserved
<1>3. ASSUME NEW n, Store!MayAppear(N, n), n = s
      PROVE  CanOverrideRecordWithNewExtension(r, s.ext) = "Allowed"
  BY <1>1, <1>2, <1>3 DEF Store!MayAppear, Store!Displaced
<1>4. ASSUME NEW n, NEW v, NEW P \in SUBSET N,
             Entries(records') = Store!With(Store!Restrict(Entries(records), P), n, v)
      PROVE  n = s
  <2>1. DOMAIN Entries(records') = P \cup {n}
    BY <1>4 DEF Store!With, Store!Restrict
  <2> QED
    BY <2>1
<1>5. ASSUME NEW n, NEW v, Store!Put(n, v)
      PROVE  CanOverrideRecordWithNewExtension(r, s.ext) = "Allowed"
  BY <1>3, <1>4, <1>5 DEF Store!Put
<1>6. ASSUME NEW m, NEW n, Store!Rename(m, n)
      PROVE  CanOverrideRecordWithNewExtension(r, s.ext) = "Allowed"
  BY <1>3, <1>4, <1>6 DEF Store!Rename
<1>7. ASSUME NEW P, P \subseteq N, Entries(records') = Store!Restrict(Entries(records), P)
      PROVE  FALSE
  <2>1. DOMAIN Entries(records') = P
    BY <1>7 DEF Store!Restrict
  <2> QED
    BY <1>7, <2>1
<1>8. CASE \E n \in Store!Name : Store!Remove(n)
  BY <1>7, <1>8 DEF Store!Remove
<1>9. CASE Store!SetAside
  BY <1>7, <1>9 DEF Store!SetAside
<1>10. CASE Store!Refuse
  BY <1>10 DEF Store!Refuse
<1>11. CASE Store!BringBack
  <2>1. r \in DOMAIN Entries(records')
    BY <1>11 DEF Store!BringBack
  <2> QED
    BY <2>1
<1> QED
  BY <1>5, <1>6, <1>8, <1>9, <1>10, <1>11 DEF Store!StoreNext

\* A record that disappears when another name of its base appears was allowed to:
\* DisplacementIsAllowed, a consequence of the refinement.
THEOREM DisplacementsAreAllowed == Spec => DisplacementIsAllowed
<1> DEFINE Allowed(r, s) ==
             /\ s.name.base = r.name.base
             /\ s.name \notin {q.name : q \in records}
             /\ Restrictive(s.name.ext) /\ Restrictive(r.name.ext)
             /\ r.name \notin {q.name : q \in records'}
             => /\ ~IsReserved(r.name)
                /\ IsReserved(s.name) \/ Precedence[s.name.ext] <= Precedence[r.name.ext]
<1>1. ASSUME IInv, IInv', [Next]_vars, NEW r \in records, NEW s \in records',
             s.name.base = r.name.base, s.name \notin {q.name : q \in records},
             Restrictive(s.name.ext), Restrictive(r.name.ext), r.name \notin {q.name : q \in records'}
      PROVE  /\ ~IsReserved(r.name)
             /\ IsReserved(s.name) \/ Precedence[s.name.ext] <= Precedence[r.name.ext]
  <2>1. UniqueNames(records) /\ UniqueNames(records') /\ r.name \in Name /\ s.name \in Name
    BY <1>1 DEF IInv, NamesOK, TypeOK, Record
  <2>2. /\ DOMAIN Entries(records) = {q.name : q \in records}
        /\ DOMAIN Entries(records') = {q.name : q \in records'}
    BY <2>1, EntriesAre
  <2>3. CanOverrideRecordWithNewExtension(r.name, s.name.ext) = "Allowed"
    <3>1. Store!StoreNext
      BY <1>1, StepImplements
    <3>2. /\ r.name \in DOMAIN Entries(records) /\ s.name \in DOMAIN Entries(records')
          /\ s.name \notin DOMAIN Entries(records) /\ r.name \notin DOMAIN Entries(records')
      BY <1>1, <2>2
    <3> QED
      BY <1>1, <2>1, <3>1, <3>2, StoreDisplaces
  <2>4. [r.name EXCEPT !.ext = s.name.ext].base = s.name.base /\ [r.name EXCEPT !.ext = s.name.ext].ext = s.name.ext
    BY <1>1, <2>1 DEF Name
  <2>5. IsReserved([r.name EXCEPT !.ext = s.name.ext]) <=> IsReserved(s.name)
    BY <2>4 DEF IsReserved
  <2> QED
    BY <1>1, <2>3, <2>5 DEF CanOverrideRecordWithNewExtension
<1>2. IInv /\ IInv' /\ [Next]_vars => [\A r \in records, s \in records' : Allowed(r, s)]_vars
  BY <1>1
<1>3. Spec => [][\A r \in records, s \in records' : Allowed(r, s)]_vars
  <2> HIDE DEF Allowed
  <2> QED
    BY <1>2, Invariance, PTL DEF Spec
<1> QED
  BY <1>3 DEF DisplacementIsAllowed

=============================================================================
