------------------------ MODULE TreeReferencesProofs ------------------------
(***************************************************************************)
(* References to trees under editions and Try blocks, for any size of the  *)
(* stack, any number of scopes and of references and any depth of nesting. *)
(*                                                                         *)
(* An edition moves blocks and renumbers the table of identifiers apart    *)
(* from each other: the first part shows of each one that the blocks stay  *)
(* distinct, that the table stays inside and that each identifier follows  *)
(* its block.  IInv adds what a Try needs to put the table back: the       *)
(* references older than it lie in what it keeps, and the last identifier  *)
(* it keeps is never destroyed, so the table never shrinks below it.       *)
(***************************************************************************)
EXTENDS TreeReferences, SequenceTheorems, WellFoundedInduction, TLAPS

----------------------------------------------------------------------------
\* The blocks of an edited stack, one by one

\* Blocks m + 1 to n
LEMMA SomeBlocks ==
  ASSUME NEW c \in Seq(Nat), NEW m \in Nat, NEW n \in Nat, m <= n, n <= Len(c)
  PROVE  /\ SubSeq(c, m + 1, n) \in Seq(Nat) /\ Len(SubSeq(c, m + 1, n)) = n - m
         /\ \A i \in 1 .. n - m : SubSeq(c, m + 1, n)[i] = c[m + i]
<1>1. Len(c) \in Nat
  OBVIOUS
<1>2. \A i \in m + 1 .. n : c[i] \in Nat
  BY <1>1
<1>. DEFINE b == m + 1
<1>3. b \in Int /\ n \in Int /\ b = m + 1
  OBVIOUS
<1>. HIDE DEF b
<1>4. \A i \in b .. n : c[i] \in Nat
  BY <1>2, <1>3
<1>5. /\ SubSeq(c, b, n) \in Seq(Nat)
      /\ Len(SubSeq(c, b, n)) = IF b <= n THEN n - b + 1 ELSE 0
      /\ \A i \in 1 .. n - b + 1 : SubSeq(c, b, n)[i] = c[b + i - 1]
  BY <1>3, <1>4, SubSeqProperties
<1>6. Len(SubSeq(c, b, n)) = n - m
  BY <1>3, <1>5
<1>7. ASSUME NEW i \in 1 .. n - m PROVE SubSeq(c, b, n)[i] = c[m + i]
  <2>1. i \in 1 .. n - b + 1 /\ b + i - 1 = m + i
    BY <1>3
  <2>. QED
    BY <1>5, <2>1
<1>. QED
  BY <1>5, <1>6, <1>7 DEF b

\* Blocks u followed by blocks v
LEMMA JoinedBlocks ==
  ASSUME NEW u \in Seq(Nat), NEW v \in Seq(Nat)
  PROVE  /\ u \o v \in Seq(Nat) /\ Len(u \o v) = Len(u) + Len(v)
         /\ \A i \in 1 .. Len(u) : (u \o v)[i] = u[i]
         /\ \A i \in Len(u) + 1 .. Len(u) + Len(v) : (u \o v)[i] = v[i - Len(u)]
<1>1. Len(u) \in Nat /\ Len(v) \in Nat
  OBVIOUS
<1>2. /\ u \o v \in Seq(Nat)
      /\ Len(u \o v) = Len(u) + Len(v)
      /\ \A i \in 1 .. Len(u) + Len(v) :
           (u \o v)[i] = IF i <= Len(u) THEN u[i] ELSE v[i - Len(u)]
  BY ConcatProperties
<1>. DEFINE w == u \o v
<1>. HIDE DEF w
<1>3. \A i \in 1 .. Len(u) + Len(v) : w[i] = IF i <= Len(u) THEN u[i] ELSE v[i - Len(u)]
  BY <1>2 DEF w
<1>4. ASSUME NEW i \in 1 .. Len(u) PROVE w[i] = u[i]
  <2>1. i \in 1 .. Len(u) + Len(v) /\ i <= Len(u)
    BY <1>1
  <2>. QED
    BY <1>3, <2>1
<1>5. ASSUME NEW i \in Len(u) + 1 .. Len(u) + Len(v) PROVE w[i] = v[i - Len(u)]
  <2>1. i \in 1 .. Len(u) + Len(v) /\ ~(i <= Len(u))
    BY <1>1
  <2>. QED
    BY <1>3, <2>1
<1>. QED
  BY <1>2, <1>4, <1>5 DEF w

\* Blocks w inserted after the first d
LEMMA InsertedBlocks ==
  ASSUME NEW c \in Seq(Nat), NEW d \in Nat, d <= Len(c), NEW w \in Seq(Nat)
  PROVE  LET x == SubSeq(c, 1, d) \o w \o SubSeq(c, d + 1, Len(c))
         IN  /\ x \in Seq(Nat) /\ Len(x) = Len(c) + Len(w)
             /\ \A i \in 1 .. d : x[i] = c[i]
             /\ \A i \in d + 1 .. d + Len(w) : x[i] = w[i - d]
             /\ \A i \in d + Len(w) + 1 .. Len(c) + Len(w) : x[i] = c[i - Len(w)]
<1>. DEFINE l == SubSeq(c, 1, d)  r == SubSeq(c, d + 1, Len(c))
<1>1. Len(c) \in Nat /\ Len(w) \in Nat
  OBVIOUS
<1>2. l \in Seq(Nat) /\ Len(l) = d /\ \A i \in 1 .. d : l[i] = c[i]
  <2>1. /\ SubSeq(c, 0 + 1, d) \in Seq(Nat) /\ Len(SubSeq(c, 0 + 1, d)) = d - 0
        /\ \A i \in 1 .. d - 0 : SubSeq(c, 0 + 1, d)[i] = c[0 + i]
    BY SomeBlocks
  <2>. QED
    BY <2>1
<1>3. r \in Seq(Nat) /\ Len(r) = Len(c) - d /\ \A i \in 1 .. Len(c) - d : r[i] = c[d + i]
  BY <1>1, SomeBlocks
<1>. HIDE DEF l, r
<1>. DEFINE lw == l \o w
<1>4. /\ lw \in Seq(Nat) /\ Len(lw) = d + Len(w)
      /\ \A i \in 1 .. d : lw[i] = l[i]
      /\ \A i \in d + 1 .. d + Len(w) : lw[i] = w[i - d]
  BY <1>2, JoinedBlocks
<1>. HIDE DEF lw
<1>. DEFINE x == lw \o r
<1>5. /\ x \in Seq(Nat) /\ Len(x) = Len(lw) + Len(r)
      /\ \A i \in 1 .. Len(lw) : x[i] = lw[i]
      /\ \A i \in Len(lw) + 1 .. Len(lw) + Len(r) : x[i] = r[i - Len(lw)]
  BY <1>3, <1>4, JoinedBlocks
<1>. HIDE DEF x
<1>6. Len(x) = Len(c) + Len(w)
  BY <1>1, <1>3, <1>4, <1>5
<1>7. \A i \in 1 .. d : x[i] = c[i]
  BY <1>1, <1>2, <1>4, <1>5
<1>8. \A i \in d + 1 .. d + Len(w) : x[i] = w[i - d]
  BY <1>1, <1>4, <1>5
<1>9. ASSUME NEW i \in d + Len(w) + 1 .. Len(c) + Len(w) PROVE x[i] = c[i - Len(w)]
  <2>1. i \in Len(lw) + 1 .. Len(lw) + Len(r)
    BY <1>1, <1>3, <1>4
  <2>2. i - Len(lw) \in 1 .. Len(c) - d /\ d + (i - Len(lw)) = i - Len(w)
    BY <1>1, <1>4
  <2>. QED
    BY <1>3, <1>5, <2>1, <2>2
<1>. QED
  BY <1>5, <1>6, <1>7, <1>8, <1>9 DEF l, r, lw, x

\* The n blocks after the first a removed
LEMMA RemainingBlocks ==
  ASSUME NEW c \in Seq(Nat), NEW a \in Nat, NEW n \in Nat, a + n <= Len(c)
  PROVE  LET x == SubSeq(c, 1, a) \o SubSeq(c, a + n + 1, Len(c))
         IN  /\ x \in Seq(Nat) /\ Len(x) = Len(c) - n
             /\ \A i \in 1 .. a : x[i] = c[i]
             /\ \A i \in a + 1 .. Len(c) - n : x[i] = c[i + n]
<1>. DEFINE l == SubSeq(c, 1, a)  r == SubSeq(c, a + n + 1, Len(c))
<1>1. Len(c) \in Nat
  OBVIOUS
<1>2. l \in Seq(Nat) /\ Len(l) = a /\ \A i \in 1 .. a : l[i] = c[i]
  <2>1. /\ SubSeq(c, 0 + 1, a) \in Seq(Nat) /\ Len(SubSeq(c, 0 + 1, a)) = a - 0
        /\ \A i \in 1 .. a - 0 : SubSeq(c, 0 + 1, a)[i] = c[0 + i]
    BY <1>1, SomeBlocks
  <2>. QED
    BY <2>1
<1>3. r \in Seq(Nat) /\ Len(r) = Len(c) - (a + n)
      /\ \A i \in 1 .. Len(c) - (a + n) : r[i] = c[a + n + i]
  BY <1>1, SomeBlocks
<1>. HIDE DEF l, r
<1>. DEFINE x == l \o r
<1>4. /\ x \in Seq(Nat) /\ Len(x) = Len(l) + Len(r)
      /\ \A i \in 1 .. Len(l) : x[i] = l[i]
      /\ \A i \in Len(l) + 1 .. Len(l) + Len(r) : x[i] = r[i - Len(l)]
  BY <1>2, <1>3, JoinedBlocks
<1>. HIDE DEF x
<1>5. Len(x) = Len(c) - n /\ \A i \in 1 .. a : x[i] = c[i]
  BY <1>1, <1>2, <1>3, <1>4
<1>6. ASSUME NEW i \in a + 1 .. Len(c) - n PROVE x[i] = c[i + n]
  <2>1. i \in Len(l) + 1 .. Len(l) + Len(r)
    BY <1>1, <1>2, <1>3
  <2>2. i - Len(l) \in 1 .. Len(c) - (a + n) /\ a + n + (i - Len(l)) = i + n
    BY <1>1, <1>2
  <2>. QED
    BY <1>3, <1>4, <2>1, <2>2
<1>. QED
  BY <1>4, <1>5, <1>6 DEF l, r, x

\* Where the block at rank i comes from, when the n blocks after the first f go
\* after the first d
CameFrom(d, f, n, i) ==
  IF d < f THEN IF i <= d THEN i ELSE IF i <= d + n THEN f + i - d
                ELSE IF i <= f + n THEN i - n ELSE i
  ELSE IF i <= f THEN i ELSE IF i <= d - n THEN i + n
       ELSE IF i <= d THEN f + i - d + n ELSE i

LEMMA MovedBlocks ==
  ASSUME NEW c \in Seq(Nat), NEW d \in Nat, NEW f \in Nat, NEW n \in Nat,
         f + n <= Len(c), d <= Len(c), d < f \/ (f + n <= d /\ f < d)
  PROVE  LET others == SubSeq(c, 1, f) \o SubSeq(c, f + n + 1, Len(c))
             place == IF d > f THEN d - n ELSE d
             x == SubSeq(others, 1, place) \o SubSeq(c, f + 1, f + n)
                  \o SubSeq(others, place + 1, Len(others))
         IN  /\ x \in Seq(Nat) /\ Len(x) = Len(c)
             /\ \A i \in 1 .. Len(x) : x[i] = c[CameFrom(d, f, n, i)]
<1>. DEFINE others == SubSeq(c, 1, f) \o SubSeq(c, f + n + 1, Len(c))
            place == IF d > f THEN d - n ELSE d
            w == SubSeq(c, f + 1, f + n)
            x == SubSeq(others, 1, place) \o w \o SubSeq(others, place + 1, Len(others))
<1>1. Len(c) \in Nat
  OBVIOUS
<1>2. /\ others \in Seq(Nat) /\ Len(others) = Len(c) - n
      /\ \A i \in 1 .. f : others[i] = c[i]
      /\ \A i \in f + 1 .. Len(c) - n : others[i] = c[i + n]
  BY RemainingBlocks
<1>3. w \in Seq(Nat) /\ Len(w) = n /\ \A i \in 1 .. n : w[i] = c[f + i]
  <2>1. f + n \in Nat /\ f <= f + n /\ (f + n) - f = n
    OBVIOUS
  <2>. DEFINE e == f + n
  <2>2. e \in Nat /\ f <= e /\ e <= Len(c) /\ e - f = n
    BY <2>1
  <2>. HIDE DEF e
  <2>3. /\ SubSeq(c, f + 1, e) \in Seq(Nat) /\ Len(SubSeq(c, f + 1, e)) = e - f
        /\ \A i \in 1 .. e - f : SubSeq(c, f + 1, e)[i] = c[f + i]
    BY <2>2, SomeBlocks
  <2>. QED
    BY <2>2, <2>3 DEF e
<1>. HIDE DEF others, w
<1>4. place \in Nat /\ place <= Len(others)
  BY <1>1, <1>2
<1>5. /\ x \in Seq(Nat) /\ Len(x) = Len(others) + Len(w)
      /\ \A i \in 1 .. place : x[i] = others[i]
      /\ \A i \in place + 1 .. place + Len(w) : x[i] = w[i - place]
      /\ \A i \in place + Len(w) + 1 .. Len(others) + Len(w) : x[i] = others[i - Len(w)]
  <2>. HIDE DEF place
  <2>. QED
    BY <1>2, <1>3, <1>4, InsertedBlocks
<1>. HIDE DEF x
<1>6. Len(x) = Len(c)
  BY <1>1, <1>2, <1>3, <1>5
<1>7. ASSUME NEW i \in 1 .. Len(x), d < f PROVE x[i] = c[CameFrom(d, f, n, i)]
  <2>0. place = d /\ i \in 1 .. Len(c)
    BY <1>1, <1>6, <1>7
  <2>. HIDE DEF place
  <2>1. CASE i <= d
    BY <1>1, <1>2, <1>3, <1>5, <1>7, <2>0, <2>1 DEF CameFrom
  <2>2. CASE ~(i <= d) /\ i <= d + n
    <3>1. x[i] = w[i - d]
      <4>1. i \in place + 1 .. place + Len(w) /\ i - place = i - d
        BY <1>3, <2>0, <2>2
      <4>. QED
        BY <1>5, <4>1
    <3>2. i - d \in 1 .. n /\ f + (i - d) = f + i - d
      BY <2>0, <2>2
    <3>. QED
      BY <1>3, <1>7, <2>0, <2>2, <3>1, <3>2 DEF CameFrom
  <2>3. CASE ~(i <= d) /\ ~(i <= d + n) /\ i <= f + n
    <3>1. x[i] = others[i - n]
      <4>1. /\ i \in place + Len(w) + 1 .. Len(others) + Len(w)
            /\ i - Len(w) = i - n
        BY <1>1, <1>2, <1>3, <2>0, <2>3
      <4>. QED
        BY <1>5, <4>1
    <3>2. i - n \in 1 .. f
      BY <2>0, <2>3
    <3>. QED
      BY <1>2, <1>7, <2>0, <2>3, <3>1, <3>2 DEF CameFrom
  <2>4. CASE ~(i <= d) /\ ~(i <= d + n) /\ ~(i <= f + n)
    <3>1. x[i] = others[i - n]
      <4>1. /\ i \in place + Len(w) + 1 .. Len(others) + Len(w)
            /\ i - Len(w) = i - n
        BY <1>1, <1>2, <1>3, <2>0, <2>4
      <4>. QED
        BY <1>5, <4>1
    <3>2. i - n \in f + 1 .. Len(c) - n /\ (i - n) + n = i
      BY <1>1, <2>0, <2>4
    <3>. QED
      BY <1>2, <1>7, <2>0, <2>4, <3>1, <3>2 DEF CameFrom
  <2>. QED
    BY <2>1, <2>2, <2>3, <2>4
<1>8. ASSUME NEW i \in 1 .. Len(x), f < d, f + n <= d PROVE x[i] = c[CameFrom(d, f, n, i)]
  <2>0. place = d - n /\ i \in 1 .. Len(c)
    BY <1>1, <1>6, <1>8
  <2>. HIDE DEF place
  <2>1. CASE i <= f
    <3>1. x[i] = others[i]
      BY <1>1, <1>4, <1>5, <1>8, <2>0, <2>1
    <3>. QED
      BY <1>2, <1>8, <2>0, <2>1, <3>1 DEF CameFrom
  <2>2. CASE ~(i <= f) /\ i <= d - n
    <3>1. x[i] = others[i]
      BY <1>1, <1>4, <1>5, <2>0, <2>2
    <3>2. i \in f + 1 .. Len(c) - n
      BY <1>1, <2>0, <2>2
    <3>. QED
      BY <1>2, <1>8, <2>0, <2>2, <3>1, <3>2 DEF CameFrom
  <2>3. CASE ~(i <= f) /\ ~(i <= d - n) /\ i <= d
    <3>1. x[i] = w[i - (d - n)]
      <4>1. i \in place + 1 .. place + Len(w) /\ i - place = i - (d - n)
        BY <1>3, <2>0, <2>3
      <4>. QED
        BY <1>5, <4>1
    <3>2. i - (d - n) \in 1 .. n /\ f + (i - (d - n)) = f + i - d + n
      BY <2>0, <2>3
    <3>. QED
      BY <1>3, <1>8, <2>0, <2>3, <3>1, <3>2 DEF CameFrom
  <2>4. CASE ~(i <= f) /\ ~(i <= d - n) /\ ~(i <= d)
    <3>1. x[i] = others[i - n]
      <4>1. /\ i \in place + Len(w) + 1 .. Len(others) + Len(w)
            /\ i - Len(w) = i - n
        BY <1>1, <1>2, <1>3, <2>0, <2>4
      <4>. QED
        BY <1>5, <4>1
    <3>2. i - n \in f + 1 .. Len(c) - n /\ (i - n) + n = i
      BY <1>1, <1>8, <2>0, <2>4
    <3>. QED
      BY <1>2, <1>8, <2>0, <2>4, <3>1, <3>2 DEF CameFrom
  <2>. QED
    BY <2>1, <2>2, <2>3, <2>4
<1>9. /\ x \in Seq(Nat) /\ Len(x) = Len(c)
      /\ \A i \in 1 .. Len(x) : x[i] = c[CameFrom(d, f, n, i)]
  BY <1>5, <1>6, <1>7, <1>8
<1>. QED
  BY <1>9 DEF x, others, w
----------------------------------------------------------------------------
(* Every offset of the table is one of the stack, even the offsets of the  *)
(* identifiers whose owner was lost.                                       *)
OffsetsInside ==
  \A i \in DOMAIN table : table[i] \in Offset => table[i] <= size

(* Only the scopes under way hold references; each holds an identifier of  *)
(* its own, and no slot of a living reference is a destroyed one.          *)
Owned ==
  \A r \in Ref : ref[r] # NoId =>
    /\ r[1] <= Depth
    /\ ref[r] <= Len(table) /\ table[ref[r]] # Deleted
    /\ \A q \in Ref : ref[q] = ref[r] => q = r

(* The table never ends with a destroyed identifier.                       *)
LastIsKept == Len(table) > 0 => table[Len(table)] # Deleted

(* What a Try remembers is still there, and the Try blocks are nested.     *)
FramesInside ==
  \A k \in 1 .. Depth :
    /\ frames[k].right <= size
    /\ frames[k].length <= Len(table)
    /\ frames[k].length > 0 => table[frames[k].length] # Deleted
    /\ frames[k].parent = k - 1 \/ (k = 1 /\ frames[k].parent = Stale)
    /\ \A j \in 1 .. k : frames[j].right <= frames[k].right
                         /\ frames[j].length <= frames[k].length

(* The references older than a Try are in what it keeps of the table; the  *)
(* younger ones never hold the last identifier it keeps, so that no        *)
(* destruction shortens the table below it.                                *)
FramesKeepReferences ==
  \A k \in 1 .. Depth, r \in Ref : ref[r] # NoId =>
    IF r[1] < k THEN ref[r] <= frames[k].length ELSE ref[r] # frames[k].length

TopmostIsDepth ==
  IF Depth = 0 THEN topmost \in {NoCheckpoint, Stale} ELSE topmost = Depth

IInv ==
  /\ TypeOK
  /\ OffsetsInside /\ Owned /\ LastIsKept
  /\ FramesInside /\ FramesKeepReferences /\ TopmostIsDepth
  /\ ReferencesFollow

----------------------------------------------------------------------------
\* What every edition keeps: the blocks are distinct, the table leads inside
\* the stack, and to the block that is named

Sound(content) ==
  /\ content \in Seq(Nat) /\ Len(content) <= MaxBlocks
  /\ \A i \in 1 .. Len(content) : content[i] # size /\ content[i] # Invalidated
  /\ \A i, j \in 1 .. Len(content) : content[i] = content[j] => i = j

Nowhere(s, x) == x # size /\ \A i \in 1 .. Len(s.content) : s.content[i] # x

Tabled(s) ==
  /\ s.table \in [1 .. Len(table) -> 0 .. Len(s.content) \cup {Deleted, Invalidated}]
  /\ \A i \in 1 .. Len(table) : s.table[i] = Deleted <=> table[i] = Deleted

Leads(s, o, x) == IF o = Invalidated THEN Nowhere(s, x) ELSE x = BlockAt(s, o)
Named(s) ==
  /\ s.names \in [Ref -> Nat]
  /\ \A r \in Ref : ref[r] # NoId => Leads(s, s.table[ref[r]], s.names[r])

Follows(s) == Sound(s.content) /\ Tabled(s) /\ Named(s)

Living ==
  /\ size \in Offset
  /\ \A r \in Ref : ref[r] # NoId => ref[r] \in 1 .. Len(table) /\ table[ref[r]] # Deleted

LEMMA DistinctBlocks ==
  ASSUME NEW s, Sound(s.content),
         NEW o \in 0 .. Len(s.content), NEW p \in 0 .. Len(s.content),
         BlockAt(s, o) = BlockAt(s, p)
  PROVE  o = p
<1>1. Len(s.content) \in Nat
  BY DEF Sound
<1>2. CASE o < Len(s.content) /\ p < Len(s.content)
  <2>1. o + 1 \in 1 .. Len(s.content) /\ p + 1 \in 1 .. Len(s.content)
    BY <1>1, <1>2
  <2>2. s.content[o + 1] = s.content[p + 1]
    BY <1>2 DEF BlockAt
  <2>3. o + 1 = p + 1
    BY <2>1, <2>2 DEF Sound
  <2>. QED
    BY <2>3
<1>3. CASE o < Len(s.content) /\ ~(p < Len(s.content))
  <2>1. o + 1 \in 1 .. Len(s.content)
    BY <1>1, <1>3
  <2>. QED
    BY <1>3, <2>1 DEF BlockAt, Sound
<1>4. CASE ~(o < Len(s.content)) /\ p < Len(s.content)
  <2>1. p + 1 \in 1 .. Len(s.content)
    BY <1>1, <1>4
  <2>. QED
    BY <1>4, <2>1 DEF BlockAt, Sound
<1>5. CASE ~(o < Len(s.content)) /\ ~(p < Len(s.content))
  BY <1>1, <1>5
<1>. QED
  BY <1>2, <1>3, <1>4, <1>5

LEMMA BlockIsSomewhere ==
  ASSUME NEW s, Sound(s.content), NEW o \in 0 .. Len(s.content), size \in Nat
  PROVE  ~Nowhere(s, BlockAt(s, o)) /\ BlockAt(s, o) \in Nat
<1>1. Len(s.content) \in Nat
  BY DEF Sound
<1>2. CASE o < Len(s.content)
  <2>1. o + 1 \in 1 .. Len(s.content) /\ s.content[o + 1] \in Nat
    BY <1>1, <1>2 DEF Sound
  <2>. QED
    BY <1>2, <2>1 DEF BlockAt, Nowhere
<1>3. CASE ~(o < Len(s.content))
  BY <1>3 DEF BlockAt, Nowhere
<1>. QED
  BY <1>2, <1>3

\* The block x after a name x was given to the block y
Renamed(x, y, b) == IF b = x THEN y ELSE b

LEMMA EditFollows ==
  ASSUME StackAssumption, Living,
         NEW s, Follows(s), NEW t, Sound(t.content),
         NEW moved, t.table = UpdateNodes(s, moved),
         NEW p \in 0 .. Len(s.content), NEW y \in Nat,
         t.names = Transferred(s, BlockAt(s, p), y),
         \A o \in 0 .. Len(s.content) :
           /\ moved[o] \in 0 .. Len(t.content) \cup {Invalidated}
           /\ Leads(t, moved[o], Renamed(BlockAt(s, p), y, BlockAt(s, o))),
         \A r \in Ref : Nowhere(s, s.names[r]) => Nowhere(t, s.names[r])
  PROVE  Follows(t)
<1>. DEFINE x == BlockAt(s, p)
<1>0. /\ Len(s.content) \in Nat /\ Len(s.content) <= MaxBlocks
      /\ Len(t.content) \in Nat /\ Len(t.content) <= MaxBlocks /\ MaxBlocks \in Nat
      /\ size \in Nat
  BY DEF Follows, Sound, StackAssumption, Living, Offset
<1>1. ~Nowhere(s, x) /\ x \in Nat
  BY <1>0, BlockIsSomewhere DEF Follows
<1>2. t.names = [r \in Ref |-> IF s.names[r] = x THEN y ELSE s.names[r]]
  BY DEF Transferred
<1>. HIDE DEF x
<1>3. DOMAIN s.table = 1 .. Len(table)
  BY DEF Follows, Tabled
<1>4. /\ DOMAIN t.table = 1 .. Len(table)
      /\ t.table = [i \in 1 .. Len(table) |->
           IF s.table[i] \in {Invalidated, Deleted} THEN s.table[i] ELSE moved[s.table[i]]]
  BY <1>3 DEF UpdateNodes
<1>5. ASSUME NEW i \in 1 .. Len(table)
      PROVE  /\ t.table[i] \in 0 .. Len(t.content) \cup {Deleted, Invalidated}
             /\ t.table[i] = Deleted <=> table[i] = Deleted
  <2>1. /\ s.table[i] \in 0 .. Len(s.content) \cup {Deleted, Invalidated}
        /\ s.table[i] = Deleted <=> table[i] = Deleted
    BY DEF Follows, Tabled
  <2>2. CASE s.table[i] \in {Invalidated, Deleted}
    BY <1>4, <2>1, <2>2
  <2>3. CASE s.table[i] \notin {Invalidated, Deleted}
    <3>1. s.table[i] \in 0 .. Len(s.content)
      BY <2>1, <2>3
    <3>2. moved[s.table[i]] \in 0 .. Len(t.content) \cup {Invalidated}
      BY <3>1
    <3>3. t.table[i] = moved[s.table[i]]
      BY <1>4, <2>3
    <3>4. Deleted # Invalidated /\ Deleted \notin 0 .. Len(t.content)
      BY <1>0 DEF Deleted, Invalidated
    <3>. QED
      BY <2>1, <2>3, <3>2, <3>3, <3>4
  <2>. QED
    BY <2>2, <2>3
<1>6. Tabled(t)
  BY <1>4, <1>5 DEF Tabled
<1>7. t.names \in [Ref -> Nat]
  BY <1>2 DEF Follows, Named
<1>8. ASSUME NEW r \in Ref, ref[r] # NoId PROVE Leads(t, t.table[ref[r]], t.names[r])
  <2>. DEFINE o == s.table[ref[r]]
  <2>1. ref[r] \in 1 .. Len(table) /\ table[ref[r]] # Deleted
    BY <1>8 DEF Living
  <2>2. o \in 0 .. Len(s.content) \cup {Invalidated} /\ Leads(s, o, s.names[r])
    BY <1>8, <2>1 DEF Follows, Tabled, Named
  <2>3. t.table[ref[r]] = IF o = Invalidated THEN o ELSE moved[o]
    <3>1. o # Deleted
      BY <2>1 DEF Follows, Tabled
    <3>. QED
      BY <1>4, <2>1, <3>1
  <2>4. t.names[r] = Renamed(x, y, s.names[r])
    BY <1>2 DEF Renamed
  <2>. HIDE DEF o
  <2>5. CASE o = Invalidated
    <3>1. Nowhere(s, s.names[r])
      BY <2>2, <2>5 DEF Leads
    <3>2. s.names[r] # x
      BY <1>1, <3>1
    <3>. QED
      BY <2>3, <2>4, <2>5, <3>1, <3>2 DEF Renamed, Leads
  <2>6. CASE o # Invalidated
    <3>1. s.names[r] = BlockAt(s, o) /\ o \in 0 .. Len(s.content)
      BY <2>2, <2>6 DEF Leads
    <3>2. Leads(t, moved[o], Renamed(x, y, BlockAt(s, o)))
      BY <3>1 DEF x
    <3>. QED
      BY <2>3, <2>4, <2>6, <3>1, <3>2
  <2>. QED
    BY <2>5, <2>6
<1>. QED
  BY <1>6, <1>7, <1>8 DEF Follows, Named
----------------------------------------------------------------------------
\* The editions

\* Blocks that are not in the stack, and that nothing names
Fresh(s, new) ==
  /\ new \in Seq(Nat)
  /\ \A i, j \in 1 .. Len(new) : new[i] = new[j] => i = j
  /\ \A i \in 1 .. Len(new) :
       /\ new[i] > Invalidated
       /\ \A j \in 1 .. Len(s.content) : s.content[j] # new[i]
       /\ \A r \in Ref : s.names[r] # new[i]

LEMMA InsertFollows ==
  ASSUME StackAssumption, Living,
         NEW s, Follows(s), NEW d \in 0 .. Len(s.content), NEW new, Fresh(s, new),
         NEW at \in BOOLEAN, Len(s.content) + Len(new) <= MaxBlocks
  PROVE  /\ Follows(InsertBlocks(s, d, new, at))
         /\ Len(InsertBlocks(s, d, new, at).content) = Len(s.content) + Len(new)
<1>. DEFINE t == InsertBlocks(s, d, new, at)
            n == Len(new)
            c == s.content
            L == Len(c)
            x == t.content
            moved == [o \in Offset |-> IF d < o \/ (d = o /\ ~at) THEN o + n ELSE o]
<1>0. /\ c \in Seq(Nat) /\ L \in Nat /\ n \in Nat /\ L + n <= MaxBlocks /\ MaxBlocks \in Nat
      /\ size \in Nat /\ size <= MaxBlocks /\ new \in Seq(Nat)
      /\ d \in 0 .. L
  BY DEF Follows, Sound, StackAssumption, Living, Offset, Fresh
<1>1. CASE new = <<>>
  <2>1. t = s
    BY <1>1 DEF InsertBlocks
  <2>2. Len(new) = 0
    BY <1>1
  <2>. QED
    BY <1>0, <2>1, <2>2
<1>2. CASE new # <<>>
  <2>1. n > 0
    BY <1>0, <1>2, EmptySeq
  <2>2. t = [content |-> SubSeq(c, 1, d) \o new \o SubSeq(c, d + 1, L),
             table |-> UpdateNodes(s, moved),
             names |-> IF at THEN Transferred(s, BlockAt(s, d), new[1]) ELSE s.names]
    BY <1>2 DEF InsertBlocks
  <2>3. /\ x \in Seq(Nat) /\ Len(x) = L + n
        /\ \A i \in 1 .. d : x[i] = c[i]
        /\ \A i \in d + 1 .. d + n : x[i] = new[i - d]
        /\ \A i \in d + n + 1 .. L + n : x[i] = c[i - n]
    <3>1. d \in Nat /\ d <= Len(c)
      BY <1>0
    <3>. HIDE DEF t, c, moved
    <3>. DEFINE z == SubSeq(c, 1, d) \o new \o SubSeq(c, d + 1, Len(c))
    <3>2. x = z
      BY <2>2
    <3>3. d \in Nat /\ new \in Seq(Nat)
      BY <1>0
    <3>4. /\ z \in Seq(Nat) /\ Len(z) = Len(c) + Len(new)
          /\ \A i \in 1 .. d : z[i] = c[i]
          /\ \A i \in d + 1 .. d + Len(new) : z[i] = new[i - d]
          /\ \A i \in d + Len(new) + 1 .. Len(c) + Len(new) : z[i] = c[i - Len(new)]
      BY <1>0, <3>1, <3>3, InsertedBlocks
    <3>. HIDE DEF x, z
    <3>. QED
      BY <3>2, <3>4
  <2>4. t.table = UpdateNodes(s, moved)
    BY <2>2
  <2>. DEFINE b == BlockAt(s, d)
              y == IF at THEN new[1] ELSE b
  <2>5. t.names = Transferred(s, b, y)
    <3>1. CASE at
      BY <2>2, <3>1
    <3>2. CASE ~at
      <4>1. s.names \in [Ref -> Nat]
        BY DEF Follows, Named
      <4>. QED
        BY <2>2, <3>2, <4>1 DEF Transferred
    <3>. QED
      BY <3>1, <3>2
  <2>6. y \in Nat
    <3>1. new[1] \in Nat
      BY <1>0, <2>1
    <3>2. b \in Nat
      BY <1>0, BlockIsSomewhere DEF Follows
    <3>. QED
      BY <3>1, <3>2
  <2>7. /\ \A i \in 1 .. L : c[i] # size /\ c[i] # Invalidated
        /\ \A i, j \in 1 .. L : c[i] = c[j] => i = j
    BY DEF Follows, Sound
  <2>8. /\ \A i \in 1 .. n : new[i] # size /\ new[i] # Invalidated
        /\ \A i, j \in 1 .. n : new[i] = new[j] => i = j
        /\ \A i \in 1 .. n, j \in 1 .. L : new[i] # c[j]
    <3>1. Invalidated \in Nat /\ size < Invalidated
      BY <1>0 DEF Invalidated
    <3>2. \A i \in 1 .. n : new[i] \in Nat /\ new[i] > Invalidated
      BY <1>0 DEF Fresh
    <3>. QED
      BY <1>0, <3>1, <3>2 DEF Fresh
  <2>. HIDE DEF x, c, L, n, moved, t, b, y
  <2>9. \A i \in 1 .. L + n :
          \/ i \in 1 .. d /\ x[i] = c[i]
          \/ i - d \in 1 .. n /\ x[i] = new[i - d]
          \/ i - n \in d + 1 .. L /\ x[i] = c[i - n]
    BY <1>0, <2>3
  <2>10. Sound(x)
    <3>1. ASSUME NEW i \in 1 .. L + n PROVE x[i] # size /\ x[i] # Invalidated
      <4>1. i \in 1 .. d => i \in 1 .. L
        BY <1>0
      <4>2. i - n \in d + 1 .. L => i - n \in 1 .. L
        BY <1>0
      <4>. QED
        BY <2>7, <2>8, <2>9, <4>1, <4>2
    <3>2. ASSUME NEW i \in 1 .. L + n, NEW j \in 1 .. L + n, x[i] = x[j] PROVE i = j
      <4>1. i \in 1 .. d => i \in 1 .. L
        BY <1>0
      <4>2. i - n \in d + 1 .. L => i - n \in 1 .. L
        BY <1>0
      <4>3. j \in 1 .. d => j \in 1 .. L
        BY <1>0
      <4>4. j - n \in d + 1 .. L => j - n \in 1 .. L
        BY <1>0
      <4>5. CASE i \in 1 .. d /\ x[i] = c[i]
        <5>1. CASE j \in 1 .. d /\ x[j] = c[j]
          BY <2>7, <3>2, <4>1, <4>3, <4>5, <5>1
        <5>2. CASE j - d \in 1 .. n /\ x[j] = new[j - d]
          BY <2>8, <3>2, <4>1, <4>5, <5>2
        <5>3. CASE j - n \in d + 1 .. L /\ x[j] = c[j - n]
          <6>1. i = j - n
            BY <2>7, <3>2, <4>1, <4>4, <4>5, <5>3
          <6>. QED
            BY <1>0, <4>5, <5>3, <6>1
        <5>. QED
          BY <2>9, <5>1, <5>2, <5>3
      <4>6. CASE i - d \in 1 .. n /\ x[i] = new[i - d]
        <5>1. CASE j \in 1 .. d /\ x[j] = c[j]
          BY <2>8, <3>2, <4>3, <4>6, <5>1
        <5>2. CASE j - d \in 1 .. n /\ x[j] = new[j - d]
          <6>1. i - d = j - d
            BY <2>8, <3>2, <4>6, <5>2
          <6>. QED
            BY <1>0, <6>1
        <5>3. CASE j - n \in d + 1 .. L /\ x[j] = c[j - n]
          BY <2>8, <3>2, <4>4, <4>6, <5>3
        <5>. QED
          BY <2>9, <5>1, <5>2, <5>3
      <4>7. CASE i - n \in d + 1 .. L /\ x[i] = c[i - n]
        <5>1. CASE j \in 1 .. d /\ x[j] = c[j]
          <6>1. i - n = j
            BY <2>7, <3>2, <4>2, <4>3, <4>7, <5>1
          <6>. QED
            BY <1>0, <4>7, <5>1, <6>1
        <5>2. CASE j - d \in 1 .. n /\ x[j] = new[j - d]
          BY <2>8, <3>2, <4>2, <4>7, <5>2
        <5>3. CASE j - n \in d + 1 .. L /\ x[j] = c[j - n]
          <6>1. i - n = j - n
            BY <2>7, <3>2, <4>2, <4>4, <4>7, <5>3
          <6>. QED
            BY <1>0, <6>1
        <5>. QED
          BY <2>9, <5>1, <5>2, <5>3
      <4>. QED
        BY <2>9, <4>5, <4>6, <4>7
    <3>. QED
      BY <1>0, <2>3, <3>1, <3>2 DEF Sound
  <2>11. ASSUME NEW o \in 0 .. L
         PROVE  /\ moved[o] \in 0 .. L + n
                /\ Leads(t, moved[o], Renamed(b, y, BlockAt(s, o)))
    <3>0. o \in Offset /\ moved[o] = IF d < o \/ (d = o /\ ~at) THEN o + n ELSE o
      BY <1>0 DEF moved, Offset
    <3>1. o # d => BlockAt(s, o) # b
      BY <1>0, DistinctBlocks DEF b, Follows, c, L
    <3>2. Invalidated \notin 0 .. L + n
      BY <1>0 DEF Invalidated
    <3>3. ASSUME NEW q \in 0 .. L + n
          PROVE  BlockAt(t, q) = IF q < L + n THEN x[q + 1] ELSE size
      BY <2>3 DEF BlockAt, x
    <3>4. BlockAt(s, o) = IF o < L THEN c[o + 1] ELSE size
      BY DEF BlockAt, c, L
    <3>5. CASE o < d
      <4>1. moved[o] = o /\ o \in 0 .. L + n /\ o < L + n /\ o + 1 \in 1 .. d
        BY <1>0, <3>0, <3>5
      <4>2. BlockAt(t, o) = c[o + 1]
        BY <2>3, <3>3, <4>1
      <4>3. BlockAt(s, o) = c[o + 1]
        BY <1>0, <3>4, <3>5
      <4>. QED
        BY <1>0, <3>1, <3>2, <3>5, <4>1, <4>2, <4>3 DEF Leads, Renamed
    <3>6. CASE d < o
      <4>1. moved[o] = o + n /\ o + n \in 0 .. L + n
        BY <1>0, <3>0, <3>6
      <4>2. BlockAt(t, o + n) = BlockAt(s, o)
        <5>1. CASE o < L
          <6>1. o + n < L + n /\ (o + n) + 1 \in d + n + 1 .. L + n /\ ((o + n) + 1) - n = o + 1
            BY <1>0, <3>6, <5>1
          <6>2. x[(o + n) + 1] = c[o + 1]
            BY <2>3, <6>1
          <6>. QED
            BY <3>3, <3>4, <4>1, <5>1, <6>1, <6>2
        <5>2. CASE ~(o < L)
          <6>1. ~(o + n < L + n)
            BY <1>0, <5>2
          <6>. QED
            BY <3>3, <3>4, <4>1, <5>2, <6>1
        <5>. QED
          BY <5>1, <5>2
      <4>. QED
        BY <1>0, <3>1, <3>2, <3>6, <4>1, <4>2 DEF Leads, Renamed
    <3>7. CASE o = d /\ at
      <4>1. moved[o] = o /\ o \in 0 .. L + n /\ o < L + n
        BY <1>0, <2>1, <3>0, <3>7
      <4>2. BlockAt(t, o) = new[1]
        <5>1. o + 1 \in d + 1 .. d + n /\ (o + 1) - d = 1
          BY <1>0, <2>1, <3>7
        <5>. QED
          BY <2>3, <3>3, <4>1, <5>1
      <4>3. Renamed(b, y, BlockAt(s, o)) = new[1]
        BY <3>7 DEF Renamed, b, y
      <4>. QED
        BY <3>2, <4>1, <4>2, <4>3 DEF Leads
    <3>8. CASE o = d /\ ~at
      <4>1. moved[o] = o + n /\ o + n \in 0 .. L + n
        BY <1>0, <3>0, <3>8
      <4>2. BlockAt(t, o + n) = BlockAt(s, o)
        <5>1. CASE o < L
          <6>1. o + n < L + n /\ (o + n) + 1 \in d + n + 1 .. L + n /\ ((o + n) + 1) - n = o + 1
            BY <1>0, <3>8, <5>1
          <6>2. x[(o + n) + 1] = c[o + 1]
            BY <2>3, <6>1
          <6>. QED
            BY <3>3, <3>4, <4>1, <5>1, <6>1, <6>2
        <5>2. CASE ~(o < L)
          <6>1. ~(o + n < L + n)
            BY <1>0, <5>2
          <6>. QED
            BY <3>3, <3>4, <4>1, <5>2, <6>1
        <5>. QED
          BY <5>1, <5>2
      <4>3. Renamed(b, y, BlockAt(s, o)) = BlockAt(s, o)
        BY <3>8 DEF Renamed, b, y
      <4>. QED
        BY <3>2, <4>1, <4>2, <4>3 DEF Leads
    <3>. QED
      BY <1>0, <3>5, <3>6, <3>7, <3>8
  <2>12. ASSUME NEW r \in Ref, Nowhere(s, s.names[r]) PROVE Nowhere(t, s.names[r])
    <3>1. s.names[r] # size /\ \A i \in 1 .. L : c[i] # s.names[r]
      BY <2>12 DEF Nowhere, c, L
    <3>2. \A i \in 1 .. n : new[i] # s.names[r]
      BY DEF Fresh, n
    <3>3. ASSUME NEW i \in 1 .. L + n PROVE x[i] # s.names[r]
      <4>1. i \in 1 .. d => i \in 1 .. L
        BY <1>0
      <4>2. i - n \in d + 1 .. L => i - n \in 1 .. L
        BY <1>0
      <4>. QED
        BY <2>9, <3>1, <3>2, <4>1, <4>2
    <3>. QED
      BY <2>3, <3>1, <3>3 DEF Nowhere, x
  <2>13. Follows(t)
    <3>1. \A o \in 0 .. L : /\ moved[o] \in 0 .. Len(x) \cup {Invalidated}
                            /\ Leads(t, moved[o], Renamed(b, y, BlockAt(s, o)))
      BY <2>3, <2>11
    <3>. QED
      BY <1>0, <2>4, <2>5, <2>6, <2>10, <2>12, <3>1, EditFollows DEF b, c, L, x
  <2>. QED
    BY <2>3, <2>13 DEF t, x, L, c, n
<1>. QED
  BY <1>1, <1>2
\* An edition that only selects among the blocks, each at most once
LEMMA SelectedSound ==
  ASSUME NEW c, Sound(c), NEW x \in Seq(Nat), Len(x) <= MaxBlocks,
         NEW g \in [1 .. Len(x) -> 1 .. Len(c)],
         \A i, j \in 1 .. Len(x) : g[i] = g[j] => i = j,
         \A i \in 1 .. Len(x) : x[i] = c[g[i]]
  PROVE  Sound(x)
<1>1. ASSUME NEW i \in 1 .. Len(x) PROVE x[i] # size /\ x[i] # Invalidated
  <2>1. g[i] \in 1 .. Len(c)
    OBVIOUS
  <2>. QED
    BY <2>1 DEF Sound
<1>2. ASSUME NEW i \in 1 .. Len(x), NEW j \in 1 .. Len(x), x[i] = x[j] PROVE i = j
  <2>1. g[i] \in 1 .. Len(c) /\ g[j] \in 1 .. Len(c) /\ c[g[i]] = c[g[j]]
    BY <1>2
  <2>2. g[i] = g[j]
    BY <2>1 DEF Sound
  <2>. QED
    BY <2>2
<1>. QED
  BY <1>1, <1>2 DEF Sound

LEMMA SelectedNowhere ==
  ASSUME NEW s, NEW t, NEW g \in [1 .. Len(t.content) -> 1 .. Len(s.content)],
         \A i \in 1 .. Len(t.content) : t.content[i] = s.content[g[i]],
         NEW b, Nowhere(s, b)
  PROVE  Nowhere(t, b)
<1>1. ASSUME NEW i \in 1 .. Len(t.content) PROVE t.content[i] # b
  <2>1. g[i] \in 1 .. Len(s.content)
    OBVIOUS
  <2>. QED
    BY <2>1 DEF Nowhere
<1>. QED
  BY <1>1 DEF Nowhere

LEMMA RemoveFollows ==
  ASSUME StackAssumption, Living,
         NEW s, Follows(s), NEW a \in Nat, NEW n \in Nat \ {0}, a + n <= Len(s.content)
  PROVE  /\ Follows(RemoveBlocks(s, a, n))
         /\ Len(RemoveBlocks(s, a, n).content) = Len(s.content) - n
<1>. DEFINE t == RemoveBlocks(s, a, n)
            c == s.content
            L == Len(c)
            x == t.content
            moved == [o \in Offset |->
                        IF o >= a + n THEN o - n ELSE IF o > a THEN Invalidated ELSE o]
            b == BlockAt(s, a)
            y == BlockAt(s, a + n)
            g == [i \in 1 .. L - n |-> IF i <= a THEN i ELSE i + n]
<1>1. /\ c \in Seq(Nat) /\ L \in Nat /\ L <= MaxBlocks /\ MaxBlocks \in Nat
      /\ size \in Nat /\ size <= MaxBlocks /\ a + n <= L
  BY DEF Follows, Sound, StackAssumption, Living, Offset
<1>2. t = [content |-> SubSeq(c, 1, a) \o SubSeq(c, a + n + 1, L),
           table |-> UpdateNodes(s, moved), names |-> Transferred(s, b, y)]
  BY DEF RemoveBlocks
<1>. HIDE DEF t, c, moved, b, y
<1>3. /\ x \in Seq(Nat) /\ Len(x) = L - n
      /\ \A i \in 1 .. a : x[i] = c[i]
      /\ \A i \in a + 1 .. L - n : x[i] = c[i + n]
  <2>. DEFINE z == SubSeq(c, 1, a) \o SubSeq(c, a + n + 1, Len(c))
  <2>1. x = z
    BY <1>2
  <2>2. /\ z \in Seq(Nat) /\ Len(z) = Len(c) - n
        /\ \A i \in 1 .. a : z[i] = c[i]
        /\ \A i \in a + 1 .. Len(c) - n : z[i] = c[i + n]
    BY <1>1, RemainingBlocks
  <2>. HIDE DEF x, z
  <2>. QED
    BY <2>1, <2>2
<1>4. t.table = UpdateNodes(s, moved) /\ t.names = Transferred(s, b, y)
  BY <1>2
<1>. HIDE DEF x, L
<1>5. /\ g \in [1 .. Len(x) -> 1 .. Len(c)]
      /\ \A i, j \in 1 .. Len(x) : g[i] = g[j] => i = j
      /\ \A i \in 1 .. Len(x) : x[i] = c[g[i]]
  <2>1. \A i \in 1 .. L - n : g[i] = IF i <= a THEN i ELSE i + n
    OBVIOUS
  <2>2. \A i \in 1 .. L - n : g[i] \in 1 .. L
    BY <1>1, <2>1
  <2>3. \A i, j \in 1 .. L - n : g[i] = g[j] => i = j
    BY <1>1, <2>1
  <2>4. \A i \in 1 .. L - n : x[i] = c[g[i]]
    BY <1>1, <1>3, <2>1
  <2>. QED
    BY <1>3, <2>2, <2>3, <2>4 DEF L
<1>. HIDE DEF g
<1>6. Sound(x)
  <2>1. Sound(c) /\ x \in Seq(Nat) /\ Len(x) <= MaxBlocks
    BY <1>1, <1>3 DEF Follows, c
  <2>. QED
    BY <1>5, <2>1, SelectedSound
<1>7. ASSUME NEW r \in Ref, Nowhere(s, s.names[r]) PROVE Nowhere(t, s.names[r])
  BY <1>5, <1>7, SelectedNowhere DEF x, c
<1>8. y \in Nat
  BY <1>1, BlockIsSomewhere DEF Follows, y, c, L
<1>9. ASSUME NEW o \in 0 .. L
      PROVE  /\ moved[o] \in 0 .. Len(x) \cup {Invalidated}
             /\ Leads(t, moved[o], Renamed(b, y, BlockAt(s, o)))
  <2>0. /\ o \in Offset
        /\ moved[o] = IF o >= a + n THEN o - n ELSE IF o > a THEN Invalidated ELSE o
    BY <1>1 DEF moved, Offset
  <2>1. o # a => BlockAt(s, o) # b
    BY <1>1, DistinctBlocks DEF b, Follows, c, L
  <2>2. Invalidated \notin 0 .. L
    BY <1>1 DEF Invalidated
  <2>3. ASSUME NEW q \in 0 .. L
        PROVE  BlockAt(t, q) = IF q < L - n THEN x[q + 1] ELSE size
    BY <1>3 DEF BlockAt, x
  <2>4. ASSUME NEW q \in 0 .. L PROVE BlockAt(s, q) = IF q < L THEN c[q + 1] ELSE size
    BY DEF BlockAt, c, L
  <2>5. CASE o < a
    <3>1. moved[o] = o /\ o < L - n /\ o < L /\ o + 1 \in 1 .. a
      BY <1>1, <2>0, <2>5
    <3>2. BlockAt(t, o) = c[o + 1] /\ BlockAt(s, o) = c[o + 1]
      BY <1>3, <2>3, <2>4, <3>1
    <3>3. o \in 0 .. Len(x)
      BY <1>1, <1>3, <3>1
    <3>. QED
      BY <1>1, <2>1, <2>2, <2>5, <3>1, <3>2, <3>3 DEF Leads, Renamed
  <2>6. CASE o = a
    <3>1. moved[o] = o /\ o <= L - n /\ a + n \in 0 .. L
      BY <1>1, <2>0, <2>6
    <3>2. BlockAt(t, a) = y
      <4>1. BlockAt(s, a + n) = IF a + n < L THEN c[(a + n) + 1] ELSE size
        BY <2>4, <3>1
      <4>2. BlockAt(t, a) = IF a < L - n THEN x[a + 1] ELSE size
        BY <2>3, <2>6
      <4>3. CASE a < L - n
        <5>1. a + 1 \in a + 1 .. L - n /\ (a + 1) + n = (a + n) + 1 /\ a + n < L
          BY <1>1, <4>3
        <5>. QED
          BY <1>3, <4>1, <4>2, <4>3, <5>1 DEF y
      <4>4. CASE ~(a < L - n)
        <5>1. ~(a + n < L)
          BY <1>1, <4>4
        <5>. QED
          BY <4>1, <4>2, <4>4, <5>1 DEF y
      <4>. QED
        BY <4>3, <4>4
    <3>3. o \in 0 .. Len(x)
      BY <1>1, <1>3, <3>1
    <3>4. Renamed(b, y, BlockAt(s, o)) = y
      BY <2>6 DEF Renamed, b
    <3>. QED
      BY <2>2, <2>6, <3>1, <3>2, <3>3, <3>4 DEF Leads
  <2>7. CASE a < o /\ o < a + n
    <3>1. moved[o] = Invalidated /\ o < L /\ o + 1 \in 1 .. L
      BY <1>1, <2>0, <2>7
    <3>2. Renamed(b, y, BlockAt(s, o)) = c[o + 1]
      BY <1>1, <2>1, <2>4, <2>7, <3>1 DEF Renamed
    <3>3. c[o + 1] # size
      BY <3>1 DEF Follows, Sound, c, L
    <3>4. ASSUME NEW i \in 1 .. Len(x) PROVE x[i] # c[o + 1]
      <4>1. g[i] \in 1 .. L /\ x[i] = c[g[i]]
        BY <1>5 DEF L
      <4>2. g[i] # o + 1
        BY <1>1, <1>3, <2>7, <3>4 DEF g
      <4>. QED
        BY <3>1, <4>1, <4>2 DEF Follows, Sound, c, L
    <3>5. Nowhere(t, c[o + 1])
      BY <3>3, <3>4 DEF Nowhere, x
    <3>. QED
      BY <3>1, <3>2, <3>5 DEF Leads
  <2>8. CASE a + n <= o
    <3>1. moved[o] = o - n /\ o - n \in 0 .. L - n /\ o # a
      BY <1>1, <2>0, <2>8
    <3>2. BlockAt(t, o - n) = BlockAt(s, o)
      <4>1. CASE o < L
        <5>1. /\ o - n < L - n /\ (o - n) + 1 \in a + 1 .. L - n
              /\ ((o - n) + 1) + n = o + 1 /\ o - n \in 0 .. L
          BY <1>1, <2>8, <4>1
        <5>2. x[(o - n) + 1] = c[o + 1]
          BY <1>3, <5>1
        <5>. QED
          BY <2>3, <2>4, <4>1, <5>1, <5>2
      <4>2. CASE ~(o < L)
        <5>1. ~(o - n < L - n) /\ o - n \in 0 .. L
          BY <1>1, <3>1, <4>2
        <5>. QED
          BY <2>3, <2>4, <4>2, <5>1
      <4>. QED
        BY <4>1, <4>2
    <3>3. o - n \in 0 .. Len(x)
      BY <1>1, <1>3, <3>1
    <3>4. Invalidated # o - n
      BY <1>1, <2>2, <3>1
    <3>. QED
      BY <2>1, <3>1, <3>2, <3>3, <3>4 DEF Leads, Renamed
  <2>. QED
    BY <1>1, <2>5, <2>6, <2>7, <2>8
<1>10. Follows(t)
  <2>1. a \in 0 .. Len(s.content)
    BY <1>1 DEF c, L
  <2>2. Sound(t.content)
    BY <1>6 DEF x
  <2>3. t.names = Transferred(s, BlockAt(s, a), y)
    BY <1>4 DEF b
  <2>4. \A o \in 0 .. Len(s.content) :
           /\ moved[o] \in 0 .. Len(t.content) \cup {Invalidated}
           /\ Leads(t, moved[o], Renamed(BlockAt(s, a), y, BlockAt(s, o)))
    BY <1>9 DEF b, x, c, L
  <2>. QED
    BY <1>4, <1>7, <1>8, <2>1, <2>2, <2>3, <2>4, EditFollows
<1>. QED
  BY <1>3, <1>10 DEF t, x, c, L

LEMMA ReplaceFollows ==
  ASSUME StackAssumption, Living,
         NEW s, Follows(s), NEW d \in Nat, NEW new, Fresh(s, new),
         Len(new) > 0, d + Len(new) <= Len(s.content)
  PROVE  /\ Follows(ReplaceBlocks(s, d, new))
         /\ Len(ReplaceBlocks(s, d, new).content) = Len(s.content)
<1>. DEFINE t == ReplaceBlocks(s, d, new)
            c == s.content
            L == Len(c)
            n == Len(new)
            x == t.content
            moved == [o \in Offset |-> IF d < o /\ o < d + n THEN Invalidated ELSE o]
            b == BlockAt(s, d)
            y == new[1]
<1>1. /\ c \in Seq(Nat) /\ L \in Nat /\ L <= MaxBlocks /\ MaxBlocks \in Nat
      /\ size \in Nat /\ size <= MaxBlocks /\ d + n <= L /\ n \in Nat /\ n > 0
      /\ new \in Seq(Nat)
  BY DEF Follows, Sound, StackAssumption, Living, Offset, Fresh
<1>2. t = [content |-> [i \in DOMAIN c |-> IF d < i /\ i <= d + n THEN new[i - d] ELSE c[i]],
           table |-> UpdateNodes(s, moved), names |-> Transferred(s, b, y)]
  BY DEF ReplaceBlocks
<1>3. y \in Nat
  BY <1>1
<1>4. /\ \A i \in 1 .. L : c[i] # size /\ c[i] # Invalidated
      /\ \A i, j \in 1 .. L : c[i] = c[j] => i = j
  BY DEF Follows, Sound
<1>5. /\ \A i \in 1 .. n : new[i] \in Nat /\ new[i] # size /\ new[i] # Invalidated
      /\ \A i, j \in 1 .. n : new[i] = new[j] => i = j
      /\ \A i \in 1 .. n, j \in 1 .. L : new[i] # c[j]
  <2>1. Invalidated \in Nat /\ size < Invalidated
    BY <1>1 DEF Invalidated
  <2>2. \A i \in 1 .. n : new[i] \in Nat /\ new[i] > Invalidated
    BY <1>1 DEF Fresh
  <2>3. \A i \in 1 .. n : new[i] # size /\ new[i] # Invalidated
    BY <1>1, <2>1, <2>2
  <2>4. /\ \A i, j \in 1 .. n : new[i] = new[j] => i = j
        /\ \A i \in 1 .. n, j \in 1 .. L : new[i] # c[j]
    BY DEF Fresh
  <2>. QED
    BY <2>2, <2>3, <2>4
<1>. HIDE DEF t, c, moved, b, y, L, n
<1>6. /\ x \in Seq(Nat) /\ Len(x) = L
      /\ \A i \in 1 .. L : x[i] = IF d < i /\ i <= d + n THEN new[i - d] ELSE c[i]
  <2>1. x = [i \in DOMAIN c |-> IF d < i /\ i <= d + n THEN new[i - d] ELSE c[i]]
    BY <1>2
  <2>. HIDE DEF x
  <2>2. DOMAIN c = 1 .. L
    BY <1>1 DEF L
  <2>3. ASSUME NEW i \in 1 .. L
        PROVE  (IF d < i /\ i <= d + n THEN new[i - d] ELSE c[i]) \in Nat
    <3>1. CASE d < i /\ i <= d + n
      <4>1. i - d \in 1 .. n
        BY <1>1, <3>1
      <4>. QED
        BY <1>5, <3>1, <4>1
    <3>2. CASE ~(d < i /\ i <= d + n)
      <4>1. c[i] \in Nat
        BY <1>1 DEF L
      <4>. QED
        BY <3>2, <4>1
    <3>. QED
      BY <3>1, <3>2
  <2>4. x \in [1 .. L -> Nat]
    BY <2>1, <2>2, <2>3
  <2>5. x \in Seq(Nat) /\ Len(x) = L
    BY <1>1, <2>4
  <2>. QED
    BY <2>1, <2>2, <2>5
<1>7. t.table = UpdateNodes(s, moved) /\ t.names = Transferred(s, b, y)
  BY <1>2
<1>. HIDE DEF x
<1>8. \A i \in 1 .. L : \/ i - d \in 1 .. n /\ x[i] = new[i - d]
                        \/ i - d \notin 1 .. n /\ x[i] = c[i]
  BY <1>1, <1>6
<1>9. Sound(x)
  <2>1. ASSUME NEW i \in 1 .. L, NEW j \in 1 .. L, x[i] = x[j] PROVE i = j
    <3>1. CASE i - d \in 1 .. n /\ x[i] = new[i - d]
      <4>1. j - d \in 1 .. n /\ x[j] = new[j - d]
        BY <1>5, <1>8, <2>1, <3>1
      <4>2. i - d = j - d
        BY <1>5, <2>1, <3>1, <4>1
      <4>. QED
        BY <4>2
    <3>2. CASE x[i] = c[i]
      <4>1. x[j] = c[j]
        BY <1>5, <1>8, <2>1, <3>2
      <4>. QED
        BY <1>4, <2>1, <3>2, <4>1
    <3>. QED
      BY <1>8, <3>1, <3>2
  <2>2. ASSUME NEW i \in 1 .. L PROVE x[i] # size /\ x[i] # Invalidated
    BY <1>4, <1>5, <1>8
  <2>. QED
    BY <1>1, <1>6, <2>1, <2>2 DEF Sound
<1>10. ASSUME NEW r \in Ref, Nowhere(s, s.names[r]) PROVE Nowhere(t, s.names[r])
  <2>1. \A i \in 1 .. n : new[i] # s.names[r]
    BY DEF Fresh, n
  <2>2. \A i \in 1 .. L : x[i] # s.names[r]
    BY <1>8, <1>10, <2>1 DEF Nowhere, c, L
  <2>. QED
    BY <1>6, <1>10, <2>2 DEF Nowhere, x
<1>11. ASSUME NEW o \in 0 .. L
       PROVE  /\ moved[o] \in 0 .. Len(x) \cup {Invalidated}
              /\ Leads(t, moved[o], Renamed(b, y, BlockAt(s, o)))
  <2>0. o \in Offset /\ moved[o] = IF d < o /\ o < d + n THEN Invalidated ELSE o
    BY <1>1 DEF moved, Offset
  <2>1. o # d => BlockAt(s, o) # b
    BY <1>1, DistinctBlocks DEF b, Follows, c, L
  <2>2. Invalidated \notin 0 .. L
    BY <1>1 DEF Invalidated
  <2>3. BlockAt(t, o) = IF o < L THEN x[o + 1] ELSE size
    BY <1>6 DEF BlockAt, x
  <2>4. BlockAt(s, o) = IF o < L THEN c[o + 1] ELSE size
    BY DEF BlockAt, c, L
  <2>5. CASE d < o /\ o < d + n
    <3>1. o < L /\ o + 1 \in 1 .. L
      BY <1>1, <2>5
    <3>2. Renamed(b, y, BlockAt(s, o)) = c[o + 1]
      BY <1>1, <2>1, <2>4, <2>5, <3>1 DEF Renamed
    <3>3. ASSUME NEW i \in 1 .. L PROVE x[i] # c[o + 1]
      <4>1. CASE i - d \in 1 .. n /\ x[i] = new[i - d]
        BY <1>5, <3>1, <4>1
      <4>2. CASE i - d \notin 1 .. n /\ x[i] = c[i]
        <5>1. i # o + 1
          BY <1>1, <2>5, <4>2
        <5>. QED
          BY <1>4, <3>1, <4>2, <5>1
      <4>. QED
        BY <1>8, <4>1, <4>2
    <3>4. Nowhere(t, c[o + 1])
      BY <1>4, <1>6, <3>1, <3>3 DEF Nowhere, x
    <3>. QED
      BY <2>0, <2>5, <3>2, <3>4 DEF Leads
  <2>6. CASE o = d
    <3>1. o < L /\ o + 1 \in 1 .. L /\ (o + 1) - d = 1 /\ d < o + 1 /\ o + 1 <= d + n
      BY <1>1, <2>6
    <3>2. BlockAt(t, o) = new[1]
      BY <1>6, <2>3, <3>1
    <3>3. Renamed(b, y, BlockAt(s, o)) = new[1]
      BY <2>6 DEF Renamed, b, y
    <3>4. moved[o] = o
      BY <1>1, <2>0, <2>6
    <3>. QED
      BY <1>1, <1>6, <2>2, <3>2, <3>3, <3>4 DEF Leads
  <2>7. CASE o # d /\ ~(d < o /\ o < d + n)
    <3>1. BlockAt(t, o) = BlockAt(s, o)
      <4>1. CASE o < L
        <5>1. o + 1 \in 1 .. L /\ (o + 1) - d \notin 1 .. n
          BY <1>1, <2>7, <4>1
        <5>2. x[o + 1] = c[o + 1]
          BY <1>8, <5>1
        <5>. QED
          BY <2>3, <2>4, <4>1, <5>2
      <4>2. CASE ~(o < L)
        BY <2>3, <2>4, <4>2
      <4>. QED
        BY <4>1, <4>2
    <3>2. moved[o] = o
      BY <2>0, <2>7
    <3>. QED
      BY <1>1, <1>6, <2>1, <2>2, <2>7, <3>1, <3>2 DEF Leads, Renamed
  <2>. QED
    BY <2>5, <2>6, <2>7
<1>12. Follows(t)
  <2>1. d \in 0 .. Len(s.content)
    BY <1>1 DEF c, L
  <2>2. Sound(t.content)
    BY <1>9 DEF x
  <2>3. t.names = Transferred(s, BlockAt(s, d), y)
    BY <1>7 DEF b
  <2>4. \A o \in 0 .. Len(s.content) :
           /\ moved[o] \in 0 .. Len(t.content) \cup {Invalidated}
           /\ Leads(t, moved[o], Renamed(BlockAt(s, d), y, BlockAt(s, o)))
    BY <1>11 DEF b, x, c, L
  <2>. QED
    BY <1>3, <1>7, <1>10, <2>1, <2>2, <2>3, <2>4, EditFollows
<1>. QED
  BY <1>6, <1>12 DEF t, x, c, L
\* Where moveBlocks takes the offset o
MovedTo(d, f, n, at, o) ==
  IF f <= o /\ o < f + n THEN o + d - f - (IF d > f THEN n ELSE 0)
  ELSE IF f + n <= o /\ (o < d \/ (o = d /\ at)) THEN o - n
  ELSE IF o < f /\ (d < o \/ (o = d /\ ~at)) THEN o + n ELSE o

LEMMA MoveFollows ==
  ASSUME StackAssumption, Living,
         NEW s, Follows(s), NEW d \in Nat, NEW f \in Nat, NEW n \in Nat \ {0},
         NEW at \in BOOLEAN, f + n <= Len(s.content), d <= Len(s.content),
         d <= f \/ f + n <= d
  PROVE  /\ Follows(MoveBlocks(s, d, f, n, at))
         /\ Len(MoveBlocks(s, d, f, n, at).content) = Len(s.content)
<1>. DEFINE t == MoveBlocks(s, d, f, n, at)
            c == s.content
            L == Len(c)
            x == t.content
            moved == [o \in Offset |-> MovedTo(d, f, n, at, o)]
            b == BlockAt(s, d)
            y == IF at THEN BlockAt(s, f) ELSE b
            g == [i \in 1 .. L |-> CameFrom(d, f, n, i)]
<1>1. /\ c \in Seq(Nat) /\ L \in Nat /\ L <= MaxBlocks /\ MaxBlocks \in Nat
      /\ size \in Nat /\ size <= MaxBlocks /\ f + n <= L /\ d <= L
  BY DEF Follows, Sound, StackAssumption, Living, Offset
<1>2. CASE d = f
  <2>1. t = s
    BY <1>2 DEF MoveBlocks
  <2>. QED
    BY <2>1
<1>3. CASE d # f
  <2>0. d < f \/ (f + n <= d /\ f < d)
    BY <1>3
  <2>. DEFINE others == SubSeq(c, 1, f) \o SubSeq(c, f + n + 1, Len(c))
              place == IF d > f THEN d - n ELSE d
              z == SubSeq(others, 1, place) \o SubSeq(c, f + 1, f + n)
                   \o SubSeq(others, place + 1, Len(others))
  <2>1. t = [content |-> z, table |-> UpdateNodes(s, moved),
             names |-> IF at THEN Transferred(s, b, BlockAt(s, f)) ELSE s.names]
    BY <1>3 DEF MoveBlocks, MovedTo
  <2>. HIDE DEF t, c, moved, b
  <2>2. /\ x \in Seq(Nat) /\ Len(x) = L
        /\ \A i \in 1 .. L : x[i] = c[CameFrom(d, f, n, i)]
    <3>1. x = z
      BY <2>1
    <3>2. /\ z \in Seq(Nat) /\ Len(z) = Len(c)
          /\ \A i \in 1 .. Len(z) : z[i] = c[CameFrom(d, f, n, i)]
      BY <1>1, <2>0, MovedBlocks
    <3>. HIDE DEF x, z
    <3>. QED
      BY <3>1, <3>2
  <2>3. t.table = UpdateNodes(s, moved)
    BY <2>1
  <2>4. t.names = Transferred(s, b, y)
    <3>. HIDE DEF z
    <3>1. CASE at
      BY <2>1, <3>1
    <3>2. CASE ~at
      <4>1. s.names \in [Ref -> Nat]
        BY DEF Follows, Named
      <4>. QED
        BY <2>1, <3>2, <4>1 DEF Transferred
    <3>. QED
      BY <3>1, <3>2
  <2>5. y \in Nat
    <3>1. d \in 0 .. Len(s.content) /\ f \in 0 .. Len(s.content)
      BY <1>1 DEF c
    <3>2. BlockAt(s, f) \in Nat
      BY <1>1, <3>1, BlockIsSomewhere DEF Follows
    <3>3. b \in Nat
      BY <1>1, <3>1, BlockIsSomewhere DEF Follows, b
    <3>. QED
      BY <3>2, <3>3
  <2>. HIDE DEF x, L, y, z, others, place
  <2>6. /\ g \in [1 .. Len(x) -> 1 .. Len(c)]
        /\ \A i, j \in 1 .. Len(x) : g[i] = g[j] => i = j
        /\ \A i \in 1 .. Len(x) : x[i] = c[g[i]]
    <3>1. \A i \in 1 .. L : g[i] = CameFrom(d, f, n, i)
      OBVIOUS
    <3>2. ASSUME NEW i \in 1 .. L PROVE CameFrom(d, f, n, i) \in 1 .. L
      BY <1>1, <2>0 DEF CameFrom
    <3>3. ASSUME NEW i \in 1 .. L, NEW j \in 1 .. L,
                 CameFrom(d, f, n, i) = CameFrom(d, f, n, j)
          PROVE  i = j
      BY <1>1, <2>0, <3>3 DEF CameFrom
    <3>4. /\ g \in [1 .. L -> 1 .. L]
          /\ \A i, j \in 1 .. L : g[i] = g[j] => i = j
          /\ \A i \in 1 .. L : x[i] = c[g[i]]
      BY <2>2, <3>1, <3>2, <3>3
    <3>. QED
      BY <2>2, <3>4 DEF L
  <2>. HIDE DEF g
  <2>7. Sound(x)
    <3>1. Sound(c) /\ x \in Seq(Nat) /\ Len(x) <= MaxBlocks
      BY <1>1, <2>2 DEF Follows, c
    <3>. QED
      BY <2>6, <3>1, SelectedSound
  <2>8. ASSUME NEW r \in Ref, Nowhere(s, s.names[r]) PROVE Nowhere(t, s.names[r])
    BY <2>6, <2>8, SelectedNowhere DEF x, c
  <2>9. ASSUME NEW q \in 0 .. L
        PROVE  /\ BlockAt(t, q) = IF q < L THEN x[q + 1] ELSE size
               /\ BlockAt(s, q) = IF q < L THEN c[q + 1] ELSE size
    BY <2>2 DEF BlockAt, x, c, L
  <2>10. ASSUME NEW o \in 0 .. L
         PROVE  /\ moved[o] \in 0 .. Len(x) \cup {Invalidated}
                /\ Leads(t, moved[o], Renamed(b, y, BlockAt(s, o)))
    <3>. DEFINE q == MovedTo(d, f, n, at, o)
    <3>0. o \in Offset /\ moved[o] = q
      BY <1>1 DEF moved, Offset
    <3>1. o # d => BlockAt(s, o) # b
      BY <1>1, DistinctBlocks DEF b, Follows, c, L
    <3>2. Invalidated \notin 0 .. L
      BY <1>1 DEF Invalidated
    <3>3. q \in 0 .. L
      BY <1>1, <2>0 DEF MovedTo
    <3>4. CASE o = d /\ at
      <4>1. q < L /\ q + 1 \in 1 .. L /\ CameFrom(d, f, n, q + 1) = f + 1
        <5>1. CASE d < f
          <6>1. q = d
            BY <1>1, <3>4, <5>1 DEF MovedTo
          <6>. HIDE DEF q
          <6>. QED
            BY <1>1, <3>4, <5>1, <6>1 DEF CameFrom
        <5>2. CASE f + n <= d /\ f < d
          <6>1. q = d - n
            BY <1>1, <3>4, <5>2 DEF MovedTo
          <6>. HIDE DEF q
          <6>. QED
            BY <1>1, <3>4, <5>2, <6>1 DEF CameFrom
        <5>. QED
          BY <2>0, <5>1, <5>2
      <4>. HIDE DEF q
      <4>2. f < L /\ f \in 0 .. L
        BY <1>1
      <4>3. BlockAt(t, q) = BlockAt(s, f)
        BY <2>2, <2>9, <3>3, <4>1, <4>2
      <4>4. Renamed(b, y, BlockAt(s, o)) = BlockAt(s, f)
        BY <3>4 DEF Renamed, b, y
      <4>5. Invalidated # q /\ q \in 0 .. Len(x)
        BY <2>2, <3>2, <3>3
      <4>. QED
        BY <3>0, <4>3, <4>4, <4>5 DEF Leads
    <3>5. CASE o # d \/ ~at
      <4>1. CASE o < L
        <5>1. q < L /\ q + 1 \in 1 .. L /\ CameFrom(d, f, n, q + 1) = o + 1
          <6>1. CASE d < f
            BY <1>1, <3>5, <4>1, <6>1 DEF MovedTo, CameFrom
          <6>2. CASE f + n <= d /\ f < d
            BY <1>1, <3>5, <4>1, <6>2 DEF MovedTo, CameFrom
          <6>. QED
            BY <2>0, <6>1, <6>2
        <5>. HIDE DEF q
        <5>2. BlockAt(t, q) = BlockAt(s, o)
          BY <2>2, <2>9, <3>3, <4>1, <5>1
        <5>3. Renamed(b, y, BlockAt(s, o)) = BlockAt(s, o)
          BY <3>1, <3>5 DEF Renamed, b, y
        <5>4. Invalidated # q /\ q \in 0 .. Len(x)
          BY <2>2, <3>2, <3>3
        <5>. QED
          BY <3>0, <5>2, <5>3, <5>4 DEF Leads
      <4>2. CASE ~(o < L)
        <5>1. o = L /\ q = L
          BY <1>1, <2>0, <3>5, <4>2 DEF MovedTo
        <5>. HIDE DEF q
        <5>2. BlockAt(t, q) = BlockAt(s, o)
          BY <2>9, <3>3, <5>1
        <5>3. Renamed(b, y, BlockAt(s, o)) = BlockAt(s, o)
          BY <3>1, <3>5 DEF Renamed, b, y
        <5>4. Invalidated # q /\ q \in 0 .. Len(x)
          BY <2>2, <3>2, <3>3
        <5>. QED
          BY <3>0, <5>2, <5>3, <5>4 DEF Leads
      <4>. QED
        BY <4>1, <4>2
    <3>. QED
      BY <3>4, <3>5
  <2>11. Follows(t)
    <3>1. d \in 0 .. Len(s.content)
      BY <1>1 DEF c, L
    <3>2. Sound(t.content)
      BY <2>7 DEF x
    <3>3. t.names = Transferred(s, BlockAt(s, d), y)
      BY <2>4 DEF b
    <3>4. \A o \in 0 .. Len(s.content) :
             /\ moved[o] \in 0 .. Len(t.content) \cup {Invalidated}
             /\ Leads(t, moved[o], Renamed(BlockAt(s, d), y, BlockAt(s, o)))
      BY <2>10 DEF b, x, c, L
    <3>. QED
      BY <2>3, <2>5, <2>8, <3>1, <3>2, <3>3, <3>4, EditFollows
  <2>. QED
    BY <2>2, <2>11 DEF t, x, c, L
<1>. QED
  BY <1>2, <1>3
----------------------------------------------------------------------------
\* The stack before an edition, and after

LEMMA FrameTypes ==
  ASSUME TypeOK, NEW k \in 1 .. Depth
  PROVE  /\ frames[k].right \in Offset /\ frames[k].length \in 0 .. MaxReferences
         /\ frames[k].parent \in 0 .. Stale
<1>. DEFINE Frame == [right : Offset, length : 0 .. MaxReferences, parent : 0 .. Stale]
<1>1. frames \in Seq(Frame) /\ k \in 1 .. Len(frames)
  BY DEF TypeOK, Depth
<1>2. \A f \in Frame : f.right \in Offset /\ f.length \in 0 .. MaxReferences
                        /\ f.parent \in 0 .. Stale
  OBVIOUS
<1>. HIDE DEF Frame
<1>3. frames[k] \in Frame
  BY <1>1
<1>. QED
  BY <1>2, <1>3

LEMMA FramesBelowRightmost ==
  ASSUME FramesInside, TypeOK, NEW k \in 1 .. Depth
  PROVE  frames[k].right <= Rightmost /\ Rightmost \in Nat
<1>1. Depth \in Nat
  BY DEF TypeOK, Depth
<1>2. Depth \in 1 .. Depth /\ Depth # 0 /\ k \in 1 .. Depth
  BY <1>1
<1>3. frames[Depth].right \in Nat
  BY <1>2, FrameTypes DEF Offset
<1>. QED
  BY <1>2, <1>3 DEF FramesInside, Rightmost

LEMMA StackFollows ==
  ASSUME StackAssumption, IInv
  PROVE  /\ Living /\ Follows(Stack) /\ Len(Stack.content) = size
         /\ \A r \in Ref : Stack.names[r] <= Invalidated
         /\ \A i \in 1 .. size : Stack.content[i] <= Invalidated
<1>. DEFINE c == [i \in 1 .. size |-> i - 1]
<1>1. size \in Nat /\ size <= MaxBlocks /\ MaxBlocks \in Nat
  BY DEF IInv, TypeOK, Offset, StackAssumption
<1>2. Stack.content = c /\ Stack.table = table /\ Stack.names = names
  BY DEF Stack
<1>3. c \in Seq(Nat) /\ Len(c) = size /\ \A i \in 1 .. size : c[i] = i - 1
  <2>1. c \in [1 .. size -> Nat]
    BY <1>1
  <2>. QED
    BY <1>1, <2>1
<1>. HIDE DEF c
<1>4. Sound(c)
  <2>1. \A i \in 1 .. size : c[i] # size /\ c[i] # Invalidated
    BY <1>1, <1>3 DEF Invalidated
  <2>2. \A i, j \in 1 .. size : c[i] = c[j] => i = j
    BY <1>1, <1>3
  <2>. QED
    BY <1>1, <1>3, <2>1, <2>2 DEF Sound
<1>5. Living
  <2>1. ASSUME NEW r \in Ref, ref[r] # NoId
        PROVE  ref[r] \in 1 .. Len(table) /\ table[ref[r]] # Deleted
    <3>1. ref[r] \in 0 .. MaxReferences
      BY DEF IInv, TypeOK
    <3>2. ref[r] <= Len(table) /\ table[ref[r]] # Deleted
      BY <2>1 DEF IInv, Owned
    <3>3. Len(table) \in Nat /\ MaxReferences \in Nat
      BY DEF IInv, TypeOK, StackAssumption
    <3>. QED
      BY <2>1, <3>1, <3>2, <3>3 DEF NoId
  <2>. QED
    BY <1>1, <2>1 DEF Living, Offset
<1>6. ASSUME NEW i \in 1 .. Len(table)
      PROVE  table[i] \in 0 .. size \cup {Deleted, Invalidated}
  <2>1. table[i] \in Offset \cup {Deleted, Invalidated}
    BY DEF IInv, TypeOK
  <2>2. table[i] \in Offset => table[i] <= size
    <3>1. i \in DOMAIN table
      BY DEF IInv, TypeOK
    <3>. QED
      BY <3>1 DEF IInv, OffsetsInside
  <2>. QED
    BY <1>1, <2>1, <2>2 DEF Offset
<1>7. Tabled(Stack)
  <2>1. table \in [1 .. Len(table) -> 0 .. size \cup {Deleted, Invalidated}]
    <3>1. DOMAIN table = 1 .. Len(table) /\ table = [i \in DOMAIN table |-> table[i]]
      BY DEF IInv, TypeOK
    <3>. QED
      BY <1>6, <3>1
  <2>. QED
    BY <1>2, <1>3, <2>1 DEF Tabled
<1>8. names \in [Ref -> Nat] /\ \A r \in Ref : names[r] <= Invalidated
  <2>1. Offset \cup {Invalidated} \subseteq 0 .. Invalidated
    BY <1>1 DEF Offset, Invalidated
  <2>2. names \in [Ref -> 0 .. Invalidated]
    BY <2>1 DEF IInv, TypeOK
  <2>3. Invalidated \in Nat
    BY <1>1 DEF Invalidated
  <2>4. \A r \in Ref : names[r] \in Nat /\ names[r] <= Invalidated
    BY <2>2, <2>3
  <2>. QED
    BY <2>2, <2>4
<1>9. ASSUME NEW r \in Ref, ref[r] # NoId PROVE Leads(Stack, table[ref[r]], names[r])
  <2>1. ref[r] \in 1 .. Len(table) /\ table[ref[r]] # Deleted
    BY <1>5, <1>9 DEF Living
  <2>. DEFINE o == table[ref[r]]
  <2>2. o \in 0 .. size \cup {Invalidated}
    BY <1>6, <2>1
  <2>3. names[r] = o
    BY <1>9 DEF IInv, ReferencesFollow
  <2>. HIDE DEF o
  <2>4. CASE o = Invalidated
    <3>1. Nowhere(Stack, Invalidated)
      <4>1. Invalidated # size
        BY <1>1 DEF Invalidated
      <4>. QED
        BY <1>2, <1>3, <1>4, <4>1 DEF Nowhere, Sound
    <3>. QED
      BY <2>3, <2>4, <3>1 DEF Leads, o
  <2>5. CASE o # Invalidated /\ o < size
    <3>1. o + 1 \in 1 .. size /\ (o + 1) - 1 = o
      BY <1>1, <2>2, <2>5
    <3>2. BlockAt(Stack, o) = o
      BY <1>2, <1>3, <2>5, <3>1 DEF BlockAt
    <3>. QED
      BY <2>3, <2>5, <3>2 DEF Leads, o
  <2>6. CASE o # Invalidated /\ ~(o < size)
    <3>1. o = size
      BY <1>1, <2>2, <2>6
    <3>2. BlockAt(Stack, o) = o
      BY <1>2, <1>3, <2>6, <3>1 DEF BlockAt
    <3>. QED
      BY <2>3, <2>6, <3>2 DEF Leads, o
  <2>. QED
    BY <2>4, <2>5, <2>6
<1>10. Named(Stack)
  BY <1>2, <1>8, <1>9 DEF Named
<1>11. \A i \in 1 .. size : c[i] <= Invalidated
  BY <1>1, <1>3 DEF Invalidated
<1>. QED
  BY <1>2, <1>3, <1>4, <1>5, <1>7, <1>8, <1>10, <1>11 DEF Follows

LEMMA PlaceOfBlock ==
  ASSUME StackAssumption, size \in Offset,
         NEW s, Sound(s.content), NEW o \in 0 .. Len(s.content)
  PROVE  PlaceOf(s.content, BlockAt(s, o)) = o
<1>. DEFINE c == s.content
<1>1. /\ c \in Seq(Nat) /\ Len(c) \in Nat
      /\ \A i \in 1 .. Len(c) : c[i] # size
      /\ \A i, j \in 1 .. Len(c) : c[i] = c[j] => i = j
  BY DEF Sound
<1>2. DOMAIN c = 1 .. Len(c)
  BY <1>1
<1>3. CASE o < Len(c)
  <2>1. o + 1 \in 1 .. Len(c)
    BY <1>1, <1>3
  <2>2. BlockAt(s, o) = c[o + 1]
    BY <1>3 DEF BlockAt
  <2>3. c[o + 1] # size
    BY <1>1, <2>1
  <2>4. (CHOOSE i \in DOMAIN c : c[i] = c[o + 1]) = o + 1
    BY <1>1, <1>2, <2>1
  <2>5. \E i \in DOMAIN c : c[i] = c[o + 1]
    BY <1>2, <2>1
  <2>6. PlaceOf(c, c[o + 1]) = (o + 1) - 1
    BY <2>3, <2>4, <2>5 DEF PlaceOf
  <2>. QED
    BY <2>2, <2>6
<1>4. CASE ~(o < Len(c))
  <2>1. o = Len(c) /\ BlockAt(s, o) = size
    BY <1>1, <1>4 DEF BlockAt
  <2>. QED
    BY <2>1 DEF PlaceOf
<1>. QED
  BY <1>3, <1>4

LEMMA PlaceOfType ==
  ASSUME StackAssumption, NEW c, Sound(c), NEW x
  PROVE  PlaceOf(c, x) \in Offset \cup {Invalidated}
<1>1. c \in Seq(Nat) /\ Len(c) \in Nat /\ Len(c) <= MaxBlocks /\ MaxBlocks \in Nat
  BY DEF Sound, StackAssumption
<1>2. DOMAIN c = 1 .. Len(c)
  BY <1>1
<1>3. CASE x = size
  BY <1>1, <1>3 DEF PlaceOf, Offset
<1>4. CASE x # size /\ \E i \in DOMAIN c : c[i] = x
  <2>. DEFINE i == CHOOSE i \in DOMAIN c : c[i] = x
  <2>1. i \in 1 .. Len(c)
    BY <1>2, <1>4
  <2>2. PlaceOf(c, x) = i - 1
    BY <1>4 DEF PlaceOf
  <2>. HIDE DEF i
  <2>. QED
    BY <1>1, <2>1, <2>2 DEF Offset
<1>5. CASE x # size /\ ~(\E i \in DOMAIN c : c[i] = x)
  BY <1>5 DEF PlaceOf
<1>. QED
  BY <1>3, <1>4, <1>5

\* An edition that follows, right of what a Try is to keep, keeps the invariant
LEMMA EditionKeeps ==
  ASSUME StackAssumption, IInv, NEW s, Follows(s), Rightmost <= Len(s.content), Becomes(s)
  PROVE  IInv'
<1>. DEFINE c == s.content
            L == Len(c)
<1>0. /\ size \in Offset /\ Living
  BY StackFollows DEF Living
<1>1. /\ size' = L /\ table' = s.table
      /\ names' = [r \in Ref |-> PlaceOf(c, s.names[r])]
      /\ ref' = ref /\ frames' = frames /\ topmost' = topmost
  BY DEF Becomes
<1>2. Sound(c) /\ c \in Seq(Nat) /\ L \in Nat /\ L <= MaxBlocks /\ MaxBlocks \in Nat
  BY DEF Follows, Sound, StackAssumption
<1>. HIDE DEF c, L
<1>3. Len(table) \in Nat /\ table \in Seq(Offset \cup {Deleted, Invalidated})
      /\ Len(table) <= MaxReferences /\ DOMAIN table = 1 .. Len(table)
  BY DEF IInv, TypeOK
<1>4. /\ s.table \in [1 .. Len(table) -> 0 .. L \cup {Deleted, Invalidated}]
      /\ \A i \in 1 .. Len(table) : s.table[i] = Deleted <=> table[i] = Deleted
  BY DEF Follows, Tabled, L, c
<1>5. 0 .. L \subseteq Offset
  BY <1>2 DEF Offset
<1>6. /\ table' \in Seq(Offset \cup {Deleted, Invalidated}) /\ Len(table') = Len(table)
      /\ DOMAIN table' = 1 .. Len(table)
  <2>1. s.table \in [1 .. Len(table) -> Offset \cup {Deleted, Invalidated}]
    BY <1>4, <1>5
  <2>2. s.table \in Seq(Offset \cup {Deleted, Invalidated}) /\ Len(s.table) = Len(table)
    BY <1>3, <2>1
  <2>. QED
    BY <1>1, <1>4, <2>2
<1>7. names' \in [Ref -> Offset \cup {Invalidated}]
  BY <1>1, <1>2, PlaceOfType
<1>8. TypeOK'
  BY <1>1, <1>2, <1>3, <1>6, <1>7 DEF IInv, TypeOK, Offset, Depth, Ref
<1>9. OffsetsInside'
  <2>1. ASSUME NEW i \in DOMAIN table', table'[i] \in Offset PROVE table'[i] <= size'
    <3>1. s.table[i] \in 0 .. L \cup {Deleted, Invalidated}
      BY <1>4, <1>6
    <3>2. Deleted \notin Offset /\ Invalidated \notin Offset
      BY <1>2 DEF Deleted, Invalidated, Offset
    <3>. QED
      BY <1>1, <1>2, <2>1, <3>1, <3>2
  <2>. QED
    BY <2>1 DEF OffsetsInside, Offset
<1>10. ASSUME NEW i \in 1 .. Len(table) PROVE table'[i] = Deleted <=> table[i] = Deleted
  BY <1>1, <1>4
<1>11. Owned'
  <2>1. ASSUME NEW r \in Ref, ref[r] # NoId
        PROVE  /\ r[1] <= Depth
               /\ ref[r] <= Len(table') /\ table'[ref[r]] # Deleted
               /\ \A q \in Ref : ref[q] = ref[r] => q = r
    <3>1. ref[r] \in 1 .. Len(table)
      BY <1>0, <2>1 DEF Living
    <3>. QED
      BY <1>6, <1>10, <2>1, <3>1 DEF IInv, Owned
  <2>. QED
    BY <1>1, <2>1 DEF Owned, Ref, Depth, Deleted
<1>12. LastIsKept'
  <2>1. Len(table) > 0 => Len(table) \in 1 .. Len(table)
    BY <1>3
  <2>. QED
    BY <1>6, <1>10, <2>1 DEF IInv, LastIsKept, Deleted
<1>13. FramesInside'
  <2>1. ASSUME NEW k \in 1 .. Depth
        PROVE  /\ frames[k].right <= L
               /\ frames[k].length <= Len(table')
               /\ frames[k].length > 0 => table'[frames[k].length] # Deleted
    <3>1. Depth \in Nat /\ k \in 1 .. Depth
      BY DEF IInv, TypeOK, Depth
    <3>2. frames[k].right \in Nat /\ frames[k].length \in Nat
      BY FrameTypes DEF IInv, Offset
    <3>3. frames[k].right <= Rightmost /\ Rightmost \in Nat
      BY FramesBelowRightmost DEF IInv
    <3>4. /\ frames[k].length <= Len(table)
          /\ frames[k].length > 0 => table[frames[k].length] # Deleted
      BY DEF IInv, FramesInside
    <3>5. frames[k].length > 0 => frames[k].length \in 1 .. Len(table)
      BY <1>3, <3>2, <3>4
    <3>6. Rightmost <= L
      BY DEF L, c
    <3>. QED
      BY <1>2, <1>6, <1>10, <3>2, <3>3, <3>4, <3>5, <3>6
  <2>. QED
    BY <1>1, <2>1 DEF IInv, FramesInside, Depth, Deleted
<1>14. FramesKeepReferences' /\ TopmostIsDepth'
  BY <1>1 DEF IInv, FramesKeepReferences, TopmostIsDepth, Depth, Ref
<1>15. ReferencesFollow'
  <2>1. ASSUME NEW r \in Ref, ref[r] # NoId PROVE table'[ref[r]] = names'[r]
    <3>. DEFINE o == s.table[ref[r]]
    <3>1. ref[r] \in 1 .. Len(table) /\ table[ref[r]] # Deleted
      BY <1>0, <2>1 DEF Living
    <3>2. o \in 0 .. L \cup {Invalidated}
      BY <1>4, <3>1
    <3>3. Leads(s, o, s.names[r])
      BY <2>1 DEF Follows, Named
    <3>4. names'[r] = PlaceOf(c, s.names[r]) /\ table'[ref[r]] = o
      BY <1>1
    <3>. HIDE DEF o
    <3>5. CASE o = Invalidated
      <4>1. s.names[r] # size /\ \A i \in 1 .. L : c[i] # s.names[r]
        BY <3>3, <3>5 DEF Leads, Nowhere, c, L
      <4>2. DOMAIN c = 1 .. L
        BY <1>2 DEF L
      <4>3. PlaceOf(c, s.names[r]) = Invalidated
        BY <4>1, <4>2 DEF PlaceOf
      <4>. QED
        BY <3>4, <3>5, <4>3
    <3>6. CASE o # Invalidated
      <4>1. s.names[r] = BlockAt(s, o) /\ o \in 0 .. Len(s.content)
        BY <3>2, <3>3, <3>6 DEF Leads, c, L
      <4>2. PlaceOf(s.content, BlockAt(s, o)) = o
        BY <1>0, <1>2, <4>1, PlaceOfBlock DEF c
      <4>. QED
        BY <3>4, <4>1, <4>2 DEF c
    <3>. QED
      BY <3>5, <3>6
  <2>. QED
    BY <1>1, <2>1 DEF ReferencesFollow, Ref
<1>. QED
  BY <1>8, <1>9, <1>11, <1>12, <1>13, <1>14, <1>15 DEF IInv
----------------------------------------------------------------------------
\* The motions

LEMMA RightmostType ==
  ASSUME TypeOK
  PROVE  Rightmost \in Nat
<1>1. Depth \in Nat
  BY DEF TypeOK, Depth
<1>2. CASE Depth = 0
  BY <1>2 DEF Rightmost
<1>3. CASE Depth # 0
  <2>1. Depth \in 1 .. Depth
    BY <1>1, <1>3
  <2>2. frames[Depth].right \in Nat
    BY <2>1, FrameTypes DEF Offset
  <2>. QED
    BY <1>3, <2>2 DEF Rightmost
<1>. QED
  BY <1>2, <1>3

LEMMA NewBlocksProperties ==
  ASSUME StackAssumption, NEW n \in Nat
  PROVE  /\ NewBlocks(n) \in Seq(Nat) /\ Len(NewBlocks(n)) = n
         /\ \A i \in 1 .. n : NewBlocks(n)[i] = Invalidated + i
<1>1. Invalidated \in Nat
  BY DEF StackAssumption, Invalidated
<1>2. NewBlocks(n) \in [1 .. n -> Nat] /\ \A i \in 1 .. n : NewBlocks(n)[i] = Invalidated + i
  BY <1>1 DEF NewBlocks
<1>. QED
  BY <1>2

\* The blocks made after the first k are new to a stack edited with those only
LEMMA NewBlocksAreFresh ==
  ASSUME StackAssumption, NEW s, Follows(s), NEW k \in Nat, NEW n \in Nat, NEW new,
         new \in Seq(Nat), Len(new) = n,
         \A i \in 1 .. n : new[i] = Invalidated + k + i,
         \A i \in 1 .. Len(s.content) : s.content[i] <= Invalidated + k,
         \A r \in Ref : s.names[r] <= Invalidated + k
  PROVE  Fresh(s, new)
<1>1. Invalidated \in Nat
  BY DEF StackAssumption, Invalidated
<1>2. \A i, j \in 1 .. n : new[i] = new[j] => i = j
  BY <1>1
<1>3. ASSUME NEW i \in 1 .. n
      PROVE  /\ new[i] > Invalidated
             /\ \A j \in 1 .. Len(s.content) : s.content[j] # new[i]
             /\ \A r \in Ref : s.names[r] # new[i]
  <2>1. new[i] = Invalidated + k + i /\ Invalidated + k + i > Invalidated + k
    BY <1>1
  <2>2. ASSUME NEW j \in 1 .. Len(s.content) PROVE s.content[j] # new[i]
    <3>1. s.content[j] \in Nat /\ s.content[j] <= Invalidated + k
      BY DEF Follows, Sound
    <3>. QED
      BY <1>1, <2>1, <3>1
  <2>3. ASSUME NEW r \in Ref PROVE s.names[r] # new[i]
    <3>1. s.names[r] \in Nat /\ s.names[r] <= Invalidated + k
      BY DEF Follows, Named
    <3>. QED
      BY <1>1, <2>1, <3>1
  <2>. QED
    BY <1>1, <2>1, <2>2, <2>3
<1>. QED
  BY <1>2, <1>3 DEF Fresh

LEMMA CloneAtKeeps ==
  ASSUME StackAssumption, IInv, NEW d \in Offset, NEW n \in Run, NEW at \in BOOLEAN,
         CloneAt(d, n, at)
  PROVE  IInv'
<1>. DEFINE t == InsertBlocks(Stack, d, NewBlocks(n), at)
<1>1. /\ Living /\ Follows(Stack) /\ Len(Stack.content) = size
      /\ \A r \in Ref : Stack.names[r] <= Invalidated
      /\ \A i \in 1 .. size : Stack.content[i] <= Invalidated
  BY StackFollows
<1>2. Rightmost <= d /\ d <= size /\ size + n <= MaxBlocks /\ Becomes(t)
  BY DEF CloneAt
<1>. HIDE DEF t
<1>3. n \in Nat /\ size \in Nat /\ d \in Nat /\ Rightmost \in Nat /\ Invalidated \in Nat
  BY RightmostType DEF Run, StackAssumption, IInv, TypeOK, Offset, Invalidated
<1>4. Fresh(Stack, NewBlocks(n)) /\ Len(NewBlocks(n)) = n
  <2>1. /\ NewBlocks(n) \in Seq(Nat) /\ Len(NewBlocks(n)) = n
        /\ \A i \in 1 .. n : NewBlocks(n)[i] = Invalidated + i
    BY <1>3, NewBlocksProperties
  <2>2. /\ \A i \in 1 .. n : NewBlocks(n)[i] = Invalidated + 0 + i
        /\ \A i \in 1 .. Len(Stack.content) : Stack.content[i] <= Invalidated + 0
        /\ \A r \in Ref : Stack.names[r] <= Invalidated + 0
    BY <1>1, <1>3, <2>1
  <2>. QED
    BY <1>1, <1>3, <2>1, <2>2, NewBlocksAreFresh
<1>5. Follows(t) /\ Len(t.content) = size + n
  <2>. DEFINE w == NewBlocks(n)
  <2>1. /\ t = InsertBlocks(Stack, d, w, at) /\ Fresh(Stack, w) /\ Len(w) = n
        /\ d \in 0 .. Len(Stack.content) /\ Len(Stack.content) + Len(w) <= MaxBlocks
    BY <1>1, <1>2, <1>3, <1>4 DEF t
  <2>. HIDE DEF w
  <2>2. Follows(t) /\ Len(t.content) = Len(Stack.content) + Len(w)
    BY <1>1, <2>1, InsertFollows
  <2>. QED
    BY <1>1, <2>1, <2>2
<1>6. Rightmost <= Len(t.content)
  BY <1>2, <1>3, <1>5
<1>. QED
  BY <1>2, <1>5, <1>6, EditionKeeps

LEMMA MoveAtKeeps ==
  ASSUME StackAssumption, IInv, NEW d \in Offset, NEW f \in Offset, NEW n \in Run,
         NEW at \in BOOLEAN, MoveAt(d, f, n, at)
  PROVE  IInv'
<1>. DEFINE t == MoveBlocks(Stack, d, f, n, at)
<1>1. Living /\ Follows(Stack) /\ Len(Stack.content) = size
  BY StackFollows
<1>2. d <= size /\ f + n <= size /\ Rightmost <= d /\ (d <= f \/ f + n <= d) /\ Becomes(t)
  BY DEF MoveAt, IsRun
<1>. HIDE DEF t
<1>3. n \in Nat \ {0} /\ size \in Nat /\ d \in Nat /\ f \in Nat /\ Rightmost \in Nat
  BY RightmostType DEF Run, StackAssumption, IInv, TypeOK, Offset
<1>4. Follows(t) /\ Len(t.content) = size
  <2>1. f + n <= Len(Stack.content) /\ d <= Len(Stack.content) /\ (d <= f \/ f + n <= d)
    BY <1>1, <1>2
  <2>2. t = MoveBlocks(Stack, d, f, n, at) /\ at \in BOOLEAN
    BY DEF t
  <2>3. Follows(t) /\ Len(t.content) = Len(Stack.content)
    BY <1>1, <1>3, <2>1, <2>2, MoveFollows
  <2>. QED
    BY <1>1, <2>3
<1>5. Rightmost <= Len(t.content)
  BY <1>2, <1>3, <1>4
<1>. QED
  BY <1>2, <1>4, <1>5, EditionKeeps

LEMMA RemoveRunKeeps ==
  ASSUME StackAssumption, IInv, NEW a \in Offset, NEW n \in Run, RemoveRun(a, n)
  PROVE  IInv'
<1>. DEFINE t == RemoveBlocks(Stack, a, n)
<1>1. Living /\ Follows(Stack) /\ Len(Stack.content) = size
  BY StackFollows
<1>2. Rightmost <= a /\ a + n <= size /\ Becomes(t)
  BY DEF RemoveRun, IsRun
<1>. HIDE DEF t
<1>3. n \in Nat \ {0} /\ size \in Nat /\ a \in Nat /\ Rightmost \in Nat
  BY RightmostType DEF Run, StackAssumption, IInv, TypeOK, Offset
<1>4. Follows(t) /\ Len(t.content) = size - n
  BY <1>1, <1>2, <1>3, RemoveFollows DEF t
<1>5. Rightmost <= Len(t.content)
  BY <1>2, <1>3, <1>4
<1>. QED
  BY <1>2, <1>4, <1>5, EditionKeeps

LEMMA SwapKeeps ==
  ASSUME StackAssumption, IInv, NEW a \in Offset, NEW n \in Run, NEW b \in Offset,
         NEW m \in Run, Swap(a, n, b, m)
  PROVE  IInv'
<1>. DEFINE u == MoveBlocks(Stack, b, a, n, FALSE)
            t == MoveBlocks(u, a, b, m, FALSE)
<1>1. Living /\ Follows(Stack) /\ Len(Stack.content) = size
  BY StackFollows
<1>2. Rightmost <= a /\ a + n <= b /\ b + m <= size /\ Becomes(t)
  BY DEF Swap, IsRun
<1>. HIDE DEF t, u
<1>3. /\ n \in Nat \ {0} /\ m \in Nat \ {0} /\ size \in Nat /\ a \in Nat /\ b \in Nat
      /\ Rightmost \in Nat
  BY RightmostType DEF Run, StackAssumption, IInv, TypeOK, Offset
<1>4. Follows(u) /\ Len(u.content) = size
  <2>1. a + n <= Len(Stack.content) /\ b <= Len(Stack.content) /\ (b <= a \/ a + n <= b)
    BY <1>1, <1>2, <1>3
  <2>. QED
    BY <1>1, <1>3, <2>1, MoveFollows DEF u
<1>5. Follows(t) /\ Len(t.content) = size
  <2>1. b + m <= Len(u.content) /\ a <= Len(u.content) /\ (a <= b \/ b + m <= a)
    BY <1>2, <1>3, <1>4
  <2>2. t = MoveBlocks(u, a, b, m, FALSE)
    BY DEF t
  <2>3. Follows(t) /\ Len(t.content) = Len(u.content)
    BY <1>1, <1>3, <1>4, <2>1, <2>2, MoveFollows
  <2>. QED
    BY <1>4, <2>3
<1>6. Rightmost <= Len(t.content)
  BY <1>2, <1>3, <1>5
<1>. QED
  BY <1>2, <1>5, <1>6, EditionKeeps

LEMMA MoveOverKeeps ==
  ASSUME StackAssumption, IInv, NEW o \in Offset, NEW n \in Run, NEW f \in Offset,
         NEW m \in Run, MoveOver(o, n, f, m)
  PROVE  IInv'
<1>. DEFINE u == MoveBlocks(Stack, o, f, m, TRUE)
            final == IF o > f THEN o - m ELSE o
            k == IF Inside(o, n, f, m) THEN n - m ELSE n
            t == RemoveBlocks(u, final + m, k)
<1>0. Becomes(t)
  BY DEF MoveOver, MovedOver
<1>1. Living /\ Follows(Stack) /\ Len(Stack.content) = size
  BY StackFollows
<1>2. /\ f + m <= o \/ o + n <= f \/ Inside(o, n, f, m)
      /\ o + n <= size /\ f + m <= size /\ Rightmost <= o /\ Rightmost <= f
  BY DEF MoveOver, CanMoveOver, IsRun
<1>. HIDE DEF t, u
<1>3. /\ n \in Nat \ {0} /\ m \in Nat \ {0} /\ size \in Nat /\ o \in Nat /\ f \in Nat
      /\ Rightmost \in Nat
  BY RightmostType DEF Run, StackAssumption, IInv, TypeOK, Offset
<1>4. Follows(u) /\ Len(u.content) = size
  <2>1. f + m <= Len(Stack.content) /\ o <= Len(Stack.content) /\ (o <= f \/ f + m <= o)
    BY <1>1, <1>2, <1>3 DEF Inside
  <2>. QED
    BY <1>1, <1>3, <2>1, MoveFollows DEF u
<1>5. /\ final + m \in Nat /\ k \in Nat \ {0} /\ (final + m) + k <= size
      /\ Rightmost <= size - k
  BY <1>2, <1>3 DEF Inside
<1>. DEFINE e == final + m
<1>. HIDE DEF final, k
<1>6. Follows(t) /\ Len(t.content) = size - k
  <2>1. e \in Nat /\ e + k <= Len(u.content)
    BY <1>4, <1>5
  <2>2. t = RemoveBlocks(u, e, k)
    BY DEF t
  <2>. HIDE DEF e
  <2>. QED
    BY <1>1, <1>4, <1>5, <2>1, <2>2, RemoveFollows
<1>7. Rightmost <= Len(t.content)
  BY <1>5, <1>6
<1>. QED
  BY <1>0, <1>6, <1>7, EditionKeeps

LEMMA CloneOverKeeps ==
  ASSUME StackAssumption, IInv, NEW o \in Offset, NEW n \in Run, NEW m \in Run,
         CloneOver(o, n, m)
  PROVE  IInv'
<1>. DEFINE min == IF n < m THEN n ELSE m
            u == ReplaceBlocks(Stack, o, NewBlocks(min))
            new == SubSeq(NewBlocks(m), min + 1, m)
            t == ClonedOver(o, n, m)
<1>1. /\ Living /\ Follows(Stack) /\ Len(Stack.content) = size
      /\ \A r \in Ref : Stack.names[r] <= Invalidated
      /\ \A i \in 1 .. size : Stack.content[i] <= Invalidated
  BY StackFollows
<1>2. Rightmost <= o /\ o + n <= size /\ size - n + m <= MaxBlocks /\ Becomes(t)
  BY DEF CloneOver, CanCloneOver, IsRun
<1>3. t = IF n > m THEN RemoveBlocks(u, o + min, n - m) ELSE InsertBlocks(u, o + min, new, FALSE)
  BY DEF ClonedOver
<1>. HIDE DEF t, u, new
<1>4. /\ n \in Nat \ {0} /\ m \in Nat \ {0} /\ size \in Nat /\ o \in Nat
      /\ Rightmost \in Nat /\ Invalidated \in Nat
  BY RightmostType DEF Run, StackAssumption, IInv, TypeOK, Offset, Invalidated
<1>5. min \in Nat \ {0} /\ min <= n /\ min <= m /\ (n > m => min = m) /\ (~(n > m) => min = n)
  BY <1>4
<1>. HIDE DEF min
<1>6. /\ NewBlocks(min) \in Seq(Nat) /\ Len(NewBlocks(min)) = min
      /\ \A i \in 1 .. min : NewBlocks(min)[i] = Invalidated + i
  BY <1>5, NewBlocksProperties
<1>7. Fresh(Stack, NewBlocks(min))
  <2>1. /\ \A i \in 1 .. min : NewBlocks(min)[i] = Invalidated + 0 + i
        /\ \A i \in 1 .. Len(Stack.content) : Stack.content[i] <= Invalidated + 0
        /\ \A r \in Ref : Stack.names[r] <= Invalidated + 0
    BY <1>1, <1>4, <1>6
  <2>2. min \in Nat
    BY <1>5
  <2>. QED
    BY <1>1, <1>6, <2>1, <2>2, NewBlocksAreFresh
<1>8. Follows(u) /\ Len(u.content) = size
  <2>1. Len(NewBlocks(min)) > 0 /\ o + Len(NewBlocks(min)) <= Len(Stack.content)
    BY <1>1, <1>2, <1>4, <1>5, <1>6
  <2>. QED
    BY <1>1, <1>4, <1>7, <2>1, ReplaceFollows DEF u
<1>9. o + min \in Nat /\ o + min <= size /\ o + min \in 0 .. Len(u.content)
  BY <1>2, <1>4, <1>5, <1>8
<1>10. CASE n > m
  <2>. DEFINE k == n - m
              e == o + min
  <2>1. t = RemoveBlocks(u, e, k)
    BY <1>3, <1>10
  <2>2. k \in Nat \ {0} /\ e \in Nat /\ e + k <= Len(u.content) /\ Rightmost <= size - k
    BY <1>2, <1>4, <1>5, <1>8, <1>10
  <2>. HIDE DEF e, k
  <2>3. Follows(t) /\ Len(t.content) = size - k
    BY <1>1, <1>8, <2>1, <2>2, RemoveFollows
  <2>. QED
    BY <1>2, <2>2, <2>3, EditionKeeps
<1>11. CASE ~(n > m)
  <2>1. min = n
    BY <1>5, <1>11
  <2>2. /\ NewBlocks(m) \in Seq(Nat) /\ Len(NewBlocks(m)) = m
        /\ \A i \in 1 .. m : NewBlocks(m)[i] = Invalidated + i
    BY <1>4, NewBlocksProperties
  <2>3. /\ new \in Seq(Nat) /\ Len(new) = m - min
        /\ \A i \in 1 .. m - min : new[i] = NewBlocks(m)[min + i]
    <3>. DEFINE w == NewBlocks(m)
    <3>1. w \in Seq(Nat) /\ min \in Nat /\ m \in Nat /\ min <= m /\ m <= Len(w)
      BY <1>4, <1>5, <2>2
    <3>2. new = SubSeq(w, min + 1, m)
      BY DEF new
    <3>. HIDE DEF w
    <3>3. /\ SubSeq(w, min + 1, m) \in Seq(Nat) /\ Len(SubSeq(w, min + 1, m)) = m - min
          /\ \A i \in 1 .. m - min : SubSeq(w, min + 1, m)[i] = w[min + i]
      BY <3>1, SomeBlocks
    <3>. QED
      BY <3>2, <3>3 DEF w
  <2>4. \A i \in 1 .. m - min : new[i] = Invalidated + min + i
    <3>1. ASSUME NEW i \in 1 .. m - min PROVE new[i] = Invalidated + min + i
      <4>1. min + i \in 1 .. m /\ Invalidated + (min + i) = Invalidated + min + i
        BY <1>4, <1>5
      <4>. QED
        BY <2>2, <2>3, <4>1
    <3>. QED
      BY <3>1
  <2>5. \A i \in 1 .. Len(u.content) : u.content[i] <= Invalidated + min
    <3>1. u.content = [i \in DOMAIN Stack.content |->
             IF o < i /\ i <= o + Len(NewBlocks(min)) THEN NewBlocks(min)[i - o]
             ELSE Stack.content[i]]
      BY DEF u, ReplaceBlocks
    <3>2. DOMAIN Stack.content = 1 .. size
      BY <1>1 DEF Follows, Sound
    <3>3. ASSUME NEW i \in 1 .. size PROVE u.content[i] <= Invalidated + min
      <4>1. CASE o < i /\ i <= o + min
        <5>1. i - o \in 1 .. min
          BY <1>4, <1>5, <4>1
        <5>2. u.content[i] = Invalidated + (i - o)
          BY <1>6, <3>1, <3>2, <4>1, <5>1
        <5>. QED
          BY <1>4, <1>5, <5>1, <5>2
      <4>2. CASE ~(o < i /\ i <= o + min)
        <5>1. u.content[i] = Stack.content[i]
          BY <1>6, <3>1, <3>2, <4>2
        <5>2. Stack.content[i] \in Nat /\ Stack.content[i] <= Invalidated
          BY <1>1 DEF Follows, Sound
        <5>. QED
          BY <1>4, <1>5, <5>1, <5>2
      <4>. QED
        BY <4>1, <4>2
    <3>. QED
      BY <1>8, <3>3
  <2>6. \A r \in Ref : u.names[r] <= Invalidated + min
    <3>1. u.names = Transferred(Stack, BlockAt(Stack, o), NewBlocks(min)[1])
      BY DEF u, ReplaceBlocks
    <3>2. NewBlocks(min)[1] = Invalidated + 1
      BY <1>5, <1>6
    <3>3. ASSUME NEW r \in Ref PROVE u.names[r] <= Invalidated + min
      <4>1. u.names[r] = NewBlocks(min)[1] \/ u.names[r] = Stack.names[r]
        BY <3>1 DEF Transferred
      <4>2. Stack.names[r] \in Nat /\ Stack.names[r] <= Invalidated
        BY <1>1 DEF Follows, Named
      <4>. QED
        BY <1>4, <1>5, <3>2, <4>1, <4>2
    <3>. QED
      BY <3>3
  <2>7. Fresh(u, new)
    <3>1. m - min \in Nat /\ min \in Nat
      BY <1>4, <1>5
    <3>. DEFINE w == m - min
    <3>2. w \in Nat /\ Len(new) = w /\ \A i \in 1 .. w : new[i] = Invalidated + min + i
      BY <2>3, <2>4, <3>1
    <3>. HIDE DEF w
    <3>. QED
      BY <1>8, <2>3, <2>5, <2>6, <3>1, <3>2, NewBlocksAreFresh
  <2>. DEFINE e == o + min
  <2>8. t = InsertBlocks(u, e, new, FALSE)
    BY <1>3, <1>11
  <2>9. e \in 0 .. Len(u.content) /\ Len(u.content) + Len(new) <= MaxBlocks
    BY <1>2, <1>4, <1>8, <1>9, <2>1, <2>3
  <2>. HIDE DEF e
  <2>10. Follows(t) /\ Len(t.content) = Len(u.content) + Len(new)
    BY <1>1, <1>8, <2>7, <2>8, <2>9, InsertFollows
  <2>11. Rightmost <= Len(t.content)
    BY <1>2, <1>4, <1>5, <1>8, <1>11, <2>1, <2>3, <2>10
  <2>. QED
    BY <1>2, <2>10, <2>11, EditionKeeps
<1>. QED
  BY <1>10, <1>11
----------------------------------------------------------------------------
\* What is dropped, and the checkpoints

Entry == Offset \cup {Deleted, Invalidated}

LEMMA Basics ==
  ASSUME StackAssumption, IInv
  PROVE  /\ size \in Nat /\ size <= MaxBlocks /\ MaxBlocks \in Nat
         /\ MaxReferences \in Nat /\ Len(table) \in Nat /\ Len(table) <= MaxReferences
         /\ DOMAIN table = 1 .. Len(table) /\ table \in Seq(Entry)
         /\ \A i \in 1 .. Len(table) : table[i] \in 0 .. size \cup {Deleted, Invalidated}
         /\ Depth \in Nat /\ Depth <= MaxDepth /\ MaxDepth \in Nat
         /\ \A r \in Ref : ref[r] # NoId => ref[r] \in 1 .. Len(table) /\ table[ref[r]] # Deleted
         /\ Deleted \notin Offset /\ Invalidated \notin Offset /\ Deleted # Invalidated
         /\ 0 .. size \subseteq Offset
<1>1. /\ size \in Nat /\ size <= MaxBlocks /\ MaxBlocks \in Nat
      /\ MaxReferences \in Nat /\ MaxDepth \in Nat
  BY DEF IInv, TypeOK, Offset, StackAssumption
<1>2. /\ Len(table) \in Nat /\ Len(table) <= MaxReferences
      /\ DOMAIN table = 1 .. Len(table) /\ table \in Seq(Entry)
  BY DEF IInv, TypeOK, Entry
<1>3. Depth \in Nat /\ Depth <= MaxDepth
  BY DEF IInv, TypeOK, Depth
<1>4. Deleted \notin Offset /\ Invalidated \notin Offset /\ Deleted # Invalidated
  BY <1>1 DEF Deleted, Invalidated, Offset
<1>5. \A r \in Ref : ref[r] # NoId => ref[r] \in 1 .. Len(table) /\ table[ref[r]] # Deleted
  BY StackFollows DEF Living
<1>6. ASSUME NEW i \in 1 .. Len(table)
      PROVE  table[i] \in 0 .. size \cup {Deleted, Invalidated}
  <2>1. table[i] \in Entry
    BY <1>2
  <2>2. table[i] \in Offset => table[i] <= size
    BY <1>2 DEF IInv, OffsetsInside
  <2>. QED
    BY <1>1, <2>1, <2>2 DEF Offset, Entry
<1>7. 0 .. size \subseteq Offset
  BY <1>1 DEF Offset
<1>. QED
  BY <1>1, <1>2, <1>3, <1>4, <1>5, <1>6, <1>7

\* The table of a stack cut at p
LEMMA CutTable ==
  ASSUME StackAssumption, IInv, NEW p \in 0 .. size
  PROVE  /\ InvalidatedFrom(table, p)
              \in [1 .. Len(table) -> 0 .. p \cup {Deleted, Invalidated}]
         /\ \A i \in 1 .. Len(table) :
              /\ InvalidatedFrom(table, p)[i] = Deleted <=> table[i] = Deleted
              /\ table[i] # Deleted =>
                   InvalidatedFrom(table, p)[i] =
                     IF table[i] >= p THEN Invalidated ELSE table[i]
<1>. DEFINE t == InvalidatedFrom(table, p)
<1>1. t = [i \in 1 .. Len(table) |->
             IF table[i] # Deleted /\ table[i] >= p THEN Invalidated ELSE table[i]]
  BY Basics DEF InvalidatedFrom
<1>. HIDE DEF t
<1>2. ASSUME NEW i \in 1 .. Len(table)
      PROVE  /\ t[i] \in 0 .. p \cup {Deleted, Invalidated}
             /\ t[i] = Deleted <=> table[i] = Deleted
             /\ table[i] # Deleted => t[i] = IF table[i] >= p THEN Invalidated ELSE table[i]
  <2>1. t[i] = IF table[i] # Deleted /\ table[i] >= p THEN Invalidated ELSE table[i]
    BY <1>1
  <2>2. table[i] \in 0 .. size \cup {Deleted, Invalidated} /\ Deleted # Invalidated
        /\ size \in Nat
    BY Basics
  <2>3. table[i] \in 0 .. size /\ ~(table[i] >= p) => table[i] \in 0 .. p
    BY <2>2
  <2>4. Invalidated >= p
    BY Basics DEF Invalidated
  <2>. QED
    BY <2>1, <2>2, <2>3, <2>4
<1>. QED
  BY <1>1, <1>2 DEF t

LEMMA DropKeeps ==
  ASSUME StackAssumption, IInv, NEW p \in Offset, Drop(p)
  PROVE  IInv'
<1>. DEFINE t == InvalidatedFrom(table, p)
<1>1. /\ Rightmost <= p /\ p <= size /\ size' = p /\ table' = t
      /\ names' = [r \in Ref |-> IF names[r] >= p THEN Invalidated ELSE names[r]]
      /\ ref' = ref /\ frames' = frames /\ topmost' = topmost
  BY DEF Drop
<1>2. p \in 0 .. size /\ p \in Nat
  BY <1>1, Basics DEF Offset
<1>3. /\ t \in [1 .. Len(table) -> 0 .. p \cup {Deleted, Invalidated}]
      /\ \A i \in 1 .. Len(table) :
           /\ t[i] = Deleted <=> table[i] = Deleted
           /\ table[i] # Deleted => t[i] = IF table[i] >= p THEN Invalidated ELSE table[i]
  BY <1>2, CutTable
<1>. HIDE DEF t
<1>4. /\ size \in Nat /\ size <= MaxBlocks /\ MaxBlocks \in Nat
      /\ Len(table) \in Nat /\ Len(table) <= MaxReferences
      /\ \A r \in Ref : ref[r] # NoId => ref[r] \in 1 .. Len(table) /\ table[ref[r]] # Deleted
      /\ Deleted \notin Offset /\ Invalidated \notin Offset
      /\ 0 .. size \subseteq Offset
  BY Basics
<1>5. t \in Seq(Entry) /\ Len(t) = Len(table) /\ DOMAIN t = 1 .. Len(table)
  <2>1. 0 .. p \subseteq Offset
    BY <1>2, <1>4 DEF Offset
  <2>2. t \in [1 .. Len(table) -> Entry]
    BY <1>3, <2>1 DEF Entry
  <2>. QED
    BY <1>4, <2>2
<1>6. TypeOK'
  <2>1. names' \in [Ref -> Offset \cup {Invalidated}]
    BY <1>1 DEF IInv, TypeOK
  <2>. QED
    BY <1>1, <1>4, <1>5, <2>1 DEF IInv, TypeOK, Depth, Entry, Ref
<1>7. OffsetsInside'
  <2>1. ASSUME NEW i \in 1 .. Len(table), t[i] \in Offset PROVE t[i] <= p
    <3>1. t[i] \in 0 .. p \cup {Deleted, Invalidated}
      BY <1>3
    <3>. QED
      BY <1>2, <1>4, <2>1, <3>1
  <2>. QED
    BY <1>1, <1>5, <2>1 DEF OffsetsInside, Offset
<1>8. Owned'
  <2>1. ASSUME NEW r \in Ref, ref[r] # NoId
        PROVE  /\ r[1] <= Depth /\ ref[r] <= Len(t) /\ t[ref[r]] # Deleted
               /\ \A q \in Ref : ref[q] = ref[r] => q = r
    BY <1>3, <1>4, <1>5, <2>1 DEF IInv, Owned
  <2>. QED
    BY <1>1, <2>1 DEF Owned, Ref, Depth, Deleted
<1>9. LastIsKept'
  <2>1. Len(table) > 0 => Len(table) \in 1 .. Len(table)
    BY <1>4
  <2>. QED
    BY <1>1, <1>3, <1>5, <2>1 DEF IInv, LastIsKept, Deleted
<1>10. FramesInside'
  <2>1. ASSUME NEW k \in 1 .. Depth
        PROVE  /\ frames[k].right <= p
               /\ frames[k].length <= Len(t)
               /\ frames[k].length > 0 => t[frames[k].length] # Deleted
    <3>1. frames[k].right \in Nat /\ frames[k].length \in Nat
      BY FrameTypes DEF IInv, Offset
    <3>2. frames[k].right <= Rightmost /\ Rightmost \in Nat
      BY FramesBelowRightmost DEF IInv
    <3>3. /\ frames[k].length <= Len(table)
          /\ frames[k].length > 0 => table[frames[k].length] # Deleted
      BY DEF IInv, FramesInside
    <3>4. frames[k].length > 0 => frames[k].length \in 1 .. Len(table)
      BY <1>4, <3>1, <3>3
    <3>. QED
      BY <1>1, <1>2, <1>3, <1>5, <3>1, <3>2, <3>3, <3>4
  <2>. QED
    BY <1>1, <2>1 DEF IInv, FramesInside, Depth, Deleted
<1>11. FramesKeepReferences' /\ TopmostIsDepth'
  BY <1>1 DEF IInv, FramesKeepReferences, TopmostIsDepth, Depth, Ref
<1>12. ReferencesFollow'
  <2>1. ASSUME NEW r \in Ref, ref[r] # NoId PROVE t[ref[r]] = names'[r]
    BY <1>1, <1>3, <1>4, <2>1 DEF IInv, ReferencesFollow
  <2>. QED
    BY <1>1, <2>1 DEF ReferencesFollow, Ref
<1>. QED
  BY <1>6, <1>7, <1>8, <1>9, <1>10, <1>11, <1>12 DEF IInv

Frame == [right : Offset, length : 0 .. MaxReferences, parent : 0 .. Stale]

LEMMA OuterFrames ==
  ASSUME StackAssumption, IInv, Depth > 0, frames' = SubSeq(frames, 1, Depth - 1)
  PROVE  /\ frames' \in Seq(Frame) /\ Depth' = Depth - 1
         /\ \A k \in 1 .. Depth - 1 : frames'[k] = frames[k]
<1>1. Depth \in Nat /\ frames \in Seq(Frame) /\ Len(frames) = Depth
  BY Basics DEF IInv, TypeOK, Frame, Depth
<1>. DEFINE n == Depth - 1
<1>2. n \in Int /\ n >= 0 /\ n < Depth
  BY <1>1
<1>. HIDE DEF n, Frame
<1>3. \A i \in 1 .. n : frames[i] \in Frame
  BY <1>1, <1>2
<1>4. /\ SubSeq(frames, 1, n) \in Seq(Frame)
      /\ Len(SubSeq(frames, 1, n)) = IF 1 <= n THEN n - 1 + 1 ELSE 0
      /\ \A i \in 1 .. n - 1 + 1 : SubSeq(frames, 1, n)[i] = frames[1 + i - 1]
  BY <1>2, <1>3, SubSeqProperties
<1>5. frames' = SubSeq(frames, 1, n)
  BY DEF n
<1>6. Len(frames') = n
  <2>1. Len(frames') = IF 1 <= n THEN n - 1 + 1 ELSE 0
    BY <1>4, <1>5
  <2>2. (IF 1 <= n THEN n - 1 + 1 ELSE 0) = n
    BY <1>2
  <2>. QED
    BY <2>1, <2>2, Zenon
<1>7. ASSUME NEW k \in 1 .. n PROVE frames'[k] = frames[k]
  <2>1. k \in 1 .. n - 1 + 1 /\ 1 + k - 1 = k
    BY <1>2
  <2>. QED
    BY <1>4, <1>5, <2>1
<1>8. Depth' = n
  BY <1>6 DEF Depth
<1>. QED
  BY <1>4, <1>5, <1>7, <1>8 DEF n

LEMMA LeaveKeeps ==
  ASSUME StackAssumption, IInv, Leave
  PROVE  IInv'
<1>1. /\ Depth > 0 /\ \A s \in Slots : ref[<<Depth, s>>] = NoId
      /\ frames' = SubSeq(frames, 1, Depth - 1) /\ topmost' = frames[Depth].parent
      /\ size' = size /\ table' = table /\ ref' = ref /\ names' = names
  BY DEF Leave
<1>2. /\ frames' \in Seq(Frame) /\ Depth' = Depth - 1
      /\ \A k \in 1 .. Depth - 1 : frames'[k] = frames[k]
  BY <1>1, OuterFrames
<1>3. Depth \in Nat /\ Depth <= MaxDepth /\ MaxDepth \in Nat /\ Depth \in 1 .. Depth
  BY <1>1, Basics
<1>4. TypeOK'
  <2>1. topmost' \in 0 .. Stale
    BY <1>1, <1>3, FrameTypes DEF IInv
  <2>2. Depth' <= MaxDepth
    BY <1>2, <1>3
  <2>. QED
    BY <1>1, <1>2, <2>1, <2>2 DEF IInv, TypeOK, Frame, Ref
<1>5. OffsetsInside' /\ LastIsKept' /\ ReferencesFollow'
  BY <1>1 DEF IInv, OffsetsInside, LastIsKept, ReferencesFollow, Offset, Ref, Deleted
<1>6. Owned'
  <2>1. ASSUME NEW r \in Ref, ref[r] # NoId PROVE r[1] <= Depth - 1
    <3>1. r[1] \in 0 .. MaxDepth /\ r[2] \in Slots /\ r = <<r[1], r[2]>>
      BY DEF Ref
    <3>2. r[1] <= Depth
      BY <2>1 DEF IInv, Owned
    <3>3. r[1] # Depth
      BY <1>1, <2>1, <3>1
    <3>. QED
      BY <1>3, <3>1, <3>2, <3>3
  <2>. QED
    BY <1>1, <1>2, <2>1 DEF IInv, Owned, Ref, Deleted
<1>7. FramesInside'
  <2>1. ASSUME NEW k \in 1 .. Depth - 1
        PROVE  /\ frames[k].right <= size
               /\ frames[k].length <= Len(table)
               /\ frames[k].length > 0 => table[frames[k].length] # Deleted
               /\ frames[k].parent = k - 1 \/ (k = 1 /\ frames[k].parent = Stale)
               /\ \A j \in 1 .. k : frames[j].right <= frames[k].right
                                    /\ frames[j].length <= frames[k].length
    <3>1. k \in 1 .. Depth
      BY <1>3
    <3>. QED
      BY <3>1 DEF IInv, FramesInside
  <2>2. ASSUME NEW k \in 1 .. Depth - 1, NEW j \in 1 .. k PROVE j \in 1 .. Depth - 1
    BY <1>3
  <2>. QED
    BY <1>1, <1>2, <2>1, <2>2 DEF FramesInside, Deleted, Stale
<1>8. FramesKeepReferences'
  <2>1. ASSUME NEW k \in 1 .. Depth - 1, NEW r \in Ref, ref[r] # NoId
        PROVE  IF r[1] < k THEN ref[r] <= frames[k].length ELSE ref[r] # frames[k].length
    <3>1. k \in 1 .. Depth
      BY <1>3
    <3>. QED
      BY <2>1, <3>1 DEF IInv, FramesKeepReferences
  <2>. QED
    BY <1>1, <1>2, <2>1 DEF FramesKeepReferences, Ref
<1>9. TopmostIsDepth'
  <2>1. frames[Depth].parent = Depth - 1 \/ (Depth = 1 /\ frames[Depth].parent = Stale)
    BY <1>3 DEF IInv, FramesInside
  <2>. QED
    BY <1>1, <1>2, <1>3, <2>1 DEF TopmostIsDepth, NoCheckpoint, Stale
<1>. QED
  BY <1>4, <1>5, <1>6, <1>7, <1>8, <1>9 DEF IInv

LEMMA TryKeeps ==
  ASSUME StackAssumption, IInv, NEW p \in Offset, Try(p)
  PROVE  IInv'
<1>. DEFINE new == [right |-> p, length |-> Len(table), parent |-> topmost]
<1>1. /\ Depth < MaxDepth /\ Rightmost <= p /\ p <= size
      /\ frames' = Append(frames, new) /\ topmost' = Depth + 1
      /\ size' = size /\ table' = table /\ ref' = ref /\ names' = names
  BY DEF Try
<1>2. /\ Depth \in Nat /\ MaxDepth \in Nat /\ p \in Nat /\ size \in Nat
      /\ Len(table) \in Nat /\ Len(table) <= MaxReferences
      /\ \A r \in Ref : ref[r] # NoId => ref[r] \in 1 .. Len(table) /\ table[ref[r]] # Deleted
  BY Basics DEF Offset
<1>3. topmost \in 0 .. Stale
  BY DEF IInv, TypeOK
<1>4. new \in Frame
  BY <1>2, <1>3 DEF Frame
<1>5. new.right = p /\ new.length = Len(table) /\ new.parent = topmost
  OBVIOUS
<1>. HIDE DEF new, Frame
<1>6. /\ frames' \in Seq(Frame) /\ Depth' = Depth + 1 /\ frames'[Depth + 1] = new
      /\ \A k \in 1 .. Depth : frames'[k] = frames[k]
  <2>1. frames \in Seq(Frame) /\ Len(frames) = Depth
    BY DEF IInv, TypeOK, Depth, Frame
  <2>. QED
    BY <1>1, <1>4, <2>1, AppendProperties DEF Depth
<1>7. TypeOK'
  <2>1. topmost' \in 0 .. Stale /\ Depth' <= MaxDepth
    BY <1>1, <1>2, <1>6 DEF Stale
  <2>. QED
    BY <1>1, <1>6, <2>1 DEF IInv, TypeOK, Frame, Ref
<1>8. OffsetsInside' /\ LastIsKept' /\ ReferencesFollow'
  BY <1>1 DEF IInv, OffsetsInside, LastIsKept, ReferencesFollow, Offset, Ref, Deleted
<1>9. Owned'
  <2>1. ASSUME NEW r \in Ref, ref[r] # NoId PROVE r[1] <= Depth + 1
    <3>1. r[1] \in 0 .. MaxDepth
      BY DEF Ref
    <3>2. r[1] <= Depth
      BY <2>1 DEF IInv, Owned
    <3>. QED
      BY <1>2, <3>1, <3>2
  <2>. QED
    BY <1>1, <1>6, <2>1 DEF IInv, Owned, Ref, Deleted
<1>10. FramesInside'
  <2>1. ASSUME NEW k \in 1 .. Depth
        PROVE  /\ frames[k].right <= size /\ frames[k].right <= p
               /\ frames[k].length <= Len(table)
               /\ frames[k].length > 0 => table[frames[k].length] # Deleted
               /\ frames[k].parent = k - 1 \/ (k = 1 /\ frames[k].parent = Stale)
               /\ \A j \in 1 .. k : frames[j].right <= frames[k].right
                                    /\ frames[j].length <= frames[k].length
    <3>1. frames[k].right \in Nat
      BY FrameTypes DEF IInv, Offset
    <3>2. frames[k].right <= Rightmost /\ Rightmost \in Nat
      BY FramesBelowRightmost DEF IInv
    <3>3. frames[k].right <= p
      BY <1>1, <1>2, <3>1, <3>2
    <3>. QED
      BY <3>3 DEF IInv, FramesInside
  <2>2. /\ p <= size /\ Len(table) <= Len(table)
        /\ Len(table) > 0 => table[Len(table)] # Deleted
        /\ topmost = (Depth + 1) - 1 \/ (Depth + 1 = 1 /\ topmost = Stale)
    BY <1>1, <1>2 DEF IInv, LastIsKept, TopmostIsDepth, NoCheckpoint
  <2>3. ASSUME NEW k \in 1 .. Depth + 1 PROVE k \in 1 .. Depth \/ k = Depth + 1
    BY <1>2
  <2>4. ASSUME NEW k \in 1 .. Depth, NEW j \in 1 .. k PROVE j \in 1 .. Depth
    BY <1>2
  <2>5. ASSUME NEW k \in 1 .. Depth + 1
        PROVE  /\ frames'[k].right <= size
               /\ frames'[k].length <= Len(table)
               /\ frames'[k].length > 0 => table[frames'[k].length] # Deleted
               /\ frames'[k].parent = k - 1 \/ (k = 1 /\ frames'[k].parent = Stale)
               /\ \A j \in 1 .. k : frames'[j].right <= frames'[k].right
                                    /\ frames'[j].length <= frames'[k].length
    <3>1. CASE k \in 1 .. Depth
      BY <1>6, <2>1, <2>4, <3>1
    <3>2. CASE k = Depth + 1
      <4>1. frames'[k] = new
        BY <1>6, <3>2
      <4>2. ASSUME NEW j \in 1 .. k
            PROVE  frames'[j].right <= p /\ frames'[j].length <= Len(table)
        <5>1. CASE j \in 1 .. Depth
          BY <1>6, <2>1, <5>1
        <5>2. CASE j = Depth + 1
          BY <1>2, <1>5, <1>6, <5>2
        <5>. QED
          BY <2>3, <3>2, <5>1, <5>2
      <4>. QED
        BY <1>5, <2>2, <3>2, <4>1, <4>2
    <3>. QED
      BY <2>3, <3>1, <3>2
  <2>. QED
    BY <1>1, <1>6, <2>5 DEF FramesInside, Deleted, Stale
<1>11. FramesKeepReferences'
  <2>1. ASSUME NEW k \in 1 .. Depth + 1, NEW r \in Ref, ref[r] # NoId
        PROVE  IF r[1] < k THEN ref[r] <= frames'[k].length ELSE ref[r] # frames'[k].length
    <3>1. CASE k \in 1 .. Depth
      BY <1>6, <2>1, <3>1 DEF IInv, FramesKeepReferences
    <3>2. CASE k = Depth + 1
      <4>1. r[1] \in 0 .. MaxDepth /\ r[1] <= Depth
        BY <2>1 DEF IInv, Owned, Ref
      <4>2. r[1] < k
        BY <1>2, <3>2, <4>1
      <4>3. ref[r] <= Len(table)
        BY <1>2, <2>1
      <4>. QED
        BY <1>5, <1>6, <3>2, <4>2, <4>3
    <3>. QED
      BY <1>2, <3>1, <3>2
  <2>. QED
    BY <1>1, <1>6, <2>1 DEF FramesKeepReferences, Ref
<1>12. TopmostIsDepth'
  BY <1>1, <1>2, <1>6 DEF TopmostIsDepth
<1>. QED
  BY <1>7, <1>8, <1>9, <1>10, <1>11, <1>12 DEF IInv
LEMMA RaiseKeeps ==
  ASSUME StackAssumption, IInv, Raise
  PROVE  IInv'
<1>. DEFINE f == frames[topmost]
            t == InvalidatedFrom(table, f.right)
            n == f.length
<1>1. /\ topmost \in 1 .. Depth
      /\ size' = f.right /\ table' = SubSeq(t, 1, n)
      /\ ref' = [r \in Ref |-> IF r[1] >= topmost THEN NoId ELSE ref[r]]
      /\ names' = [r \in Ref |-> IF r[1] >= topmost \/ names[r] >= f.right
                                 THEN Invalidated ELSE names[r]]
      /\ frames' = SubSeq(frames, 1, topmost - 1) /\ topmost' = f.parent
  BY DEF Raise
<1>2. /\ Depth \in Nat /\ Depth <= MaxDepth /\ MaxDepth \in Nat /\ size \in Nat
      /\ Len(table) \in Nat /\ Len(table) <= MaxReferences /\ MaxReferences \in Nat
      /\ \A r \in Ref : ref[r] # NoId => ref[r] \in 1 .. Len(table) /\ table[ref[r]] # Deleted
      /\ Deleted \notin Offset /\ Invalidated \notin Offset /\ Deleted # Invalidated
      /\ size <= MaxBlocks /\ MaxBlocks \in Nat
  BY Basics
<1>3. topmost = Depth /\ Depth > 0 /\ Depth \in 1 .. Depth
  BY <1>1, <1>2 DEF IInv, TopmostIsDepth
<1>4. /\ f.right \in Nat /\ f.right <= size /\ f.right \in Offset
      /\ n \in Nat /\ n <= Len(table) /\ f.parent \in 0 .. Stale
      /\ n > 0 => table[n] # Deleted
      /\ f.parent = Depth - 1 \/ (Depth = 1 /\ f.parent = Stale)
      /\ \A j \in 1 .. Depth : frames[j].right <= f.right /\ frames[j].length <= n
      /\ \A r \in Ref : ref[r] # NoId => IF r[1] < Depth THEN ref[r] <= n ELSE ref[r] # n
  BY <1>3, FrameTypes DEF IInv, FramesInside, FramesKeepReferences, Offset
<1>5. /\ frames' \in Seq(Frame) /\ Depth' = Depth - 1
      /\ \A k \in 1 .. Depth - 1 : frames'[k] = frames[k]
  BY <1>1, <1>3, OuterFrames
<1>6. /\ t \in [1 .. Len(table) -> 0 .. f.right \cup {Deleted, Invalidated}]
      /\ \A i \in 1 .. Len(table) :
           /\ t[i] = Deleted <=> table[i] = Deleted
           /\ table[i] # Deleted => t[i] = IF table[i] >= f.right THEN Invalidated ELSE table[i]
  <2>. DEFINE p == f.right
  <2>1. p \in 0 .. size
    BY <1>2, <1>4
  <2>. HIDE DEF p, f
  <2>2. /\ InvalidatedFrom(table, p)
             \in [1 .. Len(table) -> 0 .. p \cup {Deleted, Invalidated}]
        /\ \A i \in 1 .. Len(table) :
             /\ InvalidatedFrom(table, p)[i] = Deleted <=> table[i] = Deleted
             /\ table[i] # Deleted =>
                  InvalidatedFrom(table, p)[i] =
                    IF table[i] >= p THEN Invalidated ELSE table[i]
    BY <2>1, CutTable
  <2>. QED
    BY <2>2 DEF p
<1>. HIDE DEF t
<1>7. /\ table' \in Seq(Entry) /\ Len(table') = n /\ DOMAIN table' = 1 .. n
      /\ \A i \in 1 .. n : table'[i] = t[i] /\ i \in 1 .. Len(table)
  <2>. HIDE DEF n, f
  <2>1. 0 .. f.right \subseteq Offset
    BY <1>2, <1>4 DEF Offset
  <2>2. t \in [1 .. Len(table) -> Entry]
    BY <1>6, <2>1 DEF Entry
  <2>3. \A i \in 1 .. n : i \in 1 .. Len(table) /\ t[i] \in Entry
    BY <1>2, <1>4, <2>2
  <2>4. n \in Int /\ n \in Nat
    BY <1>4
  <2>5. /\ SubSeq(t, 1, n) \in Seq(Entry)
        /\ Len(SubSeq(t, 1, n)) = IF 1 <= n THEN n - 1 + 1 ELSE 0
        /\ \A i \in 1 .. n - 1 + 1 : SubSeq(t, 1, n)[i] = t[1 + i - 1]
    BY <2>3, <2>4, SubSeqProperties
  <2>6. (IF 1 <= n THEN n - 1 + 1 ELSE 0) = n
    BY <2>4
  <2>7. Len(table') = n
    BY <1>1, <2>5, <2>6, Zenon
  <2>8. ASSUME NEW i \in 1 .. n PROVE table'[i] = t[i]
    <3>1. i \in 1 .. n - 1 + 1 /\ 1 + i - 1 = i
      BY <2>4
    <3>. QED
      BY <1>1, <2>5, <3>1
  <2>9. table' \in Seq(Entry)
    BY <1>1, <2>5
  <2>. QED
    BY <2>3, <2>7, <2>8, <2>9
<1>. HIDE DEF n, f
<1>8. ASSUME NEW r \in Ref, ref'[r] # NoId
      PROVE  /\ r[1] < Depth /\ r[1] \in Nat /\ ref'[r] = ref[r] /\ ref[r] # NoId
             /\ ref[r] \in 1 .. n /\ table[ref[r]] # Deleted
             /\ names'[r] = IF names[r] >= f.right THEN Invalidated ELSE names[r]
  <2>1. ref'[r] = (IF r[1] >= topmost THEN NoId ELSE ref[r]) /\ r[1] \in Nat
    BY <1>1 DEF Ref
  <2>2. ~(r[1] >= topmost)
    BY <1>8, <2>1
  <2>3. r[1] < Depth /\ ref'[r] = ref[r] /\ ref[r] # NoId
    BY <1>2, <1>3, <1>8, <2>1, <2>2
  <2>4. ref[r] \in 1 .. Len(table) /\ table[ref[r]] # Deleted /\ ref[r] <= n
    BY <1>2, <1>4, <2>3
  <2>5. names'[r] = IF names[r] >= f.right THEN Invalidated ELSE names[r]
    BY <1>1, <2>2
  <2>. QED
    BY <1>2, <1>4, <2>1, <2>3, <2>4, <2>5
<1>9. TypeOK'
  <2>1. names' \in [Ref -> Offset \cup {Invalidated}]
    BY <1>1 DEF IInv, TypeOK
  <2>2. ref' \in [Ref -> 0 .. MaxReferences]
    <3>1. ref \in [Ref -> 0 .. MaxReferences] /\ NoId \in 0 .. MaxReferences
      BY <1>2 DEF IInv, TypeOK, NoId
    <3>. QED
      BY <1>1, <3>1
  <2>3. Depth' <= MaxDepth /\ Len(table') <= MaxReferences
    BY <1>2, <1>4, <1>5, <1>7
  <2>4. size' \in Offset /\ topmost' \in 0 .. Stale
    BY <1>1, <1>4
  <2>. QED
    BY <1>5, <1>7, <2>1, <2>2, <2>3, <2>4 DEF TypeOK, Frame, Ref, Entry, Offset, Stale, Invalidated, Deleted
<1>10. OffsetsInside'
  <2>1. ASSUME NEW i \in 1 .. n, table'[i] \in Offset PROVE table'[i] <= f.right
    <3>1. t[i] \in 0 .. f.right \cup {Deleted, Invalidated} /\ table'[i] = t[i]
      BY <1>6, <1>7
    <3>. QED
      BY <1>2, <1>4, <2>1, <3>1
  <2>. QED
    BY <1>1, <1>7, <2>1 DEF OffsetsInside, Offset
<1>11. Owned'
  <2>1. ASSUME NEW r \in Ref, ref'[r] # NoId
        PROVE  /\ r[1] <= Depth' /\ ref'[r] <= Len(table') /\ table'[ref'[r]] # Deleted
               /\ \A q \in Ref : ref'[q] = ref'[r] => q = r
    <3>1. /\ r[1] < Depth /\ r[1] \in Nat /\ ref'[r] = ref[r] /\ ref[r] # NoId
          /\ ref[r] \in 1 .. n /\ table[ref[r]] # Deleted
      BY <1>8, <2>1
    <3>2. r[1] <= Depth - 1 /\ ref'[r] <= Len(table')
      BY <1>2, <1>4, <1>7, <3>1
    <3>3. table'[ref[r]] # Deleted
      BY <1>6, <1>7, <3>1
    <3>4. ASSUME NEW q \in Ref, ref'[q] = ref'[r] PROVE q = r
      <4>1. ref'[q] = ref[q]
        BY <1>8, <2>1, <3>4
      <4>2. ref[q] = ref[r]
        BY <3>1, <3>4, <4>1
      <4>. QED
        BY <3>1, <4>2 DEF IInv, Owned
    <3>. QED
      BY <1>5, <3>1, <3>2, <3>3, <3>4
  <2>. QED
    BY <2>1 DEF Owned, Ref, Deleted
<1>12. LastIsKept'
  <2>1. n > 0 => n \in 1 .. n
    BY <1>4
  <2>. QED
    BY <1>4, <1>6, <1>7, <2>1 DEF LastIsKept, Deleted
<1>13. FramesInside'
  <2>1. ASSUME NEW k \in 1 .. Depth - 1
        PROVE  /\ frames[k].right <= f.right
               /\ frames[k].length <= n
               /\ frames[k].length > 0 => table'[frames[k].length] # Deleted
               /\ frames[k].parent = k - 1 \/ (k = 1 /\ frames[k].parent = Stale)
               /\ \A j \in 1 .. k : frames[j].right <= frames[k].right
                                    /\ frames[j].length <= frames[k].length
    <3>1. k \in 1 .. Depth
      BY <1>2
    <3>2. frames[k].length \in Nat
      BY <3>1, FrameTypes DEF IInv
    <3>3. frames[k].length > 0 => frames[k].length \in 1 .. n
      BY <1>4, <3>1, <3>2
    <3>4. frames[k].length > 0 => table[frames[k].length] # Deleted
      BY <3>1 DEF IInv, FramesInside
    <3>5. frames[k].length > 0 => table'[frames[k].length] # Deleted
      BY <1>6, <1>7, <3>3, <3>4
    <3>6. /\ frames[k].parent = k - 1 \/ (k = 1 /\ frames[k].parent = Stale)
          /\ \A j \in 1 .. k : frames[j].right <= frames[k].right
                               /\ frames[j].length <= frames[k].length
      BY <3>1 DEF IInv, FramesInside
    <3>. QED
      BY <1>4, <3>1, <3>5, <3>6
  <2>2. ASSUME NEW k \in 1 .. Depth - 1, NEW j \in 1 .. k PROVE j \in 1 .. Depth - 1
    BY <1>2
  <2>3. ASSUME NEW k \in 1 .. Depth'
        PROVE  /\ frames'[k].right <= size'
               /\ frames'[k].length <= Len(table')
               /\ frames'[k].length > 0 => table'[frames'[k].length] # Deleted
               /\ frames'[k].parent = k - 1 \/ (k = 1 /\ frames'[k].parent = Stale)
               /\ \A j \in 1 .. k : frames'[j].right <= frames'[k].right
                                    /\ frames'[j].length <= frames'[k].length
    <3>1. k \in 1 .. Depth - 1 /\ frames'[k] = frames[k]
      BY <1>5
    <3>2. size' = f.right /\ Len(table') = n
      BY <1>1, <1>7
    <3>3. \A j \in 1 .. k : frames'[j] = frames[j]
      BY <1>5, <2>2, <3>1
    <3>. QED
      BY <2>1, <3>1, <3>2, <3>3
  <2>. QED
    BY <2>3 DEF FramesInside, Deleted, Stale
<1>14. FramesKeepReferences'
  <2>1. ASSUME NEW k \in 1 .. Depth - 1, NEW r \in Ref, ref'[r] # NoId
        PROVE  IF r[1] < k THEN ref'[r] <= frames[k].length ELSE ref'[r] # frames[k].length
    <3>1. k \in 1 .. Depth
      BY <1>2
    <3>2. ref'[r] = ref[r] /\ ref[r] # NoId
      BY <1>8, <2>1
    <3>. QED
      BY <3>1, <3>2 DEF IInv, FramesKeepReferences
  <2>. QED
    BY <1>5, <2>1 DEF FramesKeepReferences, Ref
<1>15. TopmostIsDepth'
  BY <1>1, <1>2, <1>3, <1>4, <1>5 DEF TopmostIsDepth, NoCheckpoint, Stale
<1>16. ReferencesFollow'
  <2>1. ASSUME NEW r \in Ref, ref'[r] # NoId PROVE table'[ref'[r]] = names'[r]
    <3>1. /\ ref'[r] = ref[r] /\ ref[r] # NoId
          /\ ref[r] \in 1 .. n /\ table[ref[r]] # Deleted
          /\ names'[r] = IF names[r] >= f.right THEN Invalidated ELSE names[r]
      BY <1>8, <2>1
    <3>2. table'[ref[r]] = IF table[ref[r]] >= f.right THEN Invalidated ELSE table[ref[r]]
      BY <1>6, <1>7, <3>1
    <3>3. table[ref[r]] = names[r]
      BY <3>1 DEF IInv, ReferencesFollow
    <3>. QED
      BY <3>1, <3>2, <3>3
  <2>. QED
    BY <2>1 DEF ReferencesFollow, Ref
<1>. QED
  BY <1>9, <1>10, <1>11, <1>12, <1>13, <1>14, <1>15, <1>16 DEF IInv

\* An empty stack without Try nor reference
LEMMA EmptyKeeps ==
  ASSUME StackAssumption, size' = 0, table' = <<>>, frames' = <<>>,
         ref' = [r \in Ref |-> NoId], names' = [r \in Ref |-> Invalidated],
         topmost' \in {NoCheckpoint, Stale}
  PROVE  IInv'
<1>1. MaxBlocks \in Nat /\ MaxReferences \in Nat /\ MaxDepth \in Nat
  BY DEF StackAssumption
<1>2. Len(table') = 0 /\ Depth' = 0 /\ DOMAIN table' = {}
  BY DEF Depth
<1>3. TypeOK'
  <2>1. table' \in Seq(Offset \cup {Deleted, Invalidated}) /\ frames' \in Seq(Frame)
    OBVIOUS
  <2>2. topmost' \in 0 .. Stale
    BY <1>1 DEF NoCheckpoint, Stale
  <2>3. ref' \in [Ref -> 0 .. MaxReferences] /\ names' \in [Ref -> Offset \cup {Invalidated}]
    BY <1>1 DEF NoId
  <2>. QED
    BY <1>1, <1>2, <2>1, <2>2, <2>3
    DEF TypeOK, Frame, Ref, Offset, Stale, Invalidated, Deleted
<1>4. \A r \in Ref : ref'[r] = NoId
  OBVIOUS
<1>5. OffsetsInside' /\ LastIsKept'
  BY <1>2 DEF OffsetsInside, LastIsKept
<1>6. Owned' /\ ReferencesFollow'
  BY <1>4 DEF Owned, ReferencesFollow, Ref
<1>7. FramesInside' /\ FramesKeepReferences' /\ TopmostIsDepth'
  BY <1>2 DEF FramesInside, FramesKeepReferences, TopmostIsDepth, NoCheckpoint, Stale
<1>. QED
  BY <1>3, <1>5, <1>6, <1>7 DEF IInv

LEMMA RollbackKeeps ==
  ASSUME StackAssumption, Rollback
  PROVE  IInv'
BY EmptyKeeps DEF Rollback
----------------------------------------------------------------------------
\* The references

\* A set of naturals that is not empty has a least element
LEMMA LeastExists ==
  ASSUME NEW S, S \subseteq Nat, S # {}
  PROVE  \E i \in S : \A j \in S : i <= j
<1>1. PICK i \in S : \A j \in S : ~(<<j, i>> \in OpToRel(<, Nat))
  BY WFMin, NatLessThanWellFounded
<1>2. ASSUME NEW j \in S PROVE i <= j
  <2>1. j < i => <<j, i>> \in OpToRel(<, Nat)
    BY Zenon DEF OpToRel
  <2>2. ~(j < i)
    BY <1>1, <2>1, Zenon
  <2>3. i \in Nat /\ j \in Nat
    OBVIOUS
  <2>. QED
    BY <2>2, <2>3
<1>. QED
  BY <1>2

\* A set of naturals that is not empty and has a bound has a greatest element
LEMMA GreatestExists ==
  ASSUME NEW b \in Nat, NEW S, S \subseteq 0 .. b, S # {}
  PROVE  \E n \in S : \A i \in S : i <= n
<1>. DEFINE T == {b - i : i \in S}
<1>1. T \subseteq Nat /\ T # {}
  <2>1. \A i \in S : b - i \in Nat
    OBVIOUS
  <2>. QED
    BY <2>1
<1>2. \A i \in S : b - i \in T
  OBVIOUS
<1>3. \A t \in T : \E i \in S : t = b - i
  OBVIOUS
<1>. HIDE DEF T
<1>4. PICK t \in T : \A u \in T : t <= u
  BY <1>1, LeastExists
<1>5. PICK n \in S : t = b - n
  BY <1>3
<1>6. ASSUME NEW i \in S PROVE i <= n
  <2>1. b - n <= b - i
    BY <1>2, <1>4, <1>5
  <2>2. i \in Nat /\ n \in Nat
    OBVIOUS
  <2>. QED
    BY <2>1, <2>2
<1>. QED
  BY <1>6

\* deleteIdentifier keeps what the other identifiers lead to, and the end of the
\* table is never a destroyed one
LEMMA DeletedTable ==
  ASSUME StackAssumption, IInv, NEW id \in 0 .. Len(table), id # NoId => table[id] # Deleted
  PROVE  LET t == DeleteIdentifier(id)
         IN  /\ t \in Seq(Entry) /\ Len(t) <= Len(table)
             /\ \A i \in 1 .. Len(t) : t[i] = IF i = id THEN Deleted ELSE table[i]
             /\ \A i \in 1 .. Len(table) : i # id /\ table[i] # Deleted => i <= Len(t)
             /\ Len(t) > 0 => t[Len(t)] # Deleted
<1>. DEFINE t == DeleteIdentifier(id)
            N == Len(table)
            kept == {i \in 1 .. id - 1 : table[i] # Deleted}
<1>1. N \in Nat /\ table \in Seq(Entry) /\ id \in Nat /\ id <= N /\ DOMAIN table = 1 .. N
  BY Basics
<1>2. N > 0 => table[N] # Deleted
  BY DEF IInv, LastIsKept
<1>3. t = IF id = NoId THEN table
          ELSE IF id < N THEN [table EXCEPT ![id] = Deleted]
          ELSE SubSeq(table, 1, CHOOSE n \in kept \cup {0} : \A i \in kept : i <= n)
  BY DEF DeleteIdentifier
<1>. HIDE DEF t, N
<1>4. CASE id = NoId
  <2>1. t = table
    BY <1>3, <1>4
  <2>2. \A i \in 1 .. N : i # id
    BY <1>1, <1>4 DEF NoId
  <2>3. \A i \in 1 .. N : i <= N
    BY <1>1
  <2>4. N <= N
    BY <1>1
  <2>. QED
    BY <1>1, <1>2, <2>1, <2>2, <2>3, <2>4 DEF t, N
<1>5. CASE id # NoId /\ id < N
  <2>1. t = [table EXCEPT ![id] = Deleted]
    BY <1>3, <1>5
  <2>2. id \in 1 .. N
    BY <1>1, <1>5 DEF NoId
  <2>3. t \in Seq(Entry) /\ Len(t) = N
    BY <1>1, <2>1, <2>2, ExceptSeq DEF N, Entry
  <2>4. \A i \in 1 .. N : t[i] = IF i = id THEN Deleted ELSE table[i]
    BY <1>1, <2>1
  <2>5. \A i \in 1 .. N : i <= N
    BY <1>1
  <2>6. N \in 1 .. N /\ N # id /\ N <= N
    BY <1>1, <1>5
  <2>7. t[N] # Deleted
    BY <1>1, <1>2, <2>4, <2>6
  <2>. QED
    BY <2>3, <2>4, <2>5, <2>6, <2>7 DEF t, N
<1>6. CASE id # NoId /\ ~(id < N)
  <2>1. id = N /\ N > 0
    BY <1>1, <1>6 DEF NoId
  <2>. DEFINE n == CHOOSE n \in kept \cup {0} : \A i \in kept : i <= n
  <2>2. n \in kept \cup {0} /\ \A i \in kept : i <= n
    <3>1. kept \cup {0} \subseteq 0 .. N /\ kept \cup {0} # {}
      BY <1>1
    <3>2. \E k \in kept \cup {0} : \A i \in kept \cup {0} : i <= k
      <4>. DEFINE S == kept \cup {0}
      <4>1. S \subseteq 0 .. N /\ S # {}
        BY <3>1
      <4>. HIDE DEF S
      <4>2. \E k \in S : \A i \in S : i <= k
        BY <1>1, <4>1, GreatestExists
      <4>. QED
        BY <4>2 DEF S
    <3>3. \E k \in kept \cup {0} : \A i \in kept : i <= k
      BY <3>2
    <3>. HIDE DEF kept
    <3>. QED
      BY <3>3
  <2>3. t = SubSeq(table, 1, n)
    BY <1>3, <1>6
  <2>. HIDE DEF n
  <2>4. n \in Nat /\ n < N /\ (n > 0 => table[n] # Deleted)
    BY <1>1, <2>1, <2>2
  <2>5. \A i \in 1 .. N : i # id /\ table[i] # Deleted => i <= n
    <3>1. ASSUME NEW i \in 1 .. N, i # id, table[i] # Deleted PROVE i \in kept
      BY <1>1, <2>1, <3>1
    <3>. QED
      BY <2>2, <3>1
  <2>6. t \in Seq(Entry) /\ Len(t) = n /\ \A i \in 1 .. n : t[i] = table[i]
    <3>1. \A i \in 1 .. n : table[i] \in Entry
      BY <1>1, <2>4 DEF N
    <3>2. /\ SubSeq(table, 1, n) \in Seq(Entry)
          /\ Len(SubSeq(table, 1, n)) = IF 1 <= n THEN n - 1 + 1 ELSE 0
          /\ \A i \in 1 .. n - 1 + 1 : SubSeq(table, 1, n)[i] = table[1 + i - 1]
      BY <2>4, <3>1, SubSeqProperties
    <3>3. (IF 1 <= n THEN n - 1 + 1 ELSE 0) = n
      BY <2>4
    <3>4. Len(t) = n
      BY <2>3, <3>2, <3>3, Zenon
    <3>5. ASSUME NEW i \in 1 .. n PROVE t[i] = table[i]
      <4>1. i \in 1 .. n - 1 + 1 /\ 1 + i - 1 = i
        BY <2>4
      <4>. QED
        BY <2>3, <3>2, <4>1
    <3>. QED
      BY <2>3, <3>2, <3>4, <3>5
  <2>7. \A i \in 1 .. n : i # id
    BY <2>1, <2>4
  <2>8. n > 0 => n \in 1 .. n
    BY <2>4
  <2>. QED
    BY <1>1, <2>4, <2>5, <2>6, <2>7, <2>8 DEF t, N
<1>. QED
  BY <1>4, <1>5, <1>6

\* storeNode, in a slot of the table or after it
LEMMA StoredTable ==
  ASSUME StackAssumption, IInv, NEW p \in 0 .. size, NEW i \in 1 .. Len(table) + 1,
         i <= MaxReferences
  PROVE  LET t == StoreNodeAt(i, p)
         IN  /\ t \in Seq(Entry) /\ Len(t) <= MaxReferences /\ Len(table) <= Len(t)
             /\ i <= Len(t) /\ t[i] = p
             /\ \A j \in 1 .. Len(t) : j # i => j \in 1 .. Len(table) /\ t[j] = table[j]
<1>1. /\ Len(table) \in Nat /\ Len(table) <= MaxReferences /\ table \in Seq(Entry)
      /\ DOMAIN table = 1 .. Len(table) /\ MaxReferences \in Nat
  BY Basics
<1>2. p \in Entry
  BY Basics DEF Entry
<1>. HIDE DEF Entry
<1>3. CASE i > Len(table)
  <2>1. i = Len(table) + 1 /\ StoreNodeAt(i, p) = Append(table, p)
    BY <1>1, <1>3 DEF StoreNodeAt
  <2>. DEFINE t == Append(table, p)
  <2>2. /\ t \in Seq(Entry) /\ Len(t) = Len(table) + 1 /\ t[Len(table) + 1] = p
        /\ \A j \in 1 .. Len(table) : t[j] = table[j]
    BY <1>1, <1>2, AppendProperties
  <2>. HIDE DEF t
  <2>3. \A j \in 1 .. Len(t) : j # i => j \in 1 .. Len(table)
    BY <1>1, <2>1, <2>2
  <2>4. Len(t) <= MaxReferences /\ Len(table) <= Len(t) /\ i <= Len(t)
    BY <1>1, <2>1, <2>2
  <2>. QED
    BY <2>1, <2>2, <2>3, <2>4 DEF t
<1>4. CASE ~(i > Len(table))
  <2>1. i \in 1 .. Len(table) /\ StoreNodeAt(i, p) = [table EXCEPT ![i] = p]
    BY <1>1, <1>4 DEF StoreNodeAt
  <2>. DEFINE t == [table EXCEPT ![i] = p]
  <2>2. t \in Seq(Entry) /\ Len(t) = Len(table)
    BY <1>1, <1>2, <2>1, ExceptSeq
  <2>3. t[i] = p /\ \A j \in 1 .. Len(table) : j # i => t[j] = table[j]
    BY <1>1, <2>1
  <2>. HIDE DEF t
  <2>4. Len(t) <= MaxReferences /\ Len(table) <= Len(t) /\ i <= Len(t)
    BY <1>1, <2>1, <2>2
  <2>. QED
    BY <2>1, <2>2, <2>3, <2>4 DEF t
<1>. QED
  BY <1>3, <1>4
LEMMA StoreKeeps ==
  ASSUME StackAssumption, IInv, NEW r \in Ref, r[1] = Depth, NEW p \in 0 .. size,
         NEW i \in 1 .. Len(table) + 1, i <= MaxReferences,
         \A q \in Ref : q # r => ref[q] # i,
         i = ref[r] \/ (i <= Len(table) => table[i] = Deleted),
         table' = StoreNodeAt(i, p), ref' = [ref EXCEPT ![r] = i],
         names' = [names EXCEPT ![r] = p],
         size' = size, frames' = frames, topmost' = topmost
  PROVE  IInv'
<1>1. /\ Len(table) \in Nat /\ Len(table) <= MaxReferences /\ MaxReferences \in Nat
      /\ size \in Nat /\ Depth \in Nat /\ 0 .. size \subseteq Offset
      /\ DOMAIN table = 1 .. Len(table)
      /\ \A q \in Ref : ref[q] # NoId => ref[q] \in 1 .. Len(table) /\ table[ref[q]] # Deleted
      /\ Deleted \notin Offset
  BY Basics
<1>2. /\ table' \in Seq(Entry) /\ Len(table') <= MaxReferences /\ Len(table) <= Len(table')
      /\ i <= Len(table') /\ table'[i] = p
      /\ \A j \in 1 .. Len(table') : j # i => j \in 1 .. Len(table) /\ table'[j] = table[j]
  BY StoredTable
<1>3. Len(table') \in Nat /\ DOMAIN table' = 1 .. Len(table')
  BY <1>2
<1>4. p # Deleted /\ p \in Offset /\ p <= size /\ i \in Nat /\ i # NoId /\ i >= 1
  BY <1>1 DEF NoId
<1>5. /\ ref \in [Ref -> 0 .. MaxReferences] /\ names \in [Ref -> Offset \cup {Invalidated}]
  BY DEF IInv, TypeOK
<1>6. /\ ref'[r] = i /\ names'[r] = p
      /\ \A q \in Ref : q # r => ref'[q] = ref[q] /\ names'[q] = names[q]
  BY <1>5
<1>7. TypeOK'
  <2>1. ref' \in [Ref -> 0 .. MaxReferences] /\ names' \in [Ref -> Offset \cup {Invalidated}]
    BY <1>1, <1>4, <1>5
  <2>. QED
    BY <1>2, <2>1 DEF IInv, TypeOK, Ref, Depth, Entry, Offset, Deleted, Invalidated, Stale
<1>8. ASSUME NEW j \in 1 .. Len(table), table[j] # Deleted
      PROVE  j \in 1 .. Len(table') /\ table'[j] # Deleted /\ (j # i => table'[j] = table[j])
  BY <1>1, <1>2, <1>3, <1>4, <1>8
<1>9. OffsetsInside'
  <2>1. ASSUME NEW j \in 1 .. Len(table'), table'[j] \in Offset PROVE table'[j] <= size
    BY <1>1, <1>2, <1>4, <2>1 DEF IInv, OffsetsInside
  <2>. QED
    BY <1>3, <2>1 DEF OffsetsInside, Offset
<1>10. Owned'
  <2>1. ASSUME NEW q \in Ref, ref'[q] # NoId
        PROVE  /\ q[1] <= Depth /\ ref'[q] <= Len(table') /\ table'[ref'[q]] # Deleted
               /\ \A x \in Ref : ref'[x] = ref'[q] => x = q
    <3>1. CASE q = r
      BY <1>1, <1>2, <1>4, <1>6, <3>1
    <3>2. CASE q # r
      <4>1. ref'[q] = ref[q] /\ ref[q] # NoId /\ ref[q] # i
        BY <1>6, <2>1, <3>2
      <4>2. ref[q] \in 1 .. Len(table') /\ table'[ref[q]] # Deleted
        BY <1>1, <1>8, <4>1
      <4>3. q[1] <= Depth /\ \A x \in Ref : ref[x] = ref[q] => x = q
        BY <4>1 DEF IInv, Owned
      <4>4. ASSUME NEW x \in Ref, ref'[x] = ref'[q] PROVE x = q
        BY <1>6, <4>1, <4>3, <4>4
      <4>5. ref[q] <= Len(table')
        BY <1>3, <4>2
      <4>. QED
        BY <4>1, <4>2, <4>3, <4>4, <4>5
    <3>. QED
      BY <3>1, <3>2
  <2>2. Depth' = Depth
    BY DEF Depth
  <2>. QED
    BY <2>1, <2>2 DEF Owned, Ref, Deleted
<1>11. LastIsKept'
  <2>1. ASSUME Len(table') > 0 PROVE table'[Len(table')] # Deleted
    <3>1. CASE Len(table') = i
      BY <1>2, <1>4, <3>1
    <3>2. CASE Len(table') # i
      <4>. DEFINE m == Len(table')
      <4>1. m \in Nat /\ m > 0 /\ m # i /\ Len(table) <= m
        BY <1>2, <1>3, <2>1, <3>2
      <4>2. m \in 1 .. Len(table') => m \in 1 .. Len(table) /\ table'[m] = table[m]
        BY <1>2, <4>1
      <4>3. m = Len(table')
        OBVIOUS
      <4>. HIDE DEF m
      <4>4. m \in 1 .. m
        BY <4>1
      <4>5. m \in 1 .. Len(table) /\ table'[m] = table[m]
        BY <4>2, <4>3, <4>4
      <4>. DEFINE length == Len(table)
      <4>6. length \in Nat /\ length <= m /\ m \in 1 .. length
        BY <1>1, <4>1, <4>5
      <4>. HIDE DEF length
      <4>7. m = length
        BY <4>1, <4>6
      <4>8. m = Len(table)
        BY <4>7 DEF length
      <4>. QED
        BY <4>1, <4>3, <4>5, <4>8 DEF IInv, LastIsKept
    <3>. QED
      BY <3>1, <3>2
  <2>. QED
    BY <2>1 DEF LastIsKept, Deleted
<1>12. ASSUME NEW k \in 1 .. Depth
       PROVE  /\ frames[k].length \in Nat /\ frames[k].length <= Len(table)
              /\ frames[k].length > 0 => /\ frames[k].length \in 1 .. Len(table)
                                         /\ table[frames[k].length] # Deleted
  <2>1. frames[k].length \in Nat
    BY FrameTypes DEF IInv
  <2>2. /\ frames[k].length <= Len(table)
        /\ frames[k].length > 0 => table[frames[k].length] # Deleted
    BY DEF IInv, FramesInside
  <2>. QED
    BY <1>1, <2>1, <2>2
<1>13. FramesInside'
  <2>1. ASSUME NEW k \in 1 .. Depth
        PROVE  /\ frames[k].length <= Len(table')
               /\ frames[k].length > 0 => table'[frames[k].length] # Deleted
    BY <1>1, <1>2, <1>3, <1>8, <1>12
  <2>. QED
    BY <2>1 DEF IInv, FramesInside, Depth, Deleted, Stale
<1>14. FramesKeepReferences'
  <2>1. ASSUME NEW k \in 1 .. Depth, NEW q \in Ref, ref'[q] # NoId
        PROVE  IF q[1] < k THEN ref'[q] <= frames[k].length ELSE ref'[q] # frames[k].length
    <3>1. CASE q # r
      BY <1>6, <2>1, <3>1 DEF IInv, FramesKeepReferences
    <3>2. CASE q = r
      <4>1. ~(q[1] < k)
        BY <1>1, <3>2
      <4>2. i # frames[k].length
        <5>1. CASE i = ref[r]
          <6>1. ref[r] # NoId
            BY <1>4, <5>1
          <6>. QED
            BY <3>2, <4>1, <5>1, <6>1 DEF IInv, FramesKeepReferences
        <5>2. CASE i <= Len(table) /\ table[i] = Deleted
          BY <1>4, <1>12, <5>2
        <5>3. CASE ~(i <= Len(table))
          BY <1>1, <1>4, <1>12, <5>3
        <5>. QED
          BY <5>1, <5>2, <5>3
      <4>. QED
        BY <1>6, <3>2, <4>1, <4>2
    <3>. QED
      BY <3>1, <3>2
  <2>. QED
    BY <2>1 DEF FramesKeepReferences, Depth, Ref
<1>15. TopmostIsDepth'
  BY DEF IInv, TopmostIsDepth, Depth, NoCheckpoint, Stale
<1>16. ReferencesFollow'
  <2>1. ASSUME NEW q \in Ref, ref'[q] # NoId PROVE table'[ref'[q]] = names'[q]
    <3>1. CASE q = r
      BY <1>2, <1>6, <3>1
    <3>2. CASE q # r
      <4>1. ref'[q] = ref[q] /\ ref[q] # NoId /\ ref[q] # i /\ names'[q] = names[q]
        BY <1>6, <2>1, <3>2
      <4>2. table'[ref[q]] = table[ref[q]]
        BY <1>1, <1>8, <4>1
      <4>. QED
        BY <4>1, <4>2 DEF IInv, ReferencesFollow
    <3>. QED
      BY <3>1, <3>2
  <2>. QED
    BY <2>1 DEF ReferencesFollow, Ref
<1>. QED
  BY <1>7, <1>9, <1>10, <1>11, <1>13, <1>14, <1>15, <1>16 DEF IInv

LEMMA ScopeIsRef ==
  ASSUME StackAssumption, IInv, NEW s \in Slots
  PROVE  <<Depth, s>> \in Ref /\ <<Depth, s>>[1] = Depth
<1>1. Depth \in 0 .. MaxDepth
  BY Basics
<1>. QED
  BY <1>1 DEF Ref

LEMMA ReferKeeps ==
  ASSUME StackAssumption, IInv, NEW r \in Ref, r[1] = Depth, NEW p \in 0 .. size, Refer(r, p)
  PROVE  IInv'
<1>. DEFINE i == CHOOSE i \in FreeSlots : \A j \in FreeSlots : i <= j
<1>1. /\ ref[r] = NoId /\ FreeSlots # {}
      /\ ref' = [ref EXCEPT ![r] = i] /\ table' = StoreNodeAt(i, p)
      /\ names' = [names EXCEPT ![r] = p]
      /\ size' = size /\ frames' = frames /\ topmost' = topmost
  BY DEF Refer
<1>2. /\ Len(table) \in Nat /\ Len(table) <= MaxReferences /\ MaxReferences \in Nat
      /\ DOMAIN table = 1 .. Len(table)
      /\ \A q \in Ref : ref[q] # NoId => ref[q] \in 1 .. Len(table) /\ table[ref[q]] # Deleted
  BY Basics
<1>3. \A j \in FreeSlots : /\ j \in 1 .. Len(table) + 1 /\ j <= MaxReferences
                           /\ j <= Len(table) => table[j] = Deleted
  <2>1. CASE Len(table) < MaxReferences
    BY <1>2, <2>1 DEF FreeSlots
  <2>2. CASE ~(Len(table) < MaxReferences)
    BY <1>2, <2>2 DEF FreeSlots
  <2>. QED
    BY <2>1, <2>2
<1>4. i \in FreeSlots
  <2>1. FreeSlots \subseteq Nat
    BY <1>2, <1>3
  <2>2. \E j \in FreeSlots : \A k \in FreeSlots : j <= k
    <3>. DEFINE S == FreeSlots
    <3>1. S \subseteq Nat /\ S # {}
      BY <1>1, <2>1
    <3>. HIDE DEF S
    <3>2. \E j \in S : \A k \in S : j <= k
      BY <3>1, LeastExists
    <3>. QED
      BY <3>2 DEF S
  <2>. QED
    BY <2>2
<1>. HIDE DEF i
<1>5. /\ i \in 1 .. Len(table) + 1 /\ i <= MaxReferences
      /\ i <= Len(table) => table[i] = Deleted
  BY <1>3, <1>4
<1>6. ASSUME NEW q \in Ref, q # r PROVE ref[q] # i
  <2>1. i # NoId
    BY <1>2, <1>5 DEF NoId
  <2>. QED
    BY <1>2, <1>5, <2>1
<1>. QED
  BY <1>1, <1>5, <1>6, StoreKeeps

LEMMA AssignKeeps ==
  ASSUME StackAssumption, IInv, NEW r \in Ref, r[1] = Depth, NEW p \in 0 .. size, Assign(r, p)
  PROVE  IInv'
<1>. DEFINE i == ref[r]
<1>1. /\ ref[r] # NoId /\ table' = StoreNodeAt(i, p)
      /\ names' = [names EXCEPT ![r] = p]
      /\ size' = size /\ frames' = frames /\ topmost' = topmost /\ ref' = ref
  BY DEF Assign
<1>2. /\ i \in 1 .. Len(table) /\ Len(table) \in Nat /\ Len(table) <= MaxReferences
      /\ MaxReferences \in Nat
  BY <1>1, Basics
<1>3. i \in 1 .. Len(table) + 1 /\ i <= MaxReferences
  BY <1>2
<1>4. ref' = [ref EXCEPT ![r] = i]
  BY <1>1 DEF IInv, TypeOK
<1>5. \A q \in Ref : q # r => ref[q] # i
  BY <1>1 DEF IInv, Owned
<1>6. i = ref[r]
  OBVIOUS
<1>. HIDE DEF i
<1>. QED
  BY <1>1, <1>3, <1>4, <1>5, <1>6, StoreKeeps

\* The destruction of the identifier of r, when each other reference keeps what it
\* had, under the same name or, when it is moved, under another of its scope
LEMMA DeleteKeeps ==
  ASSUME StackAssumption, IInv, NEW r \in Ref, r[1] = Depth,
         table' = DeleteIdentifier(ref[r]),
         ref' \in [Ref -> 0 .. MaxReferences], names' \in [Ref -> Offset \cup {Invalidated}],
         size' = size, frames' = frames, topmost' = topmost,
         NEW src \in [Ref -> Ref],
         \A x \in Ref : ref'[x] # NoId =>
            /\ src[x] # r /\ ref[src[x]] # NoId /\ src[x][1] = x[1]
            /\ ref'[x] = ref[src[x]] /\ names'[x] = names[src[x]],
         \A x, y \in Ref : src[x] = src[y] => x = y
  PROVE  IInv'
<1>. DEFINE id == ref[r]
<1>1. /\ Len(table) \in Nat /\ Len(table) <= MaxReferences /\ MaxReferences \in Nat
      /\ size \in Nat /\ Depth \in Nat /\ Deleted \notin Offset
      /\ DOMAIN table = 1 .. Len(table)
      /\ \A q \in Ref : ref[q] # NoId => ref[q] \in 1 .. Len(table) /\ table[ref[q]] # Deleted
  BY Basics
<1>2. id \in 0 .. Len(table) /\ (id # NoId => table[id] # Deleted)
  BY <1>1 DEF NoId
<1>3. /\ table' \in Seq(Entry) /\ Len(table') <= Len(table)
      /\ \A i \in 1 .. Len(table') : table'[i] = IF i = id THEN Deleted ELSE table[i]
      /\ \A i \in 1 .. Len(table) : i # id /\ table[i] # Deleted => i <= Len(table')
      /\ Len(table') > 0 => table'[Len(table')] # Deleted
  <2>1. table' = DeleteIdentifier(id)
    OBVIOUS
  <2>. HIDE DEF id
  <2>. DEFINE t == DeleteIdentifier(id)
  <2>2. /\ t \in Seq(Entry) /\ Len(t) <= Len(table)
        /\ \A i \in 1 .. Len(t) : t[i] = IF i = id THEN Deleted ELSE table[i]
        /\ \A i \in 1 .. Len(table) : i # id /\ table[i] # Deleted => i <= Len(t)
        /\ Len(t) > 0 => t[Len(t)] # Deleted
    BY <1>2, DeletedTable
  <2>. HIDE DEF t
  <2>. QED
    BY <2>1, <2>2 DEF t
<1>4. Len(table') \in Nat /\ DOMAIN table' = 1 .. Len(table')
  BY <1>3
<1>5. ASSUME NEW j \in 1 .. Len(table), table[j] # Deleted, j # id
      PROVE  j \in 1 .. Len(table') /\ table'[j] = table[j]
  BY <1>1, <1>3, <1>4, <1>5
<1>6. TypeOK'
  <2>1. Len(table') <= MaxReferences
    BY <1>1, <1>3, <1>4
  <2>. QED
    BY <1>3, <2>1 DEF IInv, TypeOK, Ref, Depth, Entry, Offset, Deleted, Invalidated, Stale
<1>7. OffsetsInside'
  <2>1. ASSUME NEW j \in 1 .. Len(table'), table'[j] \in Offset PROVE table'[j] <= size
    <3>1. j \in 1 .. Len(table) /\ table'[j] = table[j]
      BY <1>1, <1>3, <1>4, <2>1
    <3>. QED
      BY <1>1, <2>1, <3>1 DEF IInv, OffsetsInside
  <2>. QED
    BY <1>4, <2>1 DEF OffsetsInside, Offset
<1>8. ASSUME NEW x \in Ref, ref'[x] # NoId
      PROVE  /\ src[x] \in Ref /\ ref[src[x]] # NoId /\ ref'[x] = ref[src[x]]
             /\ ref[src[x]] # id
             /\ ref[src[x]] \in 1 .. Len(table') /\ table'[ref[src[x]]] = table[ref[src[x]]]
             /\ table[ref[src[x]]] # Deleted
  <2>1. /\ src[x] \in Ref /\ src[x] # r /\ ref[src[x]] # NoId /\ ref'[x] = ref[src[x]]
    BY <1>8
  <2>2. ref[src[x]] # id
    BY <2>1 DEF IInv, Owned
  <2>3. ref[src[x]] \in 1 .. Len(table) /\ table[ref[src[x]]] # Deleted
    BY <1>1, <2>1
  <2>. QED
    BY <1>5, <2>1, <2>2, <2>3
<1>9. Owned'
  <2>1. ASSUME NEW q \in Ref, ref'[q] # NoId
        PROVE  /\ q[1] <= Depth /\ ref'[q] <= Len(table') /\ table'[ref'[q]] # Deleted
               /\ \A x \in Ref : ref'[x] = ref'[q] => x = q
    <3>1. /\ src[q] \in Ref /\ ref[src[q]] # NoId /\ ref'[q] = ref[src[q]]
          /\ ref[src[q]] \in 1 .. Len(table') /\ table'[ref[src[q]]] # Deleted
      BY <1>8, <2>1
    <3>2. q[1] <= Depth
      BY <2>1, <3>1 DEF IInv, Owned
    <3>3. ASSUME NEW x \in Ref, ref'[x] = ref'[q] PROVE x = q
      <4>1. src[x] \in Ref /\ ref'[x] = ref[src[x]]
        BY <1>8, <2>1, <3>3
      <4>2. src[x] = src[q]
        BY <3>1, <3>3, <4>1 DEF IInv, Owned
      <4>. QED
        BY <4>2
    <3>4. ref'[q] <= Len(table')
      BY <1>4, <3>1
    <3>. QED
      BY <3>1, <3>2, <3>3, <3>4
  <2>2. Depth' = Depth
    BY DEF Depth
  <2>. QED
    BY <2>1, <2>2 DEF Owned, Ref, Deleted
<1>10. LastIsKept'
  BY <1>3 DEF LastIsKept, Deleted
<1>11. FramesInside'
  <2>1. ASSUME NEW k \in 1 .. Depth
        PROVE  /\ frames[k].length <= Len(table')
               /\ frames[k].length > 0 => table'[frames[k].length] # Deleted
    <3>1. frames[k].length \in Nat
      BY FrameTypes DEF IInv
    <3>2. /\ frames[k].length <= Len(table)
          /\ frames[k].length > 0 => table[frames[k].length] # Deleted
      BY DEF IInv, FramesInside
    <3>3. CASE frames[k].length = 0
      BY <1>4, <3>3
    <3>4. CASE frames[k].length > 0
      <4>1. frames[k].length \in 1 .. Len(table)
        BY <1>1, <3>1, <3>2, <3>4
      <4>2. frames[k].length # id
        <5>1. CASE id = NoId
          BY <3>4, <5>1 DEF NoId
        <5>2. CASE id # NoId
          <6>1. ~(r[1] < k)
            BY <1>1
          <6>. QED
            BY <5>2, <6>1 DEF IInv, FramesKeepReferences
        <5>. QED
          BY <5>1, <5>2
      <4>3. frames[k].length \in 1 .. Len(table') /\ table'[frames[k].length] # Deleted
        BY <1>5, <3>2, <3>4, <4>1, <4>2
      <4>. QED
        BY <1>4, <4>3
    <3>. QED
      BY <3>1, <3>3, <3>4
  <2>. QED
    BY <2>1 DEF IInv, FramesInside, Depth, Deleted, Stale
<1>12. FramesKeepReferences'
  <2>1. ASSUME NEW k \in 1 .. Depth, NEW x \in Ref, ref'[x] # NoId
        PROVE  IF x[1] < k THEN ref'[x] <= frames[k].length ELSE ref'[x] # frames[k].length
    <3>1. src[x] \in Ref /\ ref[src[x]] # NoId /\ ref'[x] = ref[src[x]] /\ src[x][1] = x[1]
      BY <1>8, <2>1
    <3>. QED
      BY <3>1 DEF IInv, FramesKeepReferences
  <2>. QED
    BY <2>1 DEF FramesKeepReferences, Depth, Ref
<1>13. TopmostIsDepth'
  BY DEF IInv, TopmostIsDepth, Depth, NoCheckpoint, Stale
<1>14. ReferencesFollow'
  <2>1. ASSUME NEW x \in Ref, ref'[x] # NoId PROVE table'[ref'[x]] = names'[x]
    BY <1>8, <2>1 DEF IInv, ReferencesFollow
  <2>. QED
    BY <2>1 DEF ReferencesFollow, Ref
<1>. QED
  BY <1>6, <1>7, <1>9, <1>10, <1>11, <1>12, <1>13, <1>14 DEF IInv

LEMMA ForgetKeeps ==
  ASSUME StackAssumption, IInv, NEW r \in Ref, r[1] = Depth, Forget(r)
  PROVE  IInv'
<1>. DEFINE src == [x \in Ref |-> x]
<1>1. /\ ref[r] # NoId /\ table' = DeleteIdentifier(ref[r])
      /\ ref' = [ref EXCEPT ![r] = NoId] /\ names' = [names EXCEPT ![r] = Invalidated]
      /\ size' = size /\ frames' = frames /\ topmost' = topmost
  BY DEF Forget
<1>2. ref \in [Ref -> 0 .. MaxReferences] /\ names \in [Ref -> Offset \cup {Invalidated}]
  BY DEF IInv, TypeOK
<1>3. MaxReferences \in Nat
  BY Basics
<1>4. /\ ref' \in [Ref -> 0 .. MaxReferences] /\ names' \in [Ref -> Offset \cup {Invalidated}]
  BY <1>1, <1>2, <1>3 DEF NoId
<1>5. src \in [Ref -> Ref] /\ \A x \in Ref : src[x] = x
  OBVIOUS
<1>. HIDE DEF src
<1>6. \A x \in Ref : ref'[x] # NoId =>
        /\ src[x] # r /\ ref[src[x]] # NoId /\ src[x][1] = x[1]
        /\ ref'[x] = ref[src[x]] /\ names'[x] = names[src[x]]
  BY <1>1, <1>2, <1>5
<1>7. \A x, y \in Ref : src[x] = src[y] => x = y
  BY <1>5
<1>. QED
  BY <1>1, <1>4, <1>5, <1>6, <1>7, DeleteKeeps

LEMMA StealKeeps ==
  ASSUME StackAssumption, IInv, NEW r \in Ref, r[1] = Depth, NEW q \in Ref, q[1] = Depth,
         Steal(r, q)
  PROVE  IInv'
<1>. DEFINE src == [x \in Ref |-> IF x = r THEN q ELSE IF x = q THEN r ELSE x]
<1>1. /\ r # q /\ ref[q] # NoId /\ table' = DeleteIdentifier(ref[r])
      /\ ref' = [ref EXCEPT ![r] = ref[q], ![q] = NoId]
      /\ names' = [names EXCEPT ![r] = names[q], ![q] = Invalidated]
      /\ size' = size /\ frames' = frames /\ topmost' = topmost
  BY DEF Steal
<1>2. ref \in [Ref -> 0 .. MaxReferences] /\ names \in [Ref -> Offset \cup {Invalidated}]
  BY DEF IInv, TypeOK
<1>3. MaxReferences \in Nat
  BY Basics
<1>4. /\ ref' \in [Ref -> 0 .. MaxReferences] /\ names' \in [Ref -> Offset \cup {Invalidated}]
  BY <1>1, <1>2, <1>3 DEF NoId
<1>5. /\ src \in [Ref -> Ref] /\ src[r] = q
      /\ \A x \in Ref : x # r /\ x # q => src[x] = x
      /\ \A x, y \in Ref : src[x] = src[y] => x = y
  BY <1>1
<1>. HIDE DEF src
<1>6. /\ ref'[r] = ref[q] /\ names'[r] = names[q] /\ ref'[q] = NoId
      /\ \A x \in Ref : x # r /\ x # q => ref'[x] = ref[x] /\ names'[x] = names[x]
  BY <1>1, <1>2
<1>7. \A x \in Ref : ref'[x] # NoId =>
        /\ src[x] # r /\ ref[src[x]] # NoId /\ src[x][1] = x[1]
        /\ ref'[x] = ref[src[x]] /\ names'[x] = names[src[x]]
  BY <1>1, <1>5, <1>6
<1>. QED
  BY <1>1, <1>4, <1>5, <1>7, DeleteKeeps
----------------------------------------------------------------------------
\* The steps together

LEMMA InitInv ==
  ASSUME StackAssumption, Init
  PROVE  IInv
<1>1. MaxBlocks \in Nat /\ MaxReferences \in Nat /\ MaxDepth \in Nat
  BY DEF StackAssumption
<1>2. /\ size = 0 /\ table = <<>> /\ frames = <<>> /\ topmost = NoCheckpoint
      /\ ref = [r \in Ref |-> NoId] /\ names = [r \in Ref |-> Invalidated]
  BY DEF Init
<1>3. Len(table) = 0 /\ Depth = 0 /\ DOMAIN table = {}
  BY <1>2 DEF Depth
<1>4. TypeOK
  <2>1. table \in Seq(Offset \cup {Deleted, Invalidated}) /\ frames \in Seq(Frame)
    BY <1>2
  <2>2. ref \in [Ref -> 0 .. MaxReferences] /\ names \in [Ref -> Offset \cup {Invalidated}]
    BY <1>1, <1>2 DEF NoId
  <2>. QED
    BY <1>1, <1>2, <1>3, <2>1, <2>2 DEF TypeOK, Frame, Offset, Stale, NoCheckpoint
<1>5. \A r \in Ref : ref[r] = NoId
  BY <1>2
<1>. QED
  BY <1>2, <1>3, <1>4, <1>5
  DEF IInv, OffsetsInside, Owned, LastIsKept, FramesInside, FramesKeepReferences,
      TopmostIsDepth, ReferencesFollow

LEMMA StutterKeeps ==
  ASSUME IInv, UNCHANGED vars
  PROVE  IInv'
<1>1. /\ size' = size /\ table' = table /\ ref' = ref /\ frames' = frames
      /\ topmost' = topmost /\ names' = names
  BY DEF vars
<1>2. TypeOK' /\ OffsetsInside' /\ Owned' /\ LastIsKept'
  BY <1>1 DEF IInv, TypeOK, OffsetsInside, Owned, LastIsKept, Depth, Ref, Offset,
              Deleted, Invalidated, Stale
<1>3. FramesInside' /\ FramesKeepReferences' /\ TopmostIsDepth' /\ ReferencesFollow'
  BY <1>1 DEF IInv, FramesInside, FramesKeepReferences, TopmostIsDepth, ReferencesFollow,
              Depth, Ref, Deleted, Stale, NoCheckpoint
<1>. QED
  BY <1>2, <1>3 DEF IInv

LEMMA StepKeeps ==
  ASSUME StackAssumption, IInv, Next
  PROVE  IInv'
<1>1. CASE Motion
  <2>1. PICK a \in Offset, n \in Run :
          \/ \E at \in BOOLEAN :
               \/ CloneAt(a, n, at)
               \/ \E d \in Offset : MoveAt(d, a, n, at)
          \/ \E m \in Run :
               \/ CloneOver(a, n, m)
               \/ \E b \in Offset : MoveOver(a, n, b, m) \/ Swap(a, n, b, m)
          \/ RemoveRun(a, n)
    BY <1>1, Zenon DEF Motion
  <2>2. ASSUME NEW at \in BOOLEAN, CloneAt(a, n, at) PROVE IInv'
    BY <2>2, CloneAtKeeps
  <2>3. ASSUME NEW at \in BOOLEAN, NEW d \in Offset, MoveAt(d, a, n, at) PROVE IInv'
    BY <2>3, MoveAtKeeps
  <2>4. ASSUME NEW m \in Run, CloneOver(a, n, m) PROVE IInv'
    BY <2>4, CloneOverKeeps
  <2>5. ASSUME NEW m \in Run, NEW b \in Offset, MoveOver(a, n, b, m) PROVE IInv'
    BY <2>5, MoveOverKeeps
  <2>6. ASSUME NEW m \in Run, NEW b \in Offset, Swap(a, n, b, m) PROVE IInv'
    BY <2>6, SwapKeeps
  <2>7. CASE RemoveRun(a, n)
    BY <2>7, RemoveRunKeeps
  <2>. QED
    BY <2>1, <2>2, <2>3, <2>4, <2>5, <2>6, <2>7, Zenon
<1>2. CASE Reference
  <2>1. PICK s \in Slots :
          \/ \E p \in 0 .. size : Refer(<<Depth, s>>, p) \/ Assign(<<Depth, s>>, p)
          \/ Forget(<<Depth, s>>)
          \/ \E t \in Slots : Steal(<<Depth, s>>, <<Depth, t>>)
    BY <1>2, Zenon DEF Reference
  <2>2. \A t \in Slots : <<Depth, t>> \in Ref /\ <<Depth, t>>[1] = Depth
    BY ScopeIsRef
  <2>3. ASSUME NEW p \in 0 .. size, Refer(<<Depth, s>>, p) PROVE IInv'
    BY <2>2, <2>3, ReferKeeps
  <2>4. ASSUME NEW p \in 0 .. size, Assign(<<Depth, s>>, p) PROVE IInv'
    BY <2>2, <2>4, AssignKeeps
  <2>5. CASE Forget(<<Depth, s>>)
    BY <2>2, <2>5, ForgetKeeps
  <2>6. ASSUME NEW t \in Slots, Steal(<<Depth, s>>, <<Depth, t>>) PROVE IInv'
    BY <2>2, <2>6, StealKeeps
  <2>. QED
    BY <2>1, <2>3, <2>4, <2>5, <2>6, Zenon
<1>3. ASSUME NEW p \in Offset, Drop(p) PROVE IInv'
  BY <1>3, DropKeeps
<1>4. ASSUME NEW p \in Offset, Try(p) PROVE IInv'
  BY <1>4, TryKeeps
<1>5. CASE Leave
  BY <1>5, LeaveKeeps
<1>6. CASE Raise
  BY <1>6, RaiseKeeps
<1>7. CASE Rollback
  BY <1>7, RollbackKeeps
<1>. QED
  BY <1>1, <1>2, <1>3, <1>4, <1>5, <1>6, <1>7, Zenon DEF Next

\* The inductive invariant: the table leads inside the stack and to what is named,
\* every reference owns its identifier, and what a Try remembers of the stack and
\* of the table is still there, whatever is moved, destroyed or jumped out of.
THEOREM StackInvariance == Spec => []IInv
<1>1. Init => IInv
  BY InitInv, StackAssumption
<1>2. IInv /\ [Next]_vars => IInv'
  BY StepKeeps, StutterKeeps, StackAssumption
<1>. QED
  BY <1>1, <1>2, PTL DEF Spec

\* A reference leads to the block it named, to the one that took its place, or to
\* nothing, for any size of the stack and of the table and any number of
\* references: the corrections of the offsets in block_stack.cpp.
THEOREM ReferencesLeadToTheirBlock == Spec => []ReferencesFollow
<1>1. IInv => ReferencesFollow
  BY DEF IInv
<1>. QED
  BY <1>1, StackInvariance, PTL

\* No two references ever hold one identifier, and none holds a destroyed one,
\* through destructions, exceptions and rollbacks: deleteIdentifier and storeNode.
THEOREM IdentifiersStayOwned == Spec => []IdentifiersNotShared
<1>1. IInv => IdentifiersNotShared
  <2>1. ASSUME IInv PROVE IdentifiersNotShared
    BY <2>1 DEF IInv, IdentifiersNotShared, Owned
  <2>. QED
    BY <2>1
<1>. QED
  BY <1>1, StackInvariance, PTL

LEMMA MoveOverLeavesNothing ==
  ASSUME StackAssumption, IInv
  PROVE  MoveOverInvalidates
<1>. SUFFICES ASSUME NEW o \in 0 .. size, NEW f \in 0 .. size,
                     NEW n \in 1 .. size, NEW m \in 1 .. size, CanMoveOver(o, n, f, m),
                     NEW r \in Ref, ref[r] # NoId, o < names[r], names[r] < o + n,
                     ~ (f <= names[r] /\ names[r] < f + m)
              PROVE  MovedOver(o, n, f, m).table[ref[r]] = Invalidated
  BY DEF MoveOverInvalidates
<1>. DEFINE x == table[ref[r]]
            u == MoveBlocks(Stack, o, f, m, TRUE)
            final == IF o > f THEN o - m ELSE o
            k == IF Inside(o, n, f, m) THEN n - m ELSE n
            e == final + m
            t == RemoveBlocks(u, e, k)
            moved == [q \in Offset |-> MovedTo(o, f, m, TRUE, q)]
            gone == [q \in Offset |-> IF q >= e + k THEN q - k
                                      ELSE IF q > e THEN Invalidated ELSE q]
<1>1. /\ size \in Nat /\ size <= MaxBlocks /\ MaxBlocks \in Nat
      /\ DOMAIN table = 1 .. Len(table) /\ ref[r] \in 1 .. Len(table)
      /\ x \in 0 .. size \cup {Deleted, Invalidated} /\ x # Deleted
      /\ Deleted \notin Offset /\ Invalidated \notin Offset
  BY Basics
<1>2. x = names[r]
  BY DEF IInv, ReferencesFollow
<1>3. /\ f + m <= o \/ o + n <= f \/ Inside(o, n, f, m)
      /\ o + n <= size /\ f + m <= size
  BY DEF CanMoveOver, IsRun
<1>4. x \in 0 .. size /\ x \notin {Invalidated, Deleted} /\ x \in Offset
  <2>1. o + n <= MaxBlocks /\ o + n \in Nat
    BY <1>1, <1>3
  <2>2. x # Invalidated
    BY <1>1, <1>2, <2>1 DEF Invalidated
  <2>. QED
    BY <1>1, <2>2 DEF Offset
<1>5. o # f
  BY <1>1, <1>3 DEF Inside
<1>6. MovedOver(o, n, f, m) = t
  BY DEF MovedOver
<1>7. u.table = UpdateNodes(Stack, moved)
  BY <1>5 DEF MoveBlocks, MovedTo
<1>8. t.table = UpdateNodes(u, gone)
  BY DEF RemoveBlocks
<1>9. Stack.table = table
  BY DEF Stack
<1>. HIDE DEF t, u, x, moved, gone
<1>10. u.table[ref[r]] = moved[x] /\ DOMAIN u.table = 1 .. Len(table)
  BY <1>1, <1>4, <1>7, <1>9 DEF UpdateNodes, x
<1>11. moved[x] = MovedTo(o, f, m, TRUE, x)
  BY <1>4 DEF moved
<1>12. /\ MovedTo(o, f, m, TRUE, x) \in 0 .. size
       /\ e < MovedTo(o, f, m, TRUE, x) /\ MovedTo(o, f, m, TRUE, x) < e + k
  <2>1. CASE f + m <= o
    BY <1>1, <1>2, <1>3, <1>4, <2>1 DEF MovedTo, Inside
  <2>2. CASE o + n <= f
    BY <1>1, <1>2, <1>3, <1>4, <2>2 DEF MovedTo, Inside
  <2>3. CASE Inside(o, n, f, m)
    BY <1>1, <1>2, <1>3, <1>4, <2>3 DEF MovedTo, Inside
  <2>. QED
    BY <1>3, <2>1, <2>2, <2>3
<1>. DEFINE y == moved[x]
<1>13. y \in 0 .. size /\ e < y /\ y < e + k /\ e \in Int /\ k \in Int
  <2>1. e \in Int /\ k \in Int
    BY <1>1, <1>3 DEF IsRun
  <2>2. y = MovedTo(o, f, m, TRUE, x)
    BY <1>11
  <2>. HIDE DEF y, e, k
  <2>. QED
    BY <1>12, <2>1, <2>2
<1>14. y \in Offset /\ y \notin {Invalidated, Deleted}
  BY <1>1, <1>13 DEF Offset
<1>. HIDE DEF y, e, k
<1>15. gone[y] = Invalidated
  BY <1>13, <1>14 DEF gone
<1>16. t.table[ref[r]] = gone[y]
  BY <1>1, <1>8, <1>10, <1>14 DEF UpdateNodes, y
<1>. QED
  BY <1>6, <1>15, <1>16

\* A reference to a descendant of the tree another one is moved over names nothing
\* any more, whether the moved tree is apart from it or inside it: moveOver.
THEOREM MovingOverInvalidates == Spec => []MoveOverInvalidates
<1>1. IInv => MoveOverInvalidates
  BY MoveOverLeavesNothing, StackAssumption
<1>. QED
  BY <1>1, StackInvariance, PTL
=============================================================================
