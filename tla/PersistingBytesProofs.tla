----------------------- MODULE PersistingBytesProofs -----------------------
(***************************************************************************)
(* The persisting bytes are correct for any number of entries, of slots    *)
(* and of bits: every write finds its bits still set, and the bytes        *)
(* implement the registers, whenever resets happen.                        *)
(***************************************************************************)
EXTENDS PersistingBytes, TLAPS, WellFoundedInduction

-----------------------------------------------------------------------------
(* Rows of slots *)

LEMMA CellsAre ==
  ASSUME NEW e \in Entry, NEW i
  PROVE  <<e, i>> \in Cells <=> i \in 1..Slots[e]
<1>1. ASSUME i \in 1..Slots[e] PROVE <<e, i>> \in Cells
  BY <1>1 DEF Cells
<1>2. ASSUME <<e, i>> \in Cells PROVE i \in 1..Slots[e]
  <2>1. PICK e2 \in Entry : <<e, i>> \in {<<e2, j>> : j \in 1..Slots[e2]}
    BY <1>2 DEF Cells
  <2>2. PICK j \in 1..Slots[e2] : <<e, i>> = <<e2, j>>
    BY <2>1
  <2> QED
    BY <2>2
<1> QED
  BY <1>1, <1>2

\* A row that is not blank has a last slot that is not.
LEMMA LastExists ==
  ASSUME NEW f \in [Cells -> PBValue], NEW e \in Entry, ~IsBlank(f, e)
  PROVE  /\ Last(f, e) \in 1..Slots[e]
         /\ f[<<e, Last(f, e)>>] # Blank
         /\ \A j \in Last(f, e) + 1..Slots[e] : f[<<e, j>>] = Blank
<1> DEFINE n == Slots[e]
           D == {n - i : i \in {k \in 1..n : f[<<e, k>>] # Blank}}
<1>0. n \in Nat \ {0}
  BY EntriesAssumption
<1>1. D \subseteq Nat /\ D # {}
  <2>1. PICK i \in 1..n : f[<<e, i>>] # Blank
    BY DEF IsBlank
  <2>2. n - i \in D
    BY <2>1
  <2>3. ASSUME NEW c \in D PROVE c \in Nat
    <3>1. PICK k \in 1..n : c = n - k
      OBVIOUS
    <3> QED
      BY <1>0, <3>1
  <2> QED
    BY <2>2, <2>3
<1>2. PICK d \in D : \A c \in D : ~(<<c, d>> \in OpToRel(<, Nat))
  BY <1>1, WFMin, NatLessThanWellFounded
<1>3. ASSUME NEW c \in D PROVE d <= c
  <2>1. c < d => <<c, d>> \in OpToRel(<, Nat)
    BY <1>1, Zenon DEF OpToRel
  <2>2. ~(c < d)
    BY <1>2, <2>1, Zenon
  <2>3. c \in Nat /\ d \in Nat
    BY <1>1, Zenon
  <2> HIDE DEF D
  <2> QED
    BY <2>2, <2>3
<1>4. PICK i \in 1..n : f[<<e, i>>] # Blank /\ d = n - i
  OBVIOUS
<1>5. ASSUME NEW j \in i + 1..n PROVE f[<<e, j>>] = Blank
  <2>1. ASSUME f[<<e, j>>] # Blank PROVE FALSE
    <3>1. j \in 1..n /\ n - j \in D
      BY <2>1, <1>0, <1>4
    <3>2. n - i <= n - j
      BY <3>1, <1>3, <1>4
    <3> QED
      BY <3>2, <1>0, <1>4, <1>5
  <2> QED
    BY <2>1
<1> QED
  BY <1>4, <1>5 DEF Last

LEMMA LastIs ==
  ASSUME NEW f, NEW e \in Entry, NEW i \in 1..Slots[e],
         f[<<e, i>>] # Blank, \A j \in i + 1..Slots[e] : f[<<e, j>>] = Blank
  PROVE  ~IsBlank(f, e) /\ Last(f, e) = i /\ ValueOf(f, e) = f[<<e, i>>]
<1> DEFINE IsLast(k) == f[<<e, k>>] # Blank /\ \A j \in k + 1..Slots[e] : f[<<e, j>>] = Blank
<1>1. ASSUME NEW k \in 1..Slots[e], IsLast(k) PROVE k = i
  <2>1. ~(i < k)
    BY <1>1, EntriesAssumption
  <2>2. ~(k < i)
    BY <1>1, EntriesAssumption
  <2> QED
    BY <2>1, <2>2, EntriesAssumption
<1>2. Last(f, e) = i
  BY <1>1 DEF Last
<1>3. ~IsBlank(f, e)
  BY DEF IsBlank
<1> QED
  BY <1>2, <1>3 DEF ValueOf

\* Rows that are the same read the same.
LEMMA SameRow ==
  ASSUME NEW f \in [Cells -> PBValue], NEW g \in [Cells -> PBValue], NEW e \in Entry,
         \A i \in 1..Slots[e] : f[<<e, i>>] = g[<<e, i>>]
  PROVE  (IsBlank(f, e) <=> IsBlank(g, e)) /\ Last(f, e) = Last(g, e) /\ ValueOf(f, e) = ValueOf(g, e)
<1>1. IsBlank(f, e) <=> IsBlank(g, e)
  BY DEF IsBlank
<1>2. ASSUME NEW k \in 1..Slots[e] 
      PROVE  (f[<<e, k>>] # Blank /\ \A j \in k + 1..Slots[e] : f[<<e, j>>] = Blank)
             <=> (g[<<e, k>>] # Blank /\ \A j \in k + 1..Slots[e] : g[<<e, j>>] = Blank)
  <2>1. \A j \in k + 1..Slots[e] : j \in 1..Slots[e]
    BY EntriesAssumption
  <2> QED
    BY <2>1
<1>3. Last(f, e) = Last(g, e)
  BY <1>2 DEF Last
<1>4. ~IsBlank(f, e) => f[<<e, Last(f, e)>>] = g[<<e, Last(g, e)>>]
  BY <1>3, LastExists
<1> QED
  BY <1>1, <1>3, <1>4 DEF ValueOf

-----------------------------------------------------------------------------
(* One write in flash *)

Put(f, e, i, v) == [f EXCEPT ![<<e, i>>] = v]

\* A write that can be done, of a value that is not blank.
Fits(f, e, i, d) ==
  /\ i \in 1..Slots[e]
  /\ d \in PBValue \ {Blank}
  /\ d \subseteq f[<<e, i>>]
  /\ \A j \in i + 1..Slots[e] : f[<<e, j>>] = Blank

LEMMA OtherRows ==
  ASSUME NEW f \in [Cells -> PBValue], NEW e \in Entry, NEW i \in 1..Slots[e], NEW v \in PBValue,
         NEW g, g = Put(f, e, i, v), NEW o \in Entry, o # e
  PROVE  (IsBlank(g, o) <=> IsBlank(f, o)) /\ ValueOf(g, o) = ValueOf(f, o)
<1>1. g \in [Cells -> PBValue]
  BY DEF Put
<1>2. \A j \in 1..Slots[o] : g[<<o, j>>] = f[<<o, j>>]
  BY CellsAre DEF Put
<1> QED
  BY <1>1, <1>2, SameRow

\* What was written is read.
LEMMA WrittenIsRead ==
  ASSUME NEW f \in [Cells -> PBValue], NEW e \in Entry, NEW i, NEW d, Fits(f, e, i, d),
         NEW g, g = Programmed(f, Write(e, i, d))
  PROVE  /\ g \in [Cells -> PBValue]
         /\ g = Put(f, e, i, d)
         /\ ~IsBlank(g, e) /\ Last(g, e) = i /\ ValueOf(g, e) = d
         /\ \A j \in i + 1..Slots[e] : g[<<e, j>>] = Blank
<1>0. i \in 1..Slots[e] /\ d \in PBValue /\ d # Blank /\ d \subseteq f[<<e, i>>]
      /\ \A j \in i + 1..Slots[e] : f[<<e, j>>] = Blank
  BY DEF Fits
<1>1. <<e, i>> \in Cells
  BY <1>0, CellsAre
<1>2. g = Put(f, e, i, d)
  <2>1. f[<<e, i>>] \cap d = d
    BY <1>0
  <2> QED
    BY <2>1 DEF Programmed, Write, Put
<1>3. g \in [Cells -> PBValue] /\ g[<<e, i>>] = d
  BY <1>0, <1>1, <1>2 DEF Put
<1>4. ASSUME NEW j \in i + 1..Slots[e] PROVE g[<<e, j>>] = Blank
  <2>1. j \in 1..Slots[e] /\ j # i
    BY <1>0, EntriesAssumption
  <2>2. <<e, j>> \in Cells /\ <<e, j>> # <<e, i>>
    BY <2>1, CellsAre
  <2> QED
    BY <1>0, <1>2, <2>2 DEF Put
<1>5. ~IsBlank(g, e) /\ Last(g, e) = i /\ ValueOf(g, e) = g[<<e, i>>]
  BY <1>0, <1>3, <1>4, LastIs
<1> QED
  BY <1>2, <1>3, <1>4, <1>5

\* A write that is stopped leaves the old value or the bits of the new one.
LEMMA TornIsRead ==
  ASSUME NEW f \in [Cells -> PBValue], NEW e \in Entry, NEW i, NEW d, Fits(f, e, i, d),
         NEW v \in Between(f[<<e, i>>] \cap d, f[<<e, i>>]),
         NEW g, g = Put(f, e, i, v)
  PROVE  /\ g \in [Cells -> PBValue]
         /\ ValueOf(g, e) = ValueOf(f, e) \/ d \subseteq ValueOf(g, e)
<1>0. i \in 1..Slots[e] /\ d \in PBValue /\ d \subseteq f[<<e, i>>]
      /\ \A j \in i + 1..Slots[e] : f[<<e, j>>] = Blank
  BY DEF Fits
<1>1. <<e, i>> \in Cells
  BY <1>0, CellsAre
<1>2. v \subseteq f[<<e, i>>] /\ d \subseteq v /\ v \in PBValue
  BY <1>0, <1>1 DEF Between, PBValue
<1>3. g \in [Cells -> PBValue] /\ g[<<e, i>>] = v
  BY <1>1, <1>2 DEF Put
<1>4. CASE v = Blank
  <2>1. f[<<e, i>>] = v
    BY <1>1, <1>2, <1>4 DEF PBValue, Blank
  <2>2. g = f
    BY <1>1, <2>1 DEF Put
  <2> QED
    BY <1>3, <2>2
<1>5. CASE v # Blank
  <2>1. ASSUME NEW j \in i + 1..Slots[e] PROVE g[<<e, j>>] = Blank
    <3>1. j \in 1..Slots[e] /\ j # i
      BY <1>0, EntriesAssumption
    <3>2. <<e, j>> \in Cells /\ <<e, j>> # <<e, i>>
      BY <3>1, CellsAre
    <3> QED
      BY <1>0, <3>2 DEF Put
  <2>2. ValueOf(g, e) = g[<<e, i>>]
    BY <1>0, <1>3, <1>5, <2>1, LastIs
  <2>3. d \subseteq ValueOf(g, e)
    BY <1>2, <1>3, <2>2
  <2> QED
    BY <1>3, <2>3
<1> QED
  BY <1>4, <1>5

-----------------------------------------------------------------------------
(* The invariant *)

\* What each step of a call relies on.
MovedTo(S) == \A e \in Entry \ S : ValueOf(flash, e) = call.saved[e]
AllBlank(S) == \A e \in S : IsBlank(flash, e)

CallOK ==
  /\ call.step \notin {"off", "idle"} => call.data # Blank
  /\ call.step = "init" => IsBlank(flash, call.entry)
  /\ call.step = "program" => Fits(flash, call.entry, call.slot, call.data)
  /\ call.step \in {"erase", "rewrite", "final"} => \A e \in Entry : call.saved[e] # Blank
  /\ call.step = "erase" => MovedTo({})
  /\ call.step = "rewrite" =>
       /\ call.left # {} /\ call.left \subseteq Entry \ {call.entry}
       /\ AllBlank(call.left \cup {call.entry})
       /\ MovedTo(call.left \cup {call.entry})
  /\ call.step = "final" => AllBlank({call.entry}) /\ MovedTo({call.entry})

IInv == TypeOK /\ CallOK

LEMMA BlankFits ==
  ASSUME NEW f \in [Cells -> PBValue], NEW e \in Entry, IsBlank(f, e), NEW d \in PBValue \ {Blank}
  PROVE  Fits(f, e, 1, d)
<1>1. 1 \in 1..Slots[e] /\ \A j \in 2..Slots[e] : j \in 1..Slots[e]
  BY EntriesAssumption
<1> QED
  BY <1>1 DEF Fits, IsBlank, PBValue, Blank

LEMMA ValueType ==
  ASSUME NEW f \in [Cells -> PBValue], NEW e \in Entry
  PROVE  ValueOf(f, e) \in PBValue \ {Blank}
<1>1. CASE IsBlank(f, e)
  BY <1>1, EntriesAssumption DEF ValueOf
<1>2. CASE ~IsBlank(f, e)
  BY <1>2, LastExists, CellsAre DEF ValueOf
<1> QED
  BY <1>1, <1>2

\* Every write the calls do is one that can be done.
LEMMA PendingFits ==
  ASSUME IInv, Programs
  PROVE  \E e \in Entry, i \in Nat, d \in PBValue :
           /\ Pending = Write(e, i, d)
           /\ Fits(flash, e, i, d)
           /\ call.step = "init" => e = call.entry /\ i = 1 /\ d = Default[e]
           /\ call.step = "program" => e = call.entry /\ i = call.slot /\ d = call.data
           /\ call.step = "save" => e = NextOf(BlankOthers) /\ e \in BlankOthers /\ i = 1 /\ d = Default[e]
           /\ call.step = "rewrite" => e = NextOf(call.left) /\ e \in call.left /\ i = 1 /\ d = call.saved[e]
           /\ call.step = "final" => e = call.entry /\ i = 1 /\ d = call.data
<1> USE DEF IInv, TypeOK, CallOK
<1>0. Default \in [Entry -> PBValue \ {Blank}]
  BY EntriesAssumption
<1>1. CASE call.step = "init"
  <2>1. Pending = Write(call.entry, 1, Default[call.entry])
    BY <1>1 DEF Pending
  <2> QED
    BY <1>0, <1>1, <2>1, BlankFits
<1>2. CASE call.step = "program"
  <2>1. Pending = Write(call.entry, call.slot, call.data)
    BY <1>2 DEF Pending
  <2> QED
    BY <1>2, <2>1
<1>3. CASE call.step = "save"
  <2>1. BlankOthers # {}
    BY <1>3 DEF Programs
  <2>2. NextOf(BlankOthers) \in BlankOthers
    BY <2>1 DEF NextOf
  <2>3. NextOf(BlankOthers) \in Entry /\ IsBlank(flash, NextOf(BlankOthers))
    BY <2>2 DEF BlankOthers
  <2>4. Pending = Write(NextOf(BlankOthers), 1, Default[NextOf(BlankOthers)])
    BY <1>3 DEF Pending
  <2> QED
    BY <1>0, <1>3, <2>2, <2>3, <2>4, BlankFits
<1>4. CASE call.step = "rewrite"
  <2>1. NextOf(call.left) \in call.left
    BY <1>4 DEF NextOf
  <2>2. NextOf(call.left) \in Entry /\ IsBlank(flash, NextOf(call.left))
    BY <1>4, <2>1 DEF AllBlank
  <2>3. Pending = Write(NextOf(call.left), 1, call.saved[NextOf(call.left)])
    BY <1>4 DEF Pending
  <2> QED
    BY <1>4, <2>1, <2>2, <2>3, BlankFits
<1>5. CASE call.step = "final"
  <2>1. Pending = Write(call.entry, 1, call.data)
    BY <1>5 DEF Pending
  <2> QED
    BY <1>5, <2>1, BlankFits DEF AllBlank
<1> QED
  BY <1>1, <1>2, <1>3, <1>4, <1>5 DEF Programs

LEMMA WriteTakesHolds ==
  ASSUME IInv
  PROVE  WriteTakes
<1> SUFFICES ASSUME Programs
             PROVE  /\ Pending.cell \in Cells
                    /\ Pending.data \subseteq flash[Pending.cell]
                    /\ \A i \in Pending.cell[2] + 1..Slots[Pending.cell[1]] :
                         flash[<<Pending.cell[1], i>>] = Blank
  BY DEF WriteTakes
<1>1. PICK e \in Entry, i \in Nat, d \in PBValue : Pending = Write(e, i, d) /\ Fits(flash, e, i, d)
  BY PendingFits
<1>2. Pending.cell = <<e, i>> /\ Pending.data = d
  BY <1>1 DEF Write
<1> QED
  BY <1>1, <1>2, CellsAre DEF Fits

-----------------------------------------------------------------------------
(* The steps *)

LEMMA CallType ==
  ASSUME NEW s \in Steps, NEW e \in Entry \cup {NoEntry}, NEW d \in PBValue, NEW i \in Nat,
         NEW v \in [Entry -> PBValue], NEW l \in SUBSET Entry
  PROVE  [step |-> s, entry |-> e, data |-> d, slot |-> i, saved |-> v, left |-> l] \in
         [step : Steps, entry : Entry \cup {NoEntry}, data : PBValue, slot : Nat,
          saved : [Entry -> PBValue], left : SUBSET Entry]
  OBVIOUS

LEMMA NoCallOK ==
  ASSUME flash' \in [Cells -> PBValue], NEW s \in {"off", "idle"}, call' = [NoCall EXCEPT !.step = s]
  PROVE  IInv'
<1>1. call' = [step |-> s, entry |-> NoEntry, data |-> Blank, slot |-> 0,
               saved |-> [e \in Entry |-> Blank], left |-> {}]
  BY DEF NoCall
<1>2. Blank \in PBValue
  BY DEF Blank, PBValue
<1>3. call' \in [step : Steps, entry : Entry \cup {NoEntry}, data : PBValue, slot : Nat,
                  saved : [Entry -> PBValue], left : SUBSET Entry]
  <2>1. /\ s \in Steps /\ NoEntry \in Entry \cup {NoEntry} /\ 0 \in Nat
        /\ [e \in Entry |-> Blank] \in [Entry -> PBValue] /\ {} \in SUBSET Entry
    BY <1>2 DEF Steps
  <2>2. [step |-> s, entry |-> NoEntry, data |-> Blank, slot |-> 0,
         saved |-> [e \in Entry |-> Blank], left |-> {}] \in
        [step : Steps, entry : Entry \cup {NoEntry}, data : PBValue, slot : Nat,
         saved : [Entry -> PBValue], left : SUBSET Entry]
    BY <1>2, <2>1, CallType, Zenon
  <2> QED
    BY <1>1, <2>2, Zenon
<1>4. call'.step = s
  BY <1>1
<1>5. TypeOK'
  BY <1>3, <1>4 DEF TypeOK
<1>6. CallOK'
  BY <1>4 DEF CallOK
<1> QED
  BY <1>5, <1>6 DEF IInv

\* Where write puts the value, it fits.
LEMMA DecideOK ==
  ASSUME flash' \in [Cells -> PBValue], NEW e \in Entry, ~IsBlank(flash', e),
         NEW d \in PBValue \ {Blank}, call' = Decide(flash', e, d)
  PROVE  IInv'
<1> DEFINE t == Target(flash', e, d)
           s == IF t <= Slots[e] THEN "program" ELSE "save"
<1>0. Slots[e] \in Nat \ {0}
  BY EntriesAssumption
<1>1. call' = [step |-> s, entry |-> e, data |-> d, slot |-> t,
               saved |-> [x \in Entry |-> Blank], left |-> {}]
  BY DEF Decide, NoCall
<1>2. Blank \in PBValue
  BY DEF Blank, PBValue
<1>3. /\ Last(flash', e) \in 1..Slots[e]
      /\ \A j \in Last(flash', e) + 1..Slots[e] : flash'[<<e, j>>] = Blank
  BY LastExists
<1>4. t \in Nat \ {0}
  BY <1>0, <1>3 DEF Target
<1>5. s = "program" => Fits(flash', e, t, d)
  <2> SUFFICES ASSUME t <= Slots[e] PROVE Fits(flash', e, t, d)
    OBVIOUS
  <2>1. t \in 1..Slots[e]
    BY <1>0, <1>4
  <2>2. \A j \in t + 1..Slots[e] : flash'[<<e, j>>] = Blank
    BY <1>0, <1>3 DEF Target
  <2>3. CASE d \subseteq flash'[<<e, Last(flash', e)>>]
    BY <2>1, <2>2, <2>3 DEF Fits, Target
  <2>4. CASE ~(d \subseteq flash'[<<e, Last(flash', e)>>])
    <3>1. t = Last(flash', e) + 1
      BY <2>4 DEF Target
    <3>2. flash'[<<e, t>>] = Blank
      BY <1>0, <1>3, <2>1, <3>1
    <3>3. d \subseteq flash'[<<e, t>>]
      BY <3>2 DEF Blank, PBValue
    <3> QED
      BY <2>1, <2>2, <3>3 DEF Fits
  <2> QED
    BY <2>3, <2>4
<1> HIDE DEF t
<1>6. s = "program" => t \in 1..Slots[e]
  BY <1>0, <1>4
<1>7. TypeOK'
  BY <1>1, <1>2, <1>4, <1>6 DEF TypeOK, Steps
<1>8. CallOK'
  BY <1>1, <1>5 DEF CallOK
<1> QED
  BY <1>7, <1>8 DEF IInv

LEMMA InitInvariant == Init => IInv
<1> SUFFICES ASSUME Init PROVE IInv
  OBVIOUS
<1>1. flash \in [Cells -> PBValue]
  <2>1. PICK v \in Factory : flash = [c \in Cells |-> IF c[2] = 1 THEN v[c[1]] ELSE Blank]
    BY DEF Init
  <2>2. v \in [Entry -> PBValue]
    BY EntriesAssumption
  <2>3. \A c \in Cells : c[1] \in Entry
    BY DEF Cells
  <2> QED
    BY <2>1, <2>2, <2>3 DEF Blank, PBValue
<1>2. Blank \in PBValue
  BY DEF Blank, PBValue
<1>3. TypeOK
  BY <1>1, <1>2 DEF Init, NoCall, TypeOK, Steps
<1>4. CallOK
  BY DEF Init, NoCall, CallOK
<1> QED
  BY <1>3, <1>4 DEF IInv

LEMMA ReadKeeps ==
  ASSUME IInv, NEW e \in Entry, Read(e)
  PROVE  IInv'
<1>0. Default[e] \in PBValue \ {Blank} /\ Slots[e] \in Nat \ {0}
  BY EntriesAssumption
<1>1. flash' = flash /\ flash' \in [Cells -> PBValue] /\ IsBlank(flash', e)
  BY DEF IInv, TypeOK, Read
<1>2. call' = [step |-> "program", entry |-> e, data |-> Default[e], slot |-> 1,
               saved |-> [x \in Entry |-> Blank], left |-> {}]
  BY DEF Read, NoCall
<1>3. Fits(flash', e, 1, Default[e])
  BY <1>0, <1>1, BlankFits
<1>4. Blank \in PBValue
  BY DEF Blank, PBValue
<1>5. TypeOK'
  BY <1>0, <1>1, <1>2, <1>4 DEF TypeOK, Steps
<1>6. CallOK'
  BY <1>0, <1>2, <1>3 DEF CallOK
<1> QED
  BY <1>5, <1>6 DEF IInv

LEMMA BeginWriteKeeps ==
  ASSUME IInv, NEW e \in Entry, NEW d \in Data[e], BeginWrite(e, d)
  PROVE  IInv'
<1>0. d \in PBValue \ {Blank}
  BY EntriesAssumption
<1>1. flash' = flash /\ flash' \in [Cells -> PBValue]
  BY DEF IInv, TypeOK, BeginWrite
<1>2. CASE IsBlank(flash, e)
  <2>1. call' = [step |-> "init", entry |-> e, data |-> d, slot |-> 0,
                 saved |-> [x \in Entry |-> Blank], left |-> {}]
    BY <1>2 DEF BeginWrite, NoCall
  <2>2. Blank \in PBValue
    BY DEF Blank, PBValue
  <2>3. TypeOK'
    BY <1>0, <1>1, <2>1, <2>2 DEF TypeOK, Steps
  <2>4. CallOK'
    BY <1>0, <1>1, <1>2, <2>1 DEF CallOK
  <2> QED
    BY <2>3, <2>4 DEF IInv
<1>3. CASE ~IsBlank(flash, e)
  <2>1. call' = Decide(flash', e, d)
    BY <1>1, <1>3 DEF BeginWrite
  <2> QED
    BY <1>0, <1>1, <1>3, <2>1, DecideOK
<1> QED
  BY <1>2, <1>3

LEMMA InitEntryKeeps ==
  ASSUME IInv, InitEntry
  PROVE  IInv'
<1>1. Programs
  BY DEF InitEntry, Programs
<1>2. PICK i \in Nat, d \in PBValue :
        Pending = Write(call.entry, i, d) /\ Fits(flash, call.entry, i, d)
  BY <1>1, PendingFits DEF InitEntry
<1>3. flash \in [Cells -> PBValue] /\ call.entry \in Entry /\ call.data \in PBValue \ {Blank}
  BY DEF IInv, TypeOK, CallOK, InitEntry
<1>4. flash' \in [Cells -> PBValue] /\ ~IsBlank(flash', call.entry)
  BY <1>2, <1>3, WrittenIsRead DEF InitEntry
<1>5. call' = Decide(flash', call.entry, call.data)
  BY DEF InitEntry
<1> QED
  BY <1>3, <1>4, <1>5, DecideOK

LEMMA ProgramKeeps ==
  ASSUME IInv, Program
  PROVE  IInv'
<1>1. Programs
  BY DEF Program, Programs
<1>2. PICK i \in Nat, d \in PBValue :
        Pending = Write(call.entry, i, d) /\ Fits(flash, call.entry, i, d)
  BY <1>1, PendingFits DEF Program
<1>3. flash \in [Cells -> PBValue] /\ call.entry \in Entry
  BY DEF IInv, TypeOK, Program
<1>4. flash' \in [Cells -> PBValue]
  BY <1>2, <1>3, WrittenIsRead DEF Program
<1>5. call' = [NoCall EXCEPT !.step = "idle"]
  BY DEF Program, NoCall
<1> QED
  BY <1>4, <1>5, NoCallOK

LEMMA InitOtherKeeps ==
  ASSUME IInv, InitOther
  PROVE  IInv'
<1>1. Programs
  BY DEF InitOther, Programs
<1>2. PICK e \in Entry, i \in Nat, d \in PBValue : Pending = Write(e, i, d) /\ Fits(flash, e, i, d)
  BY <1>1, PendingFits
<1>3. flash \in [Cells -> PBValue]
  BY DEF IInv, TypeOK
<1>4. flash' \in [Cells -> PBValue]
  BY <1>2, <1>3, WrittenIsRead DEF InitOther
<1>5. call' = call /\ call.step = "save"
  BY DEF InitOther
<1>6. TypeOK'
  BY <1>4, <1>5 DEF IInv, TypeOK
<1>7. CallOK'
  BY <1>5 DEF IInv, CallOK
<1> QED
  BY <1>6, <1>7 DEF IInv

LEMMA SaveKeeps ==
  ASSUME IInv, Save
  PROVE  IInv'
<1> DEFINE saved == [e \in Entry |-> ValueOf(flash, e)]
<1>1. /\ flash' = flash /\ flash \in [Cells -> PBValue]
      /\ call.entry \in Entry /\ call.data # Blank
  BY DEF IInv, TypeOK, CallOK, Save
<1>2. saved \in [Entry -> PBValue] /\ \A e \in Entry : saved[e] # Blank
  BY <1>1, ValueType
<1>3. \A e \in Entry : saved[e] = ValueOf(flash', e)
  BY <1>1
<1>4. call' = [call EXCEPT !.step = "erase", !.saved = saved]
  BY DEF Save
<1> HIDE DEF saved
<1>5. TypeOK'
  BY <1>1, <1>2, <1>4 DEF IInv, TypeOK, Steps
<1>6. call'.step = "erase" /\ call'.saved = saved /\ call'.data = call.data
  BY <1>4 DEF IInv, TypeOK
<1>7. CallOK'
  BY <1>1, <1>2, <1>3, <1>6 DEF CallOK, MovedTo
<1> QED
  BY <1>5, <1>7 DEF IInv

LEMMA EraseKeeps ==
  ASSUME IInv, Erase
  PROVE  IInv'
<1> DEFINE left == Entry \ {call.entry}
<1>1. call.entry \in Entry /\ call.data # Blank /\ \A e \in Entry : call.saved[e] # Blank
  BY DEF IInv, TypeOK, CallOK, Erase
<1>2. flash' \in [Cells -> PBValue] /\ \A e \in Entry : IsBlank(flash', e)
  <2>1. flash' = [c \in Cells |-> Blank] /\ Blank \in PBValue
    BY DEF Erase, Blank, PBValue
  <2>2. \A e \in Entry : IsBlank(flash', e)
    BY <2>1, CellsAre DEF IsBlank
  <2> QED
    BY <2>1, <2>2
<1>3. call' = [call EXCEPT !.step = IF left = {} THEN "final" ELSE "rewrite", !.left = left]
  BY DEF Erase, NextRewrite
<1>4. TypeOK'
  BY <1>1, <1>2, <1>3 DEF IInv, TypeOK, Steps
<1>5. /\ call'.step = IF left = {} THEN "final" ELSE "rewrite"
      /\ call'.left = left /\ call'.data = call.data /\ call'.saved = call.saved
      /\ call'.entry = call.entry
  BY <1>3 DEF IInv, TypeOK
<1>6. left # {} => left \cup {call.entry} = Entry
  BY <1>1
<1>7. left = {} => Entry = {call.entry}
  BY <1>1
<1>8. CallOK'
  BY <1>1, <1>2, <1>5, <1>6, <1>7 DEF CallOK, MovedTo, AllBlank
<1> QED
  BY <1>4, <1>8 DEF IInv

LEMMA RewriteKeeps ==
  ASSUME IInv, Rewrite
  PROVE  IInv'
<1>1. Programs
  BY DEF Rewrite, Programs
<1>2. PICK o \in Entry, i \in Nat, d \in PBValue :
        /\ o = NextOf(call.left) /\ o \in call.left /\ d = call.saved[o]
        /\ Pending = Write(o, i, d) /\ Fits(flash, o, i, d)
  BY <1>1, PendingFits DEF Rewrite
<1> DEFINE left == call.left \ {o}
<1>3. /\ flash \in [Cells -> PBValue] /\ call.entry \in Entry /\ call.data # Blank
      /\ call.left \subseteq Entry \ {call.entry} /\ \A e \in Entry : call.saved[e] # Blank
      /\ AllBlank(call.left \cup {call.entry}) /\ MovedTo(call.left \cup {call.entry})
  BY DEF IInv, TypeOK, CallOK, Rewrite
<1>4. o \in Entry \ {call.entry}
  BY <1>2, <1>3
<1>5. flash' \in [Cells -> PBValue] /\ flash' = Put(flash, o, i, d) /\ ValueOf(flash', o) = d
  <2>1. flash' = Programmed(flash, Write(o, i, d))
    BY <1>2 DEF Rewrite
  <2>2. Fits(flash, o, i, d)
    BY <1>2
  <2>3. flash \in [Cells -> PBValue]
    BY <1>3
  <2> QED
    BY <2>1, <2>2, <2>3, WrittenIsRead
<1>6. i \in 1..Slots[o] /\ d \in PBValue
  BY <1>2 DEF Fits
<1>7. ASSUME NEW e \in Entry \ {o}
      PROVE  (IsBlank(flash', e) <=> IsBlank(flash, e)) /\ ValueOf(flash', e) = ValueOf(flash, e)
  <2>1. flash' = Put(flash, o, i, d)
    BY <1>5
  <2>2. flash \in [Cells -> PBValue]
    BY <1>3
  <2> QED
    BY <1>6, <2>1, <2>2, OtherRows
<1>8. \A e \in left \cup {call.entry} : IsBlank(flash', e)
  BY <1>3, <1>4, <1>7 DEF AllBlank
<1>9. \A e \in Entry \ (left \cup {call.entry}) : ValueOf(flash', e) = call.saved[e]
  BY <1>2, <1>3, <1>5, <1>7 DEF MovedTo
<1>10. call' = [call EXCEPT !.step = IF left = {} THEN "final" ELSE "rewrite", !.left = left]
  BY <1>2 DEF Rewrite, NextRewrite
<1>11. left \subseteq Entry \ {call.entry}
  BY <1>3
<1> HIDE DEF left
<1>12. /\ call'.step = IF left = {} THEN "final" ELSE "rewrite"
       /\ call'.left = left /\ call'.data = call.data /\ call'.saved = call.saved
       /\ call'.entry = call.entry
  BY <1>10 DEF IInv, TypeOK
<1>13. TypeOK'
  BY <1>3, <1>5, <1>10, <1>11 DEF IInv, TypeOK, Steps
<1>14. left = {} => left \cup {call.entry} = {call.entry}
  OBVIOUS
<1>15. CallOK'
  BY <1>3, <1>8, <1>9, <1>11, <1>12, <1>14 DEF CallOK, MovedTo, AllBlank
<1> QED
  BY <1>13, <1>15 DEF IInv

LEMMA ResetKeeps ==
  ASSUME IInv, Reset
  PROVE  IInv'
<1>1. flash \in [Cells -> PBValue]
  BY DEF IInv, TypeOK
<1>2. flash' \in [Cells -> PBValue]
  <2>1. CASE ~Programs /\ UNCHANGED flash
    BY <1>1, <2>1
  <2>2. ASSUME Programs,
               NEW v \in Between(flash[Pending.cell] \cap Pending.data, flash[Pending.cell]),
               flash' = [flash EXCEPT ![Pending.cell] = v]
        PROVE  flash' \in [Cells -> PBValue]
    <3>1. PICK e \in Entry, i \in Nat, d \in PBValue : Pending = Write(e, i, d) /\ Fits(flash, e, i, d)
      BY <2>2, PendingFits
    <3>2. Pending.cell = <<e, i>> /\ Pending.data = d
      BY <3>1 DEF Write
    <3>3. v \in Between(flash[<<e, i>>] \cap d, flash[<<e, i>>])
      BY <2>2, <3>2
    <3>4. flash' = Put(flash, e, i, v)
      BY <2>2, <3>2 DEF Put
    <3> QED
      BY <1>1, <3>1, <3>3, <3>4, TornIsRead
  <2>3. CASE call.step = "erase" /\ flash' \in [Cells -> PBValue]
    BY <2>3
  <2> QED
    BY <2>1, <2>2, <2>3 DEF Reset
<1>3. call' = [NoCall EXCEPT !.step = "off"]
  BY DEF Reset
<1> QED
  BY <1>2, <1>3, NoCallOK

LEMMA RestartKeeps ==
  ASSUME IInv, Restart
  PROVE  IInv'
<1>1. flash' \in [Cells -> PBValue]
  BY DEF IInv, TypeOK, Restart
<1>2. call' = [NoCall EXCEPT !.step = "idle"]
  BY DEF Restart, NoCall
<1> QED
  BY <1>1, <1>2, NoCallOK

LEMMA StepKeeps == IInv /\ [Next]_vars => IInv'
<1> SUFFICES ASSUME IInv, [Next]_vars PROVE IInv'
  OBVIOUS
<1>1. ASSUME NEW e \in Entry, Read(e) PROVE IInv'
  BY <1>1, ReadKeeps
<1>2. ASSUME NEW e \in Entry, NEW d \in Data[e], BeginWrite(e, d) PROVE IInv'
  BY <1>2, BeginWriteKeeps
<1>3. CASE InitEntry
  BY <1>3, InitEntryKeeps
<1>4. CASE InitOther
  BY <1>4, InitOtherKeeps
<1>5. CASE Save
  BY <1>5, SaveKeeps
<1>6. CASE Erase
  BY <1>6, EraseKeeps
<1>7. CASE Rewrite
  BY <1>7, RewriteKeeps
<1>8. CASE Program
  BY <1>8, ProgramKeeps
<1>9. CASE Reset
  BY <1>9, ResetKeeps
<1>10. CASE Restart
  BY <1>10, RestartKeeps
<1>11. CASE UNCHANGED vars
  <2>1. flash' = flash /\ call' = call
    BY <1>11 DEF vars
  <2>2. TypeOK'
    BY <2>1 DEF IInv, TypeOK
  <2>3. CallOK'
    BY <2>1 DEF IInv, CallOK, MovedTo, AllBlank
  <2> QED
    BY <2>2, <2>3 DEF IInv
<1> QED
  BY <1>1, <1>2, <1>3, <1>4, <1>5, <1>6, <1>7, <1>8, <1>9, <1>10, <1>11 DEF Next

-----------------------------------------------------------------------------

\* The invariant holds in every state: every step of a call finds the rows as
\* the steps before it left them, whatever resets happened.
THEOREM BytesInvariance == Spec => []IInv
  BY InitInvariant, StepKeeps, PTL DEF Spec

\* The flash memory and the call under way are well formed.
THEOREM TypeCorrect == Spec => []TypeOK
<1>1. IInv => TypeOK
  BY DEF IInv
<1> QED
  BY <1>1, BytesInvariance, PTL

\* Every write done by write and initEntry (persisting_bytes.cpp) only clears
\* bits and is what the next read returns, for any number of slots and of
\* entries: the rewrites after an erase included.
THEOREM WritesTake == Spec => []WriteTakes
  BY BytesInvariance, WriteTakesHolds, PTL

-----------------------------------------------------------------------------
(* The registers *)

MappedRegister == [e \in Entry |-> RegisterOf(e)]
Writing(e, d, m) == [entry |-> e, data |-> d, moving |-> m]

LEMMA WritingIsWrite ==
  ASSUME NEW e \in Entry, NEW d \in PBValue, NEW m \in BOOLEAN
  PROVE  /\ Writing(e, d, m) \in Registers!Writes
         /\ Writing(e, d, m) # NoWrite /\ Writing(e, d, m) # Off
         /\ Writing(e, d, m).entry = e /\ Writing(e, d, m).data = d /\ Writing(e, d, m).moving = m
<1>1. Writing(e, d, m) \in [entry : Entry, data : PBValue, moving : BOOLEAN]
  BY DEF Writing
<1>2. Writing(e, d, m) # NoWrite /\ Writing(e, d, m) # Off
  BY <1>1, EntriesAssumption
<1>3. Writing(e, d, m) \in Registers!Writes
  BY <1>1 DEF Registers!Writes, PBValue
<1> QED
  BY <1>2, <1>3 DEF Writing

LEMMA NoWriteIsNone == NoWrite # Off /\ NoWrite \notin Registers!Writes /\ Off \notin Registers!Writes
  BY EntriesAssumption DEF Registers!Writes, PBValue

\* The write that the steps of a call are doing.
LEMMA StillWriting ==
  ASSUME Moving <=> FALSE
  PROVE  \A e, d : WritingOf(e, d) = Writing(e, d, FALSE)
  BY Zenon DEF WritingOf, Writing

LEMMA WritingIs ==
  ASSUME IInv
  PROVE  /\ call.step = "off" => WritingNow = Off
         /\ call.step = "idle" => WritingNow = NoWrite
         /\ call.step = "init" => WritingNow = Writing(call.entry, Default[call.entry], FALSE)
         /\ call.step = "program" => WritingNow = Writing(call.entry, call.data, FALSE)
         /\ call.step = "save" /\ BlankOthers = {} => WritingNow = Writing(call.entry, call.data, FALSE)
         /\ call.step = "save" /\ BlankOthers # {} =>
              WritingNow = Writing(NextOf(BlankOthers), Default[NextOf(BlankOthers)], FALSE)
         /\ call.step \in {"erase", "rewrite", "final"} => WritingNow = Writing(call.entry, call.data, TRUE)
<1>0. call.step \in {"init", "program", "save"} => (Moving <=> FALSE)
  BY DEF Moving
<1>1. call.step = "off" => WritingNow = Off
  BY DEF WritingNow
<1>2. call.step = "idle" => WritingNow = NoWrite
  BY DEF WritingNow
<1>3. call.step = "init" => WritingNow = Writing(call.entry, Default[call.entry], FALSE)
  BY <1>0, StillWriting DEF WritingNow
<1>4. call.step = "program" => WritingNow = Writing(call.entry, call.data, FALSE)
  BY <1>0, StillWriting DEF WritingNow
<1>5. call.step = "save" /\ BlankOthers = {} => WritingNow = Writing(call.entry, call.data, FALSE)
  BY <1>0, StillWriting DEF WritingNow
<1>6. call.step = "save" /\ BlankOthers # {} =>
        WritingNow = Writing(NextOf(BlankOthers), Default[NextOf(BlankOthers)], FALSE)
  BY <1>0, StillWriting DEF WritingNow
<1>7. call.step \in {"erase", "rewrite", "final"} => WritingNow = Writing(call.entry, call.data, TRUE)
  BY DEF WritingNow, WritingOf, Writing, Moving
<1> QED
  BY <1>1, <1>2, <1>3, <1>4, <1>5, <1>6, <1>7

\* A write that has just begun.
LEMMA WritingStarted ==
  ASSUME IInv', call'.step \in {"init", "program", "save"}
  PROVE  \E e \in Entry, d \in PBValue : WritingNow' = Writing(e, d, FALSE)
<1>0. call'.entry \in Entry /\ call'.data \in PBValue /\ Default \in [Entry -> PBValue]
  BY EntriesAssumption DEF IInv, TypeOK
<1>1. \A e, d : WritingOf(e, d)' = Writing(e, d, FALSE)
  <2>1. Moving' <=> FALSE
    BY DEF Moving
  <2> QED
    BY <2>1, Zenon DEF WritingOf, Writing
<1>2. CASE call'.step = "init"
  <2>1. WritingNow' = Writing(call'.entry, Default[call'.entry], FALSE)
    BY <1>1, <1>2 DEF WritingNow
  <2> QED
    BY <1>0, <2>1
<1>3. CASE call'.step = "program" \/ (call'.step = "save" /\ BlankOthers' = {})
  <2>1. WritingNow' = Writing(call'.entry, call'.data, FALSE)
    BY <1>1, <1>3 DEF WritingNow
  <2> QED
    BY <1>0, <2>1
<1>4. CASE call'.step = "save" /\ BlankOthers' # {}
  <2>1. WritingNow' = Writing(NextOf(BlankOthers'), Default[NextOf(BlankOthers')], FALSE)
    BY <1>1, <1>4 DEF WritingNow
  <2>2. NextOf(BlankOthers') \in BlankOthers'
    BY <1>4 DEF NextOf
  <2>3. NextOf(BlankOthers') \in Entry
    BY <2>2 DEF BlankOthers
  <2> QED
    BY <1>0, <2>1, <2>3
<1> QED
  BY <1>2, <1>3, <1>4

LEMMA StartMaps ==
  ASSUME IInv', call'.step \in {"init", "program", "save"},
         \/ WritingNow = NoWrite /\ MappedRegister' = MappedRegister
         \/ \E o \in Entry, b \in PBValue :
              WritingNow = Writing(o, b, FALSE) /\ MappedRegister' = [MappedRegister EXCEPT ![o] = b]
  PROVE  Registers!RegistersNext
<1>1. PICK e \in Entry, d \in PBValue : WritingNow' = Writing(e, d, FALSE)
  BY WritingStarted
<1>2. CASE WritingNow = NoWrite /\ MappedRegister' = MappedRegister
  <2>1. Registers!Start(e, d)
    BY <1>1, <1>2, NoWriteIsNone DEF Registers!Start, Registers!Completed, MappedRegister, Writing
  <2> QED
    BY <2>1 DEF Registers!RegistersNext, PBValue
<1>3. ASSUME NEW o \in Entry, NEW b \in PBValue,
             WritingNow = Writing(o, b, FALSE), MappedRegister' = [MappedRegister EXCEPT ![o] = b]
      PROVE  Registers!RegistersNext
  <2>1. /\ WritingNow \in Registers!Writes /\ WritingNow # Off /\ ~WritingNow.moving
        /\ WritingNow.entry = o /\ WritingNow.data = b
    BY <1>3, WritingIsWrite
  <2>2. Registers!Start(e, d)
    BY <1>1, <1>3, <2>1 DEF Registers!Start, Registers!Completed, MappedRegister, Writing
  <2> QED
    BY <2>2 DEF Registers!RegistersNext, PBValue
<1> QED
  BY <1>2, <1>3

LEMMA InitMaps == Init => Registers!RegistersInit
<1> SUFFICES ASSUME Init PROVE Registers!RegistersInit
  OBVIOUS
<1>1. IInv /\ call.step = "idle"
  BY InitInvariant DEF Init, NoCall
<1>2. WritingNow = NoWrite
  BY <1>1, WritingIs
<1>3. \A e \in Entry : RegisterOf(e) \in SUBSET Bit
  <2>1. ~Moving /\ flash \in [Cells -> PBValue]
    BY <1>1 DEF Moving, IInv, TypeOK
  <2> QED
    BY <2>1, ValueType DEF RegisterOf, PBValue
<1> QED
  BY <1>2, <1>3 DEF Registers!RegistersInit

\* A step that changes no row.
LEMMA SameRegisters ==
  ASSUME ~Moving, ~Moving', \A e \in Entry : ValueOf(flash', e) = ValueOf(flash, e)
  PROVE  MappedRegister' = MappedRegister
<1>1. \A e \in Entry : RegisterOf(e)' = RegisterOf(e)
  BY DEF RegisterOf
<1> QED
  BY <1>1 DEF MappedRegister

LEMMA ReadMaps ==
  ASSUME IInv, IInv', NEW e \in Entry, Read(e)
  PROVE  Registers!RegistersNext
<1>1. flash' = flash /\ call.step = "idle" /\ call'.step = "program"
  BY DEF Read, NoCall
<1>2. MappedRegister' = MappedRegister
  BY <1>1, SameRegisters DEF Moving
<1> QED
  BY <1>1, <1>2, WritingIs, StartMaps

LEMMA BeginWriteMaps ==
  ASSUME IInv, IInv', NEW e \in Entry, NEW d \in Data[e], BeginWrite(e, d)
  PROVE  Registers!RegistersNext
<1>1. flash' = flash /\ call.step = "idle" /\ call'.step \in {"init", "program", "save"}
  BY DEF BeginWrite, Decide, NoCall
<1>2. MappedRegister' = MappedRegister
  BY <1>1, SameRegisters DEF Moving
<1> QED
  BY <1>1, <1>2, WritingIs, StartMaps

\* A write puts its value in its register and leaves the others alone.
LEMMA WrittenRegisters ==
  ASSUME flash \in [Cells -> PBValue], NEW o \in Entry, NEW i \in Nat, NEW d \in PBValue,
         Fits(flash, o, i, d), flash' = Programmed(flash, Write(o, i, d)), NEW e \in Entry
  PROVE  ValueOf(flash', e) = IF e = o THEN d ELSE ValueOf(flash, e)
<1>1. flash' = Put(flash, o, i, d) /\ ValueOf(flash', o) = d
  BY WrittenIsRead
<1>2. i \in 1..Slots[o]
  BY DEF Fits
<1>3. e # o => ValueOf(flash', e) = ValueOf(flash, e)
  BY <1>1, <1>2, OtherRows
<1> QED
  BY <1>1, <1>3

LEMMA InitEntryMaps ==
  ASSUME IInv, IInv', InitEntry
  PROVE  Registers!RegistersNext
<1>1. /\ call.step = "init" /\ call'.step \in {"program", "save"}
      /\ call.entry \in Entry /\ flash \in [Cells -> PBValue] /\ IsBlank(flash, call.entry)
  BY DEF InitEntry, Decide, NoCall, IInv, TypeOK, CallOK
<1>2. PICK i \in Nat, d \in PBValue :
        /\ Pending = Write(call.entry, i, d) /\ Fits(flash, call.entry, i, d)
        /\ d = Default[call.entry]
  BY <1>1, PendingFits DEF Programs
<1>3. flash' = Programmed(flash, Write(call.entry, i, d))
  BY <1>2 DEF InitEntry
<1>4. \A e \in Entry : ValueOf(flash', e) = IF e = call.entry THEN d ELSE ValueOf(flash, e)
  BY <1>1, <1>2, <1>3, WrittenRegisters
<1>5. ValueOf(flash, call.entry) = d
  BY <1>1, <1>2 DEF ValueOf
<1>6. MappedRegister' = MappedRegister
  BY <1>1, <1>4, <1>5, SameRegisters DEF Moving
<1>7. MappedRegister[call.entry] = d
  BY <1>1, <1>5 DEF MappedRegister, RegisterOf, Moving
<1>8. MappedRegister' = [MappedRegister EXCEPT ![call.entry] = d]
  BY <1>6, <1>7 DEF MappedRegister
<1>9. WritingNow = Writing(call.entry, d, FALSE)
  BY <1>1, <1>2, WritingIs
<1> QED
  BY <1>1, <1>8, <1>9, StartMaps

LEMMA InitOtherMaps ==
  ASSUME IInv, IInv', InitOther
  PROVE  Registers!RegistersNext
<1>1. /\ call.step = "save" /\ call'.step = "save" /\ BlankOthers # {}
      /\ flash \in [Cells -> PBValue]
  BY DEF InitOther, IInv, TypeOK
<1>2. PICK o \in Entry, i \in Nat, d \in PBValue :
        /\ Pending = Write(o, i, d) /\ Fits(flash, o, i, d)
        /\ o = NextOf(BlankOthers) /\ o \in BlankOthers /\ d = Default[o]
  BY <1>1, PendingFits DEF Programs
<1>3. flash' = Programmed(flash, Write(o, i, d))
  BY <1>2 DEF InitOther
<1>4. \A e \in Entry : ValueOf(flash', e) = IF e = o THEN d ELSE ValueOf(flash, e)
  BY <1>1, <1>2, <1>3, WrittenRegisters
<1>5. ValueOf(flash, o) = d
  BY <1>2 DEF ValueOf, BlankOthers
<1>6. MappedRegister' = MappedRegister
  BY <1>1, <1>4, <1>5, SameRegisters DEF Moving
<1>7. MappedRegister[o] = d
  BY <1>1, <1>5 DEF MappedRegister, RegisterOf, Moving
<1>8. MappedRegister' = [MappedRegister EXCEPT ![o] = d]
  BY <1>6, <1>7 DEF MappedRegister
<1>9. WritingNow = Writing(o, d, FALSE)
  BY <1>1, <1>2, WritingIs
<1> QED
  BY <1>1, <1>8, <1>9, StartMaps

LEMMA SaveMaps ==
  ASSUME IInv, IInv', Save
  PROVE  Registers!RegistersNext
<1>1. /\ call.step = "save" /\ BlankOthers = {} /\ flash' = flash
      /\ call.entry \in Entry /\ call.data \in PBValue
  BY DEF Save, IInv, TypeOK
<1>2. /\ call'.step = "erase" /\ call'.entry = call.entry /\ call'.data = call.data
      /\ call'.saved = [e \in Entry |-> ValueOf(flash, e)]
  BY DEF Save, IInv, TypeOK
<1>3. WritingNow = Writing(call.entry, call.data, FALSE)
  BY <1>1, WritingIs
<1>4. WritingNow' = Writing(call.entry, call.data, TRUE)
  BY <1>2 DEF WritingNow, WritingOf, Writing, Moving
<1>5. \A e \in Entry : RegisterOf(e) = ValueOf(flash, e)
  BY <1>1 DEF RegisterOf, Moving
<1>6. \A e \in Entry : RegisterOf(e)' = IF e = call.entry THEN call.data ELSE ValueOf(flash, e)
  BY <1>2 DEF RegisterOf, Moving
<1>7. MappedRegister' = [MappedRegister EXCEPT ![call.entry] = call.data]
  BY <1>1, <1>5, <1>6 DEF MappedRegister
<1>8. WritingNow \in Registers!Writes /\ WritingNow.entry = call.entry /\ WritingNow.data = call.data
  BY <1>1, <1>3, WritingIsWrite
<1>9. WritingNow' = [entry |-> WritingNow.entry, data |-> WritingNow.data, moving |-> TRUE]
  BY <1>4, <1>8 DEF Writing
<1>10. Registers!Move
  BY <1>7, <1>8, <1>9 DEF Registers!Move, Registers!Completed, MappedRegister
<1> QED
  BY <1>10 DEF Registers!RegistersNext

\* Erasing and writing back change no register.
LEMMA MovingMaps ==
  ASSUME IInv, IInv', Erase \/ Rewrite
  PROVE  UNCHANGED Registers!registerVars
<1>1. /\ call.step \in {"erase", "rewrite"} /\ call'.step \in {"rewrite", "final"}
      /\ call'.entry = call.entry /\ call'.data = call.data /\ call'.saved = call.saved
  BY DEF Erase, Rewrite, NextRewrite, IInv, TypeOK
<1>2. WritingNow = Writing(call.entry, call.data, TRUE)
  BY <1>1, WritingIs
<1>3. WritingNow' = Writing(call.entry, call.data, TRUE)
  BY <1>1 DEF WritingNow, WritingOf, Writing, Moving
<1>4. \A e \in Entry : RegisterOf(e)' = RegisterOf(e)
  BY <1>1 DEF RegisterOf, Moving
<1> QED
  BY <1>2, <1>3, <1>4 DEF Registers!registerVars

LEMMA ProgramMaps ==
  ASSUME IInv, IInv', Program
  PROVE  Registers!RegistersNext
<1>1. /\ call.step \in {"program", "final"} /\ call'.step = "idle"
      /\ call.entry \in Entry /\ call.data \in PBValue /\ flash \in [Cells -> PBValue]
  BY DEF Program, NoCall, IInv, TypeOK
<1>2. PICK i \in Nat, d \in PBValue :
        /\ Pending = Write(call.entry, i, d) /\ Fits(flash, call.entry, i, d)
        /\ d = call.data
  BY <1>1, PendingFits DEF Programs
<1>3. flash' = Programmed(flash, Write(call.entry, i, d))
  BY <1>2 DEF Program
<1>4. \A e \in Entry : ValueOf(flash', e) = IF e = call.entry THEN d ELSE ValueOf(flash, e)
  BY <1>1, <1>2, <1>3, WrittenRegisters
<1>5. \A e \in Entry : RegisterOf(e)' = ValueOf(flash', e)
  BY <1>1 DEF RegisterOf, Moving
<1>6. \A e \in Entry \ {call.entry} : RegisterOf(e) = ValueOf(flash, e)
  <2>1. CASE call.step = "program"
    BY <2>1 DEF RegisterOf, Moving
  <2>2. CASE call.step = "final"
    BY <2>2 DEF RegisterOf, Moving, IInv, CallOK, MovedTo
  <2> QED
    BY <1>1, <2>1, <2>2
<1>7. MappedRegister' = [MappedRegister EXCEPT ![call.entry] = call.data]
  BY <1>1, <1>2, <1>4, <1>5, <1>6 DEF MappedRegister
<1>8. PICK m \in BOOLEAN : WritingNow = Writing(call.entry, call.data, m)
  BY <1>1, WritingIs
<1>9. WritingNow \in Registers!Writes /\ WritingNow.entry = call.entry /\ WritingNow.data = call.data
  BY <1>1, <1>8, WritingIsWrite
<1>10. WritingNow' = NoWrite
  BY <1>1 DEF WritingNow
<1>11. Registers!Finish
  BY <1>7, <1>9, <1>10 DEF Registers!Finish, Registers!Completed, MappedRegister
<1> QED
  BY <1>11 DEF Registers!RegistersNext

LEMMA RestartMaps ==
  ASSUME IInv, IInv', Restart
  PROVE  Registers!RegistersNext
<1>1. call.step = "off" /\ call'.step = "idle" /\ flash' = flash
  BY DEF Restart, NoCall
<1>2. MappedRegister' = MappedRegister
  BY <1>1, SameRegisters DEF Moving
<1>3. WritingNow = Off /\ WritingNow' = NoWrite
  BY <1>1 DEF WritingNow
<1>4. Registers!Restart
  BY <1>2, <1>3 DEF Registers!Restart, MappedRegister
<1> QED
  BY <1>4 DEF Registers!RegistersNext

LEMMA ResetMaps ==
  ASSUME IInv, IInv', Reset
  PROVE  Registers!RegistersNext
<1>1. call.step # "off" /\ call'.step = "off" /\ WritingNow' = Off
  BY DEF Reset, NoCall, WritingNow
<1>2. flash \in [Cells -> PBValue] /\ flash' \in [Cells -> PBValue]
  BY DEF IInv, TypeOK
<1>3. \A e \in Entry : RegisterOf(e)' = ValueOf(flash', e)
  BY <1>1 DEF RegisterOf, Moving
<1> SUFFICES Registers!Reset
  BY DEF Registers!RegistersNext
<1>4. CASE call.step \in {"erase", "rewrite", "final"}
  <2>1. \A e \in Entry : RegisterOf(e)' \in SUBSET Bit
    BY <1>2, <1>3, ValueType DEF PBValue
  <2>2. MappedRegister' \in [Entry -> SUBSET Bit]
    BY <2>1 DEF MappedRegister
  <2>3. call.entry \in Entry /\ call.data \in PBValue
    BY <1>4 DEF IInv, TypeOK
  <2>4. WritingNow \in Registers!Writes /\ WritingNow.moving
    <3>1. WritingNow = Writing(call.entry, call.data, TRUE)
      BY <1>4, WritingIs
    <3>2. WritingNow \in Registers!Writes /\ WritingNow.moving = TRUE
      BY <2>3, <3>1, WritingIsWrite
    <3> QED
      BY <3>2, Zenon
  <2> QED
    BY <1>1, <2>2, <2>4 DEF Registers!Reset, MappedRegister
<1>5. CASE call.step = "idle"
  <2>1. flash' = flash
    BY <1>5 DEF Reset, Programs
  <2>2. MappedRegister' = MappedRegister
    BY <1>1, <1>5, <2>1, SameRegisters DEF Moving
  <2>3. WritingNow = NoWrite
    BY <1>5, WritingIs
  <2> QED
    BY <1>1, <2>2, <2>3 DEF Registers!Reset, MappedRegister
<1>6. CASE call.step \in {"init", "program", "save"}
  <2> DEFINE e0 == IF call.step = "save" /\ BlankOthers # {} THEN NextOf(BlankOthers) ELSE call.entry
             d0 == IF call.step = "program" \/ (call.step = "save" /\ BlankOthers = {})
                   THEN call.data ELSE Default[e0]
  <2>1. e0 \in Entry /\ d0 \in PBValue /\ WritingNow = Writing(e0, d0, FALSE)
    <3>1. call.entry \in Entry /\ call.data \in PBValue /\ Default \in [Entry -> PBValue]
      BY <1>6, EntriesAssumption DEF IInv, TypeOK
    <3>2. BlankOthers # {} => NextOf(BlankOthers) \in Entry
      <4>1. BlankOthers # {} => NextOf(BlankOthers) \in BlankOthers
        BY DEF NextOf
      <4> QED
        BY <4>1 DEF BlankOthers
    <3> QED
      BY <1>6, <3>1, <3>2, WritingIs
  <2>2. \A e \in Entry : RegisterOf(e) = ValueOf(flash, e)
    BY <1>6 DEF RegisterOf, Moving
  <2>3. /\ \A e \in Entry \ {e0} : ValueOf(flash', e) = ValueOf(flash, e)
        /\ ValueOf(flash', e0) = ValueOf(flash, e0) \/ d0 \subseteq ValueOf(flash', e0)
    <3>1. CASE ~Programs
      <4>1. flash' = flash
        BY <1>6, <3>1 DEF Reset
      <4> QED
        BY <4>1
    <3>2. CASE Programs
      <4>1. PICK i \in Nat : Pending = Write(e0, i, d0) /\ Fits(flash, e0, i, d0)
        BY <1>6, <3>2, PendingFits DEF Programs
      <4>2. Pending.cell = <<e0, i>> /\ Pending.data = d0
        BY <4>1 DEF Write
      <4>3. PICK v \in Between(flash[<<e0, i>>] \cap d0, flash[<<e0, i>>]) :
              flash' = [flash EXCEPT ![<<e0, i>>] = v]
        BY <1>6, <3>2, <4>2 DEF Reset
      <4> HIDE DEF e0, d0
      <4>4. flash' = Put(flash, e0, i, v)
        BY <4>3 DEF Put
      <4>5. ValueOf(flash', e0) = ValueOf(flash, e0) \/ d0 \subseteq ValueOf(flash', e0)
        BY <1>2, <2>1, <4>1, <4>3, <4>4, TornIsRead
      <4>6. i \in 1..Slots[e0] /\ v \in PBValue
        <5>1. i \in 1..Slots[e0] 
          BY <4>1 DEF Fits
        <5>2. flash[<<e0, i>>] \in PBValue
          BY <1>2, <2>1, <5>1, CellsAre
        <5> QED
          BY <4>3, <5>1, <5>2 DEF Between, PBValue
      <4>7. \A e \in Entry \ {e0} : ValueOf(flash', e) = ValueOf(flash, e)
        BY <1>2, <2>1, <4>4, <4>6, OtherRows
      <4> QED
        BY <4>5, <4>7
    <3> QED
      BY <3>1, <3>2
  <2> HIDE DEF e0, d0
  <2>4. MappedRegister' = [MappedRegister EXCEPT ![e0] = ValueOf(flash', e0)]
    BY <1>3, <2>1, <2>2, <2>3 DEF MappedRegister
  <2>5. ValueOf(flash', e0) \in SUBSET Bit
    BY <1>2, <2>1, ValueType DEF PBValue
  <2>6. /\ WritingNow \in Registers!Writes /\ ~WritingNow.moving
        /\ WritingNow.entry = e0 /\ WritingNow.data = d0
    BY <2>1, WritingIsWrite
  <2>7. MappedRegister[e0] = ValueOf(flash, e0)
    BY <2>1, <2>2 DEF MappedRegister
  <2> QED
    BY <1>1, <2>3, <2>4, <2>5, <2>6, <2>7 DEF Registers!Reset, MappedRegister
<1> QED
  BY <1>1, <1>4, <1>5, <1>6 DEF IInv, TypeOK, Steps

LEMMA StepMaps ==
  IInv /\ IInv' /\ [Next]_vars => [Registers!RegistersNext]_Registers!registerVars
<1> SUFFICES ASSUME IInv, IInv', [Next]_vars
             PROVE  Registers!RegistersNext \/ UNCHANGED Registers!registerVars
  OBVIOUS
<1>1. ASSUME NEW e \in Entry, Read(e) PROVE Registers!RegistersNext
  BY <1>1, ReadMaps
<1>2. ASSUME NEW e \in Entry, NEW d \in Data[e], BeginWrite(e, d) PROVE Registers!RegistersNext
  BY <1>2, BeginWriteMaps
<1>3. CASE InitEntry
  BY <1>3, InitEntryMaps
<1>4. CASE InitOther
  BY <1>4, InitOtherMaps
<1>5. CASE Save
  BY <1>5, SaveMaps
<1>6. CASE Erase \/ Rewrite
  BY <1>6, MovingMaps
<1>7. CASE Program
  BY <1>7, ProgramMaps
<1>8. CASE Reset
  BY <1>8, ResetMaps
<1>9. CASE Restart
  BY <1>9, RestartMaps
<1>10. CASE UNCHANGED vars
  <2>1. flash' = flash /\ call' = call
    BY <1>10 DEF vars
  <2>2. \A e \in Entry : RegisterOf(e)' = RegisterOf(e)
    BY <2>1 DEF RegisterOf, Moving
  <2>3. WritingNow' = WritingNow
    BY <2>1 DEF WritingNow, WritingOf, Moving, BlankOthers
  <2> QED
    BY <2>2, <2>3 DEF Registers!registerVars
<1> QED
  BY <1>1, <1>2, <1>3, <1>4, <1>5, <1>6, <1>7, <1>8, <1>9, <1>10 DEF Next

\* The persisting bytes (write, read and initEntry of persisting_bytes.cpp) are
\* registers: a write that returns is read back and touches no other entry, and
\* a reset before that leaves the old value, or one with the bits of the new,
\* in that entry alone - unless the sector is being moved.
THEOREM BytesAreRegisters == Spec => ImplementsPersistentRegisters
  BY InitMaps, StepMaps, BytesInvariance, PTL
  DEF Spec, ImplementsPersistentRegisters, Registers!RegistersSpec

=============================================================================
