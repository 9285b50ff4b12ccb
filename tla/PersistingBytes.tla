-------------------------- MODULE PersistingBytes --------------------------
(***************************************************************************)
(* The values that outlive a reset of the calculator                       *)
(* (shared/ion/src/device/userland/drivers/persisting_bytes.cpp): the      *)
(* device name and the exam bytes, in one sector of flash memory.          *)
(*                                                                         *)
(* Flash bits go from 1 to 0 one by one, and back to 1 only all together,  *)
(* when the sector is erased.  Each entry has a row of slots; its value is *)
(* in the last slot that is not blank, a new value overwrites it if that   *)
(* only clears bits and is appended otherwise, and a full row has the      *)
(* whole sector erased and the other entries written back.                 *)
(*                                                                         *)
(* A value is the set of its bits that are 1.  The kernel's flash calls    *)
(* are external: they are assumed to succeed, and a reset may stop them    *)
(* anywhere.                                                               *)
(***************************************************************************)
EXTENDS Integers

CONSTANTS
  Entry,     \* DeviceName, ExamBytes
  Slots,     \* the slots of each
  Bit,       \* the bits of a value
  Default,   \* what an entry is initialized with
  Data,      \* what the program writes: the exam bytes are never all ones
  Factory,   \* what the entries hold when the calculator is first used
  NoEntry,
  NoWrite,   \* no write is under way
  Off        \* the calculator is about to restart

VARIABLES
  flash,  \* the bits at 1 in each slot
  call    \* the call under way and the flash operation it is about to do

vars == <<flash, call>>

PBValue == SUBSET Bit
Blank == Bit
Cells == UNION {{<<e, i>> : i \in 1..Slots[e]} : e \in Entry}

ASSUME EntriesAssumption ==
  /\ Slots \in [Entry -> Nat \ {0}]
  /\ NoEntry \notin Entry
  /\ Default \in [Entry -> PBValue \ {Blank}]
  /\ Data \in [Entry -> SUBSET (PBValue \ {Blank})]
  /\ Factory \subseteq [Entry -> PBValue]
  /\ NoWrite \notin [entry : Entry, data : PBValue, moving : BOOLEAN]
  /\ Off \notin [entry : Entry, data : PBValue, moving : BOOLEAN] \cup {NoWrite}

Steps == {"off", "idle", "init", "program", "save", "erase", "rewrite", "final"}

NoCall == [step |-> "idle", entry |-> NoEntry, data |-> Blank, slot |-> 0,
           saved |-> [e \in Entry |-> Blank], left |-> {}]

TypeOK ==
  /\ flash \in [Cells -> PBValue]
  /\ call \in [step : Steps, entry : Entry \cup {NoEntry}, data : PBValue, slot : Nat,
               saved : [Entry -> PBValue], left : SUBSET Entry]
  /\ call.step \notin {"off", "idle"} => call.entry \in Entry
  /\ call.step = "program" => call.slot \in 1..Slots[call.entry]

-----------------------------------------------------------------------------
(* Reading *)

IsBlank(f, e) == \A i \in 1..Slots[e] : f[<<e, i>>] = Blank

\* The scan goes backwards from the end of the row.
Last(f, e) == CHOOSE i \in 1..Slots[e] :
  f[<<e, i>>] # Blank /\ \A j \in i + 1..Slots[e] : f[<<e, j>>] = Blank

\* A read of a blank row initializes it.
ValueOf(f, e) == IF IsBlank(f, e) THEN Default[e] ELSE f[<<e, Last(f, e)>>]

-----------------------------------------------------------------------------
(* Writing *)

\* Mutant: always overwrites
TargetInPlace(f, e, d) == Last(f, e)
\* Where a value goes: over the old one if no bit has to be set.
Target(f, e, d) == IF d \subseteq f[<<e, Last(f, e)>>] THEN Last(f, e) ELSE Last(f, e) + 1

\* Flash memory only clears bits.
Programmed(f, w) == [f EXCEPT ![w.cell] = f[w.cell] \cap w.data]
Write(e, i, d) == [cell |-> <<e, i>>, data |-> d]

BlankOthers == {e \in Entry \ {call.entry} : IsBlank(flash, e)}
NextOf(S) == CHOOSE e \in S : TRUE

\* The write that the step is about to do.
Pending ==
  CASE call.step = "init" -> Write(call.entry, 1, Default[call.entry])
    [] call.step = "program" -> Write(call.entry, call.slot, call.data)
    [] call.step = "save" -> Write(NextOf(BlankOthers), 1, Default[NextOf(BlankOthers)])
    [] call.step = "rewrite" -> Write(NextOf(call.left), 1, call.saved[NextOf(call.left)])
    [] call.step = "final" -> Write(call.entry, 1, call.data)

\* What write(data) does next, the entry being initialized.
Decide(f, e, d) ==
  [NoCall EXCEPT !.step = IF Target(f, e, d) <= Slots[e] THEN "program" ELSE "save",
                 !.entry = e, !.data = d, !.slot = Target(f, e, d)]

\* read(entry): does nothing to a row that is not blank.
Read(e) ==
  /\ call.step = "idle"
  /\ IsBlank(flash, e)
  /\ call' = [NoCall EXCEPT !.step = "program", !.entry = e, !.data = Default[e], !.slot = 1]
  /\ UNCHANGED flash

BeginWrite(e, d) ==
  /\ call.step = "idle"
  /\ call' = IF IsBlank(flash, e)
             THEN [NoCall EXCEPT !.step = "init", !.entry = e, !.data = d]
             ELSE Decide(flash, e, d)
  /\ UNCHANGED flash

InitEntry ==
  /\ call.step = "init"
  /\ flash' = Programmed(flash, Pending)
  /\ call' = Decide(flash', call.entry, call.data)

\* The value is in flash: the call returns.
Program ==
  /\ call.step \in {"program", "final"}
  /\ flash' = Programmed(flash, Pending)
  /\ call' = NoCall

\* The row is full.  Reading the other entries may initialize them.
InitOther ==
  /\ call.step = "save"
  /\ BlankOthers # {}
  /\ flash' = Programmed(flash, Pending)
  /\ UNCHANGED call

Save ==
  /\ call.step = "save"
  /\ BlankOthers = {}
  /\ call' = [call EXCEPT !.step = "erase", !.saved = [e \in Entry |-> ValueOf(flash, e)]]
  /\ UNCHANGED flash

NextRewrite(left) ==
  [call EXCEPT !.step = IF left = {} THEN "final" ELSE "rewrite", !.left = left]

\* Mutant: forgets to write the other entries back
EraseWithoutRewrite ==
  /\ call.step = "erase"
  /\ flash' = [c \in Cells |-> Blank]
  /\ call' = NextRewrite({})
Erase ==
  /\ call.step = "erase"
  /\ flash' = [c \in Cells |-> Blank]
  /\ call' = NextRewrite(Entry \ {call.entry})

Rewrite ==
  /\ call.step = "rewrite"
  /\ flash' = Programmed(flash, Pending)
  /\ call' = NextRewrite(call.left \ {NextOf(call.left)})

-----------------------------------------------------------------------------
(* A reset stops the flash operation under way: some of the bits to clear   *)
(* are cleared, or some of those to set are set.                            *)

Between(low, high) == {v \in SUBSET high : low \subseteq v}

Programs ==
  \/ call.step \in {"init", "program", "rewrite", "final"}
  \/ call.step = "save" /\ BlankOthers # {}

Reset ==
  /\ call.step # "off"
  /\ call' = [NoCall EXCEPT !.step = "off"]
  /\ \/ /\ ~Programs /\ call.step # "erase"
        /\ UNCHANGED flash
     \/ /\ Programs
        /\ \E v \in Between(flash[Pending.cell] \cap Pending.data, flash[Pending.cell]) :
             flash' = [flash EXCEPT ![Pending.cell] = v]
     \/ /\ call.step = "erase"
        /\ flash' \in {f \in [Cells -> PBValue] : \A c \in Cells : flash[c] \subseteq f[c]}

Restart ==
  /\ call.step = "off"
  /\ call' = NoCall
  /\ UNCHANGED flash

-----------------------------------------------------------------------------

Init ==
  /\ flash \in {[c \in Cells |-> IF c[2] = 1 THEN v[c[1]] ELSE Blank] : v \in Factory}
  /\ call = NoCall

Next ==
  \/ \E e \in Entry : Read(e) \/ \E d \in Data[e] : BeginWrite(e, d)
  \/ InitEntry \/ InitOther \/ Save \/ Erase \/ Rewrite \/ Program
  \/ Reset \/ Restart

Spec == Init /\ [][Next]_vars

-----------------------------------------------------------------------------
(* Properties *)

\* The slot about to be written accepts the value, and a read will find it
\* there: no bit has to be set, and nothing is written after it.
WriteTakes ==
  Programs =>
    /\ Pending.cell \in Cells
    /\ Pending.data \subseteq flash[Pending.cell]
    /\ \A i \in Pending.cell[2] + 1..Slots[Pending.cell[1]] : flash[<<Pending.cell[1], i>>] = Blank

\* The bytes implement the registers: a write is read back, and a reset harms
\* only the entry being written unless the sector is being erased.  While they
\* are moved the registers are what they will be at the end.
Moving == call.step \in {"erase", "rewrite", "final"}

RegisterOf(e) ==
  IF ~Moving THEN ValueOf(flash, e) ELSE IF e = call.entry THEN call.data ELSE call.saved[e]

WritingOf(e, d) == [entry |-> e, data |-> d, moving |-> Moving]
WritingNow ==
  CASE call.step = "off" -> Off
    [] call.step = "idle" -> NoWrite
    [] call.step = "init" -> WritingOf(call.entry, Default[call.entry])
    [] call.step = "save" /\ BlankOthers # {} ->
         WritingOf(NextOf(BlankOthers), Default[NextOf(BlankOthers)])
    [] call.step \in {"program", "erase", "rewrite", "final"} -> WritingOf(call.entry, call.data)
    [] call.step = "save" /\ BlankOthers = {} -> WritingOf(call.entry, call.data)

Registers == INSTANCE PersistentRegisters WITH
  register <- [e \in Entry |-> RegisterOf(e)], writing <- WritingNow
ImplementsPersistentRegisters == Registers!RegistersSpec

=============================================================================
