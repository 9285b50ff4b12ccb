----------------------------- MODULE FileSystem -----------------------------
(***************************************************************************)
(* The record storage of the calculator (Ion::Storage::FileSystem,         *)
(* shared/ion/src/shared/storage/file_system.cpp): one buffer in which     *)
(* records are packed from address 0 up to a null-sized terminator, the    *)
(* records disabled by the exam mode packed against the other end, a       *)
(* one-entry cache of the last record looked up, and a delegate that may   *)
(* veto a change.                                                          *)
(*                                                                         *)
(* A record carries its own address.  An operation that the code performs  *)
(* by memmove shifts the addresses of the records it moves, and the        *)
(* invariants say that after it the buffer can again be walked from record *)
(* to record.  The delegate's change handlers only reset caches of the     *)
(* applications: they neither read nor write the storage.                  *)
(***************************************************************************)
EXTENDS RecordNames

CONSTANTS
  SystemRecords,      \* the records initSystemRecord made at boot
  EndOfSystemRecords, \* where they end
  ScriptExtension,    \* "py"
  VetoableExtension,  \* func, seq, lis: what an application may protect
  TotalSize,     \* k_totalSize
  SizeOfHeader,  \* sizeof(record_size_t), also the size of the terminator
  Value,         \* the data of a record
  SizeOfValue    \* its size in bytes

VARIABLES
  records,     \* the accessible records
  disabled,    \* the records hidden at the end of the buffer
  end,         \* the address of the terminator
  accessible,  \* m_accessibleSize
  cache,       \* m_lastRecordRetrieved and m_lastRecordRetrievedPointer
  vetoed,      \* the extensions the active application refuses to change
  sweep,       \* destroyRecordsMatching under way: what it matches, where it is
  status       \* the status of the last operation

vars == <<records, disabled, end, accessible, cache, vetoed, sweep, status>>

NullPtr == -1
EmptyCache == [record |-> NoRecord, ptr |-> NullPtr]
NoSweep == [exts |-> {}, ptr |-> NullPtr]

Failure == {"NameTaken", "NotEnoughSpaceAvailable", "CanceledByDelegate", "RecordDoesNotExist"}
Status == Failure \cup {"None"}

Record == [name : Name, pos : Nat, size : Nat, value : Value]

SizeOfRecordWithName(n, v) == SizeOfName(n) + SizeOfValue[v] + SizeOfHeader

ASSUME SizesAssumption ==
  /\ SizeOfHeader \in Nat \ {0}
  /\ TotalSize \in Nat
  /\ SizeOfHeader <= TotalSize
  /\ SizeOfValue \in [Value -> Nat]

\* The records of R fill the buffer from address lo to address hi: where one
\* ends the next one starts, so that a walk from lo visits them all.
Packed(R, lo, hi) ==
  /\ \A r \in R : lo <= r.pos /\ r.pos + r.size <= hi
  /\ \A r, s \in R : r = s \/ r.pos + r.size <= s.pos \/ s.pos + s.size <= r.pos
  /\ {r.pos : r \in R} \cup {hi} = {r.pos + r.size : r \in R} \cup {lo}

UniqueNames(R) == \A r, s \in R : r.name = s.name => r = s

ASSUME BootAssumption ==
  /\ SystemRecords \subseteq Record
  /\ EndOfSystemRecords \in Nat
  /\ Packed(SystemRecords, 0, EndOfSystemRecords)
  /\ UniqueNames(SystemRecords)
  /\ EndOfSystemRecords + SizeOfHeader <= TotalSize
  /\ \A r \in SystemRecords :
       /\ r.name.ext = SystemExtension
       /\ r.size = SizeOfRecordWithName(r.name, r.value)
  /\ ScriptExtension \in Extension \ {SystemExtension}
  /\ VetoableExtension \subseteq Extension \ {SystemExtension}

TypeOK ==
  /\ records \subseteq Record
  /\ disabled \subseteq Record
  /\ end \in Nat
  /\ accessible \in Nat
  /\ cache \in [record : Name \cup {NoRecord}, ptr : Nat \cup {NullPtr}]
  /\ vetoed \subseteq Extension
  /\ sweep \in [exts : SUBSET Extension, ptr : Nat \cup {NullPtr}]
  /\ status \in Status

-----------------------------------------------------------------------------
(* Walking the buffer *)

Named(R, n) == {r \in R : r.name = n}
First(R) == CHOOSE r \in R : \A s \in R : r.pos <= s.pos
RecordAt(R, p) == CHOOSE r \in R : r.pos = p
IsSystem(r) == r.name.ext = SystemExtension

\* Mutant: the last record of the user
LastNonSysRecord(R) ==
  CHOOSE r \in R : ~IsSystem(r) /\ \A s \in R : ~IsSystem(s) => s.pos <= r.pos
FirstNonSysRecord(R) == First({r \in R : ~IsSystem(r)})

\* Mutant: the walk stays in place
StaysAtRecord(r) == r.pos

\* RecordIterator++
NextRecord(r) == IF r.pos + r.size = end THEN NullPtr ELSE r.pos + r.size

\* A lookup believes the cache, and otherwise walks the buffer.
PointerOfRecord(R, c, n) ==
  IF c.record = n THEN c.ptr
  ELSE IF Named(R, n) = {} THEN NullPtr ELSE First(Named(R, n)).pos

\* The cache after a lookup of n: one that fails leaves it alone.
Recall(R, c, n) ==
  IF PointerOfRecord(R, c, n) = NullPtr THEN c
  ELSE [record |-> n, ptr |-> PointerOfRecord(R, c, n)]

SizeAt(R, p) == IF p = NullPtr THEN 0 ELSE RecordAt(R, p).size

\* The record that competes with the name n: the cached one if it does, else
\* the first of the buffer.
Rivals(R, n) == {r \in R : r.name.base = n.base /\ Restrictive(r.name.ext)}
Competitor(R, c, n) ==
  IF c.ptr # NullPtr /\ RecordAt(R, c.ptr) \in Rivals(R, n) THEN c.record
  ELSE IF Rivals(R, n) = {} THEN NoRecord ELSE First(Rivals(R, n)).name

-----------------------------------------------------------------------------
(* Space *)

\* Mutant: forgets the terminator
AvailableSizeWithoutTerminator(e) == accessible - e
AvailableSize(e) == accessible - e - SizeOfHeader

\* Mutant: the room is measured before the competitor is destroyed
CanFreeBefore(size, e) ==
  size <= AvailableSize(end) \/ size - AvailableSize(end) <= TotalSize - accessible

\* freeSpaceFor(size) with the terminator at e: whether it succeeds, and what
\* it does when it does.  The disabled records go only when they must.
CanFree(size, e) ==
  size <= AvailableSize(e) \/ size - AvailableSize(e) <= TotalSize - accessible

FreeSpaceFor(size, e) ==
  IF size <= AvailableSize(e) THEN UNCHANGED <<accessible, disabled>>
  ELSE accessible' = TotalSize /\ disabled' = {}

-----------------------------------------------------------------------------
(* Moving records *)

\* Mutant: moves the wrong way
MovedBack(r, delta) == [r EXCEPT !.pos = r.pos - delta]
Moved(r, delta) == [r EXCEPT !.pos = r.pos + delta]

\* slideBuffer: what is at or after the address from moves by delta
Slid(r, from, delta) == IF r.pos >= from THEN Moved(r, delta) ELSE r
Slide(R, from, delta) == {Slid(r, from, delta) : r \in R}

Without(R, r) == Slide(R \ {r}, r.pos + r.size, -r.size)

Resized(R, r, new) == Slide(R \ {r}, r.pos + r.size, new.size - r.size) \cup {new}

-----------------------------------------------------------------------------
(* handleCompetingRecord(n, mayOverrideItself): whether it refuses the name *)
(* n, and else the record it destroys to make the name available           *)

Refuses(R, c, n, mayOverrideItself) ==
  LET rival == Competitor(R, c, n)
  IN  \/ Named(R, n) # {} /\ ~mayOverrideItself
      \/ /\ Named(R, n) = {}
         /\ rival # NoRecord
         /\ \/ CanOverrideRecordWithNewExtension(rival, n.ext) = "Forbidden"
            \/ rival.ext \in vetoed

\* Mutants: forgets the competitor; takes any record of that base name for one
VictimOfThatNameOnly(R, c, n) == IF Named(R, n) # {} THEN n ELSE NoRecord
VictimOfThatBase(R, c, n) ==
  LET same == {r \in R : r.name.base = n.base}
  IN  IF same = {} THEN NoRecord ELSE First(same).name

Victim(R, c, n) ==
  LET rival == Competitor(R, c, n)
  IN  IF Named(R, n) # {} THEN n
      ELSE IF rival # NoRecord /\ CanOverrideRecordWithNewExtension(rival, n.ext) = "Allowed"
           THEN rival ELSE NoRecord

\* The cache when it refuses: the rival's name has been looked up.
RecallRival(R, c, n) ==
  IF Named(R, n) # {} \/ Competitor(R, c, n) = NoRecord THEN c
  ELSE Recall(R, c, Competitor(R, c, n))

\* The records, and the terminator, once the victim is destroyed.
VictimSize(R, c, v) == IF v = NoRecord THEN 0 ELSE SizeAt(R, PointerOfRecord(R, c, v))
WithoutVictim(R, c, v) ==
  IF v = NoRecord \/ PointerOfRecord(R, c, v) = NullPtr THEN R
  ELSE Without(R, RecordAt(R, PointerOfRecord(R, c, v)))

-----------------------------------------------------------------------------
(* Operations.  The program is single threaded: none starts while a        *)
(* destruction of several records is under way.                            *)

Idle == sweep.exts = {}

\* A failure that leaves the buffer alone; the lookups made so far are cached.
Fail(s, c) ==
  /\ status' = s
  /\ cache' = c
  /\ UNCHANGED <<records, end>>

CreateRecord(n, v, mayOverrideItself) ==
  LET found  == Recall(records, cache, n)
      size   == SizeOfRecordWithName(n, v)
      more   == size - SizeAt(records, PointerOfRecord(records, cache, n))
      victim == Victim(records, found, n)
      newEnd == end - VictimSize(records, found, victim)
  IN  /\ Idle
      /\ UNCHANGED <<vetoed, sweep>>
      /\ \/ /\ n.ext \in vetoed
            /\ Fail("CanceledByDelegate", cache)
            /\ UNCHANGED <<accessible, disabled>>
         \/ /\ n.ext \notin vetoed
            /\ more > 0
            /\ ~CanFree(more, end)
            /\ Fail("NotEnoughSpaceAvailable", found)
            /\ UNCHANGED <<accessible, disabled>>
         \/ /\ n.ext \notin vetoed
            /\ more > 0 => CanFree(more, end)
            /\ Refuses(records, found, n, mayOverrideItself)
            /\ IF more > 0 THEN FreeSpaceFor(more, end) ELSE UNCHANGED <<accessible, disabled>>
            /\ Fail("NameTaken", RecallRival(records, found, n))
         \/ /\ n.ext \notin vetoed
            /\ more > 0 => CanFree(more, end)
            /\ ~Refuses(records, found, n, mayOverrideItself)
            /\ IF more > 0 THEN FreeSpaceFor(more, end) ELSE UNCHANGED <<accessible, disabled>>
            /\ records' = WithoutVictim(records, found, victim)
                            \cup {[name |-> n, pos |-> newEnd, size |-> size, value |-> v]}
            /\ end' = newEnd + size
            /\ cache' = [record |-> n, ptr |-> newEnd]
            /\ status' = "None"

SetNameOfRecord(old, n) ==
  LET found  == Recall(records, cache, old)
      victim == Victim(records, found, n)
      rest   == WithoutVictim(records, found, victim)
      newEnd == end - VictimSize(records, found, victim)
      \* the delegate is told of the victim's destruction: the cache is empty
      after  == IF victim = NoRecord THEN RecallRival(records, found, n) ELSE EmptyCache
      ptr    == PointerOfRecord(rest, after, old)
      r      == RecordAt(rest, ptr)
      delta  == SizeOfName(n) - SizeOfName(old)
  IN  /\ Idle
      /\ UNCHANGED <<vetoed, sweep>>
      /\ \/ /\ n = old
            /\ status' = "None"
            /\ UNCHANGED <<records, end, cache, accessible, disabled>>
         \/ /\ n # old
            /\ old.ext \in vetoed
            /\ Fail("CanceledByDelegate", found)
            /\ UNCHANGED <<accessible, disabled>>
         \/ /\ n # old
            /\ old.ext \notin vetoed
            /\ Refuses(records, found, n, FALSE)
            /\ Fail("NameTaken", RecallRival(records, found, n))
            /\ UNCHANGED <<accessible, disabled>>
         \/ /\ n # old
            /\ old.ext \notin vetoed
            /\ ~Refuses(records, found, n, FALSE)
            /\ IF ptr = NullPtr \/ ~CanFree(delta, newEnd)
               THEN /\ status' = IF ptr = NullPtr THEN "RecordDoesNotExist" ELSE "NotEnoughSpaceAvailable"
                    /\ records' = rest
                    /\ end' = newEnd
                    /\ cache' = Recall(rest, after, old)
                    /\ UNCHANGED <<accessible, disabled>>
               ELSE /\ status' = "None"
                    /\ FreeSpaceFor(delta, newEnd)
                    /\ records' = Resized(rest, r, [r EXCEPT !.name = n, !.size = r.size + delta])
                    /\ end' = newEnd + delta
                    /\ cache' = [record |-> n, ptr |-> ptr]

SetValueOfRecord(n, v) ==
  LET ptr   == PointerOfRecord(records, cache, n)
      found == Recall(records, cache, n)
      r     == RecordAt(records, ptr)
      size  == SizeOfRecordWithName(n, v)
  IN  /\ Idle
      /\ UNCHANGED <<vetoed, sweep>>
      /\ \/ /\ ptr = NullPtr
            /\ Fail("RecordDoesNotExist", cache)
            /\ UNCHANGED <<accessible, disabled>>
         \/ /\ ptr # NullPtr
            /\ n.ext \in vetoed
            /\ Fail("CanceledByDelegate", found)
            /\ UNCHANGED <<accessible, disabled>>
         \/ /\ ptr # NullPtr
            /\ n.ext \notin vetoed
            /\ ~CanFree(size - r.size, end)
            /\ Fail("NotEnoughSpaceAvailable", found)
            /\ UNCHANGED <<accessible, disabled>>
         \/ /\ ptr # NullPtr
            /\ n.ext \notin vetoed
            /\ CanFree(size - r.size, end)
            /\ FreeSpaceFor(size - r.size, end)
            /\ records' = Resized(records, r, [r EXCEPT !.value = v, !.size = size])
            /\ end' = end + size - r.size
            /\ cache' = [record |-> n, ptr |-> ptr]
            /\ status' = "None"

\* Mutant: the cache is not told that the records moved
DestroyAndKeepCache(n) ==
  LET r == RecordAt(records, PointerOfRecord(records, cache, n))
  IN  /\ UNCHANGED <<vetoed, accessible, disabled>>
      /\ n.ext \notin vetoed
      /\ records' = Without(records, r)
      /\ end' = end - r.size
      /\ cache' = Recall(records, cache, n)
      /\ status' = "None"

\* destroyRecord, the delegate being told: of a record that exists.
Destroy(n) ==
  LET r == RecordAt(records, PointerOfRecord(records, cache, n))
  IN  /\ UNCHANGED <<vetoed, accessible, disabled>>
      /\ \/ /\ n.ext \in vetoed
            /\ Fail("CanceledByDelegate", Recall(records, cache, n))
         \/ /\ n.ext \notin vetoed
            /\ records' = Without(records, r)
            /\ end' = end - r.size
            /\ cache' = EmptyCache
            /\ status' = "None"

DestroyRecord(n) ==
  /\ Idle
  /\ Destroy(n)
  /\ UNCHANGED sweep

-----------------------------------------------------------------------------
(* destroyRecordsMatching walks the buffer and destroys the records whose  *)
(* extension matches; the delegate sees the storage between two of them.   *)
(* Record::destroy asserts that no destruction is vetoed.                  *)

BeginSweep(exts) ==
  /\ Idle
  /\ exts # {}
  /\ exts \cap vetoed = {}
  /\ sweep' = [exts |-> exts, ptr |-> IF records = {} THEN NullPtr ELSE 0]
  /\ status' = "None"
  /\ UNCHANGED <<records, disabled, end, accessible, cache, vetoed>>

DestroyAllRecords == BeginSweep(Extension \ {SystemExtension})
DestroyRecordsWithExtension(ext) == BeginSweep({ext})

SweepOne ==
  LET r == RecordAt(records, sweep.ptr)
  IN  /\ ~Idle
      /\ sweep.ptr \notin {NullPtr, end}
      /\ IF r.name.ext \in sweep.exts
         THEN Destroy(r.name) /\ UNCHANGED sweep
         ELSE /\ sweep' = [sweep EXCEPT !.ptr = NextRecord(r)]
              /\ status' = "None"
              /\ UNCHANGED <<records, disabled, end, accessible, cache, vetoed>>

\* If anything was destroyed the cache is already empty.
EndSweep ==
  /\ ~Idle
  /\ sweep.ptr \in {NullPtr, end}
  /\ sweep' = NoSweep
  /\ status' = "None"
  /\ UNCHANGED <<records, disabled, end, accessible, cache, vetoed>>

-----------------------------------------------------------------------------
(* The exam mode *)

\* Asserted: nothing is disabled yet.
DisableAllRecords ==
  LET f     == FirstNonSysRecord(records).pos
      moved == {r \in records : r.pos >= f}
  IN  /\ Idle
      /\ accessible = TotalSize
      /\ UNCHANGED <<vetoed, sweep>>
      /\ status' = "None"
      /\ \/ /\ \A r \in records : IsSystem(r)
            /\ UNCHANGED <<records, disabled, end, accessible, cache>>
         \/ /\ \E r \in records : ~IsSystem(r)
            /\ disabled' = {Moved(r, TotalSize - end) : r \in moved}
            /\ records' = records \ moved
            /\ end' = f
            /\ accessible' = TotalSize - (end - f)
            /\ cache' = EmptyCache

\* Asserted: only system records are left.  The cache is kept.
RestoreDisabledRecords ==
  /\ Idle
  /\ \A r \in records : IsSystem(r)
  /\ records' = records \cup {Moved(r, end - accessible) : r \in disabled}
  /\ end' = end + TotalSize - accessible
  /\ accessible' = TotalSize
  /\ disabled' = {}
  /\ status' = "None"
  /\ UNCHANGED <<cache, vetoed, sweep>>

-----------------------------------------------------------------------------
(* The script editor works in the buffer: it gives the script all the      *)
(* available space, writes in place, and gives back what is left.          *)

PutAvailableSpaceAtEndOfRecord(n) ==
  LET r == RecordAt(records, PointerOfRecord(records, cache, n))
  IN  /\ Idle
      /\ records' = Resized(records, r, [r EXCEPT !.size = r.size + AvailableSize(end)])
      /\ end' = end + AvailableSize(end)
      /\ cache' = Recall(records, cache, n)
      /\ status' = "None"
      /\ UNCHANGED <<disabled, accessible, vetoed, sweep>>

RemoveDataFromEndOfRecord(n, dataSize) ==
  LET r == RecordAt(records, PointerOfRecord(records, cache, n))
  IN  /\ Idle
      /\ records' = Resized(records, r, [r EXCEPT !.size = r.size - dataSize])
      /\ end' = end - dataSize
      /\ cache' = Recall(records, cache, n)
      /\ status' = "None"
      /\ UNCHANGED <<disabled, accessible, vetoed, sweep>>

\* A value written through a pointer into the buffer: the text of a script, or
\* the fields of a setting, whose size is fixed.
WriteInPlace(r, v) ==
  /\ Idle
  /\ r \in records
  /\ \/ r.name.ext = ScriptExtension /\ SizeOfRecordWithName(r.name, v) <= r.size
     \/ IsSystem(r) /\ SizeOfRecordWithName(r.name, v) = r.size
  /\ records' = (records \ {r}) \cup {[r EXCEPT !.value = v]}
  /\ status' = "None"
  /\ UNCHANGED <<disabled, end, accessible, cache, vetoed, sweep>>

-----------------------------------------------------------------------------
(* Reads, which move the cache, and the delegate *)

LookUp(n) ==
  /\ Idle
  /\ cache' = Recall(records, cache, n)
  /\ status' = "None"
  /\ UNCHANGED <<records, disabled, end, accessible, vetoed, sweep>>

\* Around a store from the store menu the active application refuses changes
\* to the kind of records it displays.
SetVeto(exts) ==
  /\ Idle
  /\ vetoed' = exts
  /\ status' = "None"
  /\ UNCHANGED <<records, disabled, end, accessible, cache, sweep>>

-----------------------------------------------------------------------------

Init ==
  /\ records = SystemRecords
  /\ disabled = {}
  /\ end = EndOfSystemRecords
  /\ accessible = TotalSize
  /\ cache = EmptyCache
  /\ vetoed = {}
  /\ sweep = NoSweep
  /\ status = "None"

\* The names the applications create and change; settings are never renamed,
\* recreated or destroyed.
UserName == {n \in Name : n.ext # SystemExtension}
UserRecords == {r \in records : ~IsSystem(r)}
Scripts == {r \in records : r.name.ext = ScriptExtension}

\* cleanStorageEmptySpace: what the editor has left of the room it took
SpareSize(r) == r.size - SizeOfRecordWithName(r.name, r.value)

Create == \E n \in UserName, v \in Value, o \in BOOLEAN : CreateRecord(n, v, o)
\* The applications rename a record within its extension.
Rename == \E r \in UserRecords, n \in UserName : r.name.ext = n.ext /\ SetNameOfRecord(r.name, n)
SetValue == \E n \in UserName, v \in Value : SetValueOfRecord(n, v)
DestroyOne == \E r \in UserRecords : DestroyRecord(r.name)
DestroyMany == DestroyAllRecords \/ \E ext \in Extension \ {SystemExtension} : DestroyRecordsWithExtension(ext)
Edit == \E r \in Scripts :
  \/ PutAvailableSpaceAtEndOfRecord(r.name)
  \/ RemoveDataFromEndOfRecord(r.name, SpareSize(r))
Write == \E r \in records, v \in Value : WriteInPlace(r, v)
Read == \E n \in Name : LookUp(n)
Veto == \E exts \in {{}} \cup {{ext} : ext \in VetoableExtension} : SetVeto(exts)

Next ==
  \/ Create \/ Rename \/ SetValue \/ DestroyOne
  \/ DestroyMany \/ SweepOne \/ EndSweep
  \/ DisableAllRecords \/ RestoreDisabledRecords
  \/ Edit \/ Write \/ Read \/ Veto

Spec == Init /\ [][Next]_vars /\ WF_vars(SweepOne \/ EndSweep)

-----------------------------------------------------------------------------
(* Properties *)

\* No record is smaller than what it holds; a script being edited is larger.
Sized(R) == \A r \in R : SizeOfRecordWithName(r.name, r.value) <= r.size

\* The buffer can be walked, the disabled records are where a restoration
\* will look for them, and the accessible part has room for a terminator.
\* slideBuffer and the moves of the exam mode keep it so.
LayoutOK ==
  /\ Packed(records, 0, end)
  /\ Packed(disabled, accessible, TotalSize)
  /\ end + SizeOfHeader <= accessible
  /\ accessible <= TotalSize
  /\ Sized(records) /\ Sized(disabled)

\* The one-entry cache never answers with the address of another record, or
\* with one into the middle of the buffer.
CacheOK ==
  /\ cache.record = NoRecord <=> cache.ptr = NullPtr
  /\ cache.record # NoRecord =>
       \E r \in records : r.name = cache.record /\ r.pos = cache.ptr

\* No two records have one name, and of the records of one base name at most
\* one has a restrictive extension: a symbol has one meaning.
OneMeaning(R) ==
  \A r, s \in R : r.name.base = s.name.base /\ Restrictive(r.name.ext) /\ Restrictive(s.name.ext) => r = s
NamesOK ==
  /\ UniqueNames(records) /\ UniqueNames(disabled)
  /\ OneMeaning(records) /\ OneMeaning(disabled)

\* The settings come first: what disableAllRecords asserts before it moves
\* everything that follows the first record of the user.
SettingsFirst(R) == \A r, s \in R : IsSystem(r) /\ ~IsSystem(s) => r.pos < s.pos
SystemRecordsFirst ==
  /\ SettingsFirst(records)
  /\ \A r \in disabled : ~IsSystem(r)

\* The walk of a destruction stands at a record, though the records have moved
\* under it, and no veto can stop it.
SweepOK ==
  sweep.exts # {} =>
    /\ sweep.exts \cap vetoed = {}
    /\ SystemExtension \notin sweep.exts
    /\ sweep.ptr \in {NullPtr, end} \cup {r.pos : r \in records}

\* The owners of the settings keep raw pointers to them: they never move.
SystemRecordsNeverMove ==
  [][\A r \in records : IsSystem(r) =>
       \E s \in records' : s.name = r.name /\ s.pos = r.pos /\ s.size = r.size]_vars

\* An operation that reports a failure leaves every accessible record as it
\* was, its competitors included.
Content(R) == {[name |-> r.name, value |-> r.value] : r \in R}
FailureChangesNothing == [][status' \in Failure => Content(records') = Content(records)]_vars

\* A record that disappears when another name of its base appears was allowed
\* to: it is not reserved, and its extension does not take precedence over one
\* that is not reserved.
DisplacementIsAllowed ==
  [][\A r \in records, s \in records' :
       /\ s.name.base = r.name.base
       /\ s.name \notin {q.name : q \in records}
       /\ Restrictive(s.name.ext) /\ Restrictive(r.name.ext)
       /\ r.name \notin {q.name : q \in records'}
       => /\ ~IsReserved(r.name)
          /\ IsReserved(s.name) \/ Precedence[s.name.ext] <= Precedence[r.name.ext]]_vars

\* A destruction of several records ends, with none left that matches.
SweepEnds ==
  \A ext \in Extension :
    ext \in sweep.exts ~> sweep = NoSweep /\ \A r \in records : r.name.ext # ext

\* The storage implements the dictionary: each record is an entry, wherever it is in the
\* buffer, and the disabled records are the dictionary set aside.
Entries(R) == [n \in {r.name : r \in R} |-> (CHOOSE r \in R : r.name = n).value]
Store == INSTANCE RecordStore WITH visible <- Entries(records), aside <- Entries(disabled)
ImplementsRecordStore == Store!StoreSpec

=============================================================================
