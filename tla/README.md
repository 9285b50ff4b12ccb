# A specification of Salty-OS

Salty-OS is a userland for the NumWorks graphing calculator: a hardware layer
(`shared/ion`), a computer algebra engine (`poincare`), a user interface toolkit
(`epsilon/escher`) and the applications (`epsilon/apps`). The kernel it calls is
not in the repository. This directory holds TLA+ specifications of its stateful
parts, the TLC configurations that check small instances of them, and proofs
that TLAPS checks for every instance.

## 1. Inventory

| Part | State | Operations | What is hard | What makes it correct |
|---|---|---|---|---|
| **Record storage** `shared/ion/src/shared/storage` | a 42 KB buffer of packed records, the part of it that is accessible, a one-entry cache, a delegate | create, rename, set, destroy one or several, disable and restore, lend room to an editor, look up | every operation moves the others' records; pointers are kept across operations; failures half way; a cache | the buffer can be walked; the cache is exact; one name, one meaning; settings never move; a failure changes nothing |
| **Names and precedence** `record_name_verifier.cpp` | none | may a name displace another | reserved names against precedence | only what may be displaced is |
| **Script editor** `epsilon/apps/code` | a pointer into the buffer | take all the room, write in place, give the rest back | the storage is full meanwhile; events may leave the editor by other ways | the room is given back exactly |
| **Exam mode** `exam_mode_manager.h`, `shared/ion/src/shared/exam_mode.cpp`, `apps_container.cpp` | the mode in flash, a copy in a record, the records hidden, the LED | enter, leave, re-enter; boot; changes by USB | a reset between two steps; two copies; the hidden records | hidden records come back, and only when the exam ends |
| **Persisting bytes** `device/userland/drivers/persisting_bytes.cpp` | a flash sector of two logs | read, write, compaction | flash only clears bits; resets at any time | what was written is read, a reset loses at most what it must |
| **Keyboard queue** `keyboard_queue.cpp`, `ring_buffer.h` | a ring of 5 states, a busy flag, one place aside | push (interrupt), pop, reset | preemption between any two instructions | in order, once, and lost only when full |
| **Events** `events.cpp`, `events_modifier.cpp` | keys seen up, last event, shift/alpha | get an event | repetition, long presses, lost states | one event per press |
| **Keyboard of the web simulator** `simulator/web`, `simulator/shared/keyboard.cpp` | the keys the page, the host and the prefixes hold | scan, handlers of the page | handlers push states between the scans | what is released is seen released |
| **Shortcuts** `apps_container_shortcuts.cpp` | the shortcuts that were held | look at every dispatch | timers dispatch too | once per press |
| **Circuit breaker** `simulator/shared/circuit_breaker.cpp` | checkpoints, locks, an interruption pending | set, unset, load, lock, unlock | long jumps out of any code | never jumps to a dead checkpoint or out of a locked section |
| **Expression pool** `poincare/src/pool` | reference counted nodes, checkpoints | build, share, move, release, restore | exceptions by long jump skip destructors | no handle names a freed node |
| **Tree stack and references** `poincare/src/memory` | a stack of blocks, a table from identifiers to offsets | move, replace, clone, drop, try | every motion corrects every offset; jumps cut the table | a reference names its node or nothing |
| **Calculation history** `omg/store`, `calculation_store.cpp` | elements and offsets from the two ends of a buffer | push, delete | the home key jumps out of a push | only whole calculations, in order |
| **Function cache** `continuous_function_cache.cpp` | two rings of values, a pointer in each function | prepare, pan, look up, take back | a cache does not know its owner | a cached value is the function's |
| **Big integers** `integer.cpp` | digits on the tree stack | arithmetic, reading, counting | carries, quotient digits, the last digit | exact, or an overflow |
| **Run loop, timers, applications** `epsilon/escher`, `apps_container.cpp` | the active application, timers, snapshots | dispatch, switch, suspend | switches inside handlers | one active application, packed into its snapshot |
| Other algebra, views, Python, drivers, tools | – | – | mostly sequential computation and input/output | – |

The applications call the storage directly; the storage calls back its delegate
(`AppsContainer`, which asks the active application) before a change, to veto it,
and after it, to reset caches. The exam mode calls the storage, the persisting
bytes and, through the boot, the settings' records. The keyboard interrupt and
the event loop share only the queue. The expression pool and the calculation
store both meet the circuit breaker, whose jumps leave from any point of the code; the
tree stack is flushed by the pool's checkpoints. The shortcuts and the scripts of
Python look at the keyboard beside the event loop.

## 2. Plan

1. `RecordNames`, `FileSystem`, `RecordStore` and their proofs: the storage holds
   everything the user made, and most of the other parts only matter through it.
   **Done.**
2. `PersistingBytes`: resets at every step, with the abstract specification of
   registers that a reset may only tear, and the proof that it is implemented.
   **Done.**
3. `ExamSession`, above the registers: the exam mode from the event loop to the
   flash, with the boot, USB, the home key and resets, and the assertions of `set`,
   `openDFU` and `disableAllRecords` as invariants. **Done.**
4. `KeyboardQueue`, refining a bounded queue that forgets its oldest element.
   **Done.**
5. `CircuitBreaker`, the operations of the breaker for the modules above it:
   `PoolCheckpoints`, reference counts and compaction under nested checkpoints, and
   `CalculationStore`, cut at every write to the buffer. **Done.**
6. `TreeReferences`, `FunctionCache` and `BigIntegers`: offsets, pointers and carries
   corrected by hand. **Done.**
7. `KeyEvents`: from the keys that are held to the events and the shortcuts, above the
   queue. **Done**, for the web simulator.
8. The waits of the device, with scans that interrupt; the switches of applications
   and their snapshots.

Every safety property that the passing runs check is a theorem: every invariant, every action
property and the three refinements. What stays with TLC is liveness under fairness
(`SweepEnds`, `AsideIsPushed`, `ExamGoesOn`, `RememberedIsTaken`), which the prover does not
reason about.

`PushKeepsTheMost` and `ResultIsExact` state what recursive functions return for every input.
The library's induction theorems take an operator that no installed prover
instantiates; both are proved by an induction stated with a set (`SetInduction`: a set that holds
zero and the successor of each of its numbers holds all of them). No `RECURSIVE` operator is
declared.

The proofs are in eight modules, one for each part, but for `KeyboardProofs` (the queue and
the events) and `ApplicationProofs` (the calculation history and the function cache).

## 3. The storage

### Modules

- `RecordNames` – names, their sizes, precedence and reserved names
  (`record.cpp`, `record_name_verifier.cpp`).
- `FileSystem` – the storage (`file_system.cpp`).
- `RecordStore` – what it promises: a dictionary from names to values and a second
  one set aside during an exam.
- `MCFileSystem` – the instance TLC checks. The refinement mapping (`Entries`) is in `FileSystem`.
- `FileSystemProofs` – the proofs.

### State and actions

A record of the model carries its address: `records` and `disabled` are the
records of the two ends of the buffer, `end` the address of the null size that
ends the first, `accessible` the member `m_accessibleSize`. A `memmove` of the code is a
shift of the addresses of what it moves (`Slide`), so that a wrong length, a wrong
direction or a forgotten one shows as records that overlap or leave a gap.
`cache` is the pair of `m_lastRecordRetrieved` and its pointer; lookups believe it,
as the code does, which is why the operations are defined through `PointerOfRecord`
and `RecordAt` and not through the set of records. `vetoed` stands for the delegate:
the extensions the application in front refuses to change. A handle of the
code is a CRC of the name; here it is the name.

Each operation is one action, with its early returns as disjuncts in the code's
order, except the destruction of several records, which is cut between two
destructions (`SweepOne`), where the delegate is called. The program is single
threaded: no operation starts while that one runs.

`Next` enumerates what the applications do: they never create, rename or destroy
settings (extension `sys`), they rename within an extension, and they write in
place only settings (of constant size) and scripts. Values are two sizes. The
status `NonCompliantName` (an empty name) changes nothing and is left out, as is
the bound `k_maxRecordSize` (65536), which no record of a 43008-byte buffer
reaches.

### Runs

`storage` (`FileSystem.cfg`): two settings of 5 and 6 bytes, a buffer of 27
bytes and base names of two lengths: room for two records of the user, or three
small ones, and never for all, so that creations fail, hidden records
are deleted for room, renamings to longer names fail, and the editor fills the
buffer. Extensions are one with precedence (`func`), one that yields to it and
is reserved for one base name (`lis`), one that coexists (`py`) and the settings'
(`sys`); `lis` is the one an application may protect. All of some 98,000 states are visited.

- `LayoutOK`: both ends of the buffer can be walked without gap or overlap, the
  terminator fits, and no record is smaller than its contents.
- `CacheOK`: a cached pointer is that of the cached record.
- `NamesOK`: names are unique and a base name has at most one restrictive meaning.
- `SystemRecordsNeverMove`: the owners of the settings hold raw pointers.
- `FailureChangesNothing`: a reported failure left every accessible record as it was.
- `DisplacementIsAllowed`: a record disappears for another one's sake only if it yields to it.
- `SweepEnds`: the destruction of several records ends.
- `ImplementsRecordStore`: seen as a dictionary, the storage does nothing else; in
  particular the records hidden for the exam come back whole or are all gone.

Two assertions are parts of the proved invariant only: the settings come first
(`SystemRecordsFirst`, what `disableAllRecords` asserts) and the walk of
`destroyRecordsMatching` stands at a record or at the end (`SweepOK`).

A disagreement met while modelling: the comment of `file_system.cpp:56` says "Only
delete hidden records if necessary", but a creation makes room (lines 184-188) before it
looks at the name (line 205), so that during an exam one that is refused because the name is
taken may have deleted what the exam hides. `RecordStore` allows it: a failure leaves the
accessible records alone and may lose the hidden ones.

Deadlock is not checked: the storage may be idle for ever.

Fairness: `WF_vars(SweepOne \/ EndSweep)`, because the loop of
`destroyRecordsMatching` runs in the thread that called it and nothing else runs
until it returns. Nothing else is assumed to happen.

### Proofs

For every set of names, every table of sizes and precedence, every length of the
buffer and every set of settings packed at its start (the assumptions
`NamesAssumption`, `SizesAssumption` and `BootAssumption`):

- `Invariance`: `IInv`, the conjunction of the types, the three invariants above,
  `SystemRecordsFirst` and `SweepOK`, always holds.
  None of them is inductive alone. The layout is kept because the cache is right
  (the address an operation starts from is that of a record), the cache is right
  because names are unique, the settings come first because a record of the user
  is only ever added at the end, and no subtraction goes below zero
  because records are packed. The lemmas about `Slide` (what follows a
  removed or resized record comes to start where it now ends) carry the layout.
  `TypeCorrect`, `LayoutCorrect`, `CacheCorrect`, `NamesCorrect`,
  `SettingsStayFirst` and `SweepCorrect` are its parts.
- `SettingsNeverMove`: from `IInv`, every slide starts after the settings.
- `FailuresChangeNothing`: from `IInv`; the difficult case is a renaming that has
  already destroyed its competitor, and the proof shows that
  it cannot then lack room: the competitor it frees has the new base name, so that
  it is longer than what the name grows by when the extension does not change
  (lemma `DisplacingRenameSucceeds`).

- `StorageIsADictionary`: the refinement of `RecordStore`, one lemma per operation. From `IInv`
  a set of records is a function from their names (`Entries`), and each thing
  an operation does to the set is one to the function: a slide leaves it as it is, an addition,
  a removal, a new name or a new size changes it at one name. The difficult
  cases are the operations that go on after making room, destroying a competitor or both: the
  mapping takes the step of the dictionary with the hidden entries already lost.
- `DisplacementsAreAllowed`: `DisplacementIsAllowed` is true of every step of the dictionary,
  and so of the storage.

Only model checked: `SweepEnds` (liveness is out of the prover's reach).

## 4. The persisting bytes

### Modules

- `PersistingBytes` – the log of values in flash and its compaction
  (`persisting_bytes.cpp`).
- `PersistentRegisters` – what it promises: a register for each entry, torn only
  by a reset during a write of it, or while the sector is moved.
- `MCPersistingBytes` – the instance TLC checks.
- `PersistingBytesProofs` – the proofs.

### State and actions

`flash` gives each slot the set of its bits that are 1. A value written over another
leaves the intersection, and an erasure sets every bit of both entries. The
scan of `read` and the choice of the slot (`Last`, `Target`, `Decide`) are the code's;
`call` is the call under way, cut at each flash operation: `init` (the default
value of a blank row), `program`, and for a full row `save` (which reads the other entries, hence
may initialize them), `erase`, `rewrite`, `final`. A `Reset` during a flash operation
leaves some of its bits done (`Between`): any value between the old and the new one, and any
value at all with at least the old bits during an erasure. The local buffers of
the call are lost with it.

The default name is one zero byte: a write of less than the entry is a value
whose other bits are 1. The kernel's flash calls are external; their results, which the code ignores,
are taken to be successes.

### Runs

`persisting_bytes`: the device name, of one slot, which nothing but its
initialization and the compaction writes, and the exam bytes, of three slots and
four values that are never all ones. Three slots are enough for a write in
place, an appended one, a full row and the first write after a compaction; the
real row has 32256. Three bits tell a torn value from both the old and the new one.

- `WriteTakes`: every slot about to be programmed has at 1 the bits it needs, and is the last in use.
- `ImplementsPersistentRegisters`: a finished write is read back, the other
  register is untouched, and a reset outside a compaction leaves the old value
  or one with all the bits of the new one. Fairness is not needed: the promise
  says nothing of a write that never goes on.

A reset during a compaction (`persisting_bytes.cpp:148`) may also leave a device name
that nothing terminates, which the assertion of `device_name.cpp:19` excludes: the
refinement allows it, since the name is then a torn register.

### Proofs

For any set of entries and bits, any number of slots per entry and any values
that are not blank (`EntriesAssumption`):

- `BytesInvariance`: `IInv` adds to the types what each step of a call finds (`CallOK`):
  a blank row to initialize, a slot that fits the value, rows that hold what was
  saved when the sector is erased, and, while they are rewritten, blank rows for
  those left and the saved value in the others. It is inductive because a
  value that fits becomes the last one of its row (`WrittenIsRead`) and a torn one
  still leaves a row the next call can append to.
- `WritesTake`: every write the calls prepare fits (`PendingFits`).
- `BytesAreRegisters`: the refinement, one lemma per action (`ReadMaps` to
  `ResetMaps`). A compaction maps to one step, when the values are saved: until it
  ends the registers are what they will be.

## 5. The keyboard queue

### Modules

- `KeyboardQueue` – the queue between the scan of the keyboard and the event loop
  (`keyboard_queue.cpp`, `ring_buffer.h`).
- `LossyQueue` – what it promises: a bounded queue that forgets its oldest element.
- `MCKeyboardQueue` – the instance TLC checks.
- `KeyboardProofs` – the proofs, with those of the key events (section 12).

### State and actions

`ring`, `busy` and `aside` are the members of `Queue`. A pop or a reset is a sequence
of actions, one for each access to memory (`call.step` is the next one), since a scan
may interrupt it anywhere; `call` also holds its registers: `Take` reads the start
and the length that `StoreStart` and `StoreLength` write back, in either order. The push of
the interruption is one action, `Push`: nothing interrupts it. `during` and `tick`
are history variables, for the properties.

`StoresBusy` tells two builds apart. In one with assertions the code between
`m_busy = true` and `m_busy = false` may reach a function that reads memory, and the
store is there. In a release build nothing reads `m_busy` in between; it is neither
volatile nor atomic, and a compiler may remove the first store. GCC does with `-Os
-DNDEBUG`, the optimization level the build asks for.

### Runs

`keyboard_queue`: three states, a ring of three (five in the code: one that is neither
full nor empty is enough to tell its two ends apart, and it wraps around), the
store of `m_busy` kept and at most one scan during an operation. Scans are
milliseconds apart and an operation lasts microseconds. With two of them a state put
aside may be replaced, overtaken or pushed as `State(-1)`: the code has one place only.

- `AsideIsPushed`: a state put aside does not stay there.
- `ImplementsLossyQueue`: in order, once, and lost only by a full ring or a flush. A pop
  takes effect when it begins; a state put aside counts as queued.

With `StoresBusy = FALSE` TLC finds `ImplementsLossyQueue` violated: a scan during a pop
enters a ring whose start and length the pop then overwrites, and its state is lost,
against what the comment of `keyboard_queue.h:35-37` says. It is a question about a build and
not about the source, so no run keeps it.

Fairness: `WF_vars(Continue)`: an interruption returns to what it
interrupted. Pops, resets and scans may never come again. Deadlock is checked.

### Proofs

For every set of states, every capacity and both values of `StoresBusy`, with at
most one scan during an operation:

- `QueueInvariance`: `IInv` says that something is aside only if it was pushed during
  the current operation (`AsideOK`), which is what leaves nothing aside at its end, and that
  a pop still has its element while it runs (`PopOK`), which is what keeps the length
  from going below zero.
- `TypeCorrect` and `RestsClean` (an operation leaves neither a busy queue nor a state
  aside) are parts of it. They hold without the store too: the release
  build loses a state, but never leaves the ring's bounds.

- `QueueIsLossy`: `ImplementsLossyQueue`, for a build that keeps the store of `m_busy`, which is a
  hypothesis because TLC breaks it in the other one. Its invariant `RInv` relates the queue that is
  promised to the ring at each instruction of a pop: what `Take` read is still at the place it read
  it from, as the scan that comes meanwhile stays aside and touches neither the ring nor its ends.

Only model checked: `AsideIsPushed` (liveness).

## 6. The exam mode

### Modules

- `ExamSession` – what changes the exam mode, from the event loop to the flash
  (`exam_mode.cpp`, `exam_mode_manager.h`, `apps_container.cpp`, the exam pop-up, the
  exam settings). It is above `PersistentRegisters`: what `PersistingBytes` is
  proved to implement is all it knows of the flash. Of the storage it keeps what
  `RecordStore` promises, a set of records and one set aside.
- `MCExamSession` – the instance TLC checks, and what the code asserts and comments say
  that turns out not to hold.
- `ExamSessionProofs` – the proofs.

### State and actions

The mode exists three times: in the persisting bytes (`register`), in the record of
`ExamModeManager` (`manager`, with the flag that only a computer sets), and in what it
did to the storage (`visible`, `hidden`). A mode is the set of its bits, as the
bytes hold it, because a reset in the middle of a write leaves a value with some
bits too many, and what `get` makes of that is the question.

`call.at` is where the program stands, and `call` also holds the arguments of
`setExamMode`: `set`, `bytes`, `writing` (the flash), `records`, back to `loop`; `boot`
and `run` before it; `dfu` and `reload` for `openDFU`, whose `activeExamMode` is
`call.previous`. `get` repairs what it reads (`Repair`, `Repaired`) before `Boot` or
`DidExecuteDFU` goes on, since it calls `set(Off)` itself. A `ResetButton` may come between any
two steps: it loses the memory, and the storage with it. `earlier` is a
history variable, the records the user had when the exam began. A reset may come back on another firmware, so that the
clearance level after it is any.

A computer that writes by DFU (`HostWrites`) replaces the records it can see, the mode
and the flag, and may bring external applications, which lower the clearance level. It writes Off or the mode in
force during an exam, any mode otherwise; `HostSwitches` lets it replace an exam by another
one. `HomeJumps` lets the home key leave `setExamMode` in the middle by the long jump of its
checkpoint.

### Runs

`exam_session`: neither of the two; one ruleset with a color, the press-to-test mode
with its flags, one value that stands for `Uninitialized`, one that no ruleset has (two bits of
data); two records; two resets, so that a reset may tear a write and another one the
repair of what the first left. All of some 60,000 states are visited.

- `CopiesAgree`: in the event loop the record and the bytes hold one mode.
- `ExistingDataUnavailable`, `HiddenOnlyDuringExam`, `DataComesBack`: the user's records are hidden
  during an exam, only then, and come back whole (or not at all, if room was needed) with
  nothing of what was entered in between.
- `DisablesOnce`: the assertion of `disableAllRecords`.
- `ExamOnOfficialFirmware`: no exam goes on with external applications.
- `LedShowsExam`: the LED is locked in the modes with a color and in no other.

`exam_interrupted` adds both, for what they must not break (some 550,000 states):

- `OnlySettingEndsExam`: the flash stops to hold an exam only while `setExamMode` ends it, or
  when a reset hits the move of the bytes at the beginning of one.
- `ExamGoesOn`: an exam in the bytes is in force again after the boot.

`exam_home` shows a disagreement with what the user is told: "All your existing data will
be unavailable during exam mode" (`apps/shared.en.i18n:6`). The home key between
`SetExamMode` and `disableAllRecords` (`apps_container.cpp:112` and `:121`) leaves the
records accessible in an exam.

Others follow from the model, without a run of their own. A torn value that is no ruleset is
taken for an exam by `exam_mode.cpp:109`, where `exam_mode.h:41` asserts that it is one. `get`
repairs by a call of `set` (`exam_mode.cpp:43`) that the assertions of `set` (lines 75-77) exclude.
With `HostSwitches`, `DisablesOnce` fails. The first assertion of `openDFU`
(`apps_container.cpp:524`) cannot hold in its branch, since `get` answers Off without official
firmware. The invariants are stated for a build without assertions, where the code goes on.

Fairness: `WF_vars(Continue)`, the steps the program takes by itself, one thread that
nothing blocks; flash operations end, and the power comes back. The user, the computer, resets
and the home key may never come. Deadlock is checked.

### Proofs

For every set of rulesets, flags and records and any number of resets, under
`ExamAssumption` and with `Quiet` (neither `HostSwitches` nor `HomeJumps`, which break these properties)
except where said:

- `ExamInvariance`: `IInv` says for each place the program may be at what the steps before it have done:
  at the boot nothing is in memory (`BootOK`), the write under way is that of the call in progress or of a
  repair (`WritingOK`), the four ways to call `setExamMode` and what each finds
  (`CallOK`), how much of it is done (`ProgressOK`), and what DFU can have changed (`DfuOK`). The
  properties of the event loop need all of it, since a mode travels through these steps.
- `TypeCorrect` (a mode in force is never `Uninitialized`), `CopiesAlwaysAgree`, `DataHiddenDuringExam`,
  `DataHiddenOnlyDuringExam`,
  `DisablesOnlyOnce`, `ExamsAreOfficial` and `LedAndReloadCorrect` (`LedShowsExam`, and the second
  assertion of `openDFU`) follow from it.
- `DataAlwaysComesBack`: from `IInv` and `HiddenOK`, that all of what the user had is hidden or nothing is.
- `ExamLeavesFlashOnPurpose` does not need `Quiet`: its invariant `KInv` says only what a write of the bytes
  under way is for (`setExamMode`, or the repair of what is no exam).

Only model checked: `ExamGoesOn` (liveness).

## 7. The circuit breaker and the expression pool

### Modules

- `CircuitBreaker` – the table of the places a key press may jump to
  (`circuit_breaker.cpp` of the simulator, whose source is there; the device's is in the kernel).
- `PoolCheckpoints` – the pool of the expressions under its checkpoints
  (`poincare/src/pool`).
- `MCPoolCheckpoints` – the instance TLC checks.
- `PoolCheckpointsProofs` – the proofs.

### State and actions

`CircuitBreaker` declares the breaker's state (`place`, `locks`, `remembered`) and its
operations as functions of it (`Unset`, `UnsetLower`) or as conditions on a step
(`Remember`, `Jump`); who calls them, and where a jump lands, is up to the module that extends
it.

In `PoolCheckpoints` an object is a record with its place, its size and its count;
`objectOffset` is the table of identifiers, `handle` what the handles of each scope hold. A
`frame` is a scope of the call stack that begins with a checkpoint. The construction of an
object is two actions (`Alloc`, `Name`) and the death of one is three (`Discard`,
`Compact`, `RegisterDownstream`), because a key press (`Interrupt`) may jump out between
them; so is a jump itself (`LandAt`, `Restore`, and `Tidy` for what the code does first after it). `Raise`
jumps to the nearest exception checkpoint, and unsets the places of those it discards.

`Careful` is the rule that the comments of `pool_checkpoint.h` and `pool_handle.h` ask the
callers to keep: inside a checkpoint, a handle declared before it is not changed to or from an
object created before it. With `Careful = FALSE` TLC breaks `HandlesNameObjects`, in the way that
`poincare/test/pool/pool_handle.cpp` tests on purpose.

### Run

`pool_checkpoints`: three identifiers, a pool of three units, objects of one or two, one
handle in each of three nested scopes. That is enough for an object below, between and above
two checkpoints, for a compaction that moves one object, and for every pair of kinds of
checkpoint inside the home checkpoint. The program may stay idle, so deadlock is not looked for.

- `PoolWellFormed`: the pool can be walked, and the table gives each identifier its object.
- `JumpTargetsAlive`: neither an exception nor a key press jumps to a scope that was left.
- `CheckpointedPartUntouched`: below a checkpoint nothing changes, even in the middle of a
  compaction; `JumpRestores`: a jump from anywhere gives back what its checkpoint saw.
- `CountsAreExact`: a count is the number of handles, those inside a younger checkpoint excepted.
- `HandlesNameObjects`: no handle names a freed object.

No fairness is assumed.

### Proofs

For every capacity, every set of sizes, any finite number of handles in each scope and any depth:

- `PoolInvariance`: `IInv`, whatever the code does with its handles. `FramesOK` orders the places of the
  breaker as the checkpoints are nested (without it, unsetting the places of what is discarded might leave
  one inside), `EndsOK` orders what they remember, `Geometry` says that the objects lie one after the other
  even in the middle of an operation, `TableOK` says for each step of each operation which
  objects the table knows (all, all but the one that is made or dies, those below the compaction, none while
  a jump is taken), and `SawOK` that what a checkpoint saw ends where it says. All are needed
  together: a compaction leaves what was seen alone because it starts above the end of
  the topmost checkpoint, and the table is rebuilt from there.
- `PoolIsWellFormed`, `JumpsStayInside`, `SeenPartIsUntouched` and `JumpsRestore` (`JumpRestores`) follow. The
  first one includes that `nextFreeIdentifier` finds an identifier: contiguous objects of positive size
  are at most as many as the pool has units (a counting by their places).
- `HandleInvariance`: under `Careful`, `HInv` adds that the handles name objects that are there, the one being
  made or dying excepted, and that the counts are exact, except while a jump is taken.
  `CountsStayExact` and `HandlesStayValid` follow. `Careful` is a hypothesis since these are false without it.

Nothing of this component is only model checked.

Met while modelling: a checkpoint of a type that is set already is ignored, and its
destructor unsets the type of the outer one (`circuit_breaker_checkpoint.h:20`).
`solver/list_controller.cpp:214` nests two for Back, the inner one "to skip solving and go
straight to interval selection" (line 212): Back jumps to the outer one instead, and to
none once the inner one is left. The home key may jump out between `Pool::Lock` and `Unlock`
(`apps_container.cpp:380-382`), out of `switchToBuiltinApp` (`escher/src/container.cpp:22-24`), and over
`apps_container.cpp:288-292` from an external application. The checkpoints whose landing
does not tidy handles (`values_controller.cpp:512`, `interval_controller.cpp:98`,
`additional_results_controller.cpp:85`, `interactive_curve_view_range.cpp:379`) were not
examined one by one: `Tidy` supposes that what they leave is not read.

## 8. The calculation history

`CalculationStore` (`omg/store.h`, `store_impl.inc`, `calculation_store.cpp`), above
`CircuitBreaker`; `MCCalculationStore` is its instance, `ApplicationProofs` holds the proofs.

`memory` is the buffer byte by byte: whose byte it is, and which, or an offset written from
the buffer's end. `doing` is the operation under way; each of its actions is one write to memory
(`MoveByte`, `MoveOffset`, `WriteByte`, `RegisterElement`, `CountElement`), and the home key
may jump out between any two of them (`Interrupt`). A deletion locks the breaker: the
key is remembered, and taken by `EndDeletion`. A push is not locked. `history` and `before`
only serve the properties: what was pushed in full and not deleted, now and when the push began.

`calculation_store`: calculations of 1, 3 and 9 bytes, offsets of 2, a buffer of 11. Nine is
the largest that fits, alone; ones and threes fill the buffer in several ways. `CHECK_DEADLOCK` is on.

- `StoreReadable`: "Should an interruption occur, all the temporary states are silently discarded
  and no ill-formed element is stored" (`store_impl.inc`), at each step where a jump is possible.
- `AreasDisjoint`: elements and offsets never meet.
- `PushKeepsTheMost`: a push deletes no more of the oldest calculations than it must.
- `RememberedIsTaken`: a key remembered during a deletion is taken.

Fairness: `WF_vars(Operation)`, an operation goes on in the thread that began it. Pushes,
deletions and keys may never come.

Proved for every size of the buffer, of the offsets and of the calculations, from
`StoreAssumption` alone:

- `StoreInvariance`: which bytes are in place at each write. `Holds` is a buffer that reads as a
  sequence of calculations, elements in order below their offsets. Neither property is inductive
  without `Moves`, for a deletion in progress leaves a buffer that reads as nothing: it is
  described by the buffer it began with, of which a part of the bytes, then of the offsets, is
  already moved. `WriteOK` says that what a push has written lies between the last element
  and the offsets, `DoingOK` that the breaker is locked exactly during a deletion and that what is
  pushed fits alone, so that there always is something to delete until it fits.
- `StoreStaysReadable` (`StoreReadable`), `AreasStayDisjoint` (`AreasDisjoint`) follow.
- `PushKeepsMost` (`PushKeepsTheMost`): what a push began with is what it
  deleted followed by what is left, and the size of the part that is left grows with each calculation
  put back in front of it. When the last deletion was made there was no room, so
  there is none with that calculation or with more of them.

The place of an offset is a product by their size: one lemma (`SlotsAreApart`) orders these places
and nothing else multiplies. `RememberedIsTaken` is liveness and is only model checked.

Not in the model: `updateElementAtIndex` and `makeElementLast`, which the program does not
call. Met while modelling: a home key during a push leaves the elements deleted for room
deleted (`calculation_store.cpp:368`), which `StoreReadable` allows; `push` accepts a size
equal to `maximumSize()` (`calculation_store.cpp:352`), which the assertion of `store_impl.inc:23`
excludes and the code without assertions handles.

## 9. The tree stack and its references

`TreeReferences` (`poincare/src/memory`: `block_stack`, `tree_ref`, `tree_stack_checkpoint`, the
motions of `tree.cpp`); `MCTreeReferences` is its instance, `TreeReferencesProofs` holds the proofs.

`table` gives each identifier an offset, `ref` each reference an identifier, `frames` are the
Try blocks. A tree is any run of blocks; what they hold is left out. A motion is computed on the
stack as a sequence of block identities, so that `names`, the block each reference names, follows the
blocks themselves while `table` follows the formulas of `updateNodes`. `Raise` cuts
both, `Rollback` is the checkpoint of the pool that flushes everything.

`tree_references`: four blocks, two references in each scope, two Try blocks nested, a table
of two: insertions, motions to either side, replacements by shorter and longer trees, a full
table, and slots that are given back in and out of a Try. Deadlock is looked for.

- `ReferencesFollow`: a reference leads to the block it named, the one that took its place,
  or nothing.
- `IdentifiersNotShared`: no identifier is given again while its owner lives.
- `MoveOverInvalidates`: what was inside a tree that is moved over names nothing.

No fairness is assumed.

Proved for every size of the stack and of the table, any number of references and any depth,
without other hypotheses than that these are positive (the depth may be 0):

- `StackInvariance`: `ReferencesFollow` is kept by the editions (`InsertBlocks`, `MoveBlocks`,
  `RemoveBlocks` and what is composed of them) because the formula of `updateNodes` is the permutation
  that the motion makes, at every offset of the stack and not only at those that are named: one lemma
  for each edition says so. It is not inductive alone. `Owned` says that a reference is the
  only one to hold its identifier, and that this one is not destroyed; `LastIsKept` and
  `FramesKeepReferences` are what brings the table back after an exception: a Try keeps a prefix
  of the table that holds the older references, none of the younger ones holds the last identifier
  of it, and so no destruction makes the table shorter than it; `FramesInside` and
  `TopmostIsDepth` say that the Try blocks are nested and what they remember is still there.
- `ReferencesLeadToTheirBlock` (`ReferencesFollow`), `IdentifiersStayOwned` (`IdentifiersNotShared`) are parts of it.
- `MovingOverInvalidates` (`MoveOverInvalidates`): where the motion puts the block is inside what the
  removal takes away, on either side and in the nested case.

Met while modelling, and described by the model as they are: `cloneOver` with a shorter clone
(`tree.cpp:710`) leaves a reference to the first removed block naming the tree that follows,
since `removeBlocks` works "at" the block (`block_stack.cpp:116`), where `block_stack.h:85-86` promises
an invalidated one; `MoveOverInvalidates` is therefore stated of `moveOver` only. A key press
in a Try leaves `s_topmostTreeStackCheckpoint` in a dead frame (`pool_checkpoint.cpp:28`, against
`tree_stack_checkpoint.h:29-30`), and a `Raise` outside every Try would jump there: `topmost = Stale`, of
which the model says no more. A slot given back inside a Try and taken again lies below the
length the Try saved, and leaks on an exception. `operator=(nullptr)` leaks an
identifier; nothing uses it. Motions are kept right of what the Try saved, as the TODO of
`tree_stack_checkpoint.h:100-102` asks.

## 10. The function cache

`FunctionCache` (`continuous_function_cache.cpp`, `continuous_function.cpp`, the graph's view);
`MCFunctionCache` is its instance, `ApplicationProofs` holds the proofs.

`caches` are lent by index among the active functions; `cacheOf` is the pointer that stays in a
function until something takes it back. `toDraw` and `drawn` are the drawing under way. The back key
stops one function's drawing between any two stores (the checkpoint of `function_graph_view.cpp:43-54` covers
all of `drawRecord`): before or inside the preparation of its cache, in the middle of clear or
pan included (`InterruptEarly`), between the two coordinates of a point (`InterruptFill`), or elsewhere
(`InterruptRecord`). The home key stops the whole drawing (`Reopen`). `DrawRecord` prepares the cache (clear, pan or
keep), `EvaluateXYAtParameter` looks up and fills a cell; the other actions are what happens to
functions in the list and in the menus. Parameters are integers in units of
`k_cacheHitTolerance`, and a hit is exact. A derivative is a function of its own.

`function_cache`: two functions, one cache of four cells, three starts and two steps, two
Cartesian definitions, a parametric one and a vertical line; some four million states. One
cache for two functions makes every change of the active ones move it; a ring of four is
panned by part, across its end, and by more than its size. The vertical line stands for all that is
not cached: both steps are. The view (`MCView`) forgets the cells of spoiled
caches, on which neither the properties nor the sound part of the behaviour depend until they are cleared.

- `CachedValuesAreTrue`: a value that is read is the function's own, at that parameter.
- `LookupsAreReady`: the assertions of `indexForParameter` (lines 119 and 139).

Both have one exception, the caches in the history variable `spoiled`: what a stop in `InterruptEarly` leaves
to its function, a cache of another place or half prepared. `DrawRecord` takes a cache out
when it clears it for its function and no other keeps a pointer to it (`Restored`), a new definition
and leaving the application take all out. Every other stop is covered by the claims. The exception is
needed; without it TLC finds, in a few steps:

- a stale pointer: B is shown again in front of C, the drawing of C is stopped before
  `PrepareForCaching` (`graph_view.cpp:71` to `:124`), and C reads the cache that is now B's;
- no step: a drawing is stopped between `setCache` and `setRange` (`continuous_function_cache.cpp:48-55`), and the
  cursor divides by the zero that `clear` stored, although the comment of lines 116-118 says that the
  step was set "before any evaluation";
- stale cells: a drawing is stopped in `pan` after `m_tMin = newTMin` (line 170) and before the cells are
  invalidated, and the old ones are read at the new abscissas.

Without fairness. A function whose cache fails the assertions is not evaluated any further in the
model (`Ready` guards the evaluation): the build with assertions stops there.

Proved for every number of functions, of caches and of cells, any definitions, windows, steps and
parameters, wherever the drawings are stopped:

- `GraphInvariance`: a pointer to a cache may be stale only in a function that waits to be
  drawn (`Trusted` says which are not). `DrawnAtHome` is what makes this inductive: a function that
  the drawing under way has passed, interrupted or not, holds the cache of its own place or none;
  since two active functions have two places, no two of them share a cache when the
  drawing ends (`OneOwner`), and the places may change again. `InactiveHoldNothing` is why a
  function comes back without a pointer, `TrustedFit` what the assertions need.
- `LookupsStayReady` (`LookupsAreReady`) follows.
- `CachedValuesStayTrue` (`CachedValuesAreTrue`), if moreover two steps that are not `TooFine`
  differ by more than the tolerance (`StepsAreApart`, the one hypothesis): a smaller change of step keeps cells that
  were computed a little elsewhere, which the code accepts. The invariant `TrustedTrue` adds the values
  of the cells to what is trusted; `PanKeeps` and `RingShift` say that the cell of a parameter that
  stays in the window is the same before and after the ring turns, in either direction
  and across its end; `Hit`, that a cell is only found for a whole number of steps.
  `PartlyClearedIsMemo` and `PartlyPannedIsMemo` say that a half prepared cache is one
  the next preparation can start from.

The instance satisfies the hypothesis (`TheoremsApply` in `MCFunctionCache`), and the invariants were
checked on it before they were proved.

Left out: a stop between the store of `m_startOfCache` and its correction when negative (lines 189-192), taken as one
store; the absolute tolerance on the step (256 `FLT_EPSILON`) and the drift of many pans smaller than the grid.

## 11. Big integers

`BigIntegers` (`integer.cpp`), above `Digits`, which holds the columns of the operations;
`MCBigIntegers` is its instance, `IntegerProofs` holds the proofs.

A number is its sign and its digits, least significant first, two half digits each. The arithmetic
is functions, column by column (`Usum`, `Mult`, `Udiv` with its corrected
quotient digits); the loops that call it and may be left by an overflow are actions, one turn each
(`GCDTurn`, `PowerTurn`, `FactorialTurn`, `ParseTurn`, ...). The working buffer, the estimate
that `numberOfBase10Digits` starts from and the serialization are left out.

`big_integers`: digits of six bits, two per number, operands next to every boundary: some 120,000
states. Six bits are the least at which a quotient digit is corrected twice. A call ends, so
deadlock is not looked for.

- `ResultIsExact`: a result is what the integers of TLA+ say, in its canonical form, or an
  overflow where one is due, except for the sums whose carry is lost.

The exception is a defect: "There's been an overflow" (`integer.cpp:507`) deduces the carry from the
truncated column, and misses it when a carry enters a column of two largest digits:
(2^64 - 1) + (2^64 - 1) gives 2^64 - 2.

### Proofs

`ResultsAreExact`: `ResultIsExact` for every width of the digits, every largest number of digits and
every set of calls. What is assumed of the constants, and why the code justifies it:

- `DigitsAssumption`, `IntegerAssumption`: a half digit is a number of bits, at least one (the
  code's have 16), a number at least one digit (`k_maxNumberOfNativeDigits`), and ten is a digit,
  which the loops on decimal digits use.
- `CallsAssumption`: operands are canonical integers of at most `MaxDigits` digits, as every
  `Handler` the code builds; the denominator of a division is not zero (`integer.cpp:635`), an exponent
  and the argument of a factorial are not negative (`integer.cpp:847`, `886`), and the digits of a
  text are below its base.

The argument goes up from the digits. A number is the sum of its digits times the powers of the
base (`Upto`, `Total`).

1. `CarryIsLostOnlyBetweenLargestDigits` and `BorrowIsExact`: a column of a sum or a difference gives the right
   digit and carry, but for the one case of the defect; `ProductFitsDoubleNative`: a column of a
   product fits the double width, whatever carries and is there already. They follow from one lemma, that a
   remainder is found by one subtraction or addition (`ReduceOnce`).
2. `Carrying`: if each column of a result is exact with the carries between the columns, the number is,
   with what is left over at the top. Sums, the rows of a product and the shifts
   are its instances: `ComparisonIsExact`, `SumIsExact`, `MultIsExact`, each with the overflow raised exactly
   when the value has more digits than fit, though the code computes only the digits that fit.
3. `UdivIsExact`: the denominator is shifted until its highest half digit is large; then the
   half digit that is tried is never less than the right one, each turn of the correction adds the
   denominator back once and the turns stop at the right one, and no intermediate result needs
   more than the one digit over the maximum that `oneDigitOverflow` allows. `DivisionIsExact` adds the signs.
4. The loops have an invariant each, which says what the variables still determine: `GcdLoop` (the
   greatest common divisor of the two numbers), `PowerLoop` (the product of what is left by what is done),
   `FactorialLoop`, `ParseLoop` (the value of the part of the text that was read), `Base10Loop`, `ZeroesLoop`. An overflow
   inside a loop is due only if the final result overflows, which holds because the
   values met on the way divide or are below the result.

The inductive invariant is `ExactInv`: the call is one of `Calls`, a loop under way satisfies its
invariant, and `ResultIsExact`, which alone says nothing between the call and the return. A product of
variables is given a name before a bound is drawn from it, since the provers' arithmetic is linear.

## 12. Key events

### Modules

`KeyEvents` (of `shared/ion/src`: `shared/keyboard.cpp`, `shared/events.cpp`, `shared/events_modifier.cpp`,
`simulator/shared/keyboard.cpp`, `simulator/shared/events.cpp`, `simulator/web/keyboard_callback.cpp`; then `apps_container.cpp`, `apps_container_shortcuts.cpp`, `run_loop.cpp`, `python/port/helpers.cpp`),
`MCKeyEvents` and `KeyboardProofs`. The queue is the bounded one of `LossyQueue`.

### State and actions

`host`, `page` and `prefix` are the keys that are held; `scanned` is the `sState` of the last scan;
`keyboard` is `Events::State`, `mods` and `idle` the modifiers and whether Idle was sent,
`active` the shortcuts that were held. The program is one thread: `at` says whether it polls,
pops, sleeps, dispatches, or runs a script. The handlers of the browser (`KeyDown`, `HostUp`, ...)
run when it sleeps. `PressKey`, `ReleaseModifier`, `NothingNew` take one state from the queue
each; `WaitScan` scans, `Repeat` and `Timeout` end a wait (a delay may have elapsed or not);
`DispatchTimer` and `Dispatch` look at the shortcuts first; `Drain` is a script that looks for the
key that interrupts it. `owed`, `taken`, `armed` and `shown` are history variables. The handlers may run any
number of times whenever the program sleeps.

### Run

`key_events`: Shift on the host, Alpha and Backspace on the page, one prefix key (two in the code,
held and released alike), two shortcuts, a queue of two, two keys held at a time, any number of calls of the browser between two
scans; some nine million states. The view (`MCView`) forgets the key of the last event when that event is not
repeated, and the shortcuts that may fire again at once. The program may have nothing to do, so deadlock is not looked for.

- `PressesAreReal`: an event answers a press that no other event has answered, whatever the queue forgets.
- `ReleasesAreSeen`: once all is popped, a key that is taken to be down is held, or a
  script took its release (`taken`), or it is a key of the host that only the page has shown (`shown`).
- `FiresOnce`: a shortcut that "fires once per press" (`shortcuts.h:80`) needs a release in between.

`shown` is one missed release, and needed: without it TLC finds a key of the host that goes down, is contained
in the state that a handler of the page pushes (`keyboard.cpp:174-186`), and goes up before the next scan;
that scan finds what the last one found, pushes nothing (`shared/keyboard.cpp:31`), and the key stays down for the
events until the next change. The property says that there is no other, however many handlers run
in one sleep or after a long computation. No fairness is assumed.

### Proofs

`ShortcutsFireOnce`: `FiresOnce` for every set of keys, hands and shortcuts and every bound,
from the inductive `SeenIsHeld` (`SeenStaysActive`): a shortcut that was seen and not released since is
still held and still remembered. It does not depend on the queue, since the shortcuts scan themselves.

`PressesAnswerPresses`: `PressesAreReal`, for every length of the queue, from `PressesSuffice`. The
watched key goes down a number of times from the last decoded state through those of the queue
to what a scan would find now; the presses that no event has answered are at least as many (`Affords`), and
forgetting a state or taking one out can only lower that number. The hypothesis `Watched \notin
HostKeys \cap PageKeys` is needed: a release on the page of a key that the host holds too
pushes a state without it, and the next scan one with it, a press nobody made.

`ScansSeeReleases`: `ReleasesAreSeen`, from the inductive `ReleaseInv` (`ReleasesShow`): a key of the last state that
the program knows of was seen by the last scan, is held on the page, or is in `shown`. The handlers of the page
push what they change, and a scan that finds nothing new sees again what it saw. It has no hypothesis.

### Met while modelling

- A script takes states out of the queue (`helpers.cpp:73-88`): a release during it is never seen,
  the next press of that key gives no event, although `events.cpp:182-183` takes the queue to be all
  there is, and a repeatable key would repeat. `taken` is this exception.
- "Once per press": a release is no event, so a quick second press between two dispatches is missed.
- In prefix mode a press on the page pushes its key alone and the next scan pushes all that is held:
  presses nobody made, of the prefixes and of keys of the page held meanwhile. `owed = Any` is this exception.
- Two keys that go down in one state give one event; a press in the state that releases a used Shift
  gives none.
- The wait of 10 ms per scan makes repetitions come at about half the intended delay; a Backspace of
  the platform may repeat while another key is held (the TODO of `events.cpp:102-114`); a key of the page
  is released only above its own element.

## 13. Not modelled

CRC collisions of names; the contents of values; the magic words around the
buffer; the simulator's loading of a state file; the results of the flash calls, which the code
ignores (`persisting_bytes.cpp:159`); a renaming from one restrictive extension to another of the
same base name, which would destroy the record itself (`file_system.cpp:470`) and which no
application does; a second scan during one operation of the queue, whose state would replace the
one aside (`keyboard_queue.cpp:18`).

Partly modelled, with what is left in `PROJECT.json`: the waits of the device and long presses, what
the shortcuts' actions do, the keyboards of the other simulators, the run loop beyond one step
(`Timer::setNewTimeout` below the tick gives a period of zero), the switches of applications.

Never to be modelled: the reduction, simplification, approximation and layout of expressions, which
are sequential functions on unbounded trees, where a small instance says no more than the
tests of the repository do; the interpreter of Python, which is third-party code and by far the largest
part of the sources; drawing, views, drivers, generated and vendored code. That is why the mapped
lines are a small share of the repository: what is left has no state that a second actor, a
failure or an order of calls could put in danger. Every part is listed in `PROJECT.json` with its
reason, and so are the hazards.
