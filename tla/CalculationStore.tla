-------------------------- MODULE CalculationStore --------------------------
(***************************************************************************)
(* The history of the calculation application: elements of various sizes   *)
(* in one buffer, whose ends are written as offsets from its other side    *)
(* (shared/omg/include/omg/store.h, shared/omg/src/store_impl.inc,         *)
(* epsilon/apps/calculation/calculation_store.cpp).                        *)
(*                                                                         *)
(* The home key may jump out of the application between any two writes to  *)
(* the buffer.  A deletion locks the circuit breaker for as long as it     *)
(* moves elements; a push does not, and relies on the order of its writes. *)
(***************************************************************************)
EXTENDS CircuitBreaker, Integers, Sequences, SequencesExt

CONSTANTS
  Calculation,   \* the calculations that are pushed
  SizeOf,        \* neededSizeForCalculation
  BufferSize,    \* m_bufferSize
  SizeOfOffset,  \* sizeof(Offset)
  NoCalculation  \* the owner of the bytes of an offset

ASSUME StoreAssumption ==
  /\ SizeOf \in [Calculation -> Nat \ {0}]
  /\ SizeOfOffset \in Nat \ {0}
  /\ BufferSize \in Nat /\ BufferSize > SizeOfOffset
  /\ NoCalculation \notin Calculation

VARIABLES
  memory,            \* m_buffer, byte by byte: whose byte, and which
  numberOfElements,  \* m_numberOfElements
  doing              \* the operation under way

VARIABLES  \* only to state the properties
  history,  \* the calculations pushed and not deleted, oldest first
  before    \* what it was when the last push began

storeVars == <<memory, numberOfElements>>
vars == <<storeVars, doing, breaker, history, before>>

Address == 0 .. BufferSize - 1
Byte == [of : Calculation \cup {NoCalculation}, at : Nat]
Idle == [op |-> "idle"]

\* offset(i)
OffsetBytes(i) == BufferSize - SizeOfOffset * (i + 1) .. BufferSize - SizeOfOffset * i - 1
OffsetAt(i) == memory[BufferSize - SizeOfOffset * (i + 1)].at
WriteOffset(i, end) ==
  [x \in Address |-> IF x \in OffsetBytes(i) THEN [of |-> NoCalculation, at |-> end] ELSE memory[x]]

EndOfElementAtIndex(i) == OffsetAt(i)
ElementAtIndex(i) == IF i = 0 THEN 0 ELSE EndOfElementAtIndex(i - 1)
EndOfElements == ElementAtIndex(numberOfElements)
OffsetArea == BufferSize - SizeOfOffset * numberOfElements

MaximumSize == BufferSize - SizeOfOffset
\* Mutant: no room is kept for the offset
RemainingSizeOfElements == OffsetArea - EndOfElements
RemainingSize == IF EndOfElements + SizeOfOffset < OffsetArea
                 THEN OffsetArea - EndOfElements - SizeOfOffset ELSE 0

----------------------------------------------------------------------------
\* deleteElementAtIndex(i), on behalf of the push of c or of the user

\* Mutant: a deletion that does not lock
BeginDeletionUnlocked(i, c) ==
  /\ doing' = [op |-> "move", index |-> i, pushed |-> c, offsets |-> i, moved |-> 0,
               start |-> ElementAtIndex(i), end |-> EndOfElementAtIndex(i),
               shifted |-> EndOfElements - EndOfElementAtIndex(i)]
  /\ UNCHANGED <<storeVars, breaker, history>>

BeginDeletion(i, c) ==
  /\ locks' = locks + 1
  /\ doing' = [op |-> "move", index |-> i, pushed |-> c, offsets |-> i, moved |-> 0,
               start |-> ElementAtIndex(i), end |-> EndOfElementAtIndex(i),
               shifted |-> EndOfElements - EndOfElementAtIndex(i)]
  /\ UNCHANGED <<storeVars, place, remembered, history>>

MoveByte ==
  /\ doing.op = "move" /\ doing.moved < doing.shifted
  /\ memory' = [memory EXCEPT ![doing.start + doing.moved] = memory[doing.end + doing.moved]]
  /\ doing' = [doing EXCEPT !.moved = @ + 1]
  /\ UNCHANGED <<numberOfElements, breaker, history, before>>

MoveOffset ==
  /\ doing.op = "move" /\ doing.moved = doing.shifted
  /\ doing.offsets < numberOfElements - 1
  /\ memory' = WriteOffset(doing.offsets, OffsetAt(doing.offsets + 1) - (doing.end - doing.start))
  /\ doing' = [doing EXCEPT !.offsets = @ + 1]
  /\ UNCHANGED <<numberOfElements, breaker, history, before>>

\* Mutant: an unlocking that forgets the remembered jump
EndDeletionOnly ==
  /\ doing.op = "move" /\ doing.moved = doing.shifted
  /\ doing.offsets >= numberOfElements - 1
  /\ numberOfElements' = numberOfElements - 1
  /\ history' = RemoveAt(history, doing.index + 1)
  /\ locks' = locks - 1
  /\ doing' = Idle
  /\ UNCHANGED <<memory, place, remembered, before>>

\* m_numberOfElements-- and the last unlock, which takes the remembered jump
EndDeletion ==
  /\ doing.op = "move" /\ doing.moved = doing.shifted
  /\ doing.offsets >= numberOfElements - 1
  /\ numberOfElements' = numberOfElements - 1
  /\ history' = RemoveAt(history, doing.index + 1)
  /\ locks' = locks - 1
  /\ IF locks = 1 /\ remembered # NoType
     THEN /\ place' = UnsetLower(place, remembered) /\ remembered' = NoType
          /\ doing' = Idle
     ELSE /\ UNCHANGED <<place, remembered>>
          /\ doing' = IF doing.pushed = NoCalculation THEN Idle
                      ELSE [op |-> "room", pushed |-> doing.pushed]
  /\ UNCHANGED <<memory, before>>

DeleteCalculation(i) ==
  /\ doing = Idle /\ i < numberOfElements
  /\ BeginDeletion(i, NoCalculation)
  /\ UNCHANGED before

DeleteAll ==
  /\ doing = Idle /\ numberOfElements > 0
  /\ numberOfElements' = 0 /\ history' = <<>>
  /\ UNCHANGED <<memory, doing, breaker, before>>

----------------------------------------------------------------------------
\* push: makeRoomForElement, pushCalculation, registerElement

Push(c) ==
  /\ doing = Idle /\ SizeOf[c] <= MaximumSize
  /\ doing' = [op |-> "room", pushed |-> c]
  /\ before' = history
  /\ UNCHANGED <<storeVars, breaker, history>>

\* Mutant: the latest element is deleted instead
DeleteLatestElement ==
  /\ doing.op = "room" /\ RemainingSize < SizeOf[doing.pushed]
  /\ BeginDeletion(numberOfElements - 1, doing.pushed)
  /\ UNCHANGED before

DeleteOldestElement ==
  /\ doing.op = "room" /\ RemainingSize < SizeOf[doing.pushed]
  /\ BeginDeletion(0, doing.pushed)
  /\ UNCHANGED before

BeginWrite ==
  /\ doing.op = "room" /\ RemainingSize >= SizeOf[doing.pushed]
  /\ doing' = [op |-> "write", pushed |-> doing.pushed, written |-> 0]
  /\ UNCHANGED <<storeVars, breaker, history, before>>

WriteByte ==
  /\ doing.op = "write" /\ doing.written < SizeOf[doing.pushed]
  /\ memory' = [memory EXCEPT ![EndOfElements + doing.written] =
                  [of |-> doing.pushed, at |-> doing.written]]
  /\ doing' = [doing EXCEPT !.written = @ + 1]
  /\ UNCHANGED <<numberOfElements, breaker, history, before>>

RegisterElement ==
  /\ doing.op = "write" /\ doing.written = SizeOf[doing.pushed]
  /\ memory' = WriteOffset(numberOfElements, EndOfElements + doing.written)
  /\ doing' = [op |-> "count", pushed |-> doing.pushed]
  /\ UNCHANGED <<numberOfElements, breaker, history, before>>

CountElement ==
  /\ doing.op = "count"
  /\ numberOfElements' = numberOfElements + 1
  /\ history' = Append(history, doing.pushed)
  /\ doing' = Idle
  /\ UNCHANGED <<memory, breaker, before>>

----------------------------------------------------------------------------
\* The home key, between any two steps
Interrupt ==
  \/ Remember(Home) /\ UNCHANGED <<storeVars, doing, history, before>>
  \/ Jump(Home) /\ doing' = Idle /\ UNCHANGED <<storeVars, history, before>>

Init ==
  /\ memory = [x \in Address |-> [of |-> NoCalculation, at |-> 0]]
  /\ numberOfElements = 0 /\ doing = Idle
  /\ place = [t \in CheckpointType |-> IF t = Home THEN 1 ELSE Nowhere]
  /\ locks = 0 /\ remembered = NoType
  /\ history = <<>> /\ before = <<>>

Operation ==
  \/ MoveByte \/ MoveOffset \/ EndDeletion
  \/ DeleteOldestElement \/ BeginWrite \/ WriteByte \/ RegisterElement \/ CountElement

Next ==
  \/ Operation
  \/ \E c \in Calculation : Push(c)
  \/ \E i \in 0 .. numberOfElements - 1 : DeleteCalculation(i)
  \/ DeleteAll \/ Interrupt

\* An operation that has begun goes on, as long as no key jumps out of it.
Spec == Init /\ [][Next]_vars /\ WF_vars(Operation)

----------------------------------------------------------------------------
TypeOK ==
  /\ memory \in [Address -> Byte]
  /\ numberOfElements \in Nat /\ numberOfElements * SizeOfOffset <= BufferSize
  /\ history \in Seq(Calculation) /\ before \in Seq(Calculation)
  /\ BreakerTypeOK

\* The calculations the buffer reads as
Reads(i) == {c \in Calculation :
  /\ EndOfElementAtIndex(i) = ElementAtIndex(i) + SizeOf[c]
  /\ \A k \in 0 .. SizeOf[c] - 1 : memory[ElementAtIndex(i) + k] = [of |-> c, at |-> k]}

(* "Should an interruption occur, all the temporary states are silently     *)
(* discarded and no ill-formed element is stored" (store_impl.inc): when    *)
(* the breaker may jump, at every step of a push and of the deletions it    *)
(* makes, the buffer reads as the calculations that were pushed in full and *)
(* not deleted, in their order.                                             *)
StoreReadable ==
  locks = 0 => /\ numberOfElements = Len(history)
               /\ \A i \in 0 .. numberOfElements - 1 : Reads(i) = {history[i + 1]}

(* The elements and the offsets grow towards each other and never meet,     *)
(* whatever sizes are deleted and pushed, an element being written included.*)
AreasDisjoint ==
  /\ TypeOK
  /\ locks = 0 => EndOfElements <= OffsetArea
  /\ doing.op = "write" => EndOfElements + SizeOf[doing.pushed] <= OffsetArea - SizeOfOffset

(* A push that ends keeps as many of the latest calculations as fit with    *)
(* the new one, and no less, in their order.                                *)
SizeTaken(s) ==
  LET taken[i \in 0 .. Len(s)] ==
        IF i = 0 THEN 0 ELSE taken[i - 1] + SizeOf[s[i]] + SizeOfOffset
  IN  taken[Len(s)]
PushKeepsTheMost ==
  [][doing.op = "count" /\ doing'.op = "idle" /\ numberOfElements' > numberOfElements =>
       \E kept \in 0 .. Len(before) :
         LET From(k) == Append(SubSeq(before, Len(before) - k + 1, Len(before)), doing.pushed)
         IN  /\ history' = From(kept)
             /\ kept < Len(before) => SizeTaken(From(kept + 1)) > BufferSize]_vars

(* A home key pressed during a deletion is not lost: it is taken when the   *)
(* deletion is over.                                                        *)
RememberedIsTaken == remembered # NoType ~> remembered = NoType /\ doing = Idle
=============================================================================
