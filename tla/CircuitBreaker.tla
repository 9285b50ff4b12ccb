--------------------------- MODULE CircuitBreaker ---------------------------
(***************************************************************************)
(* The circuit breaker: the table of the places a key press may jump to    *)
(* (shared/ion/src/simulator/shared/circuit_breaker.cpp).  A checkpoint    *)
(* type has at most one place; a lock postpones the jump to the moment the *)
(* last lock is released.  The module gives the operations as functions of *)
(* its state; the modules that extend it say who calls them, and where the *)
(* jump lands.                                                             *)
(***************************************************************************)
EXTENDS Naturals

\* The checkpoint types, sorted by order of priority as in the enumeration.
Home == 0
Back == 1
AnyKey == 2
CheckpointType == {Home, Back, AnyKey}
\* What sLockedCheckpointType holds when no interruption is remembered.
NoType == 3

VARIABLES
  place,      \* sCheckpointsSet, sBuffers: where each type jumps to, Nowhere if it is not set
  locks,      \* sNumberOfLocks
  remembered  \* the type of the interruption taken at the unlocking, or NoType

breaker == <<place, locks, remembered>>

Nowhere == 0
HasCheckpoint(type) == place[type] # Nowhere

BreakerTypeOK ==
  /\ place \in [CheckpointType -> Nat]
  /\ locks \in Nat
  /\ remembered \in CheckpointType \cup {NoType}

\* Mutant: a checkpoint that was left keeps its place
UnsetNothing(places, type) == places
\* unsetCheckpoint: the type and all the lower ones
Unset(places, type) == [t \in CheckpointType |-> IF t < type THEN places[t] ELSE Nowhere]

\* unsetLowerCheckpoints
UnsetLower(places, type) == [t \in CheckpointType |-> IF t <= type THEN places[t] ELSE Nowhere]

\* loadCheckpoint while the breaker is locked: the first interruption is kept
Remember(type) ==
  /\ HasCheckpoint(type) /\ locks > 0
  /\ remembered' = IF remembered = NoType THEN type ELSE remembered
  /\ UNCHANGED <<place, locks>>

\* loadCheckpoint otherwise: what the breaker becomes when it jumps to type
Jump(type) ==
  /\ HasCheckpoint(type) /\ locks = 0
  /\ remembered' = NoType
  /\ place' = UnsetLower(place, type)
  /\ UNCHANGED locks
=============================================================================
