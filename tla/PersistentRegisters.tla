------------------------ MODULE PersistentRegisters ------------------------
(***************************************************************************)
(* What the persisting bytes promise: a register for each entry.  A write  *)
(* takes time.  A reset during it leaves the old value or one that has all *)
(* the bits of the new one, and does not touch the other registers - but   *)
(* once in a while a write has to move all the registers, and a reset then *)
(* may leave anything.                                                     *)
(***************************************************************************)
CONSTANTS Entry, Bit, NoWrite, Off

VARIABLES
  register, \* what a read returns
  writing   \* the write under way

registerVars == <<register, writing>>

Writes == [entry : Entry, data : SUBSET Bit, moving : BOOLEAN]

\* The registers once the write under way is done.
Completed ==
  IF writing \in Writes THEN [register EXCEPT ![writing.entry] = writing.data] ELSE register

\* A write begins, the previous one being done.
Start(e, d) ==
  /\ writing # Off
  /\ writing \in Writes => ~writing.moving
  /\ register' = Completed
  /\ writing' = [entry |-> e, data |-> d, moving |-> FALSE]

\* All the registers have to be moved.
Move ==
  /\ writing \in Writes
  /\ register' = Completed
  /\ writing' = [entry |-> writing.entry, data |-> writing.data, moving |-> TRUE]

Finish ==
  /\ writing \in Writes
  /\ register' = Completed
  /\ writing' = NoWrite

Reset ==
  /\ writing' = Off
  /\ \/ /\ writing = NoWrite
        /\ UNCHANGED register
     \/ /\ writing \in Writes
        /\ ~writing.moving
        /\ \E v \in SUBSET Bit :
             /\ v = register[writing.entry] \/ writing.data \subseteq v
             /\ register' = [register EXCEPT ![writing.entry] = v]
     \/ /\ writing \in Writes
        /\ writing.moving
        /\ register' \in [Entry -> SUBSET Bit]

Restart ==
  /\ writing = Off
  /\ writing' = NoWrite
  /\ UNCHANGED register

RegistersInit ==
  /\ register \in [Entry -> SUBSET Bit]
  /\ writing = NoWrite

RegistersNext ==
  \/ \E e \in Entry, d \in SUBSET Bit : Start(e, d)
  \/ Move \/ Finish \/ Reset \/ Restart

RegistersSpec == RegistersInit /\ [][RegistersNext]_registerVars

=============================================================================
