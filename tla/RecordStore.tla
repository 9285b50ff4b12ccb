---------------------------- MODULE RecordStore ----------------------------
(***************************************************************************)
(* What the storage promises to the applications, with no buffer, no       *)
(* address and no cache: a dictionary from names to values, and a second   *)
(* one set aside during an exam.  A new name may displace the one record   *)
(* that gives its base name another meaning; the dictionary set aside      *)
(* comes back whole, or is lost whole when room is short.                  *)
(***************************************************************************)
EXTENDS RecordNames, Functions

CONSTANT Value

VARIABLES
  visible,  \* name -> value
  aside     \* name -> value, out of reach during the exam

storeVars == <<visible, aside>>

Nothing == [n \in {} |-> Value]

IsSystemName(n) == n.ext = SystemExtension
Competing(m, n) == m.base = n.base /\ Restrictive(m.ext) /\ Restrictive(n.ext) /\ m # n

\* The names that must go, and may, for n to exist.
Displaced(names, n) == {m \in names : Competing(m, n)}
MayAppear(names, n) ==
  \A m \in Displaced(names, n) : CanOverrideRecordWithNewExtension(m, n.ext) = "Allowed"

With(f, n, v) == [m \in DOMAIN f \cup {n} |-> IF m = n THEN v ELSE f[m]]

\* The dictionary set aside is kept, or lost.
KeepOrLose == aside' \in {aside, Nothing}

Put(n, v) ==
  /\ MayAppear(DOMAIN visible, n)
  /\ visible' = With(Restrict(visible, DOMAIN visible \ Displaced(DOMAIN visible, n)), n, v)
  /\ KeepOrLose

Rename(m, n) ==
  /\ m \in DOMAIN visible
  /\ n \notin DOMAIN visible
  /\ MayAppear(DOMAIN visible, n)
  /\ visible' = With(Restrict(visible, DOMAIN visible \ (Displaced(DOMAIN visible, n) \cup {m})), n, visible[m])
  /\ KeepOrLose

Remove(n) ==
  /\ n \in DOMAIN visible
  /\ visible' = Restrict(visible, DOMAIN visible \ {n})
  /\ UNCHANGED aside

\* A refused operation.
Refuse == UNCHANGED visible /\ KeepOrLose

SetAside ==
  /\ aside = Nothing
  /\ aside' = Restrict(visible, {n \in DOMAIN visible : ~IsSystemName(n)})
  /\ visible' = Restrict(visible, {n \in DOMAIN visible : IsSystemName(n)})

BringBack ==
  /\ \A n \in DOMAIN visible : IsSystemName(n)
  /\ visible' = [n \in DOMAIN visible \cup DOMAIN aside |->
                   IF n \in DOMAIN aside THEN aside[n] ELSE visible[n]]
  /\ aside' = Nothing

StoreInit ==
  /\ \A n \in DOMAIN visible : IsSystemName(n)
  /\ aside = Nothing

StoreNext ==
  \/ \E n \in Name, v \in Value : Put(n, v)
  \/ \E m, n \in Name : Rename(m, n)
  \/ \E n \in Name : Remove(n)
  \/ Refuse \/ SetAside \/ BringBack

StoreSpec == StoreInit /\ [][StoreNext]_storeVars

=============================================================================
