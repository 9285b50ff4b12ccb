---------------------------- MODULE RecordNames ----------------------------
(***************************************************************************)
(* The names of the records of the shared storage and the rule that says   *)
(* which of two records of one base name survives                          *)
(* (shared/ion/src/shared/storage/record.cpp, record_name_verifier.cpp).   *)
(*                                                                         *)
(* A record handle of the code is the CRC32 of its full name.  Handles and *)
(* full names are identified here: CRC collisions are not modelled.        *)
(***************************************************************************)
EXTENDS Integers

CONSTANTS
  BaseName,        \* what stands before the dot
  Extension,       \* what stands after it: py, func, exp, sys, ...
  SystemExtension, \* "sys": the calculator's own settings
  Precedence,      \* the score of an extension, NoPrecedence when it has none
  Reserved,        \* the <<base, ext>> registered as reserved
  SizeOfBase,      \* bytes of a base name
  SizeOfExtension, \* bytes of an extension
  NoRecord         \* the null record handle

NoPrecedence == -1

Name == [base : BaseName, ext : Extension]

ASSUME NamesAssumption ==
  /\ SystemExtension \in Extension
  /\ Precedence \in [Extension -> Int]
  /\ Precedence[SystemExtension] = NoPrecedence
  /\ Reserved \subseteq BaseName \X Extension
  /\ SizeOfBase \in [BaseName -> Nat]
  /\ SizeOfExtension \in [Extension -> Nat]
  /\ NoRecord \notin Name

\* base, dot, extension, null character
SizeOfName(n) == SizeOfBase[n.base] + 1 + SizeOfExtension[n.ext] + 1

\* Two records of one base name whose extensions are both restrictive compete.
Restrictive(ext) == Precedence[ext] # NoPrecedence

IsReserved(n) == <<n.base, n.ext>> \in Reserved

\* Mutant: forgets the reserved names
CanOverrideReserved(previous, newExt) ==
  CASE ~Restrictive(newExt) \/ ~Restrictive(previous.ext) -> "CanCoexist"
    [] Restrictive(newExt) /\ Restrictive(previous.ext) ->
         IF Precedence[newExt] <= Precedence[previous.ext] THEN "Allowed" ELSE "Forbidden"

(***************************************************************************)
(* What happens to the record previous when a record of the same base name *)
(* and extension newExt is about to be written.                            *)
(***************************************************************************)
CanOverrideRecordWithNewExtension(previous, newExt) ==
  LET mayOverride ==
        /\ ~IsReserved(previous)
        /\ \/ IsReserved([previous EXCEPT !.ext = newExt])
           \/ Precedence[newExt] <= Precedence[previous.ext]
  IN  CASE ~Restrictive(newExt) \/ ~Restrictive(previous.ext) -> "CanCoexist"
        [] Restrictive(newExt) /\ Restrictive(previous.ext) /\ mayOverride -> "Allowed"
        [] Restrictive(newExt) /\ Restrictive(previous.ext) /\ ~mayOverride -> "Forbidden"

=============================================================================
