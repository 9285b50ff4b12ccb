------------------------------- MODULE Digits -------------------------------
(***************************************************************************)
(* The native digits of the integers of the computer algebra, and one      *)
(* column of a sum, a difference or a product of them                      *)
(* (poincare/src/expression/integer.cpp).                                  *)
(***************************************************************************)
EXTENDS Integers

CONSTANT HalfBase  \* the half native digits are 0 .. HalfBase - 1

PowerOf(v, n) == LET f[i \in Nat] == IF i = 0 THEN 1 ELSE v * f[i - 1] IN f[n]

ASSUME DigitsAssumption ==
  /\ HalfBase \in Nat /\ HalfBase >= 2
  /\ \E k \in 1 .. HalfBase : HalfBase = PowerOf(2, k)

\* The native digits are 0 .. Base - 1
Base == HalfBase * HalfBase

\* One column of a sum or a difference, in the width of a native digit
Column(d, e, carry, subtract) ==
  IF subtract THEN (d - e - carry) % Base ELSE (d + e + carry) % Base

NextCarry(d, e, carry, column, subtract) ==
  IF subtract THEN IF d < column \/ (carry = 1 /\ d = column) THEN 1 ELSE 0
  ELSE IF d > column \/ e > column THEN 1 ELSE 0

\* The double native number of a column of a product
Product(d, e, carry, already) == d * e + carry + already
=============================================================================
