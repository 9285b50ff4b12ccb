---------------------------- MODULE BigIntegers ----------------------------
(***************************************************************************)
(* The integers of the computer algebra (poincare/src/expression/integer): *)
(* a sign and native digits, the least significant first, up to a largest  *)
(* number of digits beyond which an operation raises IntegerOverflow.      *)
(* A native digit is made of two half digits; the division works on those. *)
(* A number is kept without leading zero digits, and zero is positive.     *)
(*                                                                         *)
(* The loops that call other operations, and may be stopped by one that    *)
(* raises, are actions: one turn of the loop each.                         *)
(***************************************************************************)
EXTENDS Digits, Sequences, SequencesExt

CONSTANTS
  MaxDigits, \* k_maxNumberOfNativeDigits
  Calls      \* the calls that are made: an operation and its operands

\* Ten is a native digit
ASSUME IntegerAssumption == MaxDigits \in Nat \ {0} /\ Base > 10

VARIABLES
  call,   \* the operation and its operands
  pc,     \* "called", "loop", "done" or "raised"
  loop,   \* the variables of the loop under way
  result  \* the integers that are pushed on the tree stack

vars == <<call, pc, loop, result>>

----------------------------------------------------------------------------
(* Numbers. *)

Handler(sign, digits) ==
  [sign |-> IF digits = <<>> THEN 1 ELSE sign, digits |-> digits]
SetSign(x, sign) == Handler(sign, x.digits)

\* IntegerHandler(native_int_t)
FromInt(v) ==
  LET abs == IF v < 0 THEN -v ELSE v
  IN  Handler(IF v < 0 THEN -1 ELSE 1, IF v = 0 THEN <<>> ELSE <<abs>>)

Zero == FromInt(0)
One == FromInt(1)
IsZero(x) == x = Zero
IsOne(x) == x = One

\* What an operation returns when it raises IntegerOverflow, and when one of its
\* operands was never returned
Raised == [sign |-> 0, digits |-> <<>>]

NumberOfDigits(x) == Len(x.digits)
Digit(x, i) == IF i < Len(x.digits) THEN x.digits[i + 1] ELSE 0

NumberOfHalfDigits(x) ==
  IF x.digits = <<>> THEN 0
  ELSE 2 * Len(x.digits) - (IF Last(x.digits) < HalfBase THEN 1 ELSE 0)
HalfDigit(x, i) ==
  IF i % 2 = 0 THEN Digit(x, i \div 2) % HalfBase ELSE Digit(x, i \div 2) \div HalfBase

Sanitize(digits) ==
  LET kept == {i \in DOMAIN digits : digits[i] # 0}
  IN  IF kept = {} THEN <<>> ELSE SubSeq(digits, 1, Max(kept))

\* What the program computes with: canonical numbers of MaxDigits digits at most.  It
\* never divides by zero, and has no negative power or factorial.
IsInteger(x) ==
  /\ x \in [sign : {1, -1}, digits : Seq(0 .. Base - 1)]
  /\ x = Handler(x.sign, Sanitize(x.digits))
  /\ Len(x.digits) <= MaxDigits

IsCall(c) ==
  /\ c.op \in {"addition", "subtraction", "multiplication", "division", "gcd", "lcm", "power",
                "factorial", "parse", "base10", "zeroes"}
  /\ IsInteger(c.a) /\ IsInteger(c.b)
  /\ c.op = "division" => ~ IsZero(c.b)
  /\ c.op = "power" => c.b.sign = 1
  /\ c.op = "factorial" => c.a.sign = 1
  /\ c.op = "parse" =>
       c.sign \in {1, -1} /\ c.base \in 2 .. Base - 1 /\ c.text \in Seq(0 .. c.base - 1)

ASSUME CallsAssumption == \A c \in Calls : IsCall(c)

\* The number of the half digits h[1], h[2], ...
FromHalves(h) ==
  Handler(1, Sanitize([k \in 1 .. (Len(h) + 1) \div 2 |->
    h[2 * k - 1] + (IF 2 * k <= Len(h) THEN HalfBase * h[2 * k] ELSE 0)]))

----------------------------------------------------------------------------
(* Comparison, sum and product. *)

CompareAbs(a, b) ==
  IF Len(a.digits) # Len(b.digits)
  THEN IF Len(a.digits) < Len(b.digits) THEN -1 ELSE 1
  ELSE LET differ == {i \in DOMAIN a.digits : a.digits[i] # b.digits[i]}
       IN  IF differ = {} THEN 0
           ELSE IF a.digits[Max(differ)] < b.digits[Max(differ)] THEN -1 ELSE 1

Compare(a, b) ==
  IF a.sign # b.sign THEN (IF a.sign = -1 THEN -1 ELSE 1)
  ELSE a.sign * CompareAbs(a, b)

\* The sum or the difference of two absolute values; extra is oneDigitOverflow
Usum(a, b, subtract, extra) ==
  IF Raised \in {a, b} THEN Raised ELSE
  LET size == Max({Len(a.digits), Len(b.digits)}) + IF subtract THEN 0 ELSE 1
      carry[i \in 0 .. size] == \* into column i
        IF i = 0 THEN 0
        ELSE LET d == Digit(a, i - 1)
                 e == Digit(b, i - 1)
             IN  NextCarry(d, e, carry[i - 1], Column(d, e, carry[i - 1], subtract),
                           subtract)
      columns == [i \in 1 .. size |-> Column(Digit(a, i - 1), Digit(b, i - 1),
                                             carry[i - 1], subtract)]
      kept == Min({size, MaxDigits + extra})
  IN  IF \E i \in kept + 1 .. size : columns[i] # 0 THEN Raised
      ELSE Handler(1, Sanitize(SubSeq(columns, 1, kept)))

Signed(x, sign) == IF x = Raised THEN Raised ELSE SetSign(x, sign)

Sum(a, b, inverseB, extra) ==
  LET bSign == IF inverseB THEN -b.sign ELSE b.sign
  IN  IF Raised \in {a, b} THEN Raised
      ELSE IF a.sign = bSign THEN Signed(Usum(a, b, FALSE, extra), bSign)
      ELSE IF CompareAbs(a, b) >= 0 THEN Signed(Usum(a, b, TRUE, extra), a.sign)
      ELSE Signed(Usum(b, a, TRUE, extra), bSign)

\* The columns of a product; one beyond the last must be null
ColumnAt(r, cap, k) == IF k < cap THEN r.digits[k + 1] ELSE 0
Put(r, cap, k, v, carry) ==
  [digits |-> IF k < cap THEN [r.digits EXCEPT ![k + 1] = v] ELSE r.digits,
   raised |-> r.raised \/ (k >= cap /\ v # 0),
   carry |-> carry]

\* The digits of b, times the digit d, are added from column i on; the row ends with
\* its last carry
AddRow(r, cap, d, b, i) ==
  LET turn[j \in 0 .. Len(b.digits)] ==
        IF j = 0 THEN r
        ELSE LET p == Product(d, Digit(b, j - 1), turn[j - 1].carry,
                              ColumnAt(turn[j - 1], cap, i + j - 1)) % (Base * Base)
             IN  Put(turn[j - 1], cap, i + j - 1, p % Base, p \div Base)
      last == turn[Len(b.digits)]
      k == i + Len(b.digits)
  IN  Put(last, cap, k, (ColumnAt(last, cap, k) + last.carry) % Base, 0)

Mult(a, b, extra) ==
  IF Raised \in {a, b} THEN Raised ELSE
  LET cap == MaxDigits + extra
      size == Min({Len(a.digits) + Len(b.digits), cap})
      row[i \in 0 .. Len(a.digits)] ==
        IF i = 0 THEN [digits |-> [k \in 1 .. size |-> 0], raised |-> FALSE, carry |-> 0]
        ELSE AddRow(row[i - 1], cap, Digit(a, i - 1), b, i - 1)
      mult == row[Len(a.digits)]
  IN  IF mult.raised THEN Raised
      ELSE Handler(IF a.sign = b.sign THEN 1 ELSE -1, Sanitize(mult.digits))

----------------------------------------------------------------------------
(* Division. *)

MultiplyByPowerOf2(x, pow) ==
  Handler(1, Sanitize([i \in 1 .. Len(x.digits) + 1 |->
     ((Digit(x, i - 1) * PowerOf(2, pow)) % Base)
       + (IF i = 1 THEN 0 ELSE (Digit(x, i - 2) * PowerOf(2, pow)) \div Base)]))

DivideByPowerOf2(x, pow) ==
  Handler(1, Sanitize([i \in DOMAIN x.digits |->
     (x.digits[i] \div PowerOf(2, pow)) + ((Digit(x, i) * (Base \div PowerOf(2, pow))) % Base)]))

MultiplyByPowerOfBase(x, pow) ==
  FromHalves([i \in 1 .. NumberOfHalfDigits(x) + pow |->
                IF i <= pow THEN 0 ELSE HalfDigit(x, i - 1 - pow)])

\* Mutant: a quotient digit that is too large is corrected once only
CorrectedOnce(A, q, betaJB) ==
  IF A.sign = -1 THEN [A |-> Sum(A, betaJB, FALSE, 1), q |-> q - 1]
  ELSE [A |-> A, q |-> q]

\* While the rest is negative, the digit of the quotient was too large
Corrected(A, q, betaJB) ==
  LET rest[i \in 0 .. HalfBase] == \* after i corrections
        IF i = 0 THEN A ELSE Sum(rest[i - 1], betaJB, FALSE, 1)
      times == Min({i \in 0 .. HalfBase : rest[i].sign # -1})
  IN  [A |-> rest[times], q |-> (q - times) % HalfBase]

\* The shift that makes the highest half digit of the denominator large
Shift(denominator) ==
  CHOOSE p \in 0 .. HalfBase :
    HalfDigit(denominator, NumberOfHalfDigits(denominator) - 1) * PowerOf(2, p)
      \in HalfBase \div 2 .. HalfBase - 1

QuotientDigit(A, B, n, j) ==
  LET q2 == (HalfDigit(A, n + j) * HalfBase + HalfDigit(A, n + j - 1))
              \div HalfDigit(B, n - 1)
  IN  Min({q2, HalfBase - 1})

\* The rest A and the quotient q, before the digit j and with it
SubtractDigit(before, digit, betaJB) ==
  Corrected(Sum(before.A, Mult(FromInt(digit), betaJB, 1), TRUE, 1), digit, betaJB)

WithDigit(before, fixed, j) == [A |-> fixed.A, q |-> [before.q EXCEPT ![j + 1] = fixed.q]]

\* Algorithm 1.6 of Modern Computer Arithmetic, for a denominator of n half digits
UdivShifted(A, B, n, m) ==
  LET betaMB == MultiplyByPowerOfBase(B, m)
      first == Compare(A, betaMB) >= 0
      \* The rest and the quotient once the digits m - 1, ..., m - t are known
      turn[t \in 0 .. m] ==
        IF t = 0 THEN [A |-> IF first THEN Usum(A, betaMB, TRUE, 1) ELSE A,
                       q |-> [i \in 1 .. m + 1 |-> IF i = m + 1 /\ first THEN 1 ELSE 0]]
        ELSE LET before == turn[t - 1]
             IN  WithDigit(before,
                           SubtractDigit(before, QuotientDigit(before.A, B, n, m - t),
                                         MultiplyByPowerOfBase(B, m - t)), m - t)
  IN  turn[m]

Unshift(last, pow) ==
  [quotient |-> FromHalves(last.q), remainder |-> DivideByPowerOf2(last.A, pow)]

UdivBy(A, B, pow) ==
  LET n == NumberOfHalfDigits(B)
  IN  Unshift(UdivShifted(A, B, n, NumberOfHalfDigits(A) - n), pow)

Udiv(numerator, denominator) ==
  IF CompareAbs(numerator, denominator) < 0 THEN [quotient |-> Zero, remainder |-> numerator]
  ELSE LET pow == Shift(denominator)
       IN  UdivBy(MultiplyByPowerOf2(numerator, pow), MultiplyByPowerOf2(denominator, pow), pow)

\* The remainder is never negative
Adjusted(d, numerator, denominator) ==
  LET adjust == ~ IsZero(d.remainder) /\ numerator.sign = -1
      q == IF adjust THEN Usum(d.quotient, One, FALSE, 0) ELSE d.quotient
      r == IF adjust THEN Usum(denominator, d.remainder, TRUE, 0) ELSE d.remainder
  IN  <<SetSign(q, IF numerator.sign = denominator.sign THEN 1 ELSE -1), r>>

Division(numerator, denominator) ==
  Adjusted(Udiv(numerator, denominator), numerator, denominator)

----------------------------------------------------------------------------
(* The operations without a loop. *)

Return(values) ==
  /\ pc' = IF \E i \in DOMAIN values : values[i] = Raised THEN "raised" ELSE "done"
  /\ result' = values
  /\ UNCHANGED <<call, loop>>

Called(op) == pc = "called" /\ call.op = op

Addition == Called("addition") /\ Return(<<Sum(call.a, call.b, FALSE, 0)>>)
Subtraction == Called("subtraction") /\ Return(<<Sum(call.a, call.b, TRUE, 0)>>)
Multiplication == Called("multiplication") /\ Return(<<Mult(call.a, call.b, 0)>>)

Divide == Called("division") /\ Return(Division(call.a, call.b))

----------------------------------------------------------------------------
(* The loops. *)

Loop(variables) ==
  /\ pc' = "loop"
  /\ loop' = variables
  /\ UNCHANGED <<call, result>>

\* One turn: the loop goes on unless a product has overflowed
Turn(variables, products) ==
  IF Raised \in products THEN Return(<<Raised>>) ELSE Loop(variables)

InLoop(op) == pc = "loop" /\ call.op = op

Abs(x) == SetSign(x, 1)

\* LCM divides before it multiplies
ReturnGCD(g) ==
  IF call.op = "gcd" THEN Return(<<g>>)
  ELSE Return(<<Mult(Abs(call.a), Udiv(Abs(call.b), g).quotient, 0)>>)

StartGCD ==
  /\ Called("gcd") \/ Called("lcm")
  /\ IF call.op = "lcm" /\ (IsZero(call.a) \/ IsZero(call.b)) THEN Return(<<Zero>>)
     ELSE IF Compare(Abs(call.a), Abs(call.b)) = 0 THEN Return(<<Abs(call.a)>>)
     ELSE Loop([i |-> Abs(call.a), j |-> Abs(call.b)])

GCDTurn ==
  /\ InLoop("gcd") \/ InLoop("lcm")
  /\ IF IsZero(loop.i) THEN ReturnGCD(loop.j)
     ELSE IF IsZero(loop.j) THEN ReturnGCD(loop.i)
     ELSE IF Compare(loop.i, loop.j) > 0
          THEN Loop([loop EXCEPT !.i = Udiv(loop.i, loop.j).remainder])
          ELSE Loop([loop EXCEPT !.j = Udiv(loop.j, loop.i).remainder])

StartPower ==
  /\ Called("power")
  /\ IF IsZero(call.b) THEN Return(<<One>>)
     ELSE Loop([i1 |-> One, i2 |-> call.a, exp |-> call.b])

OddFactor(i1, i2, odd) == IF odd THEN Mult(i1, i2, 0) ELSE i1

PowerTurn ==
  /\ InLoop("power")
  /\ IF IsOne(loop.exp) THEN Return(<<Mult(loop.i1, loop.i2, 0)>>)
     ELSE LET half == Udiv(loop.exp, FromInt(2))
              i1 == OddFactor(loop.i1, loop.i2, IsOne(half.remainder))
              i2 == Mult(loop.i2, loop.i2, 0)
          IN  Turn([i1 |-> i1, i2 |-> i2, exp |-> half.quotient], {i1, i2})

StartFactorial == Called("factorial") /\ Loop([j |-> FromInt(2), product |-> One])

FactorialTurn ==
  /\ InLoop("factorial")
  /\ IF CompareAbs(call.a, loop.j) < 0 THEN Return(<<loop.product>>)
     ELSE LET product == Mult(loop.j, loop.product, 0)
          IN  Turn([j |-> Usum(loop.j, One, FALSE, 0), product |-> product], {product})

\* The text of an integer: a sign, and the digits still to read
StartParse ==
  /\ Called("parse")
  /\ Loop([read |-> Zero, rest |-> call.text])

ParseTurn ==
  /\ InLoop("parse")
  /\ IF loop.rest = <<>> THEN Return(<<loop.read>>)
     ELSE LET product == Mult(loop.read, FromInt(call.base), 0)
              digit == SetSign(FromInt(Head(loop.rest)), call.sign)
              read == Sum(product, digit, FALSE, 0)
          IN  Turn([read |-> read, rest |-> Tail(loop.rest)], {read})

\* numberOfBase10DigitsWithoutSign: the first power of ten above the number
\* (the estimate that the code starts from for long numbers is left out)
Ten == FromInt(10)

StartBase10 ==
  /\ Called("base10")
  /\ IF IsZero(call.a) THEN Return(<<One>>) ELSE Loop([power |-> One, n |-> 0])

Base10Turn ==
  /\ InLoop("base10")
  /\ IF CompareAbs(loop.power, call.a) > 0 THEN Return(<<FromInt(loop.n)>>)
     ELSE LET power == Mult(loop.power, Ten, 1)
          IN  Turn([power |-> power, n |-> loop.n + 1], {power})

\* numberOfZeroesAtTheEnd
StartZeroes ==
  /\ Called("zeroes")
  /\ IF IsZero(call.a) THEN Return(<<One>>) ELSE Loop([quotient |-> call.a, n |-> 0])

ZeroesTurn ==
  /\ InLoop("zeroes")
  /\ LET d == Udiv(loop.quotient, Ten)
     IN  IF IsZero(d.quotient) \/ ~ IsZero(d.remainder) THEN Return(<<FromInt(loop.n)>>)
         ELSE Loop([quotient |-> d.quotient, n |-> loop.n + 1])

----------------------------------------------------------------------------
Init ==
  /\ call \in Calls
  /\ pc = "called"
  /\ loop = [n |-> 0]
  /\ result = <<>>

Next ==
  \/ Addition \/ Subtraction \/ Multiplication \/ Divide
  \/ StartGCD \/ GCDTurn \/ StartPower \/ PowerTurn
  \/ StartFactorial \/ FactorialTurn \/ StartParse \/ ParseTurn
  \/ StartBase10 \/ Base10Turn \/ StartZeroes \/ ZeroesTurn

Spec == Init /\ [][Next]_vars

----------------------------------------------------------------------------
(* Correctness: against the integers of TLA+. *)

\* The number of the digits d[0], ..., d[n - 1] in base b
Upto(d, b, n) ==
  LET f[i \in Nat] == IF i = 0 THEN 0 ELSE f[i - 1] + d[i - 1] * PowerOf(b, i - 1) IN f[n]

Below(x, n) == Upto([i \in Nat |-> Digit(x, i)], Base, n)
ValueOf(x) == x.sign * Below(x, Len(x.digits))

AbsOf(v) == IF v < 0 THEN -v ELSE v
Canonical(x) == x = Handler(x.sign, Sanitize(x.digits)) /\ x.sign \in {1, -1}
GreatestDivisor(a, b) ==
  IF a = 0 \/ b = 0 THEN AbsOf(a) + AbsOf(b)
  ELSE Max({d \in 1 .. AbsOf(a) : a % d = 0 /\ AbsOf(b) % d = 0})
FactorialOf(n) == LET f[i \in Nat] == IF i = 0 THEN 1 ELSE i * f[i - 1] IN f[n]
ReadOf(text, base) ==
  LET f[i \in 0 .. Len(text)] == IF i = 0 THEN 0 ELSE f[i - 1] * base + text[i]
  IN  f[Len(text)]

\* The integers an operation should return
Expected ==
  LET a == ValueOf(call.a)
      b == ValueOf(call.b)
  IN  CASE call.op = "addition" -> <<a + b>>
        [] call.op = "subtraction" -> <<a - b>>
        [] call.op = "multiplication" -> <<a * b>>
        [] call.op = "division" -> <<call.b.sign * (a \div AbsOf(b)), a % AbsOf(b)>>
        [] call.op = "gcd" -> <<GreatestDivisor(a, b)>>
        [] call.op = "lcm" ->
             <<IF a = 0 \/ b = 0 THEN 0 ELSE AbsOf(a * b) \div GreatestDivisor(a, b)>>
        [] call.op = "power" -> <<PowerOf(a, b)>>
        [] call.op = "factorial" -> <<FactorialOf(a)>>
        [] call.op = "parse" -> <<call.sign * ReadOf(call.text, call.base)>>
        [] call.op = "base10" ->
             <<CHOOSE n \in 1 .. AbsOf(a) + 1 :
                 AbsOf(a) < PowerOf(10, n) /\ (n = 1 \/ AbsOf(a) >= PowerOf(10, n - 1))>>
        [] call.op = "zeroes" ->
             <<IF a = 0 THEN 1
               ELSE CHOOSE n \in 0 .. AbsOf(a) :
                      a % PowerOf(10, n) = 0 /\ a % PowerOf(10, n + 1) # 0>>

Exact ==
  /\ pc = "done" =>
       /\ \A i \in DOMAIN result : Canonical(result[i])
       /\ [i \in DOMAIN result |-> ValueOf(result[i])] = Expected
  /\ pc = "raised" => AbsOf(Expected[1]) >= PowerOf(Base, MaxDigits)

IsSum == call.op \in {"addition", "subtraction"}

\* A column of two largest digits that a carry enters
CarryIsLost ==
  /\ IsSum
  /\ call.a.sign = (IF call.op = "addition" THEN call.b.sign ELSE -call.b.sign)
  /\ \E i \in 1 .. MaxDigits - 1 :
       /\ Digit(call.a, i) = Base - 1 /\ Digit(call.b, i) = Base - 1
       /\ Below(call.a, i) + Below(call.b, i) >= PowerOf(Base, i)

\* An operation returns exactly what the integers say, a division a remainder
\* that is not negative, and it overflows only when the result has more than
\* MaxDigits digits -- but for the sums whose carry is lost
\* (integer.cpp:434-897).
ResultIsExact == ~ CarryIsLost => Exact
=============================================================================
