--------------------------- MODULE MCBigIntegers ---------------------------
\* Digits of six bits, made of two half digits of three bits: the least width
\* at which a digit of a quotient may have to be corrected twice.  Integers
\* have at most two digits; the operands are small or next to a boundary.
EXTENDS BigIntegers

OfInt(v) ==
  LET abs == AbsOf(v)
  IN  Handler(IF v < 0 THEN -1 ELSE 1, Sanitize(<<abs % Base, abs \div Base>>))

WithSigns(values) == {OfInt(v) : v \in values} \cup {OfInt(-v) : v \in values}
Near(v) == {v - 1, v, v + 1}

Few == (0 .. 10) \cup Near(64) \cup Near(128) \cup {39, 224, 4031, 4032, 4094, 4095}
Many == Few \cup (11 .. 20) \cup Near(32) \cup Near(512) \cup Near(1024) \cup Near(2048)
            \cup {100, 192, 1000, 4000, 4033}

Pairs(ops, as, bs) == [op : ops, a : as, b : bs]
Texts(digits, lengths) == UNION {[1 .. n -> digits] : n \in lengths}
Parses(b, texts) ==
  [op : {"parse"}, a : {Zero}, b : {Zero}, sign : {1, -1}, base : {b}, text : texts]

MCCalls ==
  Pairs({"addition", "subtraction", "multiplication"}, WithSigns(Many), WithSigns(Many))
  \cup Pairs({"gcd", "lcm"}, WithSigns(Few), WithSigns(Few))
  \cup Pairs({"division"}, WithSigns(Many), WithSigns(Many) \ {Zero})
  \cup Pairs({"division"}, {OfInt(v) : v \in 0 .. 600},
             {OfInt(v) : v \in {5, 7, 9, 39, 47, 63, 64, 65, 100, 127, 128, 255}})
  \cup Pairs({"power"}, {OfInt(v) : v \in {-64, -16, -8, -3, -2, -1, 1, 2, 3, 6, 16, 64}},
             {OfInt(v) : v \in 0 .. 5})
  \cup Pairs({"power"}, {OfInt(v) : v \in {-2, -1, 1, 2, 3}}, {OfInt(v) : v \in 6 .. 19})
  \cup Pairs({"factorial"}, {OfInt(v) : v \in 0 .. 9}, {Zero})
  \cup Pairs({"base10", "zeroes"}, WithSigns(Many), {Zero})
  \cup Parses(10, Texts({0, 1, 9}, 1 .. 5))
  \cup Parses(16, Texts({0, 1, 15}, 1 .. 4))
=============================================================================
