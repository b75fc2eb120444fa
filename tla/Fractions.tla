----------------------------- MODULE Fractions -----------------------------
(***************************************************************************)
(* Exact arithmetic on fractions in lowest terms, for the amounts and rates   *)
(* of the calculation modules. Functions, not operators: TLC then evaluates   *)
(* an argument once, however often the body uses it.                         *)
(***************************************************************************)
EXTENDS Integers, Sequences

Fractions == [num : Int, den : Nat \ {0}]

Gcd[a, b \in Nat] == IF b = 0 THEN a ELSE Gcd[b, a % b]
Abs(n) == IF n < 0 THEN -n ELSE n

\* n over a positive d, reduced.
Over[n \in Int, d \in Nat \ {0}] ==
  LET g == Gcd[Abs(n), d] IN [num |-> n \div g, den |-> d \div g]

Frac(n) == [num |-> n, den |-> 1]
Zero == Frac(0)
One == Frac(1)

Plus[a, b \in Fractions] == Over[a.num * b.den + b.num * a.den, a.den * b.den]
Minus[a, b \in Fractions] == Over[a.num * b.den - b.num * a.den, a.den * b.den]
Times[a, b \in Fractions] == Over[a.num * b.num, a.den * b.den]

\* a over a positive b.
DividedBy[a, b \in Fractions] == Over[a.num * b.den, a.den * b.num]

AtMost[a, b \in Fractions] == a.num * b.den <= b.num * a.den
LessThan[a, b \in Fractions] == a.num * b.den < b.num * a.den
Smaller[a, b \in Fractions] == IF AtMost[a, b] THEN a ELSE b
Larger[a, b \in Fractions] == IF AtMost[a, b] THEN b ELSE a

Power[a \in Fractions, n \in Nat] == IF n = 0 THEN One ELSE Times[a, Power[a, n - 1]]

\* The sum of F(i) over the indices of a sequence, from the first one on.
SumOver(s, F(_)) ==
  LET sum[k \in 0..Len(s)] == IF k = 0 THEN Zero ELSE Plus[sum[k - 1], F(k)]
  IN sum[Len(s)]
=============================================================================
