------------------------------ MODULE Fractions ------------------------------
(***************************************************************************)
(* Exact fractions in lowest terms.  They stand for the floats of the      *)
(* money computations, whose rounding is left out: no property depends on  *)
(* a last bit.                                                             *)
(***************************************************************************)
EXTENDS Integers, FiniteSetsExt

Fraction == [num : Int, den : Nat \ {0}]

\* n / d in lowest terms, for d > 0.
Over(n, d) ==
  LET g == Max({k \in 1 .. d : n % k = 0 /\ d % k = 0})
  IN  [num |-> n \div g, den |-> d \div g]

Whole(n) == [num |-> n, den |-> 1]

Plus(a, b) == Over(a.num * b.den + b.num * a.den, a.den * b.den)

\* n times a, for an integer n.
Times(n, a) == Over(n * a.num, a.den)

\* a divided by an integer n > 0.
Divided(a, n) == Over(a.num, a.den * n)

Minus(a, b) == Plus(a, Times(-1, b))

AbsInt(n) == IF n < 0 THEN -n ELSE n

Magnitude(a) == [a EXCEPT !.num = AbsInt(@)]

\* The least integer that is not below a.
Ceiling(a) == -((-a.num) \div a.den)

AtMost(a, b) == a.num * b.den <= b.num * a.den

=============================================================================
