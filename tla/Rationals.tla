------------------------------ MODULE Rationals ------------------------------
(***************************************************************************)
(* Exact fractions, for what the program computes with GMP's mpq_class: a  *)
(* pair of numerator and positive denominator without a common divisor.    *)
(***************************************************************************)
EXTENDS Integers, FiniteSetsExt, Functions

AbsOf(x) == IF x < 0 THEN -x ELSE x

\* The greatest common divisor of a pair
gcd[p \in Nat \X Nat] == IF p[2] = 0 THEN p[1] ELSE gcd[<<p[2], p[1] % p[2]>>]

\* n / d, for d # 0
Ratio(n, d) ==
  LET g == gcd[<<AbsOf(n), AbsOf(d)>>]
      s == IF d < 0 THEN -1 ELSE 1
  IN  <<s * (IF n < 0 THEN -(AbsOf(n) \div g) ELSE n \div g), AbsOf(d) \div g>>

Zero == <<0, 1>>
One == <<1, 1>>

Plus(p, q) == Ratio(p[1] * q[2] + q[1] * p[2], p[2] * q[2])
Minus(p, q) == Ratio(p[1] * q[2] - q[1] * p[2], p[2] * q[2])
Times(p, q) == Ratio(p[1] * q[1], p[2] * q[2])
Over(p, q) == Ratio(p[1] * q[2], p[2] * q[1])
Scaled(k, p) == Ratio(k * p[1], p[2])
Less(p, q) == p[1] * q[2] < q[1] * p[2]
AtMost(p, q) == ~Less(q, p)
Least(p, q) == IF Less(p, q) THEN p ELSE q

\* The sum of the values of a function
SumOver(f) == FoldFunction(Plus, Zero, f)

\* The integer part of k * p, for p >= 0
Truncated(k, p) == (k * p[1]) \div p[2]
==============================================================================
