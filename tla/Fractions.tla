----------------------------- MODULE Fractions ------------------------------
(***************************************************************************)
(* Exact arithmetic on fractions <<numerator, denominator>> in lowest      *)
(* terms with a positive denominator: the doubles of a front, without      *)
(* their rounding.                                                         *)
(***************************************************************************)
EXTENDS Integers

Zero == <<0, 1>>
One  == <<1, 1>>

IntAbs(n) == IF n < 0 THEN -n ELSE n

Gcd(m, n) ==
  LET gcd[p \in Nat \X Nat] == IF p[2] = 0 THEN p[1] ELSE gcd[<<p[2], p[1] % p[2]>>]
  IN  gcd[<<m, n>>]

Lowest(n, d, g) == IF d < 0 THEN <<-(n \div g), -(d \div g)>> ELSE <<n \div g, d \div g>>
Fraction(n, d)  == IF d = 1 THEN <<n, 1>> ELSE Lowest(n, d, Gcd(IntAbs(n), IntAbs(d)))
Whole(n)        == <<n, 1>>

Plus(x, y)  == IF x[1] = 0 THEN y ELSE IF y[1] = 0 THEN x
               ELSE Fraction(x[1] * y[2] + y[1] * x[2], x[2] * y[2])
Negated(x)  == <<-x[1], x[2]>>
Minus(x, y) == Plus(x, Negated(y))
Times(x, y) == IF x[1] = 0 \/ y[1] = 0 THEN Zero ELSE Fraction(x[1] * y[1], x[2] * y[2])
Over(x, y)  == Fraction(x[1] * y[2], x[2] * y[1])
Mag(x)      == <<IntAbs(x[1]), x[2]>>

AtMost(x, y)   == x[1] * y[2] <= y[1] * x[2]
LessThan(x, y) == x[1] * y[2] < y[1] * x[2]
Greater(x, y)  == IF AtMost(x, y) THEN y ELSE x

\* The largest of a set of fractions, zero for none.
Largest(S) == IF S = {} THEN Zero ELSE CHOOSE x \in S : \A y \in S : AtMost(y, x)

\* The sum of f(x) over a set.
Total(f, S) ==
  LET total[T \in SUBSET S] ==
        IF T = {} THEN Zero ELSE LET x == CHOOSE y \in T : TRUE IN Plus(f[x], total[T \ {x}])
  IN  total[S]

=============================================================================
