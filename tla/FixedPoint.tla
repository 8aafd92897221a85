----------------------------- MODULE FixedPoint -----------------------------
(***************************************************************************)
(* The arithmetic of the program's I80F48 numbers.  A fixed-point number   *)
(* is the integer of its bits; ONE is the integer that stands for 1, 2^48  *)
(* in the program and a smaller number in the instances.  Products round   *)
(* towards minus infinity (an arithmetic shift of the wide product),       *)
(* quotients towards zero, as in the "fixed" crate.                        *)
(***************************************************************************)
EXTENDS Integers

CONSTANT
  ONE

OneAssumption == ONE \in Nat \ {0}

Larger(a, b) == IF a >= b THEN a ELSE b
Smaller(a, b) == IF a <= b THEN a ELSE b
Abs(a) == IF a < 0 THEN -a ELSE a
Clamped(a, lo, hi) == Larger(lo, Smaller(a, hi))

\* The quotient of two integers rounded towards zero.
Trunc(a, b) ==
  LET q == Abs(a) \div Abs(b) IN IF (a < 0) = (b < 0) THEN q ELSE -q

\* Fixed-point product and quotient.
FixMul(a, b) == (a * b) \div ONE
FixDiv(a, b) == Trunc(a * ONE, b)

\* From an integer; to integers, downwards and upwards.
FixInt(n) == n * ONE
FixFloor(a) == a \div ONE
FixCeil(a) == -((-a) \div ONE)

\* The smallest positive number, one bit.
DELTA == 1
=============================================================================
