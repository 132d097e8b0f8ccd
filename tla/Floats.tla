-------------------------------- MODULE Floats --------------------------------
(***************************************************************************)
(* The f64 values that the configuration holds and the samplers compute     *)
(* with, as IEEE 754 has them: finite numbers, two infinities and NaN,      *)
(* comparisons that are false of NaN, f64::min and f64::max that ignore it. *)
(* Finite values are counted in halves, so that 0.5, 1.5 and rounding to    *)
(* whole numbers are exact.  Beyond F64Exact not every number has an f64:   *)
(* a conversion or a sum goes to the nearest one.  F64Exact is 2^53 and     *)
(* F64Max the largest finite value; both are scaled down for TLC, so that   *)
(* its integers hold a multiplication that overflows.                      *)
(***************************************************************************)
EXTENDS Integers, FiniteSetsExt

CONSTANTS F64Max, F64Exact

ASSUME F64MaxPositive == F64Max \in Nat \ {0}
ASSUME F64ExactPositive ==
  F64Exact \in Nat \ {0} /\ F64Exact % 2 = 0 /\ 2 * F64Exact <= F64Max

Fin(v) == [cls |-> "finite", val |-> v]
Infinity == [cls |-> "inf", val |-> F64Max + 1]
NegInfinity == [cls |-> "inf", val |-> -(F64Max + 1)]
NaN == [cls |-> "nan", val |-> 0]

Zero == Fin(0)
One == Fin(2)

\* The distances between neighbours above F64Exact, up to those at 2^64.
Spacings == {2, 4, 8, 16, 32, 64, 128, 256, 512, 1024, 2048, 4096}

\* The distance doubles whenever the magnitude m does: the largest s for which
\* F64Exact * s < 2 * m, put so that the product is not needed.
Spacing(m) == Max({s \in Spacings : F64Exact <= (2 * m - 1) \div s})

\* The multiple of s nearest to v, of two the even one.
NearestMultiple(v, s) ==
  LET q == v \div s
      r == v % s
  IN  IF 2 * r < s \/ (2 * r = s /\ q % 2 = 0) THEN q * s ELSE (q + 1) * s

\* v as f64.
Nearest(v) ==
  LET m == IF v < 0 THEN -v ELSE v
  IN  IF m <= F64Exact THEN v ELSE NearestMultiple(v, Spacing(m))

\* The whole number n as f64.
Whole(n) == Fin(Nearest(2 * n))

\* The values in the range of the type.
IsF64(x) ==
  \/ x \in {Infinity, NegInfinity, NaN}
  \/ x = Fin(x.val) /\ x.val \in -F64Max .. F64Max

is_nan(x) == x.cls = "nan"
is_finite(x) == x.cls = "finite"

Less(x, y) == ~is_nan(x) /\ ~is_nan(y) /\ x.val < y.val
LessEq(x, y) == ~is_nan(x) /\ ~is_nan(y) /\ x.val <= y.val

Saturated(v) ==
  IF v > F64Max THEN Infinity ELSE IF v < -F64Max THEN NegInfinity ELSE Fin(v)

\* x * k for a power of two k, which only changes the exponent.
Times(x, k) == IF is_finite(x) THEN Saturated(x.val * k) ELSE x

Plus(x, y) ==
  IF is_finite(x) /\ is_finite(y) THEN Saturated(Nearest(x.val + y.val))
  ELSE IF is_finite(x) THEN y
  ELSE IF is_finite(y) \/ x = y THEN x ELSE NaN

\* x / 0.0
OverZero(x) == IF Less(Zero, x) THEN Infinity ELSE IF Less(x, Zero) THEN NegInfinity ELSE NaN

\* f64::min and f64::max: of a NaN and a number, the number.
Least(x, y) == IF is_nan(x) \/ Less(y, x) THEN y ELSE x
Greatest(x, y) == IF is_nan(x) \/ Less(x, y) THEN y ELSE x

\* x.round() as u64: half away from zero, saturating, 0 for NaN.
Rounded(x) == IF Less(Zero, x) THEN (x.val + 1) \div 2 ELSE 0
=============================================================================
