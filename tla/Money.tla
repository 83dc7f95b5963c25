------------------------------- MODULE Money -------------------------------
(***************************************************************************)
(* Integer money arithmetic (money.go, internal/safemath).                 *)
(*                                                                         *)
(* Money is a signed count of minor units with a fixed width: the code     *)
(* uses int64, here the largest value is the constant MaxMoney so that a   *)
(* small instance reaches the edge.  A rate is a number of basis points.   *)
(***************************************************************************)
EXTENDS Integers

CONSTANT MaxMoney     \* largest representable amount (int64: 2^63 - 1)

ASSUME MaxMoneyAssumption == MaxMoney \in Nat

MinMoney == -MaxMoney - 1

RateScale == 10000

Roundings == {"down", "half-up", "up"}

Abs(x) == IF x < 0 THEN -x ELSE x

(* Add, Sub and Neg fail with ErrOverflow exactly when the mathematical    *)
(* result does not fit.                                                    *)
Fits(x) == MinMoney <= x /\ x <= MaxMoney

(* One more unit is due on a remainder r of a division by d.               *)
RoundsUp(r, d, mode) ==
  /\ r > 0
  /\ \/ mode = "up"
     \/ mode = "half-up" /\ r >= d - r

(* safemath.MulDiv: a * b / d on magnitudes, the product never truncated.  *)
MulDivAbs(a, b, d, mode) ==
  (a * b) \div d + (IF RoundsUp((a * b) % d, d, mode) THEN 1 ELSE 0)

(* Money.MulDiv: the sign is taken off, the magnitude rounded, and the     *)
(* sign put back, so that rounding is symmetric about zero.                *)
MulDiv(m, n, d, mode) ==
  LET q == MulDivAbs(Abs(m), Abs(n), d, mode)
  IN  IF (m < 0) # (n < 0) THEN -q ELSE q

(* Money.Apply: the share of m that a rate of r basis points gives.        *)
ApplyRate(m, r, mode) == MulDiv(m, r, RateScale, mode)

=============================================================================
