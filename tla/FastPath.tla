------------------------------ MODULE FastPath ------------------------------
(***************************************************************************)
(* The modular arithmetic of ssle_core/src/fast_path.rs and its sibling    *)
(* final_value_to_commit_u128.  A pair of u64 limbs is the number it       *)
(* stands for, and a u128 is a number below Word.  The operators wrap      *)
(* where a release build wraps; a build with overflow checks panics there. *)
(***************************************************************************)
EXTENDS Integers

CONSTANT Word   \* the number of values of a u128

ASSUME WordAssumption == Word \in Nat \ {0}

(* biguint_to_u128 gives Some.                                             *)
Fits(n) == n < Word

Wrap(n) == n % Word

(* Mutant of AddMod: the sum is not reduced.                               *)
AddModUnreduced(a, b, m) == Wrap(a + b)

AddMod(a, b, m) ==
    LET sum == Wrap(a + b) IN IF sum >= m THEN sum - m ELSE sum

SubMod(a, b, m) == IF a >= b THEN a - b ELSE Wrap(Wrap(a + m) - b)

NegMod(a, m) == IF a # 0 THEN m - a ELSE a

(* n / d to the nearest integer, by the test that doubles the remainder.   *)
RoundedDiv(n, d) ==
    IF Wrap((n % d) * 2) >= d THEN Wrap(n \div d) + 1 ELSE Wrap(n \div d)

(* The value of scale_round_and_mod: v * q' / q, over a 256-bit product.   *)
ScaleRound(v, q, qp) == RoundedDiv(v * qp, q)

(* round(value / delta_prime); up to and including the plaintext modulus,  *)
(* since a value just below q' rounds up.                                  *)
FinalValue(v, dp) == RoundedDiv(v, dp)
=============================================================================
