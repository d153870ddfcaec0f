------------------------------- MODULE MulDiv -------------------------------
(***************************************************************************)
(* mul_div_u128 of the vesting schedule: (total * elapsed) / duration on   *)
(* unsigned integers of two words.  When the product does not fit, the     *)
(* code divides the high and the low word separately.  WORD is 2^64 in the *)
(* code; here it is a parameter, so that TLC can reach the split path.     *)
(***************************************************************************)
EXTENDS Integers

CONSTANT WORD

ASSUME WordAssumption == WORD \in Nat /\ WORD >= 2

(* Arithmetic on u128: values that do not fit wrap (a shift) or panic.     *)
U128_SIZE == WORD * WORD

(* Mutant: the remainder of the high word is not carried to the low word.  *)
SplitQuotientNoCarry(total, elapsed, duration) ==
  LET hi == total \div WORD
      lo == total % WORD
  IN  (((hi * elapsed) \div duration) * WORD) + ((lo * elapsed) \div duration)

(* The low-word dividend of the split: remainder of the high word, shifted *)
(* by one word, plus the low product.                                      *)
LowSum(total, elapsed, duration) ==
  LET hi_rem  == ((total \div WORD) * elapsed) % duration
      lo_prod == (total % WORD) * elapsed
  IN  ((hi_rem * WORD) % U128_SIZE) + lo_prod

SplitQuotient(total, elapsed, duration) ==
  LET hi_div == ((total \div WORD) * elapsed) \div duration
      lo_div == LowSum(total, elapsed, duration) \div duration
  IN  ((hi_div * WORD) % U128_SIZE) + lo_div

mul_div_u128(total, elapsed, duration) ==
  IF total * elapsed < U128_SIZE        \* checked_mul
    THEN (total * elapsed) \div duration
    ELSE SplitQuotient(total, elapsed, duration)
=============================================================================
