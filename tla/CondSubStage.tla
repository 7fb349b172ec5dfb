---------------------------- MODULE CondSubStage ----------------------------
(***************************************************************************)
(* One stage of modacc's conditional subtraction: the stage for 2^shift    *)
(* takes q * 2^shift off the value if it fits.  Whether it fits is read    *)
(* from the top bit of a difference of SUM_W + 1 bits, into which the      *)
(* shifted q is cut as well.                                               *)
(***************************************************************************)
EXTENDS Integers

CONSTANTS
  SUM_W,   \* bits of the value
  pow2     \* the powers of two, as far as they are needed

q_shifted(q, shift) == (q * pow2[shift]) % pow2[SUM_W + 1]

diff(val, q, shift) == (val - q_shifted(q, shift)) % pow2[SUM_W + 1]

\* Wrong: an equal value is not subtracted.
val_comb_strict(val, q, shift) ==
  IF diff(val, q, shift) \in {0} \cup pow2[SUM_W] .. pow2[SUM_W + 1] - 1
    THEN val ELSE diff(val, q, shift)

\* Wrong: the difference is taken whether it fits or not.
val_comb_always(val, q, shift) == diff(val, q, shift)

val_comb(val, q, shift) ==
  IF diff(val, q, shift) >= pow2[SUM_W] THEN val ELSE diff(val, q, shift)
=============================================================================
