----------------------------- MODULE MCCondSub ------------------------------
(* A chain of three stages for sums of five operands of two bits.          *)
EXTENDS CondSub

MCpow2 == [n \in 0 .. 6 |-> 2^n]
=============================================================================
