----------------------------- MODULE ModAccPkg ------------------------------
(* The sizes modacc_pkg.sv computes at elaboration.                        *)
EXTENDS Integers

\* The least s with n <= 2^s.
clog2_val(n) == CHOOSE s \in 0 .. n : n <= 2^s /\ \A t \in 0 .. s - 1 : 2^t < n

stage_width(n, s) == (n + 2^s - 1) \div 2^s

num_stages(n) == clog2_val(n)

sum_extra_bits(n) == IF n <= 1 THEN 0 ELSE clog2_val(n)

num_cond_sub_stages(max) == IF max = 0 THEN 0 ELSE clog2_val(max + 1)
=============================================================================
