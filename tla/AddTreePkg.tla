----------------------------- MODULE AddTreePkg -----------------------------
(* The geometry and the latency addtree_pkg.sv computes at elaboration.    *)
EXTENDS ModAccPkg

csa_stage_width(n, s) ==
  LET w[i \in 0 .. s] == IF i = 0 THEN n ELSE 2 * (w[i - 1] \div 3) + (w[i - 1] % 3)
  IN  w[s]

csa_num_stages(n) ==
  CHOOSE s \in 0 .. n : /\ csa_stage_width(n, s) <= 2
                        /\ \A t \in 0 .. s - 1 : csa_stage_width(n, t) > 2

UsesCsa(num_inputs, use_csa) == use_csa /\ num_inputs > 2

total_stages(num_inputs, use_csa) ==
  IF UsesCsa(num_inputs, use_csa) THEN csa_num_stages(num_inputs) + 1
                                  ELSE num_stages(num_inputs)

Flag(b) == IF b THEN 1 ELSE 0

\* Wrong: the output register is counted where it is merged as well.
addtree_latency_unmerged(n, reg_period, reg_in, reg_out, use_csa, ff_add) ==
  LET ns == total_stages(n, use_csa)
  IN  IF ns = 0 THEN 0
      ELSE Flag(reg_in) + (IF reg_period > 0 THEN ns \div reg_period ELSE 0)
           + Flag(ff_add /\ UsesCsa(n, use_csa)) + Flag(reg_out)

addtree_latency(n, reg_period, reg_in, reg_out, use_csa, ff_add) ==
  LET ns     == total_stages(n, use_csa)
      merged == reg_period > 0 /\ ns % reg_period = 0
  IN  IF ns = 0 THEN 0
      ELSE Flag(reg_in) + (IF reg_period > 0 THEN ns \div reg_period ELSE 0)
           + Flag(ff_add /\ UsesCsa(n, use_csa)) + Flag(reg_out /\ ~merged)
=============================================================================
