------------------------------ MODULE IntMulPkg -----------------------------
(***************************************************************************)
(* What intmul_wrapper_pkg.sv, mac_std_pkg.sv, karatsuba_mul_pkg.sv and    *)
(* the packages of the two non-standard tilings compute at elaboration:    *)
(* which multiplier is built, and how many clocks its user has to count.   *)
(* Flags are 0 or 1, widths a pair <<LOGA, LOGB>>.                         *)
(***************************************************************************)
EXTENDS CsaTree

CONSTANTS
  DSP_A_U, DSP_B_U,       \* unsigned widths of the ports of a DSP
  KARATSUBA_THRESHOLD     \* the widest operand that is not split

DSP_M_U == DSP_A_U + DSP_B_U

\* What the tilings and the end of the recursion need of the geometry.
ASSUME GeometryAssumption ==
  /\ DSP_A_U \in Nat /\ DSP_B_U \in Nat /\ KARATSUBA_THRESHOLD \in Nat
  /\ DSP_B_U < DSP_A_U /\ 3 * DSP_B_U <= 2 * DSP_A_U /\ DSP_A_U < 2 * DSP_B_U
  /\ KARATSUBA_THRESHOLD >= 3

Ceil(n, d) == (n - 1) \div d + 1

-----------------------------------------------------------------------------
(* mac_std: the wider operand meets the wider port.                        *)

dsp_a_width(w) == IF w[1] >= w[2] THEN DSP_A_U ELSE DSP_B_U
dsp_b_width(w) == IF w[1] >= w[2] THEN DSP_B_U ELSE DSP_A_U

n_tiles_a(w) == Ceil(w[1], dsp_a_width(w))
n_tiles_b(w) == Ceil(w[2], dsp_b_width(w))

n_diagonals(w) == n_tiles_a(w) + n_tiles_b(w) - 1

\* p says which registers are there; the stages of the carry-save path count
\* only where that path is used.
mac_std_latency(p) ==
  (IF p.PIPE_DSP > 0 THEN p.PIPE_DSP ELSE p.FF_IN + p.FF_MUL)
    + (p.FF_DIAG + p.FF_CSA_MID + p.FF_CSA + p.FF_ADD) * p.USE_CSA + p.FF_OUT

-----------------------------------------------------------------------------
(* The non-standard tilings.                                               *)

BBxAB_valid(lo, hi) ==
  /\ lo > DSP_A_U /\ hi > DSP_A_U
  /\ lo <= 2 * DSP_B_U /\ hi <= DSP_A_U + DSP_B_U

BBAxBBA_valid(w) ==
  \A i \in {1, 2} : w[i] > DSP_M_U /\ w[i] <= DSP_A_U + 2 * DSP_B_U

nonstd_latency(p) == p.FF_IN + p.FF_MUL + p.FF_OUT + p.FF_CSA * p.USE_CSA

-----------------------------------------------------------------------------
(* karatsuba_mul: three products of about half the width.                  *)

is_base_case(w) == w[1] <= KARATSUBA_THRESHOLD /\ w[2] <= KARATSUBA_THRESHOLD

karatsuba_split(w) == (Max({w[1], w[2]}) + 1) \div 2

Products == {"z0", "z2", "zx"}

SubWidths(w) ==
  LET HALF == karatsuba_split(w)
  IN  [z0 |-> <<HALF, HALF>>,
       z2 |-> <<w[1] - HALF, w[2] - HALF>>,
       zx |-> <<Max({HALF, w[1] - HALF}) + 1, Max({HALF, w[2] - HALF}) + 1>>]

\* The base case always has an output register, and PIPE_MID between tree and adder.
BaseCase(k) ==
  [FF_IN |-> 0, FF_MUL |-> 0, FF_OUT |-> 1, USE_CSA |-> 1, FF_CSA |-> k.K_PIPE_MID,
   FF_DIAG |-> 0, FF_CSA_MID |-> 0, FF_ADD |-> 0, PIPE_DSP |-> k.K_PIPE_DSP]

\* The wrapper leaves the registers inside the DSPs to karatsuba_mul.
StdCase(p) ==
  [f \in DOMAIN p \cup {"PIPE_DSP"} |-> IF f = "PIPE_DSP" THEN 0 ELSE p[f]]

\* Wrong: the levels are those of the low product, as in an earlier version.
karatsuba_levels_low(w) ==
  LET path[n \in 0 .. w[1] + w[2]] == IF n = 0 THEN w ELSE SubWidths(path[n - 1]).z0
  IN  CHOOSE n \in 0 .. w[1] + w[2] :
        is_base_case(path[n]) /\ \A i \in 0 .. n - 1 : ~is_base_case(path[i])

\* Levels of splitting along the cross term.
karatsuba_levels(w) ==
  LET path[n \in 0 .. w[1] + w[2]] == IF n = 0 THEN w ELSE SubWidths(path[n - 1]).zx
  IN  CHOOSE n \in 0 .. w[1] + w[2] :
        is_base_case(path[n]) /\ \A i \in 0 .. n - 1 : ~is_base_case(path[i])

karatsuba_latency(w, k) ==
  karatsuba_levels(w) * (k.K_PIPE_PRE + k.K_PIPE_MID + k.K_PIPE_POST)
    + mac_std_latency(BaseCase(k))

-----------------------------------------------------------------------------
(* intmul_wrapper.                                                         *)

select_topo(p) ==
  LET lo == Min({p.LOGA, p.LOGB})
      hi == Max({p.LOGA, p.LOGB})
  IN  CASE p.USE_KARATSUBA = 1 -> "KARATSUBA"
        [] p.USE_KARATSUBA = 0 /\ p.NON_STD = 1 /\ BBxAB_valid(lo, hi) -> "BBxAB"
        [] /\ p.USE_KARATSUBA = 0 /\ p.NON_STD = 1 /\ ~BBxAB_valid(lo, hi)
           /\ BBAxBBA_valid(<<p.LOGA, p.LOGB>>) -> "BBAxBBA"
        [] OTHER -> "STD"

latency(p) ==
  LET topo == select_topo(p)
  IN  CASE topo = "KARATSUBA" -> karatsuba_latency(<<p.LOGA, p.LOGB>>, p)
        [] topo = "STD"       -> mac_std_latency(StdCase(p))
        [] OTHER              -> nonstd_latency(p)
=============================================================================
