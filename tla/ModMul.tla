------------------------------- MODULE ModMul -------------------------------
(***************************************************************************)
(* modmul.sv: D = A * B / R mod q for one pair of operands per clock.      *)
(*                                                                         *)
(* The integer multiplier and logjumps follow each other; q, rho and mu    *)
(* are inputs of the same clock as A and B and wait in delay lines of      *)
(* their own until the product comes out (with FIXED_Q they are            *)
(* parameters).  modmul does not look into the two: it computes their      *)
(* latencies with the functions of the packages and hands the parameters   *)
(* on.  Its own sum of the two, LAT, is what the streaming shell delays    *)
(* its valid bit by.                                                       *)
(*                                                                         *)
(* The integer multiplier is the exact product after INTMUL_LAT clocks,    *)
(* logjumps is the LogJumps module.                                        *)
(***************************************************************************)
EXTENDS AddTreePkg, FiniteSetsExt, SequencesExt

CONSTANTS
  LOGW, LOGQ, JOIN_SPLIT,
  Configs,      \* the parameter settings to elaborate
  Samples(_)    \* the inputs [A, B, q, rho, mu] a setting is run with

VARIABLES
  p,        \* modmul's parameters
  cfg,      \* the parameters it builds logjumps with
  mul,      \* the integer multiplier: the products under way
  C_r,      \* the register behind it
  q_sr, rho_sr, mu_sr,   \* the delay lines beside it
  line,     \* the registers of logjumps
  past      \* history: the inputs of the last DEPTH clocks, newest first

vars == <<p, cfg, mul, C_r, q_sr, rho_sr, mu_sr, line, past>>

-----------------------------------------------------------------------------
(* Parameters and latencies.                                               *)

N_LIMBS == (LOGQ + LOGW - 1) \div LOGW

mval_tree_latency(c, ff_add) ==
  addtree_latency(N_LIMBS, c.MT_REG_PERIOD, c.MT_REG_IN, c.MT_REG_OUT,
                  c.MT_USE_CSA, ff_add)

\* What logjumps is built with.  modmul has no parameter for MT_FF_ADD, so that
\* logjumps takes its default, which is 1.
LogJumpsParameters(c) ==
  [DOT_LAT |-> c.DOT_LAT, ACC_LAT |-> c.ACC_LAT, RM_LAT |-> c.RM_LAT,
   FF_RM |-> c.FF_RM, MVAL_LAT |-> mval_tree_latency(c, TRUE), MR_LAT |-> c.MR_LAT,
   FF_JOIN_ADD |-> c.FF_JOIN_ADD, FF_MR_POST |-> c.FF_MR_POST,
   FF_OUT |-> c.FF_OUT, FIXED_Q |-> c.FIXED_Q, Q_VALUE |-> c.Q_VALUE,
   ACC_MAX_COND_SUB |-> c.ACC_MAX_COND_SUB]

LJ == INSTANCE LogJumps WITH Configs <- {LogJumpsParameters(c) : c \in Configs}

\* What logjumps asks of the parameters it is built with, and the multiplier's own.
ASSUME LogJumpsAssumption ==
  LJ!LimbAssumption /\ LJ!PowersAssumption /\ LJ!ConfigsAssumption

ASSUME ParametersAssumption ==
  \A c \in Configs :
    /\ c.INTMUL_LAT \in Nat /\ c.MUL_FF_CPA \in 0 .. 1
    /\ c.MT_REG_PERIOD \in Nat
    /\ {c.MT_REG_IN, c.MT_REG_OUT, c.MT_USE_CSA} \subseteq BOOLEAN

\* Wrong: the register behind the multiplier is forgotten.
MulLatNoCpa == p.INTMUL_LAT

MUL_LAT == p.INTMUL_LAT + p.MUL_FF_CPA

path_a_latency ==
  (IF p.FIXED_Q THEN 0 ELSE p.RM_LAT) + p.FF_RM + mval_tree_latency(p, FALSE) + p.MR_LAT

path_b_latency == p.DOT_LAT + p.ACC_LAT

\* lj_latency has no argument for MT_FF_ADD either: logjumps_latency takes its
\* default, which is 0.
LJ_LAT ==
  Max({path_a_latency, path_b_latency}) + p.FF_JOIN_ADD + p.FF_MR_POST + p.FF_OUT

\* Wrong: the output register of logjumps is forgotten.
LatNoOut == MUL_LAT + LJ_LAT - p.FF_OUT

LAT == MUL_LAT + LJ_LAT

\* The registers a product really passes on its way.
DEPTH == p.INTMUL_LAT + p.MUL_FF_CPA + LJ!LAT

-----------------------------------------------------------------------------

\* The oldest entry of a delay line; without a register what is entering it now.
Oldest(sr, now) == IF sr = <<>> THEN now ELSE Last(sr)

C_raw(x) == Oldest(mul, x.A * x.B)

C(x) == IF p.MUL_FF_CPA = 1 THEN C_r ELSE C_raw(x)

\* What logjumps has at its inputs; with FIXED_Q it uses C alone.
LogJumpsInput(x) ==
  [C   |-> C(x),
   q   |-> Oldest(q_sr, x.q),
   rho |-> Oldest(rho_sr, x.rho),
   mu  |-> Oldest(mu_sr, x.mu)]

D(x) == LJ!Wires(LogJumpsInput(x)).out

\* Registers come up cleared.
Init ==
  /\ p \in Configs
  /\ cfg = LogJumpsParameters(p)
  /\ mul = [i \in 1 .. p.INTMUL_LAT |-> 0]
  /\ C_r = 0
  /\ LET delay == 1 .. (IF p.FIXED_Q THEN 0 ELSE MUL_LAT) IN
     /\ q_sr   = [i \in delay |-> 0]
     /\ rho_sr = [i \in delay |-> [k \in 1 .. N_LIMBS - 1 |-> 0]]
     /\ mu_sr  = [i \in delay |-> 0]
  /\ line = [l \in DOMAIN LJ!Lengths |-> [i \in 1 .. LJ!Lengths[l] |-> LJ!Zero[l]]]
  /\ past = <<>>

\* Operands are reduced, and the constants are those of the modulus.
Legal(x) ==
  /\ LJ!Modulus(x.q) /\ {x.A, x.B} \subseteq 0 .. x.q - 1
  /\ p.FIXED_Q => x.q = p.Q_VALUE
  /\ x.rho = LJ!rho(x.q) /\ x.mu = LJ!mu(x.q)

Edge(x) ==
  /\ Legal(x)
  /\ mul'    = LJ!Push(mul, x.A * x.B)
  /\ C_r'    = C_raw(x)
  /\ q_sr'   = LJ!Push(q_sr, x.q)
  /\ rho_sr' = LJ!Push(rho_sr, x.rho)
  /\ mu_sr'  = LJ!Push(mu_sr, x.mu)
  /\ LJ!Clock(LogJumpsInput(x))
  /\ past' = SubSeq(<<x>> \o past, 1, Min({DEPTH, Len(past) + 1}))
  /\ UNCHANGED <<p, cfg>>

Next == \E x \in Samples(p) : Edge(x)

Spec == Init /\ [][Next]_vars

-----------------------------------------------------------------------------
(* Properties.                                                             *)

\* y is the Montgomery product of the inputs x, fully reduced.
IsProductOf(y, x) == y < x.q /\ (y * LJ!R) % x.q = (x.A * x.B) % x.q

\* The output, which is behind at least one register in every build.
Output == D(CHOOSE x \in Samples(p) : TRUE)

\* D is the Montgomery product of the operands of DEPTH clocks ago by the modulus
\* that came with them: q, rho and mu meet their product at the input of logjumps
\* whatever their neighbours are (modmul.sv:255-265, 285-334).
MultipliesItsOwnInputs == Len(past) = DEPTH => IsProductOf(Output, past[DEPTH])

\* As long as path B of logjumps is not the shorter one, the product is there
\* after the announced number of clocks (modmul.sv:183-213,
\* modmul_pkg.sv:125-189): the shell's valid bit comes out with its own result.
ProductOnTime ==
  LJ!PATH_A <= LJ!PATH_B /\ Len(past) >= LAT => IsProductOf(Output, past[LAT])

\* The announced latency is the depth of the pipeline, in every setting
\* (test_modmul.py:245-308).
LatencyIsLAT == Len(past) >= LAT => IsProductOf(Output, past[LAT])
=============================================================================
