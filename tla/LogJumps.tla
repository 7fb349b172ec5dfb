------------------------------ MODULE LogJumps ------------------------------
(***************************************************************************)
(* logjumps.sv: D = C / R mod q for one C per clock, where R is            *)
(* W^N_LIMBS.  Path B folds the low limbs of C onto the high part by       *)
(* powers of 1/W (rho) and reduces the sum modulo q * W; path A gets the   *)
(* Montgomery quotient m from the raw limbs at the same time.  Where they  *)
(* meet, T_acc + m * q is a multiple of W.                                 *)
(*                                                                         *)
(* There is no handshake: what belongs together meets because every delay  *)
(* line has the right length.  Each of the module's parameters that moves  *)
(* a register is a field of cfg, chosen in Init; the arithmetic blocks are *)
(* functions followed by a delay of as many clocks as their *_LAT field    *)
(* says (what they compute is the business of their own modules).          *)
(***************************************************************************)
EXTENDS ModAccPkg, FiniteSetsExt, SequencesExt

CONSTANTS
  LOGW, LOGQ,     \* bits of a limb and of the modulus
  JOIN_SPLIT,     \* where FF_JOIN_ADD cuts the join addition
  Configs,        \* the parameter settings to elaborate
  Samples(_)      \* the inputs [C, q, rho, mu] a setting is run with

W       == 2^LOGW
N_LIMBS == (LOGQ + LOGW - 1) \div LOGW
N_MUL   == N_LIMBS - 1
R       == W^N_LIMBS
ACCW    == LOGQ + LOGW
SUM_W   == ACCW + sum_extra_bits(N_LIMBS)

ASSUME LimbAssumption ==
  /\ LOGW \in Nat \ {0} /\ LOGQ \in Nat \ {0}
  /\ N_MUL >= 1 /\ JOIN_SPLIT \in 1 .. ACCW - 1

\* Powers multiply up, as far as they are needed: what the provers have to be told
\* of ^.
ASSUME PowersAssumption ==
  \A b \in {2, W} :
    b^0 = 1 /\ \A n \in 0 .. LOGQ + LOGW + N_LIMBS : b^(n + 1) = b * b^n

VARIABLES
  cfg,    \* the module's parameters
  line,   \* the delay lines: the registers between its blocks and inside them
  past    \* history: the inputs of the last LAT clocks, newest first

vars == <<cfg, line, past>>

-----------------------------------------------------------------------------
(* The inputs.                                                             *)

Limbs == 0 .. N_MUL - 1

\* rho[k] is W to the power -k modulo q, for k = 1 .. N_MUL.
rho(q) == [k \in 1 .. N_MUL |-> CHOOSE r \in 0 .. q - 1 : (r * W^k) % q = 1 % q]

mu(q) == CHOOSE m \in 0 .. W - 1 : (m * q + 1) % W = 0

\* A value to reduce with the constants of its modulus.
Input(C, q) == [C |-> C, q |-> q, rho |-> rho(q), mu |-> mu(q)]

q_eff(x)   == IF cfg.FIXED_Q THEN cfg.Q_VALUE ELSE x.q
rho_eff(x) == IF cfg.FIXED_Q THEN rho(cfg.Q_VALUE) ELSE x.rho
mu_eff(x)  == IF cfg.FIXED_Q THEN mu(cfg.Q_VALUE) ELSE x.mu

c_lo(C) == [i \in Limbs |-> (C \div W^i) % W]

\* Wrong: the high part starts one limb too low.
c_hi_low(C) == C \div W^(N_MUL - 1)

c_hi(C) == C \div W^N_MUL

\* Limb i of C meets rho[n-1-i].
rho_of_limb(x) == [i \in Limbs |-> rho_eff(x)[N_MUL - i]]

SumOf(v) == FoldFunction(+, 0, v)

\* Wrong: a quotient between the bound and the next integer is forgotten.
cond_sub_floor(q) == SumOf(rho(q)) \div q

\* The bound the build scripts derive for a fixed modulus.
cond_sub_opt(q) == SumOf(rho(q)) \div q + 1

\* A chain is long enough for the default bound or for that of its modulus, and
\* has no more stages than the sum has extra bits (logjumps.sv:172-179).
ASSUME ConfigsAssumption ==
  \A c \in Configs :
    /\ {c.ACC_LAT, c.RM_LAT, c.MVAL_LAT, c.MR_LAT} \subseteq Nat
    /\ c.DOT_LAT \in Nat \ {0}
    /\ {c.FF_RM, c.FF_JOIN_ADD, c.FF_MR_POST, c.FF_OUT} \subseteq 0 .. 1
    /\ c.FIXED_Q \in BOOLEAN /\ c.ACC_MAX_COND_SUB \in Nat
    /\ (IF c.FIXED_Q THEN cond_sub_opt(c.Q_VALUE) ELSE N_LIMBS - 1)
          <= c.ACC_MAX_COND_SUB
    /\ c.ACC_MAX_COND_SUB < 2^sum_extra_bits(N_LIMBS)

-----------------------------------------------------------------------------
(* The lengths of the delay lines.                                         *)

RM_MUL_LAT == IF cfg.FIXED_Q THEN 0 ELSE cfg.RM_LAT
PATH_A == RM_MUL_LAT + cfg.FF_RM + cfg.MVAL_LAT + cfg.MR_LAT
PATH_B == cfg.DOT_LAT + cfg.ACC_LAT
JOIN_CYC == Max({PATH_A, PATH_B})
LAT == JOIN_CYC + cfg.FF_JOIN_ADD + cfg.FF_MR_POST + cfg.FF_OUT

MQ_DELAY   == JOIN_CYC - PATH_A
TACC_DELAY == JOIN_CYC - PATH_B
Q_DOT_DEL  == cfg.DOT_LAT

\* Wrong: q does not wait for the products rho * mu.
QMrDelNoRm == cfg.FF_RM + cfg.MVAL_LAT

Q_MR_DEL == RM_MUL_LAT + cfg.FF_RM + cfg.MVAL_LAT

\* Wrong: the register inside the join addition is forgotten.
QFinExtraNoJoin == JOIN_CYC + cfg.FF_MR_POST - Q_DOT_DEL

Q_FIN_EXTRA == JOIN_CYC + cfg.FF_JOIN_ADD + cfg.FF_MR_POST - Q_DOT_DEL

Lengths ==
  [prod |-> cfg.DOT_LAT, chi |-> cfg.DOT_LAT, q_dot |-> Q_DOT_DEL,
   T_acc |-> cfg.ACC_LAT, q_fin |-> Q_FIN_EXTRA,
   rho_mu |-> RM_MUL_LAT, c_lo |-> RM_MUL_LAT, chi_mu |-> RM_MUL_LAT,
   rm |-> cfg.FF_RM, m_val |-> cfg.MVAL_LAT, q_mr |-> Q_MR_DEL,
   m_q |-> cfg.MR_LAT, tacc |-> TACC_DELAY, mq |-> MQ_DELAY,
   join |-> cfg.FF_JOIN_ADD, T_shift |-> cfg.FF_MR_POST, D |-> cfg.FF_OUT]

\* The oldest entry of line l; without a register what is entering it now.
Out(l, now) == IF line[l] = <<>> THEN now ELSE Last(line[l])
Push(s, now) == IF s = <<>> THEN s ELSE <<now>> \o Front(s)

-----------------------------------------------------------------------------
(* The blocks.                                                             *)

Stage == INSTANCE CondSubStage WITH pow2 <- [n \in 0 .. SUM_W + 1 |-> 2^n]

\* modacc on the plain sum s: its chain of conditional subtractions.
modacc(s, q) ==
  LET num_cs == num_cond_sub_stages(cfg.ACC_MAX_COND_SUB)
      val[n \in 0 .. num_cs] ==
        IF n = 0 THEN s % 2^SUM_W ELSE Stage!val_comb(val[n - 1], q, num_cs - n)
  IN  val[num_cs] % 2^ACCW

\* The join addition, cut in two by a register when FF_JOIN_ADD is set.
LowerHalf(a, b) ==
  LET S  == 2^JOIN_SPLIT
      lo == (a % S) + (b % S)
  IN  [lo |-> lo % S, carry |-> lo \div S, a |-> a \div S, b |-> b \div S]

UpperHalf(j) == (j.a + j.b + j.carry) * 2^JOIN_SPLIT + j.lo

CondSub(T, q) ==
  LET T_sub == (T - q) % 2^(LOGQ + 1)
  IN  (IF T_sub >= 2^LOGQ THEN T ELSE T_sub) % 2^LOGQ

\* Every wire while x is at the inputs: what enters each delay line, and what
\* the join and the output carry.
Wires(x) ==
  LET q        == q_eff(x)
      prod_in  == [i \in Limbs |-> c_lo(x.C)[i] * rho_of_limb(x)[i]]
      prod     == Out("prod", prod_in)
      chi      == Out("chi", c_hi(x.C))
      q_dot    == IF cfg.FIXED_Q THEN q ELSE Out("q_dot", q)
      raw_sum  == SumOf(prod) + chi
      T_acc_in == modacc(raw_sum, q_dot * W)
      T_acc    == Out("T_acc", T_acc_in)
      rm_in    == [i \in Limbs |-> (rho_of_limb(x)[i] * mu_eff(x)) % W]
      rho_mu   == Out("rho_mu", rm_in)
      c_lo_d   == Out("c_lo", c_lo(x.C))
      chi_mu_in == (c_hi(x.C) * mu_eff(x)) % W
      prods_in == [i \in Limbs |-> (c_lo_d[i] * rho_mu[i]) % W]
      rm_prod  == [c |-> prods_in, chi |-> Out("chi_mu", chi_mu_in)]
      rm       == Out("rm", rm_prod)
      m_val_in == (SumOf(rm.c) + rm.chi) % W
      q_mr     == IF cfg.FIXED_Q THEN q ELSE Out("q_mr", q)
      m_q_in   == Out("m_val", m_val_in) * q_mr
      m_q      == Out("m_q", m_q_in)
      join_in  == LowerHalf(Out("tacc", T_acc), Out("mq", m_q))
      T_plus   == UpperHalf(Out("join", join_in))
      T_shift  == Out("T_shift", T_plus \div W)
      q_fin    == IF cfg.FIXED_Q THEN q ELSE Out("q_fin", q_dot)
      D_comb   == CondSub(T_shift, q_fin)
  IN  [prod |-> prod_in, chi |-> c_hi(x.C), q_dot |-> q, T_acc |-> T_acc_in,
       q_fin |-> q_dot, rho_mu |-> rm_in, c_lo |-> c_lo(x.C),
       chi_mu |-> chi_mu_in, rm |-> rm_prod, m_val |-> m_val_in, q_mr |-> q,
       m_q |-> m_q_in, tacc |-> T_acc, mq |-> m_q, join |-> join_in,
       T_shift |-> T_plus \div W, D |-> D_comb,
       raw_sum |-> raw_sum, q_sum |-> q_dot, T_plus |-> T_plus,
       out |-> Out("D", D_comb)]

-----------------------------------------------------------------------------

\* Registers come up cleared.
Zero ==
  [l \in DOMAIN Lengths |->
     CASE l \in {"prod", "rho_mu", "c_lo"} -> [i \in Limbs |-> 0]
       [] l = "rm"   -> [c |-> [i \in Limbs |-> 0], chi |-> 0]
       [] l = "join" -> [lo |-> 0, carry |-> 0, a |-> 0, b |-> 0]
       [] OTHER      -> 0]

Init ==
  /\ cfg \in Configs
  /\ line = [l \in DOMAIN Lengths |-> [i \in 1 .. Lengths[l] |-> Zero[l]]]
  /\ past = <<>>

\* A modulus of the announced width that has the constants: W is invertible
\* modulo q, and q modulo W.
Modulus(q) ==
  /\ q \in 1 .. 2^LOGQ - 1
  /\ \A k \in 1 .. N_MUL : \E r \in 0 .. q - 1 : (r * W^k) % q = 1 % q
  /\ \E m \in 0 .. W - 1 : (m * q + 1) % W = 0

\* What C may be while LOGQ < LOGR, with a modulus and its constants.
Legal(x) ==
  /\ Modulus(x.q) /\ x.C \in 0 .. (x.q - 1) * (x.q - 1)
  /\ x.rho = rho(x.q) /\ x.mu = mu(x.q)
  /\ cfg.FIXED_Q => x.q = cfg.Q_VALUE

\* A rising edge with x at the inputs.
Clock(x) ==
  LET w == Wires(x) IN line' = [l \in DOMAIN line |-> Push(line[l], w[l])]

Edge(x) ==
  /\ Legal(x)
  /\ Clock(x)
  /\ past' = SubSeq(<<x>> \o past, 1, Min({LAT, Len(past) + 1}))
  /\ UNCHANGED cfg

Next == \E x \in Samples(cfg) : Edge(x)

Spec == Init /\ [][Next]_vars

-----------------------------------------------------------------------------
(* Properties.                                                             *)

\* Every register holds a value of its width (logjumps.sv:251-254, 870-912).
TypeOK ==
  /\ [l \in DOMAIN line |-> Len(line[l])] = Lengths
  /\ Len(past) <= LAT
  /\ \A l \in {"chi", "T_acc", "tacc", "m_q", "mq"} :
       \A i \in DOMAIN line[l] : line[l][i] \in 0 .. 2^ACCW - 1
  /\ \A l \in {"q_dot", "q_mr", "q_fin", "D"} :
       \A i \in DOMAIN line[l] : line[l][i] \in 0 .. 2^LOGQ - 1
  /\ \A l \in {"chi_mu", "m_val"} :
       \A i \in DOMAIN line[l] : line[l][i] \in 0 .. W - 1
  /\ \A i \in DOMAIN line.T_shift : line.T_shift[i] \in 0 .. 2^(LOGQ + 1) - 1

\* The dot products are registered in every build, so what is at the inputs now
\* is in none of the wires the properties look at.
Now == Wires(CHOOSE x \in Samples(cfg) : TRUE)

\* D is the Montgomery reduction of the C that came in LAT clocks ago by the
\* modulus that came with it: fully reduced, whatever the neighbours are and
\* however the registers are placed (logjumps.sv:657-743, 806-940).
ReducesItsOwnInput ==
  Len(past) = LAT =>
    /\ Now.out < past[LAT].q
    /\ (Now.out * R) % past[LAT].q = past[LAT].C % past[LAT].q

\* Where the paths meet the low limb of the sum is zero, so that the shift drops
\* nothing, and what it leaves needs at most one subtraction
\* (logjumps.sv:43-50, 909-930).
JoinIsExact ==
  LET at == JOIN_CYC + cfg.FF_JOIN_ADD
      T  == Now.T_plus
  IN  Len(past) >= at => T % W = 0 /\ T \div W < 2 * past[at].q

\* The quotient of the sum that enters modacc is one the chain was sized for:
\* by N_LIMBS - 1, or by the tighter bound of the build scripts for a fixed
\* modulus (logjumps.sv:172-179, modmul_helper.tcl:228-246).
ChainIsLongEnough ==
  LET w == Now IN
  Len(past) >= cfg.DOT_LAT =>
    w.raw_sum \div (w.q_sum * W) <= cfg.ACC_MAX_COND_SUB
=============================================================================
