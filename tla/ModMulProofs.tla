----------------------------- MODULE ModMulProofs -----------------------------
(***************************************************************************)
(* modmul multiplies: for every width, every setting and every sequence of *)
(* inputs what comes out is the Montgomery product of the operands that    *)
(* went in DEPTH clocks before.                                            *)
(*                                                                         *)
(* The theorems about logjumps are used as they stand, for the inputs it   *)
(* gets here: lj_past is the history of those, a function of the history   *)
(* of modmul's own inputs.                                                 *)
(***************************************************************************)
EXTENDS ModMul, TLAPS

\* The inputs of modmul as logjumps gets them.
Entering(y) == [C |-> y.A * y.B, q |-> y.q, rho |-> y.rho, mu |-> y.mu]

\* What logjumps gets before the first product.
Nothing ==
  [C |-> 0,
   q |-> IF p.FIXED_Q THEN p.Q_VALUE ELSE 0,
   rho |-> IF p.FIXED_Q THEN LJ!rho(p.Q_VALUE) ELSE [k \in 1 .. N_LIMBS - 1 |-> 0],
   mu |-> IF p.FIXED_Q THEN LJ!mu(p.Q_VALUE) ELSE 0]

\* How many of the last inputs of logjumps are inputs to speak of: with FIXED_Q the
\* empty ones as well, since they come with the modulus.
Fed ==
  IF p.FIXED_Q THEN (IF Len(past) <= LJ!LAT THEN Len(past) ELSE LJ!LAT)
               ELSE (IF Len(past) <= MUL_LAT THEN 0 ELSE Len(past) - MUL_LAT)

\* The inputs of logjumps, newest first.
lj_past ==
  [i \in 1 .. Fed |-> IF MUL_LAT + i <= Len(past) THEN Entering(past[MUL_LAT + i])
                                                  ELSE Nothing]

LJP == INSTANCE LogJumpsProofs
         WITH Configs <- {LogJumpsParameters(c) : c \in Configs}, past <- lj_past

(***************************************************************************)
(* The two instances of LogJumps are the same circuit                      *)
(***************************************************************************)

\* The sizes ...
LEMMA SameSizes ==
  /\ LJ!W = LJP!W /\ LJ!N_LIMBS = LJP!N_LIMBS /\ LJ!N_MUL = LJP!N_MUL /\ LJ!R = LJP!R
  /\ LJ!ACCW = LJP!ACCW /\ LJ!SUM_W = LJP!SUM_W /\ LJ!Limbs = LJP!Limbs
  /\ N_LIMBS = LJP!N_LIMBS
  /\ LJ!sum_extra_bits(LJ!N_LIMBS) = LJP!sum_extra_bits(LJP!N_LIMBS)
  BY DEF LJ!W, LJP!W, LJ!N_LIMBS, LJP!N_LIMBS, LJ!N_MUL, LJP!N_MUL, LJ!R, LJP!R,
         LJ!ACCW, LJP!ACCW, LJ!SUM_W, LJP!SUM_W, LJ!Limbs, LJP!Limbs, N_LIMBS,
         LJ!sum_extra_bits, LJP!sum_extra_bits, LJ!clog2_val, LJP!clog2_val

\* ... the constants of a modulus and the limbs of C ...
LEMMA SameConstants ==
  ASSUME NEW a
  PROVE  /\ LJ!rho(a) = LJP!rho(a) /\ LJ!mu(a) = LJP!mu(a)
         /\ LJ!c_hi(a) = LJP!c_hi(a) /\ LJ!c_lo(a) = LJP!c_lo(a)
         /\ LJ!Modulus(a) <=> LJP!Modulus(a)
  BY SameSizes
     DEF LJ!rho, LJP!rho, LJ!mu, LJP!mu, LJ!c_hi, LJP!c_hi, LJ!c_lo, LJP!c_lo,
         LJ!Modulus, LJP!Modulus

LEMMA SameEffective ==
  ASSUME NEW x
  PROVE  /\ LJ!q_eff(x) = LJP!q_eff(x) /\ LJ!mu_eff(x) = LJP!mu_eff(x)
         /\ LJ!rho_of_limb(x) = LJP!rho_of_limb(x)
  BY SameSizes, SameConstants
     DEF LJ!q_eff, LJP!q_eff, LJ!mu_eff, LJP!mu_eff, LJ!rho_eff, LJP!rho_eff,
         LJ!rho_of_limb, LJP!rho_of_limb

\* ... the blocks ...
LEMMA SameSum ==
  ASSUME NEW v
  PROVE  LJ!SumOf(v) = LJP!SumOf(v)
  BY DEF LJ!SumOf, LJP!SumOf, LJ!FoldFunction, LJP!FoldFunction,
         LJ!FoldFunctionOnSet, LJP!FoldFunctionOnSet,
         LJ!MapThenFoldSet, LJP!MapThenFoldSet

LEMMA SameBlocks ==
  ASSUME NEW a, NEW b
  PROVE  /\ LJ!LowerHalf(a, b) = LJP!LowerHalf(a, b)
         /\ LJ!UpperHalf(a) = LJP!UpperHalf(a)
         /\ LJ!CondSub(a, b) = LJP!CondSub(a, b)
         /\ LJ!Push(a, b) = LJP!Push(a, b)
  BY DEF LJ!LowerHalf, LJP!LowerHalf, LJ!UpperHalf, LJP!UpperHalf,
         LJ!CondSub, LJP!CondSub, LJ!Push, LJP!Push, LJ!Front, LJP!Front

LEMMA SameOut ==
  ASSUME NEW l, NEW now
  PROVE  LJ!Out(l, now) = LJP!Out(l, now)
  BY DEF LJ!Out, LJP!Out, LJ!Last, LJP!Last

LEMMA SameChain ==
  ASSUME NEW s, NEW q
  PROVE  LJ!modacc(s, q) = LJP!modacc(s, q)
  BY SameSizes
     DEF LJ!modacc, LJP!modacc, LJ!Stage!val_comb, LJP!Stage!val_comb,
         LJ!Stage!diff, LJP!Stage!diff, LJ!Stage!q_shifted, LJP!Stage!q_shifted,
         LJ!num_cond_sub_stages, LJP!num_cond_sub_stages,
         LJ!clog2_val, LJP!clog2_val

\* ... the delays ...
LEMMA SameDelays ==
  /\ LJ!PATH_A = LJP!PATH_A /\ LJ!PATH_B = LJP!PATH_B /\ LJ!JOIN_CYC = LJP!JOIN_CYC
  /\ LJ!LAT = LJP!LAT /\ LJ!Lengths = LJP!Lengths
  <1>1. LJ!RM_MUL_LAT = LJP!RM_MUL_LAT
    BY DEF LJ!RM_MUL_LAT, LJP!RM_MUL_LAT
  <1>2. LJ!PATH_A = LJP!PATH_A /\ LJ!PATH_B = LJP!PATH_B
    BY <1>1 DEF LJ!PATH_A, LJP!PATH_A, LJ!PATH_B, LJP!PATH_B
  <1>3. LJ!JOIN_CYC = LJP!JOIN_CYC
    BY <1>2 DEF LJ!JOIN_CYC, LJP!JOIN_CYC, LJ!Max, LJP!Max
  <1>4. LJ!LAT = LJP!LAT
    BY <1>3 DEF LJ!LAT, LJP!LAT
  <1>5. LJ!Lengths = LJP!Lengths
    BY <1>1, <1>2, <1>3
       DEF LJ!Lengths, LJP!Lengths, LJ!Q_DOT_DEL, LJP!Q_DOT_DEL,
           LJ!Q_FIN_EXTRA, LJP!Q_FIN_EXTRA, LJ!Q_MR_DEL, LJP!Q_MR_DEL,
           LJ!TACC_DELAY, LJP!TACC_DELAY, LJ!MQ_DELAY, LJP!MQ_DELAY
  <1> QED BY <1>2, <1>3, <1>4, <1>5

LEMMA SameZero == LJ!Zero = LJP!Zero
  BY SameSizes, SameDelays DEF LJ!Zero, LJP!Zero

LEMMA SameInit ==
  ASSUME cfg \in {LogJumpsParameters(c) : c \in Configs}, lj_past = <<>>,
         line = [l \in DOMAIN LJ!Lengths |-> [i \in 1 .. LJ!Lengths[l] |-> LJ!Zero[l]]]
  PROVE  LJP!Init
  BY SameDelays, SameZero DEF LJP!Init

\* ... and so is what every wire carries.
LEMMA SameWires ==
  ASSUME NEW x
  PROVE  /\ \A l \in LJP!LineNames : LJ!Wires(x)[l] = LJP!Wires(x)[l]
         /\ LJ!Wires(x).out = LJP!Wires(x).out
  <1> DEFINE v == LJ!Wires(x)
             w == LJP!Wires(x)
             Limbs == LJP!Limbs
             W == LJP!W
             q == LJP!q_eff(x)
             r == LJP!rho_of_limb(x)
             m == LJP!mu_eff(x)
  <1>1. /\ v.prod = [i \in Limbs |-> LJP!c_lo(x.C)[i] * r[i]]
        /\ v.chi = LJP!c_hi(x.C) /\ v.q_dot = q /\ v.q_mr = q
        /\ v.c_lo = LJP!c_lo(x.C)
        /\ v.rho_mu = [i \in Limbs |-> (r[i] * m) % W]
        /\ v.chi_mu = (LJP!c_hi(x.C) * m) % W
        /\ v.raw_sum = LJ!SumOf(LJ!Out("prod", v.prod)) + LJ!Out("chi", v.chi)
        /\ v.q_sum = (IF cfg.FIXED_Q THEN q ELSE LJ!Out("q_dot", v.q_dot))
        /\ v.q_fin = v.q_sum
        /\ v.T_acc = LJ!modacc(v.raw_sum, v.q_sum * W)
        /\ v.tacc = LJ!Out("T_acc", v.T_acc)
        /\ v.rm = [c |-> [i \in Limbs |-> (LJ!Out("c_lo", v.c_lo)[i]
                                             * LJ!Out("rho_mu", v.rho_mu)[i]) % W],
                   chi |-> LJ!Out("chi_mu", v.chi_mu)]
        /\ v.m_val = (LJ!SumOf(LJ!Out("rm", v.rm).c) + LJ!Out("rm", v.rm).chi) % W
        /\ v.m_q = LJ!Out("m_val", v.m_val)
                     * (IF cfg.FIXED_Q THEN q ELSE LJ!Out("q_mr", v.q_mr))
        /\ v.mq = LJ!Out("m_q", v.m_q)
        /\ v.join = LJ!LowerHalf(LJ!Out("tacc", v.tacc), LJ!Out("mq", v.mq))
        /\ v.T_plus = LJ!UpperHalf(LJ!Out("join", v.join))
        /\ v.T_shift = v.T_plus \div W
        /\ v.D = LJ!CondSub(LJ!Out("T_shift", v.T_shift),
                            IF cfg.FIXED_Q THEN q ELSE LJ!Out("q_fin", v.q_fin))
        /\ v.out = LJ!Out("D", v.D)
    <2>1. /\ LJ!Limbs = Limbs /\ LJ!W = W /\ LJ!q_eff(x) = q
          /\ LJ!rho_of_limb(x) = r /\ LJ!mu_eff(x) = m
          /\ LJ!c_lo(x.C) = LJP!c_lo(x.C) /\ LJ!c_hi(x.C) = LJP!c_hi(x.C)
      BY SameSizes, SameConstants, SameEffective
    <2> HIDE DEF Limbs, W, q, r, m
    <2> QED BY <2>1, ZenonT(60) DEF LJ!Wires
  <1>2. /\ w.prod = [i \in Limbs |-> LJP!c_lo(x.C)[i] * r[i]]
        /\ w.chi = LJP!c_hi(x.C) /\ w.q_dot = q /\ w.q_mr = q
        /\ w.c_lo = LJP!c_lo(x.C)
        /\ w.rho_mu = [i \in Limbs |-> (r[i] * m) % W]
        /\ w.chi_mu = (LJP!c_hi(x.C) * m) % W
        /\ w.raw_sum = LJP!SumOf(LJP!Out("prod", w.prod)) + LJP!Out("chi", w.chi)
        /\ w.q_sum = (IF cfg.FIXED_Q THEN q ELSE LJP!Out("q_dot", w.q_dot))
        /\ w.q_fin = w.q_sum
        /\ w.T_acc = LJP!modacc(w.raw_sum, w.q_sum * W)
        /\ w.tacc = LJP!Out("T_acc", w.T_acc)
        /\ w.rm = [c |-> [i \in Limbs |-> (LJP!Out("c_lo", w.c_lo)[i]
                                             * LJP!Out("rho_mu", w.rho_mu)[i]) % W],
                   chi |-> LJP!Out("chi_mu", w.chi_mu)]
        /\ w.m_val = (LJP!SumOf(LJP!Out("rm", w.rm).c) + LJP!Out("rm", w.rm).chi) % W
        /\ w.m_q = LJP!Out("m_val", w.m_val)
                     * (IF cfg.FIXED_Q THEN q ELSE LJP!Out("q_mr", w.q_mr))
        /\ w.mq = LJP!Out("m_q", w.m_q)
        /\ w.join = LJP!LowerHalf(LJP!Out("tacc", w.tacc), LJP!Out("mq", w.mq))
        /\ w.T_plus = LJP!UpperHalf(LJP!Out("join", w.join))
        /\ w.T_shift = w.T_plus \div W
        /\ w.D = LJP!CondSub(LJP!Out("T_shift", w.T_shift),
                             IF cfg.FIXED_Q THEN q ELSE LJP!Out("q_fin", w.q_fin))
        /\ w.out = LJP!Out("D", w.D)
    BY ZenonT(60) DEF LJP!Wires
  <1> HIDE DEF v, w, Limbs, W, q, r, m
  <1>3. /\ v.prod = w.prod /\ v.chi = w.chi /\ v.q_dot = w.q_dot /\ v.q_mr = w.q_mr
        /\ v.c_lo = w.c_lo /\ v.rho_mu = w.rho_mu /\ v.chi_mu = w.chi_mu
    BY <1>1, <1>2
  <1>4. v.raw_sum = w.raw_sum
    <2>1. v.raw_sum = LJ!SumOf(LJ!Out("prod", v.prod)) + LJ!Out("chi", v.chi)
      BY <1>1, Zenon
    <2>2. w.raw_sum = LJP!SumOf(LJP!Out("prod", w.prod)) + LJP!Out("chi", w.chi)
      BY <1>2, Zenon
    <2>3. LJ!Out("prod", v.prod) = LJP!Out("prod", w.prod)
      BY <1>3, SameOut
    <2>4. LJ!Out("chi", v.chi) = LJP!Out("chi", w.chi)
      BY <1>3, SameOut
    <2>5. LJ!SumOf(LJP!Out("prod", w.prod)) = LJP!SumOf(LJP!Out("prod", w.prod))
      BY SameSum
    <2> QED BY <2>1, <2>2, <2>3, <2>4, <2>5, Zenon
  <1>5. v.q_sum = w.q_sum /\ v.q_fin = w.q_fin
    <2>1. v.q_sum = (IF cfg.FIXED_Q THEN q ELSE LJ!Out("q_dot", v.q_dot))
      BY <1>1, Zenon
    <2>2. w.q_sum = (IF cfg.FIXED_Q THEN q ELSE LJP!Out("q_dot", w.q_dot))
      BY <1>2, Zenon
    <2>3. v.q_fin = v.q_sum
      BY <1>1, Zenon
    <2>4. w.q_fin = w.q_sum
      BY <1>2, Zenon
    <2>5. LJ!Out("q_dot", v.q_dot) = LJP!Out("q_dot", w.q_dot)
      BY <1>3, SameOut
    <2> QED BY <2>1, <2>2, <2>3, <2>4, <2>5, Zenon
  <1>6. v.T_acc = w.T_acc
    <2>1. v.T_acc = LJ!modacc(v.raw_sum, v.q_sum * W)
      BY <1>1, Zenon
    <2>2. w.T_acc = LJP!modacc(w.raw_sum, w.q_sum * W)
      BY <1>2, Zenon
    <2>3. LJ!modacc(w.raw_sum, w.q_sum * W) = LJP!modacc(w.raw_sum, w.q_sum * W)
      BY SameChain
    <2> QED BY <2>1, <2>2, <2>3, <1>4, <1>5, Zenon
  <1>7. v.tacc = w.tacc
    <2>1. v.tacc = LJ!Out("T_acc", v.T_acc)
      BY <1>1, Zenon
    <2>2. w.tacc = LJP!Out("T_acc", w.T_acc)
      BY <1>2, Zenon
    <2>3. LJ!Out("T_acc", v.T_acc) = LJP!Out("T_acc", w.T_acc)
      BY <1>6, SameOut
    <2> QED BY <2>1, <2>2, <2>3, Zenon
  <1>8. v.rm = w.rm
    <2>1. v.rm = [c |-> [i \in Limbs |-> (LJ!Out("c_lo", v.c_lo)[i]
                                          * LJ!Out("rho_mu", v.rho_mu)[i]) % W],
                 chi |-> LJ!Out("chi_mu", v.chi_mu)]
      BY <1>1, Zenon
    <2>2. w.rm = [c |-> [i \in Limbs |-> (LJP!Out("c_lo", w.c_lo)[i]
                                          * LJP!Out("rho_mu", w.rho_mu)[i]) % W],
                 chi |-> LJP!Out("chi_mu", w.chi_mu)]
      BY <1>2, Zenon
    <2>3. LJ!Out("c_lo", v.c_lo) = LJP!Out("c_lo", w.c_lo)
      BY <1>3, SameOut
    <2>4. LJ!Out("rho_mu", v.rho_mu) = LJP!Out("rho_mu", w.rho_mu)
      BY <1>3, SameOut
    <2>5. LJ!Out("chi_mu", v.chi_mu) = LJP!Out("chi_mu", w.chi_mu)
      BY <1>3, SameOut
    <2> QED BY <2>1, <2>2, <2>3, <2>4, <2>5, Zenon
  <1>9. v.m_val = w.m_val
    <2>1. v.m_val = (LJ!SumOf(LJ!Out("rm", v.rm).c)
                     + LJ!Out("rm", v.rm).chi) % W
      BY <1>1, Zenon
    <2>2. w.m_val = (LJP!SumOf(LJP!Out("rm", w.rm).c)
                     + LJP!Out("rm", w.rm).chi) % W
      BY <1>2, Zenon
    <2>3. LJ!Out("rm", v.rm) = LJP!Out("rm", w.rm)
      BY <1>8, SameOut
    <2>4. LJ!SumOf(LJP!Out("rm", w.rm).c) = LJP!SumOf(LJP!Out("rm", w.rm).c)
      BY SameSum
    <2> QED BY <2>1, <2>2, <2>3, <2>4, Zenon
  <1>10. v.m_q = w.m_q
    <2> DEFINE a == LJP!Out("m_val", w.m_val)
               b == IF cfg.FIXED_Q THEN q ELSE LJP!Out("q_mr", w.q_mr)
    <2>1. v.m_q = LJ!Out("m_val", v.m_val)
                   * (IF cfg.FIXED_Q THEN q ELSE LJ!Out("q_mr", v.q_mr))
      BY <1>1, Zenon
    <2>2. w.m_q = a * b
      BY <1>2, Zenon
    <2>3. LJ!Out("m_val", v.m_val) = a
      BY <1>9, SameOut
    <2>4. (IF cfg.FIXED_Q THEN q ELSE LJ!Out("q_mr", v.q_mr)) = b
      <3>1. LJ!Out("q_mr", v.q_mr) = LJP!Out("q_mr", w.q_mr)
        BY <1>3, SameOut
      <3> QED BY <3>1
    <2> HIDE DEF a, b
    <2> QED BY <2>1, <2>2, <2>3, <2>4, Zenon
  <1>11. v.mq = w.mq
    <2>1. v.mq = LJ!Out("m_q", v.m_q)
      BY <1>1, Zenon
    <2>2. w.mq = LJP!Out("m_q", w.m_q)
      BY <1>2, Zenon
    <2>3. LJ!Out("m_q", v.m_q) = LJP!Out("m_q", w.m_q)
      BY <1>10, SameOut
    <2> QED BY <2>1, <2>2, <2>3, Zenon
  <1>12. v.join = w.join
    <2>1. v.join = LJ!LowerHalf(LJ!Out("tacc", v.tacc), LJ!Out("mq", v.mq))
      BY <1>1, Zenon
    <2>2. w.join = LJP!LowerHalf(LJP!Out("tacc", w.tacc), LJP!Out("mq", w.mq))
      BY <1>2, Zenon
    <2>3. LJ!Out("tacc", v.tacc) = LJP!Out("tacc", w.tacc)
      BY <1>7, SameOut
    <2>4. LJ!Out("mq", v.mq) = LJP!Out("mq", w.mq)
      BY <1>11, SameOut
    <2>5. LJ!LowerHalf(LJP!Out("tacc", w.tacc), LJP!Out("mq", w.mq))
           = LJP!LowerHalf(LJP!Out("tacc", w.tacc), LJP!Out("mq", w.mq))
      BY SameBlocks
    <2> QED BY <2>1, <2>2, <2>3, <2>4, <2>5, Zenon
  <1>13. v.T_plus = w.T_plus
    <2>1. v.T_plus = LJ!UpperHalf(LJ!Out("join", v.join))
      BY <1>1, Zenon
    <2>2. w.T_plus = LJP!UpperHalf(LJP!Out("join", w.join))
      BY <1>2, Zenon
    <2>3. LJ!Out("join", v.join) = LJP!Out("join", w.join)
      BY <1>12, SameOut
    <2>4. LJ!UpperHalf(LJP!Out("join", w.join)) = LJP!UpperHalf(LJP!Out("join", w.join))
      BY SameBlocks
    <2> QED BY <2>1, <2>2, <2>3, <2>4, Zenon
  <1>14. v.T_shift = w.T_shift
    <2>1. v.T_shift = v.T_plus \div W
      BY <1>1, Zenon
    <2>2. w.T_shift = w.T_plus \div W
      BY <1>2, Zenon
    <2> QED BY <2>1, <2>2, <1>13, Zenon
  <1>15. v.D = w.D
    <2> DEFINE t == LJP!Out("T_shift", w.T_shift)
               u == IF cfg.FIXED_Q THEN q ELSE LJP!Out("q_fin", w.q_fin)
    <2>1. v.D = LJ!CondSub(LJ!Out("T_shift", v.T_shift),
                           IF cfg.FIXED_Q THEN q ELSE LJ!Out("q_fin", v.q_fin))
      BY <1>1, Zenon
    <2>2. w.D = LJP!CondSub(t, u)
      BY <1>2, Zenon
    <2>3. LJ!Out("T_shift", v.T_shift) = t
      BY <1>14, SameOut
    <2>4. LJ!Out("q_fin", v.q_fin) = LJP!Out("q_fin", w.q_fin)
      BY <1>5, SameOut
    <2>5. LJ!CondSub(t, u) = LJP!CondSub(t, u)
      BY SameBlocks
    <2>6. v.D = LJ!CondSub(t, u)
      BY <2>1, <2>3, <2>4
    <2> QED BY <2>2, <2>5, <2>6
  <1>16. v.out = w.out
    <2>1. v.out = LJ!Out("D", v.D)
      BY <1>1, Zenon
    <2>2. w.out = LJP!Out("D", w.D)
      BY <1>2, Zenon
    <2>3. LJ!Out("D", v.D) = LJP!Out("D", w.D)
      BY <1>15, SameOut
    <2> QED BY <2>1, <2>2, <2>3, Zenon
  <1> QED BY <1>3, <1>5, <1>6, <1>7, <1>8, <1>9, <1>10, <1>11, <1>12, <1>14, <1>15,
             <1>16 DEF LJP!LineNames, v, w

LEMMA SameClock ==
  ASSUME NEW x, LJ!Clock(x), DOMAIN line = LJP!LineNames
  PROVE  LJP!Clock(x)
  <1>1. line' = [l \in LJP!LineNames |-> LJ!Push(line[l], LJ!Wires(x)[l])]
    BY DEF LJ!Clock
  <1>2. \A l \in LJP!LineNames :
          LJ!Push(line[l], LJ!Wires(x)[l]) = LJP!Push(line[l], LJP!Wires(x)[l])
    BY SameWires, SameBlocks
  <1>3. line' = [l \in LJP!LineNames |-> LJP!Push(line[l], LJP!Wires(x)[l])]
    BY <1>1, <1>2
  <1> QED BY <1>3 DEF LJP!Clock

(***************************************************************************)
(* What is known of logjumps                                               *)
(***************************************************************************)

\* What the theorems about logjumps assume holds.
LEMMA Assumed ==
  /\ LOGW \in Nat \ {0} /\ LOGQ \in Nat \ {0}
  /\ LJP!N_MUL >= 1 /\ JOIN_SPLIT \in 1 .. LJP!ACCW - 1
  /\ \A b \in {2, LJP!W} :
       b^0 = 1 /\ \A n \in 0 .. LOGQ + LOGW + LJP!N_LIMBS : b^(n + 1) = b * b^n
  /\ \A c \in {LogJumpsParameters(s) : s \in Configs} :
       /\ {c.ACC_LAT, c.RM_LAT, c.MVAL_LAT, c.MR_LAT} \subseteq Nat
       /\ c.DOT_LAT \in Nat \ {0}
       /\ {c.FF_RM, c.FF_JOIN_ADD, c.FF_MR_POST, c.FF_OUT} \subseteq 0 .. 1
       /\ c.FIXED_Q \in BOOLEAN /\ c.ACC_MAX_COND_SUB \in Nat
       /\ (IF c.FIXED_Q THEN LJP!cond_sub_opt(c.Q_VALUE) ELSE LJP!N_LIMBS - 1)
             <= c.ACC_MAX_COND_SUB
       /\ c.ACC_MAX_COND_SUB < 2^LJP!sum_extra_bits(LJP!N_LIMBS)
  <1>1. \A q : LJ!cond_sub_opt(q) = LJP!cond_sub_opt(q)
    BY SameConstants, SameSum DEF LJ!cond_sub_opt, LJP!cond_sub_opt
  <1>2. LJ!LimbAssumption /\ LJ!PowersAssumption /\ LJ!ConfigsAssumption
    BY LogJumpsAssumption
  <1>3. /\ LOGW \in Nat \ {0} /\ LOGQ \in Nat \ {0}
        /\ LJP!N_MUL >= 1 /\ JOIN_SPLIT \in 1 .. LJP!ACCW - 1
    BY <1>2, SameSizes
  <1>4. \A b \in {2, LJP!W} :
          b^0 = 1 /\ \A n \in 0 .. LOGQ + LOGW + LJP!N_LIMBS : b^(n + 1) = b * b^n
    BY <1>2, SameSizes
  <1>5. ASSUME NEW c \in {LogJumpsParameters(s) : s \in Configs}
        PROVE  /\ {c.ACC_LAT, c.RM_LAT, c.MVAL_LAT, c.MR_LAT} \subseteq Nat
               /\ c.DOT_LAT \in Nat \ {0}
               /\ {c.FF_RM, c.FF_JOIN_ADD, c.FF_MR_POST, c.FF_OUT} \subseteq 0 .. 1
               /\ c.FIXED_Q \in BOOLEAN /\ c.ACC_MAX_COND_SUB \in Nat
               /\ (IF c.FIXED_Q THEN LJP!cond_sub_opt(c.Q_VALUE) ELSE LJP!N_LIMBS - 1)
                    <= c.ACC_MAX_COND_SUB
               /\ c.ACC_MAX_COND_SUB < 2^LJP!sum_extra_bits(LJP!N_LIMBS)
    BY <1>1, <1>2, SameSizes
  <1> QED BY <1>3, <1>4, <1>5

\* Its invariant holds at first, and is kept by a clock with an input, by one without,
\* and by no clock at all.
LEMMA JumpsStart == LJP!Init => LJP!IInv
  BY Assumed, LJP!InitInv

LEMMA JumpsClock ==
  ASSUME LJP!IInv, NEW x, LJP!Legal(x), LJP!Clock(x), LJP!Moves(x), cfg' = cfg
  PROVE  LJP!IInv'
  BY Assumed, LJP!ClockInv

LEMMA JumpsEmpty ==
  ASSUME LJP!IInv, lj_past = <<>>, NEW x, LJP!EmptyInput(x), LJP!Clock(x),
         cfg' = cfg, lj_past' = lj_past
  PROVE  LJP!IInv'
  BY Assumed, LJP!EmptyInv

LEMMA JumpsStill ==
  ASSUME LJP!IInv, cfg' = cfg, line' = line, lj_past' = lj_past
  PROVE  LJP!IInv'
  <1>1. UNCHANGED LJP!vars
    BY DEF LJP!vars
  <1> QED BY <1>1, Assumed, LJP!StutterInv

\* A history as it keeps one moves on by one input.
LEMMA JumpsHistory ==
  ASSUME NEW n \in Nat, NEW s, LJP!Row(s, n), NEW x, NEW k \in Nat, k <= n + 1, k >= 1
  PROVE  LET r == LJP!Recorded(s, x, k) IN
         LJP!Row(r, k) /\ Len(r) = k /\ r[1] = x /\ \A i \in 2 .. k : r[i] = s[i - 1]
  BY Assumed, LJP!HistoryIs, SMTT(30)

\* Its latencies are numbers.
LEMMA JumpsPlan ==
  ASSUME cfg \in {LogJumpsParameters(c) : c \in Configs}
  PROVE  /\ LJ!LAT \in Nat /\ LJ!LAT >= 1 /\ LJ!LAT = LJP!LAT
         /\ LJ!PATH_A \in Nat /\ LJ!PATH_B \in Nat
  <1>1. /\ LJP!LAT \in Nat /\ LJP!LAT >= 1
        /\ LJP!PATH_A \in Nat /\ LJP!PATH_B \in Nat
    BY Assumed, LJP!Plan
  <1> QED BY <1>1, SameDelays

\* What comes out is the reduction of what came in LAT clocks ago.
LEMMA JumpsReduce ==
  ASSUME LJP!IInv, Len(lj_past) = LJP!LAT, NEW x
  PROVE  LET y == lj_past[LJP!LAT] d == LJP!Wires(x).out IN
         y.q \in Nat \ {0} /\ d < y.q /\ (d * LJP!R) % y.q = y.C % y.q
  <1> DEFINE y == lj_past[LJP!LAT]
             d == LJP!Wires(x).out
             l == LJP!LAT
  <1>1. l \in Nat /\ l >= 1 /\ l <= Len(lj_past)
    <2>1. cfg \in {LogJumpsParameters(c) : c \in Configs}
      BY DEF LJP!IInv
    <2>2. l \in Nat /\ l >= 1
      BY <2>1, JumpsPlan
    <2>3. l <= Len(lj_past)
      <3>1. Len(lj_past) = l
        OBVIOUS
      <3> HIDE DEF l
      <3> QED BY <2>2, <3>1
    <2> QED BY <2>2, <2>3
  <1>2. LJP!Apt(l, x) /\ LJP!At(l, x) = y /\ LJP!Sound(y)
    <2> HIDE DEF l
    <2>1. LJP!Apt(l, x) /\ LJP!At(l, x) = lj_past[l] /\ LJP!Sound(lj_past[l])
      BY <1>1, Assumed, LJP!PastInput
    <2> QED BY <2>1 DEF l
  <1>3. d = LJP!D_of(y)
    BY <1>2, Assumed, LJP!WiresCarry
  <1>4. y.q \in Nat \ {0}
    BY <1>2, Assumed, LJP!SoundInput, LJP!Constants
  <1>5. LJP!D_of(y) \in 0 .. y.q - 1 /\ (LJP!D_of(y) * LJP!R) % y.q = y.C % y.q
    BY <1>2, Assumed, LJP!Reduced
  <1> HIDE DEF y, d, l
  <1>6. d < y.q
    BY <1>3, <1>4, <1>5
  <1> QED BY <1>3, <1>4, <1>5, <1>6 DEF y, d

(***************************************************************************)
(* Delay lines                                                             *)
(***************************************************************************)

\* The larger and the smaller of two numbers.
LEMMA Larger ==
  ASSUME NEW a \in Nat, NEW b \in Nat
  PROVE  Max({a, b}) = (IF a <= b THEN b ELSE a) /\ LJ!Max({a, b}) = Max({a, b})
  <1> DEFINE P(m) == m \in {a, b} /\ \A k \in {a, b} : m >= k
  <1>1. \E m : P(m)
    <2>1. CASE a <= b
      BY <2>1
    <2>2. CASE b <= a
      BY <2>2
    <2> QED BY <2>1, <2>2
  <1>2. Max({a, b}) = CHOOSE m : P(m)
    BY DEF Max
  <1>3. P(Max({a, b}))
    BY <1>1, <1>2
  <1>4. LJ!Max({a, b}) = Max({a, b})
    BY DEF LJ!Max, Max
  <1> QED BY <1>3, <1>4

LEMMA Smaller ==
  ASSUME NEW a \in Nat, NEW b \in Nat
  PROVE  Min({a, b}) = (IF a <= b THEN a ELSE b) /\ LJP!Min({a, b}) = Min({a, b})
  <1> DEFINE P(m) == m \in {a, b} /\ \A k \in {a, b} : m <= k
  <1>1. \E m : P(m)
    <2>1. CASE a <= b
      BY <2>1
    <2>2. CASE b <= a
      BY <2>2
    <2> QED BY <2>1, <2>2
  <1>2. Min({a, b}) = CHOOSE m : P(m)
    BY DEF Min
  <1>3. P(Min({a, b}))
    BY <1>1, <1>2
  <1>4. LJP!Min({a, b}) = Min({a, b})
    BY DEF LJP!Min, Min
  <1> QED BY <1>3, <1>4

\* s is a line of n registers, of which the first m hold the first values of h.
Delayed(s, n, h, m, zero) ==
  LJP!Row(s, n) /\ \A i \in 1 .. n : s[i] = IF i <= m THEN h[i] ELSE zero

\* What leaves it.
LEMMA OldestIs ==
  ASSUME NEW n \in Nat, NEW m \in Nat, NEW s, NEW h, NEW zero, Delayed(s, n, h, m, zero),
         NEW now
  PROVE  Oldest(s, now) = IF n = 0 THEN now ELSE IF n <= m THEN h[n] ELSE zero
  <1>1. Len(s) = n /\ (s = <<>> <=> n = 0)
    BY Assumed, LJP!RowIs DEF Delayed
  <1>2. Oldest(s, now) = IF n = 0 THEN now ELSE s[n]
    BY <1>1 DEF Oldest, Last
  <1>3. n # 0 => n \in 1 .. n
    OBVIOUS
  <1> QED BY <1>2, <1>3 DEF Delayed

\* A clock that brings g[1] turns a line of the values h into one of the values g.
LEMMA DelayMoves ==
  ASSUME NEW n \in Nat, NEW m \in Nat, NEW k \in Nat, k = m + 1 \/ (k = m /\ n <= m),
         k >= 1, NEW s, NEW h, NEW g, NEW zero, Delayed(s, n, h, m, zero),
         \A i \in 2 .. k : g[i] = h[i - 1]
  PROVE  Delayed(LJ!Push(s, g[1]), n, g, k, zero)
  <1> DEFINE t == LJP!Push(s, g[1])
  <1>1. LJP!Row(s, n) /\ \A i \in 1 .. n : s[i] = IF i <= m THEN h[i] ELSE zero
    BY DEF Delayed
  <1>2. /\ LJP!Row(t, n)
        /\ n >= 1 => t[1] = g[1]
        /\ \A i \in 2 .. n : t[i] = s[i - 1]
    BY <1>1, Assumed, LJP!PushIs
  <1>3. LJ!Push(s, g[1]) = t
    BY SameBlocks
  <1> HIDE DEF t
  <1>4. ASSUME NEW i \in 1 .. n
        PROVE  t[i] = IF i <= k THEN g[i] ELSE zero
    <2>1. CASE i = 1
      BY <1>2, <2>1
    <2>2. CASE i # 1
      <3>1. i \in 2 .. n /\ i - 1 \in 1 .. n /\ (i <= k <=> i - 1 <= m)
        BY <2>2
      <3>2. t[i] = IF i - 1 <= m THEN h[i - 1] ELSE zero
        BY <1>1, <1>2, <3>1
      <3>3. i <= k => g[i] = h[i - 1]
        BY <3>1
      <3> QED BY <3>1, <3>2, <3>3
    <2> QED BY <2>1, <2>2
  <1> QED BY <1>2, <1>3, <1>4 DEF Delayed

(***************************************************************************)
(* The invariant                                                           *)
(***************************************************************************)

\* What came in with each of the last inputs.
Products == [i \in 1 .. Len(past) |-> past[i].A * past[i].B]
Moduli   == [i \in 1 .. Len(past) |-> past[i].q]
Rhos     == [i \in 1 .. Len(past) |-> past[i].rho]
Mus      == [i \in 1 .. Len(past) |-> past[i].mu]

\* The length of the delay lines of q, rho and mu.
Wait == IF p.FIXED_Q THEN 0 ELSE MUL_LAT

Recent ==
  /\ p \in Configs /\ cfg = LogJumpsParameters(p)
  /\ LJP!Row(past, Len(past)) /\ Len(past) \in Nat /\ Len(past) <= DEPTH
  /\ \A i \in 1 .. Len(past) : Legal(past[i])

\* What stands in a register of the multiplier or beside it belongs to the input of as
\* many clocks ago.
Beside ==
  /\ Delayed(mul, p.INTMUL_LAT, Products, Len(past), 0)
  /\ C_r = IF p.INTMUL_LAT + 1 <= Len(past) THEN Products[p.INTMUL_LAT + 1] ELSE 0
  /\ Delayed(q_sr, Wait, Moduli, Len(past), 0)
  /\ Delayed(rho_sr, Wait, Rhos, Len(past), [k \in 1 .. N_LIMBS - 1 |-> 0])
  /\ Delayed(mu_sr, Wait, Mus, Len(past), 0)

MulInv == Recent /\ Beside /\ LJP!IInv

Settings == {LogJumpsParameters(c) : c \in Configs}

\* The parameters and the latencies.
LEMMA Parameters ==
  ASSUME p \in Configs, cfg = LogJumpsParameters(p)
  PROVE  /\ cfg \in Settings
         /\ p.FIXED_Q \in BOOLEAN /\ cfg.FIXED_Q = p.FIXED_Q /\ cfg.Q_VALUE = p.Q_VALUE
         /\ p.INTMUL_LAT \in Nat /\ p.MUL_FF_CPA \in 0 .. 1
         /\ MUL_LAT \in Nat /\ MUL_LAT = p.INTMUL_LAT + p.MUL_FF_CPA
         /\ Wait \in Nat /\ LJ!LAT \in Nat /\ LJ!LAT >= 1 /\ DEPTH = MUL_LAT + LJ!LAT
  <1>1. cfg \in Settings
    BY DEF Settings
  <1>2. cfg.FIXED_Q = p.FIXED_Q /\ cfg.Q_VALUE = p.Q_VALUE
    BY DEF LogJumpsParameters
  <1>3. p.FIXED_Q \in BOOLEAN
    BY <1>1, <1>2, Assumed DEF Settings
  <1>4. p.INTMUL_LAT \in Nat /\ p.MUL_FF_CPA \in 0 .. 1
    BY ParametersAssumption
  <1>5. MUL_LAT \in Nat /\ MUL_LAT = p.INTMUL_LAT + p.MUL_FF_CPA
    BY <1>4 DEF MUL_LAT
  <1>6. Wait \in Nat
    BY <1>5 DEF Wait
  <1>7. LJ!LAT \in Nat /\ LJ!LAT >= 1
    BY <1>1, JumpsPlan DEF Settings
  <1>8. DEPTH = MUL_LAT + LJ!LAT
    BY <1>4, <1>5, <1>7 DEF DEPTH
  <1> QED BY <1>1, <1>2, <1>3, <1>4, <1>5, <1>6, <1>7, <1>8

\* What the multiplier gives, and what reaches logjumps with it.
LEMMA ProductIs ==
  ASSUME Recent, Beside, NEW x
  PROVE  LET L == p.INTMUL_LAT n == Len(past) IN
         C_raw(x) = IF L = 0 THEN x.A * x.B ELSE IF L <= n THEN Products[L] ELSE 0
  <1>1. p.INTMUL_LAT \in Nat /\ Len(past) \in Nat
    BY Parameters DEF Recent
  <1>2. Delayed(mul, p.INTMUL_LAT, Products, Len(past), 0)
    BY DEF Beside
  <1> DEFINE now == x.A * x.B
  <1>3. C_raw(x) = Oldest(mul, now)
    BY DEF C_raw
  <1> HIDE DEF now
  <1>4. Oldest(mul, now) = IF p.INTMUL_LAT = 0 THEN now
                           ELSE IF p.INTMUL_LAT <= Len(past) THEN Products[p.INTMUL_LAT]
                           ELSE 0
    BY <1>1, <1>2, OldestIs
  <1> QED BY <1>3, <1>4 DEF now

LEMMA ConstantsAre ==
  ASSUME Recent, Beside, NEW x
  PROVE  LET n == Len(past) IN
         /\ Oldest(q_sr, x.q) = IF Wait = 0 THEN x.q
                                ELSE IF Wait <= n THEN Moduli[Wait] ELSE 0
         /\ Oldest(rho_sr, x.rho) = IF Wait = 0 THEN x.rho
                                    ELSE IF Wait <= n THEN Rhos[Wait]
                                    ELSE [k \in 1 .. N_LIMBS - 1 |-> 0]
         /\ Oldest(mu_sr, x.mu) = IF Wait = 0 THEN x.mu
                                  ELSE IF Wait <= n THEN Mus[Wait] ELSE 0
  <1>1. Wait \in Nat /\ Len(past) \in Nat
    BY Parameters DEF Recent
  <1> DEFINE zeros == [k \in 1 .. N_LIMBS - 1 |-> 0]
  <1>2. /\ Delayed(q_sr, Wait, Moduli, Len(past), 0)
        /\ Delayed(rho_sr, Wait, Rhos, Len(past), zeros)
        /\ Delayed(mu_sr, Wait, Mus, Len(past), 0)
    BY DEF Beside
  <1>3. Oldest(q_sr, x.q) = IF Wait = 0 THEN x.q
                            ELSE IF Wait <= Len(past) THEN Moduli[Wait] ELSE 0
    BY <1>1, <1>2, OldestIs
  <1>4. Oldest(mu_sr, x.mu) = IF Wait = 0 THEN x.mu
                              ELSE IF Wait <= Len(past) THEN Mus[Wait] ELSE 0
    BY <1>1, <1>2, OldestIs
  <1> HIDE DEF zeros
  <1>5. Oldest(rho_sr, x.rho) = IF Wait = 0 THEN x.rho
                                ELSE IF Wait <= Len(past) THEN Rhos[Wait] ELSE zeros
    BY <1>1, <1>2, OldestIs
  <1> QED BY <1>3, <1>4, <1>5 DEF zeros

\* Legal inputs agree with the modulus of a setting that fixes it.
LEMMA FixedInput ==
  ASSUME NEW y, Legal(y), p.FIXED_Q
  PROVE  y.q = p.Q_VALUE /\ y.rho = LJ!rho(p.Q_VALUE) /\ y.mu = LJ!mu(p.Q_VALUE)
  BY DEF Legal

\* The input of logjumps is that of MUL_LAT clocks ago, or the empty one.
LEMMA InputIs ==
  ASSUME Recent, Beside, NEW x, Legal(x)
  PROVE  LET n == Len(past) IN
         /\ MUL_LAT = 0 => LogJumpsInput(x) = Entering(x)
         /\ MUL_LAT # 0 /\ MUL_LAT <= n => LogJumpsInput(x) = Entering(past[MUL_LAT])
         /\ MUL_LAT > n => LogJumpsInput(x) = Nothing
  <1> DEFINE n == Len(past)
             L == p.INTMUL_LAT
             M == MUL_LAT
  <1>1. /\ n \in Nat /\ L \in Nat /\ M \in Nat /\ M = L + p.MUL_FF_CPA
        /\ p.MUL_FF_CPA \in 0 .. 1 /\ p.FIXED_Q \in BOOLEAN
        /\ \A i \in 1 .. n : Legal(past[i])
    BY Parameters DEF Recent
  <1>2. C_raw(x) = IF L = 0 THEN x.A * x.B ELSE IF L <= n THEN Products[L] ELSE 0
    BY ProductIs
  <1>3. C_r = IF L + 1 <= n THEN Products[L + 1] ELSE 0
    BY DEF Beside
  <1>4. C(x) = IF p.MUL_FF_CPA = 1 THEN C_r ELSE C_raw(x)
    BY DEF C
  <1>5. Wait = IF p.FIXED_Q THEN 0 ELSE M
    BY DEF Wait
  <1>6. /\ Oldest(q_sr, x.q) = IF Wait = 0 THEN x.q
                               ELSE IF Wait <= n THEN Moduli[Wait] ELSE 0
        /\ Oldest(rho_sr, x.rho) = IF Wait = 0 THEN x.rho
                                   ELSE IF Wait <= n THEN Rhos[Wait]
                                   ELSE [k \in 1 .. N_LIMBS - 1 |-> 0]
        /\ Oldest(mu_sr, x.mu) = IF Wait = 0 THEN x.mu
                                 ELSE IF Wait <= n THEN Mus[Wait] ELSE 0
    BY ConstantsAre
  <1>7. LogJumpsInput(x) = [C   |-> C(x),
                            q   |-> Oldest(q_sr, x.q),
                            rho |-> Oldest(rho_sr, x.rho),
                            mu  |-> Oldest(mu_sr, x.mu)]
    BY DEF LogJumpsInput
  <1>8. \A i \in 1 .. n : /\ Products[i] = past[i].A * past[i].B
                          /\ Moduli[i] = past[i].q /\ Rhos[i] = past[i].rho
                          /\ Mus[i] = past[i].mu
    BY DEF Products, Moduli, Rhos, Mus
  <1> HIDE DEF n, L, M
  <1>9. CASE M = 0
    <2>1. L = 0 /\ p.MUL_FF_CPA = 0 /\ Wait = 0 /\ ~(M > n)
      BY <1>1, <1>5, <1>9
    <2>2. C(x) = x.A * x.B
      BY <1>2, <1>4, <2>1
    <2>3. LogJumpsInput(x) = Entering(x)
      BY <1>6, <1>7, <2>1, <2>2 DEF Entering
    <2> QED BY <1>9, <2>1, <2>3 DEF M, n
  <1>10. CASE M # 0 /\ M <= n
    <2>1. M \in 1 .. n /\ ~(M > n)
      BY <1>1, <1>10
    <2>2. C(x) = Products[M]
      <3>1. CASE p.MUL_FF_CPA = 1
        <4>1. M = L + 1
          BY <1>1, <3>1
        <4> QED BY <1>3, <1>4, <1>10, <3>1, <4>1
      <3>2. CASE p.MUL_FF_CPA = 0
        <4>1. M = L
          BY <1>1, <3>2
        <4> QED BY <1>2, <1>4, <1>10, <3>2, <4>1
      <3> QED BY <1>1, <3>1, <3>2
    <2>3. /\ Oldest(q_sr, x.q) = past[M].q /\ Oldest(rho_sr, x.rho) = past[M].rho
          /\ Oldest(mu_sr, x.mu) = past[M].mu
      <3>1. CASE p.FIXED_Q
        <4>1. Legal(past[M])
          BY <1>1, <2>1
        <4>2. /\ past[M].q = x.q /\ past[M].rho = x.rho /\ past[M].mu = x.mu
          BY <3>1, <4>1, FixedInput
        <4> QED BY <1>5, <1>6, <3>1, <4>2
      <3>2. CASE ~p.FIXED_Q
        BY <1>5, <1>6, <1>8, <1>10, <2>1, <3>2
      <3> QED BY <3>1, <3>2
    <2>4. LogJumpsInput(x) = Entering(past[M])
      BY <1>7, <1>8, <2>1, <2>2, <2>3 DEF Entering
    <2> QED BY <1>10, <2>1, <2>4 DEF M, n
  <1>11. CASE M > n
    <2>1. M # 0 /\ ~(M <= n)
      BY <1>1, <1>11
    <2>2. C(x) = 0
      <3>1. CASE p.MUL_FF_CPA = 1
        <4>1. ~(L + 1 <= n)
          BY <1>1, <1>11, <3>1
        <4> QED BY <1>3, <1>4, <3>1, <4>1
      <3>2. CASE p.MUL_FF_CPA = 0
        <4>1. L # 0 /\ ~(L <= n)
          BY <1>1, <1>11, <3>2
        <4> QED BY <1>2, <1>4, <3>2, <4>1
      <3> QED BY <1>1, <3>1, <3>2
    <2>3. /\ Oldest(q_sr, x.q) = Nothing.q /\ Oldest(rho_sr, x.rho) = Nothing.rho
          /\ Oldest(mu_sr, x.mu) = Nothing.mu
      <3>1. CASE p.FIXED_Q
        <4>1. /\ x.q = p.Q_VALUE /\ x.rho = LJ!rho(p.Q_VALUE)
              /\ x.mu = LJ!mu(p.Q_VALUE)
          BY <3>1, FixedInput
        <4> QED BY <1>5, <1>6, <3>1, <4>1 DEF Nothing
      <3>2. CASE ~p.FIXED_Q
        BY <1>5, <1>6, <2>1, <3>2 DEF Nothing
      <3> QED BY <3>1, <3>2
    <2>4. LogJumpsInput(x) = Nothing
      BY <1>7, <2>2, <2>3 DEF Nothing
    <2> QED BY <2>1, <2>4, <1>11 DEF M, n
  <1> QED BY <1>1, <1>9, <1>10, <1>11 DEF M, n

\* A legal input of modmul is one for logjumps ...
LEMMA LegalEntering ==
  ASSUME p \in Configs, cfg = LogJumpsParameters(p), NEW y, Legal(y)
  PROVE  LJP!Legal(Entering(y))
  <1> DEFINE e == Entering(y)
  <1>1. e.C = y.A * y.B /\ e.q = y.q /\ e.rho = y.rho /\ e.mu = y.mu
    BY DEF Entering
  <1> HIDE DEF e
  <1>2. /\ LJP!Modulus(y.q) /\ y.A \in 0 .. y.q - 1 /\ y.B \in 0 .. y.q - 1
        /\ y.rho = LJP!rho(y.q) /\ y.mu = LJP!mu(y.q)
        /\ p.FIXED_Q => y.q = p.Q_VALUE
    BY SameConstants DEF Legal
  <1>3. y.q \in Nat \ {0}
    BY <1>2, Assumed, LJP!Constants
  <1>4. y.A * y.B \in 0 .. (y.q - 1) * (y.q - 1)
    <2> DEFINE t == (y.q - 1) * (y.q - 1)
               c == y.A * y.B
    <2>1. /\ y.A \in Nat /\ y.B \in Nat /\ y.q - 1 \in Nat
          /\ y.A <= y.q - 1 /\ y.B <= y.q - 1
      BY <1>2, <1>3
    <2>2. c <= t /\ c \in Nat /\ t \in Nat
      <3> DEFINE a == y.A
                 b == y.B
                 r == y.q - 1
      <3>1. a \in Nat /\ b \in Nat /\ r \in Nat /\ a <= r /\ b <= r
        BY <2>1
      <3>2. c = a * b /\ t = r * r
        OBVIOUS
      <3> HIDE DEF a, b, r, c, t
      <3>3. a * b <= r * r /\ a * b \in Nat /\ r * r \in Nat
        BY <3>1, LJP!MulMono, Assumed
      <3> QED BY <3>2, <3>3
    <2> HIDE DEF c, t
    <2>3. c \in 0 .. t
      BY <2>2
    <2> QED BY <2>3 DEF c, t
  <1>5. cfg.FIXED_Q = p.FIXED_Q /\ cfg.Q_VALUE = p.Q_VALUE
    BY Parameters
  <1>6. LJP!Legal(e)
    BY <1>1, <1>2, <1>4, <1>5 DEF LJP!Legal
  <1> QED BY <1>6 DEF e

\* ... and so is the empty one, if its modulus is the right one.
LEMMA LegalNothing ==
  ASSUME p \in Configs, cfg = LogJumpsParameters(p)
  PROVE  /\ \A y : p.FIXED_Q /\ Legal(y) => LJP!Legal(Nothing)
         /\ ~p.FIXED_Q => LJP!EmptyInput(Nothing)
  <1>1. cfg.FIXED_Q = p.FIXED_Q /\ cfg.Q_VALUE = p.Q_VALUE
    BY Parameters
  <1>2. ASSUME p.FIXED_Q, NEW y, Legal(y) PROVE LJP!Legal(Nothing)
    <2> DEFINE q == p.Q_VALUE
    <2>1. LJP!Modulus(q)
      BY <1>2, SameConstants DEF Legal
    <2>2. q \in Nat \ {0}
      BY <2>1, Assumed, LJP!Constants
    <2>3. 0 \in 0 .. (q - 1) * (q - 1)
      <3> HIDE DEF q
      <3>1. q - 1 \in Nat
        BY <2>2
      <3>2. (q - 1) * (q - 1) \in Nat
        BY <3>1
      <3> QED BY <3>2
    <2>4. Nothing.C = 0 /\ Nothing.q = q /\ Nothing.rho = LJ!rho(q) /\ Nothing.mu = LJ!mu(q)
      BY <1>2 DEF Nothing
    <2>5. LJ!rho(q) = LJP!rho(q) /\ LJ!mu(q) = LJP!mu(q)
      BY SameConstants
    <2> QED BY <1>1, <2>1, <2>3, <2>4, <2>5 DEF LJP!Legal
  <1>3. ASSUME ~p.FIXED_Q PROVE LJP!EmptyInput(Nothing)
    <2>1. LJP!N_MUL = N_LIMBS - 1
      BY SameSizes DEF LJP!N_MUL
    <2> QED BY <1>1, <1>3, <2>1 DEF LJP!EmptyInput, Nothing
  <1> QED BY <1>2, <1>3

(***************************************************************************)
(* A clock                                                                 *)
(***************************************************************************)

\* How long the history is after the next input.
NextLen == Min({DEPTH, Len(past) + 1})

\* The history after x has come in.
LEMMA HistoryMoves ==
  ASSUME Recent, NEW x, Edge(x)
  PROVE  LET n == Len(past) k == NextLen IN
         /\ k \in Nat /\ k >= 1 /\ k <= DEPTH /\ k <= n + 1
         /\ k = n + 1 \/ (k = n /\ n = DEPTH)
         /\ LJP!Row(past', k) /\ Len(past') = k /\ past'[1] = x
         /\ \A i \in 2 .. k : past'[i] = past[i - 1]
  <1> DEFINE n == Len(past)
             k == NextLen
  <1>1. n \in Nat /\ n <= DEPTH /\ LJP!Row(past, n)
    BY DEF Recent
  <1>2. DEPTH \in Nat /\ DEPTH >= 1
    <2>1. DEPTH = MUL_LAT + LJ!LAT /\ MUL_LAT \in Nat /\ LJ!LAT \in Nat /\ LJ!LAT >= 1
      BY Parameters DEF Recent
    <2> QED BY <2>1
  <1>3. k = IF DEPTH <= n + 1 THEN DEPTH ELSE n + 1
    <2>1. n + 1 \in Nat
      BY <1>1
    <2> QED BY <1>2, <2>1, Smaller DEF NextLen
  <1>4. past' = LJP!Recorded(past, x, k)
    BY DEF Edge, LJP!Recorded, NextLen
  <1> HIDE DEF n, k
  <1>5. /\ k \in Nat /\ k >= 1 /\ k <= DEPTH /\ k <= n + 1
        /\ k = n + 1 \/ (k = n /\ n = DEPTH)
    <2>1. n \in Nat /\ n <= DEPTH
      BY <1>1
    <2>2. CASE n = DEPTH
      BY <1>2, <1>3, <2>1, <2>2
    <2>3. CASE n # DEPTH
      <3>1. k = n + 1 /\ n + 1 <= DEPTH
        BY <1>2, <1>3, <2>1, <2>3
      <3> QED BY <2>1, <3>1
    <2> QED BY <2>2, <2>3
  <1>6. /\ LJP!Row(past', k) /\ Len(past') = k /\ past'[1] = x
        /\ \A i \in 2 .. k : past'[i] = past[i - 1]
    <2> DEFINE r == LJP!Recorded(past, x, k)
    <2>1. LJP!Row(r, k) /\ Len(r) = k /\ r[1] = x /\ \A i \in 2 .. k : r[i] = past[i - 1]
      BY <1>1, <1>5, JumpsHistory
    <2> HIDE DEF r
    <2>2. past' = r
      BY <1>4 DEF r
    <2> QED BY <2>1, <2>2
  <1> QED BY <1>5, <1>6 DEF n, k

\* The parameters stay, and with them all lengths.
LEMMA StillTheSame ==
  ASSUME p' = p, cfg' = cfg
  PROVE  /\ MUL_LAT' = MUL_LAT /\ Wait' = Wait /\ LJ!LAT' = LJ!LAT /\ DEPTH' = DEPTH
         /\ Nothing' = Nothing /\ \A y : Legal(y)' <=> Legal(y)
  <1>1. MUL_LAT' = MUL_LAT
    BY DEF MUL_LAT
  <1>2. Wait' = Wait
    BY <1>1 DEF Wait
  <1>3. LJ!LAT' = LJ!LAT
    BY DEF LJ!LAT, LJ!JOIN_CYC, LJ!PATH_A, LJ!PATH_B, LJ!RM_MUL_LAT
  <1>4. DEPTH' = DEPTH
    BY <1>3 DEF DEPTH
  <1>5. Nothing' = Nothing
    BY DEF Nothing
  <1>6. ASSUME NEW y PROVE Legal(y)' <=> Legal(y)
    BY DEF Legal
  <1> QED BY <1>1, <1>2, <1>3, <1>4, <1>5, <1>6

LEMMA RecentMoves ==
  ASSUME Recent, NEW x, Edge(x)
  PROVE  Recent'
  <1> DEFINE n == Len(past)
             k == NextLen
  <1>1. /\ k \in Nat /\ k >= 1 /\ k <= DEPTH /\ k <= n + 1
        /\ LJP!Row(past', k) /\ Len(past') = k /\ past'[1] = x
        /\ \A i \in 2 .. k : past'[i] = past[i - 1]
    BY HistoryMoves
  <1>2. p' = p /\ cfg' = cfg /\ Legal(x) /\ p \in Configs /\ cfg = LogJumpsParameters(p)
    BY DEF Edge, Recent
  <1>3. DEPTH' = DEPTH
    BY <1>2, StillTheSame
  <1>4. n \in Nat /\ \A i \in 1 .. n : Legal(past[i])
    BY DEF Recent
  <1> HIDE DEF n, k
  <1>5. ASSUME NEW i \in 1 .. k PROVE Legal(past'[i])
    <2>1. CASE i = 1
      BY <1>1, <1>2, <2>1
    <2>2. CASE i # 1
      <3>1. i \in 2 .. k /\ i - 1 \in 1 .. n
        BY <1>1, <1>4, <2>2
      <3> QED BY <1>1, <1>4, <3>1
    <2> QED BY <2>1, <2>2
  <1>6. ASSUME NEW i \in 1 .. k PROVE Legal(past[i])'
    <2>1. Legal(past[i])' <=> Legal(past'[i])
      BY <1>2 DEF Legal
    <2> QED BY <1>5, <2>1
  <1>7. cfg' = LogJumpsParameters(p')
    BY <1>2
  <1> QED BY <1>1, <1>2, <1>3, <1>6, <1>7 DEF Recent

LEMMA BesideMoves ==
  ASSUME Recent, Beside, NEW x, Edge(x)
  PROVE  Beside'
  <1> DEFINE n == Len(past)
             k == NextLen
             L == p.INTMUL_LAT
             zeros == [j \in 1 .. N_LIMBS - 1 |-> 0]
  <1>1. /\ k \in Nat /\ k >= 1 /\ k <= DEPTH /\ k <= n + 1
        /\ k = n + 1 \/ (k = n /\ n = DEPTH)
        /\ Len(past') = k /\ past'[1] = x
        /\ \A i \in 2 .. k : past'[i] = past[i - 1]
    BY HistoryMoves
  <1>2. p' = p /\ cfg' = cfg
    BY DEF Edge
  <1>3. /\ n \in Nat /\ L \in Nat /\ Wait \in Nat /\ L + 1 <= DEPTH /\ Wait <= DEPTH
        /\ DEPTH \in Nat
    <2>1. /\ L \in Nat /\ p.MUL_FF_CPA \in 0 .. 1 /\ MUL_LAT = L + p.MUL_FF_CPA
          /\ Wait \in Nat /\ LJ!LAT \in Nat /\ LJ!LAT >= 1 /\ DEPTH = MUL_LAT + LJ!LAT
          /\ MUL_LAT \in Nat
      BY Parameters DEF Recent
    <2>2. Wait <= MUL_LAT
      BY <2>1 DEF Wait
    <2>3. n \in Nat
      BY DEF Recent
    <2> HIDE DEF n, L
    <2> QED BY <2>1, <2>2, <2>3
  <1>4. Wait' = Wait
    BY <1>2, StillTheSame
  <1>5. /\ Delayed(mul, L, Products, n, 0)
        /\ Delayed(q_sr, Wait, Moduli, n, 0)
        /\ Delayed(rho_sr, Wait, Rhos, n, zeros)
        /\ Delayed(mu_sr, Wait, Mus, n, 0)
    BY DEF Beside
  <1>6. /\ mul' = LJ!Push(mul, x.A * x.B) /\ C_r' = C_raw(x)
        /\ q_sr' = LJ!Push(q_sr, x.q) /\ rho_sr' = LJ!Push(rho_sr, x.rho)
        /\ mu_sr' = LJ!Push(mu_sr, x.mu)
    BY DEF Edge
  <1>7. /\ Products' = [i \in 1 .. k |-> past'[i].A * past'[i].B]
        /\ Moduli' = [i \in 1 .. k |-> past'[i].q]
        /\ Rhos' = [i \in 1 .. k |-> past'[i].rho]
        /\ Mus' = [i \in 1 .. k |-> past'[i].mu]
    BY <1>1 DEF Products, Moduli, Rhos, Mus
  <1>8. /\ Products = [i \in 1 .. n |-> past[i].A * past[i].B]
        /\ Moduli = [i \in 1 .. n |-> past[i].q]
        /\ Rhos = [i \in 1 .. n |-> past[i].rho]
        /\ Mus = [i \in 1 .. n |-> past[i].mu]
    BY DEF Products, Moduli, Rhos, Mus
  <1> HIDE DEF n, k, L, zeros
  <1>9. \A i \in 2 .. k : i \in 1 .. k /\ i - 1 \in 1 .. n
    BY <1>1, <1>3
  <1>10. 1 \in 1 .. k
    BY <1>1
  <1>11. /\ Products'[1] = x.A * x.B
         /\ \A i \in 2 .. k : Products'[i] = Products[i - 1]
    BY <1>1, <1>7, <1>8, <1>9, <1>10
  <1>12. Moduli'[1] = x.q /\ \A i \in 2 .. k : Moduli'[i] = Moduli[i - 1]
    BY <1>1, <1>7, <1>8, <1>9, <1>10
  <1>13. Rhos'[1] = x.rho /\ \A i \in 2 .. k : Rhos'[i] = Rhos[i - 1]
    BY <1>1, <1>7, <1>8, <1>9, <1>10
  <1>14. Mus'[1] = x.mu /\ \A i \in 2 .. k : Mus'[i] = Mus[i - 1]
    BY <1>1, <1>7, <1>8, <1>9, <1>10
  <1>15. /\ k = n + 1 \/ (k = n /\ L <= n)
         /\ k = n + 1 \/ (k = n /\ Wait <= n)
    BY <1>1, <1>3
  <1>16. Delayed(mul', L, Products', k, 0)
    BY <1>1, <1>3, <1>5, <1>6, <1>11, <1>15, DelayMoves
  <1>17. Delayed(q_sr', Wait, Moduli', k, 0)
    BY <1>1, <1>3, <1>5, <1>6, <1>12, <1>15, DelayMoves
  <1>18. Delayed(rho_sr', Wait, Rhos', k, zeros)
    BY <1>1, <1>3, <1>5, <1>6, <1>13, <1>15, DelayMoves
  <1>19. Delayed(mu_sr', Wait, Mus', k, 0)
    BY <1>1, <1>3, <1>5, <1>6, <1>14, <1>15, DelayMoves
  <1>20. C_r' = IF L + 1 <= k THEN Products'[L + 1] ELSE 0
    <2>1. C_raw(x) = IF L = 0 THEN x.A * x.B ELSE IF L <= n THEN Products[L] ELSE 0
      BY ProductIs DEF L, n
    <2>2. CASE L = 0
      BY <1>1, <1>6, <1>11, <2>1, <2>2
    <2>3. CASE L # 0
      <3>1. (L <= n <=> L + 1 <= k) /\ (L + 1) - 1 = L /\ (L + 1 <= k => L + 1 \in 2 .. k)
        BY <1>1, <1>3, <2>3
      <3>2. L + 1 <= k => Products'[L + 1] = Products[(L + 1) - 1]
        BY <1>11, <3>1, Zenon
      <3> QED BY <1>6, <2>1, <2>3, <3>1, <3>2
    <2> QED BY <2>2, <2>3
  <1> QED BY <1>1, <1>2, <1>4, <1>16, <1>17, <1>18, <1>19, <1>20 DEF Beside, L, zeros

\* The inputs of logjumps that are on their way, one by one.
LEMMA FedIs ==
  ASSUME Recent
  PROVE  /\ Fed \in Nat /\ Fed <= LJ!LAT
         /\ LJP!Row(lj_past, Fed) /\ Len(lj_past) = Fed
         /\ \A i \in 1 .. Fed :
              lj_past[i] = IF MUL_LAT + i <= Len(past) THEN Entering(past[MUL_LAT + i])
                                                       ELSE Nothing
  <1>1. /\ Len(past) \in Nat /\ Len(past) <= DEPTH /\ DEPTH = MUL_LAT + LJ!LAT
        /\ MUL_LAT \in Nat /\ LJ!LAT \in Nat
    BY Parameters DEF Recent
  <1>2. Fed \in Nat /\ Fed <= LJ!LAT
    BY <1>1 DEF Fed
  <1>3. \A i \in 1 .. Fed :
          lj_past[i] = IF MUL_LAT + i <= Len(past) THEN Entering(past[MUL_LAT + i])
                                                   ELSE Nothing
    BY DEF lj_past
  <1>4. LJP!Row(lj_past, Fed)
    <2>1. lj_past = [i \in 1 .. Fed |-> lj_past[i]]
      BY DEF lj_past
    <2> QED BY <2>1 DEF LJP!Row
  <1>5. Len(lj_past) = Fed
    BY <1>2, <1>4, Assumed, LJP!RowIs
  <1> QED BY <1>2, <1>3, <1>4, <1>5

\* Their history moves on with modmul's own.
LEMMA FedMoves ==
  ASSUME Recent, Beside, NEW x, Edge(x), p.FIXED_Q \/ MUL_LAT <= Len(past)
  PROVE  LJP!Moves(LogJumpsInput(x))
  <1> DEFINE n == Len(past)
             k == NextLen
             M == MUL_LAT
             J == LJ!LAT
             f == Fed
             g == Fed'
             in == LogJumpsInput(x)
  <1>1. /\ k \in Nat /\ k >= 1 /\ k <= DEPTH /\ k <= n + 1
        /\ k = n + 1 \/ (k = n /\ n = DEPTH)
        /\ Len(past') = k /\ past'[1] = x
        /\ \A i \in 2 .. k : past'[i] = past[i - 1]
    BY HistoryMoves
  <1>2. p' = p /\ cfg' = cfg /\ Legal(x)
    BY DEF Edge
  <1>3. /\ n \in Nat /\ n <= DEPTH /\ DEPTH = M + J /\ M \in Nat /\ J \in Nat /\ J >= 1
        /\ p.FIXED_Q \in BOOLEAN
    BY Parameters DEF Recent
  <1>4. MUL_LAT' = M /\ LJ!LAT' = J /\ Nothing' = Nothing
    BY <1>2, StillTheSame
  <1>5. /\ f = IF p.FIXED_Q THEN (IF n <= J THEN n ELSE J)
                            ELSE (IF n <= M THEN 0 ELSE n - M)
        /\ g = IF p.FIXED_Q THEN (IF k <= J THEN k ELSE J)
                            ELSE (IF k <= M THEN 0 ELSE k - M)
    BY <1>1, <1>2, <1>4 DEF Fed
  <1>6. /\ f \in Nat /\ Len(lj_past) = f
        /\ \A i \in 1 .. f :
             lj_past[i] = IF M + i <= n THEN Entering(past[M + i]) ELSE Nothing
    BY FedIs
  <1>7. lj_past' = [i \in 1 .. g |-> IF M + i <= k THEN Entering(past'[M + i])
                                                   ELSE Nothing]
    BY <1>1, <1>4 DEF lj_past, Entering
  <1>8. /\ M = 0 => in = Entering(x)
        /\ M # 0 /\ M <= n => in = Entering(past[M])
        /\ M > n => in = Nothing
    BY <1>2, InputIs
  <1>9. p.FIXED_Q \/ M <= n
    OBVIOUS
  <1>10. LJP!Min({LJP!LAT, f + 1}) = IF J <= f + 1 THEN J ELSE f + 1
    <2>1. LJP!LAT = J
      BY SameDelays
    <2>2. f + 1 \in Nat
      BY <1>6
    <2> DEFINE b == f + 1
    <2>3. J \in Nat
      BY <1>3
    <2> HIDE DEF n, k, M, f, J, b
    <2>4. Min({J, b}) = (IF J <= b THEN J ELSE b) /\ LJP!Min({J, b}) = Min({J, b})
      BY <2>2, <2>3, Smaller DEF b
    <2> QED BY <2>1, <2>4, Zenon DEF b
  <1> HIDE DEF n, k, M, J, f, g, in
  <1>11. g = (IF J <= f + 1 THEN J ELSE f + 1) /\ g \in Nat /\ g <= J /\ g <= f + 1
         /\ g >= 1
    <2>1. CASE p.FIXED_Q
      <3>1. f = (IF n <= J THEN n ELSE J) /\ g = (IF k <= J THEN k ELSE J)
        BY <1>5, <2>1, Zenon
      <3>2. k = n + 1 \/ (k = n /\ J <= n)
        BY <1>1, <1>3
      <3>3. CASE n <= J
        <4>1. f = n
          BY <3>1, <3>3
        <4> QED BY <1>1, <1>3, <3>1, <3>2, <3>3, <4>1
      <3>4. CASE ~(n <= J)
        <4>1. f = J /\ g = J
          BY <1>1, <1>3, <3>1, <3>2, <3>4
        <4> QED BY <1>3, <4>1
      <3> QED BY <3>3, <3>4
    <2>2. CASE ~p.FIXED_Q
      <3>1. /\ f = (IF n <= M THEN 0 ELSE n - M) /\ g = (IF k <= M THEN 0 ELSE k - M)
            /\ M <= n
        BY <1>5, <1>9, <2>2, Zenon
      <3>2. f = n - M
        BY <1>3, <3>1
      <3>3. CASE k = n + 1
        BY <1>1, <1>3, <3>1, <3>2, <3>3
      <3>4. CASE k = n /\ n = DEPTH
        BY <1>1, <1>3, <3>1, <3>2, <3>4
      <3> QED BY <1>1, <3>3, <3>4
    <2> QED BY <1>3, <2>1, <2>2
  <1>12. LJP!Row(lj_past', g)
    <2>1. lj_past' = [i \in 1 .. g |-> lj_past'[i]]
      BY <1>7
    <2> QED BY <2>1 DEF LJP!Row
  <1>13. lj_past'[1] = in
    <2>1. 1 \in 1 .. g /\ (M + 1 <= k <=> M <= n)
      BY <1>1, <1>3, <1>11
    <2>2. lj_past'[1] = IF M <= n THEN Entering(past'[M + 1]) ELSE Nothing
      BY <1>7, <2>1
    <2>3. CASE M = 0
      <3>1. M <= n /\ M + 1 = 1
        BY <1>3, <2>3
      <3> QED BY <1>1, <1>8, <2>2, <2>3, <3>1
    <2>4. CASE M # 0 /\ M <= n
      <3>1. M + 1 \in 2 .. k /\ (M + 1) - 1 = M
        BY <1>3, <2>1, <2>4
      <3>2. past'[M + 1] = past[(M + 1) - 1]
        BY <1>1, <3>1, Zenon
      <3> QED BY <1>8, <2>2, <2>4, <3>1, <3>2
    <2>5. CASE M > n
      <3>1. ~(M <= n)
        BY <1>3, <2>5
      <3> QED BY <1>8, <2>2, <2>5, <3>1
    <2> QED BY <1>3, <2>3, <2>4, <2>5
  <1>14. ASSUME NEW i \in 2 .. g PROVE lj_past'[i] = lj_past[i - 1]
    <2> DEFINE j == i - 1
    <2>1. /\ i \in 1 .. g /\ j \in 1 .. f /\ M + i \in Nat
          /\ (M + i <= k <=> M + j <= n) /\ (M + i) - 1 = M + j
          /\ (M + i <= k => M + i \in 2 .. k)
      <3>1. i \in Nat /\ i >= 2 /\ i <= g /\ i <= J /\ j \in Nat /\ j = i - 1
        BY <1>3, <1>11
      <3> HIDE DEF j
      <3>2. i \in 1 .. g /\ j \in 1 .. f
        BY <1>6, <1>11, <3>1
      <3>3. M + i \in Nat /\ M + i >= 2 /\ (M + i) - 1 = M + j
        BY <1>3, <3>1
      <3>4. M + i <= k => M + i \in 2 .. k
        BY <1>1, <3>3
      <3>5. M + i <= k <=> M + j <= n
        <4>1. CASE k = n + 1
          BY <1>3, <3>1, <4>1
        <4>2. CASE k = n /\ n = M + J
          BY <1>3, <3>1, <4>2
        <4> QED BY <1>1, <1>3, <4>1, <4>2
      <3> QED BY <3>2, <3>3, <3>4, <3>5
    <2>2. lj_past'[i] = IF M + i <= k THEN Entering(past'[M + i]) ELSE Nothing
      BY <1>7, <2>1
    <2>3. lj_past[j] = IF M + j <= n THEN Entering(past[M + j]) ELSE Nothing
      BY <1>6, <2>1
    <2>4. M + i <= k => past'[M + i] = past[M + j]
      <3> HAVE M + i <= k
      <3>1. past'[M + i] = past[(M + i) - 1]
        BY <1>1, <2>1, Zenon
      <3> QED BY <2>1, <3>1
    <2> HIDE DEF j
    <2>5. lj_past'[i] = lj_past[j]
      BY <2>1, <2>2, <2>3, <2>4
    <2> QED BY <2>5 DEF j
  <1> QED BY <1>6, <1>10, <1>11, <1>12, <1>13, <1>14 DEF LJP!Moves, f, in

\* A clock keeps the invariant.
LEMMA EdgeInv ==
  ASSUME MulInv, NEW x, Edge(x)
  PROVE  MulInv'
  <1> DEFINE in == LogJumpsInput(x)
  <1>1. Recent /\ Beside /\ LJP!IInv
    BY DEF MulInv
  <1>2. Recent' /\ Beside'
    BY <1>1, RecentMoves, BesideMoves
  <1>3. p' = p /\ cfg' = cfg /\ Legal(x) /\ LJ!Clock(in)
    BY DEF Edge
  <1>4. p \in Configs /\ cfg = LogJumpsParameters(p) /\ Len(past) \in Nat
        /\ MUL_LAT \in Nat /\ \A i \in 1 .. Len(past) : Legal(past[i])
    BY <1>1, Parameters DEF Recent
  <1>5. LJP!Clock(in)
    <2>1. DOMAIN line = LJP!LineNames
      <3>1. LJP!Rows
        BY <1>1, Zenon DEF LJP!IInv
      <3>2. line = [l \in LJP!LineNames |-> line[l]]
        BY <3>1, Zenon DEF LJP!Rows
      <3> QED BY <3>2
    <2> QED BY <1>3, <2>1, SameClock
  <1>6. /\ MUL_LAT = 0 => in = Entering(x)
        /\ MUL_LAT # 0 /\ MUL_LAT <= Len(past) => in = Entering(past[MUL_LAT])
        /\ MUL_LAT > Len(past) => in = Nothing
    BY <1>1, <1>3, InputIs
  <1>7. CASE p.FIXED_Q \/ MUL_LAT <= Len(past)
    <2>1. LJP!Moves(in)
      BY <1>1, <1>7, FedMoves
    <2>2. LJP!Legal(in)
      <3> HIDE DEF in
      <3>1. CASE MUL_LAT = 0
        BY <1>3, <1>4, <1>6, <3>1, LegalEntering
      <3>2. CASE MUL_LAT # 0 /\ MUL_LAT <= Len(past)
        <4>1. MUL_LAT \in 1 .. Len(past)
          BY <1>4, <3>2
        <4>2. Legal(past[MUL_LAT])
          BY <1>4, <4>1
        <4> QED BY <1>4, <1>6, <3>2, <4>2, LegalEntering
      <3>3. CASE MUL_LAT > Len(past)
        <4>1. p.FIXED_Q
          BY <1>4, <1>7, <3>3
        <4> QED BY <1>3, <1>4, <1>6, <3>3, <4>1, LegalNothing
      <3> QED BY <1>4, <3>1, <3>2, <3>3
    <2> HIDE DEF in
    <2>3. (LJP!IInv)'
      BY <1>1, <1>3, <1>5, <2>1, <2>2, JumpsClock
    <2> QED BY <1>2, <2>3 DEF MulInv
  <1>8. CASE ~p.FIXED_Q /\ MUL_LAT > Len(past)
    <2>1. LJP!EmptyInput(in)
      BY <1>4, <1>6, <1>8, LegalNothing
    <2>2. lj_past = <<>> /\ lj_past' = lj_past
      <3> DEFINE k == NextLen
      <3>1. k \in Nat /\ k <= Len(past) + 1 /\ Len(past') = k
        BY <1>1, HistoryMoves
      <3>2. MUL_LAT' = MUL_LAT
        BY <1>3, StillTheSame
      <3> HIDE DEF k
      <3>3. Fed = 0 /\ Fed' = 0
        BY <1>3, <1>4, <1>8, <3>1, <3>2 DEF Fed
      <3>4. 1 .. 0 = {}
        OBVIOUS
      <3>5. lj_past = <<>>
        BY <3>3, <3>4 DEF lj_past
      <3>6. lj_past' = <<>>
        BY <3>3, <3>4 DEF lj_past
      <3> QED BY <3>5, <3>6
    <2> HIDE DEF in
    <2>3. (LJP!IInv)'
      BY <1>1, <1>3, <1>5, <2>1, <2>2, JumpsEmpty
    <2> QED BY <1>2, <2>3 DEF MulInv
  <1> QED BY <1>4, <1>7, <1>8

\* Without a clock nothing moves.
LEMMA StutterInv ==
  ASSUME MulInv, UNCHANGED vars
  PROVE  MulInv'
  <1>1. /\ p' = p /\ cfg' = cfg /\ mul' = mul /\ C_r' = C_r /\ q_sr' = q_sr
        /\ rho_sr' = rho_sr /\ mu_sr' = mu_sr /\ line' = line /\ past' = past
    BY DEF vars
  <1>2. /\ MUL_LAT' = MUL_LAT /\ Wait' = Wait /\ LJ!LAT' = LJ!LAT /\ DEPTH' = DEPTH
        /\ Nothing' = Nothing
    BY <1>1, StillTheSame
  <1>3. lj_past' = lj_past
    <2>1. Fed' = Fed
      BY <1>1, <1>2 DEF Fed
    <2> QED BY <1>1, <1>2, <2>1 DEF lj_past
  <1>4. LJP!IInv'
    BY <1>1, <1>3, JumpsStill DEF MulInv
  <1>5. Recent'
    BY <1>1, <1>2 DEF MulInv, Recent, Legal
  <1>6. Beside'
    BY <1>1, <1>2 DEF MulInv, Beside, Products, Moduli, Rhos, Mus
  <1> QED BY <1>4, <1>5, <1>6 DEF MulInv

\* All registers come up cleared, and nothing has come in yet.
LEMMA InitInv == Init => MulInv
  <1> SUFFICES ASSUME Init PROVE MulInv
    OBVIOUS
  <1> DEFINE zeros == [k \in 1 .. N_LIMBS - 1 |-> 0]
  <1>1. /\ p \in Configs /\ cfg = LogJumpsParameters(p) /\ past = <<>>
        /\ mul = [i \in 1 .. p.INTMUL_LAT |-> 0] /\ C_r = 0
        /\ q_sr = [i \in 1 .. Wait |-> 0]
        /\ rho_sr = [i \in 1 .. Wait |-> zeros]
        /\ mu_sr = [i \in 1 .. Wait |-> 0]
        /\ line = [l \in DOMAIN LJ!Lengths |-> [i \in 1 .. LJ!Lengths[l] |-> LJ!Zero[l]]]
    BY DEF Init, Wait
  <1>2. /\ cfg \in Settings /\ p.INTMUL_LAT \in Nat /\ MUL_LAT \in Nat /\ Wait \in Nat
        /\ LJ!LAT \in Nat /\ DEPTH = MUL_LAT + LJ!LAT
    BY <1>1, Parameters
  <1>3. Len(past) = 0
    BY <1>1
  <1>4. Recent
    <2>1. LJP!Row(past, 0)
      <3>1. past = [i \in 1 .. 0 |-> past[i]]
        BY <1>1
      <3> QED BY <3>1 DEF LJP!Row
    <2>2. 0 <= DEPTH /\ \A i \in 1 .. 0 : FALSE
      BY <1>2
    <2> QED BY <1>1, <1>3, <2>1, <2>2 DEF Recent
  <1>5. ASSUME NEW n \in Nat, NEW h, NEW zero
        PROVE  Delayed([i \in 1 .. n |-> zero], n, h, 0, zero)
    <2> DEFINE s == [i \in 1 .. n |-> zero]
    <2>1. s = [i \in 1 .. n |-> s[i]] /\ \A i \in 1 .. n : s[i] = zero /\ ~(i <= 0)
      OBVIOUS
    <2> HIDE DEF s
    <2> QED BY <2>1 DEF Delayed, LJP!Row, s
  <1>6. Beside
    <2>1. ~(p.INTMUL_LAT + 1 <= 0)
      BY <1>2
    <2>2. Delayed(mul, p.INTMUL_LAT, Products, 0, 0)
      BY <1>1, <1>2, <1>5
    <2>3. /\ Delayed(q_sr, Wait, Moduli, 0, 0) /\ Delayed(mu_sr, Wait, Mus, 0, 0)
          /\ Delayed(rho_sr, Wait, Rhos, 0, zeros)
      <3> HIDE DEF zeros
      <3> QED BY <1>1, <1>2, <1>5
    <2>4. C_r = IF p.INTMUL_LAT + 1 <= 0 THEN Products[p.INTMUL_LAT + 1] ELSE 0
      BY <1>1, <2>1
    <2> QED BY <1>3, <2>2, <2>3, <2>4, Zenon DEF Beside
  <1>7. lj_past = <<>>
    <2>1. Fed = 0
      BY <1>2, <1>3 DEF Fed
    <2>2. 1 .. 0 = {}
      OBVIOUS
    <2> QED BY <2>1, <2>2 DEF lj_past
  <1>8. LJP!IInv
    <2>1. cfg \in {LogJumpsParameters(c) : c \in Configs}
      BY <1>2 DEF Settings
    <2>2. LJP!Init
      BY <1>1, <1>7, <2>1, SameInit
    <2> QED BY <2>2, JumpsStart
  <1> QED BY <1>4, <1>6, <1>8 DEF MulInv

\* Every register of the multiplier, of the delay lines beside it and of logjumps
\* holds what belongs to the operands of as many clocks ago (modmul.sv:255-265,
\* 285-334).
THEOREM AlwaysBeside == Spec => []MulInv
  <1>1. MulInv /\ [Next]_vars => MulInv'
    BY EdgeInv, StutterInv DEF Next
  <1> QED BY InitInv, <1>1, PTL DEF Spec

(***************************************************************************)
(* What comes out                                                          *)
(***************************************************************************)

\* With DEPTH inputs on their way the oldest is at the output.
LEMMA OutputIs ==
  ASSUME MulInv, Len(past) = DEPTH
  PROVE  IsProductOf(Output, past[DEPTH])
  <1> DEFINE J == LJ!LAT
             M == MUL_LAT
             y == past[DEPTH]
             in == LogJumpsInput(CHOOSE x \in Samples(p) : TRUE)
             d == LJP!Wires(in).out
  <1>1. Recent /\ Beside /\ LJP!IInv
    BY DEF MulInv
  <1>2. M \in Nat /\ J \in Nat /\ J >= 1 /\ DEPTH = M + J
    BY <1>1, Parameters DEF Recent
  <1>3. /\ Fed \in Nat /\ Len(lj_past) = Fed
        /\ \A i \in 1 .. Fed :
             lj_past[i] = IF M + i <= Len(past) THEN Entering(past[M + i]) ELSE Nothing
    BY <1>1, FedIs
  <1>4. Fed = J
    BY <1>2 DEF Fed
  <1>5. lj_past[J] = Entering(y)
    <2>1. J \in 1 .. Fed /\ M + J <= Len(past)
      BY <1>2, <1>4
    <2> HIDE DEF J, M
    <2> QED BY <1>2, <1>3, <2>1
  <1>6. J = LJP!LAT
    BY SameDelays
  <1>7. /\ Entering(y).q \in Nat \ {0} /\ d < Entering(y).q
        /\ (d * LJP!R) % Entering(y).q = Entering(y).C % Entering(y).q
    <2> HIDE DEF J, M, in, y
    <2>1. Len(lj_past) = LJP!LAT
      BY <1>3, <1>4, <1>6
    <2> QED BY <1>1, <1>5, <1>6, <2>1, JumpsReduce
  <1>8. Output = d /\ LJ!R = LJP!R
    BY SameWires, SameSizes DEF Output, D
  <1>9. Entering(y).q = y.q /\ Entering(y).C = y.A * y.B
    BY DEF Entering
  <1> HIDE DEF d, y
  <1> QED BY <1>7, <1>8, <1>9 DEF IsProductOf, y

\* modmul multiplies: what comes out is the Montgomery product, fully reduced, of the
\* operands of DEPTH clocks ago by the modulus that came with them, in every setting
\* of the registers, for every width and every sequence of inputs (modmul.sv:255-265,
\* 285-334).
THEOREM Multiplies == Spec => []MultipliesItsOwnInputs
  <1>1. MulInv => MultipliesItsOwnInputs
    BY OutputIs DEF MultipliesItsOwnInputs
  <1> QED BY <1>1, AlwaysBeside, PTL

(***************************************************************************)
(* The announced latency                                                   *)
(***************************************************************************)

\* A stage of a carry-save tree over n operands, given the stages before it.
CsaStage(n, w, i) == IF i = 0 THEN n ELSE 2 * (w[i - 1] \div 3) + (w[i - 1] % 3)

CsaTree(n, s, w) == w = [i \in 0 .. s |-> CsaStage(n, w, i)]

\* Every stage of the tree is there ...
LEMMA CsaTreeExists ==
  ASSUME NEW n \in Nat, NEW s \in Nat
  PROVE  \E w : CsaTree(n, s, w)
  <1> DEFINE Ks == {k \in Nat : \E w : CsaTree(n, k, w)}
  <1>1. 0 \in Ks
    <2> DEFINE w == [i \in 0 .. 0 |-> n]
    <2>1. w = [i \in 0 .. 0 |-> CsaStage(n, w, i)]
      <3>1. \A i \in 0 .. 0 : CsaStage(n, w, i) = n
        BY DEF CsaStage
      <3> QED BY <3>1
    <2> QED BY <2>1 DEF CsaTree
  <1>2. ASSUME NEW k \in Ks PROVE k + 1 \in Ks
    <2>1. k \in Nat
      OBVIOUS
    <2>2. PICK v : CsaTree(n, k, v)
      OBVIOUS
    <2> DEFINE new == CsaStage(n, v, k + 1)
               w == [i \in 0 .. k + 1 |-> IF i = k + 1 THEN new ELSE v[i]]
    <2>3. w[k + 1] = new /\ \A i \in 0 .. k : w[i] = v[i]
      <3>1. k + 1 \in 0 .. k + 1 /\ \A i \in 0 .. k : i \in 0 .. k + 1 /\ i # k + 1
        BY <2>1
      <3> HIDE DEF new
      <3> QED BY <3>1
    <2>4. w = [i \in 0 .. k + 1 |-> w[i]]
      OBVIOUS
    <2> HIDE DEF w
    <2>5. ASSUME NEW i \in 0 .. k + 1 PROVE w[i] = CsaStage(n, w, i)
      <3>1. CASE i = 0
        <4>1. i \in 0 .. k
          BY <2>1, <3>1
        <4>2. v[i] = CsaStage(n, v, i)
          BY <2>2, <4>1 DEF CsaTree
        <4> QED BY <2>3, <3>1, <4>1, <4>2 DEF CsaStage
      <3>2. CASE i # 0
        <4>1. i - 1 \in 0 .. k
          BY <2>1, <3>2
        <4>2. CsaStage(n, w, i) = CsaStage(n, v, i)
          <5>1. w[i - 1] = v[i - 1]
            BY <2>3, <4>1
          <5> QED BY <5>1 DEF CsaStage
        <4>3. CASE i = k + 1
          BY <2>3, <4>2, <4>3
        <4>4. CASE i # k + 1
          <5>1. i \in 0 .. k
            BY <2>1, <4>4
          <5>2. v[i] = CsaStage(n, v, i)
            BY <2>2, <5>1 DEF CsaTree
          <5> QED BY <2>3, <4>2, <5>1, <5>2
        <4> QED BY <4>3, <4>4
      <3> QED BY <3>1, <3>2
    <2>6. CsaTree(n, k + 1, w)
      BY <2>4, <2>5 DEF CsaTree
    <2> QED BY <2>1, <2>6
  <1>3. Ks = Nat
    <2>1. Ks \in SUBSET Nat
      OBVIOUS
    <2> HIDE DEF Ks
    <2> QED BY <1>1, <1>2, <2>1, Assumed, LJP!InductiveSet
  <1> QED BY <1>3

\* ... and takes away one operand at least, down to two.
LEMMA CsaWidths ==
  ASSUME NEW n \in Nat, NEW s \in Nat
  PROVE  LET c == csa_stage_width(n, s) IN c \in Nat /\ (c <= 2 \/ c <= n - s)
  <1> DEFINE w == CHOOSE w : CsaTree(n, s, w)
             Ks == {k \in Nat : k <= s => w[k] \in Nat /\ (w[k] <= 2 \/ w[k] <= n - k)}
  <1>1. csa_stage_width(n, s) = w[s]
    BY DEF csa_stage_width, CsaTree, CsaStage
  <1>2. CsaTree(n, s, w)
    BY CsaTreeExists
  <1> HIDE DEF w
  <1>3. \A i \in 0 .. s : w[i] = CsaStage(n, w, i)
    BY <1>2 DEF CsaTree
  <1>4. 0 \in Ks
    <2>1. w[0] = n
      BY <1>3 DEF CsaStage
    <2> QED BY <2>1
  <1>5. ASSUME NEW k \in Ks PROVE k + 1 \in Ks
    <2>1. k \in Nat
      OBVIOUS
    <2> SUFFICES ASSUME k + 1 <= s
                 PROVE  w[k + 1] \in Nat /\ (w[k + 1] <= 2 \/ w[k + 1] <= n - (k + 1))
      BY <2>1
    <2> DEFINE a == w[k]
    <2>2. a \in Nat /\ (a <= 2 \/ a <= n - k)
      BY <2>1
    <2>3. w[k + 1] = 2 * (a \div 3) + (a % 3)
      <3>1. k + 1 \in 0 .. s /\ k + 1 # 0 /\ (k + 1) - 1 = k
        BY <2>1
      <3>2. w[k + 1] = CsaStage(n, w, k + 1)
        BY <1>3, <3>1
      <3> QED BY <3>1, <3>2, Zenon DEF CsaStage
    <2> HIDE DEF a
    <2>4. w[k + 1] \in Nat /\ (w[k + 1] <= 2 \/ w[k + 1] <= a - 1)
      BY <2>2, <2>3
    <2> QED BY <2>1, <2>2, <2>4
  <1>6. Ks = Nat
    <2>1. Ks \in SUBSET Nat
      OBVIOUS
    <2> HIDE DEF Ks
    <2> QED BY <1>4, <1>5, <2>1, Assumed, LJP!InductiveSet
  <1>7. w[s] \in Nat /\ (w[s] <= 2 \/ w[s] <= n - s)
    BY <1>6
  <1> QED BY <1>1, <1>7

\* So that n stages are enough.
LEMMA CsaStages ==
  ASSUME NEW n \in Nat
  PROVE  csa_num_stages(n) \in 0 .. n
  <1> DEFINE c(s) == csa_stage_width(n, s)
             S == {s \in 0 .. n : c(s) <= 2}
             Done(s) == c(s) <= 2 /\ \A t \in 0 .. s - 1 : c(t) > 2
  <1>1. \A s \in Nat : c(s) \in Nat /\ (c(s) <= 2 \/ c(s) <= n - s)
    BY CsaWidths
  <1> HIDE DEF c
  <1>2. n \in S
    <2>1. c(n) \in Nat /\ (c(n) <= 2 \/ c(n) <= n - n)
      BY <1>1
    <2> QED BY <2>1
  <1>3. PICK m \in S : \A k \in S : m <= k
    <2>1. S \in SUBSET Nat
      OBVIOUS
    <2> HIDE DEF S
    <2> QED BY <1>2, <2>1, Assumed, LJP!LeastNumber
  <1>4. Done(m)
    <2>1. ASSUME NEW t \in 0 .. m - 1 PROVE c(t) > 2
      <3>1. t \in Nat /\ t \in 0 .. n /\ ~(m <= t)
        BY <1>3
      <3>2. ~(c(t) <= 2)
        BY <1>3, <3>1
      <3> QED BY <1>1, <3>1, <3>2
    <2> QED BY <1>3, <2>1
  <1>5. csa_num_stages(n) = CHOOSE s \in 0 .. n : Done(s)
    BY DEF csa_num_stages, c
  <1> HIDE DEF Done
  <1> QED BY <1>3, <1>4, <1>5

\* The adder tree of the quotient has as many stages as a number says.
LEMMA TreeStages ==
  ASSUME NEW csa
  PROVE  total_stages(N_LIMBS, csa) \in Nat
  <1>1. N_LIMBS \in Nat /\ N_LIMBS \in 0 .. LJP!MaxExp
    <2>1. LJP!N_LIMBS \in Nat /\ LJP!N_LIMBS \in 0 .. LJP!MaxExp
      BY Assumed, LJP!Sizes DEF LJP!MaxExp
    <2> QED BY <2>1, SameSizes
  <1>2. csa_num_stages(N_LIMBS) \in Nat
    BY <1>1, CsaStages
  <1>3. num_stages(N_LIMBS) \in Nat
    <2>1. N_LIMBS <= 2^N_LIMBS
      <3>1. N_LIMBS < 2^N_LIMBS /\ 2^N_LIMBS \in Nat
        BY <1>1, Assumed, LJP!PowerExceeds, LJP!Powers DEF LJP!Bases
      <3> QED BY <1>1, <3>1
    <2>2. LJP!clog2_val(N_LIMBS) \in 0 .. N_LIMBS
      BY <1>1, <2>1, Assumed, LJP!Clog2
    <2>3. clog2_val(N_LIMBS) = LJP!clog2_val(N_LIMBS)
      BY DEF clog2_val, LJP!clog2_val
    <2> QED BY <1>1, <2>2, <2>3 DEF num_stages
  <1> QED BY <1>2, <1>3 DEF total_stages

\* A register behind its carry-save levels does not make the tree faster.
LEMMA TreeLatency ==
  ASSUME p \in Configs
  PROVE  LET a == mval_tree_latency(p, FALSE) b == mval_tree_latency(p, TRUE) IN
         a \in Nat /\ b \in Nat /\ a <= b
  <1> DEFINE ns == total_stages(N_LIMBS, p.MT_USE_CSA)
             t == p.MT_REG_PERIOD
             levels == IF t > 0 THEN ns \div t ELSE 0
             merged == t > 0 /\ ns % t = 0
             csa == UsesCsa(N_LIMBS, p.MT_USE_CSA)
             in == Flag(p.MT_REG_IN)
             out == Flag(p.MT_REG_OUT /\ ~merged)
             add == Flag(csa)
             a == mval_tree_latency(p, FALSE)
             b == mval_tree_latency(p, TRUE)
  <1>1. /\ a = (IF ns = 0 THEN 0 ELSE in + levels + 0 + out)
        /\ b = (IF ns = 0 THEN 0 ELSE in + levels + add + out)
    <2>1. Flag(FALSE /\ csa) = 0 /\ Flag(TRUE /\ csa) = add
      BY DEF Flag
    <2> QED BY <2>1 DEF mval_tree_latency, addtree_latency
  <1>2. levels \in Nat
    <2>1. ns \in Nat /\ t \in Nat
      BY TreeStages, ParametersAssumption
    <2> HIDE DEF ns, t
    <2>2. CASE t > 0
      <3>1. ns \div t \in Nat
        BY <2>1, <2>2, LJP!DivIs
      <3> QED BY <3>1
    <2>3. CASE ~(t > 0)
      BY <2>3
    <2> QED BY <2>2, <2>3
  <1>3. in \in Nat /\ out \in Nat /\ add \in Nat
    BY DEF Flag
  <1> HIDE DEF ns, levels, in, out, add, a, b
  <1>4. a \in Nat /\ b \in Nat /\ a <= b
    <2>1. CASE ns = 0
      BY <1>1, <2>1
    <2>2. CASE ns # 0
      <3>1. a = in + levels + 0 + out /\ b = in + levels + add + out
        BY <1>1, <2>2
      <3> QED BY <1>2, <1>3, <3>1
    <2> QED BY <2>1, <2>2
  <1> QED BY <1>4 DEF a, b

\* With path B the longer one the announced latency is the depth of the pipeline.
LEMMA LatencyIs ==
  ASSUME Recent, LJ!PATH_A <= LJ!PATH_B
  PROVE  LAT = DEPTH
  <1> DEFINE a == mval_tree_latency(p, FALSE)
             b == mval_tree_latency(p, TRUE)
             rm == IF p.FIXED_Q THEN 0 ELSE p.RM_LAT
             A == LJ!PATH_A
             B == LJ!PATH_B
             M == MUL_LAT
             ff == p.FF_JOIN_ADD + p.FF_MR_POST + p.FF_OUT
  <1>1. p \in Configs /\ cfg = LogJumpsParameters(p)
    BY DEF Recent
  <1>2. /\ M \in Nat /\ M = p.INTMUL_LAT + p.MUL_FF_CPA /\ cfg \in Settings
        /\ p.FIXED_Q \in BOOLEAN
    BY <1>1, Parameters
  <1>3. /\ cfg.FIXED_Q = p.FIXED_Q /\ cfg.RM_LAT = p.RM_LAT /\ cfg.FF_RM = p.FF_RM
        /\ cfg.MVAL_LAT = b /\ cfg.MR_LAT = p.MR_LAT /\ cfg.DOT_LAT = p.DOT_LAT
        /\ cfg.ACC_LAT = p.ACC_LAT /\ cfg.FF_JOIN_ADD = p.FF_JOIN_ADD
        /\ cfg.FF_MR_POST = p.FF_MR_POST /\ cfg.FF_OUT = p.FF_OUT
    BY <1>1 DEF LogJumpsParameters
  <1>4. /\ p.RM_LAT \in Nat /\ p.FF_RM \in Nat /\ p.MR_LAT \in Nat /\ p.DOT_LAT \in Nat
        /\ p.ACC_LAT \in Nat /\ p.FF_JOIN_ADD \in Nat /\ p.FF_MR_POST \in Nat
        /\ p.FF_OUT \in Nat
    BY <1>2, <1>3, Assumed DEF Settings
  <1>5. a \in Nat /\ b \in Nat /\ a <= b
    BY <1>1, TreeLatency
  <1>6. A = rm + p.FF_RM + b + p.MR_LAT /\ B = p.DOT_LAT + p.ACC_LAT
    BY <1>3 DEF LJ!PATH_A, LJ!PATH_B, LJ!RM_MUL_LAT
  <1>7. A \in Nat /\ B \in Nat
    BY <1>2, JumpsPlan DEF Settings
  <1>8. path_b_latency = B
    BY <1>6 DEF path_b_latency
  <1>9. path_a_latency = rm + p.FF_RM + a + p.MR_LAT
    BY DEF path_a_latency
  <1>10. rm \in Nat
    BY <1>2, <1>4
  <1> HIDE DEF a, b, rm, A, B, M
  <1>11. path_a_latency \in Nat /\ path_a_latency <= B
    BY <1>4, <1>5, <1>6, <1>7, <1>9, <1>10 DEF A, B
  <1>12. Max({path_a_latency, path_b_latency}) = B
    <2>1. Max({path_a_latency, B}) = IF path_a_latency <= B THEN B ELSE path_a_latency
      BY <1>7, <1>11, Larger
    <2> QED BY <1>8, <1>11, <2>1
  <1>13. LJ!JOIN_CYC = B
    <2>1. Max({A, B}) = (IF A <= B THEN B ELSE A) /\ LJ!Max({A, B}) = Max({A, B})
      BY <1>7, Larger
    <2>2. A <= B
      BY DEF A, B
    <2> QED BY <2>1, <2>2 DEF LJ!JOIN_CYC, A, B
  <1>14. LAT = M + (B + p.FF_JOIN_ADD + p.FF_MR_POST + p.FF_OUT)
    BY <1>12 DEF LAT, LJ_LAT, M
  <1>15. DEPTH = p.INTMUL_LAT + p.MUL_FF_CPA
                 + (B + p.FF_JOIN_ADD + p.FF_MR_POST + p.FF_OUT)
    BY <1>3, <1>13 DEF DEPTH, LJ!LAT
  <1> QED BY <1>2, <1>14, <1>15

\* As long as path B of logjumps is not the shorter one, the product is there after
\* the number of clocks modmul announces, by which the shell delays its valid bit, in
\* every such setting (modmul.sv:183-213, modmul_pkg.sv:125-189).
THEOREM AnnouncedInTime == Spec => []ProductOnTime
  <1>1. MulInv => ProductOnTime
    <2> SUFFICES ASSUME MulInv, LJ!PATH_A <= LJ!PATH_B, Len(past) >= LAT
                 PROVE  IsProductOf(Output, past[LAT])
      BY DEF ProductOnTime
    <2>1. Recent
      BY DEF MulInv
    <2>2. LAT = DEPTH
      BY <2>1, LatencyIs
    <2>3. Len(past) \in Nat /\ Len(past) <= DEPTH /\ DEPTH \in Nat
      BY <2>1, Parameters DEF Recent
    <2>4. Len(past) = DEPTH
      <3> DEFINE n == Len(past)
      <3>1. n >= DEPTH
        BY <2>2
      <3> HIDE DEF n
      <3> QED BY <2>3, <3>1 DEF n
    <2> QED BY <2>2, <2>4, OutputIs
  <1> QED BY <1>1, AlwaysBeside, PTL
=============================================================================
