------------------------------ MODULE MCModMul ------------------------------
(* Settings and samples of the ModMul runs.                                *)
EXTENDS ModMul

\* A setting: [intmul, cpa] of the multiplier, the latencies of modacc and of the
\* rho * mu products, the m_val tree [period, in, out, csa] and
\* [join, mr_post, out].
Setting(m, acc, rm, mt, ffs) ==
  [INTMUL_LAT |-> m[1], MUL_FF_CPA |-> m[2], DOT_LAT |-> 1, ACC_LAT |-> acc,
   RM_LAT |-> rm, FF_RM |-> 1 - rm, MR_LAT |-> ffs[2], MT_REG_PERIOD |-> mt[1],
   MT_REG_IN |-> mt[2], MT_REG_OUT |-> mt[3], MT_USE_CSA |-> mt[4],
   FF_JOIN_ADD |-> ffs[1], FF_MR_POST |-> ffs[2], FF_OUT |-> ffs[3]]

Trees == {<<0, FALSE, FALSE, TRUE>>, <<1, FALSE, TRUE, TRUE>>,
          <<2, TRUE, TRUE, FALSE>>, <<2, FALSE, TRUE, TRUE>>}

MCConfigs ==
  {Setting(m, acc, rm, mt, ffs) @@ [FIXED_Q |-> fixed, Q_VALUE |-> 29,
                                    ACC_MAX_COND_SUB |-> 2] :
     m \in {<<0, 0>>, <<0, 1>>, <<2, 0>>, <<2, 1>>}, acc \in {1, 3}, rm \in {0, 1},
     mt \in Trees, ffs \in {<<0, 0, 0>>, <<1, 1, 0>>, <<0, 0, 1>>},
     fixed \in BOOLEAN}

Pair(A, B, q) == [A |-> A, B |-> B, q |-> q, rho |-> LJ!rho(q), mu |-> LJ!mu(q)]

\* Neighbours have different products and, if it is an input, different moduli.
MCSamples(c) == {Pair(28, 27, 29), Pair(20, 21, IF c.FIXED_Q THEN 29 ELSE 23)}
=============================================================================
