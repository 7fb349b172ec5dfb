------------------------------- MODULE ModAcc -------------------------------
(***************************************************************************)
(* modacc.sv: the sum of NUM_INPUTS operands modulo q, one sum per clock.  *)
(*                                                                         *)
(* USE_ADDTREE = 1: a plain sum (addtree) and then a binary search for the *)
(* quotient: stage s of the chain subtracts q * 2^(NUM_CS-1-s) if it fits. *)
(* USE_ADDTREE = 0: a binary tree of modadd cells.                         *)
(*                                                                         *)
(* q is an input like the operands and may change on every clock, so that  *)
(* it has to move through the pipeline beside the sums it belongs to; with *)
(* FIXED_Q it is a parameter.  There is no valid, no ready and no reset:   *)
(* whoever uses modacc counts modacc_latency clocks.  The parameters are   *)
(* an arbitrary choice among Configs, made in Init: elaboration.           *)
(*                                                                         *)
(* The inside of addtree is not looked at here: it is a delay of AT_LAT    *)
(* clocks for the exact sum.                                               *)
(***************************************************************************)
EXTENDS ModAdd, ModAccPkg, Sequences, FiniteSetsExt, SequencesExt

CONSTANTS
  NUM_INPUTS,
  Configs,      \* the parameter settings to elaborate
  Q_VALUE,      \* the modulus when FIXED_Q = 1
  Samples,      \* the inputs a clock may bring: [a |-> operands, q |-> modulus]
  PowerUp       \* what a register of LOGQ bits holds before its first load

ASSUME SamplesAssumption ==
  \A x \in Samples : /\ x.a \in [1 .. NUM_INPUTS -> Operand]
                     /\ x.q \in Operand \ {0}

VARIABLES
  cfg,      \* the module's parameters
  tree,     \* addtree: the sums under way
  qat,      \* the delay line of q beside the addtree
  chain,    \* the chain's registers: [val, q] per stage
  out_reg,  \* the output register
  cell,     \* legacy tree: the registers of each modadd cell
  q_sr,     \* legacy tree: the delay line of q into each stage
  odd_sr,   \* legacy tree: the delay line of each unpaired element
  past      \* history: the inputs of the last LATENCY clocks, newest first

vars == <<cfg, tree, qat, chain, out_reg, cell, q_sr, odd_sr, past>>

-----------------------------------------------------------------------------
(* Latencies (modacc_pkg).                                                 *)

cond_sub_latency(c) ==
  LET num_cs       == num_cond_sub_stages(c.MAX_COND_SUB)
      last_has_reg == c.CS_REG_PERIOD > 0 /\ num_cs % c.CS_REG_PERIOD = 0
  IN  IF num_cs = 0 THEN 0
      ELSE (IF c.CS_REG_PERIOD > 0 THEN num_cs \div c.CS_REG_PERIOD ELSE 0)
           + Bit(c.CS_REG_OUT /\ ~last_has_reg)

modacc_latency(c) ==
  IF c.USE_ADDTREE THEN c.AT_LAT + cond_sub_latency(c)
                   ELSE num_stages(NUM_INPUTS) * modadd_latency(c)

LATENCY == modacc_latency(cfg)

-----------------------------------------------------------------------------
(* Addtree mode.                                                           *)

SUM_W  == LOGQ + sum_extra_bits(NUM_INPUTS)
NUM_CS == num_cond_sub_stages(cfg.MAX_COND_SUB)

q_eff(x) == IF cfg.FIXED_Q THEN Q_VALUE ELSE x.q

Total(x) == FoldFunction(+, 0, x.a)

\* Slot n of a delay line whose input is now: n = 0 is the input itself.
Tap(line, n, now) == IF n = 0 THEN now ELSE line[n]
Shift(line, now) == [i \in DOMAIN line |-> IF i = 1 THEN now ELSE line[i - 1]]

HAS_REG(s) == cfg.CS_REG_PERIOD > 0 /\ (s + 1) % cfg.CS_REG_PERIOD = 0

Stage == INSTANCE CondSubStage WITH pow2 <- [n \in 0 .. SUM_W + 1 |-> 2^n]

\* Stage s of the chain, for 2^(NUM_CS - 1 - s).
Subtract(s, v) == [v EXCEPT !.val = Stage!val_comb(v.val, v.q, NUM_CS - 1 - s)]

\* Wrong: q enters the chain without the delay of the addtree.
ChainInUndelayed(x) ==
  [val |-> Tap(tree, cfg.AT_LAT, Total(x) % 2^SUM_W), q |-> q_eff(x)]

\* The sum and the modulus that enter the chain.
ChainIn(x) ==
  [val |-> Tap(tree, cfg.AT_LAT, Total(x) % 2^SUM_W),
   q   |-> IF cfg.FIXED_Q THEN Q_VALUE ELSE Tap(qat, cfg.AT_LAT, q_eff(x))]

\* What each stage outputs, and computes for its register if it has one.
ChainOut(x) ==
  LET out[s \in -1 .. NUM_CS - 1] ==
        IF s = -1 THEN ChainIn(x)
        ELSE IF HAS_REG(s) THEN chain[s] ELSE Subtract(s, out[s - 1])
  IN  out

LAST_HAS_REG == cfg.CS_REG_PERIOD > 0 /\ NUM_CS % cfg.CS_REG_PERIOD = 0
NEED_OUT_REG == cfg.CS_REG_OUT /\ ~LAST_HAS_REG

cs_result(x) == ChainOut(x)[NUM_CS - 1].val % 2^LOGQ

AddtreeOut(x) == IF NUM_CS > 0 /\ NEED_OUT_REG THEN out_reg ELSE cs_result(x)

AddtreeEdge(x) ==
  /\ tree'  = Shift(tree, Total(x) % 2^SUM_W)
  /\ qat'   = Shift(qat, q_eff(x))
  /\ chain' = [s \in DOMAIN chain |-> Subtract(s, ChainOut(x)[s - 1])]
  /\ out_reg' = cs_result(x)
  /\ UNCHANGED <<cell, q_sr, odd_sr>>

-----------------------------------------------------------------------------
(* Legacy mode: a tree of modadd cells.                                    *)

NUM_STAGES == num_stages(NUM_INPUTS)
N_PAIRS(s) == stage_width(NUM_INPUTS, s) \div 2
HAS_ODD(s) == stage_width(NUM_INPUTS, s) % 2 = 1

\* The unpaired element of stage s, as late as the sums beside it.
OddOut(s, now) == Tap(odd_sr[s], modadd_latency(cfg), now)

\* q_stage: q as late as the operands of each stage.
QStage(x) ==
  LET q[s \in 0 .. NUM_STAGES - 1] ==
        IF s = 0 \/ cfg.FIXED_Q THEN q_eff(x)
        ELSE Tap(q_sr[s], modadd_latency(cfg), q[s - 1])
  IN  q

\* The inputs of stage s; those of stage NUM_STAGES are the result.
StageIn(x) ==
  LET in[s \in 0 .. NUM_STAGES] ==
        IF s = 0 THEN x.a
        ELSE [j \in 1 .. stage_width(NUM_INPUTS, s) |->
                IF j <= N_PAIRS(s - 1)
                  THEN modadd_out(cfg, cell[s - 1][j], in[s - 1][2 * j],
                                  in[s - 1][2 * j - 1], QStage(x)[s - 1])
                  ELSE OddOut(s - 1, in[s - 1][2 * j - 1])]
  IN  in

LegacyOut(x) == StageIn(x)[NUM_STAGES][1]

LegacyEdge(x) ==
  /\ cell' = [s \in DOMAIN cell |-> [j \in DOMAIN cell[s] |->
                modadd_next(cfg, cell[s][j], StageIn(x)[s][2 * j],
                            StageIn(x)[s][2 * j - 1], QStage(x)[s])]]
  /\ q_sr' = [s \in DOMAIN q_sr |-> Shift(q_sr[s], QStage(x)[s - 1])]
  /\ odd_sr' = [s \in DOMAIN odd_sr |->
                  Shift(odd_sr[s], StageIn(x)[s][stage_width(NUM_INPUTS, s)])]
  /\ UNCHANGED <<tree, qat, chain, out_reg>>

-----------------------------------------------------------------------------

\* Registers that were never loaded hold PowerUp.
Init ==
  /\ cfg \in Configs
  /\ tree = [i \in 1 .. (IF cfg.USE_ADDTREE THEN cfg.AT_LAT ELSE 0) |-> PowerUp]
  /\ qat  = [i \in 1 .. (IF cfg.USE_ADDTREE THEN cfg.AT_LAT ELSE 0) |-> PowerUp]
  /\ chain = [s \in {t \in 0 .. NUM_CS - 1 : cfg.USE_ADDTREE /\ HAS_REG(t)} |->
                [val |-> PowerUp, q |-> PowerUp]]
  /\ out_reg = PowerUp
  /\ LET stages == IF cfg.USE_ADDTREE THEN {} ELSE 0 .. NUM_STAGES - 1
         line   == [i \in 1 .. modadd_latency(cfg) |-> PowerUp]
     IN  /\ cell = [s \in stages |-> [j \in 1 .. N_PAIRS(s) |->
                      [a_op |-> PowerUp, b_op |-> PowerUp, q_op |-> PowerUp,
                       q_op_r |-> PowerUp, r |-> PowerUp, r_s |-> PowerUp,
                       r_mux |-> PowerUp, o_c |-> PowerUp]]]
         /\ q_sr   = [s \in stages \ {0} |-> line]
         /\ odd_sr = [s \in {t \in stages : HAS_ODD(t)} |-> line]
  /\ past = <<>>

\* The inputs the instantiating module may present: legacy cells need reduced
\* operands, the chain a quotient its parameter allows for.
Legal(x) ==
  LET q == q_eff(x) IN
  IF cfg.USE_ADDTREE THEN Total(x) \div q <= cfg.MAX_COND_SUB
                     ELSE \A i \in 1 .. NUM_INPUTS : x.a[i] < q

\* The output while x is at the inputs.
o_c(x) == IF cfg.USE_ADDTREE THEN AddtreeOut(x) ELSE LegacyOut(x)

Edge(x) ==
  /\ Legal(x)
  /\ IF cfg.USE_ADDTREE THEN AddtreeEdge(x) ELSE LegacyEdge(x)
  /\ past' = SubSeq(<<x>> \o past, 1, Min({LATENCY, Len(past) + 1}))
  /\ UNCHANGED cfg

Next == \E x \in Samples : Edge(x)

Spec == Init /\ [][Next]_vars

-----------------------------------------------------------------------------
(* Properties.                                                             *)

\* Every register holds a value of its width: a cell's registers LOGQ or
\* LOGQ + 1 bits, the chain's SUM_W bits (modacc.sv:239-244, modadd.sv:37-40).
TypeOK ==
  /\ cfg \in Configs
  /\ \A i \in DOMAIN tree : tree[i] \in 0 .. 2^SUM_W - 1 /\ qat[i] \in Operand
  /\ \A s \in DOMAIN chain : chain[s] \in [val : 0 .. 2^SUM_W - 1, q : Operand]
  /\ out_reg \in Operand
  /\ \A s \in DOMAIN cell : cell[s] \in [1 .. N_PAIRS(s) -> CellRegs]
  /\ \A s \in DOMAIN q_sr : \A i \in DOMAIN q_sr[s] : q_sr[s][i] \in Operand
  /\ \A s \in DOMAIN odd_sr : \A i \in DOMAIN odd_sr[s] : odd_sr[s][i] \in Operand
  /\ Len(past) <= LATENCY

\* The register that has the inputs of LATENCY clocks ago at its output, with
\* the sum reduced by the modulus that came in beside them and not by that of a
\* neighbour, in every configuration (modacc.sv:184-210, 357-403, 469-494).
SumOfItsOwnInputs ==
  \A x \in Samples : Legal(x) /\ Len(past) = LATENCY =>
    LET in == IF LATENCY = 0 THEN x ELSE past[LATENCY]
    IN  o_c(x) = Total(in) % q_eff(in)
=============================================================================
