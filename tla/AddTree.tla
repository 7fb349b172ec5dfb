------------------------------ MODULE AddTree -------------------------------
(***************************************************************************)
(* addtree.sv: the sum of NUM_INPUTS operands modulo 2^WIDTH, one sum per  *)
(* clock.                                                                  *)
(*                                                                         *)
(* In carry-save mode a stage turns every three operands into two of the   *)
(* same sum (csa_2) and passes what is left over; the last two are added   *)
(* at the end, by an adder that FF_ADD cuts in two.  In binary mode a      *)
(* stage adds pairs.  A stage whose number REG_PERIOD divides registers    *)
(* its whole bus.  As everywhere in this design nothing marks a result:    *)
(* the user counts addtree_latency clocks.                                 *)
(***************************************************************************)
EXTENDS CsaTree, FiniteSets

CONSTANTS
  WIDTH,      \* bits of an operand
  Configs,    \* the parameter settings to elaborate
  Samples     \* what a clock may bring: a sequence of operands, cut to NUM_INPUTS

CSA_W     == WIDTH + 1
ADD_SPLIT == (((CSA_W \div 2) + 7) \div 8) * 8

ASSUME WidthAssumption ==
  /\ WIDTH \in Nat /\ ADD_SPLIT \in 1 .. CSA_W - 1
  /\ \A x \in Samples : \A i \in DOMAIN x : x[i] \in 0 .. 2^WIDTH - 1

VARIABLES
  cfg,         \* the module's parameters
  in_reg,      \* the input register
  stage_reg,   \* the buses of the stages that have a register
  add_q,       \* the register inside the final addition
  final_reg,   \* the register behind it
  out_reg,     \* the output register
  past         \* history: the inputs of the last LATENCY clocks, newest first

vars == <<cfg, in_reg, stage_reg, add_q, final_reg, out_reg, past>>

-----------------------------------------------------------------------------

CSA        == UsesCsa(cfg.NUM_INPUTS, cfg.USE_CSA)
NUM_STAGES == total_stages(cfg.NUM_INPUTS, cfg.USE_CSA)

LATENCY == addtree_latency(cfg.NUM_INPUTS, cfg.REG_PERIOD, cfg.REG_IN,
                           cfg.REG_OUT, cfg.USE_CSA, cfg.FF_ADD)

HAS_REG(s) == cfg.REG_PERIOD > 0 /\ (s + 1) % cfg.REG_PERIOD = 0

\* The stages that reduce a bus; in carry-save mode the final addition is a
\* stage after them.
BusStages == 0 .. NUM_STAGES - (IF CSA THEN 2 ELSE 1)

NEED_OUT_REG == cfg.REG_OUT /\ ~HAS_REG(NUM_STAGES - 1)

\* One stage of adders; an odd operand comes last.
AddPairs(bus) ==
  LET n_pairs == Len(bus) \div 2
  IN  [j \in 1 .. Len(bus) - n_pairs |->
         IF j > n_pairs THEN Last(bus) ELSE (bus[2*j] + bus[2*j - 1]) % 2^WIDTH]

\* The two steps of the cut addition.
LowerHalf(a, b) ==
  LET S  == 2^ADD_SPLIT
      lo == (a % S) + (b % S)
  IN  [lo |-> lo % S, carry |-> lo \div S, upper_a |-> a \div S, upper_b |-> b \div S]

UpperHalf(h) ==
  ((h.upper_a + h.upper_b + h.carry) % 2^(CSA_W - ADD_SPLIT)) * 2^ADD_SPLIT + h.lo

-----------------------------------------------------------------------------

i_a(x) == SubSeq(x, 1, cfg.NUM_INPUTS)

in_data(x) == IF cfg.REG_IN THEN in_reg ELSE i_a(x)

\* What the stages compute, from the register of the stage before if it has one.
comb(x) ==
  LET c[s \in BusStages] ==
        LET bus == IF s = 0 THEN in_data(x)
                   ELSE IF HAS_REG(s - 1) THEN stage_reg[s - 1] ELSE c[s - 1]
        IN  IF CSA THEN Compress(CSA_W, bus) ELSE AddPairs(bus)
  IN  c

\* The bus behind the last stage.
last_data(x) ==
  LET s == Cardinality(BusStages) - 1
  IN  IF HAS_REG(s) THEN stage_reg[s] ELSE comb(x)[s]

final_comb(x) ==
  (IF cfg.FF_ADD THEN UpperHalf(add_q) ELSE last_data(x)[1] + last_data(x)[2])
    % 2^WIDTH

\* What the output register would take.
result(x) ==
  IF ~CSA THEN last_data(x)[1]
  ELSE IF HAS_REG(NUM_STAGES - 1) THEN final_reg ELSE final_comb(x)

\* The output while x is at the inputs.
o_c(x) ==
  IF NUM_STAGES = 0 THEN x[1] ELSE IF NEED_OUT_REG THEN out_reg ELSE result(x)

\* Registers come up cleared.
Init ==
  /\ cfg \in Configs
  /\ in_reg = [i \in 1 .. cfg.NUM_INPUTS |-> 0]
  /\ stage_reg = [s \in {t \in BusStages : HAS_REG(t)} |->
       [j \in 1 .. (IF CSA THEN csa_stage_width(cfg.NUM_INPUTS, s + 1)
                           ELSE stage_width(cfg.NUM_INPUTS, s + 1)) |-> 0]]
  /\ add_q = [lo |-> 0, carry |-> 0, upper_a |-> 0, upper_b |-> 0]
  /\ final_reg = 0
  /\ out_reg = 0
  /\ past = <<>>

\* A rising edge with x at the inputs.
Edge(x) ==
  /\ in_reg' = IF cfg.REG_IN THEN i_a(x) ELSE in_reg
  /\ stage_reg' = [s \in DOMAIN stage_reg |-> comb(x)[s]]
  /\ add_q' = IF CSA /\ cfg.FF_ADD THEN LowerHalf(last_data(x)[1], last_data(x)[2])
              ELSE add_q
  /\ final_reg' = IF CSA /\ HAS_REG(NUM_STAGES - 1) THEN final_comb(x) ELSE final_reg
  /\ out_reg' = IF NUM_STAGES > 0 /\ NEED_OUT_REG THEN result(x) ELSE out_reg
  /\ past' = SubSeq(<<x>> \o past, 1, Min({LATENCY, Len(past) + 1}))
  /\ UNCHANGED cfg

Next == \E x \in Samples : Edge(x)

Spec == Init /\ [][Next]_vars

-----------------------------------------------------------------------------
(* Properties.                                                             *)

SumOf(bus) == FoldSeq(+, 0, bus) % 2^WIDTH

\* Every register holds a value of its width; the operands of a carry-save bus
\* have one bit more than the inputs (addtree.sv:138, 277-280).
TypeOK ==
  /\ cfg \in Configs
  /\ in_reg \in [1 .. cfg.NUM_INPUTS -> 0 .. 2^WIDTH - 1]
  /\ \A s \in DOMAIN stage_reg : \A j \in DOMAIN stage_reg[s] :
       stage_reg[s][j] \in 0 .. 2^(IF CSA THEN CSA_W ELSE WIDTH) - 1
  /\ add_q.lo < 2^ADD_SPLIT /\ add_q.carry \in 0 .. 1
  /\ add_q.upper_a < 2^(CSA_W - ADD_SPLIT) /\ add_q.upper_b < 2^(CSA_W - ADD_SPLIT)
  /\ final_reg \in 0 .. 2^WIDTH - 1 /\ out_reg \in 0 .. 2^WIDTH - 1
  /\ Len(past) <= LATENCY

\* The output is the sum of all operands of addtree_latency clocks ago and of no
\* other clock, wherever the registers are (addtree.sv:103-107, 313-328, 419-439).
SumOfItsOwnInputs ==
  Len(past) = LATENCY =>
    \A x \in Samples :
      o_c(x) = SumOf(i_a(IF LATENCY = 0 THEN x ELSE past[LATENCY]))

\* Every registered bus still has the sum of the operands that entered together:
\* the compressors and the passed operands lose nothing but multiples of 2^WIDTH,
\* and keep together (addtree.sv:128-138, 180-244, 392-416).
BusesKeepTheSum ==
  \A s \in DOMAIN stage_reg :
    LET age == Flag(cfg.REG_IN) + Cardinality({t \in DOMAIN stage_reg : t <= s})
    IN  Len(past) >= age => SumOf(stage_reg[s]) = SumOf(i_a(past[age]))
=============================================================================
