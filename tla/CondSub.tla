------------------------------ MODULE CondSub -------------------------------
(***************************************************************************)
(* The conditional subtraction chain of modacc.sv with a register after    *)
(* every stage (CS_REG_PERIOD = 1, the default): stage s subtracts         *)
(* q * 2^(NUM_CS-1-s) if it fits, and hands its value and its q on.  A new *)
(* sum with a new modulus enters on every clock, so NUM_CS of them are     *)
(* under way at a time.                                                    *)
(*                                                                         *)
(* ModAcc has the other placements of the registers, on small widths; this *)
(* module is for the proof that the chain reduces for every width.         *)
(***************************************************************************)
EXTENDS CondSubStage

CONSTANTS
  LOGQ,          \* bits of the modulus and of the result
  MAX_COND_SUB,  \* the largest quotient a sum may have
  NUM_CS,        \* stages: num_cond_sub_stages(MAX_COND_SUB)
  PowerUp        \* what the registers hold before their first load

Operand == 0 .. pow2[LOGQ] - 1
Value   == 0 .. pow2[SUM_W] - 1
Stages  == 0 .. NUM_CS - 1

ASSUME Pow2Assumption ==
  /\ SUM_W \in Nat
  /\ pow2 \in [0 .. SUM_W + 1 -> Nat]
  /\ pow2[0] = 1
  /\ \A n \in 0 .. SUM_W : pow2[n + 1] = 2 * pow2[n]

ASSUME WidthAssumption ==
  /\ LOGQ \in 0 .. SUM_W
  /\ MAX_COND_SUB \in Nat \ {0}
  /\ PowerUp \in Value
  /\ PowerUp \in Operand

\* num_cond_sub_stages is clog2(MAX_COND_SUB + 1).
ASSUME StagesAssumption ==
  /\ NUM_CS \in 1 .. SUM_W + 1
  /\ MAX_COND_SUB + 1 <= pow2[NUM_CS]

\* q << SHIFT leaves the borrow bit alone.  With MAX_COND_SUB at its default of
\* NUM_INPUTS - 1 this holds: NUM_CS is at most the sum's extra bits.
ASSUME BorrowAssumption == pow2[LOGQ] * pow2[NUM_CS - 1] <= pow2[SUM_W]

VARIABLES
  val_r,   \* the value register of each stage
  q_r,     \* the modulus register of each stage
  in_r,    \* history: the sum and the modulus each stage's value came from
  loaded   \* history: the stages whose value came from an input

vars == <<val_r, q_r, in_r, loaded>>

Input == [sum : Value, q : Operand]

\* What the instantiating module owes the chain.
InRange(x) == x.sum < (MAX_COND_SUB + 1) * x.q

SHIFT(s) == NUM_CS - 1 - s

\* Wrong: a stage takes the modulus that is only now coming in.
q_in_undelayed(s, x) == x.q

val_in(s, x) == IF s = 0 THEN x.sum ELSE val_r[s - 1]
q_in(s, x)   == IF s = 0 THEN x.q   ELSE q_r[s - 1]

Init ==
  /\ val_r  = [s \in Stages |-> PowerUp]
  /\ q_r    = [s \in Stages |-> PowerUp]
  /\ in_r   = [s \in Stages |-> [sum |-> PowerUp, q |-> PowerUp]]
  /\ loaded = 0

Edge(x) ==
  /\ InRange(x)
  /\ val_r'  = [s \in Stages |-> val_comb(val_in(s, x), q_in(s, x), SHIFT(s))]
  /\ q_r'    = [s \in Stages |-> q_in(s, x)]
  /\ in_r'   = [s \in Stages |-> IF s = 0 THEN x ELSE in_r[s - 1]]
  /\ loaded' = IF loaded < NUM_CS THEN loaded + 1 ELSE loaded

Next == \E x \in Input : Edge(x)

Spec == Init /\ [][Next]_vars

-----------------------------------------------------------------------------
(* Properties.                                                             *)

TypeOK ==
  /\ val_r \in [Stages -> Value]
  /\ q_r \in [Stages -> Operand]
  /\ in_r \in [Stages -> Input]
  /\ loaded \in 0 .. NUM_CS

\* The chain ends with the remainder of the sum that went in NUM_CS clocks ago
\* by the modulus that went in beside it, whatever follows behind
\* (modacc.sv:231-290).
Reduced ==
  loaded = NUM_CS =>
    val_r[NUM_CS - 1] = in_r[NUM_CS - 1].sum % in_r[NUM_CS - 1].q

\* After stage s what is left is below 2^SHIFT(s) moduli, and what is gone is a
\* multiple of the modulus, the quotient's leading bits (modacc.sv:264-269).
StageInv ==
  \A s \in Stages : s < loaded =>
    /\ q_r[s] = in_r[s].q
    /\ val_r[s] < q_r[s] * pow2[SHIFT(s)]
    /\ q_r[s] * pow2[SHIFT(s)] <= pow2[SUM_W]
    /\ \E k \in 0 .. pow2[NUM_CS] - pow2[SHIFT(s)] :
         in_r[s].sum = k * q_r[s] + val_r[s]
=============================================================================
