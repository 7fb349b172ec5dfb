------------------------------- MODULE ModAdd -------------------------------
(***************************************************************************)
(* modadd.sv: the pipelined modular adder, one cell of modacc's legacy     *)
(* tree.  A cell adds two operands below q and subtracts q if the sum is   *)
(* not below it; the sign of LOGQ + 1 bits decides.  Four parameters place *)
(* its registers:                                                          *)
(*   cfg.REG_IN       buffers a, b and q                                   *)
(*   cfg.REG_ADD      buffers the sum and the difference                   *)
(*   cfg.CONC_ADDSUB  a + b and a + b - q side by side, not in sequence    *)
(*   cfg.REG_OUT      buffers the result                                   *)
(* A cell's state is the record of its registers, all of them present; the *)
(* ones a configuration does not build are not looked at.                  *)
(***************************************************************************)
EXTENDS Integers

CONSTANT LOGQ   \* bits of an operand

Operand == 0 .. 2^LOGQ - 1

\* What r and r_s hold: LOGQ + 1 bits.
Wrap(n) == n % 2^(LOGQ + 1)
Negative(n) == n >= 2^LOGQ

CellRegs == [a_op : Operand, b_op : Operand, q_op : Operand, q_op_r : Operand,
             r : 0 .. 2^(LOGQ + 1) - 1, r_s : 0 .. 2^(LOGQ + 1) - 1,
             r_mux : 0 .. 2^(LOGQ + 1) - 1, o_c : Operand]

Bit(b) == IF b THEN 1 ELSE 0

modadd_latency(cfg) ==
  Bit(cfg.REG_IN) + Bit(cfg.REG_ADD) + Bit(cfg.REG_ADD /\ ~cfg.CONC_ADDSUB)
    + Bit(cfg.REG_OUT)

\* The subtraction waits for the registered sum.
Sequential(cfg) == cfg.REG_ADD /\ ~cfg.CONC_ADDSUB

\* The wires of a cell, from its registers and its inputs.
CellWires(cfg, c, a, b, q) ==
  LET a_op   == IF cfg.REG_IN THEN c.a_op ELSE a
      b_op   == IF cfg.REG_IN THEN c.b_op ELSE b
      q_op   == IF cfg.REG_IN THEN c.q_op ELSE q
      r_add  == a_op + b_op
      r      == IF cfg.REG_ADD THEN c.r ELSE r_add
      q_op_r == IF Sequential(cfg) THEN c.q_op_r ELSE q_op
      r_s_comb == IF cfg.CONC_ADDSUB THEN Wrap(r_add - q_op) ELSE Wrap(r - q_op_r)
      r_s    == IF cfg.REG_ADD THEN c.r_s ELSE r_s_comb
      r_mux  == IF Sequential(cfg) THEN c.r_mux ELSE r
  IN  [q_op |-> q_op, r_add |-> r_add, r |-> r, r_s_comb |-> r_s_comb,
       select |-> (IF Negative(r_s) THEN r_mux ELSE r_s) % 2^LOGQ]

modadd_out(cfg, c, a, b, q) ==
  IF cfg.REG_OUT THEN c.o_c ELSE CellWires(cfg, c, a, b, q).select

\* One clock edge of a cell.
modadd_next(cfg, c, a, b, q) ==
  LET w == CellWires(cfg, c, a, b, q) IN
  [a_op |-> a, b_op |-> b, q_op |-> q, q_op_r |-> w.q_op, r |-> w.r_add,
   r_s |-> w.r_s_comb, r_mux |-> w.r, o_c |-> w.select]
=============================================================================
