------------------------------ MODULE MCIntMul ------------------------------
(* Settings and operands of the IntMul run.                                *)
EXTENDS IntMul

Bit == 0 .. 1

Plain(la, lb) ==
  [LOGA |-> la, LOGB |-> lb, FF_IN |-> 1, FF_MUL |-> 1, FF_OUT |-> 1, USE_CSA |-> 1,
   FF_CSA |-> 1, FF_DIAG |-> 0, FF_CSA_MID |-> 0, FF_ADD |-> 0, NON_STD |-> 0,
   USE_KARATSUBA |-> 0, K_PIPE_DSP |-> 1, K_PIPE_PRE |-> 1, K_PIPE_POST |-> 1,
   K_PIPE_MID |-> 1]

\* mac_std: every flag, but for FF_DIAG without the carry-save path.
Std ==
  {c \in {[Plain(4, 4) EXCEPT !.FF_IN = f[1], !.FF_MUL = f[2], !.FF_OUT = f[3],
             !.USE_CSA = f[4], !.FF_CSA = f[5], !.FF_DIAG = f[6], !.FF_CSA_MID = f[7],
             !.FF_ADD = f[8]] : f \in [1 .. 8 -> Bit]} :
     c.USE_CSA = 1 \/ (c.FF_DIAG + c.FF_CSA_MID + c.FF_CSA + c.FF_ADD = 0)}

\* One tile; a single row; more on either side; seven diagonals.
StdShapes ==
  {[Plain(w[1], w[2]) EXCEPT !.FF_CSA_MID = IF n_diagonals(w) >= 3 THEN m ELSE 0,
      !.FF_DIAG = m, !.FF_ADD = IF w[1] + w[2] >= 9 THEN m ELSE 0] :
     w \in {<<3, 2>>, <<2, 3>>, <<6, 2>>, <<5, 7>>, <<8, 6>>, <<12, 8>>}, m \in Bit}

NonStd ==
  {[Plain(w[1], w[2]) EXCEPT !.NON_STD = 1, !.FF_IN = f[1], !.FF_MUL = f[2],
      !.FF_OUT = f[3], !.USE_CSA = f[4], !.FF_CSA = f[5]] :
     w \in {<<4, 4>>, <<4, 5>>, <<5, 4>>, <<6, 6>>, <<6, 7>>, <<7, 7>>},
     f \in [1 .. 5 -> Bit]}

\* Equal depths, a deeper cross term, and two levels of it; unequal operands.
Karatsuba ==
  {[Plain(w[1], w[2]) EXCEPT !.USE_KARATSUBA = 1, !.K_PIPE_DSP = d, !.K_PIPE_PRE = e,
      !.K_PIPE_POST = o, !.K_PIPE_MID = m] :
     w \in {<<4, 4>>, <<5, 4>>, <<5, 5>>, <<6, 6>>, <<6, 5>>, <<5, 7>>, <<7, 7>>, <<8, 8>>},
     d \in 1 .. 4, e \in 0 .. 2, o \in Bit, m \in Bit}

MCConfigs == Std \cup StdShapes \cup NonStd \cup
  {c \in Karatsuba : /\ c.LOGA >= 7 => c.K_PIPE_DSP = 2 /\ c.K_PIPE_PRE = 1
                     /\ c.K_PIPE_DSP \in {2, 4} => c.K_PIPE_PRE = 1
                     /\ (c.LOGA = 6 \/ c.LOGB = 4) /\ c.LOGA # c.LOGB => c.K_PIPE_DSP = 2}

\* Neighbouring operands: all bits, single bits, carries in the middle.
Bench == << <<255, 255>>, <<0, 170>>, <<129, 255>>, <<85, 119>>, <<255, 1>>, <<54, 219>>,
            <<127, 128>>, <<1, 0>>, <<204, 51>> >>

Pair(c, n) ==
  LET fit(v, width) == IF width > 8 THEN v * 16 + 15 ELSE v % 2^width
  IN  <<fit(Bench[n][1], c.LOGA), fit(Bench[n][2], c.LOGB)>>

\* One setting of each multiplier gets all pairs of operands there are, the others
\* the list above.
Sweep == {Plain(4, 4), [Plain(4, 5) EXCEPT !.NON_STD = 1],
          [Plain(5, 4) EXCEPT !.USE_KARATSUBA = 1, !.K_PIPE_DSP = 2]}

\* Runs through 0 .. 2^(LOGA + LOGB) - 1.
After(c, x) ==
  LET n == (5 * (x[1] * 2^c.LOGB + x[2]) + 1) % 2^(c.LOGA + c.LOGB)
  IN  <<n \div 2^c.LOGB, n % 2^c.LOGB>>

\* All pairs in turn, from four places on.  The list repeats, from any place on, or
\* for the trees of multipliers from its first.
MCSamples(c, came) ==
  IF c \in Sweep
  THEN IF came = <<>> THEN {<<a, 0>> : a \in {0, 5, 10, 15}} ELSE {After(c, came[1])}
  ELSE {Pair(c, n) : n \in {m \in DOMAIN Bench :
          \/ came = <<>> /\ (m = 1 \/ c.USE_KARATSUBA = 0)
          \/ came # <<>> /\ Pair(c, IF m = 1 THEN Len(Bench) ELSE m - 1) = came[1]}}
=============================================================================
