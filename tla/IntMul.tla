------------------------------- MODULE IntMul -------------------------------
(***************************************************************************)
(* intmul_wrapper.sv: C = A * B, one product per clock.                    *)
(*                                                                         *)
(* The wrapper builds one of four multipliers.  Three of them cut the      *)
(* operands into pieces that fit a DSP, and add up the products of the     *)
(* pieces: mac_std.sv by a grid of tiles whose products it gathers in      *)
(* diagonals, the two non-standard ones by a fixed table.  The fourth,     *)
(* karatsuba_mul.sv, is a tree: it splits its operands, has three          *)
(* multipliers of half the width work on the halves, and puts their        *)
(* products together; below a threshold its leaves are mac_std.            *)
(*                                                                         *)
(* The three products need not take the same time, so the early ones are   *)
(* held in shift registers; nothing else tells which products belong       *)
(* together.  As everywhere in this design the user counts clocks.         *)
(***************************************************************************)
EXTENDS IntMulPkg, FiniteSets

CONSTANTS
  Configs,       \* the parameter settings to elaborate
  Samples(_, _)  \* the operand pairs that may come, by the setting and those that came

VARIABLES
  cfg,    \* the module's parameters
  inst,   \* the multipliers the generate blocks build: their place and widths
  line,   \* their registers
  past    \* history: the operands of the last LAT clocks, newest first

vars == <<cfg, inst, line, past>>

-----------------------------------------------------------------------------
(* The hierarchy.  A place is the sequence of products that leads to it.   *)

TOPO == select_topo(cfg)
LAT  == latency(cfg)

\* BBxAB wants the narrower operand first; the others take them as they come.
Swapped(p) == select_topo(p) = "BBxAB" /\ p.LOGA > p.LOGB
Oriented(x) == IF Swapped(cfg) THEN <<x[2], x[1]>> ELSE x

Splits(p, w) == p.USE_KARATSUBA = 1 /\ ~is_base_case(w)

\* Every place with its widths, split after split.
Hierarchy(p) ==
  LET Top == IF Swapped(p) THEN <<p.LOGB, p.LOGA>> ELSE <<p.LOGA, p.LOGB>>
      Below(s) == UNION {{<<Append(m[1], z), SubWidths(m[2])[z]>> : z \in Products} :
                           m \in {n \in s : Splits(p, n[2])}}
      level[n \in 0 .. p.LOGA + p.LOGB] ==
        IF n = 0 THEN {<< <<>>, Top >>} ELSE Below(level[n - 1])
      all == UNION {level[n] : n \in DOMAIN level}
  IN  [i \in {m[1] : m \in all} |-> (CHOOSE m \in all : m[1] = i)[2]]

Inner(i) == Splits(cfg, inst[i])
LOGC(w)  == w[1] + w[2]

\* The parameters of a multiplier that does not split.
Leaf(p) == IF p.USE_KARATSUBA = 1 THEN BaseCase(p) ELSE StdCase(p)

-----------------------------------------------------------------------------
(* Multipliers that do not split: cut, multiply, gather, add.              *)

Slice(v, at, width) == (v \div 2^at) % 2^width

\* A piece of A meets a piece of B; the product is cut to the width of its wire.
Piece(a, wa, b, wb, w) == [a |-> a, wa |-> wa, b |-> b, wb |-> wb, w |-> w]

Grid(w) ==
  [n \in 0 .. n_tiles_a(w) * n_tiles_b(w) - 1 |->
     Piece(dsp_a_width(w) * (n \div n_tiles_b(w)), dsp_a_width(w),
           dsp_b_width(w) * (n % n_tiles_b(w)), dsp_b_width(w), DSP_M_U)]

BBxAB(w) ==
  LET AU == DSP_A_U
      BU == DSP_B_U
  IN  <<Piece(0, BU, 0, AU, DSP_M_U), Piece(BU, w[1] - BU, 0, AU, DSP_M_U),
        Piece(0, AU, AU, w[2] - AU, DSP_M_U), Piece(AU, w[1] - AU, AU, w[2] - AU, AU)>>

BBAxBBA(w) ==
  LET AU == DSP_A_U
      BU == DSP_B_U
      MU == DSP_M_U
      OV == 2 * BU - AU
      P(a, wa, b, wb) == Piece(a, wa, b, wb, MU)
  IN  <<P(0, AU, 0, BU), P(0, AU, BU, BU), P(0, BU, 2*BU, w[2] - 2*BU),
        P(BU, BU, 2*BU, w[2] - 2*BU), P(AU, BU, 0, AU), P(MU, w[1] - MU, 0, AU),
        P(2*BU, w[1] - 2*BU, AU, BU), P(2*BU, w[1] - 2*BU, MU, w[2] - MU),
        P(AU, OV, AU, OV)>>

Pieces(w) == CASE TOPO = "BBxAB"   -> BBxAB(w)
               [] TOPO = "BBAxBBA" -> BBAxBBA(w)
               [] OTHER            -> Grid(w)

\* The products of the pieces t.
Multiply(t, x) ==
  [n \in DOMAIN t |->
     (Slice(x[1], t[n].a, t[n].wa) * Slice(x[2], t[n].b, t[n].wb)) % 2^t[n].w]

\* The products at their places.
Shifted(t, width, pp) ==
  [n \in DOMAIN pp |-> (pp[n] * 2^(t[n].a + t[n].b)) % 2^width]

\* Wrong: tiles that overlap share a diagonal.
DiagonalSum(w, i, j) == (i + j) % n_diagonals(w)

Diagonal(w, i, j) == (i - j + n_diagonals(w)) % n_diagonals(w)

\* The bits that are set in any of the values.
BitwiseOr(S, width) ==
  FoldFunction(+, 0, [i \in 0 .. width - 1 |->
                        IF \E v \in S : BitOf(v, i) = 1 THEN 2^i ELSE 0])

\* What is added up: each product by itself, or for mac_std the diagonals, into
\* which the products of a diagonal are merged.
Gather(w, pp) ==
  LET D     == Shifted(Pieces(w), LOGC(w), pp)
      cols  == n_tiles_b(w)
      On(d) == {n \in DOMAIN pp : Diagonal(w, n \div cols, n % cols) = d}
  IN  IF TOPO \in {"BBxAB", "BBAxBBA"} THEN D
      ELSE [d \in 1 .. n_diagonals(w) |-> BitwiseOr({D[n] : n \in On(d - 1)}, LOGC(w))]

\* FF_CSA_MID: three groups of diagonals, each with a tree of its own.
SplitTree(p) == p.USE_CSA = 1 /\ p.FF_CSA_MID = 1 /\ TOPO \in {"STD", "KARATSUBA"}

GroupWidth(w) ==
  LET base == n_diagonals(w) \div 3
      last == n_diagonals(w) - 2 * base
  IN  csa_tree_output_width(LOGC(w), Max({base, last, 2}))

Groups(w, bins) ==
  LET base == n_diagonals(w) \div 3
      Tree(from, to) == csa_tree(SubSeq(bins, from, to), LOGC(w),
                                 csa_tree_output_width(LOGC(w), to - from + 1))
  IN  Tree(1, base) \o Tree(base + 1, 2 * base) \o Tree(2 * base + 1, n_diagonals(w))

NumBins(w) == IF TOPO \in {"BBxAB", "BBAxBBA"} THEN Len(Pieces(w)) ELSE n_diagonals(w)

\* The width of the carry-save pair, and where FF_ADD cuts its addition.
LOGCO(p, w) ==
  IF SplitTree(p) THEN csa_tree_output_width(GroupWidth(w), 6)
                  ELSE csa_tree_output_width(LOGC(w), NumBins(w))
ADD_SPLIT(width) == (((width \div 2) + 7) \div 8) * 8

CarrySave(p, w, bins) ==
  IF SplitTree(p) THEN csa_tree(bins, GroupWidth(w), LOGCO(p, w))
                  ELSE csa_tree(bins, LOGC(w), LOGCO(p, w))

SplitAdd(p) == p.USE_CSA = 1 /\ p.FF_ADD = 1 /\ TOPO \in {"STD", "KARATSUBA"}

LowerHalf(width, pair) ==
  LET S  == 2^ADD_SPLIT(width)
      lo == (pair[1] % S) + (pair[2] % S)
  IN  [lo |-> lo % S, carry |-> lo \div S, a |-> pair[1] \div S, b |-> pair[2] \div S]

UpperHalf(width, h) ==
  LET S  == ADD_SPLIT(width)
      hi == (h.a + h.b + h.carry) % 2^(width - S)
  IN  hi * 2^S + h.lo

\* The stages in order, each with its registers behind it.  PIPE_DSP puts the
\* first two inside the DSP; mac_std registers the diagonals whenever FF_DIAG says so.
LeafLengths(p) ==
  [tile |-> IF p.PIPE_DSP = 0 THEN p.FF_IN ELSE IF p.PIPE_DSP >= 2 THEN 1 ELSE 0,
   mul  |-> IF p.PIPE_DSP = 0 THEN p.FF_MUL ELSE Max({1, p.PIPE_DSP - 1}),
   diag |-> IF TOPO \in {"STD", "KARATSUBA"} THEN p.FF_DIAG ELSE 0,
   mid  |-> IF SplitTree(p) THEN 1 ELSE 0,
   csa  |-> p.USE_CSA * p.FF_CSA,
   add  |-> IF SplitAdd(p) THEN 1 ELSE 0,
   out  |-> p.FF_OUT]

Out(s, now)  == IF s = <<>> THEN now ELSE Last(s)
Push(s, now) == IF s = <<>> THEN s ELSE <<now>> \o Front(s)

Stages == <<"tile", "mul", "diag", "mid", "csa", "add", "out">>

\* What a leaf makes of the output v of one stage on the way into the next.
Enter(p, w, stage, v) ==
  CASE stage = "mul"                     -> Multiply(Pieces(w), v)
    [] stage = "diag"                    -> Gather(w, v)
    [] stage = "mid" /\ SplitTree(p)     -> Groups(w, v)
    [] stage = "csa" /\ p.USE_CSA = 1    -> CarrySave(p, w, v)
    [] stage = "add" /\ SplitAdd(p)      -> LowerHalf(LOGCO(p, w), v)
    [] stage = "out" /\ SplitAdd(p)      -> UpperHalf(LOGCO(p, w), v) % 2^LOGC(w)
    [] stage = "out" /\ ~SplitAdd(p)     -> FoldSeq(+, 0, v) % 2^LOGC(w)
    [] OTHER                             -> v

\* What enters each stage's registers while the operands x come in, and the product.
LeafWires(w, s, x) ==
  LET Wired(v, stage, now) == (stage :> now) @@ [v EXCEPT !.C = Out(s[stage], now)]
      Step(v, stage) == Wired(v, stage, Enter(Leaf(cfg), w, stage, v.C))
  IN  FoldLeft(Step, [C |-> x], Stages)

-----------------------------------------------------------------------------
(* Multipliers that split: halves, three products, one sum.                *)

\* The operands of the three products.
PreAdd(w, x) ==
  LET HALF == karatsuba_split(w)
      lo(v) == v % 2^HALF
      hi(v) == v \div 2^HALF
  IN  [z0 |-> <<lo(x[1]), lo(x[2])>>, z2 |-> <<hi(x[1]), hi(x[2])>>,
       zx |-> <<lo(x[1]) + hi(x[1]), lo(x[2]) + hi(x[2])>>]

SubLatencies(w) == [z \in Products |-> karatsuba_latency(SubWidths(w)[z], cfg)]

LAT_SUB_MAX(w) == LET l == SubLatencies(w) IN Max({l[z] : z \in Products})

\* A product waits for the slowest of the three.
InnerLengths(w) ==
  LET l == SubLatencies(w)
      slowest == Max({l[z] : z \in Products})
  IN  [pre |-> cfg.K_PIPE_PRE, z0 |-> slowest - l.z0, z2 |-> slowest - l.z2,
       zx |-> slowest - l.zx, mid |-> cfg.K_PIPE_MID, post |-> cfg.K_PIPE_POST]

\* z0 + (zx - z0 - z2) 2^HALF + z2 2^(2 HALF), the differences as complements.
Recompose(w, z) ==
  LET HALF == karatsuba_split(w)
      Term(v, shift) == (v * 2^shift) % 2^LOGC(w)
      Complement(v) == 2^LOGC(w) - 1 - v
  IN  csa_tree(<<Term(z.z0, 0), Term(z.zx, HALF), Term(z.z2, 2 * HALF),
                 Complement(Term(z.z0, HALF)), Complement(Term(z.z2, HALF))>>,
               LOGC(w), csa_tree_output_width(LOGC(w), 5))

\* Wrong: the result keeps the carry of the complements.
result_cpa_wide(w, pair) == (pair[1] + pair[2] + 2) % 2^(LOGC(w) + 1)

\* The two complements are 2 short of a multiple of 2^LOGC.
result_cpa(w, pair) == (pair[1] + pair[2] + 2) % 2^LOGC(w)

-----------------------------------------------------------------------------

\* The operands each multiplier would get from x, were there no registers.
Operands(x) ==
  LET ops[i \in DOMAIN inst] ==
        IF i = <<>> THEN Oriented(x) ELSE PreAdd(inst[Front(i)], ops[Front(i)])[Last(i)]
  IN  ops

\* What enters every register, and what leaves every multiplier, while x comes in.
Wires(x) ==
  LET pre[i \in DOMAIN inst] ==
        LET ops == IF i = <<>> THEN Oriented(x)
                   ELSE Out(line[Front(i)].pre, pre[Front(i)].split)[Last(i)]
        IN  [x |-> ops, split |-> IF Inner(i) THEN PreAdd(inst[i], ops) ELSE <<>>]
      all[i \in DOMAIN inst] ==
        IF ~Inner(i) THEN LeafWires(inst[i], line[i], pre[i].x)
        ELSE LET raw == [z \in Products |-> all[Append(i, z)].C]
                 bal == [z \in Products |-> Out(line[i][z], raw[z])]
                 mid == Recompose(inst[i], bal)
                 sum == result_cpa(inst[i], Out(line[i].mid, mid))
             IN  [pre |-> pre[i].split, z0 |-> raw.z0, z2 |-> raw.z2, zx |-> raw.zx,
                  bal |-> bal, mid |-> mid, post |-> sum, C |-> Out(line[i].post, sum)]
  IN  all

\* The output while x is at the inputs.
C(x) == Wires(x)[<<>>].C

Lengths(i) == IF Inner(i) THEN InnerLengths(inst[i]) ELSE LeafLengths(Leaf(cfg))

\* Registers come up cleared.
Zero(i) ==
  IF Inner(i)
  THEN [pre |-> [z \in Products |-> <<0, 0>>], z0 |-> 0, z2 |-> 0, zx |-> 0,
        mid |-> <<0, 0>>, post |-> 0]
  ELSE [tile |-> <<0, 0>>, mul |-> [n \in DOMAIN Pieces(inst[i]) |-> 0],
        diag |-> [n \in 1 .. NumBins(inst[i]) |-> 0], mid |-> [n \in 1 .. 6 |-> 0],
        csa |-> <<0, 0>>, add |-> [lo |-> 0, carry |-> 0, a |-> 0, b |-> 0], out |-> 0]

Init ==
  /\ cfg \in Configs
  /\ inst = Hierarchy(cfg)
  /\ line = [i \in DOMAIN inst |->
       LET len == Lengths(i)
       IN  [s \in DOMAIN len |-> [n \in 1 .. len[s] |-> Zero(i)[s]]]]
  /\ past = <<>>

\* A rising edge with x at the inputs.
Edge(x) ==
  /\ line' = LET w == Wires(x) IN
       [i \in DOMAIN inst |-> [s \in DOMAIN line[i] |-> Push(line[i][s], w[i][s])]]
  /\ past' = SubSeq(<<x>> \o past, 1, Min({LAT, Len(past) + 1}))
  /\ UNCHANGED <<cfg, inst>>

Next == \E x \in Samples(cfg, past) : Edge(x)

Spec == Init /\ [][Next]_vars

-----------------------------------------------------------------------------
(* Properties.                                                             *)

\* Every register line has its length and every product the width of its wire
\* (mac_std.sv:200-205, karatsuba_mul.sv:290-292, 439-473).
TypeOK ==
  /\ Len(past) <= LAT
  /\ \A i \in DOMAIN inst :
       /\ [s \in DOMAIN line[i] |-> Len(line[i][s])] = Lengths(i)
       /\ \A s \in {"out", "post"} \cap DOMAIN line[i] :
            \A n \in DOMAIN line[i][s] : line[i][s][n] \in 0 .. 2^LOGC(inst[i]) - 1
       /\ \A z \in Products \cap DOMAIN line[i] :
            \A n \in DOMAIN line[i][z] : line[i][z][n] < 2^LOGC(inst[Append(i, z)])

\* The output is the product of the operands of LAT clocks ago and of no other
\* clock, whichever multiplier is built and wherever its registers are
\* (intmul_wrapper.sv:86-95, test_intmul_wrapper.py:6-9).
ProductOfItsOwnInputs ==
  Len(past) = LAT =>
    \A x \in Samples(cfg, past) :
      LET own == IF LAT = 0 THEN x ELSE past[LAT] IN C(x) = own[1] * own[2]

\* Wherever three products are put together they are the products of the halves
\* of one pair of operands, though they took different times
\* (karatsuba_mul.sv:336-352; karatsuba_mul_pkg.sv:130-140).
SubproductsMeet ==
  \A x \in Samples(cfg, past) :
    LET w == Wires(x) IN
    \A i \in {j \in DOMAIN inst : Inner(j)} :
      LET age == cfg.K_PIPE_PRE * (Len(i) + 1) + LAT_SUB_MAX(inst[i])
          ops == Operands(past[age])
      IN  age \in 1 .. Len(past) =>
            \A z \in Products :
              w[i].bal[z] = ops[Append(i, z)][1] * ops[Append(i, z)][2]
=============================================================================
