------------------------------- MODULE CsaTree ------------------------------
(* Carry-save addition: the compressor csa_2.sv and the tree csa_tree.sv.  *)
EXTENDS AddTreePkg, FiniteSetsExt, SequencesExt

BitOf(v, i) == (v \div 2^i) % 2

\* How many of the three have bit i.
Ones(x, y, z, i) == BitOf(x, i) + BitOf(y, i) + BitOf(z, i)

\* Wrong: the carries keep their place.
csa_2_unshifted(W, x, y, z) ==
  [sum   |-> FoldFunction(+, 0, [i \in 0 .. W - 2 |-> (Ones(x, y, z, i) % 2) * 2^i]),
   carry |-> FoldFunction(+, 0, [i \in 0 .. W - 2 |-> (Ones(x, y, z, i) \div 2) * 2^i])]

\* Wrong: the top bits are added as well.
csa_2_top(W, x, y, z) ==
  [sum   |-> FoldFunction(+, 0, [i \in 0 .. W - 1 |-> (Ones(x, y, z, i) % 2) * 2^i]),
   carry |-> FoldFunction(+, 0, [i \in 0 .. W - 1 |-> (Ones(x, y, z, i) \div 2) * 2^(i + 1)])]

\* A full adder per bit of W-bit operands, but for the top bit, which is dropped.
csa_2(W, x, y, z) ==
  [sum   |-> FoldFunction(+, 0, [i \in 0 .. W - 2 |-> (Ones(x, y, z, i) % 2) * 2^i]),
   carry |-> FoldFunction(+, 0, [i \in 0 .. W - 2 |-> (Ones(x, y, z, i) \div 2) * 2^(i + 1)])]

\* One level of compressors; the one or two operands left over come last.
Compress(W, bus) ==
  LET n_triples == Len(bus) \div 3
      csa == [j \in 1 .. n_triples |-> csa_2(W, bus[3*j - 2], bus[3*j - 1], bus[3*j])]
  IN  [j \in 1 .. Len(bus) - n_triples |->
         IF j > 2 * n_triples THEN bus[j + n_triples]
         ELSE IF j % 2 = 1 THEN csa[(j + 1) \div 2].sum ELSE csa[j \div 2].carry]

csa_tree_output_width(width, n) == width + (IF n > 1 THEN clog2_val(n) ELSE 0)

\* csa_num_stages(n) levels, until two are left; each is a bit wider than the one
\* before, up to the width of the output, where the top bit is lost.
csa_tree(operands, width, output_width) ==
  LET depth == csa_num_stages(Len(operands))
      level[k \in 0 .. depth] ==
        IF k = 0 THEN operands
        ELSE Compress(Min({width + k, output_width}), level[k - 1])
      result == level[depth]
  IN  IF Len(result) = 2 THEN result ELSE <<result[1], 0>>
=============================================================================
