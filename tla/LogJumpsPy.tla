----------------------------- MODULE LogJumpsPy -----------------------------
(***************************************************************************)
(* logjumps.py: the five reductions of C modulo N that the hardware grew   *)
(* out of, as operators.  Each folds the low limbs of C onto the rest with *)
(* powers of 1/WORD and ends with a Montgomery step and a stated number of *)
(* subtractions; what it should return is C / R mod N, R = 2^N_bits.       *)
(***************************************************************************)
EXTENDS Integers, FiniteSetsExt

CONSTANT WORD_BITS   \* bits of a limb

WORD == 2^WORD_BITS

bit_length(v) == CHOOSE b \in 0 .. v : 2^b > v /\ (b > 0 => 2^(b - 1) <= v)

InverseMod(v, m) == CHOOSE w \in 0 .. m - 1 : (v * w) % m = 1 % m

\* -v^-1 mod m, the pow(-v, -1, m) of the code.
NegInverseMod(v, m) == CHOOSE w \in 0 .. m - 1 : (v * w + 1) % m = 0

\* What main() computes for a modulus.  If its bits are no whole number of limbs
\* the last step divides by the bits that are over.
Parameters(N) ==
  LET N_bits == bit_length(N)
      n      == (N_bits + WORD_BITS - 1) \div WORD_BITS
      rem    == N_bits % WORD_BITS
      shift  == IF rem # 0 THEN rem ELSE WORD_BITS
  IN  [N |-> N, n |-> n, R |-> 2^N_bits, rem |-> rem, shift |-> shift,
       rho |-> [i \in 1 .. n - 1 |-> InverseMod(WORD^i, N)],
       mu_used |-> NegInverseMod(N, 2^shift)]

-----------------------------------------------------------------------------
(* The parts the reductions share; p is the Parameters of their modulus.   *)

montgomery_reduce(T, p) ==
  LET m == ((T % 2^p.shift) * p.mu_used) % 2^p.shift
  IN  (T + m * p.N) \div 2^p.shift

conditional_subtract(value, N, max_iterations) ==
  value - N * Min({value \div N, max_iterations})

\* The low n - 1 limbs, and what is above them.
LowLimbs(p) == 0 .. p.n - 2
c_lo(C, i)  == (C \div WORD^i) % WORD
c_hi(C, p)  == C \div WORD^(p.n - 1)

\* Limb i meets rho[n-1-i].
rho_rev(p, i) == p.rho[p.n - 1 - i]

\* numpy.dot raises an exception if C has not got n - 1 limbs.
Aligned(C, p) ==
  p.n - 1 <= Max({1, (bit_length(C) + WORD_BITS - 1) \div WORD_BITS})

raw_sum(C, p) ==
  MapThenSumSet(LAMBDA i : c_lo(C, i) * rho_rev(p, i), LowLimbs(p)) + c_hi(C, p)

\* Wrong: as narrow as the Montgomery step is.
acc_modulus_rem(p) == p.N * 2^p.rem

\* A multiple of WORD, so that subtracting it leaves the low bits alone.
acc_modulus(p) == p.N * WORD

T_acc(C, p) == conditional_subtract(raw_sum(C, p), acc_modulus(p), p.n + p.rem)

\* Where the fused reductions join m and the accumulated sum.
Joined(C, m, p) ==
  conditional_subtract((T_acc(C, p) + m * p.N) \div 2^p.shift, p.N, 1)

-----------------------------------------------------------------------------
(* The reductions.                                                         *)

sequential_reduce(C, p) ==
  LET T[i \in 0 .. p.n - 1] ==
        IF i = 0 THEN C ELSE T[i - 1] \div WORD + (T[i - 1] % WORD) * p.rho[1]
  IN  conditional_subtract(montgomery_reduce(T[p.n - 1], p), p.N, 3)

parallel_reduce(C, p) ==
  conditional_subtract(montgomery_reduce(raw_sum(C, p), p), p.N, p.n + p.rem)

parallel_tree_reduce(C, p) ==
  conditional_subtract(montgomery_reduce(T_acc(C, p), p), p.N, 1)

\* m from the sum that is not yet reduced.
parallel_tree_m_reduce(C, p) ==
  Joined(C, ((raw_sum(C, p) % 2^p.shift) * p.mu_used) % 2^p.shift, p)

\* m from the limbs themselves.
parallel_tree_ro_reduce(C, p) ==
  LET rho_mu(i) == (rho_rev(p, i) * p.mu_used) % 2^p.shift
      limbs == MapThenSumSet(LAMBDA i : c_lo(C, i) * rho_mu(i), LowLimbs(p))
      m     == (limbs + (c_hi(C, p) % 2^p.shift) * p.mu_used) % 2^p.shift
  IN  Joined(C, m, p)

Results(C, p) ==
  {sequential_reduce(C, p), parallel_reduce(C, p), parallel_tree_reduce(C, p),
   parallel_tree_m_reduce(C, p), parallel_tree_ro_reduce(C, p)}

expected(C, p) == (C * InverseMod(p.R, p.N)) % p.N

\* All five reductions agree with C / R mod N (main).  Their numbers of
\* subtractions suffice for a modulus of whole limbs; for others only the
\* residue is claimed, as the bounds of those are not analysed (:4-6).
AllAgree(C, N) ==
  LET p == Parameters(N) IN
  Aligned(C, p) =>
    \A r \in Results(C, p) : IF p.rem = 0 THEN r = expected(C, p)
                                          ELSE r % N = expected(C, p)
=============================================================================
