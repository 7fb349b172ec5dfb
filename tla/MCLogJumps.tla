----------------------------- MODULE MCLogJumps -----------------------------
(* Settings and samples of the LogJumps runs.                              *)
EXTENDS LogJumps

\* Every odd modulus of LOGQ bits at most.
Moduli == {q \in 3 .. 2^LOGQ - 1 : q % 2 = 1}

Setting(mul, rm, ffrm, mval, acc, ffs) ==
  [DOT_LAT |-> mul + 1, ACC_LAT |-> acc, RM_LAT |-> rm, FF_RM |-> ffrm,
   MVAL_LAT |-> mval, MR_LAT |-> mul + ffs[2], FF_JOIN_ADD |-> ffs[1],
   FF_MR_POST |-> ffs[2], FF_OUT |-> ffs[3]]

Variable(s) ==
  s @@ [FIXED_Q |-> FALSE, Q_VALUE |-> 0, ACC_MAX_COND_SUB |-> N_LIMBS - 1]
Fixed(s, q) ==
  s @@ [FIXED_Q |-> TRUE, Q_VALUE |-> q, ACC_MAX_COND_SUB |-> cond_sub_opt(q)]

\* Every placement of the registers, with the block latencies up to 2.
Settings ==
  {Setting(mul, rm, ffrm, mval, acc, <<j, p, o>>) :
     mul, rm, ffrm, j, p, o \in 0 .. 1, mval, acc \in {0, 2}}

\* No register but that of the dot products.
Bare == Setting(0, 0, 0, 0, 0, <<0, 0, 0>>)

MCConfigs ==
  UNION {{Variable(s), Fixed(s, 29)} : s \in Settings}
  \cup {Variable(Bare)} \cup {Fixed(Bare, q) : q \in Moduli}

IsBare(c) == \A f \in DOMAIN Bare : c[f] = Bare[f]

\* The bare settings get values of C from all of a modulus's range, the others
\* two neighbours, of different moduli if these are inputs.
MCSamples(c) ==
  LET q == IF c.FIXED_Q THEN c.Q_VALUE ELSE 31
  IN  IF IsBare(c)
        THEN {Input(C, q) : C \in {n \in 0 .. (q - 1)^2 :
                                            n % 5 = 0 \/ n > (q - 1)^2 - 8}}
        ELSE {Input(767, 29), Input(438, IF c.FIXED_Q THEN 29 ELSE 23)}

OneBit  == INSTANCE LogJumpsPy WITH WORD_BITS <- 1
TwoBits == INSTANCE LogJumpsPy WITH WORD_BITS <- 2

\* The five reductions of logjumps.py return C / R mod N, for the values under
\* way and their mirror images at the other end of the range main() draws from:
\* the low bits of a sum that is not yet reduced are those of the reduced one,
\* and the stated numbers of subtractions suffice.
ReferenceAgrees ==
  past # <<>> =>
    LET N == past[1].q
        C == past[1].C
        largest == (N - 1) * (OneBit!Parameters(N).R - 1)
    IN  \A c \in {C, largest - C} :
          OneBit!AllAgree(c, N) /\ TwoBits!AllAgree(c, N)
=============================================================================
