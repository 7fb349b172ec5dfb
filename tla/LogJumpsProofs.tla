--------------------------- MODULE LogJumpsProofs ---------------------------
(***************************************************************************)
(* The LogJumps reduction is right for every limb and modulus width, every *)
(* modulus, every sequence of inputs and every placement of the registers. *)
(*                                                                         *)
(* First the arithmetic, for one input: path B folds C to something        *)
(* congruent to C / W^N_MUL and small enough for its chain of conditional  *)
(* subtractions; path A finds the multiple of q that clears the lowest     *)
(* limb of it; their sum is a multiple of W below 2 * q * W.  Then the     *)
(* pipeline: the inductive invariant IInv says that every register holds   *)
(* what belongs to the input that came in as many clocks before as it is   *)
(* deep, so that what meets at the join belongs to one input.              *)
(***************************************************************************)
EXTENDS LogJumps, FiniteSums

(***************************************************************************)
(* Numbers                                                                 *)
(***************************************************************************)

\* Division with remainder.
LEMMA DivMod ==
  ASSUME NEW a \in Int, NEW b \in Nat \ {0}
  PROVE  /\ a \div b \in Int /\ a % b \in 0 .. b - 1
         /\ a = b * (a \div b) + (a % b)
  OBVIOUS

\* ... and what determines quotient and remainder.
LEMMA DivIs ==
  ASSUME NEW b \in Nat \ {0}, NEW k \in Int, NEW r \in 0 .. b - 1
  PROVE  (k * b + r) \div b = k /\ (k * b + r) % b = r
  OBVIOUS

\* Multiplication keeps <= ...
LEMMA MulMono ==
  ASSUME NEW a \in Nat, NEW b \in Nat, NEW c \in Nat, NEW d \in Nat, a <= c, b <= d
  PROVE  a * b <= c * d /\ a * b \in Nat
  <1>1. a * b <= c * b
    OBVIOUS
  <1>2. c * b <= c * d
    OBVIOUS
  <1> QED BY <1>1, <1>2

\* ... and a factor can be taken out of <.
LEMMA MulStrict ==
  ASSUME NEW a \in Nat, NEW b \in Nat, NEW n \in Nat \ {0}
  PROVE  a < b <=> a * n < b * n
  OBVIOUS

\* A set of numbers has a least one.
LEMMA LeastNumber ==
  ASSUME NEW S \in SUBSET Nat, S # {}
  PROVE  \E m \in S : \A k \in S : m <= k
  <1>1. PICK m \in S : \A k \in S : ~(<<k, m>> \in OpToRel(<, Nat))
    BY NatLessThanWellFounded, WFMin
  <1>2. \A k \in S : ~(k < m)
    BY <1>1 DEF OpToRel
  <1> QED BY <1>2

\* The sizes are numbers, and the limbs cover the modulus.
LEMMA Sizes ==
  /\ LOGW \in Nat /\ LOGW > 0 /\ LOGQ \in Nat /\ LOGQ > 0
  /\ N_LIMBS \in Nat /\ N_MUL \in Nat /\ N_MUL >= 1 /\ N_LIMBS = N_MUL + 1
  /\ ACCW \in Nat /\ ACCW = LOGQ + LOGW
  /\ JOIN_SPLIT \in 1 .. ACCW - 1
  /\ LOGQ <= LOGW * N_LIMBS /\ LOGW * N_LIMBS <= LOGQ + LOGW
  <1>1. LOGW \in Nat /\ LOGW > 0 /\ LOGQ \in Nat /\ LOGQ > 0
    BY LimbAssumption
  <1> DEFINE a == LOGQ + LOGW - 1
  <1>2. a \in Nat /\ LOGW \in Nat \ {0}
    BY <1>1
  <1>3. N_LIMBS = a \div LOGW
    BY DEF N_LIMBS
  <1>4. a = LOGQ + LOGW - 1
    OBVIOUS
  <1> HIDE DEF a
  <1>5. a = LOGW * (a \div LOGW) + (a % LOGW) /\ a % LOGW \in 0 .. LOGW - 1
        /\ a \div LOGW \in Int
    BY <1>2, DivMod
  <1>6. N_MUL >= 1 /\ N_MUL = N_LIMBS - 1
    BY LimbAssumption DEF N_MUL
  <1>7. N_LIMBS \in Nat /\ N_MUL \in Nat /\ N_LIMBS = N_MUL + 1
    BY <1>3, <1>5, <1>6
  <1>8. LOGW * N_LIMBS \in Int /\ LOGQ + LOGW - 1 = LOGW * N_LIMBS + (a % LOGW)
    BY <1>1, <1>3, <1>5, <1>4, <1>7
  <1>9. LOGQ <= LOGW * N_LIMBS /\ LOGW * N_LIMBS <= LOGQ + LOGW
    <2> DEFINE c == LOGW * N_LIMBS
               r == a % LOGW
    <2>1. c \in Int /\ LOGQ + LOGW - 1 = c + r
      BY <1>8
    <2>0. r \in 0 .. LOGW - 1
      BY <1>5
    <2> HIDE DEF c, r
    <2>2. LOGQ <= c /\ c <= LOGQ + LOGW
      BY <1>1, <2>0, <2>1
    <2> QED BY <2>2 DEF c
  <1> QED BY <1>1, <1>6, <1>7, <1>9, LimbAssumption DEF ACCW

(***************************************************************************)
(* Powers                                                                  *)
(***************************************************************************)

\* The largest exponent with a known power.
MaxExp == LOGQ + LOGW + N_LIMBS + 1

Bases == {2, W}

\* The powers are positive numbers.
LEMMA PowerOf ==
  ASSUME NEW b \in Nat \ {0}, b^0 = 1,
         \A n \in 0 .. MaxExp - 1 : b^(n + 1) = b * b^n
  PROVE  \A n \in 0 .. MaxExp : b^n \in Nat \ {0}
  <1> DEFINE C == {n \in Nat : n <= MaxExp => b^n \in Nat \ {0}}
  <1>1. 0 \in C
    OBVIOUS
  <1>2. ASSUME NEW n \in C PROVE n + 1 \in C
    <2>1. MaxExp \in Nat
      BY Sizes DEF MaxExp
    <2>2. ASSUME n + 1 <= MaxExp PROVE b^(n + 1) \in Nat \ {0}
      <3>1. n \in 0 .. MaxExp - 1 /\ n <= MaxExp
        BY <2>1, <2>2
      <3>2. b^n \in Nat \ {0} /\ b^(n + 1) = b * b^n
        BY <3>1
      <3> DEFINE p == b^n
      <3>3. p \in Nat \ {0} /\ b^(n + 1) = b * p
        BY <3>2
      <3> HIDE DEF p
      <3>4. b * p \in Nat \ {0}
        BY <3>3
      <3> QED BY <3>3, <3>4
    <2> QED BY <2>2
  <1>3. C = Nat
    <2> HIDE DEF C
    <2>1. C \in SUBSET Nat
      BY DEF C
    <2> QED BY <1>1, <1>2, <2>1, InductiveSet
  <1>4. \A n \in 0 .. MaxExp : n \in Nat /\ n <= MaxExp
    BY Sizes DEF MaxExp
  <1> QED BY <1>3, <1>4

\* b^0, b^1 and b^(n + 1), as far as they are needed.
LEMMA Powers ==
  /\ MaxExp \in Nat /\ MaxExp = LOGQ + LOGW + N_LIMBS + 1
  /\ W \in Nat \ {0} /\ W > 1
  /\ \A b \in Bases : /\ b \in Nat \ {0} /\ b^0 = 1
                      /\ \A n \in 0 .. MaxExp - 1 : b^(n + 1) = b * b^n
                      /\ \A n \in 0 .. MaxExp : b^n \in Nat \ {0}
  <1>1. MaxExp \in Nat /\ MaxExp = LOGQ + LOGW + N_LIMBS + 1
        /\ MaxExp - 1 = LOGQ + LOGW + N_LIMBS
    BY Sizes DEF MaxExp
  <1>2. \A b \in Bases : b^0 = 1 /\ \A n \in 0 .. MaxExp - 1 : b^(n + 1) = b * b^n
    BY <1>1, PowersAssumption DEF Bases
  <1>3. \A n \in 0 .. MaxExp : 2^n \in Nat \ {0}
    <2>1. 2^0 = 1 /\ \A n \in 0 .. MaxExp - 1 : 2^(n + 1) = 2 * 2^n
      BY <1>2 DEF Bases
    <2>2. 2 \in Nat \ {0}
      OBVIOUS
    <2> QED BY <2>1, <2>2, PowerOf, Zenon
  <1>4. W \in Nat \ {0} /\ W > 1
    <2>1. LOGW - 1 \in 0 .. MaxExp /\ LOGW - 1 \in 0 .. MaxExp - 1 /\ (LOGW - 1) + 1 = LOGW
      BY <1>1, Sizes
    <2> DEFINE p == 2^(LOGW - 1)
    <2>2. p \in Nat \ {0}
      BY <1>3, <2>1
    <2>3. 2^((LOGW - 1) + 1) = 2 * p
      BY <1>2, <2>1 DEF Bases
    <2>4. W = 2 * p
      BY <2>1, <2>3 DEF W
    <2> HIDE DEF p
    <2> QED BY <2>2, <2>4
  <1>5. \A n \in 0 .. MaxExp : W^n \in Nat \ {0}
    <2>1. W^0 = 1 /\ \A n \in 0 .. MaxExp - 1 : W^(n + 1) = W * W^n
      BY <1>2 DEF Bases
    <2> QED BY <1>4, <2>1, PowerOf
  <1> QED BY <1>1, <1>2, <1>3, <1>4, <1>5 DEF Bases

\* b^(m + n) is the product of the powers.
LEMMA PowerSum ==
  ASSUME NEW b \in Bases, NEW m \in Nat, NEW n \in Nat, m + n <= MaxExp
  PROVE  b^(m + n) = b^m * b^n
  <1> DEFINE C == {k \in Nat : m + k <= MaxExp => b^(m + k) = b^m * b^k}
  <1>1. 0 \in C
    <2>1. m + 0 = m /\ b^0 = 1
      BY Powers
    <2>2. ASSUME m + 0 <= MaxExp PROVE b^(m + 0) = b^m * b^0
      <3> DEFINE p == b^m
      <3>1. m \in 0 .. MaxExp
        BY <2>2, Powers
      <3>2. p \in Nat
        BY <3>1, Powers
      <3>3. b^(m + 0) = p
        BY <2>1
      <3> HIDE DEF p
      <3>4. p * 1 = p
        BY <3>2
      <3> QED BY <2>1, <3>3, <3>4 DEF p
    <2> QED BY <2>2
  <1>2. ASSUME NEW k \in C PROVE k + 1 \in C
    <2>1. ASSUME m + (k + 1) <= MaxExp PROVE b^(m + (k + 1)) = b^m * b^(k + 1)
      <3>1. /\ m + k <= MaxExp /\ m + k \in 0 .. MaxExp - 1 /\ m + k \in 0 .. MaxExp
            /\ k \in 0 .. MaxExp - 1 /\ k \in 0 .. MaxExp /\ m \in 0 .. MaxExp
            /\ m + (k + 1) = (m + k) + 1
        BY <2>1, Powers
      <3> DEFINE p == b^m
                 r == b^k
      <3>2. b^(m + k) = p * r
        BY <1>2, <3>1
      <3>3. b^((m + k) + 1) = b * (p * r)
        BY <3>1, <3>2, Powers
      <3>4. b^(k + 1) = b * r
        BY <3>1, Powers
      <3>5. b \in Nat /\ p \in Nat /\ r \in Nat
        BY <3>1, Powers
      <3>6. b^m * b^(k + 1) = p * (b * r)
        BY <3>4
      <3> HIDE DEF p, r
      <3>7. b * (p * r) = p * (b * r)
        BY <3>5
      <3> QED BY <3>1, <3>3, <3>6, <3>7
    <2> QED BY <2>1
  <1>3. C = Nat
    <2> HIDE DEF C
    <2>1. C \in SUBSET Nat
      BY DEF C
    <2> QED BY <1>1, <1>2, <2>1, InductiveSet
  <1>4. n \in C
    BY <1>3
  <1> QED BY <1>4

\* A larger exponent gives a larger power.
LEMMA PowerMono ==
  ASSUME NEW b \in Bases, NEW m \in Nat, NEW n \in Nat, m <= n, n <= MaxExp
  PROVE  b^m <= b^n
  <1>1. n - m \in Nat /\ m + (n - m) = n /\ m + (n - m) <= MaxExp
        /\ m \in 0 .. MaxExp /\ n - m \in 0 .. MaxExp
    BY Powers
  <1>2. b^(m + (n - m)) = b^m * b^(n - m)
    BY <1>1, PowerSum
  <1> DEFINE p == b^m
             r == b^(n - m)
  <1>3. p \in Nat \ {0} /\ r \in Nat \ {0}
    BY <1>1, Powers
  <1>4. b^n = p * r
    BY <1>1, <1>2
  <1> HIDE DEF p, r
  <1>5. p <= p * r
    BY <1>3
  <1> QED BY <1>4, <1>5 DEF p

\* A number is less than its power of two.
LEMMA PowerExceeds ==
  ASSUME NEW n \in 0 .. MaxExp
  PROVE  n < 2^n
  <1> DEFINE C == {k \in Nat : k <= MaxExp => k < 2^k}
  <1>0. 2 \in Bases
    BY DEF Bases
  <1>1. 0 \in C
    BY <1>0, Powers
  <1>2. ASSUME NEW k \in C PROVE k + 1 \in C
    <2>1. ASSUME k + 1 <= MaxExp PROVE k + 1 < 2^(k + 1)
      <3>1. k \in 0 .. MaxExp - 1 /\ k \in 0 .. MaxExp /\ k <= MaxExp
        BY <2>1, Powers
      <3> DEFINE p == 2^k
      <3>2. p \in Nat \ {0} /\ 2^(k + 1) = 2 * p /\ k < p
        BY <1>0, <1>2, <3>1, Powers
      <3> HIDE DEF p
      <3> QED BY <3>2
    <2> QED BY <2>1
  <1>3. C = Nat
    <2> HIDE DEF C
    <2>1. C \in SUBSET Nat
      BY DEF C
    <2> QED BY <1>1, <1>2, <2>1, InductiveSet
  <1>4. n \in C /\ n <= MaxExp
    BY <1>3, Powers
  <1> QED BY <1>4

\* The powers of W are powers of two.
LEMMA LimbPower ==
  ASSUME NEW k \in 0 .. N_LIMBS
  PROVE  LOGW * k \in 0 .. MaxExp /\ W^k = 2^(LOGW * k)
  <1> DEFINE C == {n \in Nat : n <= N_LIMBS =>
                     LOGW * n \in 0 .. MaxExp /\ W^n = 2^(LOGW * n)}
  <1>0. 2 \in Bases /\ W \in Bases
    BY DEF Bases
  <1>1. 0 \in C
    <2>1. LOGW * 0 = 0 /\ 0 \in 0 .. MaxExp
      BY Sizes, Powers
    <2>2. W^0 = 1 /\ 2^0 = 1
      BY <1>0, Powers
    <2> QED BY <2>1, <2>2
  <1>2. ASSUME NEW n \in C PROVE n + 1 \in C
    <2>1. ASSUME n + 1 <= N_LIMBS
          PROVE  LOGW * (n + 1) \in 0 .. MaxExp /\ W^(n + 1) = 2^(LOGW * (n + 1))
      <3>1. n <= N_LIMBS /\ n \in 0 .. MaxExp - 1 /\ n \in 0 .. MaxExp
        BY <2>1, Powers, Sizes
      <3>2. W^n = 2^(LOGW * n) /\ W^(n + 1) = W * W^n
        BY <1>0, <1>2, <3>1, Powers
      <3>3. LOGW * (n + 1) = LOGW + LOGW * n /\ LOGW * n \in Nat
        BY Sizes
      <3>4. LOGW * (n + 1) <= LOGW * N_LIMBS
        BY <2>1, Sizes, MulMono
      <3>5. LOGW * (n + 1) \in 0 .. MaxExp /\ LOGW + LOGW * n <= MaxExp
        BY <3>3, <3>4, Sizes, Powers
      <3>6. 2^(LOGW + LOGW * n) = 2^LOGW * 2^(LOGW * n)
        BY <1>0, <3>3, <3>5, Sizes, PowerSum, ZenonT(60)
      <3> QED BY <3>2, <3>3, <3>5, <3>6 DEF W
    <2> QED BY <2>1
  <1>3. C = Nat
    <2> HIDE DEF C
    <2>1. C \in SUBSET Nat
      BY DEF C
    <2> QED BY <1>1, <1>2, <2>1, InductiveSet
  <1>4. k \in C /\ k <= N_LIMBS
    BY <1>3, Sizes
  <1> QED BY <1>4

(***************************************************************************)
(* Congruences                                                             *)
(***************************************************************************)

Cong(a, b, n) == \E k \in Int : a = b + k * n

\* Congruence modulo n is an equivalence ...
LEMMA CongRefl ==
  ASSUME NEW a \in Int, NEW n \in Int
  PROVE  Cong(a, a, n)
  <1>1. 0 \in Int /\ a = a + 0 * n
    OBVIOUS
  <1> QED BY <1>1 DEF Cong

\* ... symmetric ...
LEMMA CongSym ==
  ASSUME NEW a \in Int, NEW b \in Int, NEW n \in Int, Cong(a, b, n)
  PROVE  Cong(b, a, n)
  <1>1. PICK k \in Int : a = b + k * n
    BY DEF Cong
  <1>2. -k \in Int /\ b = a + (-k) * n
    BY <1>1
  <1> QED BY <1>2 DEF Cong

\* ... and transitive.
LEMMA CongTrans ==
  ASSUME NEW a \in Int, NEW b \in Int, NEW c \in Int, NEW n \in Int,
         Cong(a, b, n), Cong(b, c, n)
  PROVE  Cong(a, c, n)
  <1>1. PICK k \in Int : a = b + k * n
    BY DEF Cong
  <1>2. PICK l \in Int : b = c + l * n
    BY DEF Cong
  <1>3. k + l \in Int /\ a = c + (k + l) * n
    BY <1>1, <1>2
  <1> QED BY <1>3 DEF Cong

\* It is kept by sums ...
LEMMA CongAdd ==
  ASSUME NEW a \in Int, NEW b \in Int, NEW c \in Int, NEW d \in Int, NEW n \in Int,
         Cong(a, b, n), Cong(c, d, n)
  PROVE  Cong(a + c, b + d, n)
  <1>1. PICK k \in Int : a = b + k * n
    BY DEF Cong
  <1>2. PICK l \in Int : c = d + l * n
    BY DEF Cong
  <1>3. k + l \in Int /\ a + c = (b + d) + (k + l) * n
    BY <1>1, <1>2
  <1> QED BY <1>3 DEF Cong

\* ... and by products.
LEMMA CongMul ==
  ASSUME NEW a \in Int, NEW b \in Int, NEW c \in Int, NEW n \in Int, Cong(a, b, n)
  PROVE  Cong(a * c, b * c, n)
  <1>1. PICK k \in Int : a = b + k * n
    BY DEF Cong
  <1>2. k * c \in Int /\ a * c = b * c + (k * c) * n
    BY <1>1
  <1> QED BY <1>2 DEF Cong

\* Both are congruent modulo a factor of the modulus.
LEMMA CongFactor ==
  ASSUME NEW a \in Int, NEW b \in Int, NEW n \in Int, NEW m \in Int,
         Cong(a, b, n * m)
  PROVE  Cong(a, b, n) /\ Cong(a, b, m)
  <1>1. PICK k \in Int : a = b + k * (n * m)
    BY DEF Cong
  <1>2. k * m \in Int /\ a = b + (k * m) * n /\ k * n \in Int /\ a = b + (k * n) * m
    BY <1>1
  <1> QED BY <1>2 DEF Cong

\* A number is congruent to its remainder.
LEMMA CongMod ==
  ASSUME NEW a \in Int, NEW n \in Nat \ {0}
  PROVE  Cong(a % n, a, n) /\ a % n \in 0 .. n - 1
  <1>1. a \div n \in Int /\ a % n \in 0 .. n - 1 /\ a = n * (a \div n) + (a % n)
    BY DivMod
  <1> DEFINE d == a \div n
             r == a % n
  <1>2. d \in Int /\ r \in Int /\ a = n * d + r
    BY <1>1
  <1> HIDE DEF d, r
  <1>3. -d \in Int /\ r = a + (-d) * n
    BY <1>2
  <1>4. Cong(r, a, n)
    BY <1>3 DEF Cong
  <1> QED BY <1>1, <1>4 DEF r

\* Congruent numbers have one remainder ...
LEMMA ModOfCong ==
  ASSUME NEW a \in Int, NEW b \in Int, NEW n \in Nat \ {0}, Cong(a, b, n)
  PROVE  a % n = b % n
  <1>1. PICK k \in Int : a = b + k * n
    BY DEF Cong
  <1> DEFINE d == b \div n
             r == b % n
  <1>2. d \in Int /\ r \in 0 .. n - 1 /\ b = n * d + r
    BY DivMod
  <1>3. r = b % n
    OBVIOUS
  <1> HIDE DEF d, r
  <1>4. k + d \in Int /\ a = (k + d) * n + r
    BY <1>1, <1>2
  <1>5. ((k + d) * n + r) % n = r
    BY <1>2, <1>4, DivIs
  <1> QED BY <1>3, <1>4, <1>5

\* ... and conversely.
LEMMA CongOfMod ==
  ASSUME NEW a \in Int, NEW b \in Int, NEW n \in Nat \ {0}, a % n = b % n
  PROVE  Cong(a, b, n)
  <1>1. Cong(a % n, a, n) /\ a % n \in 0 .. n - 1
    BY CongMod, Zenon
  <1>2. Cong(b % n, b, n)
    BY CongMod, Zenon
  <1> DEFINE r == a % n
  <1>3. r \in Int
    BY <1>1
  <1>4. Cong(r, a, n)
    BY <1>1
  <1>5. Cong(r, b, n)
    BY <1>2
  <1> HIDE DEF r
  <1>6. Cong(a, r, n)
    BY <1>3, <1>4, CongSym
  <1> QED BY <1>3, <1>5, <1>6, CongTrans

(***************************************************************************)
(* Sums over the limbs                                                     *)
(***************************************************************************)

Terms(F, m) == \A i \in 0 .. m - 1 : F[i] \in Int

\* The empty sum.
LEMMA SumOfNoLimbs ==
  ASSUME NEW F
  PROVE  SumOver(F, 0 .. 0 - 1) = 0
  <1>1. 0 .. 0 - 1 = {}
    OBVIOUS
  <1> QED BY <1>1, SumOfNone

\* One limb more.
LEMMA SumOfLimbs ==
  ASSUME NEW m \in Nat, NEW F, Terms(F, m + 1)
  PROVE  /\ SumOver(F, 0 .. m - 1) \in Int /\ F[m] \in Int /\ Terms(F, m)
         /\ SumOver(F, 0 .. (m + 1) - 1) = SumOver(F, 0 .. m - 1) + F[m]
  <1>1. \A i \in 0 .. (m - 1) + 1 : F[i] \in Int
    BY DEF Terms
  <1>2. /\ SumOver(F, 0 .. m - 1) \in Int
        /\ SumOver(F, 0 .. (m - 1) + 1) = SumOver(F, 0 .. m - 1) + F[(m - 1) + 1]
    BY <1>1, SumUpTo
  <1>3. (m - 1) + 1 = m /\ (m + 1) - 1 = m /\ m \in 0 .. (m - 1) + 1
    OBVIOUS
  <1> QED BY <1>1, <1>2, <1>3 DEF Terms

\* A sum of integers is one.
LEMMA SumOfLimbsInt ==
  ASSUME NEW m \in Nat, NEW F, Terms(F, m)
  PROVE  SumOver(F, 0 .. m - 1) \in Int
  BY SumIsInt, FiniteInterval DEF Terms

\* Terms congruent one by one have congruent sums.
LEMMA SumCong ==
  ASSUME NEW m \in Nat, NEW n \in Int, NEW F, NEW G, Terms(F, m), Terms(G, m),
         \A i \in 0 .. m - 1 : Cong(F[i], G[i], n)
  PROVE  Cong(SumOver(F, 0 .. m - 1), SumOver(G, 0 .. m - 1), n)
  <1> DEFINE C == {k \in Nat : k <= m =>
                     Cong(SumOver(F, 0 .. k - 1), SumOver(G, 0 .. k - 1), n)}
  <1>1. 0 \in C
    BY SumOfNoLimbs, CongRefl
  <1>2. ASSUME NEW k \in C PROVE k + 1 \in C
    <2> SUFFICES ASSUME k + 1 <= m
                 PROVE  Cong(SumOver(F, 0 .. (k + 1) - 1), SumOver(G, 0 .. (k + 1) - 1), n)
      OBVIOUS
    <2>1. Terms(F, k + 1) /\ Terms(G, k + 1) /\ k \in 0 .. m - 1
      BY DEF Terms
    <2>2. /\ SumOver(F, 0 .. k - 1) \in Int /\ F[k] \in Int
          /\ SumOver(F, 0 .. (k + 1) - 1) = SumOver(F, 0 .. k - 1) + F[k]
      BY <2>1, SumOfLimbs
    <2>3. /\ SumOver(G, 0 .. k - 1) \in Int /\ G[k] \in Int
          /\ SumOver(G, 0 .. (k + 1) - 1) = SumOver(G, 0 .. k - 1) + G[k]
      BY <2>1, SumOfLimbs
    <2>4. Cong(SumOver(F, 0 .. k - 1), SumOver(G, 0 .. k - 1), n) /\ Cong(F[k], G[k], n)
      BY <1>2, <2>1
    <2> QED BY <2>2, <2>3, <2>4, CongAdd, ZenonT(60)
  <1>3. C = Nat
    <2> HIDE DEF C
    <2>1. C \in SUBSET Nat
      BY DEF C
    <2> QED BY <1>1, <1>2, <2>1, InductiveSet
  <1>4. m \in C
    BY <1>3
  <1> QED BY <1>4

\* Every term is at most c times another.
LEMMA SumLeq ==
  ASSUME NEW m \in Nat, NEW c \in Int, NEW F, NEW G, Terms(F, m), Terms(G, m),
         \A i \in 0 .. m - 1 : F[i] <= c * G[i]
  PROVE  SumOver(F, 0 .. m - 1) <= c * SumOver(G, 0 .. m - 1)
  <1> DEFINE C == {k \in Nat : k <= m =>
                     SumOver(F, 0 .. k - 1) <= c * SumOver(G, 0 .. k - 1)}
  <1>1. 0 \in C
    <2>1. SumOver(F, 0 .. 0 - 1) = 0 /\ SumOver(G, 0 .. 0 - 1) = 0 /\ 0 <= c * 0
      BY SumOfNoLimbs
    <2> QED BY <2>1
  <1>2. ASSUME NEW k \in C PROVE k + 1 \in C
    <2> SUFFICES ASSUME k + 1 <= m
                 PROVE  SumOver(F, 0 .. (k + 1) - 1) <= c * SumOver(G, 0 .. (k + 1) - 1)
      OBVIOUS
    <2>1. Terms(F, k + 1) /\ Terms(G, k + 1) /\ k \in 0 .. m - 1
      BY DEF Terms
    <2> DEFINE f == SumOver(F, 0 .. k - 1)
               g == SumOver(G, 0 .. k - 1)
    <2>2. f \in Int /\ F[k] \in Int /\ SumOver(F, 0 .. (k + 1) - 1) = f + F[k]
      BY <2>1, SumOfLimbs
    <2>3. g \in Int /\ G[k] \in Int /\ SumOver(G, 0 .. (k + 1) - 1) = g + G[k]
      BY <2>1, SumOfLimbs
    <2>4. f <= c * g /\ F[k] <= c * G[k]
      BY <1>2, <2>1
    <2> HIDE DEF f, g
    <2>5. c * (g + G[k]) = c * g + c * G[k] /\ c * g \in Int /\ c * G[k] \in Int
      BY <2>3
    <2>6. f + F[k] <= c * (g + G[k])
      BY <2>2, <2>4, <2>5
    <2> QED BY <2>2, <2>3, <2>6
  <1>3. C = Nat
    <2> HIDE DEF C
    <2>1. C \in SUBSET Nat
      BY DEF C
    <2> QED BY <1>1, <1>2, <2>1, InductiveSet
  <1>4. m \in C
    BY <1>3
  <1> QED BY <1>4

\* Terms between 0 and b.
LEMMA SumRange ==
  ASSUME NEW m \in Nat, NEW b \in Nat, NEW F, \A i \in 0 .. m - 1 : F[i] \in 0 .. b
  PROVE  SumOver(F, 0 .. m - 1) \in 0 .. m * b
  <1> DEFINE C == {k \in Nat : k <= m => SumOver(F, 0 .. k - 1) \in 0 .. k * b}
  <1>1. 0 \in C
    <2>1. SumOver(F, 0 .. 0 - 1) = 0 /\ 0 * b = 0
      BY SumOfNoLimbs
    <2> QED BY <2>1
  <1>2. ASSUME NEW k \in C PROVE k + 1 \in C
    <2> SUFFICES ASSUME k + 1 <= m
                 PROVE  SumOver(F, 0 .. (k + 1) - 1) \in 0 .. (k + 1) * b
      OBVIOUS
    <2>1. Terms(F, k + 1) /\ k \in 0 .. m - 1
      BY DEF Terms
    <2> DEFINE f == SumOver(F, 0 .. k - 1)
    <2>2. f \in Int /\ F[k] \in Int /\ SumOver(F, 0 .. (k + 1) - 1) = f + F[k]
      BY <2>1, SumOfLimbs
    <2>3. f \in 0 .. k * b /\ F[k] \in 0 .. b
      BY <1>2, <2>1
    <2> HIDE DEF f
    <2>4. k * b \in Int /\ (k + 1) * b = k * b + b
      OBVIOUS
    <2>5. f + F[k] \in 0 .. (k + 1) * b
      BY <2>2, <2>3, <2>4
    <2> QED BY <2>2, <2>5
  <1>3. C = Nat
    <2> HIDE DEF C
    <2>1. C \in SUBSET Nat
      BY DEF C
    <2> QED BY <1>1, <1>2, <2>1, InductiveSet
  <1>4. m \in C
    BY <1>3
  <1> QED BY <1>4

\* A factor of every term.
LEMMA SumScaled ==
  ASSUME NEW m \in Nat, NEW c \in Int, NEW F, NEW G, Terms(F, m),
         \A i \in 0 .. m - 1 : G[i] = F[i] * c
  PROVE  SumOver(G, 0 .. m - 1) = SumOver(F, 0 .. m - 1) * c
  <1> DEFINE C == {k \in Nat : k <= m =>
                     SumOver(G, 0 .. k - 1) = SumOver(F, 0 .. k - 1) * c}
  <1>0. Terms(G, m)
    BY DEF Terms
  <1>1. 0 \in C
    <2>1. SumOver(F, 0 .. 0 - 1) = 0 /\ SumOver(G, 0 .. 0 - 1) = 0 /\ 0 = 0 * c
      BY SumOfNoLimbs
    <2> QED BY <2>1
  <1>2. ASSUME NEW k \in C PROVE k + 1 \in C
    <2> SUFFICES ASSUME k + 1 <= m
                 PROVE  SumOver(G, 0 .. (k + 1) - 1) = SumOver(F, 0 .. (k + 1) - 1) * c
      OBVIOUS
    <2>1. Terms(F, k + 1) /\ Terms(G, k + 1) /\ k \in 0 .. m - 1
      BY <1>0 DEF Terms
    <2> DEFINE f == SumOver(F, 0 .. k - 1)
               g == SumOver(G, 0 .. k - 1)
    <2>2. f \in Int /\ F[k] \in Int /\ SumOver(F, 0 .. (k + 1) - 1) = f + F[k]
      BY <2>1, SumOfLimbs
    <2>3. g \in Int /\ SumOver(G, 0 .. (k + 1) - 1) = g + G[k]
      BY <2>1, SumOfLimbs
    <2>4. g = f * c /\ G[k] = F[k] * c
      BY <1>2, <2>1
    <2> HIDE DEF f, g
    <2>5. g + G[k] = (f + F[k]) * c
      BY <2>2, <2>4
    <2> QED BY <2>2, <2>3, <2>5
  <1>3. C = Nat
    <2> HIDE DEF C
    <2>1. C \in SUBSET Nat
      BY DEF C
    <2> QED BY <1>1, <1>2, <2>1, InductiveSet
  <1>4. m \in C
    BY <1>3
  <1> QED BY <1>4

\* The terms of F backwards.
LEMMA SumReversed ==
  ASSUME NEW m \in Nat, NEW F, \A k \in 1 .. m : F[k] \in Int,
         NEW G, \A i \in 0 .. m - 1 : G[i] = F[m - i]
  PROVE  SumOver(G, 0 .. m - 1) = SumOver(F, 1 .. m)
  <1> DEFINE C == {k \in Nat : k <= m =>
                     SumOver(G, 0 .. k - 1) = SumOver(F, (m - k) + 1 .. m)}
  <1>0. Terms(G, m)
    <2>1. \A i \in 0 .. m - 1 : m - i \in 1 .. m
      OBVIOUS
    <2> QED BY <2>1 DEF Terms
  <1>1. 0 \in C
    <2>1. (m - 0) + 1 .. m = {}
      OBVIOUS
    <2> QED BY <2>1, SumOfNoLimbs, SumOfNone
  <1>2. ASSUME NEW k \in C PROVE k + 1 \in C
    <2> SUFFICES ASSUME k + 1 <= m
                 PROVE  SumOver(G, 0 .. (k + 1) - 1) = SumOver(F, (m - (k + 1)) + 1 .. m)
      OBVIOUS
    <2>1. Terms(G, k + 1) /\ k \in 0 .. m - 1
      BY <1>0 DEF Terms
    <2>2. SumOver(G, 0 .. (k + 1) - 1) = SumOver(G, 0 .. k - 1) + G[k]
      BY <2>1, SumOfLimbs
    <2>3. SumOver(G, 0 .. k - 1) = SumOver(F, (m - k) + 1 .. m) /\ G[k] = F[m - k]
      BY <1>2, <2>1
    <2> DEFINE S == (m - k) + 1 .. m
    <2>4. /\ (m - (k + 1)) + 1 .. m = S \cup {m - k} /\ m - k \notin S
          /\ S \cup {m - k} \subseteq 1 .. m
      OBVIOUS
    <2>5. IsFiniteSet(S)
      BY FiniteInterval
    <2> HIDE DEF S
    <2> DEFINE i == m - k
    <2>6. i \notin S /\ \A y \in S \cup {i} : F[y] \in Int
      BY <2>4
    <2>7. SumOver(F, S \cup {i}) = SumOver(F, S) + F[i]
      <3> HIDE DEF i
      <3> QED BY <2>5, <2>6, SumWithOneMore
    <2> QED BY <2>2, <2>3, <2>4, <2>7, Zenon DEF S
  <1>3. C = Nat
    <2> HIDE DEF C
    <2>1. C \in SUBSET Nat
      BY DEF C
    <2> QED BY <1>1, <1>2, <2>1, InductiveSet
  <1>4. m \in C /\ (m - m) + 1 = 1
    BY <1>3, SMTT(30)
  <1> QED BY <1>4

\* The sums of the model.
LEMMA SumOfIs ==
  ASSUME NEW F
  PROVE  SumOf(F) = SumOver(F, DOMAIN F)
  BY DEF SumOf, SumOver, FoldFunction, FoldFunctionOnSet, MapThenSumSet

(***************************************************************************)
(* Widths                                                                  *)
(***************************************************************************)

\* $clog2 is the least width whose range holds n values.
LEMMA Clog2 ==
  ASSUME NEW n \in Nat, NEW e \in 0 .. MaxExp, n <= 2^e
  PROVE  clog2_val(n) \in 0 .. e /\ n <= 2^clog2_val(n)
  <1> DEFINE Fits(s) == n <= 2^s /\ \A t \in 0 .. s - 1 : 2^t < n
             S == {s \in 0 .. e : n <= 2^s}
  <1>1. \A t \in 0 .. MaxExp : 2^t \in Nat
    BY Powers DEF Bases
  <1>2. PICK m \in S : \A k \in S : m <= k
    <2>1. e \in S /\ S \in SUBSET Nat
      BY Powers
    <2> HIDE DEF S
    <2> QED BY <2>1, LeastNumber
  <1>3. m \in 0 .. MaxExp /\ m \in Nat /\ m <= e /\ n <= 2^m
    BY <1>2, Powers
  <1>4. ASSUME NEW t \in 0 .. m - 1 PROVE 2^t < n
    <2>1. t \in Nat /\ t <= e /\ t \in 0 .. MaxExp /\ ~(m <= t)
      BY <1>3, Powers
    <2>2. t \notin S
      <3> HIDE DEF S
      <3> QED BY <1>2, <2>1
    <2>3. ~(n <= 2^t) /\ 2^t \in Nat
      BY <1>1, <2>1, <2>2, Powers
    <2> QED BY <2>3
  <1>5. m \in 0 .. n
    <2>1. CASE m = 0
      BY <2>1
    <2>2. CASE m # 0
      <3>1. m - 1 \in 0 .. m - 1 /\ m - 1 \in 0 .. MaxExp
        BY <1>3, <2>2, Powers
      <3>2. 2^(m - 1) < n /\ m - 1 < 2^(m - 1) /\ 2^(m - 1) \in Nat
        BY <1>1, <1>4, <3>1, PowerExceeds
      <3> QED BY <1>3, <3>2
    <2> QED BY <2>1, <2>2
  <1>6. \E s \in 0 .. n : Fits(s)
    BY <1>3, <1>4, <1>5
  <1>7. clog2_val(n) \in 0 .. n /\ Fits(clog2_val(n))
    <2>1. clog2_val(n) = CHOOSE s \in 0 .. n : Fits(s)
      BY DEF clog2_val
    <2> HIDE DEF Fits
    <2> QED BY <1>6, <2>1
  <1> DEFINE c == clog2_val(n)
  <1>8. c \in Nat /\ n <= 2^c /\ \A t \in 0 .. c - 1 : 2^t < n
    BY <1>7
  <1> HIDE DEF c
  <1>9. c <= e
    <2> SUFFICES ASSUME e < c PROVE FALSE
      BY <1>8, Powers
    <2>1. e \in 0 .. c - 1 /\ 2^e \in Nat
      BY <1>1, <1>8, Powers
    <2>2. 2^e < n
      BY <1>8, <2>1
    <2> QED BY <2>1, <2>2
  <1>10. c \in 0 .. e
    BY <1>8, <1>9, Powers
  <1> QED BY <1>8, <1>10 DEF c

extra == sum_extra_bits(N_LIMBS)

\* The widths of the sum and of its parts, in powers of two.
LEMMA Widths ==
  /\ extra \in 0 .. N_LIMBS /\ N_LIMBS <= 2^extra /\ 2^extra \in Nat \ {0}
  /\ SUM_W \in Nat /\ SUM_W = ACCW + extra /\ SUM_W + 1 \in 0 .. MaxExp
  /\ 2^LOGQ \in Nat \ {0} /\ 2^(LOGQ + 1) = 2 * 2^LOGQ
  /\ 2^ACCW \in Nat \ {0} /\ 2^ACCW = 2^LOGQ * W
  /\ 2^SUM_W \in Nat \ {0} /\ 2^SUM_W = 2^ACCW * 2^extra
  /\ 2^(SUM_W + 1) = 2 * 2^SUM_W
  <1>0. 2 \in Bases
    BY DEF Bases
  <1>1. N_LIMBS \in 0 .. MaxExp
    BY Sizes, Powers
  <1>2. N_LIMBS <= 2^N_LIMBS
    BY <1>0, <1>1, PowerExceeds, Powers
  <1>3. extra = clog2_val(N_LIMBS)
    BY Sizes DEF extra, sum_extra_bits
  <1>4. extra \in 0 .. N_LIMBS /\ N_LIMBS <= 2^extra
    BY <1>1, <1>2, <1>3, Sizes, Clog2
  <1>5. SUM_W = ACCW + extra
    BY DEF SUM_W, extra
  <1>6. SUM_W \in Nat /\ SUM_W + 1 \in 0 .. MaxExp /\ SUM_W \in 0 .. MaxExp - 1
        /\ SUM_W \in 0 .. MaxExp /\ extra \in 0 .. MaxExp /\ ACCW + extra <= MaxExp
        /\ ACCW \in 0 .. MaxExp /\ LOGQ \in 0 .. MaxExp /\ LOGQ \in 0 .. MaxExp - 1
        /\ LOGQ + LOGW <= MaxExp
    BY <1>4, <1>5, Sizes, Powers
  <1>7. 2^extra \in Nat \ {0} /\ 2^LOGQ \in Nat \ {0} /\ 2^ACCW \in Nat \ {0}
        /\ 2^SUM_W \in Nat \ {0} /\ 2^(SUM_W + 1) = 2 * 2^SUM_W
        /\ 2^(LOGQ + 1) = 2 * 2^LOGQ
    BY <1>0, <1>6, Powers
  <1>8. 2^SUM_W = 2^ACCW * 2^extra
    BY <1>0, <1>4, <1>5, <1>6, Sizes, PowerSum
  <1>9. 2^ACCW = 2^LOGQ * W
    BY <1>0, <1>6, Sizes, PowerSum DEF W
  <1> QED BY <1>4, <1>5, <1>6, <1>7, <1>8, <1>9

\* The limbs of R.
LEMMA WholeR ==
  /\ \A k \in 0 .. N_LIMBS : W^k \in Nat \ {0}
  /\ W^0 = 1 /\ \A k \in 0 .. N_MUL : W^(k + 1) = W * W^k
  /\ R = W * W^N_MUL /\ 2^LOGQ <= W * W^N_MUL
  <1>0. 2 \in Bases /\ W \in Bases
    BY DEF Bases
  <1>1. \A k \in 0 .. N_LIMBS : W^k \in Nat \ {0}
    BY <1>0, Powers, Sizes
  <1>2. W^0 = 1 /\ \A k \in 0 .. N_MUL : W^(k + 1) = W * W^k
    BY <1>0, Powers, Sizes
  <1>3. W^N_LIMBS = W * W^N_MUL
    BY <1>2, Sizes
  <1>4. W^N_LIMBS = 2^(LOGW * N_LIMBS) /\ LOGW * N_LIMBS \in 0 .. MaxExp
    BY LimbPower, Sizes
  <1>5. 2^LOGQ <= 2^(LOGW * N_LIMBS)
    BY <1>0, <1>4, Sizes, Powers, PowerMono
  <1> QED BY <1>1, <1>2, <1>3, <1>4, <1>5 DEF R

(***************************************************************************)
(* The constants of a modulus                                              *)
(***************************************************************************)

\* rho and mu of a modulus are what the search for them asks for
\* (logjumps_helper.tcl).
LEMMA Constants ==
  ASSUME NEW q, Modulus(q)
  PROVE  /\ q \in Nat \ {0} /\ q < 2^LOGQ
         /\ rho(q) \in [1 .. N_MUL -> 0 .. q - 1]
         /\ \A k \in 1 .. N_MUL : (rho(q)[k] * W^k) % q = 1 % q
         /\ mu(q) \in 0 .. W - 1 /\ (mu(q) * q + 1) % W = 0
  <1>1. q \in Nat \ {0} /\ q < 2^LOGQ
    BY Widths DEF Modulus
  <1>2. ASSUME NEW k \in 1 .. N_MUL
        PROVE  rho(q)[k] \in 0 .. q - 1 /\ (rho(q)[k] * W^k) % q = 1 % q
    <2> DEFINE P(r) == (r * W^k) % q = 1 % q
    <2>1. \E r \in 0 .. q - 1 : P(r)
      BY DEF Modulus
    <2>2. rho(q)[k] = CHOOSE r \in 0 .. q - 1 : P(r)
      BY DEF rho
    <2> HIDE DEF P
    <2>3. rho(q)[k] \in 0 .. q - 1 /\ P(rho(q)[k])
      BY <2>1, <2>2
    <2> QED BY <2>3 DEF P
  <1>3. rho(q) \in [1 .. N_MUL -> 0 .. q - 1]
    <2>1. rho(q) = [k \in 1 .. N_MUL |-> rho(q)[k]]
      BY DEF rho
    <2> HIDE DEF rho
    <2> QED BY <1>2, <2>1
  <1>4. mu(q) \in 0 .. W - 1 /\ (mu(q) * q + 1) % W = 0
    <2> DEFINE P(m) == (m * q + 1) % W = 0
    <2>1. \E m \in 0 .. W - 1 : P(m)
      BY DEF Modulus
    <2>2. mu(q) = CHOOSE m \in 0 .. W - 1 : P(m)
      BY DEF mu
    <2> HIDE DEF P
    <2>3. mu(q) \in 0 .. W - 1 /\ P(mu(q))
      BY <2>1, <2>2
    <2> QED BY <2>3 DEF P
  <1> QED BY <1>1, <1>2, <1>3, <1>4

(***************************************************************************)
(* The limbs of C                                                          *)
(***************************************************************************)

\* Limb by limb division.
LEMMA DivDiv ==
  ASSUME NEW a \in Nat, NEW b \in Nat \ {0}, NEW c \in Nat \ {0}
  PROVE  a \div (c * b) = (a \div b) \div c
  <1> DEFINE d == a \div b
             r == a % b
             h == d \div c
             l == d % c
  <1>1. d \in Int /\ r \in 0 .. b - 1 /\ a = b * d + r
    BY DivMod
  <1>2. h \in Int /\ l \in 0 .. c - 1 /\ d = c * h + l
    <2> HIDE DEF d
    <2> QED BY <1>1, DivMod
  <1>3. h = (a \div b) \div c
    OBVIOUS
  <1> HIDE DEF d, r, h, l
  <1>4. c * b \in Nat \ {0}
    OBVIOUS
  <1>5. b * l \in Int /\ b * l >= 0 /\ b * l <= b * (c - 1)
    BY <1>2, MulMono
  <1>6. b * l + r \in 0 .. c * b - 1
    <2>1. b * (c - 1) = c * b - b
      OBVIOUS
    <2> DEFINE p == b * l
               t == c * b
    <2>2. p \in Int /\ p >= 0 /\ p <= t - b /\ t \in Int
      BY <1>5, <2>1, <1>4
    <2> HIDE DEF p, t
    <2>3. p + r \in 0 .. t - 1
      BY <1>1, <2>2
    <2> QED BY <2>3 DEF p, t
  <1>7. a = h * (c * b) + (b * l + r)
    BY <1>1, <1>2
  <1>8. (h * (c * b) + (b * l + r)) \div (c * b) = h
    <2> DEFINE t == c * b
               u == b * l + r
    <2>1. t \in Nat \ {0} /\ u \in 0 .. t - 1
      BY <1>4, <1>6
    <2> HIDE DEF t, u
    <2>2. (h * t + u) \div t = h
      BY <1>2, <2>1, DivIs
    <2> QED BY <2>2 DEF t, u
  <1> QED BY <1>3, <1>7, <1>8

\* The limbs and what they count for.
weighted(C) == [i \in Limbs |-> c_lo(C)[i] * W^i]

\* The limbs are limbs, and the rest is a number.
LEMMA LimbTypes ==
  ASSUME NEW C \in Nat
  PROVE  /\ c_lo(C) \in [Limbs -> 0 .. W - 1] /\ c_hi(C) \in Nat
         /\ \A i \in Limbs : weighted(C)[i] \in Nat
         /\ \A k \in 0 .. N_LIMBS : C \div W^k \in Nat
  <1>0. \A a \in Nat, b \in Nat \ {0} : a \div b \in Nat
    OBVIOUS
  <1>1. \A k \in 0 .. N_LIMBS : C \div W^k \in Nat
    BY <1>0, WholeR
  <1>2. ASSUME NEW i \in Limbs PROVE (C \div W^i) % W \in 0 .. W - 1
    <2>1. i \in 0 .. N_LIMBS
      BY Sizes DEF Limbs
    <2> DEFINE d == C \div W^i
    <2>2. d \in Int
      BY <1>1, <2>1
    <2> HIDE DEF d
    <2>3. d % W \in 0 .. W - 1
      BY <2>2, Powers, CongMod, Zenon
    <2> QED BY <2>3 DEF d
  <1>3. c_lo(C) \in [Limbs -> 0 .. W - 1]
    BY <1>2 DEF c_lo
  <1>4. c_hi(C) \in Nat
    BY <1>1, Sizes DEF c_hi
  <1>5. ASSUME NEW i \in Limbs PROVE weighted(C)[i] \in Nat
    <2>1. i \in 0 .. N_LIMBS
      BY Sizes DEF Limbs
    <2>2. c_lo(C)[i] \in Nat /\ W^i \in Nat
      BY <1>3, <2>1, WholeR
    <2>3. weighted(C)[i] = c_lo(C)[i] * W^i
      BY DEF weighted
    <2> QED BY <2>2, <2>3
  <1> QED BY <1>1, <1>3, <1>4, <1>5

\* C is what its limbs add up to.
LEMMA LimbsOfC ==
  ASSUME NEW C \in Nat
  PROVE  C = SumOver(weighted(C), 0 .. N_MUL - 1) + c_hi(C) * W^N_MUL
  <1> DEFINE w == weighted(C)
             S == {k \in Nat : k <= N_MUL =>
                     C = SumOver(w, 0 .. k - 1) + (C \div W^k) * W^k}
  <1>1. 0 \in S
    <2>1. SumOver(w, 0 .. 0 - 1) = 0
      BY SumOfNoLimbs
    <2>2. W^0 = 1 /\ C \div 1 = C
      BY WholeR
    <2>3. C = 0 + C * 1
      OBVIOUS
    <2> QED BY <2>1, <2>2, <2>3
  <1>2. ASSUME NEW k \in S PROVE k + 1 \in S
    <2> SUFFICES ASSUME k + 1 <= N_MUL
                 PROVE  C = SumOver(w, 0 .. (k + 1) - 1) + (C \div W^(k + 1)) * W^(k + 1)
      OBVIOUS
    <2> DEFINE p == W^k
               d == C \div p
               h == d \div W
               l == d % W
               s == SumOver(w, 0 .. k - 1)
    <2>1. k \in Limbs /\ k \in 0 .. N_MUL /\ k \in 0 .. N_LIMBS
      BY Sizes DEF Limbs
    <2>2. p \in Nat \ {0} /\ W^(k + 1) = W * p /\ W \in Nat \ {0}
      BY <2>1, WholeR, Powers
    <2>3. C = s + d * p
      <3>1. k <= N_MUL
        BY <2>1, Sizes
      <3> QED BY <1>2, <3>1
    <2>4. C \div W^(k + 1) = h
      <3> HIDE DEF p
      <3>1. C \div (W * p) = (C \div p) \div W
        BY <2>2, DivDiv
      <3> QED BY <2>2, <3>1
    <2>5. w[k] = l * p
      BY <2>1 DEF weighted, c_lo
    <2>6. s \in Int /\ SumOver(w, 0 .. (k + 1) - 1) = s + w[k]
      <3>1. Terms(w, k + 1)
        <4>1. \A i \in 0 .. (k + 1) - 1 : i \in Limbs
          BY Sizes DEF Limbs
        <4>2. \A i \in Limbs : w[i] \in Nat
          BY LimbTypes
        <4> HIDE DEF w
        <4> QED BY <4>1, <4>2 DEF Terms
      <3> QED BY <3>1, SumOfLimbs
    <2>7. d \in Nat
      BY <2>1, LimbTypes
    <2>8. h \in Int /\ l \in Int /\ d = W * h + l
      <3>1. d \in Int
        BY <2>7
      <3> HIDE DEF d
      <3>2. /\ d \div W \in Int /\ d % W \in 0 .. W - 1
            /\ d = W * (d \div W) + (d % W)
        BY <2>2, <3>1, DivMod, Zenon
      <3> QED BY <3>2
    <2> HIDE DEF p, d, h, l, s
    <2>9. s + d * p = (s + l * p) + h * (W * p)
      BY <2>2, <2>6, <2>8
    <2> QED BY <2>2, <2>3, <2>4, <2>5, <2>6, <2>9
  <1>3. S = Nat
    <2> HIDE DEF S
    <2>1. S \in SUBSET Nat
      BY DEF S
    <2> QED BY <1>1, <1>2, <2>1, InductiveSet
  <1>4. N_MUL \in S
    BY <1>3, Sizes
  <1> QED BY <1>4, Sizes DEF c_hi

(***************************************************************************)
(* What each wire carries for an input, however long it takes to get there *)
(***************************************************************************)

\* An input whose constants are those of its modulus.
Sound(y) ==
  /\ Modulus(y.q) /\ y.C \in 0 .. (y.q - 1) * (y.q - 1)
  /\ y.rho = rho(y.q) /\ y.mu = mu(y.q)

limb_rho(y)  == [i \in Limbs |-> y.rho[N_MUL - i]]
prod_of(y)   == [i \in Limbs |-> c_lo(y.C)[i] * limb_rho(y)[i]]
raw_of(y)    == SumOf(prod_of(y)) + c_hi(y.C)
T_acc_of(y)  == raw_of(y) % (y.q * W)
rho_mu_of(y) == [i \in Limbs |-> (limb_rho(y)[i] * y.mu) % W]
rm_of(y)     == [c   |-> [i \in Limbs |-> (c_lo(y.C)[i] * rho_mu_of(y)[i]) % W],
                 chi |-> (c_hi(y.C) * y.mu) % W]
m_of(y)      == (SumOf(rm_of(y).c) + rm_of(y).chi) % W
m_q_of(y)    == m_of(y) * y.q
join_of(y)   == LowerHalf(T_acc_of(y), m_q_of(y))
T_of(y)      == UpperHalf(join_of(y))
D_of(y)      == CondSub(T_of(y) \div W, y.q)

\* The parts of a sound input.
LEMMA SoundInput ==
  ASSUME NEW y, Sound(y)
  PROVE  /\ y.mu = mu(y.q)
         /\ \A i \in Limbs : limb_rho(y)[i] = rho(y.q)[N_MUL - i]
         /\ limb_rho(y) \in [Limbs -> 0 .. y.q - 1]
         /\ Modulus(y.q) /\ y.C \in Nat /\ y.C <= (y.q - 1) * (y.q - 1)
  <1>1. /\ Modulus(y.q) /\ y.C \in 0 .. (y.q - 1) * (y.q - 1)
        /\ y.rho = rho(y.q) /\ y.mu = mu(y.q)
    BY DEF Sound
  <1>3. \A i \in Limbs : limb_rho(y)[i] = rho(y.q)[N_MUL - i]
    BY <1>1, Zenon DEF limb_rho
  <1>4. \A i \in Limbs : N_MUL - i \in 1 .. N_MUL
    BY Sizes DEF Limbs
  <1>5. \A i \in Limbs : limb_rho(y)[i] \in 0 .. y.q - 1
    <2>1. rho(y.q) \in [1 .. N_MUL -> 0 .. y.q - 1]
      BY <1>1, Constants
    <2> QED BY <1>3, <1>4, <2>1
  <1>6. limb_rho(y) \in [Limbs -> 0 .. y.q - 1]
    <2>1. limb_rho(y) = [i \in Limbs |-> limb_rho(y)[i]]
      BY DEF limb_rho
    <2> HIDE DEF limb_rho
    <2> QED BY <1>5, <2>1
  <1>7. y.C \in Nat /\ y.C <= (y.q - 1) * (y.q - 1)
    <2>1. y.q \in Nat \ {0}
      BY <1>1, Constants
    <2> DEFINE t == (y.q - 1) * (y.q - 1)
    <2>2. t \in Int
      BY <2>1
    <2>3. y.C \in 0 .. t
      BY <1>1
    <2> HIDE DEF t
    <2>4. y.C \in Nat /\ y.C <= t
      BY <2>2, <2>3
    <2> QED BY <2>4 DEF t
  <1> QED BY <1>1, <1>3, <1>6, <1>7

\* A legal input is sound, and reduced with its own constants whether they are
\* ports or parameters.
LEMMA EffectiveConstants ==
  ASSUME NEW y, Legal(y)
  PROVE  /\ Sound(y) /\ q_eff(y) = y.q /\ mu_eff(y) = y.mu
         /\ rho_of_limb(y) = limb_rho(y)
         /\ cfg.FIXED_Q => y.q = cfg.Q_VALUE
  <1>1. /\ Modulus(y.q) /\ y.C \in 0 .. (y.q - 1) * (y.q - 1)
        /\ y.rho = rho(y.q) /\ y.mu = mu(y.q)
        /\ cfg.FIXED_Q => y.q = cfg.Q_VALUE
    BY DEF Legal
  <1>2. q_eff(y) = y.q /\ mu_eff(y) = y.mu /\ rho_eff(y) = y.rho
    BY <1>1, Zenon DEF q_eff, mu_eff, rho_eff
  <1>3. rho_of_limb(y) = limb_rho(y)
    BY <1>2 DEF rho_of_limb, limb_rho
  <1> QED BY <1>1, <1>2, <1>3 DEF Sound

\* What path B adds up is a number.
LEMMA RawTypes ==
  ASSUME NEW y, Sound(y)
  PROVE  /\ prod_of(y) \in [Limbs -> Nat] /\ Terms(prod_of(y), N_MUL)
         /\ SumOf(prod_of(y)) = SumOver(prod_of(y), 0 .. N_MUL - 1)
         /\ SumOver(prod_of(y), 0 .. N_MUL - 1) \in Int
         /\ c_hi(y.C) \in Nat /\ raw_of(y) \in Int
         /\ raw_of(y) = SumOver(prod_of(y), 0 .. N_MUL - 1) + c_hi(y.C)
  <1>1. c_lo(y.C) \in [Limbs -> 0 .. W - 1] /\ c_hi(y.C) \in Nat
    BY SoundInput, LimbTypes
  <1>2. limb_rho(y) \in [Limbs -> 0 .. y.q - 1] /\ y.q \in Nat
    BY SoundInput, Constants
  <1>3. \A i \in Limbs : c_lo(y.C)[i] \in Nat /\ limb_rho(y)[i] \in Nat
    BY <1>1, <1>2, Powers
  <1>4. prod_of(y) \in [Limbs -> Nat]
    BY <1>3 DEF prod_of
  <1>5. Terms(prod_of(y), N_MUL)
    BY <1>4 DEF Terms, Limbs
  <1>6. SumOf(prod_of(y)) = SumOver(prod_of(y), 0 .. N_MUL - 1)
    <2>1. DOMAIN prod_of(y) = 0 .. N_MUL - 1
      BY DEF prod_of, Limbs
    <2> QED BY <2>1, SumOfIs
  <1>7. SumOver(prod_of(y), 0 .. N_MUL - 1) \in Int
    BY <1>5, Sizes, SumOfLimbsInt
  <1> QED BY <1>1, <1>4, <1>5, <1>6, <1>7 DEF raw_of

\* Path B: the folded sum is C / W^N_MUL modulo q.
LEMMA FoldIsCongruent ==
  ASSUME NEW y, Sound(y)
  PROVE  Cong(raw_of(y) * W^N_MUL, y.C, y.q)
  <1> DEFINE q == y.q
             P == W^N_MUL
             c == c_lo(y.C)
             h == rho(y.q)
             F == prod_of(y)
             G == [i \in Limbs |-> F[i] * P]
             H == weighted(y.C)
  <1>1. q \in Nat \ {0} /\ h \in [1 .. N_MUL -> 0 .. q - 1]
        /\ \A k \in 1 .. N_MUL : (h[k] * W^k) % q = 1 % q
    BY SoundInput, Constants
  <1>2. c \in [Limbs -> 0 .. W - 1] /\ y.C \in Nat
        /\ \A i \in Limbs : H[i] \in Nat /\ H[i] = c[i] * W^i
    BY SoundInput, LimbTypes DEF weighted
  <1>3. ASSUME NEW i \in Limbs
        PROVE  G[i] \in Int /\ Cong(G[i], H[i], q)
    <2> DEFINE k == N_MUL - i
               a == c[i]
               r == h[k]
               u == W^k
               v == W^i
    <2>1. k \in 1 .. N_MUL /\ i \in Nat /\ k \in Nat /\ k + i = N_MUL
          /\ k \in 0 .. N_LIMBS /\ i \in 0 .. N_LIMBS /\ N_MUL <= MaxExp
      BY Sizes, Powers DEF Limbs
    <2>2. P = u * v
      <3>1. W \in Bases
        BY DEF Bases
      <3>2. W^(k + i) = W^k * W^i
        BY <2>1, <3>1, PowerSum
      <3> QED BY <2>1, <3>2
    <2>3. a \in Nat /\ r \in Nat /\ u \in Nat /\ v \in Nat
      <3>1. a \in 0 .. W - 1
        BY <1>2
      <3>2. r \in 0 .. q - 1
        BY <1>1, <2>1
      <3>3. u \in Nat /\ v \in Nat
        BY <2>1, WholeR
      <3> QED BY <3>1, <3>2, <3>3, <1>1, Powers
    <2>4. F[i] = a * r
      BY SoundInput DEF prod_of
    <2>5. G[i] = (a * r) * P
      BY <2>4
    <2>6. H[i] = a * v
      BY <1>2
    <2>7. Cong(r * u, 1, q)
      <3>1. (r * u) % q = 1 % q
        BY <1>1, <2>1
      <3> DEFINE x == r * u
      <3>2. x \in Int /\ x % q = 1 % q
        BY <2>3, <3>1
      <3> HIDE DEF x, q
      <3>3. Cong(x, 1, q)
        BY <1>1, <3>2, CongOfMod
      <3> QED BY <3>3 DEF x
    <2> HIDE DEF k, a, r, u, v, q, P, F, G, H
    <2>8. Cong((r * u) * (a * v), 1 * (a * v), q)
      <3>1. r * u \in Int /\ a * v \in Int /\ 1 \in Int /\ q \in Int
        BY <1>1, <2>3
      <3> QED BY <2>7, <3>1, CongMul
    <2>9. (a * r) * (u * v) = (r * u) * (a * v) /\ 1 * (a * v) = a * v
          /\ (a * r) * (u * v) \in Int
      BY <2>3
    <2> QED BY <2>2, <2>5, <2>6, <2>8, <2>9
  <1>4. Terms(F, N_MUL) /\ SumOver(F, 0 .. N_MUL - 1) \in Int
        /\ c_hi(y.C) \in Nat /\ raw_of(y) = SumOver(F, 0 .. N_MUL - 1) + c_hi(y.C)
    BY RawTypes
  <1>5. Terms(G, N_MUL) /\ Terms(H, N_MUL)
    <2>1. \A i \in 0 .. N_MUL - 1 : i \in Limbs
      BY DEF Limbs
    <2> HIDE DEF G, H
    <2> QED BY <1>2, <1>3, <2>1 DEF Terms
  <1>6. P \in Nat
    BY WholeR, Sizes
  <1>7. \A i \in 0 .. N_MUL - 1 : G[i] = F[i] * P
    BY DEF Limbs
  <1>8. \A i \in 0 .. N_MUL - 1 : Cong(G[i], H[i], q)
    <2> HIDE DEF G, H, q
    <2> QED BY <1>3 DEF Limbs
  <1>9. y.C = SumOver(H, 0 .. N_MUL - 1) + c_hi(y.C) * P
    BY <1>2, LimbsOfC
  <1> HIDE DEF q, P, F, G, H
  <1>10. SumOver(G, 0 .. N_MUL - 1) = SumOver(F, 0 .. N_MUL - 1) * P
    BY <1>4, <1>6, <1>7, Sizes, SumScaled
  <1>11. Cong(SumOver(G, 0 .. N_MUL - 1), SumOver(H, 0 .. N_MUL - 1), q)
    BY <1>1, <1>5, <1>8, Sizes, SumCong
  <1> DEFINE f == SumOver(F, 0 .. N_MUL - 1)
             g == SumOver(G, 0 .. N_MUL - 1)
             s == SumOver(H, 0 .. N_MUL - 1)
             d == c_hi(y.C)
  <1>12. f \in Int /\ g \in Int /\ s \in Int /\ d \in Int /\ d * P \in Int
    BY <1>4, <1>5, <1>6, Sizes, SumOfLimbsInt
  <1>13. raw_of(y) = f + d /\ y.C = s + d * P /\ g = f * P /\ Cong(g, s, q)
    BY <1>4, <1>9, <1>10, <1>11
  <1> HIDE DEF f, g, s, d
  <1>14. Cong(d * P, d * P, q) /\ q \in Int
    BY <1>1, <1>12, CongRefl
  <1>15. Cong(g + d * P, s + d * P, q)
    BY <1>12, <1>13, <1>14, CongAdd
  <1>16. raw_of(y) * P = g + d * P
    BY <1>6, <1>12, <1>13
  <1> QED BY <1>13, <1>15, <1>16 DEF q, P

\* What a setting promises.
LEMMA SettingFacts ==
  ASSUME NEW c \in Configs
  PROVE  /\ c.DOT_LAT \in Nat /\ c.DOT_LAT >= 1 /\ c.ACC_LAT \in Nat /\ c.RM_LAT \in Nat
         /\ c.MVAL_LAT \in Nat /\ c.MR_LAT \in Nat
         /\ c.FF_RM \in 0 .. 1 /\ c.FF_JOIN_ADD \in 0 .. 1
         /\ c.FF_MR_POST \in 0 .. 1 /\ c.FF_OUT \in 0 .. 1
         /\ c.FIXED_Q \in BOOLEAN /\ c.ACC_MAX_COND_SUB \in Nat
         /\ c.FIXED_Q => cond_sub_opt(c.Q_VALUE) <= c.ACC_MAX_COND_SUB
         /\ ~c.FIXED_Q => N_LIMBS - 1 <= c.ACC_MAX_COND_SUB
         /\ c.ACC_MAX_COND_SUB < 2^extra
  <1> USE ConfigsAssumption
  <1>1. {c.ACC_LAT, c.RM_LAT, c.MVAL_LAT, c.MR_LAT} \subseteq Nat
    OBVIOUS
  <1>2. {c.FF_RM, c.FF_JOIN_ADD, c.FF_MR_POST, c.FF_OUT} \subseteq 0 .. 1
    OBVIOUS
  <1>3. c.DOT_LAT \in Nat \ {0} /\ c.FIXED_Q \in BOOLEAN /\ c.ACC_MAX_COND_SUB \in Nat
    OBVIOUS
  <1>4. (IF c.FIXED_Q THEN cond_sub_opt(c.Q_VALUE) ELSE N_LIMBS - 1)
          <= c.ACC_MAX_COND_SUB
    OBVIOUS
  <1>5. c.ACC_MAX_COND_SUB < 2^extra
    BY DEF extra
  <1> QED BY ONLY <1>1, <1>2, <1>3, <1>4, <1>5

\* The sum of the powers of 1/W, in the order of the limbs.
LEMMA SumOfRho ==
  ASSUME NEW y, Sound(y)
  PROVE  LET s == SumOver(limb_rho(y), 0 .. N_MUL - 1) IN
         /\ s = SumOf(rho(y.q)) /\ Terms(limb_rho(y), N_MUL)
         /\ s \in Nat /\ s <= N_MUL * y.q
  <1> DEFINE F == rho(y.q)
             G == limb_rho(y)
             q == y.q
             s == SumOver(G, 0 .. N_MUL - 1)
  <1>1. q \in Nat \ {0} /\ F \in [1 .. N_MUL -> 0 .. q - 1] /\ DOMAIN F = 1 .. N_MUL
    BY SoundInput, Constants
  <1>2. G \in [Limbs -> 0 .. q - 1] /\ \A i \in 0 .. N_MUL - 1 : G[i] = F[N_MUL - i]
    BY SoundInput DEF Limbs
  <1> HIDE DEF F, G, q
  <1>3. SumOver(G, 0 .. N_MUL - 1) = SumOver(F, 1 .. N_MUL)
    <2>1. \A k \in 1 .. N_MUL : F[k] \in Int
      BY <1>1
    <2> QED BY <1>2, <2>1, Sizes, SumReversed
  <1>4. SumOf(F) = SumOver(F, 1 .. N_MUL)
    BY <1>1, SumOfIs
  <1>5. \A i \in 0 .. N_MUL - 1 : G[i] \in 0 .. q
    BY <1>1, <1>2 DEF Limbs
  <1>6. s \in 0 .. N_MUL * q
    BY <1>1, <1>5, Sizes, SumRange
  <1>7. N_MUL * q \in Nat
    BY <1>1, Sizes
  <1>8. Terms(G, N_MUL)
    BY <1>1, <1>5 DEF Terms
  <1>9. s \in Nat /\ s <= N_MUL * q
    <2> HIDE DEF s
    <2> DEFINE t == N_MUL * q
    <2>1. s \in 0 .. t /\ t \in Nat
      BY <1>6, <1>7
    <2> HIDE DEF t
    <2>2. s \in Nat /\ s <= t
      BY <2>1
    <2> QED BY <2>2 DEF t
  <1> QED BY <1>3, <1>4, <1>8, <1>9 DEF F, G, q

\* The high part of C is below q * W.
LEMMA HighPart ==
  ASSUME NEW y, Sound(y)
  PROVE  /\ c_hi(y.C) \in Nat /\ c_hi(y.C) < y.q * W
         /\ y.q * W \in Nat \ {0} /\ y.q * W < 2^ACCW
  <1> DEFINE q == y.q
             C == y.C
             P == W^N_MUL
             h == c_hi(C)
  <1>1. /\ q \in Nat \ {0} /\ q < 2^LOGQ /\ C \in Nat /\ C <= (q - 1) * (q - 1)
        /\ 2^LOGQ \in Nat
    BY SoundInput, Constants, Widths
  <1>2. P \in Nat \ {0} /\ W \in Nat \ {0} /\ 2^LOGQ <= W * P
    BY WholeR, Sizes, Powers
  <1>3. h \in Nat /\ h * P <= C
    <2>1. h = C \div P
      BY DEF c_hi
    <2>0. C \in Int /\ P \in Nat \ {0}
      BY <1>1, <1>2
    <2> HIDE DEF h, C, P
    <2>2. C \div P \in Int /\ C % P \in 0 .. P - 1 /\ C = P * (C \div P) + (C % P)
      BY <2>0, DivMod, Zenon
    <2>3. C \div P \in Nat
      BY <1>1, <1>2
    <2> DEFINE r == C % P
    <2>4. r \in Nat /\ C = P * h + r /\ h \in Nat
      BY <2>1, <2>2, <2>3, <1>2
    <2> HIDE DEF r
    <2> QED BY <2>4, <1>2
  <1> HIDE DEF q, C, P, h
  <1>4. q < W * P /\ W * P \in Nat /\ q * W \in Nat \ {0}
    BY <1>1, <1>2
  <1>5. h * P < q * (W * P)
    <2>1. (q - 1) * (q - 1) <= (q - 1) * q /\ (q - 1) * q < q * q /\ (q - 1) * (q - 1) \in Int
          /\ (q - 1) * q \in Int /\ q * q \in Int
      BY <1>1
    <2>2. q * q <= q * (W * P) /\ q * (W * P) \in Int
      BY <1>1, <1>4, MulMono
    <2>3. h * P \in Int
      BY <1>2, <1>3
    <2> QED BY <1>1, <1>3, <2>1, <2>2, <2>3
  <1>6. q * (W * P) = (q * W) * P
    BY <1>1, <1>2
  <1>7. h < q * W
    <2> DEFINE t == q * W
    <2>1. t \in Nat /\ h * P < t * P
      BY <1>4, <1>5, <1>6
    <2> HIDE DEF t
    <2>2. h < t
      BY <1>2, <1>3, <2>1, MulStrict
    <2> QED BY <2>2 DEF t
  <1>8. q * W < 2^ACCW
    <2> DEFINE t == 2^LOGQ
    <2>1. t \in Nat /\ q < t /\ 2^ACCW = t * W
      BY <1>1, Widths
    <2> HIDE DEF t
    <2>2. q * W < t * W
      BY <1>1, <1>2, <2>1, MulStrict
    <2> QED BY <2>1, <2>2
  <1> QED BY <1>3, <1>4, <1>7, <1>8 DEF q, C, P, h

\* Path B: the folded sum's quotient by q * W is within the bound of the chain.
LEMMA FoldIsBounded ==
  ASSUME cfg \in Configs, NEW y, Legal(y)
  PROVE  /\ raw_of(y) \in Nat
         /\ raw_of(y) < (cfg.ACC_MAX_COND_SUB + 1) * (y.q * W)
  <1> DEFINE q == y.q
             M == cfg.ACC_MAX_COND_SUB
             F == prod_of(y)
             G == limb_rho(y)
             f == SumOver(F, 0 .. N_MUL - 1)
             g == SumOver(G, 0 .. N_MUL - 1)
             h == c_hi(y.C)
  <1>0. Sound(y) /\ (cfg.FIXED_Q => q = cfg.Q_VALUE)
    BY EffectiveConstants
  <1>1. q \in Nat \ {0} /\ W \in Nat \ {0} /\ h \in Nat /\ h < q * W /\ M \in Nat
    BY <1>0, SoundInput, Constants, Powers, HighPart, SettingFacts
  <1>2. raw_of(y) = f + h /\ f \in Int /\ Terms(F, N_MUL)
    BY <1>0, RawTypes
  <1>3. g \in Nat /\ g <= N_MUL * q /\ g = SumOf(rho(q)) /\ Terms(G, N_MUL)
    BY <1>0, SumOfRho
  <1>4. f \in Nat /\ f <= (W - 1) * g
    <2>1. ASSUME NEW i \in 0 .. N_MUL - 1
          PROVE  F[i] <= (W - 1) * G[i]
      <3> DEFINE a == c_lo(y.C)[i]
                 r == G[i]
      <3>1. i \in Limbs
        BY DEF Limbs
      <3>2. c_lo(y.C) \in [Limbs -> 0 .. W - 1] /\ G \in [Limbs -> 0 .. q - 1]
        BY <1>0, SoundInput, LimbTypes
      <3>3. a \in Nat /\ a <= W - 1 /\ r \in Nat
        BY <1>1, <3>1, <3>2
      <3>4. F[i] = a * r
        BY <3>1 DEF prod_of
      <3> HIDE DEF a, r
      <3>5. a * r <= (W - 1) * r
        BY <1>1, <3>3
      <3> QED BY <3>4, <3>5 DEF r
    <2>2. f <= (W - 1) * g
      <3>1. Terms(F, N_MUL) /\ Terms(G, N_MUL) /\ N_MUL \in Nat
        BY <1>2, <1>3, Sizes
      <3> DEFINE w == W - 1
      <3>2. w \in Int
        BY <1>1
      <3>3. \A i \in 0 .. N_MUL - 1 : F[i] <= w * G[i]
        BY <2>1
      <3> HIDE DEF F, G, w
      <3>4. SumOver(F, 0 .. N_MUL - 1) <= w * SumOver(G, 0 .. N_MUL - 1)
        BY <3>1, <3>2, <3>3, SumLeq
      <3> QED BY <3>4 DEF w
    <2>3. f \in Nat
      <3>1. \A i \in 0 .. N_MUL - 1 : F[i] \in Nat
        BY <1>0, RawTypes DEF Limbs
      <3>2. \A i \in 0 .. N_MUL - 1 : (-1) * F[i] <= 0
        <4> HIDE DEF F
        <4> QED BY <3>1
      <3> DEFINE Z == [i \in 0 .. N_MUL - 1 |-> 0]
      <3>3. SumOver(Z, 0 .. N_MUL - 1) \in 0 .. N_MUL * 0
        BY Sizes, SumRange
      <3>4. Terms(Z, N_MUL)
        BY DEF Terms
      <3>5. \A i \in 0 .. N_MUL - 1 : Z[i] <= 1 * F[i]
        <4>1. \A i \in 0 .. N_MUL - 1 : Z[i] = 0
          OBVIOUS
        <4> HIDE DEF F, Z
        <4> QED BY <3>1, <4>1
      <3> HIDE DEF F, Z
      <3>6. SumOver(Z, 0 .. N_MUL - 1) <= 1 * f
        BY <1>2, <3>4, <3>5, Sizes, SumLeq
      <3> QED BY <1>2, <3>3, <3>6, Sizes
    <2> QED BY <2>2, <2>3
  \* Whichever bound the chain was sized for.
  <1>5. g <= q * M
    <2>1. CASE cfg.FIXED_Q
      <3>1. q = cfg.Q_VALUE
        BY <1>0, <2>1
      <3>2. cond_sub_opt(q) <= M
        BY <2>1, <3>1, SettingFacts
      <3>3. cond_sub_opt(q) = g \div q + 1
        BY <1>3 DEF cond_sub_opt
      <3> HIDE DEF g, q, M
      <3>0. g \in Int /\ q \in Nat \ {0}
        BY <1>1, <1>3
      <3>4. g \div q \in Int /\ g % q \in 0 .. q - 1 /\ g = q * (g \div q) + (g % q)
        BY <3>0, DivMod, Zenon
      <3> DEFINE d == g \div q
                 r == g % q
      <3>5. d \in Int /\ r \in 0 .. q - 1 /\ g = q * d + r /\ d + 1 <= M
        BY <3>2, <3>3, <3>4
      <3> HIDE DEF d, r
      <3>6. g <= q * (d + 1)
        BY <1>1, <3>5
      <3>7. q * (d + 1) <= q * M
        <4>1. d + 1 \in Nat
          <5> SUFFICES ASSUME d + 1 < 0 PROVE FALSE
            BY <3>5
          <5> DEFINE e == -(d + 1)
          <5>1. e \in Nat \ {0}
            BY <3>5
          <5>2. q * (d + 1) = -(q * e)
            BY <1>1, <3>5
          <5> HIDE DEF e
          <5>3. q * e \in Nat /\ q * e > 0
            BY <1>1, <5>1
          <5> QED BY <1>3, <3>6, <5>2, <5>3
        <4> QED BY <1>1, <3>5, <4>1, MulMono
      <3>8. q * (d + 1) \in Int /\ q * M \in Int
        BY <1>1, <3>5
      <3> QED BY <1>3, <3>6, <3>7, <3>8
    <2>2. CASE ~cfg.FIXED_Q
      <3>1. N_MUL <= M
        BY <2>2, SettingFacts, Sizes
      <3> HIDE DEF g, q, M
      <3>2. N_MUL * q <= M * q /\ N_MUL * q \in Int /\ M * q \in Int /\ M * q = q * M
        BY <1>1, <3>1, Sizes, MulMono
      <3> QED BY <1>3, <3>2
    <2> QED BY <2>1, <2>2
  <1> HIDE DEF q, M, F, G, f, g, h
  <1>6. f <= M * (q * W)
    <2>1. (W - 1) * g <= W * g /\ (W - 1) * g \in Int /\ W * g \in Int
      BY <1>1, <1>3
    <2>2. q * M \in Nat
      BY <1>1
    <2>3. W * g <= W * (q * M) /\ W * (q * M) \in Int
      BY <1>1, <1>3, <1>5, <2>2, MulMono
    <2>4. W * (q * M) = M * (q * W)
      BY <1>1
    <2> QED BY <1>4, <2>1, <2>3, <2>4
  <1>7. f + h < (M + 1) * (q * W)
    <2> DEFINE t == q * W
    <2>1. t \in Int /\ h < t /\ f <= M * t
      BY <1>1, <1>6
    <2> HIDE DEF t
    <2>2. (M + 1) * t = M * t + t /\ M * t \in Int
      BY <1>1, <2>1
    <2>3. f + h < (M + 1) * t
      BY <1>1, <1>4, <2>1, <2>2
    <2> QED BY <2>3 DEF t
  <1>8. f + h \in Nat
    BY <1>1, <1>4
  <1> QED BY <1>2, <1>7, <1>8 DEF q, M

(***************************************************************************)
(* The chain of conditional subtractions                                   *)
(***************************************************************************)

\* The difference of a stage, in the bits it has: the borrow tells which is smaller.
LEMMA Borrow ==
  ASSUME NEW w \in Nat \ {0}, NEW v \in Nat, v < 2 * w, NEW p \in Nat, p <= w
  PROVE  /\ p % (2 * w) = p
         /\ v >= p => (v - p) % (2 * w) = v - p
         /\ v < p => (v - p) % (2 * w) = 2 * w - (p - v)
  <1> DEFINE m == 2 * w
  <1>1. m \in Nat \ {0} /\ m = 2 * w
    OBVIOUS
  <1> HIDE DEF m
  <1>2. p \in 0 .. m - 1 /\ p = 0 * m + p
    BY <1>1
  <1>3. p % m = p
    BY <1>1, <1>2, DivIs
  <1>4. ASSUME v >= p PROVE (v - p) % m = v - p
    <2>1. v - p \in 0 .. m - 1 /\ v - p = 0 * m + (v - p)
      BY <1>1, <1>4
    <2> QED BY <1>1, <2>1, DivIs
  <1>5. ASSUME v < p PROVE (v - p) % m = m - (p - v)
    <2> DEFINE r == m - (p - v)
    <2>1. r \in 0 .. m - 1 /\ v - p = (-1) * m + r
      BY <1>1, <1>5
    <2> HIDE DEF r
    <2>2. ((-1) * m + r) % m = r
      BY <1>1, <2>1, DivIs
    <2> QED BY <2>1, <2>2 DEF r
  <1> QED BY <1>3, <1>4, <1>5 DEF m

\* A stage subtracts the shifted modulus exactly when it fits.
LEMMA StageReduces ==
  ASSUME NEW val \in Nat, val < 2^SUM_W, NEW Q \in Nat \ {0}, NEW sh \in 0 .. SUM_W,
         Q * 2^sh <= 2^SUM_W, val < 2 * (Q * 2^sh)
  PROVE  LET r == Stage!val_comb(val, Q, sh) IN
         r \in Nat /\ r < 2^SUM_W /\ r < Q * 2^sh /\ Cong(r, val, Q)
  <1> DEFINE w == 2^SUM_W
             t == 2^sh
             p == Q * t
             d == Stage!diff(val, Q, sh)
             r == Stage!val_comb(val, Q, sh)
  <1>1. w \in Nat \ {0} /\ 2^(SUM_W + 1) = 2 * w /\ SUM_W \in Nat /\ SUM_W + 1 <= MaxExp
    BY Widths, Powers
  <1>2. t \in Nat \ {0} /\ sh \in 0 .. SUM_W + 1
    <2>1. sh \in 0 .. MaxExp /\ 2 \in Bases
      BY <1>1, Powers DEF Bases
    <2> QED BY <1>1, <2>1, Powers
  <1>3. p \in Nat /\ p <= w /\ val < w /\ val < 2 * w /\ val < 2 * p
    BY <1>1, <1>2
  <1>4. d = (val - (p % (2 * w))) % (2 * w)
    <2>1. SUM_W + 1 \in 0 .. SUM_W + 1
      BY <1>1
    <2>2. d = (val - ((Q * 2^sh) % 2^(SUM_W + 1))) % 2^(SUM_W + 1)
      BY <1>2, <2>1 DEF Stage!diff, Stage!q_shifted
    <2> QED BY <1>1, <2>2
  <1>5. r = IF d >= w THEN val ELSE d
    <2>1. SUM_W \in 0 .. SUM_W + 1
      BY <1>1
    <2> QED BY <2>1 DEF Stage!val_comb
  <1>6. val \in Nat
    OBVIOUS
  <1> HIDE DEF w, d, r
  <1>7. CASE val >= p
    <2>1. d = val - p
      BY <1>1, <1>3, <1>4, <1>7, Borrow
    <2>2. r = val - p
      BY <1>1, <1>3, <1>5, <2>1
    <2>3. r \in Nat /\ r < w /\ r < p
      BY <1>1, <1>3, <1>7, <2>2
    <2>4. Cong(r, val, Q)
      <3>1. -t \in Int /\ r = val + (-t) * Q
        BY <1>2, <2>2
      <3> QED BY <3>1 DEF Cong
    <2> QED BY <2>3, <2>4 DEF w, r
  <1>8. CASE val < p
    <2>1. d = 2 * w - (p - val)
      BY <1>1, <1>3, <1>4, <1>8, Borrow
    <2> HIDE DEF p
    <2>2. r = val
      BY <1>1, <1>3, <1>5, <1>8, <2>1
    <2>3. Cong(r, val, Q)
      BY <2>2, CongRefl
    <2> QED BY <1>3, <1>8, <2>2, <2>3 DEF w, r, p
  <1> QED BY <1>3, <1>7, <1>8

num_cs == num_cond_sub_stages(cfg.ACC_MAX_COND_SUB)

\* The number of stages fits the bits of the sum.
LEMMA ChainLength ==
  ASSUME cfg \in Configs
  PROVE  /\ num_cs \in 0 .. extra /\ cfg.ACC_MAX_COND_SUB \in Nat
         /\ cfg.ACC_MAX_COND_SUB + 1 <= 2^num_cs
         /\ cfg.ACC_MAX_COND_SUB + 1 <= 2^extra
  <1> DEFINE M == cfg.ACC_MAX_COND_SUB
  <1>1. M \in Nat /\ M < 2^extra /\ extra \in 0 .. MaxExp /\ 2^extra \in Nat
    BY SettingFacts, Widths, Sizes, Powers
  <1>2. num_cs = IF M = 0 THEN 0 ELSE clog2_val(M + 1)
    BY DEF num_cs, num_cond_sub_stages
  <1> HIDE DEF M
  <1>3. M + 1 \in Nat /\ M + 1 <= 2^extra
    BY <1>1
  <1>4. CASE M = 0
    <2>1. 2^0 = 1 /\ 0 \in 0 .. extra
      BY <1>1, Powers DEF Bases
    <2> QED BY <1>1, <1>2, <1>3, <1>4, <2>1 DEF M
  <1>5. CASE M # 0
    <2>1. clog2_val(M + 1) \in 0 .. extra /\ M + 1 <= 2^clog2_val(M + 1)
      BY <1>1, <1>3, Clog2
    <2> QED BY <1>1, <1>2, <1>3, <1>5, <2>1 DEF M
  <1> QED BY <1>4, <1>5

\* The values after the stages.
Entering(s, Q, v, n) ==
  IF n = 0 THEN s % 2^SUM_W ELSE Stage!val_comb(v[n - 1], Q, num_cs - n)
Chain(s, Q, v) == v = [n \in 0 .. num_cs |-> Entering(s, Q, v, n)]

\* The chain is unrolled stage by stage.
LEMMA ChainIs ==
  ASSUME cfg \in Configs, NEW s, NEW Q
  PROVE  \E v : /\ v[0] = s % 2^SUM_W
                /\ \A n \in 1 .. num_cs : v[n] = Stage!val_comb(v[n - 1], Q, num_cs - n)
                /\ modacc(s, Q) = v[num_cs] % 2^ACCW
  <1> DEFINE Up(v, k) == /\ v[0] = s % 2^SUM_W
                         /\ \A n \in 1 .. k : v[n] = Stage!val_comb(v[n - 1], Q, num_cs - n)
             C == {k \in Nat : \E v : Up(v, k)}
  <1>1. num_cs \in Nat
    BY ChainLength, Widths
  <1>2. 0 \in C
    <2> DEFINE v == [n \in 0 .. 0 |-> s % 2^SUM_W]
    <2>1. v[0] = s % 2^SUM_W
      OBVIOUS
    <2>2. \A n \in 1 .. 0 : FALSE
      OBVIOUS
    <2> HIDE DEF v
    <2>3. Up(v, 0)
      BY <2>1, <2>2
    <2> QED BY <2>3
  <1>3. ASSUME NEW k \in C PROVE k + 1 \in C
    <2>1. k \in Nat /\ \E v : Up(v, k)
      OBVIOUS
    <2>2. PICK v : Up(v, k)
      BY <2>1
    <2> DEFINE new == Stage!val_comb(v[k], Q, num_cs - (k + 1))
               u == [n \in 0 .. k + 1 |-> IF n = k + 1 THEN new ELSE v[n]]
    <2>3. u[k + 1] = new /\ \A n \in 0 .. k : u[n] = v[n]
      <3>1. k + 1 \in 0 .. k + 1
        BY <2>1
      <3>2. \A n \in 0 .. k : n \in 0 .. k + 1 /\ n # k + 1
        BY <2>1
      <3> HIDE DEF new
      <3> QED BY <3>1, <3>2
    <2> HIDE DEF u
    <2>4. u[0] = s % 2^SUM_W
      <3>1. 0 \in 0 .. k
        BY <2>1
      <3> QED BY <2>2, <2>3, <3>1
    <2>5. ASSUME NEW n \in 1 .. k + 1
          PROVE  u[n] = Stage!val_comb(u[n - 1], Q, num_cs - n)
      <3>1. n - 1 \in 0 .. k
        BY <2>1
      <3>2. u[n - 1] = v[n - 1]
        BY <2>3, <3>1
      <3>3. CASE n = k + 1
        <4>1. n - 1 = k
          BY <2>1, <3>3
        <4> QED BY <2>3, <3>2, <3>3, <4>1
      <3>4. CASE n # k + 1
        <4>1. n \in 1 .. k /\ n \in 0 .. k
          BY <2>1, <3>4
        <4> QED BY <2>2, <2>3, <3>2, <4>1
      <3> QED BY <3>3, <3>4
    <2>6. Up(u, k + 1)
      BY <2>4, <2>5
    <2> HIDE DEF Up
    <2> QED BY <2>1, <2>6
  <1>4. C = Nat
    <2> HIDE DEF C
    <2>1. C \in SUBSET Nat
      BY DEF C
    <2> QED BY <1>2, <1>3, <2>1, InductiveSet
  <1>5. PICK v : Up(v, num_cs)
    BY <1>1, <1>4
  <1> DEFINE u == [n \in 0 .. num_cs |-> v[n]]
  <1>6. \A n \in 0 .. num_cs : u[n] = v[n]
    OBVIOUS
  <1>7. u = [n \in 0 .. num_cs |-> u[n]]
    OBVIOUS
  <1> HIDE DEF u
  <1>8. ASSUME NEW n \in 0 .. num_cs PROVE u[n] = Entering(s, Q, u, n)
    <2>1. CASE n = 0
      BY <1>5, <1>6, <2>1 DEF Entering
    <2>2. CASE n # 0
      <3>1. n \in 1 .. num_cs /\ n - 1 \in 0 .. num_cs
        BY <1>1, <2>2
      <3>2. u[n] = v[n] /\ u[n - 1] = v[n - 1]
        BY <1>6, <3>1
      <3>3. v[n] = Stage!val_comb(v[n - 1], Q, num_cs - n)
        BY <1>5, <3>1
      <3> QED BY <2>2, <3>2, <3>3, Zenon DEF Entering
    <2> QED BY <2>1, <2>2
  <1>9. Chain(s, Q, u)
    <2> DEFINE E(n) == Entering(s, Q, u, n)
    <2>1. \A n \in 0 .. num_cs : u[n] = E(n)
      BY <1>8
    <2> HIDE DEF E
    <2>2. u = [n \in 0 .. num_cs |-> E(n)]
      BY <1>7, <2>1
    <2> QED BY <2>2 DEF E, Chain
  <1> DEFINE val == CHOOSE w : Chain(s, Q, w)
  <1>10. Chain(s, Q, val)
    BY <1>9
  <1>11. modacc(s, Q) = val[num_cs] % 2^ACCW
    BY DEF modacc, Chain, Entering, num_cs
  <1> HIDE DEF val
  <1>12. \A n \in 0 .. num_cs : val[n] = Entering(s, Q, val, n)
    BY <1>10 DEF Chain
  <1>13. val[0] = s % 2^SUM_W
    <2>1. 0 \in 0 .. num_cs
      BY <1>1
    <2> QED BY <1>12, <2>1 DEF Entering
  <1>14. \A n \in 1 .. num_cs : val[n] = Stage!val_comb(val[n - 1], Q, num_cs - n)
    <2>1. \A n \in 1 .. num_cs : n \in 0 .. num_cs /\ n # 0
      BY <1>1
    <2> QED BY <1>12, <2>1, Zenon DEF Entering
  <1> QED BY <1>11, <1>13, <1>14

\* Path B: modacc reduces the folded sum modulo q * W.
LEMMA AccReduces ==
  ASSUME cfg \in Configs, NEW y, Legal(y)
  PROVE  modacc(raw_of(y), y.q * W) = T_acc_of(y)
  <1> DEFINE Q == y.q * W
             M == cfg.ACC_MAX_COND_SUB
             raw == raw_of(y)
  <1>1. Q \in Nat \ {0} /\ Q < 2^ACCW /\ raw \in Nat /\ raw < (M + 1) * Q
    BY EffectiveConstants, HighPart, FoldIsBounded
  <1>2. /\ num_cs \in 0 .. extra /\ M \in Nat /\ M + 1 <= 2^num_cs /\ M + 1 <= 2^extra
        /\ num_cs \in Nat /\ extra \in Nat
    BY ChainLength, Widths
  <1>3. T_acc_of(y) = raw % Q
    BY DEF T_acc_of
  <1>4. 2 \in Bases /\ MaxExp \in Nat /\ extra + 1 <= MaxExp
    BY Widths, Sizes, Powers DEF Bases
  <1>5. \A k \in 0 .. extra : 2^k \in Nat \ {0}
    <2>1. \A k \in 0 .. extra : k \in 0 .. MaxExp
      BY <1>2, <1>4
    <2> QED BY <1>4, <2>1, Powers
  <1>6. /\ 2^SUM_W = 2^ACCW * 2^extra /\ 2^SUM_W \in Nat \ {0} /\ 2^ACCW \in Nat \ {0}
        /\ 2^extra \in Nat /\ 2^num_cs \in Nat /\ SUM_W \in Nat /\ extra <= SUM_W
    BY <1>2, <1>5, Widths, Sizes
  <1> HIDE DEF Q, M, raw
  <1>7. raw < 2^SUM_W /\ raw < Q * 2^num_cs
    <2>1. (M + 1) * Q <= 2^extra * 2^ACCW /\ (M + 1) * Q <= 2^num_cs * Q
          /\ (M + 1) * Q \in Int
      <3>1. M + 1 \in Nat /\ Q \in Nat /\ Q <= 2^ACCW /\ Q <= Q /\ 2^ACCW \in Nat
        BY <1>1, <1>2, <1>6
      <3> QED BY <1>2, <1>6, <3>1, MulMono
    <2>2. 2^extra * 2^ACCW = 2^SUM_W /\ 2^num_cs * Q = Q * 2^num_cs
      BY <1>1, <1>6
    <2>3. Q * 2^num_cs \in Int
      BY <1>1, <1>6
    <2> QED BY <1>1, <1>6, <2>1, <2>2, <2>3
  <1>8. PICK v : /\ v[0] = raw % 2^SUM_W
                 /\ \A n \in 1 .. num_cs : v[n] = Stage!val_comb(v[n - 1], Q, num_cs - n)
                 /\ modacc(raw, Q) = v[num_cs] % 2^ACCW
    BY ChainIs
  <1> DEFINE Good(k) == /\ v[k] \in Nat /\ v[k] < 2^SUM_W /\ v[k] < Q * 2^(num_cs - k)
                        /\ Cong(v[k], raw, Q)
             C == {k \in Nat : k <= num_cs => Good(k)}
  <1>9. 0 \in C
    <2>1. v[0] = raw
      <3>1. raw \in 0 .. 2^SUM_W - 1 /\ raw = 0 * 2^SUM_W + raw
        BY <1>1, <1>6, <1>7
      <3> DEFINE s == 2^SUM_W
      <3>2. s \in Nat \ {0} /\ 0 \in Int /\ raw \in 0 .. s - 1
        BY <1>6, <3>1
      <3> HIDE DEF s
      <3>3. (0 * s + raw) % s = raw
        BY <3>2, DivIs, Zenon
      <3> QED BY <1>8, <3>1, <3>3 DEF s
    <2>2. num_cs - 0 = num_cs
      BY <1>2
    <2>3. Cong(raw, raw, Q)
      BY <1>1, CongRefl
    <2> QED BY <1>1, <1>7, <2>1, <2>2, <2>3
  <1>10. ASSUME NEW k \in C PROVE k + 1 \in C
    <2> SUFFICES ASSUME k + 1 <= num_cs PROVE Good(k + 1)
      OBVIOUS
    <2> DEFINE n == k + 1
               sh == num_cs - n
    <2>1. k \in Nat /\ k <= num_cs /\ n \in 1 .. num_cs /\ n - 1 = k
          /\ sh \in 0 .. extra /\ sh \in 0 .. SUM_W /\ num_cs - k = sh + 1
          /\ sh <= extra - 1 /\ sh \in 0 .. MaxExp - 1
      BY <1>2, <1>4, <1>6
    <2>2. Good(k)
      BY <2>1
    <2>3. v[n] = Stage!val_comb(v[k], Q, sh)
      BY <1>8, <2>1
    <2> HIDE DEF n, sh
    <2> DEFINE t == 2^sh
    <2>4. 2^(sh + 1) = 2 * t /\ t \in Nat /\ t <= 2^extra
      <3>1. 2^(sh + 1) = 2 * t
        BY <1>4, <2>1, Powers
      <3>2. t \in Nat
        BY <1>5, <2>1
      <3>3. t <= 2^extra
        <4>1. sh \in Nat /\ sh <= extra /\ extra <= MaxExp
          BY <1>2, <1>4, <2>1
        <4> QED BY <1>2, <1>4, <4>1, PowerMono
      <3> QED BY <3>1, <3>2, <3>3
    <2>5. Q * t <= 2^SUM_W
      <3>1. Q \in Nat /\ Q <= 2^ACCW /\ 2^ACCW \in Nat
        BY <1>1, <1>6
      <3> HIDE DEF t
      <3>2. Q * t <= 2^ACCW * 2^extra
        BY <1>6, <2>4, <3>1, MulMono
      <3> QED BY <1>6, <3>2
    <2>6. v[k] < 2 * (Q * t)
      <3>1. v[k] < Q * (2 * t)
        BY <2>1, <2>2, <2>4
      <3> HIDE DEF t
      <3>2. Q * (2 * t) = 2 * (Q * t)
        BY <1>1, <2>4
      <3> QED BY <3>1, <3>2
    <2>7. v[n] \in Nat /\ v[n] < 2^SUM_W /\ v[n] < Q * t /\ Cong(v[n], v[k], Q)
      <3>1. v[k] \in Nat /\ v[k] < 2^SUM_W
        BY <2>2
      <3> QED BY <1>1, <2>1, <2>3, <2>5, <2>6, <3>1, StageReduces
    <2>8. Cong(v[n], raw, Q)
      <3>1. v[n] \in Int /\ v[k] \in Int /\ raw \in Int /\ Q \in Int /\ Cong(v[k], raw, Q)
        BY <1>1, <2>2, <2>7
      <3> QED BY <2>7, <3>1, CongTrans
    <2> QED BY <2>7, <2>8 DEF n, sh
  <1>11. C = Nat
    <2> HIDE DEF C
    <2>1. C \in SUBSET Nat
      BY DEF C
    <2> QED BY <1>9, <1>10, <2>1, InductiveSet
  <1>12. Good(num_cs)
    <2>1. num_cs \in C /\ num_cs <= num_cs
      <3> HIDE DEF C
      <3> QED BY <1>2, <1>11
    <2> HIDE DEF Good
    <2> QED BY <2>1
  <1> DEFINE e == v[num_cs]
  <1>13. e \in Nat /\ e < Q /\ Cong(e, raw, Q)
    <2>1. num_cs - num_cs = 0 /\ 2^0 = 1
      BY <1>2, <1>4, Powers
    <2>2. e < Q * 1 /\ e \in Nat /\ Cong(e, raw, Q)
      BY <1>12, <2>1
    <2> HIDE DEF e
    <2> QED BY <1>1, <2>2
  <1>14. modacc(raw, Q) = e % 2^ACCW
    BY <1>8
  <1>15. e % 2^ACCW = e
    <2> DEFINE s == 2^ACCW
    <2>1. s \in Nat \ {0} /\ 0 \in Int /\ e \in 0 .. s - 1 /\ e = 0 * s + e
      BY <1>1, <1>6, <1>13
    <2> HIDE DEF s, e
    <2>2. (0 * s + e) % s = e
      BY <2>1, DivIs, Zenon
    <2> QED BY <2>1, <2>2 DEF s
  <1> HIDE DEF e
  <1>16. raw % Q = e
    <2>1. e \in Int /\ raw \in Int /\ e \in 0 .. Q - 1 /\ e = 0 * Q + e
      BY <1>1, <1>13
    <2>2. e % Q = raw % Q
      BY <1>1, <1>13, <2>1, ModOfCong, Zenon
    <2>3. (0 * Q + e) % Q = e
      BY <1>1, <2>1, DivIs, SMTT(30)
    <2> QED BY <2>1, <2>2, <2>3
  <1> QED BY <1>3, <1>14, <1>15, <1>16 DEF Q, raw

\* The reduced sum is below q * W.
LEMMA AccTypes ==
  ASSUME NEW y, Sound(y)
  PROVE  /\ T_acc_of(y) \in Nat /\ T_acc_of(y) < y.q * W
         /\ Cong(T_acc_of(y), raw_of(y), y.q * W)
  <1> DEFINE Q == y.q * W
             raw == raw_of(y)
  <1>1. Q \in Nat \ {0} /\ raw \in Int /\ T_acc_of(y) = raw % Q
    BY HighPart, RawTypes DEF T_acc_of
  <1> HIDE DEF Q, raw
  <1>2. Cong(raw % Q, raw, Q) /\ raw % Q \in 0 .. Q - 1
    BY <1>1, CongMod, Zenon
  <1> DEFINE r == raw % Q
  <1>3. r \in Nat /\ r < Q
    <2>1. r \in 0 .. Q - 1
      BY <1>2
    <2> HIDE DEF r
    <2> QED BY <1>1, <2>1
  <1> QED BY <1>1, <1>2, <1>3 DEF Q, raw

(***************************************************************************)
(* Path A: the Montgomery quotient                                         *)
(***************************************************************************)

\* Path A: m is the quotient that clears the low limb (logjumps.sv:806-868).
LEMMA Quotient ==
  ASSUME NEW y, Sound(y)
  PROVE  /\ m_of(y) \in 0 .. W - 1 /\ Cong(m_of(y), raw_of(y) * mu(y.q), W)
         /\ rm_of(y).c \in [Limbs -> 0 .. W - 1] /\ rm_of(y).chi \in 0 .. W - 1
         /\ rho_mu_of(y) \in [Limbs -> 0 .. W - 1]
  <1> DEFINE u == mu(y.q)
             c == c_lo(y.C)
             h == limb_rho(y)
             d == c_hi(y.C)
             F == prod_of(y)
             A == rho_mu_of(y)
             B == [i \in Limbs |-> (c[i] * A[i]) % W]
             chi == (d * u) % W
             G == [i \in Limbs |-> F[i] * u]
  <1>1. u \in Nat /\ W \in Nat \ {0} /\ W \in Int /\ u \in Int
    BY SoundInput, Constants, Powers
  <1>2. c \in [Limbs -> 0 .. W - 1] /\ d \in Nat
    BY SoundInput, LimbTypes
  <1>3. h \in [Limbs -> Nat] /\ y.mu = u
    <2>1. h \in [Limbs -> 0 .. y.q - 1] /\ y.q \in Nat \ {0}
      BY SoundInput, Constants
    <2> QED BY <2>1, SoundInput
  <1>4. F \in [Limbs -> Nat] /\ Terms(F, N_MUL) /\ SumOver(F, 0 .. N_MUL - 1) \in Int
        /\ raw_of(y) = SumOver(F, 0 .. N_MUL - 1) + d
    BY RawTypes
  <1>5. ASSUME NEW i \in Limbs
        PROVE  /\ A[i] \in 0 .. W - 1 /\ B[i] \in 0 .. W - 1
               /\ G[i] \in Int /\ Cong(B[i], G[i], W)
    <2> DEFINE a == c[i]
               r == h[i]
    <2>1. a \in Nat /\ r \in Nat
      BY <1>1, <1>2, <1>3
    <2>2. A[i] = (r * u) % W
      BY <1>3 DEF rho_mu_of
    <2>3. F[i] = a * r /\ G[i] = (a * r) * u
      BY DEF prod_of
    <2> DEFINE x == A[i]
    <2>4. B[i] = (a * x) % W
      OBVIOUS
    <2> HIDE DEF a, r, u, G, F, B, A
    <2> DEFINE z == r * u
    <2>5. z \in Int
      BY <1>1, <2>1
    <2> HIDE DEF z
    <2>6. Cong(z % W, z, W) /\ z % W \in 0 .. W - 1
      BY <1>1, <2>5, CongMod, Zenon
    <2>7. x = z % W
      BY <2>2 DEF z
    <2> HIDE DEF x
    <2>8. x \in 0 .. W - 1 /\ Cong(x, z, W)
      BY <2>6, <2>7
    <2>9. x \in Int
      BY <1>1, <2>8
    <2>10. Cong(x * a, z * a, W)
      <3>1. a \in Int
        BY <2>1
      <3> QED BY <1>1, <2>5, <2>8, <2>9, <3>1, CongMul
    <2> DEFINE p == a * x
    <2>11. p \in Int /\ p = x * a /\ z * a = (a * r) * u /\ z * a \in Int
      BY <1>1, <2>1, <2>5, <2>9 DEF z
    <2> HIDE DEF p
    <2>12. Cong(p % W, p, W) /\ p % W \in 0 .. W - 1
      BY <1>1, <2>11, CongMod, Zenon
    <2>13. B[i] = p % W
      BY <2>4 DEF p
    <2>14. B[i] \in 0 .. W - 1 /\ Cong(B[i], p, W)
      BY <2>12, <2>13
    <2>15. B[i] \in Int
      BY <1>1, <2>14
    <2>16. Cong(p, G[i], W) /\ G[i] \in Int
      BY <2>3, <2>10, <2>11
    <2>17. Cong(B[i], G[i], W)
      BY <1>1, <2>11, <2>14, <2>15, <2>16, CongTrans
    <2> QED BY <2>8, <2>14, <2>16, <2>17 DEF x
  <1>6. chi \in 0 .. W - 1 /\ Cong(chi, d * u, W) /\ d * u \in Int
    <2> DEFINE z == d * u
    <2>1. z \in Int
      BY <1>1, <1>2
    <2> HIDE DEF z
    <2>2. Cong(z % W, z, W) /\ z % W \in 0 .. W - 1
      BY <1>1, <2>1, CongMod, Zenon
    <2> QED BY <2>1, <2>2 DEF z
  <1>7. A \in [Limbs -> 0 .. W - 1]
    <2>1. A = [i \in Limbs |-> A[i]]
      BY DEF rho_mu_of
    <2> HIDE DEF A
    <2> QED BY <1>5, <2>1
  <1>8. B \in [Limbs -> 0 .. W - 1] /\ DOMAIN B = 0 .. N_MUL - 1
    <2>1. B = [i \in Limbs |-> B[i]] /\ DOMAIN B = Limbs
      OBVIOUS
    <2> HIDE DEF B
    <2> QED BY <1>5, <2>1 DEF Limbs
  <1>9. rm_of(y).c = B /\ rm_of(y).chi = chi
    BY <1>3 DEF rm_of
  <1>10. Terms(B, N_MUL) /\ Terms(G, N_MUL)
         /\ \A i \in 0 .. N_MUL - 1 : Cong(B[i], G[i], W) /\ G[i] = F[i] * u
    <2>1. \A i \in 0 .. N_MUL - 1 : i \in Limbs
      BY DEF Limbs
    <2>2. \A i \in Limbs : G[i] = F[i] * u
      OBVIOUS
    <2>3. \A i \in Limbs : B[i] \in Int
      <3> HIDE DEF B
      <3> QED BY <1>1, <1>5
    <2> HIDE DEF B, G
    <2> QED BY <1>5, <2>1, <2>2, <2>3 DEF Terms
  <1> DEFINE f == SumOver(F, 0 .. N_MUL - 1)
             b == SumOver(B, 0 .. N_MUL - 1)
             g == SumOver(G, 0 .. N_MUL - 1)
  <1>11. SumOf(B) = b
    BY <1>8, SumOfIs
  <1>12. m_of(y) = (b + chi) % W
    <2> HIDE DEF B, chi
    <2> QED BY <1>9, <1>11 DEF m_of
  <1> HIDE DEF F, G, B, u, d, chi
  <1>13. Cong(b, g, W) /\ g = f * u /\ b \in Int /\ g \in Int
    <2>1. N_MUL \in Nat /\ W \in Int /\ u \in Int
      BY <1>1, Sizes
    <2>2. Terms(B, N_MUL) /\ Terms(G, N_MUL) /\ Terms(F, N_MUL)
      BY <1>4, <1>10, Zenon
    <2>3. Cong(b, g, W)
      BY <1>10, <2>1, <2>2, SumCong, Zenon
    <2>4. g = f * u
      BY <1>10, <2>1, <2>2, SumScaled, Zenon
    <2>5. b \in Int /\ g \in Int
      BY <2>1, <2>2, SumOfLimbsInt, Zenon
    <2> QED BY <2>3, <2>4, <2>5, Zenon
  <1>14. f \in Int /\ d \in Int /\ raw_of(y) = f + d
    BY <1>2, <1>4
  <1> HIDE DEF f, b, g
  <1> DEFINE z == b + chi
  <1>15. chi \in Int /\ z \in Int
    BY <1>1, <1>6, <1>13
  <1>16. Cong(z, g + d * u, W)
    BY <1>1, <1>6, <1>13, <1>15, CongAdd
  <1>17. g + d * u = raw_of(y) * u /\ g + d * u \in Int
    BY <1>1, <1>13, <1>14
  <1> HIDE DEF z
  <1>18. Cong(z % W, z, W) /\ z % W \in 0 .. W - 1
    BY <1>1, <1>15, CongMod, Zenon
  <1>19. m_of(y) = z % W
    BY <1>12 DEF z
  <1>20. m_of(y) \in 0 .. W - 1 /\ Cong(m_of(y), z, W)
    BY <1>18, <1>19
  <1>21. m_of(y) \in Int
    BY <1>1, <1>20
  <1>22. Cong(m_of(y), raw_of(y) * u, W)
    BY <1>1, <1>15, <1>16, <1>17, <1>20, <1>21, CongTrans
  <1> QED BY <1>6, <1>7, <1>8, <1>9, <1>20, <1>22 DEF u

(***************************************************************************)
(* Where the paths meet                                                    *)
(***************************************************************************)

\* Cut in two, the addition is the same addition.
LEMMA JoinAdds ==
  ASSUME NEW a \in Nat, NEW b \in Nat
  PROVE  /\ UpperHalf(LowerHalf(a, b)) = a + b
         /\ LowerHalf(a, b) \in [lo : Nat, carry : Nat, a : Nat, b : Nat]
  <1> DEFINE S == 2^JOIN_SPLIT
             al == a % S
             ah == a \div S
             bl == b % S
             bh == b \div S
             l == al + bl
             ll == l % S
             lh == l \div S
             j == LowerHalf(a, b)
  <1>1. S \in Nat \ {0}
    <2>1. 2 \in Bases /\ JOIN_SPLIT \in 0 .. MaxExp
      BY Sizes, Powers DEF Bases
    <2> QED BY <2>1, Powers
  <1>2. /\ j.lo = ll /\ j.carry = lh /\ j.a = ah /\ j.b = bh
        /\ j = [lo |-> ll, carry |-> lh, a |-> ah, b |-> bh]
    BY DEF LowerHalf
  <1>3. UpperHalf(j) = (ah + bh + lh) * S + ll
    <2> HIDE DEF j, S, ah, bh, lh, ll
    <2> QED BY <1>2 DEF UpperHalf, S
  <1> HIDE DEF S, j
  <1>4. /\ ah \in Nat /\ al \in Nat /\ a = S * ah + al
        /\ bh \in Nat /\ bl \in Nat /\ b = S * bh + bl
    <2>1. /\ ah \in Int /\ al \in 0 .. S - 1 /\ a = S * ah + al
          /\ bh \in Int /\ bl \in 0 .. S - 1 /\ b = S * bh + bl
      BY <1>1, DivMod
    <2>2. ah \in Nat /\ bh \in Nat
      BY <1>1
    <2> HIDE DEF al, bl, ah, bh
    <2> QED BY <1>1, <2>1, <2>2
  <1> HIDE DEF al, bl, ah, bh
  <1>5. l \in Nat
    BY <1>4
  <1>6. l = al + bl
    OBVIOUS
  <1> HIDE DEF l
  <1>7. lh \in Nat /\ ll \in Nat /\ l = S * lh + ll
    <2>1. lh \in Int /\ ll \in 0 .. S - 1 /\ l = S * lh + ll
      BY <1>1, <1>5, DivMod
    <2>2. lh \in Nat
      BY <1>1, <1>5
    <2> HIDE DEF ll, lh
    <2> QED BY <1>1, <2>1, <2>2
  <1> HIDE DEF lh, ll
  <1>8. (ah + bh + lh) * S + ll = (S * ah + al) + (S * bh + bl)
    BY <1>1, <1>4, <1>6, <1>7
  <1>9. UpperHalf(j) = a + b
    BY <1>3, <1>4, <1>8
  <1>10. j \in [lo : Nat, carry : Nat, a : Nat, b : Nat]
    BY <1>2, <1>4, <1>7
  <1> QED BY <1>9, <1>10 DEF j

\* What the paths add up to is a multiple of W, at most twice q when shifted, and
\* C / W^N_MUL modulo q.
LEMMA Joined ==
  ASSUME NEW y, Sound(y)
  PROVE  /\ T_of(y) \in Nat /\ T_of(y) % W = 0
         /\ T_of(y) \div W \in Nat /\ T_of(y) \div W < 2 * y.q
         /\ T_of(y) = (T_of(y) \div W) * W
         /\ Cong(T_of(y), raw_of(y), y.q)
         /\ m_q_of(y) \in Nat /\ m_q_of(y) < y.q * W
  <1> DEFINE q == y.q
             u == mu(q)
             m == m_of(y)
             raw == raw_of(y)
             ta == T_acc_of(y)
             mq == m * q
             T == T_of(y)
  <1>1. q \in Nat \ {0} /\ W \in Nat \ {0} /\ u \in Nat
        /\ (u * q + 1) % W = 0 /\ raw \in Int
    BY SoundInput, Constants, Powers, RawTypes, SMTT(30)
  <1>2. m \in Nat /\ m <= W - 1 /\ Cong(m, raw * u, W)
    BY <1>1, Quotient
  <1>3. ta \in Nat /\ ta < q * W /\ Cong(ta, raw, q * W)
    BY AccTypes
  <1>4. m_q_of(y) = mq
    BY <1>1 DEF m_q_of
  <1>5. T = ta + mq
    <2>1. mq \in Nat
      BY <1>1, <1>2
    <2>2. T = UpperHalf(LowerHalf(ta, mq))
      BY <1>4 DEF T_of, join_of
    <2> HIDE DEF ta, mq
    <2> QED BY <1>3, <2>1, <2>2, JoinAdds
  <1> HIDE DEF q, u, m, raw, ta, T
  <1>6. mq \in Nat /\ mq <= q * W - q /\ q * W \in Nat
    <2>1. m * q <= (W - 1) * q /\ (W - 1) * q = q * W - q
      BY <1>1, <1>2
    <2>2. m * q \in Nat /\ q * W \in Nat
      BY <1>1, <1>2
    <2> QED BY <1>1, <2>1, <2>2
  <1>0. ta \in Int /\ raw \in Int /\ q \in Int /\ W \in Int /\ u \in Int /\ m \in Int
    BY <1>1, <1>2, <1>3
  <1>7. Cong(T, raw, q)
    <2>1. Cong(ta, raw, q)
      BY <1>0, <1>3, CongFactor
    <2>2. Cong(mq, 0, q)
      <3>1. mq = 0 + m * q
        BY <1>6
      <3> QED BY <1>2, <3>1 DEF Cong
    <2>3. Cong(ta + mq, raw + 0, q)
      BY <1>1, <1>3, <1>6, <2>1, <2>2, CongAdd
    <2> QED BY <1>1, <1>5, <2>3
  <1>8. Cong(T, 0, W)
    <2>1. Cong(ta, raw, W)
      BY <1>0, <1>3, CongFactor
    <2>2. Cong(mq, (raw * u) * q, W)
      <3>1. raw * u \in Int
        BY <1>1
      <3> QED BY <1>0, <1>2, <3>1, CongMul
    <2>3. (raw * u) * q \in Int /\ raw + (raw * u) * q = (u * q + 1) * raw
      BY <1>1
    <2>4. Cong(T, raw + (raw * u) * q, W)
      BY <1>1, <1>3, <1>5, <1>6, <2>1, <2>2, <2>3, CongAdd
    <2> DEFINE z == u * q + 1
    <2>5. z \in Int /\ z % W = 0 % W /\ 0 \in Int
      <3>1. 0 % W = 0
        BY <1>1
      <3> QED BY <1>1, <3>1
    <2>6. raw + (raw * u) * q = z * raw
      BY <2>3
    <2> HIDE DEF z
    <2>7. Cong(z, 0, W)
      BY <1>1, <2>5, CongOfMod, Zenon
    <2>8. Cong(z * raw, 0 * raw, W) /\ 0 * raw = 0 /\ z * raw \in Int
      <3>1. Cong(z * raw, 0 * raw, W)
        BY <1>0, <2>5, <2>7, CongMul
      <3>2. 0 * raw = 0 /\ z * raw \in Int
        BY <1>0, <2>5
      <3> QED BY <3>1, <3>2
    <2>9. T \in Int
      BY <1>3, <1>5, <1>6
    <2>10. Cong(T, z * raw, W) /\ Cong(z * raw, 0, W) /\ W \in Int
      BY <1>1, <2>4, <2>6, <2>8
    <2> QED BY <2>5, <2>8, <2>9, <2>10, CongTrans
  <1>9. T \in Nat /\ T < 2 * (q * W)
    BY <1>1, <1>3, <1>5, <1>6
  <1>10. PICK k \in Int : T = 0 + k * W
    BY <1>8 DEF Cong
  <1>11. T \div W = k /\ T % W = 0 /\ T = k * W
    <2>1. (k * W + 0) \div W = k /\ (k * W + 0) % W = 0
      <3>1. 0 \in 0 .. W - 1
        BY <1>1
      <3> QED BY <1>1, <3>1, DivIs
    <2>2. T = k * W + 0 /\ T = k * W
      BY <1>1, <1>10
    <2> QED BY <2>1, <2>2
  <1>12. k \in Nat
    <2> SUFFICES ASSUME k < 0 PROVE FALSE
      OBVIOUS
    <2> DEFINE e == -k
    <2>1. e \in Nat \ {0} /\ k * W = -(e * W)
      BY <1>1
    <2> HIDE DEF e
    <2>2. e * W \in Nat /\ e * W > 0
      BY <1>1, <2>1
    <2> QED BY <1>9, <1>11, <2>1, <2>2
  <1>13. k < 2 * q
    <2>1. k * W < (2 * q) * W
      BY <1>1, <1>9, <1>11
    <2>2. 2 * q \in Nat
      BY <1>1
    <2> QED BY <1>1, <1>12, <2>1, <2>2, MulStrict
  <1>14. mq < q * W
    <2> DEFINE t == q * W
    <2>1. mq <= t - q /\ t \in Nat
      BY <1>6
    <2> HIDE DEF t, mq
    <2>2. mq < t
      BY <1>1, <1>6, <2>1
    <2> QED BY <2>2 DEF t
  <1> QED BY <1>4, <1>6, <1>7, <1>9, <1>11, <1>12, <1>13, <1>14 DEF q, raw, T

\* One subtraction reduces what is below 2 * q.
LEMMA LastSubtraction ==
  ASSUME NEW q \in Nat \ {0}, q < 2^LOGQ, NEW t \in Nat, t < 2 * q
  PROVE  CondSub(t, q) \in 0 .. q - 1 /\ Cong(CondSub(t, q), t, q)
  <1> DEFINE w == 2^LOGQ
             d == (t - q) % (2 * w)
             r == CondSub(t, q)
  <1>1. w \in Nat \ {0} /\ 2^(LOGQ + 1) = 2 * w
    BY Widths
  <1>2. r = (IF d >= w THEN t ELSE d) % w
    BY <1>1 DEF CondSub
  <1>3. q < w /\ t < 2 * w /\ q <= w
    BY <1>1
  <1> HIDE DEF w, r, d
  <1>4. CASE t >= q
    <2> DEFINE e == t - q
    <2>1. d = e
      BY <1>1, <1>3, <1>4, Borrow DEF d
    <2>2. e \in 0 .. q - 1 /\ e \in 0 .. w - 1
      BY <1>1, <1>3, <1>4
    <2>3. e = t + (-1) * q
      OBVIOUS
    <2> HIDE DEF e
    <2>4. r = e % w
      BY <1>1, <1>2, <2>1, <2>2
    <2>5. (0 * w + e) % w = e /\ 0 * w + e = e
      BY <1>1, <2>2, DivIs
    <2>6. r = e
      BY <2>4, <2>5
    <2>7. Cong(e, t, q)
      BY <2>3 DEF Cong
    <2> QED BY <2>2, <2>6, <2>7 DEF r
  <1>5. CASE t < q
    <2>1. d = 2 * w - (q - t)
      BY <1>1, <1>3, <1>5, Borrow DEF d
    <2>2. d >= w /\ t \in 0 .. w - 1 /\ t \in 0 .. q - 1
      BY <1>1, <1>3, <1>5, <2>1
    <2>3. r = t % w
      BY <1>2, <2>2
    <2>4. (0 * w + t) % w = t /\ 0 * w + t = t
      BY <1>1, <2>2, DivIs
    <2>5. r = t
      BY <2>3, <2>4
    <2>6. Cong(t, t, q)
      BY CongRefl
    <2> QED BY <2>2, <2>5, <2>6 DEF r
  <1> QED BY <1>4, <1>5

\* The result is the Montgomery reduction of C.
LEMMA Reduced ==
  ASSUME NEW y, Sound(y)
  PROVE  D_of(y) \in 0 .. y.q - 1 /\ (D_of(y) * R) % y.q = y.C % y.q
  <1> DEFINE q == y.q
             t == T_of(y) \div W
             T == T_of(y)
             D == D_of(y)
             P == W^N_MUL
             raw == raw_of(y)
             C == y.C
  <1>1. q \in Nat \ {0} /\ q < 2^LOGQ /\ C \in Nat
        /\ W \in Nat \ {0} /\ P \in Nat /\ R = W * P /\ raw \in Int
    <2>1. y.q \in Nat \ {0} /\ y.q < 2^LOGQ /\ y.C \in Nat
      BY SoundInput, Constants, Zenon
    <2>2. N_MUL \in 0 .. N_LIMBS
      BY Sizes
    <2>3. W^N_MUL \in Nat /\ R = W * W^N_MUL
      BY <2>2, WholeR
    <2>4. W \in Nat \ {0}
      BY Powers, Zenon
    <2>5. raw_of(y) \in Int
      BY RawTypes, Zenon
    <2> QED BY <2>1, <2>3, <2>4, <2>5, Zenon
  <1>2. t \in Nat /\ t < 2 * q /\ T = t * W /\ Cong(T, raw, q) /\ T \in Nat
    BY Joined
  <1>3. D \in 0 .. q - 1 /\ Cong(D, t, q)
    <2>1. D = CondSub(t, q)
      BY <1>1 DEF D_of
    <2> HIDE DEF t, q, D
    <2> QED BY <1>1, <1>2, <2>1, LastSubtraction
  <1>4. Cong(raw * P, C, q)
    BY FoldIsCongruent
  <1> HIDE DEF q, t, T, D, P, raw, C
  <1>5. D \in Nat /\ q \in Int
    BY <1>1, <1>3
  <1>6. Cong(D * R, t * R, q) /\ R \in Int
    <2>1. D \in Int /\ t \in Int /\ R \in Int /\ q \in Int
      BY <1>1, <1>2, <1>5
    <2> QED BY <1>3, <2>1, CongMul
  <1>7. t * R = T * P
    BY <1>1, <1>2
  <1>8. Cong(T * P, raw * P, q)
    <2>1. T \in Int /\ raw \in Int /\ P \in Int /\ q \in Int
      BY <1>1, <1>2, <1>5
    <2> QED BY <1>2, <2>1, CongMul
  <1>9. D * R \in Int /\ T * P \in Int /\ raw * P \in Int /\ C \in Int
    BY <1>1, <1>2, <1>5, <1>6
  <1>10. Cong(D * R, C, q)
    <2>1. Cong(D * R, raw * P, q)
      BY <1>5, <1>6, <1>7, <1>8, <1>9, CongTrans
    <2> QED BY <1>4, <1>5, <1>9, <2>1, CongTrans
  <1>11. (D * R) % q = C % q
    <2> DEFINE z == D * R
    <2>1. z \in Int /\ Cong(z, C, q)
      BY <1>9, <1>10
    <2> HIDE DEF z
    <2>2. z % q = C % q
      BY <1>1, <1>9, <2>1, ModOfCong, ZenonT(60)
    <2> QED BY <2>2 DEF z
  <1> QED BY <1>3, <1>11 DEF q, D, C

(***************************************************************************)
(* The delay lines                                                         *)
(***************************************************************************)

LineNames == {"prod", "chi", "q_dot", "T_acc", "q_fin", "rho_mu", "c_lo", "chi_mu",
              "rm", "m_val", "q_mr", "m_q", "tacc", "mq", "join", "T_shift", "D"}

\* How many clocks after its input a value is where the two paths are joined to
\* their neighbours.
RM_AT   == RM_MUL_LAT + cfg.FF_RM
MVAL_AT == RM_AT + cfg.MVAL_LAT
T_AT    == JOIN_CYC + cfg.FF_JOIN_ADD
D_AT    == T_AT + cfg.FF_MR_POST

\* ... and where it enters each line.
Depth ==
  [prod |-> 0, chi |-> 0, q_dot |-> 0, T_acc |-> cfg.DOT_LAT, q_fin |-> cfg.DOT_LAT,
   rho_mu |-> 0, c_lo |-> 0, chi_mu |-> 0, rm |-> RM_MUL_LAT, m_val |-> RM_AT,
   q_mr |-> 0, m_q |-> MVAL_AT, tacc |-> PATH_B, mq |-> PATH_A, join |-> JOIN_CYC,
   T_shift |-> T_AT, D |-> D_AT]

Exit(l) == Depth[l] + Lengths[l]

\* What belongs to an input in each line.
Value(y) ==
  [prod |-> prod_of(y), chi |-> c_hi(y.C), q_dot |-> y.q, T_acc |-> T_acc_of(y),
   q_fin |-> y.q, rho_mu |-> rho_mu_of(y), c_lo |-> c_lo(y.C),
   chi_mu |-> rm_of(y).chi, rm |-> rm_of(y), m_val |-> m_of(y), q_mr |-> y.q,
   m_q |-> m_q_of(y), tacc |-> T_acc_of(y), mq |-> m_q_of(y), join |-> join_of(y),
   T_shift |-> T_of(y) \div W, D |-> D_of(y)]

\* The larger of two numbers.
LEMMA MaxOfTwo ==
  ASSUME NEW a \in Nat, NEW b \in Nat
  PROVE  Max({a, b}) \in Nat /\ Max({a, b}) >= a /\ Max({a, b}) >= b
  <1> DEFINE P(m) == \A k \in {a, b} : m >= k
  <1>1. \E m \in {a, b} : P(m)
    <2>1. CASE a >= b
      BY <2>1
    <2>2. CASE ~(a >= b)
      BY <2>2
    <2> QED BY <2>1, <2>2
  <1>2. Max({a, b}) = CHOOSE m \in {a, b} : P(m)
    BY DEF Max
  <1> HIDE DEF P
  <1>3. Max({a, b}) \in {a, b} /\ P(Max({a, b}))
    BY <1>1, <1>2
  <1> QED BY <1>3 DEF P

\* The smaller of two numbers.
LEMMA MinOfTwo ==
  ASSUME NEW a \in Nat, NEW b \in Nat
  PROVE  /\ Min({a, b}) \in Nat /\ Min({a, b}) <= a /\ Min({a, b}) <= b
         /\ Min({a, b}) = a \/ Min({a, b}) = b
  <1> DEFINE P(m) == \A k \in {a, b} : m <= k
  <1>1. \E m \in {a, b} : P(m)
    <2>1. CASE a <= b
      BY <2>1
    <2>2. CASE ~(a <= b)
      BY <2>2
    <2> QED BY <2>1, <2>2
  <1>2. Min({a, b}) = CHOOSE m \in {a, b} : P(m)
    BY DEF Min
  <1> HIDE DEF P
  <1>3. Min({a, b}) \in {a, b} /\ P(Min({a, b}))
    BY <1>1, <1>2
  <1> QED BY <1>3 DEF P

\* The lengths fit: where a line ends the next one begins, and what meets there
\* is equally old.
LEMMA Plan ==
  ASSUME cfg \in Configs
  PROVE  /\ cfg.DOT_LAT \in Nat /\ cfg.DOT_LAT >= 1
         /\ RM_MUL_LAT \in Nat /\ RM_AT \in Nat /\ MVAL_AT \in Nat
         /\ PATH_A \in Nat /\ PATH_B \in Nat /\ JOIN_CYC \in Nat
         /\ T_AT \in Nat /\ D_AT \in Nat /\ LAT \in Nat
         /\ PATH_B >= cfg.DOT_LAT /\ JOIN_CYC >= cfg.DOT_LAT /\ T_AT >= cfg.DOT_LAT
         /\ D_AT >= T_AT /\ LAT >= D_AT
         /\ Lengths \in [LineNames -> Nat] /\ Depth \in [LineNames -> Nat]
         /\ DOMAIN Lengths = LineNames
         /\ \A l \in LineNames : Exit(l) \in Nat /\ Exit(l) <= LAT
         /\ Depth["prod"] = 0 /\ Exit("prod") = cfg.DOT_LAT
         /\ Depth["chi"] = 0 /\ Exit("chi") = cfg.DOT_LAT
         /\ Depth["q_dot"] = 0 /\ Exit("q_dot") = cfg.DOT_LAT
         /\ Depth["T_acc"] = cfg.DOT_LAT /\ Exit("T_acc") = PATH_B
         /\ Depth["q_fin"] = cfg.DOT_LAT /\ Exit("q_fin") = D_AT
         /\ Depth["rho_mu"] = 0 /\ Exit("rho_mu") = RM_MUL_LAT
         /\ Depth["c_lo"] = 0 /\ Exit("c_lo") = RM_MUL_LAT
         /\ Depth["chi_mu"] = 0 /\ Exit("chi_mu") = RM_MUL_LAT
         /\ Depth["rm"] = RM_MUL_LAT /\ Exit("rm") = RM_AT
         /\ Depth["m_val"] = RM_AT /\ Exit("m_val") = MVAL_AT
         /\ Depth["q_mr"] = 0 /\ Exit("q_mr") = MVAL_AT
         /\ Depth["m_q"] = MVAL_AT /\ Exit("m_q") = PATH_A
         /\ Depth["tacc"] = PATH_B /\ Exit("tacc") = JOIN_CYC
         /\ Depth["mq"] = PATH_A /\ Exit("mq") = JOIN_CYC
         /\ Depth["join"] = JOIN_CYC /\ Exit("join") = T_AT
         /\ Depth["T_shift"] = T_AT /\ Exit("T_shift") = D_AT
         /\ Depth["D"] = D_AT /\ Exit("D") = LAT
  <1>1. /\ cfg.DOT_LAT \in Nat /\ cfg.DOT_LAT >= 1 /\ cfg.ACC_LAT \in Nat
        /\ cfg.RM_LAT \in Nat /\ cfg.MVAL_LAT \in Nat /\ cfg.MR_LAT \in Nat
        /\ cfg.FF_RM \in Nat /\ cfg.FF_JOIN_ADD \in Nat /\ cfg.FF_MR_POST \in Nat
        /\ cfg.FF_OUT \in Nat
    BY SettingFacts
  <1>2. RM_MUL_LAT \in Nat
    BY <1>1 DEF RM_MUL_LAT
  <1>3. /\ RM_AT \in Nat /\ RM_AT = RM_MUL_LAT + cfg.FF_RM
        /\ MVAL_AT \in Nat /\ MVAL_AT = RM_AT + cfg.MVAL_LAT
        /\ PATH_A \in Nat /\ PATH_A = MVAL_AT + cfg.MR_LAT
        /\ PATH_B \in Nat /\ PATH_B = cfg.DOT_LAT + cfg.ACC_LAT
    BY <1>1, <1>2 DEF RM_AT, MVAL_AT, PATH_A, PATH_B
  <1>4. JOIN_CYC \in Nat /\ JOIN_CYC >= PATH_A /\ JOIN_CYC >= PATH_B
    BY <1>3, MaxOfTwo DEF JOIN_CYC
  <1>5. /\ T_AT = JOIN_CYC + cfg.FF_JOIN_ADD /\ D_AT = T_AT + cfg.FF_MR_POST
        /\ LAT = D_AT + cfg.FF_OUT
        /\ MQ_DELAY = JOIN_CYC - PATH_A /\ TACC_DELAY = JOIN_CYC - PATH_B
        /\ Q_DOT_DEL = cfg.DOT_LAT /\ Q_MR_DEL = MVAL_AT
        /\ Q_FIN_EXTRA = D_AT - cfg.DOT_LAT
    BY <1>1, <1>2, <1>3, <1>4
       DEF T_AT, D_AT, LAT, MQ_DELAY, TACC_DELAY, Q_DOT_DEL, Q_MR_DEL, Q_FIN_EXTRA,
           MVAL_AT, RM_AT
  <1>6. /\ T_AT \in Nat /\ D_AT \in Nat /\ LAT \in Nat
        /\ PATH_B >= cfg.DOT_LAT /\ JOIN_CYC >= cfg.DOT_LAT /\ T_AT >= cfg.DOT_LAT
        /\ D_AT >= T_AT /\ LAT >= D_AT /\ T_AT >= JOIN_CYC
        /\ RM_AT >= RM_MUL_LAT /\ MVAL_AT >= RM_AT /\ PATH_A >= MVAL_AT
        /\ MQ_DELAY \in Nat /\ TACC_DELAY \in Nat /\ Q_FIN_EXTRA \in Nat
    BY <1>1, <1>2, <1>3, <1>4, <1>5
  <1>7. DOMAIN Lengths = LineNames /\ DOMAIN Depth = LineNames
    BY DEF Lengths, Depth, LineNames
  <1>8. /\ Lengths["prod"] = cfg.DOT_LAT /\ Lengths["chi"] = cfg.DOT_LAT
        /\ Lengths["q_dot"] = Q_DOT_DEL /\ Lengths["T_acc"] = cfg.ACC_LAT
        /\ Lengths["q_fin"] = Q_FIN_EXTRA /\ Lengths["rho_mu"] = RM_MUL_LAT
        /\ Lengths["c_lo"] = RM_MUL_LAT /\ Lengths["chi_mu"] = RM_MUL_LAT
        /\ Lengths["rm"] = cfg.FF_RM /\ Lengths["m_val"] = cfg.MVAL_LAT
        /\ Lengths["q_mr"] = Q_MR_DEL /\ Lengths["m_q"] = cfg.MR_LAT
        /\ Lengths["tacc"] = TACC_DELAY /\ Lengths["mq"] = MQ_DELAY
        /\ Lengths["join"] = cfg.FF_JOIN_ADD /\ Lengths["T_shift"] = cfg.FF_MR_POST
        /\ Lengths["D"] = cfg.FF_OUT
    BY DEF Lengths
  <1>9. /\ Depth["prod"] = 0 /\ Depth["chi"] = 0 /\ Depth["q_dot"] = 0
        /\ Depth["T_acc"] = cfg.DOT_LAT /\ Depth["q_fin"] = cfg.DOT_LAT
        /\ Depth["rho_mu"] = 0 /\ Depth["c_lo"] = 0 /\ Depth["chi_mu"] = 0
        /\ Depth["rm"] = RM_MUL_LAT /\ Depth["m_val"] = RM_AT /\ Depth["q_mr"] = 0
        /\ Depth["m_q"] = MVAL_AT /\ Depth["tacc"] = PATH_B /\ Depth["mq"] = PATH_A
        /\ Depth["join"] = JOIN_CYC /\ Depth["T_shift"] = T_AT /\ Depth["D"] = D_AT
    BY DEF Depth
  <1>10. \A l \in LineNames : Lengths[l] \in Nat /\ Depth[l] \in Nat
    BY <1>1, <1>2, <1>3, <1>4, <1>5, <1>6, <1>8, <1>9 DEF LineNames
  <1>11. Lengths \in [LineNames -> Nat] /\ Depth \in [LineNames -> Nat]
    <2>1. /\ Lengths = [l \in DOMAIN Lengths |-> Lengths[l]]
          /\ Depth = [l \in DOMAIN Depth |-> Depth[l]]
      BY DEF Lengths, Depth
    <2> QED BY <1>7, <1>10, <2>1
  <1>12. /\ Exit("prod") = cfg.DOT_LAT /\ Exit("chi") = cfg.DOT_LAT
         /\ Exit("q_dot") = cfg.DOT_LAT /\ Exit("T_acc") = PATH_B
         /\ Exit("q_fin") = D_AT /\ Exit("rho_mu") = RM_MUL_LAT
         /\ Exit("c_lo") = RM_MUL_LAT /\ Exit("chi_mu") = RM_MUL_LAT
         /\ Exit("rm") = RM_AT /\ Exit("m_val") = MVAL_AT /\ Exit("q_mr") = MVAL_AT
         /\ Exit("m_q") = PATH_A /\ Exit("tacc") = JOIN_CYC /\ Exit("mq") = JOIN_CYC
         /\ Exit("join") = T_AT /\ Exit("T_shift") = D_AT /\ Exit("D") = LAT
    <2>1. /\ Exit("prod") = cfg.DOT_LAT /\ Exit("chi") = cfg.DOT_LAT
          /\ Exit("q_dot") = cfg.DOT_LAT /\ Exit("T_acc") = PATH_B
          /\ Exit("q_fin") = D_AT
      BY <1>1, <1>3, <1>5, <1>6, <1>8, <1>9 DEF Exit
    <2>2. /\ Exit("rho_mu") = RM_MUL_LAT /\ Exit("c_lo") = RM_MUL_LAT
          /\ Exit("chi_mu") = RM_MUL_LAT /\ Exit("rm") = RM_AT
      BY <1>2, <1>3, <1>8, <1>9 DEF Exit
    <2>3. /\ Exit("m_val") = MVAL_AT /\ Exit("q_mr") = MVAL_AT /\ Exit("m_q") = PATH_A
      BY <1>3, <1>5, <1>8, <1>9 DEF Exit
    <2>4. Exit("tacc") = JOIN_CYC /\ Exit("mq") = JOIN_CYC
      BY <1>3, <1>4, <1>5, <1>8, <1>9 DEF Exit
    <2>5. Exit("join") = T_AT /\ Exit("T_shift") = D_AT /\ Exit("D") = LAT
      BY <1>5, <1>8, <1>9 DEF Exit
    <2> QED BY <2>1, <2>2, <2>3, <2>4, <2>5
  <1>13. \A l \in LineNames : Exit(l) \in Nat /\ Exit(l) <= LAT
    BY <1>1, <1>2, <1>3, <1>4, <1>6, <1>12 DEF LineNames
  <1> QED BY <1>1, <1>2, <1>3, <1>4, <1>6, <1>7, <1>9, <1>11, <1>12, <1>13

\* A delay line of n registers.
Row(s, n) == s = [i \in 1 .. n |-> s[i]]

\* A row is a sequence of its length.
LEMMA RowIs ==
  ASSUME NEW n \in Nat, NEW s, Row(s, n)
  PROVE  /\ Len(s) = n /\ (s = <<>> <=> n = 0)
         /\ \E S : s \in Seq(S) /\ \A i \in 1 .. n : s[i] \in S
  <1> DEFINE S == {s[i] : i \in 1 .. n}
  <1>1. \A i \in 1 .. n : s[i] \in S
    OBVIOUS
  <1>2. s \in [1 .. n -> S]
    <2> HIDE DEF S
    <2> QED BY <1>1 DEF Row
  <1>3. s \in Seq(S) /\ Len(s) = n
    <2> HIDE DEF S
    <2> QED BY <1>2
  <1>4. s = <<>> <=> n = 0
    <2> HIDE DEF S
    <2> QED BY <1>3
  <1> QED BY <1>1, <1>3, <1>4

\* A clock moves every value on by one register.
LEMMA PushIs ==
  ASSUME NEW n \in Nat, NEW s, Row(s, n), NEW now
  PROVE  /\ Row(Push(s, now), n)
         /\ n >= 1 => Push(s, now)[1] = now
         /\ \A i \in 2 .. n : Push(s, now)[i] = s[i - 1]
  <1>1. Len(s) = n /\ (s = <<>> <=> n = 0)
    BY RowIs
  <1>2. PICK S : s \in Seq(S)
    BY RowIs
  <1> DEFINE T == S \cup {now}
             p == Push(s, now)
  <1>3. CASE n = 0
    <2>1. p = <<>> /\ s = <<>>
      BY <1>1, <1>3 DEF Push
    <2> QED BY <1>3, <2>1 DEF Row
  <1>4. CASE n # 0
    <2>1. s \in Seq(T) /\ now \in T /\ n - 1 \in 0 .. Len(s)
      BY <1>1, <1>2, <1>4
    <2> HIDE DEF T
    <2> DEFINE f == SubSeq(s, 1, n - 1)
    <2>2. p = <<now>> \o f
      BY <1>1, <1>4 DEF Push, Front
    <2>3. f \in Seq(T) /\ Len(f) = n - 1 /\ \A i \in 1 .. n - 1 : f[i] = s[i]
      BY <1>1, <1>4, <2>1
    <2> HIDE DEF f, p
    <2>4. p \in Seq(T) /\ Len(p) = n
      BY <2>1, <2>2, <2>3
    <2>5. p[1] = now
      BY <2>1, <2>2, <2>3
    <2>6. ASSUME NEW i \in 2 .. n PROVE p[i] = s[i - 1]
      <3>1. i - 1 \in 1 .. n - 1
        OBVIOUS
      <3>2. p[i] = f[i - 1]
        BY <2>1, <2>2, <2>3, <3>1
      <3> QED BY <2>3, <3>1, <3>2
    <2>7. Row(p, n)
      BY <2>4 DEF Row
    <2> QED BY <2>5, <2>6, <2>7 DEF p
  <1> QED BY <1>3, <1>4

\* ... and the history likewise.
Recorded(s, x, k) == SubSeq(<<x>> \o s, 1, k)

\* The history moves on by one input.
LEMMA HistoryIs ==
  ASSUME NEW n \in Nat, NEW s, Row(s, n), NEW x, NEW k \in Nat, k <= n + 1, k >= 1
  PROVE  /\ Row(Recorded(s, x, k), k) /\ Len(Recorded(s, x, k)) = k
         /\ Recorded(s, x, k)[1] = x
         /\ \A i \in 2 .. k : Recorded(s, x, k)[i] = s[i - 1]
  <1>1. Len(s) = n
    BY RowIs
  <1>2. PICK S : s \in Seq(S)
    BY RowIs
  <1> DEFINE T == S \cup {x}
             u == <<x>> \o s
             f == SubSeq(u, 1, k)
  <1>3. s \in Seq(T) /\ x \in T
    BY <1>2
  <1> HIDE DEF T
  <1>4. u \in Seq(T) /\ Len(u) = n + 1 /\ u[1] = x
    BY <1>1, <1>3
  <1>5. \A i \in 2 .. n + 1 : u[i] = s[i - 1]
    BY <1>1, <1>3
  <1>6. Recorded(s, x, k) = f
    BY DEF Recorded
  <1> HIDE DEF u
  <1>7. f \in Seq(T) /\ Len(f) = k /\ \A i \in 1 .. k : f[i] = u[i]
    BY <1>4
  <1> HIDE DEF f
  <1>8. Row(f, k)
    BY <1>7 DEF Row
  <1>9. f[1] = x
    BY <1>4, <1>7
  <1>10. \A i \in 2 .. k : f[i] = s[i - 1]
    BY <1>5, <1>7, SMTT(30)
  <1> QED BY <1>6, <1>7, <1>8, <1>9, <1>10

(***************************************************************************)
(* The wires                                                               *)
(***************************************************************************)

\* The netlist, one wire at a time.
LEMMA Netlist ==
  ASSUME NEW x
  PROVE  LET w == Wires(x) IN
         /\ w.prod = [i \in Limbs |-> c_lo(x.C)[i] * rho_of_limb(x)[i]]
         /\ w.chi = c_hi(x.C) /\ w.q_dot = q_eff(x) /\ w.q_mr = q_eff(x)
         /\ w.c_lo = c_lo(x.C)
         /\ w.rho_mu = [i \in Limbs |-> (rho_of_limb(x)[i] * mu_eff(x)) % W]
         /\ w.chi_mu = (c_hi(x.C) * mu_eff(x)) % W
         /\ w.raw_sum = SumOf(Out("prod", w.prod)) + Out("chi", w.chi)
         /\ w.q_sum = (IF cfg.FIXED_Q THEN q_eff(x) ELSE Out("q_dot", w.q_dot))
         /\ w.q_fin = w.q_sum
         /\ w.T_acc = modacc(w.raw_sum, w.q_sum * W)
         /\ w.tacc = Out("T_acc", w.T_acc)
         /\ w.rm = [c |-> [i \in Limbs |->
                             (Out("c_lo", w.c_lo)[i] * Out("rho_mu", w.rho_mu)[i]) % W],
                    chi |-> Out("chi_mu", w.chi_mu)]
         /\ w.m_val = (SumOf(Out("rm", w.rm).c) + Out("rm", w.rm).chi) % W
         /\ w.m_q = Out("m_val", w.m_val)
                      * (IF cfg.FIXED_Q THEN q_eff(x) ELSE Out("q_mr", w.q_mr))
         /\ w.mq = Out("m_q", w.m_q)
         /\ w.join = LowerHalf(Out("tacc", w.tacc), Out("mq", w.mq))
         /\ w.T_plus = UpperHalf(Out("join", w.join))
         /\ w.T_shift = w.T_plus \div W
         /\ w.D = CondSub(Out("T_shift", w.T_shift),
                          IF cfg.FIXED_Q THEN q_eff(x) ELSE Out("q_fin", w.q_fin))
         /\ w.out = Out("D", w.D)
  BY ZenonT(60) DEF Wires

\* The value of every line by its name.
LEMMA ValueIs ==
  ASSUME NEW y
  PROVE  LET v == Value(y) IN
         /\ v["prod"] = prod_of(y) /\ v["chi"] = c_hi(y.C) /\ v["q_dot"] = y.q
         /\ v["T_acc"] = T_acc_of(y) /\ v["q_fin"] = y.q
         /\ v["rho_mu"] = rho_mu_of(y) /\ v["c_lo"] = c_lo(y.C)
         /\ v["chi_mu"] = rm_of(y).chi /\ v["rm"] = rm_of(y)
         /\ v["m_val"] = m_of(y) /\ v["q_mr"] = y.q /\ v["m_q"] = m_q_of(y)
         /\ v["tacc"] = T_acc_of(y) /\ v["mq"] = m_q_of(y) /\ v["join"] = join_of(y)
         /\ v["T_shift"] = T_of(y) \div W /\ v["D"] = D_of(y)
  BY DEF Value

\* What a line holds where no input has come by yet.
NoLimbs == [i \in Limbs |-> 0]
Blank(l, v) ==
  /\ l \in {"prod", "rho_mu", "c_lo"} => v = NoLimbs
  /\ l = "rm" => v = [c |-> NoLimbs, chi |-> 0]
  /\ l = "join" => v = [lo |-> 0, carry |-> 0, a |-> 0, b |-> 0]
  /\ l = "q_fin" => v \in 0 .. 2^LOGQ - 1
  /\ l \notin {"prod", "rho_mu", "c_lo", "rm", "join", "q_fin"} => v = 0

\* The input d clocks ago, with x at the inputs now.
At(d, x) == IF d = 0 THEN x ELSE past[d]

History ==
  /\ Row(past, Len(past)) /\ Len(past) \in Nat /\ Len(past) <= LAT
  /\ \A i \in 1 .. Len(past) : Legal(past[i])

Rows == line = [l \in LineNames |-> line[l]] /\ \A l \in LineNames : Row(line[l], Lengths[l])

\* What stands in a register belongs to the input that came in as many clocks ago
\* as it takes to get there.
Aligned ==
  \A l \in LineNames : \A i \in 1 .. Lengths[l] :
    /\ Depth[l] + i <= Len(past) => line[l][i] = Value(past[Depth[l] + i])[l]
    /\ Depth[l] + i > Len(past) => Blank(l, line[l][i])

IInv == cfg \in Configs /\ History /\ Rows /\ Aligned

\* Where there is an input to speak of.
Apt(d, x) == d <= Len(past) /\ (d = 0 => Legal(x))

\* The input of d clocks ago is sound.
LEMMA AptInput ==
  ASSUME IInv, NEW x, NEW d \in Nat, Apt(d, x)
  PROVE  Legal(At(d, x))
  <1>1. CASE d = 0
    BY <1>1 DEF Apt, At
  <1>2. CASE d # 0
    <2>1. d \in 1 .. Len(past) /\ At(d, x) = past[d]
      BY <1>2 DEF Apt, At, IInv, History
    <2> QED BY <2>1 DEF IInv, History
  <1> QED BY <1>1, <1>2

\* The last register of a line, if it has one.
LEMMA LastRegister ==
  ASSUME IInv, NEW l \in LineNames, NEW now
  PROVE  LET n == Lengths[l] d == Depth[l] IN
         /\ n \in Nat /\ d \in Nat /\ Exit(l) = d + n /\ Len(past) \in Nat
         /\ Out(l, now) = IF n = 0 THEN now ELSE line[l][n]
         /\ n # 0 => /\ d + n <= Len(past) => line[l][n] = Value(past[d + n])[l]
                     /\ d + n > Len(past) => Blank(l, line[l][n])
  <1> DEFINE n == Lengths[l]
             d == Depth[l]
             s == line[l]
  <1>1. n \in Nat /\ d \in Nat /\ Exit(l) = d + n /\ Len(past) \in Nat
    BY Plan DEF IInv, History, Exit
  <1>2. Row(s, n) /\ Len(s) = n /\ (s = <<>> <=> n = 0)
    <2>1. Row(s, n)
      BY DEF IInv, Rows
    <2> HIDE DEF s, n
    <2> QED BY <1>1, <2>1, RowIs
  <1>3. Out(l, now) = IF n = 0 THEN now ELSE s[n]
    BY <1>2 DEF Out, Last
  <1>4. \A i \in 1 .. n : /\ d + i <= Len(past) => s[i] = Value(past[d + i])[l]
                          /\ d + i > Len(past) => Blank(l, s[i])
    BY DEF IInv, Aligned
  <1> HIDE DEF n, s
  <1>5. n # 0 => n \in 1 .. n
    BY <1>1
  <1>6. n # 0 => /\ d + n <= Len(past) => s[n] = Value(past[d + n])[l]
                 /\ d + n > Len(past) => Blank(l, s[n])
    BY <1>4, <1>5
  <1> QED BY <1>1, <1>3, <1>6 DEF n, s

\* A line hands on what it got, as many clocks later as it is long.
LEMMA OutIs ==
  ASSUME IInv, NEW l \in LineNames, NEW x, NEW now,
         Apt(Depth[l], x) => now = Value(At(Depth[l], x))[l]
  PROVE  Apt(Exit(l), x) => Out(l, now) = Value(At(Exit(l), x))[l]
  <1> DEFINE n == Lengths[l]
             d == Depth[l]
             s == line[l]
  <1>1. /\ n \in Nat /\ d \in Nat /\ Exit(l) = d + n /\ Len(past) \in Nat
        /\ Out(l, now) = IF n = 0 THEN now ELSE s[n]
        /\ n # 0 => (d + n <= Len(past) => s[n] = Value(past[d + n])[l])
    BY LastRegister
  <1> HIDE DEF n, s
  <1>2. CASE n = 0
    <2>1. Exit(l) = d /\ Out(l, now) = now
      BY <1>1, <1>2
    <2> QED BY <2>1, Zenon DEF d
  <1>3. CASE n # 0
    <2>1. Exit(l) = d + n /\ Exit(l) # 0 /\ Out(l, now) = s[n]
      BY <1>1, <1>3
    <2>2. At(Exit(l), x) = past[d + n]
      BY <2>1 DEF At
    <2>3. Apt(Exit(l), x) => s[n] = Value(past[d + n])[l]
      BY <1>1, <1>3, <2>1 DEF Apt
    <2> QED BY <2>1, <2>2, <2>3, Zenon
  <1> QED BY <1>2, <1>3

Enters(l, x) ==
  Apt(Depth[l], x) => Wires(x)[l] = Value(At(Depth[l], x))[l]
Leaves(l, x) ==
  Apt(Exit(l), x) => Out(l, Wires(x)[l]) = Value(At(Exit(l), x))[l]

\* A line that gets what belongs to an input leaves it again.
LEMMA Through ==
  ASSUME IInv, NEW l \in LineNames, NEW x, Enters(l, x)
  PROVE  Leaves(l, x)
  BY OutIs DEF Enters, Leaves

\* Every wire carries what belongs to the input that is as old as the wire is deep.
LEMMA WiresCarry ==
  ASSUME IInv, NEW x
  PROVE  /\ \A l \in LineNames : Enters(l, x)
         /\ Apt(cfg.DOT_LAT, x) => /\ Wires(x).raw_sum = raw_of(At(cfg.DOT_LAT, x))
                                   /\ Wires(x).q_sum = At(cfg.DOT_LAT, x).q
         /\ Apt(T_AT, x) => Wires(x).T_plus = T_of(At(T_AT, x))
         /\ Apt(LAT, x) => Wires(x).out = D_of(At(LAT, x))
  <1> DEFINE w == Wires(x)
             DOT == cfg.DOT_LAT
  <1>1. cfg \in Configs
    BY DEF IInv
  <1>2. /\ DOT \in Nat /\ RM_MUL_LAT \in Nat /\ RM_AT \in Nat /\ MVAL_AT \in Nat
        /\ PATH_A \in Nat /\ PATH_B \in Nat /\ JOIN_CYC \in Nat
        /\ T_AT \in Nat /\ D_AT \in Nat /\ LAT \in Nat
    BY <1>1, Plan
  <1>3. \A d \in Nat : Apt(d, x) => Legal(At(d, x))
    BY AptInput
  <1>4. \A d \in Nat : Apt(d, x) /\ cfg.FIXED_Q => q_eff(x) = At(d, x).q
    <2>1. cfg.FIXED_Q => q_eff(x) = cfg.Q_VALUE
      BY DEF q_eff
    <2> QED BY <1>3, <2>1, EffectiveConstants
  <1>5. ASSUME Apt(0, x)
        PROVE  /\ At(0, x) = x /\ q_eff(x) = x.q /\ mu_eff(x) = x.mu
               /\ rho_of_limb(x) = limb_rho(x)
    <2>1. At(0, x) = x
      BY DEF At
    <2>2. Legal(x)
      BY <1>3, <1>5, <2>1
    <2> QED BY <2>1, <2>2, EffectiveConstants
  \* What is computed from the inputs.
  <1>6. /\ Enters("prod", x) /\ Enters("chi", x) /\ Enters("q_dot", x)
        /\ Enters("q_mr", x) /\ Enters("c_lo", x) /\ Enters("rho_mu", x)
        /\ Enters("chi_mu", x)
    <2>1. ASSUME Apt(0, x)
          PROVE  /\ w.prod = prod_of(x) /\ w.chi = c_hi(x.C) /\ w.q_dot = x.q
                 /\ w.q_mr = x.q /\ w.c_lo = c_lo(x.C) /\ w.rho_mu = rho_mu_of(x)
                 /\ w.chi_mu = rm_of(x).chi
      <3>0. /\ w.prod = [i \in Limbs |-> c_lo(x.C)[i] * rho_of_limb(x)[i]]
            /\ w.rho_mu = [i \in Limbs |-> (rho_of_limb(x)[i] * mu_eff(x)) % W]
            /\ w.chi_mu = (c_hi(x.C) * mu_eff(x)) % W
            /\ w.chi = c_hi(x.C) /\ w.q_dot = q_eff(x) /\ w.q_mr = q_eff(x)
            /\ w.c_lo = c_lo(x.C)
        BY Netlist
      <3> HIDE DEF w
      <3>1. /\ q_eff(x) = x.q /\ mu_eff(x) = x.mu /\ rho_of_limb(x) = limb_rho(x)
        BY <1>5, <2>1
      <3>2. w.prod = prod_of(x)
        BY <3>0, <3>1 DEF prod_of
      <3>3. w.rho_mu = rho_mu_of(x)
        BY <3>0, <3>1 DEF rho_mu_of
      <3>4. rm_of(x).chi = (c_hi(x.C) * x.mu) % W
        BY DEF rm_of
      <3>5. /\ w.chi = c_hi(x.C) /\ w.q_dot = x.q /\ w.q_mr = x.q /\ w.c_lo = c_lo(x.C)
            /\ w.chi_mu = rm_of(x).chi
        BY <3>0, <3>1, <3>4
      <3> QED BY <3>2, <3>3, <3>5
    <2> HIDE DEF w
    <2>2. /\ Depth["prod"] = 0 /\ Depth["chi"] = 0 /\ Depth["q_dot"] = 0
          /\ Depth["q_mr"] = 0 /\ Depth["c_lo"] = 0 /\ Depth["rho_mu"] = 0
          /\ Depth["chi_mu"] = 0
      BY <1>1, Plan
    <2>3. Enters("prod", x)
      BY <1>5, <2>1, <2>2, ValueIs, ZenonT(60) DEF Enters, w
    <2>4. Enters("chi", x)
      BY <1>5, <2>1, <2>2, ValueIs DEF Enters, w
    <2>5. Enters("q_dot", x)
      BY <1>5, <2>1, <2>2, ValueIs DEF Enters, w
    <2>6. Enters("q_mr", x)
      BY <1>5, <2>1, <2>2, ValueIs DEF Enters, w
    <2>7. Enters("c_lo", x)
      BY <1>5, <2>1, <2>2, ValueIs DEF Enters, w
    <2>8. Enters("rho_mu", x)
      BY <1>5, <2>1, <2>2, ValueIs, ZenonT(60) DEF Enters, w
    <2>9. Enters("chi_mu", x)
      BY <1>5, <2>1, <2>2, ValueIs DEF Enters, w
    <2> QED BY <2>3, <2>4, <2>5, <2>6, <2>7, <2>8, <2>9
  <1>7. /\ Apt(DOT, x) => /\ Out("prod", w.prod) = prod_of(At(DOT, x))
                          /\ Out("chi", w.chi) = c_hi(At(DOT, x).C)
                          /\ Out("q_dot", w.q_dot) = At(DOT, x).q
        /\ Apt(MVAL_AT, x) => Out("q_mr", w.q_mr) = At(MVAL_AT, x).q
        /\ Apt(RM_MUL_LAT, x) => /\ Out("c_lo", w.c_lo) = c_lo(At(RM_MUL_LAT, x).C)
                                 /\ Out("rho_mu", w.rho_mu) = rho_mu_of(At(RM_MUL_LAT, x))
                                 /\ Out("chi_mu", w.chi_mu) = rm_of(At(RM_MUL_LAT, x)).chi
    <2>1. /\ Leaves("prod", x) /\ Leaves("chi", x) /\ Leaves("q_dot", x)
          /\ Leaves("q_mr", x) /\ Leaves("c_lo", x) /\ Leaves("rho_mu", x)
          /\ Leaves("chi_mu", x)
      BY <1>6, Through DEF LineNames
    <2>2. /\ Exit("prod") = DOT /\ Exit("chi") = DOT /\ Exit("q_dot") = DOT
          /\ Exit("q_mr") = MVAL_AT /\ Exit("c_lo") = RM_MUL_LAT
          /\ Exit("rho_mu") = RM_MUL_LAT /\ Exit("chi_mu") = RM_MUL_LAT
      BY <1>1, Plan
    <2> HIDE DEF DOT
    <2>3. Apt(DOT, x) => Out("prod", w.prod) = prod_of(At(DOT, x))
      BY <2>1, <2>2, ValueIs DEF Leaves
    <2>4. Apt(DOT, x) => Out("chi", w.chi) = c_hi(At(DOT, x).C)
      BY <2>1, <2>2, ValueIs DEF Leaves
    <2>5. Apt(DOT, x) => Out("q_dot", w.q_dot) = At(DOT, x).q
      BY <2>1, <2>2, ValueIs DEF Leaves
    <2>6. Apt(MVAL_AT, x) => Out("q_mr", w.q_mr) = At(MVAL_AT, x).q
      BY <2>1, <2>2, ValueIs DEF Leaves
    <2>7. Apt(RM_MUL_LAT, x) => Out("c_lo", w.c_lo) = c_lo(At(RM_MUL_LAT, x).C)
      BY <2>1, <2>2, ValueIs DEF Leaves
    <2>8. Apt(RM_MUL_LAT, x) => Out("rho_mu", w.rho_mu) = rho_mu_of(At(RM_MUL_LAT, x))
      BY <2>1, <2>2, ValueIs DEF Leaves
    <2>9. Apt(RM_MUL_LAT, x) => Out("chi_mu", w.chi_mu) = rm_of(At(RM_MUL_LAT, x)).chi
      BY <2>1, <2>2, ValueIs DEF Leaves
    <2> QED BY <2>3, <2>4, <2>5, <2>6, <2>7, <2>8, <2>9
  \* Path B.
  <1>8. Apt(DOT, x) => w.raw_sum = raw_of(At(DOT, x)) /\ w.q_sum = At(DOT, x).q
    <2> HAVE Apt(DOT, x)
    <2>1. w.raw_sum = raw_of(At(DOT, x))
      <3>1. w.raw_sum = SumOf(Out("prod", w.prod)) + Out("chi", w.chi)
        BY Netlist
      <3> HIDE DEF w, DOT
      <3>2. /\ Out("prod", w.prod) = prod_of(At(DOT, x))
            /\ Out("chi", w.chi) = c_hi(At(DOT, x).C)
        BY <1>7
      <3> QED BY <3>1, <3>2, Zenon DEF raw_of
    <2>2. w.q_sum = (IF cfg.FIXED_Q THEN q_eff(x) ELSE Out("q_dot", w.q_dot))
      BY Netlist
    <2> HIDE DEF w, DOT
    <2>3. w.q_sum = At(DOT, x).q
      BY <1>2, <1>4, <1>7, <2>2
    <2> QED BY <2>1, <2>3
  <1>9. Enters("T_acc", x) /\ Enters("q_fin", x)
    <2>1. Depth["T_acc"] = DOT /\ Depth["q_fin"] = DOT
      BY <1>1, Plan
    <2>2. ASSUME Apt(DOT, x)
          PROVE  w.T_acc = T_acc_of(At(DOT, x)) /\ w.q_fin = At(DOT, x).q
      <3>1. modacc(raw_of(At(DOT, x)), At(DOT, x).q * W) = T_acc_of(At(DOT, x))
        BY <1>1, <1>2, <1>3, <2>2, AccReduces
      <3>2. w.T_acc = modacc(w.raw_sum, w.q_sum * W) /\ w.q_fin = w.q_sum
        BY Netlist
      <3> HIDE DEF w, DOT
      <3> QED BY <1>8, <2>2, <3>1, <3>2
    <2> HIDE DEF w, DOT
    <2> QED BY <2>1, <2>2, ValueIs DEF Enters, w
  <1>10. /\ Apt(PATH_B, x) => Out("T_acc", w.T_acc) = T_acc_of(At(PATH_B, x))
         /\ Apt(D_AT, x) => Out("q_fin", w.q_fin) = At(D_AT, x).q
    <2>1. Leaves("T_acc", x) /\ Leaves("q_fin", x)
      BY <1>9, Through DEF LineNames
    <2>2. Exit("T_acc") = PATH_B /\ Exit("q_fin") = D_AT
      BY <1>1, Plan
    <2> QED BY <2>1, <2>2, ValueIs DEF Leaves
  <1>11. Enters("tacc", x)
    <2>1. Depth["tacc"] = PATH_B
      BY <1>1, Plan
    <2>2. Apt(PATH_B, x) => w.tacc = T_acc_of(At(PATH_B, x))
      BY <1>10, Netlist
    <2> QED BY <2>1, <2>2, ValueIs DEF Enters
  <1>12. Apt(JOIN_CYC, x) => Out("tacc", w.tacc) = T_acc_of(At(JOIN_CYC, x))
    <2>1. Leaves("tacc", x)
      BY <1>11, Through DEF LineNames
    <2>2. Exit("tacc") = JOIN_CYC
      BY <1>1, Plan
    <2> QED BY <2>1, <2>2, ValueIs DEF Leaves
  \* Path A.
  <1>13. Enters("rm", x)
    <2>1. Depth["rm"] = RM_MUL_LAT
      BY <1>1, Plan
    <2>2. ASSUME Apt(RM_MUL_LAT, x) PROVE w.rm = rm_of(At(RM_MUL_LAT, x))
      <3> DEFINE y == At(RM_MUL_LAT, x)
      <3>1. /\ Out("c_lo", w.c_lo) = c_lo(y.C) /\ Out("rho_mu", w.rho_mu) = rho_mu_of(y)
            /\ Out("chi_mu", w.chi_mu) = rm_of(y).chi
        BY <1>7, <2>2
      <3>2. w.rm = [c |-> [i \in Limbs |-> (Out("c_lo", w.c_lo)[i]
                                              * Out("rho_mu", w.rho_mu)[i]) % W],
                    chi |-> Out("chi_mu", w.chi_mu)]
        BY Netlist
      <3>3. rm_of(y) = [c |-> [i \in Limbs |-> (c_lo(y.C)[i] * rho_mu_of(y)[i]) % W],
                        chi |-> rm_of(y).chi]
        BY DEF rm_of
      <3> HIDE DEF y, w
      <3> QED BY <3>1, <3>2, <3>3 DEF y
    <2> HIDE DEF w
    <2> QED BY <2>1, <2>2, ValueIs DEF Enters, w
  <1>14. Apt(RM_AT, x) => Out("rm", w.rm) = rm_of(At(RM_AT, x))
    <2>1. Leaves("rm", x)
      BY <1>13, Through DEF LineNames
    <2>2. Exit("rm") = RM_AT
      BY <1>1, Plan
    <2> QED BY <2>1, <2>2, ValueIs DEF Leaves
  <1>15. Enters("m_val", x)
    <2>1. Depth["m_val"] = RM_AT
      BY <1>1, Plan
    <2>2. Apt(RM_AT, x) => w.m_val = m_of(At(RM_AT, x))
      BY <1>14, Netlist, ZenonT(60) DEF m_of
    <2> QED BY <2>1, <2>2, ValueIs DEF Enters
  <1>16. Apt(MVAL_AT, x) => Out("m_val", w.m_val) = m_of(At(MVAL_AT, x))
    <2>1. Leaves("m_val", x)
      BY <1>15, Through DEF LineNames
    <2>2. Exit("m_val") = MVAL_AT
      BY <1>1, Plan
    <2> QED BY <2>1, <2>2, ValueIs DEF Leaves
  <1>17. Enters("m_q", x)
    <2>1. Depth["m_q"] = MVAL_AT
      BY <1>1, Plan
    <2>2. ASSUME Apt(MVAL_AT, x) PROVE w.m_q = m_q_of(At(MVAL_AT, x))
      <3>1. (IF cfg.FIXED_Q THEN q_eff(x) ELSE Out("q_mr", w.q_mr)) = At(MVAL_AT, x).q
        BY <1>2, <1>4, <1>7, <2>2
      <3>2. w.m_q = Out("m_val", w.m_val)
                      * (IF cfg.FIXED_Q THEN q_eff(x) ELSE Out("q_mr", w.q_mr))
        BY Netlist
      <3> HIDE DEF w
      <3> QED BY <1>16, <2>2, <3>1, <3>2 DEF m_q_of
    <2> HIDE DEF w
    <2> QED BY <2>1, <2>2, ValueIs DEF Enters, w
  <1>18. Apt(PATH_A, x) => Out("m_q", w.m_q) = m_q_of(At(PATH_A, x))
    <2>1. Leaves("m_q", x)
      BY <1>17, Through DEF LineNames
    <2>2. Exit("m_q") = PATH_A
      BY <1>1, Plan
    <2> QED BY <2>1, <2>2, ValueIs DEF Leaves
  <1>19. Enters("mq", x)
    <2>1. Depth["mq"] = PATH_A
      BY <1>1, Plan
    <2>2. Apt(PATH_A, x) => w.mq = m_q_of(At(PATH_A, x))
      BY <1>18, Netlist
    <2> QED BY <2>1, <2>2, ValueIs DEF Enters
  <1>20. Apt(JOIN_CYC, x) => Out("mq", w.mq) = m_q_of(At(JOIN_CYC, x))
    <2>1. Leaves("mq", x)
      BY <1>19, Through DEF LineNames
    <2>2. Exit("mq") = JOIN_CYC
      BY <1>1, Plan
    <2> QED BY <2>1, <2>2, ValueIs DEF Leaves
  \* The join and what follows it.
  <1>21. Enters("join", x)
    <2>1. Depth["join"] = JOIN_CYC
      BY <1>1, Plan
    <2>2. Apt(JOIN_CYC, x) => w.join = join_of(At(JOIN_CYC, x))
      BY <1>12, <1>20, Netlist DEF join_of
    <2> QED BY <2>1, <2>2, ValueIs DEF Enters
  <1>22. Apt(T_AT, x) => w.T_plus = T_of(At(T_AT, x))
    <2>1. Leaves("join", x)
      BY <1>21, Through DEF LineNames
    <2>2. Exit("join") = T_AT
      BY <1>1, Plan
    <2>3. Apt(T_AT, x) => Out("join", w.join) = join_of(At(T_AT, x))
      BY <2>1, <2>2, ValueIs DEF Leaves
    <2> QED BY <2>3, Netlist DEF T_of
  <1>23. Enters("T_shift", x)
    <2>1. Depth["T_shift"] = T_AT
      BY <1>1, Plan
    <2>2. Apt(T_AT, x) => w.T_shift = T_of(At(T_AT, x)) \div W
      BY <1>22, Netlist
    <2> QED BY <2>1, <2>2, ValueIs DEF Enters
  <1>24. Enters("D", x)
    <2>1. Depth["D"] = D_AT
      BY <1>1, Plan
    <2>2. Leaves("T_shift", x)
      BY <1>23, Through DEF LineNames
    <2>3. Exit("T_shift") = D_AT
      BY <1>1, Plan
    <2>4. Apt(D_AT, x) => Out("T_shift", w.T_shift) = T_of(At(D_AT, x)) \div W
      BY <2>2, <2>3, ValueIs DEF Leaves
    <2>5. ASSUME Apt(D_AT, x) PROVE w.D = D_of(At(D_AT, x))
      <3>1. (IF cfg.FIXED_Q THEN q_eff(x) ELSE Out("q_fin", w.q_fin)) = At(D_AT, x).q
        BY <1>2, <1>4, <1>10, <2>5
      <3>2. w.D = CondSub(Out("T_shift", w.T_shift),
                          IF cfg.FIXED_Q THEN q_eff(x) ELSE Out("q_fin", w.q_fin))
        BY Netlist
      <3> HIDE DEF w
      <3> QED BY <2>4, <2>5, <3>1, <3>2 DEF D_of
    <2> HIDE DEF w
    <2> QED BY <2>1, <2>5, ValueIs DEF Enters, w
  <1>25. Apt(LAT, x) => w.out = D_of(At(LAT, x))
    <2>1. Leaves("D", x)
      BY <1>24, Through DEF LineNames
    <2>2. Exit("D") = LAT
      BY <1>1, Plan
    <2>3. Apt(LAT, x) => Out("D", w.D) = D_of(At(LAT, x))
      BY <2>1, <2>2, ValueIs DEF Leaves
    <2> QED BY <2>3, Netlist
  <1>26. \A l \in LineNames : Enters(l, x)
    BY <1>6, <1>9, <1>11, <1>13, <1>15, <1>17, <1>19, <1>21, <1>23, <1>24 DEF LineNames
  <1> QED BY <1>8, <1>22, <1>25, <1>26

(***************************************************************************)
(* Before the first input has come by, every block is at rest              *)
(***************************************************************************)

\* Zeros add up to zero.
LEMMA SumOfZeros == SumOf(NoLimbs) = 0
  <1>1. DOMAIN NoLimbs = 0 .. N_MUL - 1 /\ \A i \in 0 .. N_MUL - 1 : NoLimbs[i] = 0
    BY DEF NoLimbs, Limbs
  <1> HIDE DEF NoLimbs
  <1>2. SumOf(NoLimbs) = SumOver(NoLimbs, 0 .. N_MUL - 1)
    BY <1>1, SumOfIs
  <1>3. \A i \in 0 .. N_MUL - 1 : NoLimbs[i] \in 0 .. 0
    BY <1>1
  <1>4. SumOver(NoLimbs, 0 .. N_MUL - 1) \in 0 .. N_MUL * 0
    BY <1>3, Sizes, SumRange
  <1>5. N_MUL * 0 = 0
    BY Sizes
  <1> DEFINE s == SumOver(NoLimbs, 0 .. N_MUL - 1)
  <1>6. s \in 0 .. 0
    BY <1>4, <1>5
  <1> HIDE DEF s
  <1>7. s = 0
    BY <1>6
  <1> QED BY <1>2, <1>7 DEF s

\* A stage leaves zero alone.
LEMMA StageOfZero ==
  ASSUME NEW Q \in Nat, NEW sh \in 0 .. SUM_W, Q * 2^sh <= 2^SUM_W
  PROVE  Stage!val_comb(0, Q, sh) = 0
  <1> DEFINE w == 2^SUM_W
             t == 2^sh
             p == Q * t
             d == Stage!diff(0, Q, sh)
             r == Stage!val_comb(0, Q, sh)
  <1>1. w \in Nat \ {0} /\ 2^(SUM_W + 1) = 2 * w /\ SUM_W \in Nat /\ SUM_W + 1 <= MaxExp
    BY Widths, Powers
  <1>2. t \in Nat \ {0} /\ sh \in 0 .. SUM_W + 1
    <2>1. sh \in 0 .. MaxExp /\ 2 \in Bases
      BY <1>1, Powers DEF Bases
    <2> QED BY <1>1, <2>1, Powers
  <1>3. p \in Nat /\ p <= w
    BY <1>2
  <1>4. d = (0 - (p % (2 * w))) % (2 * w)
    <2>1. SUM_W + 1 \in 0 .. SUM_W + 1
      BY <1>1
    <2>2. d = (0 - ((Q * 2^sh) % 2^(SUM_W + 1))) % 2^(SUM_W + 1)
      BY <1>2, <2>1 DEF Stage!diff, Stage!q_shifted
    <2> QED BY <1>1, <2>2
  <1>5. r = IF d >= w THEN 0 ELSE d
    <2>1. SUM_W \in 0 .. SUM_W + 1
      BY <1>1
    <2> QED BY <2>1 DEF Stage!val_comb
  <1> HIDE DEF w, d, r, p
  <1>6. /\ p % (2 * w) = p
        /\ 0 >= p => (0 - p) % (2 * w) = 0 - p
        /\ 0 < p => (0 - p) % (2 * w) = 2 * w - (p - 0)
    BY <1>1, <1>3, Borrow
  <1>7. CASE p = 0
    <2>1. d = 0
      BY <1>4, <1>6, <1>7
    <2> QED BY <1>1, <1>5, <2>1 DEF r
  <1>8. CASE p # 0
    <2>1. d = 2 * w - p
      BY <1>3, <1>4, <1>6, <1>8
    <2>2. d >= w
      BY <1>1, <1>3, <2>1
    <2> QED BY <1>5, <2>2 DEF r
  <1> QED BY <1>7, <1>8

\* ... and so does modacc.
LEMMA AccOfZero ==
  ASSUME cfg \in Configs, NEW q \in 0 .. 2^LOGQ - 1
  PROVE  modacc(0, q * W) = 0
  <1> DEFINE Q == q * W
  <1>1. Q \in Nat /\ Q <= 2^ACCW /\ 2^ACCW \in Nat \ {0} /\ 2^SUM_W \in Nat \ {0}
        /\ 2^SUM_W = 2^ACCW * 2^extra
    <2>1. q \in Nat /\ q <= 2^LOGQ /\ 2^LOGQ \in Nat /\ W \in Nat /\ W <= W
      BY Widths, Powers
    <2>2. Q <= 2^LOGQ * W /\ Q \in Nat
      BY <2>1, MulMono
    <2> QED BY <2>2, Widths
  <1>2. num_cs \in 0 .. extra /\ num_cs \in Nat /\ extra \in Nat /\ SUM_W \in Nat
        /\ extra <= SUM_W /\ MaxExp \in Nat /\ extra + 1 <= MaxExp /\ 2 \in Bases
    BY ChainLength, Widths, Sizes, Powers DEF Bases
  <1> HIDE DEF Q
  <1>3. PICK v : /\ v[0] = 0 % 2^SUM_W
                 /\ \A n \in 1 .. num_cs : v[n] = Stage!val_comb(v[n - 1], Q, num_cs - n)
                 /\ modacc(0, Q) = v[num_cs] % 2^ACCW
    BY ChainIs
  <1>4. 0 % 2^SUM_W = 0 /\ 0 % 2^ACCW = 0
    BY <1>1
  <1> DEFINE C == {k \in Nat : k <= num_cs => v[k] = 0}
  <1>5. 0 \in C
    BY <1>3, <1>4
  <1>6. ASSUME NEW k \in C PROVE k + 1 \in C
    <2> SUFFICES ASSUME k + 1 <= num_cs PROVE v[k + 1] = 0
      OBVIOUS
    <2> DEFINE n == k + 1
               sh == num_cs - n
    <2>1. k \in Nat /\ k <= num_cs /\ n \in 1 .. num_cs /\ n - 1 = k
          /\ sh \in Nat /\ sh \in 0 .. SUM_W /\ sh <= extra /\ extra <= MaxExp
          /\ sh \in 0 .. MaxExp /\ extra \in 0 .. MaxExp
      BY <1>2
    <2>2. v[n] = Stage!val_comb(0, Q, sh)
      <3>1. v[k] = 0
        BY <2>1
      <3> QED BY <1>3, <2>1, <3>1
    <2> HIDE DEF n, sh
    <2>3. Q * 2^sh <= 2^SUM_W
      <3>1. 2^sh <= 2^extra /\ 2^sh \in Nat /\ 2^extra \in Nat /\ 2^ACCW \in Nat
        BY <1>1, <1>2, <2>1, PowerMono, Powers
      <3>2. Q * 2^sh <= 2^ACCW * 2^extra
        BY <1>1, <3>1, MulMono
      <3> QED BY <1>1, <3>2
    <2> QED BY <1>1, <2>1, <2>2, <2>3, StageOfZero DEF n
  <1>7. C = Nat
    <2> HIDE DEF C
    <2>1. C \in SUBSET Nat
      BY DEF C
    <2> QED BY <1>5, <1>6, <2>1, InductiveSet
  <1>8. v[num_cs] = 0
    <2>1. num_cs \in C /\ num_cs <= num_cs
      <3> HIDE DEF C
      <3> QED BY <1>2, <1>7
    <2> QED BY <2>1
  <1> QED BY <1>3, <1>4, <1>8 DEF Q

\* The last subtraction leaves zero alone ...
LEMMA CondSubOfZero ==
  ASSUME NEW q \in 0 .. 2^LOGQ - 1
  PROVE  CondSub(0, q) = 0
  <1> DEFINE w == 2^LOGQ
             d == (0 - q) % (2 * w)
             r == CondSub(0, q)
  <1>1. w \in Nat \ {0} /\ 2^(LOGQ + 1) = 2 * w
    BY Widths
  <1>2. r = (IF d >= w THEN 0 ELSE d) % w
    BY <1>1 DEF CondSub
  <1>3. q \in Nat /\ q < w
    BY <1>1
  <1> HIDE DEF w, d, r
  <1>4. /\ 0 >= q => (0 - q) % (2 * w) = 0 - q
        /\ 0 < q => (0 - q) % (2 * w) = 2 * w - (q - 0)
    BY <1>1, <1>3, Borrow
  <1>5. d = 0 \/ d >= w
    BY <1>1, <1>3, <1>4 DEF d
  <1>6. r = 0 % w
    BY <1>1, <1>2, <1>5
  <1> QED BY <1>1, <1>6 DEF r

\* ... and so does the join.
LEMMA JoinOfZero ==
  /\ LowerHalf(0, 0) = [lo |-> 0, carry |-> 0, a |-> 0, b |-> 0]
  /\ UpperHalf([lo |-> 0, carry |-> 0, a |-> 0, b |-> 0]) = 0
  <1> DEFINE S == 2^JOIN_SPLIT
  <1>1. S \in Nat \ {0}
    <2>1. 2 \in Bases /\ JOIN_SPLIT \in 0 .. MaxExp
      BY Sizes, Powers DEF Bases
    <2> QED BY <2>1, Powers
  <1>2. LowerHalf(0, 0) = [lo |-> ((0 % S) + (0 % S)) % S,
                           carry |-> ((0 % S) + (0 % S)) \div S,
                           a |-> 0 \div S, b |-> 0 \div S]
    BY DEF LowerHalf
  <1>3. UpperHalf([lo |-> 0, carry |-> 0, a |-> 0, b |-> 0]) = (0 + 0 + 0) * S + 0
    BY DEF UpperHalf
  <1> HIDE DEF S
  <1>4. 0 % S = 0 /\ 0 \div S = 0 /\ 0 + 0 = 0 /\ (0 + 0 + 0) * S + 0 = 0
    BY <1>1
  <1> QED BY <1>2, <1>3, <1>4

\* What logjumps has at its inputs while the delay lines before it are cleared.
EmptyInput(x) ==
  /\ ~cfg.FIXED_Q
  /\ x.C = 0 /\ x.q = 0 /\ x.rho = [k \in 1 .. N_MUL |-> 0] /\ x.mu = 0

\* m inputs have come in before x; -1 when x is not even one.
Since(m, x) ==
  \/ m = Len(past) /\ Legal(x)
  \/ m = -1 /\ Len(past) = 0 /\ EmptyInput(x)

EntersBlank(l, x, m) == Depth[l] > m => Blank(l, Wires(x)[l])
LeavesBlank(l, x, m) == Exit(l) > m => Blank(l, Out(l, Wires(x)[l]))

\* A line that gets nothing leaves nothing.
LEMMA ThroughBlank ==
  ASSUME IInv, NEW l \in LineNames, NEW x, NEW m, Since(m, x), EntersBlank(l, x, m)
  PROVE  LeavesBlank(l, x, m)
  <1> DEFINE n == Lengths[l]
             d == Depth[l]
             now == Wires(x)[l]
  <1>1. /\ n \in Nat /\ d \in Nat /\ Exit(l) = d + n /\ Len(past) \in Nat
        /\ Out(l, now) = IF n = 0 THEN now ELSE line[l][n]
        /\ n # 0 => (d + n > Len(past) => Blank(l, line[l][n]))
    BY LastRegister
  <1>2. m = Len(past) \/ (m = -1 /\ Len(past) = 0)
    BY DEF Since
  <1>3. d > m => Blank(l, now)
    BY DEF EntersBlank
  <1> HIDE DEF n, d, now
  <1>4. CASE n = 0
    <2>1. Exit(l) = d /\ Out(l, now) = now
      BY <1>1, <1>4
    <2> QED BY <1>3, <2>1 DEF LeavesBlank, now
  <1>5. CASE n # 0
    <2>1. d + n > m => d + n > Len(past)
      BY <1>1, <1>2, <1>5
    <2>2. Out(l, now) = line[l][n]
      BY <1>1, <1>5
    <2>3. Exit(l) > m => Blank(l, Out(l, now))
      BY <1>1, <1>5, <2>1, <2>2
    <2> QED BY <2>3 DEF LeavesBlank, now
  <1> QED BY <1>4, <1>5

\* What blank means, line by line.
LEMMA BlankIs ==
  ASSUME NEW v
  PROVE  /\ Blank("prod", v) <=> v = NoLimbs
         /\ Blank("rho_mu", v) <=> v = NoLimbs
         /\ Blank("c_lo", v) <=> v = NoLimbs
         /\ Blank("rm", v) <=> v = [c |-> NoLimbs, chi |-> 0]
         /\ Blank("join", v) <=> v = [lo |-> 0, carry |-> 0, a |-> 0, b |-> 0]
         /\ Blank("q_fin", v) <=> v \in 0 .. 2^LOGQ - 1
         /\ \A l \in {"chi", "q_dot", "T_acc", "chi_mu", "m_val", "q_mr", "m_q", "tacc",
                      "mq", "T_shift", "D"} : Blank(l, v) <=> v = 0
  BY DEF Blank

\* The wires that come straight from the empty input.
LEMMA EmptyWires ==
  ASSUME NEW x, EmptyInput(x)
  PROVE  LET w == Wires(x) IN
         /\ w.prod = NoLimbs /\ w.chi = 0 /\ w.q_dot = 0 /\ w.q_mr = 0
         /\ w.c_lo = NoLimbs /\ w.rho_mu = NoLimbs /\ w.chi_mu = 0
  <1> DEFINE w == Wires(x)
  <1>1. q_eff(x) = 0 /\ mu_eff(x) = 0 /\ x.C = 0
    BY DEF EmptyInput, q_eff, mu_eff
  <1>2. rho_of_limb(x) = NoLimbs
    <2>1. rho_eff(x) = [k \in 1 .. N_MUL |-> 0]
      BY DEF EmptyInput, rho_eff
    <2>2. \A i \in Limbs : N_MUL - i \in 1 .. N_MUL
      BY Sizes DEF Limbs
    <2> QED BY <2>1, <2>2 DEF rho_of_limb, NoLimbs
  <1>3. \A k \in 0 .. MaxExp : W^k \in Nat \ {0}
    BY Powers DEF Bases
  <1>4. c_lo(0) = NoLimbs
    <2>1. ASSUME NEW i \in Limbs PROVE (0 \div W^i) % W = 0
      <3> DEFINE P == W^i
      <3>1. i \in 0 .. MaxExp
        BY Sizes, Powers DEF Limbs
      <3>2. P \in Nat \ {0} /\ W \in Nat \ {0}
        BY <1>3, <3>1, Powers
      <3> HIDE DEF P
      <3>3. (0 \div P) % W = 0
        BY <3>2
      <3> QED BY <3>3 DEF P
    <2> QED BY <2>1 DEF c_lo, NoLimbs
  <1>5. c_hi(0) = 0
    <2> DEFINE P == W^N_MUL
    <2>1. P \in Nat \ {0}
      BY <1>3, Sizes, Powers
    <2> HIDE DEF P
    <2>2. 0 \div P = 0
      BY <2>1
    <2> QED BY <2>2 DEF c_hi, P
  <1>6. (0 * 0) % W = 0 /\ 0 * 0 = 0
    BY Powers
  <1>7. \A i \in Limbs : NoLimbs[i] = 0
    BY DEF NoLimbs
  <1>8. w.prod = NoLimbs
    <2>1. w.prod = [i \in Limbs |-> c_lo(x.C)[i] * rho_of_limb(x)[i]]
      BY Netlist
    <2> HIDE DEF w
    <2>2. w.prod = [i \in Limbs |-> NoLimbs[i] * NoLimbs[i]]
      BY <1>1, <1>2, <1>4, <2>1
    <2>3. [i \in Limbs |-> NoLimbs[i] * NoLimbs[i]] = NoLimbs
      BY <1>6, <1>7 DEF NoLimbs
    <2> QED BY <2>2, <2>3
  <1>9. w.rho_mu = NoLimbs
    <2>1. w.rho_mu = [i \in Limbs |-> (rho_of_limb(x)[i] * mu_eff(x)) % W]
      BY Netlist
    <2> HIDE DEF w
    <2>2. w.rho_mu = [i \in Limbs |-> (NoLimbs[i] * 0) % W]
      BY <1>1, <1>2, <2>1
    <2>3. [i \in Limbs |-> (NoLimbs[i] * 0) % W] = NoLimbs
      BY <1>6, <1>7 DEF NoLimbs
    <2> QED BY <2>2, <2>3
  <1>10. /\ w.chi = c_hi(x.C) /\ w.q_dot = q_eff(x) /\ w.q_mr = q_eff(x)
         /\ w.c_lo = c_lo(x.C) /\ w.chi_mu = (c_hi(x.C) * mu_eff(x)) % W
    BY Netlist
  <1> HIDE DEF w
  <1> QED BY <1>1, <1>4, <1>5, <1>6, <1>8, <1>9, <1>10 DEF w

\* Every wire is blank before the first input has come that far.
LEMMA WiresRest ==
  ASSUME IInv, NEW x, NEW n, Since(n, x)
  PROVE  \A l \in LineNames : EntersBlank(l, x, n)
  <1> DEFINE w == Wires(x)
             DOT == cfg.DOT_LAT
  <1>1. cfg \in Configs /\ n \in Int
    BY DEF IInv, History, Since
  <1>2. q_eff(x) = x.q /\ x.q \in 0 .. 2^LOGQ - 1 /\ x.q \in Int /\ W \in Nat \ {0}
    <2>1. CASE Legal(x)
      <3>1. x.q \in Nat \ {0} /\ x.q < 2^LOGQ /\ 2^LOGQ \in Nat
        BY <2>1, EffectiveConstants, SoundInput, Constants, Widths
      <3> QED BY <2>1, <3>1, EffectiveConstants, Powers
    <2>2. CASE EmptyInput(x)
      <3>1. x.q = 0 /\ q_eff(x) = x.q
        BY <2>2 DEF EmptyInput, q_eff
      <3>2. 2^LOGQ \in Nat \ {0}
        BY Widths
      <3> QED BY <3>1, <3>2, Powers
    <2> QED BY <2>1, <2>2 DEF Since
  <1>3. /\ EntersBlank("prod", x, n) /\ EntersBlank("chi", x, n)
        /\ EntersBlank("q_dot", x, n) /\ EntersBlank("q_mr", x, n)
        /\ EntersBlank("c_lo", x, n) /\ EntersBlank("rho_mu", x, n)
        /\ EntersBlank("chi_mu", x, n)
    <2>1. /\ Depth["prod"] = 0 /\ Depth["chi"] = 0 /\ Depth["q_dot"] = 0
          /\ Depth["q_mr"] = 0 /\ Depth["c_lo"] = 0 /\ Depth["rho_mu"] = 0
          /\ Depth["chi_mu"] = 0
      BY <1>1, Plan
    <2>2. CASE n = Len(past)
      <3>1. ~(0 > n)
        BY <2>2 DEF IInv, History
      <3> QED BY <2>1, <3>1 DEF EntersBlank
    <2>3. CASE EmptyInput(x)
      BY <2>3, EmptyWires, BlankIs DEF EntersBlank
    <2> QED BY <2>2, <2>3 DEF Since
  <1>4. /\ DOT > n => /\ Out("prod", w.prod) = NoLimbs /\ Out("chi", w.chi) = 0
                      /\ Out("q_dot", w.q_dot) = 0
        /\ MVAL_AT > n => Out("q_mr", w.q_mr) = 0
        /\ RM_MUL_LAT > n => /\ Out("c_lo", w.c_lo) = NoLimbs
                             /\ Out("rho_mu", w.rho_mu) = NoLimbs
                             /\ Out("chi_mu", w.chi_mu) = 0
    <2>1. /\ LeavesBlank("prod", x, n) /\ LeavesBlank("chi", x, n) /\ LeavesBlank("q_dot", x, n)
          /\ LeavesBlank("q_mr", x, n) /\ LeavesBlank("c_lo", x, n) /\ LeavesBlank("rho_mu", x, n)
          /\ LeavesBlank("chi_mu", x, n)
      BY <1>3, ThroughBlank DEF LineNames
    <2>2. /\ Exit("prod") = DOT /\ Exit("chi") = DOT /\ Exit("q_dot") = DOT
          /\ Exit("q_mr") = MVAL_AT /\ Exit("c_lo") = RM_MUL_LAT
          /\ Exit("rho_mu") = RM_MUL_LAT /\ Exit("chi_mu") = RM_MUL_LAT
      BY <1>1, Plan
    <2> HIDE DEF DOT
    <2>3. DOT > n => Out("prod", w.prod) = NoLimbs
      BY <2>1, <2>2, BlankIs DEF LeavesBlank
    <2>4. DOT > n => Out("chi", w.chi) = 0
      BY <2>1, <2>2, BlankIs DEF LeavesBlank
    <2>5. DOT > n => Out("q_dot", w.q_dot) = 0
      BY <2>1, <2>2, BlankIs DEF LeavesBlank
    <2>6. MVAL_AT > n => Out("q_mr", w.q_mr) = 0
      BY <2>1, <2>2, BlankIs DEF LeavesBlank
    <2>7. RM_MUL_LAT > n => Out("c_lo", w.c_lo) = NoLimbs
      BY <2>1, <2>2, BlankIs DEF LeavesBlank
    <2>8. RM_MUL_LAT > n => Out("rho_mu", w.rho_mu) = NoLimbs
      BY <2>1, <2>2, BlankIs DEF LeavesBlank
    <2>9. RM_MUL_LAT > n => Out("chi_mu", w.chi_mu) = 0
      BY <2>1, <2>2, BlankIs DEF LeavesBlank
    <2> QED BY <2>3, <2>4, <2>5, <2>6, <2>7, <2>8, <2>9
  \* Path B.
  <1>5. DOT > n => w.raw_sum = 0 /\ w.q_sum \in 0 .. 2^LOGQ - 1
    <2> HAVE DOT > n
    <2>1. /\ w.raw_sum = SumOf(Out("prod", w.prod)) + Out("chi", w.chi)
          /\ w.q_sum = (IF cfg.FIXED_Q THEN q_eff(x) ELSE Out("q_dot", w.q_dot))
      BY Netlist
    <2> HIDE DEF w, DOT
    <2>2. 0 \in 0 .. 2^LOGQ - 1 /\ 0 + 0 = 0
      <3> DEFINE p == 2^LOGQ
      <3>1. p \in Nat \ {0}
        BY Widths
      <3> HIDE DEF p
      <3>2. 0 \in 0 .. p - 1
        BY <3>1
      <3> QED BY <3>2 DEF p
    <2>3. w.raw_sum = 0 + 0
      BY <1>4, <2>1, SumOfZeros
    <2>4. w.q_sum = x.q \/ w.q_sum = 0
      BY <1>2, <1>4, <2>1
    <2> QED BY <1>2, <2>2, <2>3, <2>4
  <1>6. EntersBlank("T_acc", x, n) /\ EntersBlank("q_fin", x, n)
    <2>1. Depth["T_acc"] = DOT /\ Depth["q_fin"] = DOT
      BY <1>1, Plan
    <2>2. w.T_acc = modacc(w.raw_sum, w.q_sum * W) /\ w.q_fin = w.q_sum
      BY Netlist
    <2> HIDE DEF w, DOT
    <2>3. ASSUME DOT > n PROVE w.T_acc = 0 /\ w.q_fin \in 0 .. 2^LOGQ - 1
      BY <1>1, <1>5, <2>2, <2>3, AccOfZero
    <2> QED BY <2>1, <2>3, BlankIs DEF EntersBlank, w
  <1>7. /\ PATH_B > n => Out("T_acc", w.T_acc) = 0
        /\ D_AT > n => Out("q_fin", w.q_fin) \in 0 .. 2^LOGQ - 1
    <2>1. LeavesBlank("T_acc", x, n) /\ LeavesBlank("q_fin", x, n)
      BY <1>6, ThroughBlank DEF LineNames
    <2>2. Exit("T_acc") = PATH_B /\ Exit("q_fin") = D_AT
      BY <1>1, Plan
    <2> QED BY <2>1, <2>2, BlankIs DEF LeavesBlank
  <1>8. EntersBlank("tacc", x, n)
    <2>1. Depth["tacc"] = PATH_B
      BY <1>1, Plan
    <2>2. PATH_B > n => w.tacc = 0
      BY <1>7, Netlist
    <2> QED BY <2>1, <2>2, BlankIs DEF EntersBlank
  <1>9. JOIN_CYC > n => Out("tacc", w.tacc) = 0
    <2>1. LeavesBlank("tacc", x, n)
      BY <1>8, ThroughBlank DEF LineNames
    <2>2. Exit("tacc") = JOIN_CYC
      BY <1>1, Plan
    <2> QED BY <2>1, <2>2, BlankIs DEF LeavesBlank
  \* Path A.
  <1>10. EntersBlank("rm", x, n)
    <2>1. Depth["rm"] = RM_MUL_LAT
      BY <1>1, Plan
    <2>2. w.rm = [c |-> [i \in Limbs |-> (Out("c_lo", w.c_lo)[i]
                                            * Out("rho_mu", w.rho_mu)[i]) % W],
                  chi |-> Out("chi_mu", w.chi_mu)]
      BY Netlist
    <2> HIDE DEF w
    <2>3. ASSUME RM_MUL_LAT > n PROVE w.rm = [c |-> NoLimbs, chi |-> 0]
      <3>1. w.rm = [c |-> [i \in Limbs |-> (NoLimbs[i] * NoLimbs[i]) % W], chi |-> 0]
        BY <1>4, <2>2, <2>3
      <3>2. \A i \in Limbs : NoLimbs[i] = 0
        BY DEF NoLimbs
      <3>3. (0 * 0) % W = 0
        BY <1>2
      <3>4. [i \in Limbs |-> (NoLimbs[i] * NoLimbs[i]) % W] = NoLimbs
        BY <3>2, <3>3 DEF NoLimbs
      <3> QED BY <3>1, <3>4
    <2> QED BY <2>1, <2>3, BlankIs DEF EntersBlank, w
  <1>11. RM_AT > n => Out("rm", w.rm) = [c |-> NoLimbs, chi |-> 0]
    <2>1. LeavesBlank("rm", x, n)
      BY <1>10, ThroughBlank DEF LineNames
    <2>2. Exit("rm") = RM_AT
      BY <1>1, Plan
    <2> QED BY <2>1, <2>2, BlankIs DEF LeavesBlank
  <1>12. EntersBlank("m_val", x, n)
    <2>1. Depth["m_val"] = RM_AT
      BY <1>1, Plan
    <2>2. w.m_val = (SumOf(Out("rm", w.rm).c) + Out("rm", w.rm).chi) % W
      BY Netlist
    <2> HIDE DEF w
    <2>3. RM_AT > n => w.m_val = (0 + 0) % W
      BY <1>11, <2>2, SumOfZeros
    <2>4. (0 + 0) % W = 0
      BY <1>2
    <2> QED BY <2>1, <2>3, <2>4, BlankIs DEF EntersBlank, w
  <1>13. MVAL_AT > n => Out("m_val", w.m_val) = 0
    <2>1. LeavesBlank("m_val", x, n)
      BY <1>12, ThroughBlank DEF LineNames
    <2>2. Exit("m_val") = MVAL_AT
      BY <1>1, Plan
    <2> QED BY <2>1, <2>2, BlankIs DEF LeavesBlank
  <1>14. EntersBlank("m_q", x, n)
    <2>1. Depth["m_q"] = MVAL_AT
      BY <1>1, Plan
    <2>2. w.m_q = Out("m_val", w.m_val)
                    * (IF cfg.FIXED_Q THEN q_eff(x) ELSE Out("q_mr", w.q_mr))
      BY Netlist
    <2> HIDE DEF w
    <2>3. ASSUME MVAL_AT > n PROVE w.m_q = 0
      <3>1. w.m_q = 0 * x.q \/ w.m_q = 0 * 0
        BY <1>2, <1>4, <1>13, <2>2, <2>3
      <3>2. 0 * x.q = 0 /\ 0 * 0 = 0
        BY <1>2
      <3> QED BY <3>1, <3>2
    <2> QED BY <2>1, <2>3, BlankIs DEF EntersBlank, w
  <1>15. PATH_A > n => Out("m_q", w.m_q) = 0
    <2>1. LeavesBlank("m_q", x, n)
      BY <1>14, ThroughBlank DEF LineNames
    <2>2. Exit("m_q") = PATH_A
      BY <1>1, Plan
    <2> QED BY <2>1, <2>2, BlankIs DEF LeavesBlank
  <1>16. EntersBlank("mq", x, n)
    <2>1. Depth["mq"] = PATH_A
      BY <1>1, Plan
    <2>2. PATH_A > n => w.mq = 0
      BY <1>15, Netlist
    <2> QED BY <2>1, <2>2, BlankIs DEF EntersBlank
  <1>17. JOIN_CYC > n => Out("mq", w.mq) = 0
    <2>1. LeavesBlank("mq", x, n)
      BY <1>16, ThroughBlank DEF LineNames
    <2>2. Exit("mq") = JOIN_CYC
      BY <1>1, Plan
    <2> QED BY <2>1, <2>2, BlankIs DEF LeavesBlank
  \* The join and what follows it.
  <1>18. EntersBlank("join", x, n)
    <2>1. Depth["join"] = JOIN_CYC
      BY <1>1, Plan
    <2>2. w.join = LowerHalf(Out("tacc", w.tacc), Out("mq", w.mq))
      BY Netlist
    <2> HIDE DEF w
    <2>3. JOIN_CYC > n => w.join = [lo |-> 0, carry |-> 0, a |-> 0, b |-> 0]
      BY <1>9, <1>17, <2>2, JoinOfZero
    <2> QED BY <2>1, <2>3, BlankIs DEF EntersBlank, w
  <1>19. EntersBlank("T_shift", x, n)
    <2>1. Depth["T_shift"] = T_AT
      BY <1>1, Plan
    <2>2. LeavesBlank("join", x, n)
      BY <1>18, ThroughBlank DEF LineNames
    <2>3. Exit("join") = T_AT
      BY <1>1, Plan
    <2>4. T_AT > n => Out("join", w.join) = [lo |-> 0, carry |-> 0, a |-> 0, b |-> 0]
      BY <2>2, <2>3, BlankIs DEF LeavesBlank
    <2>5. w.T_plus = UpperHalf(Out("join", w.join)) /\ w.T_shift = w.T_plus \div W
      BY Netlist
    <2> HIDE DEF w
    <2>6. T_AT > n => w.T_shift = 0 \div W
      BY <2>4, <2>5, JoinOfZero
    <2>7. 0 \div W = 0
      BY <1>2
    <2> QED BY <2>1, <2>6, <2>7, BlankIs DEF EntersBlank, w
  <1>20. EntersBlank("D", x, n)
    <2>1. Depth["D"] = D_AT
      BY <1>1, Plan
    <2>2. LeavesBlank("T_shift", x, n)
      BY <1>19, ThroughBlank DEF LineNames
    <2>3. Exit("T_shift") = D_AT
      BY <1>1, Plan
    <2>4. D_AT > n => Out("T_shift", w.T_shift) = 0
      BY <2>2, <2>3, BlankIs DEF LeavesBlank
    <2>5. w.D = CondSub(Out("T_shift", w.T_shift),
                        IF cfg.FIXED_Q THEN q_eff(x) ELSE Out("q_fin", w.q_fin))
      BY Netlist
    <2> HIDE DEF w
    <2>6. ASSUME D_AT > n PROVE w.D = 0
      <3>1. (IF cfg.FIXED_Q THEN q_eff(x) ELSE Out("q_fin", w.q_fin)) \in 0 .. 2^LOGQ - 1
        BY <1>2, <1>7, <2>6
      <3> QED BY <2>4, <2>5, <2>6, <3>1, CondSubOfZero
    <2> QED BY <2>1, <2>6, BlankIs DEF EntersBlank, w
  <1> QED BY <1>3, <1>6, <1>8, <1>10, <1>12, <1>14, <1>16, <1>18, <1>19, <1>20
         DEF LineNames

(***************************************************************************)
(* The invariant                                                           *)
(***************************************************************************)

\* Nothing the invariant is made of moves while the setting stays.
LEMMA Still ==
  ASSUME cfg' = cfg
  PROVE  /\ Lengths' = Lengths /\ Depth' = Depth /\ LAT' = LAT
         /\ \A y : Legal(y)' <=> Legal(y)
  <1>1. RM_MUL_LAT' = RM_MUL_LAT
    BY DEF RM_MUL_LAT
  <1>2. PATH_A' = PATH_A /\ PATH_B' = PATH_B
    BY <1>1 DEF PATH_A, PATH_B
  <1>3. JOIN_CYC' = JOIN_CYC
    BY <1>2 DEF JOIN_CYC
  <1>4. /\ RM_AT' = RM_AT /\ T_AT' = T_AT /\ LAT' = LAT
        /\ MQ_DELAY' = MQ_DELAY /\ TACC_DELAY' = TACC_DELAY /\ Q_DOT_DEL' = Q_DOT_DEL
        /\ Q_MR_DEL' = Q_MR_DEL
    BY <1>1, <1>2, <1>3
       DEF RM_AT, T_AT, LAT, MQ_DELAY, TACC_DELAY, Q_DOT_DEL, Q_MR_DEL
  <1>5. MVAL_AT' = MVAL_AT /\ D_AT' = D_AT /\ Q_FIN_EXTRA' = Q_FIN_EXTRA
    BY <1>3, <1>4 DEF MVAL_AT, D_AT, Q_FIN_EXTRA
  <1>6. Lengths' = Lengths
    BY <1>1, <1>4, <1>5 DEF Lengths
  <1>7. Depth' = Depth
    BY <1>1, <1>2, <1>3, <1>4, <1>5 DEF Depth
  <1>8. ASSUME NEW y PROVE Legal(y)' <=> Legal(y)
    BY DEF Legal
  <1> QED BY <1>4, <1>6, <1>7, <1>8

\* The cleared registers are blank.
LEMMA InitInv == Init => IInv
  <1> SUFFICES ASSUME Init PROVE IInv
    OBVIOUS
  <1>1. cfg \in Configs /\ past = <<>> /\ Len(past) = 0
    BY DEF Init
  <1>2. DOMAIN Lengths = LineNames /\ Lengths \in [LineNames -> Nat]
        /\ Depth \in [LineNames -> Nat] /\ LAT \in Nat
    BY <1>1, Plan
  <1>3. line = [l \in LineNames |-> [i \in 1 .. Lengths[l] |-> Zero[l]]]
    BY <1>2 DEF Init
  <1>4. History
    <2>1. Row(past, 0)
      BY <1>1 DEF Row
    <2> QED BY <1>1, <1>2, <2>1 DEF History
  <1>5. Rows
    <2>1. \A l \in LineNames : line[l] = [i \in 1 .. Lengths[l] |-> Zero[l]]
      BY <1>3
    <2>2. \A l \in LineNames : Row(line[l], Lengths[l])
      BY <2>1 DEF Row
    <2> QED BY <1>3, <2>2 DEF Rows
  <1>6. ASSUME NEW l \in LineNames PROVE Blank(l, Zero[l])
    <2>1. 0 \in 0 .. 2^LOGQ - 1
      BY Widths
    <2>2. Zero[l] = CASE l \in {"prod", "rho_mu", "c_lo"} -> NoLimbs
                      [] l = "rm"   -> [c |-> NoLimbs, chi |-> 0]
                      [] l = "join" -> [lo |-> 0, carry |-> 0, a |-> 0, b |-> 0]
                      [] OTHER      -> 0
      BY <1>2 DEF Zero, NoLimbs
    <2> QED BY <2>1, <2>2 DEF Blank
  <1>7. Aligned
    <2> SUFFICES ASSUME NEW l \in LineNames, NEW i \in 1 .. Lengths[l]
                 PROVE  /\ ~(Depth[l] + i <= Len(past))
                        /\ Blank(l, line[l][i])
      BY DEF Aligned
    <2>1. Depth[l] \in Nat /\ Lengths[l] \in Nat
      BY <1>2
    <2>2. line[l][i] = Zero[l]
      BY <1>3
    <2> QED BY <1>1, <1>6, <2>1, <2>2
  <1> QED BY <1>1, <1>4, <1>5, <1>7 DEF IInv

\* The history moves on by x, or by its oldest input once it is full.
Moves(x) ==
  LET n == Len(past) k == Min({LAT, n + 1}) IN
  /\ Row(past', k) /\ past'[1] = x
  /\ \A i \in 2 .. k : past'[i] = past[i - 1]

\* A clock keeps every value with its input ...
LEMMA ClockInv ==
  ASSUME IInv, NEW x, Legal(x), Clock(x), Moves(x), cfg' = cfg
  PROVE  IInv'
  <1> DEFINE n == Len(past)
             k == Min({LAT, n + 1})
             w == Wires(x)
  <1>1. Legal(x) /\ cfg' = cfg /\ cfg \in Configs
    BY DEF IInv
  <1>2. /\ Lengths' = Lengths /\ Depth' = Depth /\ LAT' = LAT
        /\ \A y : Legal(y)' <=> Legal(y)
    BY <1>1, Still
  <1>3. n \in Nat /\ n <= LAT /\ Row(past, n) /\ \A i \in 1 .. n : Legal(past[i])
    BY DEF IInv, History
  <1>4. /\ LAT \in Nat /\ LAT >= 1 /\ DOMAIN Lengths = LineNames
        /\ \A l \in LineNames : /\ Lengths[l] \in Nat /\ Depth[l] \in Nat
                                /\ Depth[l] + Lengths[l] <= LAT
    BY <1>1, Plan DEF Exit
  <1>5. k \in Nat /\ k >= 1 /\ k <= n + 1 /\ k <= LAT /\ (k = LAT \/ k = n + 1)
    <2>1. n + 1 \in Nat
      BY <1>3
    <2> QED BY <1>3, <1>4, <2>1, MinOfTwo
  <1>6. /\ Row(past', k) /\ past'[1] = x
        /\ \A i \in 2 .. k : past'[i] = past[i - 1]
    BY DEF Moves
  <1> HIDE DEF n, k
  <1>7. /\ Row(past', k) /\ Len(past') = k /\ past'[1] = x
        /\ \A i \in 2 .. k : past'[i] = past[i - 1]
    BY <1>5, <1>6, RowIs
  <1>8. History'
    <2>1. ASSUME NEW i \in 1 .. k PROVE Legal(past'[i])
      <3>1. CASE i = 1
        BY <1>1, <1>7, <3>1
      <3>2. CASE i # 1
        <4>1. i \in 2 .. k /\ i - 1 \in 1 .. n
          BY <1>3, <1>5, <3>2
        <4> QED BY <1>3, <1>7, <4>1
      <3> QED BY <3>1, <3>2
    <2>2. ASSUME NEW i \in 1 .. k PROVE Legal(past[i])'
      <3>1. Legal(past[i])' <=> Legal(past'[i])
        BY <1>1 DEF Legal
      <3> QED BY <2>1, <3>1
    <2> QED BY <1>2, <1>5, <1>7, <2>2 DEF History
  <1>9. \A l \in LineNames : line'[l] = Push(line[l], w[l])
        /\ line' = [m \in LineNames |-> line'[m]]
    <2>1. DOMAIN line = LineNames
      BY DEF IInv, Rows
    <2> HIDE DEF w
    <2>2. line' = [l \in LineNames |-> Push(line[l], w[l])]
      BY <2>1 DEF Clock, w
    <2> QED BY <2>2
  <1> HIDE DEF w
  <1>10. ASSUME NEW l \in LineNames
         PROVE  /\ Row(line'[l], Lengths[l])
                /\ Lengths[l] >= 1 => line'[l][1] = w[l]
                /\ \A i \in 2 .. Lengths[l] : line'[l][i] = line[l][i - 1]
    <2>1. Row(line[l], Lengths[l])
      BY DEF IInv, Rows
    <2> QED BY <1>4, <1>9, <2>1, PushIs
  <1>11. Rows'
    <2>1. LineNames # {}
      BY DEF LineNames
    <2> QED BY <1>2, <1>9, <1>10, <2>1 DEF Rows
  <1>12. ASSUME NEW l \in LineNames, NEW i \in 1 .. Lengths[l]
         PROVE  /\ Depth[l] + i <= k => line'[l][i] = Value(past'[Depth[l] + i])[l]
                /\ Depth[l] + i > k => Blank(l, line'[l][i])
    <2> DEFINE d == Depth[l]
    <2>1. d \in Nat /\ Lengths[l] \in Nat /\ i \in Nat /\ i >= 1 /\ d + i <= LAT
      BY <1>4
    <2>2. d + i > k => (d + i) - 1 > n
      BY <1>3, <1>4, <1>5, <2>1
    <2>3. CASE i = 1
      <3>1. line'[l][i] = w[l]
        BY <1>10, <2>1, <2>3
      <3>2. Enters(l, x) /\ EntersBlank(l, x, n)
        <4>1. Since(n, x)
          BY <1>1 DEF Since, n
        <4> QED BY <4>1, WiresCarry, WiresRest
      <3>3. (d + i) - 1 = d
        BY <2>1, <2>3
      <3>4. ASSUME d + i <= k PROVE w[l] = Value(past'[d + i])[l]
        <4>1. Apt(d, x)
          BY <1>1, <1>3, <1>5, <2>1, <2>3, <3>4 DEF Apt, n
        <4>2. past'[d + i] = At(d, x)
          <5>1. CASE d = 0
            BY <1>7, <2>3, <5>1 DEF At
          <5>2. CASE d # 0
            <6>1. d + i \in 2 .. k /\ (d + i) - 1 = d
              BY <1>5, <2>1, <2>3, <3>4, <5>2
            <6>2. past'[d + i] = past[(d + i) - 1]
              BY <1>7, <6>1, Zenon
            <6>3. At(d, x) = past[d]
              BY <5>2 DEF At
            <6> QED BY <6>1, <6>2, <6>3
          <5> QED BY <5>1, <5>2
        <4> HIDE DEF d
        <4>3. w[l] = Value(At(d, x))[l]
          BY <3>2, <4>1 DEF Enters, w, d
        <4> QED BY <4>2, <4>3
      <3>5. ASSUME d + i > k PROVE Blank(l, w[l])
        <4>1. d > n
          BY <2>2, <3>3, <3>5
        <4> QED BY <3>2, <4>1 DEF EntersBlank, w, n
      <3> QED BY <3>1, <3>4, <3>5
    <2>4. CASE i # 1
      <3> DEFINE j == i - 1
      <3>1. i \in 2 .. Lengths[l] /\ j \in 1 .. Lengths[l] /\ (d + i) - 1 = d + j
        BY <2>1, <2>4
      <3>2. line'[l][i] = line[l][j]
        BY <1>10, <3>1
      <3>3. /\ d + j <= n => line[l][j] = Value(past[d + j])[l]
            /\ d + j > n => Blank(l, line[l][j])
        BY <3>1 DEF IInv, Aligned, n
      <3>4. ASSUME d + i <= k PROVE d + j <= n /\ past'[d + i] = past[d + j]
        <4>1. d + i \in 2 .. k
          BY <1>5, <2>1, <2>4, <3>4
        <4>2. d + j <= n
          BY <1>3, <1>5, <2>1, <3>4
        <4>3. past'[d + i] = past[(d + i) - 1]
          BY <1>7, <4>1, Zenon
        <4> QED BY <3>1, <4>2, <4>3
      <3> HIDE DEF d, j
      <3>5. d + i > k => d + j > n
        BY <2>2, <3>1
      <3> QED BY <3>2, <3>3, <3>4, <3>5 DEF d
    <2> QED BY <2>3, <2>4
  <1>13. Aligned'
    BY <1>2, <1>7, <1>12 DEF Aligned
  <1> QED BY <1>1, <1>8, <1>11, <1>13 DEF IInv

\* ... as an edge does ...
LEMMA EdgeInv ==
  ASSUME IInv, NEW x, Edge(x)
  PROVE  IInv'
  <1> DEFINE n == Len(past)
             k == Min({LAT, n + 1})
  <1>1. Legal(x) /\ Clock(x) /\ cfg' = cfg /\ past' = Recorded(past, x, k)
    BY DEF Edge, Recorded
  <1>2. n \in Nat /\ Row(past, n) /\ LAT \in Nat /\ LAT >= 1
    <2>1. cfg \in Configs /\ n \in Nat /\ Row(past, n)
      BY DEF IInv, History
    <2>2. LAT \in Nat /\ JOIN_CYC \in Nat /\ cfg.DOT_LAT \in Nat /\ cfg.DOT_LAT >= 1
          /\ JOIN_CYC >= cfg.DOT_LAT /\ LAT >= D_AT /\ D_AT >= T_AT /\ T_AT >= cfg.DOT_LAT
          /\ D_AT \in Nat /\ T_AT \in Nat
      BY <2>1, Plan, Zenon
    <2> HIDE DEF n
    <2> QED BY <2>1, <2>2
  <1>3. k \in Nat /\ k >= 1 /\ k <= n + 1
    <2>1. n + 1 \in Nat /\ n + 1 >= 1
      BY <1>2
    <2> DEFINE b == n + 1
    <2> HIDE DEF n, b
    <2>2. /\ Min({LAT, b}) \in Nat /\ Min({LAT, b}) <= b
          /\ Min({LAT, b}) = LAT \/ Min({LAT, b}) = b
      BY <1>2, <2>1, MinOfTwo DEF b
    <2> QED BY <1>2, <2>1, <2>2 DEF b
  <1> HIDE DEF n, k
  <1>4. /\ Row(past', k) /\ past'[1] = x
        /\ \A i \in 2 .. k : past'[i] = past[i - 1]
    BY <1>1, <1>2, <1>3, HistoryIs
  <1>5. Moves(x)
    BY <1>4 DEF Moves, n, k
  <1> QED BY <1>1, <1>5, ClockInv

\* ... and while nothing comes in, all stays blank.
LEMMA EmptyInv ==
  ASSUME IInv, past = <<>>, NEW x, EmptyInput(x), Clock(x), UNCHANGED <<cfg, past>>
  PROVE  IInv'
  <1> DEFINE w == Wires(x)
  <1>1. cfg' = cfg /\ cfg \in Configs /\ past' = past /\ Len(past) = 0
    BY DEF IInv
  <1>2. /\ Lengths' = Lengths /\ Depth' = Depth /\ LAT' = LAT
    BY <1>1, Still
  <1>3. \A l \in LineNames : Lengths[l] \in Nat /\ Depth[l] \in Nat
    BY <1>1, Plan
  <1>4. History'
    <2>1. Row(past', 0)
      BY <1>1 DEF Row
    <2>2. LAT \in Nat
      BY <1>1, Plan
    <2> QED BY <1>1, <1>2, <2>1, <2>2 DEF History
  <1>5. \A l \in LineNames : line'[l] = Push(line[l], w[l])
        /\ line' = [m \in LineNames |-> line'[m]]
    <2>1. DOMAIN line = LineNames
      BY DEF IInv, Rows
    <2> HIDE DEF w
    <2>2. line' = [l \in LineNames |-> Push(line[l], w[l])]
      BY <2>1 DEF Clock, w
    <2> QED BY <2>2
  <1>6. ASSUME NEW l \in LineNames
        PROVE  /\ Row(line'[l], Lengths[l])
               /\ \A i \in 1 .. Lengths[l] : Blank(l, line'[l][i])
    <2> DEFINE n == Lengths[l]
    <2>1. Row(line[l], n) /\ n \in Nat
      BY <1>3 DEF IInv, Rows
    <2> HIDE DEF w
    <2>2. /\ Row(line'[l], n)
          /\ n >= 1 => line'[l][1] = w[l]
          /\ \A i \in 2 .. n : line'[l][i] = line[l][i - 1]
      BY <1>5, <2>1, PushIs
    <2>3. Blank(l, w[l])
      <3>1. Since(-1, x)
        BY <1>1 DEF Since
      <3>2. EntersBlank(l, x, -1)
        BY <3>1, WiresRest
      <3>3. Depth[l] > -1
        BY <1>3
      <3> QED BY <3>2, <3>3 DEF EntersBlank, w
    <2>4. \A i \in 1 .. n : Blank(l, line[l][i])
      <3> SUFFICES ASSUME NEW i \in 1 .. n PROVE Blank(l, line[l][i])
        OBVIOUS
      <3>1. Depth[l] + i > Len(past)
        BY <1>1, <1>3, <2>1
      <3> QED BY <3>1 DEF IInv, Aligned, n
    <2> HIDE DEF n
    <2>5. ASSUME NEW i \in 1 .. n PROVE Blank(l, line'[l][i])
      <3>1. CASE i = 1
        BY <2>1, <2>2, <2>3, <3>1
      <3>2. CASE i # 1
        <4>1. i \in 2 .. n /\ i - 1 \in 1 .. n
          BY <2>1, <3>2
        <4> QED BY <2>2, <2>4, <4>1
      <3> QED BY <3>1, <3>2
    <2> QED BY <2>2, <2>5 DEF n
  <1>7. Rows'
    <2>1. LineNames # {}
      BY DEF LineNames
    <2> HIDE DEF w
    <2> QED BY <1>2, <1>5, <1>6, <2>1 DEF Rows
  <1>8. Aligned'
    <2>1. ASSUME NEW l \in LineNames, NEW i \in 1 .. Lengths[l]
          PROVE  ~(Depth[l] + i <= Len(past')) /\ Blank(l, line'[l][i])
      BY <1>1, <1>3, <1>6
    <2> QED BY <1>2, <2>1 DEF Aligned
  <1> QED BY <1>1, <1>4, <1>7, <1>8 DEF IInv

\* Without a clock nothing moves.
LEMMA StutterInv ==
  ASSUME IInv, UNCHANGED vars
  PROVE  IInv'
  <1>1. cfg' = cfg /\ line' = line /\ past' = past
    BY DEF vars
  <1>2. /\ Lengths' = Lengths /\ Depth' = Depth /\ LAT' = LAT
        /\ \A y : Legal(y)' <=> Legal(y)
    BY <1>1, Still
  <1>3. \A i : Legal(past[i])' <=> Legal(past[i])
    BY <1>1 DEF Legal
  <1>4. History'
    BY <1>1, <1>2, <1>3 DEF IInv, History
  <1>5. Rows'
    BY <1>1, <1>2 DEF IInv, Rows
  <1>6. Aligned'
    BY <1>1, <1>2 DEF IInv, Aligned
  <1> QED BY <1>1, <1>4, <1>5, <1>6 DEF IInv

\* Every register of every delay line holds what belongs to the input that came in
\* as many clocks before as the register is deep, or nothing while there was none
\* (logjumps.sv:310-356, 657-743, 806-940).
THEOREM AlwaysAligned == Spec => []IInv
  <1>1. IInv /\ [Next]_vars => IInv'
    BY EdgeInv, StutterInv DEF Next
  <1> QED BY InitInv, <1>1, PTL DEF Spec

(***************************************************************************)
(* What follows from it                                                    *)
(***************************************************************************)

\* The width of what belongs to an input.
LEMMA ValueWidths ==
  ASSUME NEW y, Sound(y)
  PROVE  LET v == Value(y) IN
         /\ \A l \in {"chi", "T_acc", "tacc", "m_q", "mq"} : v[l] \in 0 .. 2^ACCW - 1
         /\ \A l \in {"q_dot", "q_mr", "q_fin", "D"} : v[l] \in 0 .. 2^LOGQ - 1
         /\ \A l \in {"chi_mu", "m_val"} : v[l] \in 0 .. W - 1
         /\ v["T_shift"] \in 0 .. 2^(LOGQ + 1) - 1
  <1> DEFINE v == Value(y)
             Q == y.q * W
  <1>1. /\ y.q \in Nat \ {0} /\ y.q < 2^LOGQ /\ 2^LOGQ \in Nat /\ 2^ACCW \in Nat
        /\ 2^(LOGQ + 1) = 2 * 2^LOGQ
    BY SoundInput, Constants, Widths
  <1>2. /\ c_hi(y.C) \in Nat /\ c_hi(y.C) < Q /\ Q \in Nat /\ Q < 2^ACCW
        /\ T_acc_of(y) \in Nat /\ T_acc_of(y) < Q
        /\ m_q_of(y) \in Nat /\ m_q_of(y) < Q
        /\ T_of(y) \div W \in Nat /\ T_of(y) \div W < 2 * y.q
    BY HighPart, AccTypes, Joined
  <1>3. m_of(y) \in 0 .. W - 1 /\ rm_of(y).chi \in 0 .. W - 1
    BY Quotient
  <1>4. D_of(y) \in 0 .. y.q - 1
    BY Reduced
  <1>5. /\ v["chi"] = c_hi(y.C) /\ v["T_acc"] = T_acc_of(y) /\ v["tacc"] = T_acc_of(y)
        /\ v["m_q"] = m_q_of(y) /\ v["mq"] = m_q_of(y)
        /\ v["q_dot"] = y.q /\ v["q_mr"] = y.q /\ v["q_fin"] = y.q /\ v["D"] = D_of(y)
        /\ v["chi_mu"] = rm_of(y).chi /\ v["m_val"] = m_of(y)
        /\ v["T_shift"] = T_of(y) \div W
    BY ValueIs
  <1> HIDE DEF v, Q
  <1>6. /\ v["chi"] \in 0 .. 2^ACCW - 1 /\ v["T_acc"] \in 0 .. 2^ACCW - 1
        /\ v["tacc"] \in 0 .. 2^ACCW - 1 /\ v["m_q"] \in 0 .. 2^ACCW - 1
        /\ v["mq"] \in 0 .. 2^ACCW - 1
    BY <1>1, <1>2, <1>5
  <1>7. /\ v["q_dot"] \in 0 .. 2^LOGQ - 1 /\ v["q_mr"] \in 0 .. 2^LOGQ - 1
        /\ v["q_fin"] \in 0 .. 2^LOGQ - 1 /\ v["D"] \in 0 .. 2^LOGQ - 1
    BY <1>1, <1>4, <1>5
  <1>8. v["chi_mu"] \in 0 .. W - 1 /\ v["m_val"] \in 0 .. W - 1
    BY <1>3, <1>5
  <1>9. v["T_shift"] \in 0 .. 2^(LOGQ + 1) - 1
    <2> DEFINE t == T_of(y) \div W
    <2>1. t \in Nat /\ t < 2 * y.q
      BY <1>2
    <2> HIDE DEF t
    <2>2. t \in 0 .. 2^(LOGQ + 1) - 1
      BY <1>1, <2>1
    <2> QED BY <1>5, <2>2 DEF t
  <1> QED BY <1>6, <1>7, <1>8, <1>9 DEF v

\* An input that came in d clocks ago.
LEMMA PastInput ==
  ASSUME IInv, NEW d \in Nat, d >= 1, d <= Len(past), NEW x
  PROVE  Apt(d, x) /\ At(d, x) = past[d] /\ Legal(past[d]) /\ Sound(past[d])
  <1>1. d # 0 /\ d \in 1 .. Len(past)
    BY DEF IInv, History
  <1>2. Legal(past[d])
    BY <1>1 DEF IInv, History
  <1> QED BY <1>1, <1>2, EffectiveConstants DEF Apt, At

\* What belongs to an input, or nothing, has the width of its line.
LEMMA InvTypes == IInv => TypeOK
  <1> SUFFICES ASSUME IInv PROVE TypeOK
    OBVIOUS
  <1>1. cfg \in Configs /\ Len(past) <= LAT /\ Len(past) \in Nat
    BY DEF IInv, History
  <1>2. DOMAIN Lengths = LineNames /\ Lengths \in [LineNames -> Nat]
        /\ Depth \in [LineNames -> Nat] /\ DOMAIN line = LineNames
    BY <1>1, Plan DEF IInv, Rows
  <1>3. ASSUME NEW l \in LineNames
        PROVE  Len(line[l]) = Lengths[l] /\ DOMAIN line[l] = 1 .. Lengths[l]
    <2>1. Row(line[l], Lengths[l]) /\ Lengths[l] \in Nat
      BY <1>2 DEF IInv, Rows
    <2>2. Len(line[l]) = Lengths[l]
      BY <2>1, RowIs
    <2>3. DOMAIN line[l] = 1 .. Lengths[l]
      BY <2>1 DEF Row
    <2> QED BY <2>2, <2>3
  <1>4. [l \in DOMAIN line |-> Len(line[l])] = Lengths
    BY <1>2, <1>3
  <1>5. ASSUME NEW l \in LineNames, NEW i \in DOMAIN line[l]
        PROVE  \/ Blank(l, line[l][i])
               \/ \E y : Sound(y) /\ line[l][i] = Value(y)[l]
    <2>1. i \in 1 .. Lengths[l] /\ Depth[l] \in Nat /\ Lengths[l] \in Nat
      BY <1>2, <1>3
    <2> DEFINE d == Depth[l] + i
    <2>2. d \in Nat /\ d >= 1
      BY <2>1
    <2>3. /\ d <= Len(past) => line[l][i] = Value(past[d])[l]
          /\ d > Len(past) => Blank(l, line[l][i])
      BY <2>1 DEF IInv, Aligned
    <2> HIDE DEF d
    <2>4. CASE d <= Len(past)
      BY <2>2, <2>3, <2>4, PastInput
    <2>5. CASE d > Len(past)
      BY <2>3, <2>5
    <2> QED BY <1>1, <2>2, <2>4, <2>5
  <1>6. /\ 0 \in 0 .. 2^ACCW - 1 /\ 0 \in 0 .. 2^LOGQ - 1 /\ 0 \in 0 .. W - 1
        /\ 0 \in 0 .. 2^(LOGQ + 1) - 1
    BY Widths, Powers
  <1>7. ASSUME NEW l \in {"chi", "T_acc", "tacc", "m_q", "mq"}, NEW i \in DOMAIN line[l]
        PROVE  line[l][i] \in 0 .. 2^ACCW - 1
    <2>1. l \in LineNames /\ (Blank(l, line[l][i]) => line[l][i] = 0)
      BY DEF LineNames, Blank
    <2> QED BY <1>5, <1>6, <2>1, ValueWidths
  <1>8. ASSUME NEW l \in {"q_dot", "q_mr", "q_fin", "D"}, NEW i \in DOMAIN line[l]
        PROVE  line[l][i] \in 0 .. 2^LOGQ - 1
    <2>1. l \in LineNames
      BY DEF LineNames
    <2>2. Blank(l, line[l][i]) => line[l][i] \in 0 .. 2^LOGQ - 1
      BY <1>6 DEF Blank
    <2> QED BY <1>5, <2>1, <2>2, ValueWidths
  <1>9. ASSUME NEW l \in {"chi_mu", "m_val"}, NEW i \in DOMAIN line[l]
        PROVE  line[l][i] \in 0 .. W - 1
    <2>1. l \in LineNames /\ (Blank(l, line[l][i]) => line[l][i] = 0)
      BY DEF LineNames, Blank
    <2> QED BY <1>5, <1>6, <2>1, ValueWidths
  <1>10. ASSUME NEW i \in DOMAIN line.T_shift
         PROVE  line.T_shift[i] \in 0 .. 2^(LOGQ + 1) - 1
    <2> DEFINE l == "T_shift"
    <2>1. l \in LineNames /\ (Blank(l, line[l][i]) => line[l][i] = 0)
      BY DEF LineNames, Blank
    <2>2. \/ Blank(l, line[l][i])
          \/ \E y : Sound(y) /\ line[l][i] = Value(y)[l]
      BY <1>5, <2>1
    <2> QED BY <1>6, <2>1, <2>2, ValueWidths
  <1> QED BY <1>1, <1>4, <1>7, <1>8, <1>9, <1>10 DEF TypeOK

\* The quotient of what is below (m + 1) * b is at most m.
LEMMA DivLess ==
  ASSUME NEW a \in Nat, NEW b \in Nat \ {0}, NEW m \in Nat, a < (m + 1) * b
  PROVE  a \div b <= m
  <1> DEFINE d == a \div b
  <1> DEFINE r == a % b
  <1>0. d \in Nat /\ r \in 0 .. b - 1 /\ a = b * d + r
    <2>1. a \in Int /\ b \in Nat \ {0}
      OBVIOUS
    <2>2. d \in Int /\ r \in 0 .. b - 1 /\ a = b * d + r
      BY <2>1, DivMod, Zenon
    <2>3. d \in Nat
      OBVIOUS
    <2> QED BY <2>2, <2>3
  <1>1. d \in Nat
    BY <1>0
  <1>2. r \in Nat /\ a = b * d + r
    BY <1>0
  <1> HIDE DEF d, r
  <1>3. d * b < (m + 1) * b
    BY <1>1, <1>2
  <1>4. d < m + 1
    BY <1>1, <1>3, MulStrict
  <1> QED BY <1>1, <1>4 DEF d

\* What the chain is given is within its bound.
LEMMA InvChain == IInv => ChainIsLongEnough
  <1> SUFFICES ASSUME IInv, Len(past) >= cfg.DOT_LAT
               PROVE  Now.raw_sum \div (Now.q_sum * W) <= cfg.ACC_MAX_COND_SUB
    BY DEF ChainIsLongEnough
  <1> DEFINE x == CHOOSE z \in Samples(cfg) : TRUE
             d == cfg.DOT_LAT
             y == past[d]
  <1>1. cfg \in Configs /\ d \in Nat /\ d >= 1 /\ d <= Len(past)
    BY Plan DEF IInv, History
  <1>2. Apt(d, x) /\ At(d, x) = y /\ Legal(y) /\ Sound(y)
    BY <1>1, PastInput
  <1>3. Wires(x).raw_sum = raw_of(y) /\ Wires(x).q_sum = y.q
    BY <1>2, WiresCarry
  <1>4. Now = Wires(x)
    BY DEF Now
  <1> HIDE DEF x, y, d
  <1> DEFINE M == cfg.ACC_MAX_COND_SUB
             Q == y.q * W
  <1>5. raw_of(y) \in Nat /\ raw_of(y) < (M + 1) * Q /\ Q \in Nat \ {0} /\ M \in Nat
    BY <1>1, <1>2, FoldIsBounded, HighPart, SettingFacts
  <1> HIDE DEF Q, M
  <1>6. raw_of(y) \div Q <= M
    BY <1>5, DivLess
  <1> QED BY <1>3, <1>4, <1>6 DEF Q, M

\* What meets at the join belongs to one input, and is exact.
LEMMA InvJoin == IInv => JoinIsExact
  <1> SUFFICES ASSUME IInv, Len(past) >= T_AT
               PROVE  Now.T_plus % W = 0 /\ Now.T_plus \div W < 2 * past[T_AT].q
    BY DEF JoinIsExact, T_AT
  <1> DEFINE x == CHOOSE z \in Samples(cfg) : TRUE
             y == past[T_AT]
  <1>1. cfg \in Configs /\ T_AT \in Nat /\ T_AT >= 1 /\ T_AT <= Len(past)
    <2>1. cfg \in Configs
      BY DEF IInv
    <2>2. T_AT \in Nat /\ T_AT >= cfg.DOT_LAT /\ cfg.DOT_LAT \in Nat \ {0}
      BY <2>1, Plan, ConfigsAssumption
    <2>3. T_AT <= Len(past)
      BY <2>2 DEF T_AT
    <2> HIDE DEF T_AT
    <2> QED BY <2>1, <2>2, <2>3
  <1>2. Apt(T_AT, x) /\ At(T_AT, x) = y /\ Sound(y)
    BY <1>1, PastInput
  <1>3. Wires(x).T_plus = T_of(y)
    BY <1>2, WiresCarry
  <1>4. Now = Wires(x)
    BY DEF Now
  <1> HIDE DEF x, y
  <1> QED BY <1>2, <1>3, <1>4, Joined DEF y

\* What leaves belongs to the input LAT clocks ago, and is its reduction.
LEMMA InvReduces == IInv => ReducesItsOwnInput
  <1> SUFFICES ASSUME IInv, Len(past) = LAT
               PROVE  /\ Now.out < past[LAT].q
                      /\ (Now.out * R) % past[LAT].q = past[LAT].C % past[LAT].q
    BY DEF ReducesItsOwnInput
  <1> DEFINE x == CHOOSE z \in Samples(cfg) : TRUE
             y == past[LAT]
  <1>1. cfg \in Configs /\ LAT \in Nat /\ LAT >= 1 /\ LAT <= Len(past)
    BY Plan, SMTT(30) DEF IInv, History
  <1>2. Apt(LAT, x) /\ At(LAT, x) = y /\ Sound(y)
    BY <1>1, PastInput
  <1>3. Wires(x).out = D_of(y)
    BY <1>2, WiresCarry
  <1>4. Now = Wires(x)
    BY DEF Now
  <1>5. y.q \in Nat \ {0}
    BY <1>2, SoundInput, Constants
  <1> HIDE DEF x, y
  <1>6. D_of(y) \in 0 .. y.q - 1 /\ (D_of(y) * R) % y.q = y.C % y.q
    BY <1>2, Reduced
  <1>7. D_of(y) < y.q
    BY <1>5, <1>6
  <1> QED BY <1>3, <1>4, <1>6, <1>7 DEF y

\* Every register holds a value of its width (logjumps.sv:251-254, 870-912).
THEOREM RegistersHoldTheirWidths == Spec => []TypeOK
  BY AlwaysAligned, InvTypes, PTL

\* The chain of modacc has a stage for every bit of the quotient it can meet
\* (logjumps.sv:172-179, modmul_helper.tcl:228-246).
THEOREM ChainNeverFallsShort == Spec => []ChainIsLongEnough
  BY AlwaysAligned, InvChain, PTL

\* Where the paths meet the sum is a multiple of W and at most one subtraction away
\* from the result (logjumps.sv:43-50, 909-930).
THEOREM JoinDropsNothing == Spec => []JoinIsExact
  BY AlwaysAligned, InvJoin, PTL

\* The output is the Montgomery reduction of the input it belongs to
\* (logjumps.sv:657-743, 806-940).
THEOREM Reduces == Spec => []ReducesItsOwnInput
  BY AlwaysAligned, InvReduces, PTL
=============================================================================
