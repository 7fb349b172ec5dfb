--------------------------- MODULE CondSubProofs ----------------------------
(***************************************************************************)
(* The conditional subtraction chain reduces, for every width, number of   *)
(* stages and modulus.                                                     *)
(*                                                                         *)
(* A stage's borrow bit tells the truth while the shifted modulus is at    *)
(* most 2^SUM_W (BorrowExact).  Then the chain keeps StageInv: what is     *)
(* left after stage s is below 2^SHIFT(s) moduli.                          *)
(***************************************************************************)
EXTENDS CondSub, TLAPS

LEMMA ModSmall ==
  ASSUME NEW n \in Nat, NEW m \in Nat, n < m
  PROVE  n % m = n
  OBVIOUS

LEMMA ModNegative ==
  ASSUME NEW n \in Nat, NEW m \in Nat, 0 < n, n <= m
  PROVE  (-n) % m = m - n
  OBVIOUS

LEMMA ModOfMultiple ==
  ASSUME NEW k \in Nat, NEW q \in Nat, NEW v \in Nat, v < q
  PROVE  (k * q + v) % q = v
  OBVIOUS

-----------------------------------------------------------------------------
(* The powers of two.                                                      *)

LEMMA Pow2Facts ==
  /\ SUM_W \in Nat
  /\ \A n \in 0 .. SUM_W + 1 : pow2[n] \in Nat
  /\ \A n \in 0 .. SUM_W : pow2[n + 1] = 2 * pow2[n]
BY Pow2Assumption

\* The shift of a stage and of the stage after it.
LEMMA ShiftFacts ==
  /\ NUM_CS \in Nat /\ 1 <= NUM_CS /\ NUM_CS <= SUM_W + 1
  /\ \A s \in Stages : /\ SHIFT(s) \in 0 .. SUM_W
                       /\ pow2[SHIFT(s)] \in Nat
  /\ \A s \in Stages : s # 0 =>
       /\ s - 1 \in Stages
       /\ SHIFT(s - 1) = SHIFT(s) + 1
       /\ pow2[SHIFT(s - 1)] = 2 * pow2[SHIFT(s)]
  /\ SHIFT(0) = NUM_CS - 1 /\ SHIFT(NUM_CS - 1) = 0
  /\ pow2[NUM_CS] = 2 * pow2[NUM_CS - 1]
<1>1. NUM_CS \in Nat /\ 1 <= NUM_CS /\ NUM_CS <= SUM_W + 1 /\ SUM_W \in Nat
  BY StagesAssumption, Pow2Facts
<1>2. ASSUME NEW s \in Stages PROVE SHIFT(s) \in 0 .. SUM_W
  BY <1>1 DEF Stages, SHIFT
<1>3. ASSUME NEW s \in Stages PROVE pow2[SHIFT(s)] \in Nat
  <2>1. SHIFT(s) \in 0 .. SUM_W + 1
    BY <1>1, <1>2
  <2> QED BY <2>1, Pow2Facts
<1>4. ASSUME NEW s \in Stages, s # 0
      PROVE  s - 1 \in Stages /\ SHIFT(s - 1) = SHIFT(s) + 1
  <2>1. s \in Int /\ NUM_CS \in Int /\ 1 <= s /\ s <= NUM_CS - 1
    BY <1>1, <1>4 DEF Stages
  <2>2. s - 1 \in Stages
    BY <1>1, <2>1 DEF Stages
  <2>3. NUM_CS - 1 - (s - 1) = (NUM_CS - 1 - s) + 1
    BY <2>1
  <2> QED BY <2>2, <2>3 DEF SHIFT
<1>5. ASSUME NEW s \in Stages, s # 0
      PROVE  pow2[SHIFT(s - 1)] = 2 * pow2[SHIFT(s)]
  <2>1. SHIFT(s) \in 0 .. SUM_W
    BY <1>2
  <2>2. SHIFT(s - 1) = SHIFT(s) + 1
    BY <1>4, <1>5
  <2>3. pow2[SHIFT(s) + 1] = 2 * pow2[SHIFT(s)]
    BY <2>1, Pow2Facts
  <2> QED BY <2>2, <2>3
<1>6. SHIFT(0) = NUM_CS - 1 /\ SHIFT(NUM_CS - 1) = 0
  BY <1>1 DEF SHIFT
<1>7. pow2[NUM_CS] = 2 * pow2[NUM_CS - 1]
  <2>1. NUM_CS - 1 \in 0 .. SUM_W /\ (NUM_CS - 1) + 1 = NUM_CS
    BY <1>1
  <2> QED BY <2>1, Pow2Facts
<1> QED BY <1>1, <1>2, <1>3, <1>4, <1>5, <1>6, <1>7

\* The width of the value and of the difference.
LEMMA WidthFacts ==
  /\ pow2[SUM_W] \in Nat /\ pow2[SUM_W + 1] = 2 * pow2[SUM_W]
  /\ pow2[SUM_W + 1] \in Nat
  /\ pow2[LOGQ] \in Nat
  /\ Value = 0 .. pow2[SUM_W] - 1
  /\ MAX_COND_SUB \in Nat
<1>1. SUM_W \in Nat /\ LOGQ \in 0 .. SUM_W /\ MAX_COND_SUB \in Nat
  BY WidthAssumption, Pow2Facts
<1>2. SUM_W \in 0 .. SUM_W /\ SUM_W + 1 \in 0 .. SUM_W + 1
      /\ SUM_W \in 0 .. SUM_W + 1 /\ LOGQ \in 0 .. SUM_W + 1
  BY <1>1
<1> QED BY <1>1, <1>2, Pow2Facts DEF Value

-----------------------------------------------------------------------------
(* One stage.                                                              *)

\* A stage subtracts the shifted modulus exactly when it fits: the top bit of
\* the difference is the borrow as long as the shifted modulus is at most
\* 2^SUM_W (modacc.sv:255-269).
THEOREM BorrowExact ==
  ASSUME NEW val \in Value, NEW q \in Nat, NEW s \in Stages,
         q * pow2[SHIFT(s)] <= pow2[SUM_W]
  PROVE  val_comb(val, q, SHIFT(s)) =
           IF val >= q * pow2[SHIFT(s)] THEN val - q * pow2[SHIFT(s)] ELSE val
<1> DEFINE p == q * pow2[SHIFT(s)]
           w == pow2[SUM_W]
           m == pow2[SUM_W + 1]
<1>1. w \in Nat /\ m \in Nat /\ m = 2 * w /\ val \in Nat /\ val < w
  BY WidthFacts
<1>2. p \in Nat /\ p <= w
  <2>1. pow2[SHIFT(s)] \in Nat
    BY ShiftFacts
  <2> QED BY <2>1
<1> HIDE DEF p, w, m
<1>3. p % m = p
  <2>1. p < m
    BY <1>1, <1>2
  <2> QED BY <1>1, <1>2, <2>1, ModSmall
<1>4. q_shifted(q, SHIFT(s)) = p
  BY <1>3 DEF q_shifted, p, m
<1>5. diff(val, q, SHIFT(s)) = (val - p) % m
  BY <1>4 DEF diff, m
<1>6. CASE val >= p
  <2>1. val - p \in Nat /\ val - p < m /\ val - p < w
    BY <1>1, <1>2, <1>6
  <2>2. (val - p) % m = val - p
    BY <1>1, <2>1, ModSmall
  <2>3. val_comb(val, q, SHIFT(s)) = val - p
    BY <1>1, <1>2, <1>5, <2>1, <2>2 DEF val_comb, w
  <2> QED BY <2>3, <1>6 DEF p
<1>7. CASE val < p
  <2> DEFINE n == p - val
  <2>1. n \in Nat /\ 0 < n /\ n <= m /\ n <= w /\ val - p = -n
    BY <1>1, <1>2, <1>7
  <2> HIDE DEF n
  <2>2. (val - p) % m = m - n
    BY <1>1, <2>1, ModNegative
  <2>3. val_comb(val, q, SHIFT(s)) = val
    BY <1>1, <1>5, <2>1, <2>2 DEF val_comb, w
  <2> QED BY <2>3, <1>1, <1>2, <1>7 DEF p
<1> QED BY <1>1, <1>2, <1>6, <1>7

\* What a stage leaves, if it gets less than twice the shifted modulus.
LEMMA StageReduces ==
  ASSUME NEW val \in Value, NEW q \in Nat, NEW s \in Stages,
         q * pow2[SHIFT(s)] <= pow2[SUM_W],
         val < 2 * (q * pow2[SHIFT(s)])
  PROVE  /\ val_comb(val, q, SHIFT(s)) \in Value
         /\ val_comb(val, q, SHIFT(s)) < q * pow2[SHIFT(s)]
         /\ \E j \in {0, pow2[SHIFT(s)]} : val = j * q + val_comb(val, q, SHIFT(s))
<1> DEFINE p == pow2[SHIFT(s)]
           r == val_comb(val, q, SHIFT(s))
<1>1. p \in Nat /\ q * p \in Nat /\ q * p = p * q
  BY ShiftFacts
<1>2. val \in Nat /\ pow2[SUM_W] \in Nat /\ val < pow2[SUM_W]
  BY WidthFacts
<1>3. r = IF val >= q * p THEN val - q * p ELSE val
  BY BorrowExact
<1>4. Value = 0 .. pow2[SUM_W] - 1
  BY WidthFacts
<1>5. val < 2 * (q * p)
  OBVIOUS
<1> HIDE DEF p, r
<1>6. CASE val >= q * p
  <2>1. r = val - q * p
    BY <1>3, <1>6
  <2>2. r \in Value /\ r < q * p
    BY <1>1, <1>2, <1>4, <1>5, <1>6, <2>1
  <2>3. val = p * q + r
    BY <1>1, <1>2, <2>1
  <2> QED BY <2>2, <2>3 DEF p, r
<1>7. CASE ~(val >= q * p)
  <2>1. r = val
    BY <1>3, <1>7
  <2>2. r \in Value /\ r < q * p
    BY <1>1, <1>2, <1>4, <1>7, <2>1
  <2>3. val = 0 * q + r
    BY <1>2, <2>1
  <2> QED BY <2>2, <2>3 DEF p, r
<1> QED BY <1>6, <1>7

-----------------------------------------------------------------------------
(* The chain.                                                              *)

\* What StageInv says of one stage.
StageInvOf(s) ==
  s < loaded =>
    /\ q_r[s] = in_r[s].q
    /\ val_r[s] < q_r[s] * pow2[SHIFT(s)]
    /\ q_r[s] * pow2[SHIFT(s)] <= pow2[SUM_W]
    /\ \E k \in 0 .. pow2[NUM_CS] - pow2[SHIFT(s)] :
         in_r[s].sum = k * q_r[s] + val_r[s]

\* What the value and the modulus entering a stage owe it.
EntersWell(val, q, x, s) ==
  /\ val \in Value /\ q \in Operand /\ q = x.q
  /\ val < 2 * (q * pow2[SHIFT(s)])
  /\ q * pow2[SHIFT(s)] <= pow2[SUM_W]
  /\ \E k \in 0 .. pow2[NUM_CS] - 2 * pow2[SHIFT(s)] : x.sum = k * q + val

LEMMA StageKeeps ==
  ASSUME NEW val, NEW q, NEW x \in Input, NEW s \in Stages,
         EntersWell(val, q, x, s)
  PROVE  LET r == val_comb(val, q, SHIFT(s)) IN
         /\ r \in Value
         /\ r < q * pow2[SHIFT(s)]
         /\ \E k \in 0 .. pow2[NUM_CS] - pow2[SHIFT(s)] : x.sum = k * q + r
<1> DEFINE r == val_comb(val, q, SHIFT(s))
           p == pow2[SHIFT(s)]
<1>1. q \in Nat /\ val \in Value /\ val \in Nat
  BY WidthFacts DEF EntersWell, Operand
<1>2. p \in Nat /\ pow2[NUM_CS] \in Nat
  BY ShiftFacts, Pow2Facts
<1>3. /\ r \in Value /\ r < q * p
      /\ \E j \in {0, p} : val = j * q + r
  BY <1>1, StageReduces DEF EntersWell
<1>4. PICK j \in {0, p} : val = j * q + r
  BY <1>3
<1>5. PICK k \in 0 .. pow2[NUM_CS] - 2 * p : x.sum = k * q + val
  BY DEF EntersWell
<1>6. r \in Nat
  BY <1>3, WidthFacts
<1>7. k \in Nat /\ j \in Nat /\ k <= pow2[NUM_CS] - 2 * p /\ j <= p
  BY <1>2, <1>4, <1>5
<1> HIDE DEF r, p
<1>8. k + j \in 0 .. pow2[NUM_CS] - p
  BY <1>2, <1>7
<1>9. (k + j) * q = k * q + j * q
  BY <1>1, <1>7
<1>10. x.sum = (k + j) * q + r
  <2>1. k * q \in Nat /\ j * q \in Nat
    BY <1>1, <1>7
  <2> QED BY <1>4, <1>5, <1>6, <1>9, <2>1
<1>11. \E n \in 0 .. pow2[NUM_CS] - p : x.sum = n * q + r
  BY <1>8, <1>10
<1> QED BY <1>3, <1>11 DEF r, p

\* The first stage: the quotient is at most MAX_COND_SUB.
LEMMA InputEntersWell ==
  ASSUME NEW x \in Input, InRange(x), 0 \in Stages
  PROVE  EntersWell(x.sum, x.q, x, 0)
<1> DEFINE p == pow2[NUM_CS - 1]
<1>1. /\ SHIFT(0) = NUM_CS - 1 /\ pow2[NUM_CS] = 2 * p /\ p \in Nat
  BY ShiftFacts
<1>2. /\ x.sum \in Value /\ x.q \in Operand
      /\ x.sum \in Nat /\ x.q \in Nat
      /\ x.q < pow2[LOGQ] /\ pow2[LOGQ] \in Nat
      /\ MAX_COND_SUB \in Nat /\ pow2[SUM_W] \in Nat
  BY WidthFacts DEF Input, Operand
<1>3. MAX_COND_SUB + 1 <= 2 * p
  BY <1>1, StagesAssumption
<1>4. pow2[LOGQ] * p <= pow2[SUM_W]
  BY BorrowAssumption
<1> HIDE DEF p
<1>5. x.sum < 2 * (x.q * p)
  <2>1. (MAX_COND_SUB + 1) * x.q <= (2 * p) * x.q
    BY <1>1, <1>2, <1>3
  <2>2. (2 * p) * x.q = 2 * (x.q * p)
    BY <1>1, <1>2
  <2>3. x.q * p \in Nat /\ (MAX_COND_SUB + 1) * x.q \in Nat
    BY <1>1, <1>2
  <2> QED BY <1>2, <2>1, <2>2, <2>3 DEF InRange
<1>6. x.q * p <= pow2[SUM_W]
  <2>1. x.q * p <= pow2[LOGQ] * p
    BY <1>1, <1>2
  <2>2. x.q * p \in Nat /\ pow2[LOGQ] * p \in Nat
    BY <1>1, <1>2
  <2> QED BY <1>2, <1>4, <2>1, <2>2
<1>7. x.sum = 0 * x.q + x.sum /\ 0 \in 0 .. pow2[NUM_CS] - 2 * p
  BY <1>1, <1>2
<1> QED BY <1>1, <1>2, <1>5, <1>6, <1>7 DEF EntersWell, p

\* The later stages: what the stage before left.
LEMMA NextEntersWell ==
  ASSUME TypeOK, NEW s \in Stages, s # 0, s - 1 < loaded, StageInvOf(s - 1)
  PROVE  EntersWell(val_r[s - 1], q_r[s - 1], in_r[s - 1], s)
<1> DEFINE t == s - 1
<1>1. t \in Stages /\ pow2[SHIFT(t)] = 2 * pow2[SHIFT(s)]
      /\ pow2[SHIFT(s)] \in Nat
  BY ShiftFacts
<1>2. val_r[t] \in Value /\ q_r[t] \in Operand /\ q_r[t] \in Nat
  BY <1>1, WidthFacts DEF TypeOK, Operand
<1>3. /\ q_r[t] = in_r[t].q
      /\ val_r[t] < q_r[t] * pow2[SHIFT(t)]
      /\ q_r[t] * pow2[SHIFT(t)] <= pow2[SUM_W]
      /\ \E k \in 0 .. pow2[NUM_CS] - pow2[SHIFT(t)] :
           in_r[t].sum = k * q_r[t] + val_r[t]
  BY DEF StageInvOf
<1>4. q_r[t] * pow2[SHIFT(t)] = 2 * (q_r[t] * pow2[SHIFT(s)])
      /\ q_r[t] * pow2[SHIFT(s)] \in Nat
  BY <1>1, <1>2
<1>5. pow2[SUM_W] \in Nat
  BY WidthFacts
<1>6. q_r[t] * pow2[SHIFT(s)] <= pow2[SUM_W]
  BY <1>3, <1>4, <1>5
<1>7. val_r[t] < 2 * (q_r[t] * pow2[SHIFT(s)])
  BY <1>3, <1>4
<1>8. \E k \in 0 .. pow2[NUM_CS] - 2 * pow2[SHIFT(s)] :
        in_r[t].sum = k * q_r[t] + val_r[t]
  BY <1>1, <1>3
<1> QED BY <1>2, <1>3, <1>6, <1>7, <1>8 DEF EntersWell

IInv == TypeOK /\ StageInv

LEMMA StageInvSplits == StageInv <=> \A s \in Stages : StageInvOf(s)
BY DEF StageInv, StageInvOf

LEMMA InitIInv == Init => IInv
<1> SUFFICES ASSUME Init PROVE IInv
  OBVIOUS
<1>1. PowerUp \in Value /\ PowerUp \in Operand /\ NUM_CS \in Nat
  BY WidthAssumption, ShiftFacts
<1>2. [sum |-> PowerUp, q |-> PowerUp] \in Input
  BY <1>1 DEF Input
<1>3. TypeOK
  BY <1>1, <1>2 DEF Init, TypeOK
<1>4. StageInv
  <2>1. \A s \in Stages : ~(s < loaded)
    BY <1>1 DEF Init, Stages
  <2> QED BY <2>1 DEF StageInv
<1> QED BY <1>3, <1>4 DEF IInv

\* What is in a register after an edge.
LEMMA EdgeOfStage ==
  ASSUME NEW x \in Input, Edge(x), NEW s \in Stages
  PROVE  /\ val_r'[s] = val_comb(val_in(s, x), q_in(s, x), SHIFT(s))
         /\ q_r'[s] = q_in(s, x)
         /\ in_r'[s] = IF s = 0 THEN x ELSE in_r[s - 1]
BY DEF Edge

\* The width of a stage's result, whatever its inputs.
LEMMA StageWidth ==
  ASSUME NEW val \in Value, NEW q \in Operand, NEW s \in Stages
  PROVE  val_comb(val, q, SHIFT(s)) \in Value
<1> DEFINE w == pow2[SUM_W]
           m == pow2[SUM_W + 1]
           d == diff(val, q, SHIFT(s))
<1>1. w \in Nat /\ m = 2 * w /\ val \in Nat /\ val < w /\ Value = 0 .. w - 1
  BY WidthFacts
<1>2. m \in Nat /\ 0 < m
  BY <1>1
<1>3. q * pow2[SHIFT(s)] \in Nat
  BY WidthFacts, ShiftFacts, SMTT(30) DEF Operand
<1>4. q_shifted(q, SHIFT(s)) \in Nat
  BY <1>2, <1>3 DEF q_shifted
<1>5. d \in 0 .. m - 1
  BY <1>1, <1>2, <1>4, SMTT(30) DEF diff
<1>6. val_comb(val, q, SHIFT(s)) = IF d >= w THEN val ELSE d
  BY DEF val_comb
<1> HIDE DEF d, w, m
<1> QED BY <1>1, <1>5, <1>6

LEMMA NextType == TypeOK /\ Next => TypeOK'
<1> SUFFICES ASSUME TypeOK, Next PROVE TypeOK'
  OBVIOUS
<1>1. PICK x \in Input : Edge(x)
  BY DEF Next
<1>2. \A s \in Stages : val_in(s, x) \in Value /\ q_in(s, x) \in Operand
  BY ShiftFacts DEF val_in, q_in, TypeOK, Input
<1>3. val_r' \in [Stages -> Value]
  BY <1>1, <1>2, StageWidth DEF Edge
<1>4. q_r' \in [Stages -> Operand]
  BY <1>1, <1>2 DEF Edge
<1>5. in_r' \in [Stages -> Input]
  BY <1>1, ShiftFacts DEF Edge, TypeOK
<1>6. loaded' \in 0 .. NUM_CS
  BY <1>1, ShiftFacts DEF Edge, TypeOK
<1> QED BY <1>3, <1>4, <1>5, <1>6 DEF TypeOK

LEMMA NextStageInv == IInv /\ Next => StageInv'
<1> SUFFICES ASSUME IInv, Next PROVE StageInv'
  OBVIOUS
<1>1. PICK x \in Input : Edge(x)
  BY DEF Next
<1>2. TypeOK /\ \A s \in Stages : StageInvOf(s)
  BY StageInvSplits DEF IInv
<1>3. SUFFICES ASSUME NEW s \in Stages, s < loaded' PROVE StageInvOf(s)'
  <2>1. \A s \in Stages : StageInvOf(s)'
    BY <1>3 DEF StageInvOf
  <2> QED BY <2>1 DEF StageInv, StageInvOf
<1> DEFINE y == IF s = 0 THEN x ELSE in_r[s - 1]
<1>4. EntersWell(val_in(s, x), q_in(s, x), y, s)
  <2>1. CASE s = 0
    BY <1>1, <2>1, InputEntersWell DEF val_in, q_in, Edge
  <2>2. CASE s # 0
    <3>1. s - 1 \in Stages
      BY <2>2, ShiftFacts
    <3>2. s \in Int /\ loaded \in Int /\ loaded' <= loaded + 1
      BY <1>1, <1>2, ShiftFacts DEF Edge, TypeOK, Stages
    <3>3. s - 1 < loaded
      BY <1>3, <3>2, <1>1, ShiftFacts DEF Edge, Stages, TypeOK
    <3> QED BY <1>2, <2>2, <3>1, <3>3, NextEntersWell DEF val_in, q_in
  <2> QED BY <2>1, <2>2
<1>5. y \in Input
  BY <1>2, ShiftFacts DEF TypeOK
<1>6. /\ val_r'[s] = val_comb(val_in(s, x), q_in(s, x), SHIFT(s))
      /\ q_r'[s] = q_in(s, x)
      /\ in_r'[s] = y
  BY <1>1, EdgeOfStage
<1> HIDE DEF y
<1>7. /\ val_r'[s] < q_r'[s] * pow2[SHIFT(s)]
      /\ \E k \in 0 .. pow2[NUM_CS] - pow2[SHIFT(s)] :
           in_r'[s].sum = k * q_r'[s] + val_r'[s]
  BY <1>4, <1>5, <1>6, StageKeeps
<1>8. q_r'[s] = in_r'[s].q /\ q_r'[s] * pow2[SHIFT(s)] <= pow2[SUM_W]
  BY <1>4, <1>6 DEF EntersWell
<1> QED BY <1>7, <1>8 DEF StageInvOf

\* The inductive invariant: types, and what each stage has left to do.
THEOREM ChainInvariant == Spec => []IInv
<1>1. Init => IInv
  BY InitIInv
<1>2. IInv /\ [Next]_vars => IInv'
  <2>1. IInv /\ Next => IInv'
    BY NextType, NextStageInv DEF IInv
  <2>2. IInv /\ UNCHANGED vars => IInv'
    BY DEF vars, IInv, TypeOK, StageInv
  <2> QED BY <2>1, <2>2
<1> QED BY <1>1, <1>2, PTL DEF Spec

\* Every register keeps a value of its width, whatever the sums are: a stage
\* that lets its value through and a stage that subtracts both stay below
\* 2^SUM_W (modacc.sv:264-276).
THEOREM ChainTypeCorrect == Spec => []TypeOK
<1>1. IInv => TypeOK
  BY DEF IInv
<1> QED BY <1>1, ChainInvariant, PTL

\* After any stage the value is below 2^SHIFT(s) moduli and short of the sum by
\* a multiple of its own modulus (modacc.sv:231-290).
THEOREM StagesKeepQuotient == Spec => []StageInv
<1>1. IInv => StageInv
  BY DEF IInv
<1> QED BY <1>1, ChainInvariant, PTL

\* The chain's output is the sum modulo the modulus that came with it, for all
\* widths and quotients within the assumptions (modacc.sv:33-36).
THEOREM ChainReduces == Spec => []Reduced
<1>1. IInv => Reduced
  <2> SUFFICES ASSUME IInv, loaded = NUM_CS
               PROVE  val_r[NUM_CS - 1] = in_r[NUM_CS - 1].sum % in_r[NUM_CS - 1].q
    BY DEF Reduced
  <2> DEFINE s == NUM_CS - 1
  <2>1. s \in Stages /\ s < loaded /\ SHIFT(s) = 0
    BY ShiftFacts DEF Stages
  <2>2. pow2[SHIFT(s)] = 1 /\ pow2[NUM_CS] \in Nat
    BY <2>1, Pow2Assumption, ShiftFacts, SMTT(30)
  <2>3. val_r[s] \in Nat /\ q_r[s] \in Nat
    BY <2>1, WidthFacts DEF IInv, TypeOK, Operand
  <2>4. StageInvOf(s)
    BY <2>1, StageInvSplits DEF IInv
  <2>5. q_r[s] = in_r[s].q /\ val_r[s] < q_r[s]
    BY <2>1, <2>2, <2>3, <2>4 DEF StageInvOf
  <2>6. PICK k \in 0 .. pow2[NUM_CS] - 1 : in_r[s].sum = k * q_r[s] + val_r[s]
    BY <2>1, <2>2, <2>4 DEF StageInvOf
  <2>7. k \in Nat
    BY <2>2
  <2> HIDE DEF s
  <2>8. (k * q_r[s] + val_r[s]) % q_r[s] = val_r[s]
    BY <2>3, <2>5, <2>7, ModOfMultiple
  <2> QED BY <2>5, <2>6, <2>8 DEF s
<1> QED BY <1>1, ChainInvariant, PTL
=============================================================================
