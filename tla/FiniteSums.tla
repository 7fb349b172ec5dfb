----------------------------- MODULE FiniteSums -----------------------------
(***************************************************************************)
(* Facts about the sums the models are written with, MapThenSumSet of a    *)
(* finite set: it exists, does not depend on the order in which the        *)
(* elements are chosen, and grows by what an element adds.  The summands   *)
(* are given by a function.                                                *)
(***************************************************************************)
EXTENDS Integers, FiniteSets, FiniteSetsExt, FiniteSetTheorems,
        WellFoundedInduction, TLAPS

\* The sum of F over S.
SumOver(F, S) == MapThenSumSet(LAMBDA s : F[s], S)

\* g is the recursive function behind it: the sum over each subset of S.
Sums(F, S, g) ==
  g = [s \in SUBSET S |-> IF s = {} THEN 0
                          ELSE LET x == CHOOSE x \in s : TRUE IN F[x] + g[s \ {x}]]

-----------------------------------------------------------------------------
(***************************************************************************)
(* Induction                                                               *)
(***************************************************************************)

\* Mathematical induction, for the set of the numbers that have the property.
LEMMA InductiveSet ==
  ASSUME NEW C \in SUBSET Nat, 0 \in C, \A n \in C : n + 1 \in C
  PROVE  C = Nat
  <1> SUFFICES ASSUME Nat \ C # {} PROVE FALSE
    OBVIOUS
  <1>1. PICK m \in Nat \ C : \A k \in Nat \ C : ~(<<k, m>> \in OpToRel(<, Nat))
    <2>1. Nat \ C \subseteq Nat
      OBVIOUS
    <2> QED BY <2>1, NatLessThanWellFounded, WFMin
  <1>2. \A k \in Nat \ C : ~(k < m)
    BY <1>1 DEF OpToRel
  <1>3. m # 0 /\ m - 1 \in Nat /\ m - 1 < m
    OBVIOUS
  <1>4. m - 1 \in C
    BY <1>2, <1>3
  <1>5. m = (m - 1) + 1
    OBVIOUS
  <1> QED BY <1>4, <1>5

-----------------------------------------------------------------------------
(***************************************************************************)
(* The recursive function behind the sum                                   *)
(***************************************************************************)

LEMMA SizeOfRest ==
  ASSUME NEW S, IsFiniteSet(S), NEW x \in S
  PROVE  /\ IsFiniteSet(S \ {x}) /\ Cardinality(S) \in Nat
         /\ Cardinality(S \ {x}) \in Nat /\ Cardinality(S \ {x}) = Cardinality(S) - 1
  BY FS_RemoveElement, FS_CardinalityType

\* It exists: the sums of the sets of n + 1 elements are made of those of n.
LEMMA SumsExist ==
  ASSUME NEW S, IsFiniteSet(S), NEW F, \A x \in S : F[x] \in Int
  PROVE  \E g \in [SUBSET S -> Int] : Sums(F, S, g)
  <1> DEFINE Small(n) == {s \in SUBSET S : Cardinality(s) <= n}
             Def(g, s) == IF s = {} THEN 0
                          ELSE LET x == CHOOSE x \in s : TRUE IN F[x] + g[s \ {x}]
             C == {n \in Nat : \E g \in [Small(n) -> Int] :
                                 \A s \in Small(n) : g[s] = Def(g, s)}
  <1>1. \A s \in SUBSET S : IsFiniteSet(s) /\ Cardinality(s) \in Nat
    BY FS_Subset, FS_CardinalityType
  <1>2. 0 \in C
    <2>1. \A s \in Small(0) : s = {}
      BY <1>1, FS_EmptySet
    <2>2. [s \in Small(0) |-> 0] \in [Small(0) -> Int]
      OBVIOUS
    <2> QED BY <2>1, <2>2
  <1>3. ASSUME NEW n \in C PROVE n + 1 \in C
    <2>1. PICK g \in [Small(n) -> Int] : \A s \in Small(n) : g[s] = Def(g, s)
      BY <1>3
    <2> DEFINE h == [s \in Small(n + 1) |-> Def(g, s)]
    <2>2. ASSUME NEW s \in Small(n + 1), s # {}
          PROVE  /\ (CHOOSE x \in s : TRUE) \in s
                 /\ s \ {CHOOSE x \in s : TRUE} \in Small(n)
      <3> DEFINE x == CHOOSE x \in s : TRUE
      <3>1. x \in s
        BY <2>2
      <3> HIDE DEF x
      <3>2. IsFiniteSet(s) /\ Cardinality(s) <= n + 1
        BY <1>1
      <3>3. Cardinality(s \ {x}) <= n
        BY <3>1, <3>2, SizeOfRest, SMTT(30)
      <3> QED BY <3>1, <3>3 DEF x
    <2>3. \A s \in Small(n + 1) : Def(g, s) \in Int
      <3>1. ASSUME NEW s \in Small(n + 1), s # {} PROVE Def(g, s) \in Int
        <4> DEFINE x == CHOOSE x \in s : TRUE
        <4>1. x \in S /\ s \ {x} \in Small(n)
          BY <2>2, <3>1
        <4>2. Def(g, s) = F[x] + g[s \ {x}]
          BY <3>1
        <4> HIDE DEF x, Small, Def
        <4>3. F[x] \in Int /\ g[s \ {x}] \in Int
          BY <4>1
        <4> QED BY <4>2, <4>3
      <3>2. \A s : s = {} => Def(g, s) = 0
        OBVIOUS
      <3> HIDE DEF Def, Small
      <3> QED BY <3>1, <3>2
    <2>4. \A s \in Small(n) : s \in Small(n + 1)
      BY <1>1
    <2>5. \A s \in Small(n) : h[s] = g[s]
      BY <2>1, <2>4
    <2>6. \A s \in Small(n + 1) : h[s] = Def(h, s)
      <3> SUFFICES ASSUME NEW s \in Small(n + 1), s # {} PROVE h[s] = Def(h, s)
        OBVIOUS
      <3>1. h[s \ {CHOOSE x \in s : TRUE}] = g[s \ {CHOOSE x \in s : TRUE}]
        BY <2>2, <2>5
      <3> QED BY <3>1
    <2>7. h \in [Small(n + 1) -> Int]
      BY <2>3
    <2> HIDE DEF h, Small, Def
    <2>8. \E f \in [Small(n + 1) -> Int] : \A s \in Small(n + 1) : f[s] = Def(f, s)
      BY <2>6, <2>7
    <2> QED BY <2>8
  <1>4. C = Nat
    <2> HIDE DEF C
    <2>1. C \in SUBSET Nat
      BY DEF C
    <2> QED BY <1>2, <1>3, <2>1, InductiveSet
  <1>5. Cardinality(S) \in C
    BY <1>1, <1>4
  <1>6. \A s \in SUBSET S : s \in Small(Cardinality(S))
    BY FS_Subset
  <1>7. Small(Cardinality(S)) = SUBSET S
    BY <1>6
  <1> HIDE DEF Small
  <1>8. PICK g \in [SUBSET S -> Int] : \A s \in SUBSET S : g[s] = Def(g, s)
    BY <1>5, <1>7
  <1>9. g = [s \in SUBSET S |-> Def(g, s)]
    BY <1>8
  <1> QED BY <1>8, <1>9 DEF Sums

\* One step of the recursion.
LEMMA SumsStep ==
  ASSUME NEW S, NEW F, NEW g, Sums(F, S, g), NEW s \in SUBSET S
  PROVE  /\ s = {} => g[s] = 0
         /\ s # {} => \E x \in s : /\ x = CHOOSE y \in s : TRUE
                                   /\ g[s] = F[x] + g[s \ {x}]
  <1>1. g[s] = IF s = {} THEN 0 ELSE LET x == CHOOSE x \in s : TRUE IN F[x] + g[s \ {x}]
    BY DEF Sums
  <1>2. ASSUME s # {} PROVE (CHOOSE y \in s : TRUE) \in s
    BY <1>2
  <1> QED BY <1>1, <1>2

\* Whichever element is taken out first, what it adds is the same.
LEMMA SumsInAnyOrder ==
  ASSUME NEW S, IsFiniteSet(S), NEW F, \A x \in S : F[x] \in Int,
         NEW g, Sums(F, S, g)
  PROVE  \A s \in SUBSET S : /\ g[s] \in Int
                             /\ \A x \in s : g[s] = F[x] + g[s \ {x}]
  <1> DEFINE Fine(s) == g[s] \in Int /\ \A x \in s : g[s] = F[x] + g[s \ {x}]
             C == {n \in Nat : \A s \in SUBSET S : Cardinality(s) <= n => Fine(s)}
  <1>1. \A s \in SUBSET S : IsFiniteSet(s) /\ Cardinality(s) \in Nat
    BY FS_Subset, FS_CardinalityType
  <1>2. Fine({})
    BY SumsStep
  <1>3. 0 \in C
    <2>1. \A s \in SUBSET S : Cardinality(s) <= 0 => s = {}
      BY <1>1, FS_EmptySet
    <2> HIDE DEF Fine
    <2> QED BY <1>2, <2>1
  <1>4. ASSUME NEW n \in C PROVE n + 1 \in C
    <2> SUFFICES ASSUME NEW s \in SUBSET S, Cardinality(s) <= n + 1 PROVE Fine(s)
      OBVIOUS
    <2>1. CASE s = {}
      <3> HIDE DEF Fine
      <3> QED BY <1>2, <2>1
    <2>2. CASE s # {}
      <3>1. \A x \in s : Fine(s \ {x})
        <4> SUFFICES ASSUME NEW x \in s PROVE Fine(s \ {x})
          OBVIOUS
        <4>1. Cardinality(s \ {x}) <= n
          BY <1>1, SizeOfRest
        <4> HIDE DEF Fine
        <4> QED BY <1>4, <4>1
      <3>2. PICK y \in s : g[s] = F[y] + g[s \ {y}]
        BY <2>2, SumsStep
      <3>3. g[s] \in Int
        <4>1. F[y] \in Int /\ g[s \ {y}] \in Int
          BY <3>1
        <4> QED BY <3>2, <4>1
      <3>4. ASSUME NEW x \in s PROVE g[s] = F[x] + g[s \ {x}]
        <4>1. CASE x = y
          BY <3>2, <4>1
        <4>2. CASE x # y
          <5>1. g[s \ {y}] = F[x] + g[(s \ {y}) \ {x}]
            BY <3>1, <4>2
          <5>2. g[s \ {x}] = F[y] + g[(s \ {x}) \ {y}]
            BY <3>1, <4>2
          <5>3. (s \ {y}) \ {x} = (s \ {x}) \ {y}
            OBVIOUS
          <5>4. g[(s \ {x}) \ {y}] \in Int
            <6>1. Cardinality((s \ {x}) \ {y}) <= n
              <7>1. IsFiniteSet(s \ {x}) /\ Cardinality(s \ {x}) <= n
                BY <1>1, SizeOfRest
              <7>2. y \in s \ {x}
                BY <4>2
              <7>3. Cardinality((s \ {x}) \ {y}) = Cardinality(s \ {x}) - 1
                    /\ Cardinality(s \ {x}) \in Nat
                BY <7>1, <7>2, SizeOfRest
              <7> QED BY <7>1, <7>3
            <6>2. Fine((s \ {x}) \ {y})
              <7> HIDE DEF Fine
              <7> QED BY <1>4, <6>1
            <6> QED BY <6>2
          <5>5. F[x] \in Int /\ F[y] \in Int
            OBVIOUS
          <5>6. \A a, b, c \in Int : a + (b + c) = b + (a + c)
            OBVIOUS
          <5>7. /\ g[s] = F[y] + (F[x] + g[(s \ {x}) \ {y}])
                /\ F[x] + g[s \ {x}] = F[x] + (F[y] + g[(s \ {x}) \ {y}])
            BY <3>2, <5>1, <5>2, <5>3
          <5> QED BY <5>4, <5>5, <5>6, <5>7
        <4> QED BY <4>1, <4>2
      <3> QED BY <3>3, <3>4
    <2> QED BY <2>1, <2>2
  <1> HIDE DEF Fine
  <1>5. C = Nat
    <2> HIDE DEF C
    <2>1. C \in SUBSET Nat
      BY DEF C
    <2> QED BY <1>3, <1>4, <2>1, InductiveSet
  <1>6. \A s \in SUBSET S : Fine(s)
    BY <1>1, <1>5
  <1> QED BY <1>6 DEF Fine

\* Two such functions agree where their summands do.
LEMMA SumsAgree ==
  ASSUME NEW S, IsFiniteSet(S), NEW T, S \subseteq T,
         NEW F, NEW G, \A x \in S : F[x] = G[x],
         NEW g, Sums(F, S, g), NEW h, Sums(G, T, h)
  PROVE  \A s \in SUBSET S : g[s] = h[s]
  <1> DEFINE C == {n \in Nat : \A s \in SUBSET S : Cardinality(s) <= n => g[s] = h[s]}
  <1>1. \A s \in SUBSET S : IsFiniteSet(s) /\ Cardinality(s) \in Nat
    BY FS_Subset, FS_CardinalityType
  <1>2. g[{}] = h[{}]
    BY SumsStep
  <1>3. 0 \in C
    <2>1. \A s \in SUBSET S : Cardinality(s) <= 0 => s = {}
      BY <1>1, FS_EmptySet
    <2> QED BY <1>2, <2>1
  <1>4. ASSUME NEW n \in C PROVE n + 1 \in C
    <2> SUFFICES ASSUME NEW s \in SUBSET S, Cardinality(s) <= n + 1 PROVE g[s] = h[s]
      OBVIOUS
    <2>1. CASE s = {}
      BY <1>2, <2>1
    <2>2. CASE s # {}
      <3>1. PICK x \in s : x = (CHOOSE y \in s : TRUE) /\ g[s] = F[x] + g[s \ {x}]
        BY <2>2, SumsStep
      <3>2. PICK y \in s : y = (CHOOSE z \in s : TRUE) /\ h[s] = G[y] + h[s \ {y}]
        <4>1. s \in SUBSET T
          OBVIOUS
        <4> QED BY <2>2, <4>1, SumsStep
      <3>3. x = y
        BY <3>1, <3>2
      <3>4. Cardinality(s \ {x}) <= n
        BY <1>1, SizeOfRest
      <3>5. g[s \ {x}] = h[s \ {x}]
        BY <1>4, <3>4
      <3> QED BY <3>1, <3>2, <3>3, <3>5
    <2> QED BY <2>1, <2>2
  <1>5. C = Nat
    <2> HIDE DEF C
    <2>1. C \in SUBSET Nat
      BY DEF C
    <2> QED BY <1>3, <1>4, <2>1, InductiveSet
  <1> QED BY <1>1, <1>5

-----------------------------------------------------------------------------
(***************************************************************************)
(* The sum                                                                 *)
(***************************************************************************)

\* The sum is the value at the whole set of the recursive function behind it.
LEMMA SumOverIs ==
  ASSUME NEW S, IsFiniteSet(S), NEW F, \A x \in S : F[x] \in Int,
         NEW g, Sums(F, S, g)
  PROVE  SumOver(F, S) = g[S]
  <1> DEFINE iter == CHOOSE h : Sums(F, S, h)
  <1>1. Sums(F, S, iter)
    OBVIOUS
  <1>2. SumOver(F, S) = iter[S]
    BY DEF SumOver, MapThenSumSet, MapThenFoldSet, Sums
  <1> HIDE DEF iter
  <1>3. iter[S] = g[S]
    BY <1>1, SumsAgree
  <1> QED BY <1>2, <1>3

LEMMA SumIsInt ==
  ASSUME NEW S, IsFiniteSet(S), NEW F, \A x \in S : F[x] \in Int
  PROVE  SumOver(F, S) \in Int
  <1>1. PICK g \in [SUBSET S -> Int] : Sums(F, S, g)
    BY SumsExist
  <1> QED BY <1>1, SumOverIs

LEMMA SumOfNone ==
  ASSUME NEW F
  PROVE  SumOver(F, {}) = 0
  <1>1. IsFiniteSet({}) /\ \A x \in {} : F[x] \in Int
    BY FS_EmptySet
  <1>2. PICK g : Sums(F, {}, g)
    BY <1>1, SumsExist
  <1>3. g[{}] = 0
    BY <1>2, SumsStep
  <1> QED BY <1>1, <1>2, <1>3, SumOverIs

LEMMA SumWithOneMore ==
  ASSUME NEW S, IsFiniteSet(S), NEW x, x \notin S,
         NEW F, \A y \in S \cup {x} : F[y] \in Int
  PROVE  SumOver(F, S \cup {x}) = SumOver(F, S) + F[x]
  <1> DEFINE T == S \cup {x}
  <1>1. IsFiniteSet(T) /\ T \ {x} = S /\ S \subseteq T /\ x \in T
    BY FS_AddElement
  <1>2. \A y \in T : F[y] \in Int
    OBVIOUS
  <1> HIDE DEF T
  <1>3. PICK g \in [SUBSET T -> Int] : Sums(F, T, g)
    BY <1>1, <1>2, SumsExist
  <1>4. PICK h \in [SUBSET S -> Int] : Sums(F, S, h)
    BY <1>1, <1>2, SumsExist
  <1>5. g[T] = F[x] + g[S]
    <2>1. T \in SUBSET T
      OBVIOUS
    <2>2. g[T] = F[x] + g[T \ {x}]
      BY <1>1, <1>2, <1>3, <2>1, SumsInAnyOrder
    <2> QED BY <1>1, <2>2
  <1>6. h[S] = g[S]
    BY <1>1, <1>3, <1>4, SumsAgree
  <1>7. SumOver(F, T) = g[T] /\ SumOver(F, S) = h[S]
    BY <1>1, <1>2, <1>3, <1>4, SumOverIs
  <1>8. F[x] \in Int /\ h[S] \in Int
    BY <1>1, <1>2, <1>4
  <1>9. SumOver(F, T) = SumOver(F, S) + F[x]
    BY <1>5, <1>6, <1>7, <1>8
  <1> QED BY <1>9 DEF T

LEMMA SumOfEquals ==
  ASSUME NEW S, IsFiniteSet(S), NEW F, NEW G, \A x \in S : F[x] = G[x] /\ F[x] \in Int
  PROVE  SumOver(F, S) = SumOver(G, S)
  <1>1. PICK g \in [SUBSET S -> Int] : Sums(F, S, g)
    BY SumsExist
  <1>2. PICK h \in [SUBSET S -> Int] : Sums(G, S, h)
    BY SumsExist
  <1>3. g[S] = h[S]
    BY <1>1, <1>2, SumsAgree
  <1> QED BY <1>1, <1>2, <1>3, SumOverIs

LEMMA FiniteInterval == \A m, n \in Int : IsFiniteSet(m .. n)
  BY FS_Interval

\* The sum over one index more.
LEMMA SumUpTo ==
  ASSUME NEW m \in Int, NEW n \in Int, m <= n + 1,
         NEW F, \A i \in m .. n + 1 : F[i] \in Int
  PROVE  /\ SumOver(F, m .. n) \in Int
         /\ SumOver(F, m .. n + 1) = SumOver(F, m .. n) + F[n + 1]
  <1>1. IsFiniteSet(m .. n) /\ n + 1 \notin m .. n /\ m .. n + 1 = (m .. n) \cup {n + 1}
    BY FS_Interval
  <1>2. \A i \in (m .. n) \cup {n + 1} : F[i] \in Int
    BY <1>1
  <1>3. SumOver(F, m .. n) \in Int
    BY <1>1, <1>2, SumIsInt
  <1> DEFINE S == m .. n
             k == n + 1
  <1>4. IsFiniteSet(S) /\ k \notin S /\ \A i \in S \cup {k} : F[i] \in Int
    BY <1>1, <1>2
  <1>5. SumOver(F, S \cup {k}) = SumOver(F, S) + F[k]
    <2> HIDE DEF S, k
    <2> QED
      BY <1>4, SumWithOneMore
  <1>6. SumOver(F, m .. n + 1) = SumOver(F, S \cup {k})
    BY <1>1, Zenon
  <1> QED BY <1>3, <1>5, <1>6

\* The terms of G after the first b are those of F after the first a.
Continues(G, b, F, a, n) ==
  /\ \A i \in 1 .. b + n : G[i] \in Int
  /\ \A i \in 1 .. n : F[a + i] = G[b + i]

\* The sum of the first b + n terms is that of the first b and of the n others,
\* wherever those are kept.
LEMMA SumContinued ==
  ASSUME NEW a \in Int, NEW b \in Nat, NEW n \in Nat, NEW F, NEW G,
         Continues(G, b, F, a, n)
  PROVE  SumOver(G, 1 .. b + n) = SumOver(G, 1 .. b) + SumOver(F, a + 1 .. a + n)
  <1> DEFINE C == {k \in Nat : k <= n =>
                     SumOver(G, 1 .. b + k) = SumOver(G, 1 .. b) + SumOver(F, a + 1 .. a + k)}
  <1> USE DEF Continues
  <1>1. SumOver(G, 1 .. b) \in Int
    <2>1. IsFiniteSet(1 .. b) /\ \A i \in 1 .. b : G[i] \in Int
      BY FS_Interval
    <2> QED BY <2>1, SumIsInt
  <1>2. 0 \in C
    <2>1. a + 1 .. a + 0 = {} /\ b + 0 = b
      OBVIOUS
    <2>2. SumOver(F, a + 1 .. a + 0) = 0
      BY <2>1, SumOfNone
    <2>3. SumOver(G, 1 .. b + 0) = SumOver(G, 1 .. b)
      BY <2>1
    <2> QED BY <1>1, <2>2, <2>3
  <1>3. ASSUME NEW k \in C PROVE k + 1 \in C
    <2> SUFFICES ASSUME k + 1 <= n
                 PROVE  SumOver(G, 1 .. b + (k + 1)) =
                          SumOver(G, 1 .. b) + SumOver(F, a + 1 .. a + (k + 1))
      OBVIOUS
    <2>1. SumOver(G, 1 .. b + k) = SumOver(G, 1 .. b) + SumOver(F, a + 1 .. a + k)
      BY <1>3
    <2>2. /\ SumOver(G, 1 .. b + k) \in Int
          /\ SumOver(G, 1 .. (b + k) + 1) = SumOver(G, 1 .. b + k) + G[(b + k) + 1]
      <3>1. \A i \in 1 .. (b + k) + 1 : G[i] \in Int
        OBVIOUS
      <3> QED BY <3>1, SumUpTo
    <2>3. \A i \in a + 1 .. (a + k) + 1 : F[i] \in Int
      <3>1. ASSUME NEW i \in a + 1 .. (a + k) + 1 PROVE F[i] \in Int
        <4>1. i - a \in 1 .. n /\ a + (i - a) = i /\ b + (i - a) \in 1 .. b + n
          BY <3>1
        <4>2. F[a + (i - a)] = G[b + (i - a)]
          BY <4>1
        <4> QED BY <4>1, <4>2
      <3> QED BY <3>1
    <2>4. /\ SumOver(F, a + 1 .. a + k) \in Int
          /\ SumOver(F, a + 1 .. (a + k) + 1) = SumOver(F, a + 1 .. a + k) + F[(a + k) + 1]
      BY <2>3, SumUpTo
    <2>5. F[(a + k) + 1] = G[(b + k) + 1] /\ G[(b + k) + 1] \in Int
      <3>1. k + 1 \in 1 .. n /\ b + (k + 1) \in 1 .. b + n
        OBVIOUS
      <3>2. F[a + (k + 1)] = G[b + (k + 1)] /\ G[b + (k + 1)] \in Int
        BY <3>1
      <3>3. a + (k + 1) = (a + k) + 1 /\ b + (k + 1) = (b + k) + 1
        OBVIOUS
      <3> QED BY <3>2, <3>3
    <2>6. a + (k + 1) = (a + k) + 1 /\ b + (k + 1) = (b + k) + 1
      OBVIOUS
    <2>7. SumOver(G, 1 .. (b + k) + 1) = SumOver(G, 1 .. b) + SumOver(F, a + 1 .. (a + k) + 1)
      BY <1>1, <2>1, <2>2, <2>4, <2>5
    <2> QED BY <2>6, <2>7
  <1>4. C = Nat
    <2> HIDE DEF C
    <2>1. C \in SUBSET Nat
      BY DEF C
    <2> QED BY <1>2, <1>3, <2>1, InductiveSet
  <1>5. n \in C
    BY <1>4
  <1> QED BY <1>5

\* A sum of n terms lies between n times their bounds.
LEMMA SumBounds ==
  ASSUME NEW n \in Nat, NEW lo \in Int, NEW hi \in Int, NEW F,
         \A i \in 1 .. n : F[i] \in lo .. hi
  PROVE  SumOver(F, 1 .. n) \in n * lo .. n * hi
  <1> DEFINE C == {k \in Nat : k <= n => SumOver(F, 1 .. k) \in k * lo .. k * hi}
  <1>1. 0 \in C
    <2>1. 1 .. 0 = {}
      OBVIOUS
    <2>2. SumOver(F, 1 .. 0) = 0
      BY <2>1, SumOfNone
    <2> QED BY <2>2
  <1>2. ASSUME NEW k \in C PROVE k + 1 \in C
    <2> DEFINE Bounded(j) == SumOver(F, 1 .. j) \in j * lo .. j * hi
    <2> SUFFICES ASSUME k + 1 <= n PROVE Bounded(k + 1)
      <3> HIDE DEF Bounded
      <3>1. k + 1 \in Nat /\ C = {j \in Nat : j <= n => Bounded(j)}
        BY DEF Bounded
      <3> QED BY <3>1
    <2>1. SumOver(F, 1 .. k) \in k * lo .. k * hi
      BY <1>2
    <2>2. SumOver(F, 1 .. k + 1) = SumOver(F, 1 .. k) + F[k + 1]
      <3>1. \A i \in 1 .. k + 1 : F[i] \in Int
        OBVIOUS
      <3> QED BY <3>1, SumUpTo
    <2>3. F[k + 1] \in lo .. hi
      OBVIOUS
    <2>4. (k + 1) * lo = k * lo + lo /\ (k + 1) * hi = k * hi + hi
      OBVIOUS
    <2>5. k * lo \in Int /\ k * hi \in Int
      OBVIOUS
    <2> QED BY <2>1, <2>2, <2>3, <2>4, <2>5
  <1>3. C = Nat
    <2> HIDE DEF C
    <2>1. C \in SUBSET Nat
      BY DEF C
    <2> QED BY <1>1, <1>2, <2>1, InductiveSet
  <1>4. n \in C
    BY <1>3
  <1> QED BY <1>4
=============================================================================
