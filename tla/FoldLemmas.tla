------------------------------ MODULE FoldLemmas ------------------------------
(***************************************************************************)
(* What a fold of the community modules computes, for any finite set: that  *)
(* the recursive function behind it exists, and what holds of it by         *)
(* induction over the subsets; and iterations, which stop when they have been *)
(* everywhere.  Induction is over a set, not over a predicate.              *)
(***************************************************************************)
EXTENDS Integers, FiniteSets, FiniteSetTheorems, NaturalsInduction, WellFoundedInduction, TLAPS

-------------------------------------------------------------------------------
(* Induction. *)

\* A set with 0 and the successor of each of its members has every natural number.
LEMMA NatSetInduction ==
  ASSUME NEW S, 0 \in S, \A n \in Nat : n \in S => n + 1 \in S
  PROVE  Nat \subseteq S
<1> DEFINE T == Nat \ S
<1>1. SUFFICES ASSUME T # {} PROVE FALSE
  OBVIOUS
<1>2. IsWellFoundedOn(OpToRel(<, Nat), Nat)
  BY NatLessThanWellFounded
<1>3. T \subseteq Nat
  OBVIOUS
<1> HIDE DEF T
<1>4. PICK x \in T : \A y \in T : ~(<<y, x>> \in OpToRel(<, Nat))
  BY <1>1, <1>2, <1>3, WFMin
<1>5. x \in Nat /\ x \notin S /\ x # 0
  BY <1>4 DEF T
<1>6. x - 1 \in Nat /\ x - 1 < x /\ (x - 1) + 1 = x
  BY <1>5
<1>7. x - 1 \notin T
  BY <1>4, <1>5, <1>6 DEF OpToRel
<1> QED BY <1>5, <1>6, <1>7 DEF T

\* A set of subsets of T that has {} and, with s less one of its elements, s, has them all.
LEMMA SubsetInduction ==
  ASSUME NEW T, IsFiniteSet(T), NEW R, {} \in R,
         \A s \in SUBSET T : s # {} => \E c \in s : s \ {c} \in R => s \in R
  PROVE  SUBSET T \subseteq R
<1> DEFINE Good == {n \in Nat : \A s \in SUBSET T : Cardinality(s) <= n => s \in R}
<1>0. \A s \in SUBSET T : IsFiniteSet(s) /\ Cardinality(s) \in Nat
        /\ (Cardinality(s) = 0 => s = {})
        /\ \A x \in s : Cardinality(s \ {x}) = Cardinality(s) - 1
  BY FS_Subset, FS_CardinalityType, FS_EmptySet, FS_RemoveElement
<1>1. 0 \in Good
  <2>1. \A s \in SUBSET T : Cardinality(s) <= 0 => s = {}
    BY <1>0
  <2> QED BY <2>1
<1>2. ASSUME NEW n \in Nat, n \in Good PROVE n + 1 \in Good
  <2>1. ASSUME NEW s \in SUBSET T, Cardinality(s) <= n + 1 PROVE s \in R
    <3>1. CASE s = {}
      BY <3>1
    <3>2. CASE s # {}
      <4>1. PICK c \in s : s \ {c} \in R => s \in R
        BY <3>2
      <4>2. Cardinality(s \ {c}) <= n /\ s \ {c} \in SUBSET T
        BY <1>0, <2>1
      <4> QED BY <4>1, <4>2, <1>2
    <3> QED BY <3>1, <3>2
  <2> QED BY <2>1
<1>3. Nat \subseteq Good
  BY <1>1, <1>2, NatSetInduction
<1> QED BY <1>3, <1>0

\* A bounded set of numbers has a greatest.
LEMMA GreatestExists ==
  ASSUME NEW S \in SUBSET Nat, S # {}, NEW m \in Nat, \A y \in S : y <= m
  PROVE  \E x \in S : \A y \in S : x >= y
<1> DEFINE T == {n \in Nat : \A y \in S : y <= n}
<1>1. IsWellFoundedOn(OpToRel(<, Nat), Nat)
  BY NatLessThanWellFounded
<1>2. T \subseteq Nat /\ T # {}
  OBVIOUS
<1> HIDE DEF T
<1>3. PICK x \in T : \A y \in T : ~(<<y, x>> \in OpToRel(<, Nat))
  BY <1>1, <1>2, WFMin
<1>4. x \in Nat /\ \A y \in S : y <= x
  BY <1>3 DEF T
<1>5. x \in S
  <2> SUFFICES ASSUME x \notin S PROVE FALSE
    OBVIOUS
  <2>1. \A y \in S : y \in Nat /\ y < x
    BY <1>4
  <2>2. x > 0
    <3>1. PICK y \in S : TRUE
      OBVIOUS
    <3> QED BY <3>1, <2>1, <1>4
  <2>3. x - 1 \in Nat /\ x - 1 < x /\ \A y \in S : y <= x - 1
    BY <2>1, <2>2, <1>4
  <2>4. x - 1 \in T
    BY <2>3 DEF T
  <2> QED BY <1>3, <1>4, <2>3, <2>4 DEF OpToRel
<1> QED BY <1>4, <1>5

-------------------------------------------------------------------------------
(* Folds. *)

\* g is a fold over the subsets of T: of an element the set gives up and the fold of the rest.
FoldsBy(g, T, V, base, ch, op) ==
  /\ g \in [SUBSET T -> V]
  /\ \A s \in SUBSET T : g[s] = IF s = {} THEN base ELSE op[<<ch[s], g[s \ {ch[s]}]>>]

LEMMA FoldExists ==
  ASSUME NEW T, IsFiniteSet(T), NEW V, NEW base \in V, NEW ch, NEW op \in [T \X V -> V],
         \A s \in SUBSET T : s # {} => ch[s] \in s
  PROVE  \E g : FoldsBy(g, T, V, base, ch, op)
<1> DEFINE Right(g, s) == g[s] = IF s = {} THEN base ELSE op[<<ch[s], g[s \ {ch[s]}]>>]
           Good == {n \in Nat : \E g \in [SUBSET T -> V] :
                      \A s \in SUBSET T : Cardinality(s) <= n => Right(g, s)}
<1>0. \A s \in SUBSET T : IsFiniteSet(s) /\ Cardinality(s) \in Nat
        /\ (Cardinality(s) = 0 => s = {})
        /\ \A x \in s : Cardinality(s \ {x}) = Cardinality(s) - 1
  BY FS_Subset, FS_CardinalityType, FS_EmptySet, FS_RemoveElement
<1>1. 0 \in Good
  <2> DEFINE g == [s \in SUBSET T |-> base]
  <2>1. g \in [SUBSET T -> V]
    OBVIOUS
  <2>2. \A s \in SUBSET T : Cardinality(s) <= 0 => Right(g, s)
    BY <1>0
  <2> QED BY <2>1, <2>2
<1>2. ASSUME NEW n \in Nat, n \in Good PROVE n + 1 \in Good
  <2>1. PICK g \in [SUBSET T -> V] : \A s \in SUBSET T : Cardinality(s) <= n => Right(g, s)
    BY <1>2
  <2> DEFINE h == [s \in SUBSET T |-> IF s = {} THEN base ELSE op[<<ch[s], g[s \ {ch[s]}]>>]]
  <2>2. h \in [SUBSET T -> V]
    <3>1. ASSUME NEW s \in SUBSET T, s # {} PROVE op[<<ch[s], g[s \ {ch[s]}]>>] \in V
      <4>1. ch[s] \in T /\ g[s \ {ch[s]}] \in V
        BY <3>1
      <4>2. <<ch[s], g[s \ {ch[s]}]>> \in T \X V
        BY <4>1
      <4> QED BY <4>2
    <3> QED BY <3>1
  <2>3. ASSUME NEW s \in SUBSET T, Cardinality(s) <= n + 1 PROVE Right(h, s)
    <3>1. CASE s = {}
      BY <3>1
    <3>2. CASE s # {}
      <4>1. ch[s] \in s /\ s \ {ch[s]} \in SUBSET T
        BY <3>2
      <4>2. Cardinality(s \ {ch[s]}) <= n
        BY <4>1, <1>0, <2>3
      <4>3. g[s \ {ch[s]}] = h[s \ {ch[s]}]
        BY <4>1, <4>2, <2>1
      <4> QED BY <3>2, <4>3
    <3> QED BY <3>1, <3>2
  <2> HIDE DEF h
  <2>4. h \in [SUBSET T -> V] /\ \A s \in SUBSET T : Cardinality(s) <= n + 1 => Right(h, s)
    BY <2>2, <2>3
  <2> QED BY <2>4
<1>3. Cardinality(T) \in Good
  <2>1. Nat \subseteq Good
    BY <1>1, <1>2, NatSetInduction
  <2> QED BY <2>1, <1>0
<1>4. PICK g \in [SUBSET T -> V] : \A s \in SUBSET T : Cardinality(s) <= Cardinality(T) => Right(g, s)
  BY <1>3
<1>5. \A s \in SUBSET T : Cardinality(s) <= Cardinality(T)
  BY FS_Subset
<1> QED BY <1>4, <1>5 DEF FoldsBy

-------------------------------------------------------------------------------
(* Sums. *)

Total(f, S) ==
  LET iter[s \in SUBSET S] ==
        IF s = {} THEN 0 ELSE f[CHOOSE x \in s : TRUE] + iter[s \ {CHOOSE x \in s : TRUE}]
  IN  iter[S]

\* The sum over the parts of T, as one function.
Sums(g, T, f) ==
  /\ g \in [SUBSET T -> Int]
  /\ g[{}] = 0
  /\ \A s \in SUBSET T : \A x \in s : g[s] = f[x] + g[s \ {x}]
  /\ \A s \in SUBSET T : g[s] = Total(f, s)

LEMMA SumsExist ==
  ASSUME NEW T, IsFiniteSet(T), NEW f, \A x \in T : f[x] \in Int
  PROVE  \E g : Sums(g, T, f)
<1> DEFINE ch == [s \in SUBSET T |-> CHOOSE x \in s : TRUE]
           op == [p \in T \X Int |-> f[p[1]] + p[2]]
<1>1. op \in [T \X Int -> Int]
  OBVIOUS
<1>2. \A s \in SUBSET T : s # {} => ch[s] \in s
  OBVIOUS
<1>3. PICK g : FoldsBy(g, T, Int, 0, ch, op)
  <2> HIDE DEF ch, op
  <2> QED BY <1>1, <1>2, FoldExists
<1>4. g \in [SUBSET T -> Int]
  BY <1>3 DEF FoldsBy
<1>5. ASSUME NEW s \in SUBSET T
      PROVE  g[s] = IF s = {} THEN 0 ELSE f[CHOOSE x \in s : TRUE] + g[s \ {CHOOSE x \in s : TRUE}]
  <2>1. CASE s = {}
    BY <1>3, <2>1 DEF FoldsBy
  <2>2. CASE s # {}
    <3> DEFINE c == CHOOSE x \in s : TRUE
    <3>1. c \in s /\ ch[s] = c
      BY <2>2
    <3> HIDE DEF c
    <3>2. g[s \ {c}] \in Int
      BY <1>4
    <3>3. g[s] = op[<<c, g[s \ {c}]>>]
      <4> HIDE DEF ch, op
      <4> QED BY <1>3, <2>2, <3>1 DEF FoldsBy
    <3>4. <<c, g[s \ {c}]>> \in T \X Int
      BY <3>1, <3>2
    <3>5. g[s] = f[c] + g[s \ {c}]
      BY <3>3, <3>4
    <3> QED BY <3>5, <2>2 DEF c
  <2> QED BY <2>1, <2>2
<1>6. ASSUME NEW S \in SUBSET T PROVE g[S] = Total(f, S)
  <2> DEFINE R(h) == [s \in SUBSET S |-> IF s = {} THEN 0 ELSE f[CHOOSE x \in s : TRUE] + h[s \ {CHOOSE x \in s : TRUE}]]
             i == CHOOSE h : h = R(h)
             k == [s \in SUBSET S |-> g[s]]
  <2>1. k = R(k)
    BY <1>5
  <2>2. i = R(i)
    <3> HIDE DEF R, k
    <3> QED BY <2>1
  <2>3. Total(f, S) = i[S]
    BY DEF Total
  <2>4. ASSUME NEW s \in SUBSET S
        PROVE i[s] = IF s = {} THEN 0 ELSE f[CHOOSE x \in s : TRUE] + i[s \ {CHOOSE x \in s : TRUE}]
    <3> HIDE DEF i
    <3> QED BY <2>2
  <2> HIDE DEF i
  <2> DEFINE Good == {n \in Nat : \A s \in SUBSET S : Cardinality(s) <= n => i[s] = g[s]}
  <2>0. \A s \in SUBSET S : IsFiniteSet(s) /\ Cardinality(s) \in Nat
          /\ (Cardinality(s) = 0 => s = {})
          /\ \A x \in s : Cardinality(s \ {x}) = Cardinality(s) - 1
    BY FS_Subset, FS_CardinalityType, FS_EmptySet, FS_RemoveElement
  <2>5. 0 \in Good
    BY <2>0, <2>4, <1>5
  <2>6. ASSUME NEW n \in Nat, n \in Good PROVE n + 1 \in Good
    <3>1. ASSUME NEW s \in SUBSET S, Cardinality(s) <= n + 1 PROVE i[s] = g[s]
      <4>1. CASE s = {}
        BY <4>1, <2>4, <1>5
      <4>2. CASE s # {}
        <5> DEFINE c == CHOOSE x \in s : TRUE
        <5>1. c \in s
          BY <4>2
        <5>2. i[s] = f[c] + i[s \ {c}] /\ g[s] = f[c] + g[s \ {c}]
          BY <4>2, <2>4, <1>5
        <5> HIDE DEF c
        <5>3. Cardinality(s \ {c}) <= n /\ s \ {c} \in SUBSET S
          BY <5>1, <2>0, <3>1
        <5>4. i[s \ {c}] = g[s \ {c}]
          BY <5>3, <2>6
        <5> QED BY <5>2, <5>4
      <4> QED BY <4>1, <4>2
    <3> QED BY <3>1
  <2>7. Nat \subseteq Good
    BY <2>5, <2>6, NatSetInduction
  <2> QED BY <2>7, <2>0, <2>3
<1> HIDE DEF ch, op
<1> DEFINE Good == {n \in Nat : \A s \in SUBSET T : Cardinality(s) <= n => \A x \in s : g[s] = f[x] + g[s \ {x}]}
<1>0. \A s \in SUBSET T : IsFiniteSet(s) /\ Cardinality(s) \in Nat
        /\ (Cardinality(s) = 0 => s = {})
        /\ \A x \in s : Cardinality(s \ {x}) = Cardinality(s) - 1
  BY FS_Subset, FS_CardinalityType, FS_EmptySet, FS_RemoveElement
<1>7. 0 \in Good
  BY <1>0
<1>8. ASSUME NEW n \in Nat, n \in Good PROVE n + 1 \in Good
  <2>1. ASSUME NEW s \in SUBSET T, Cardinality(s) <= n + 1, NEW x \in s PROVE g[s] = f[x] + g[s \ {x}]
    <3> DEFINE c == CHOOSE y \in s : TRUE
    <3>1. c \in s
      OBVIOUS
    <3>2. g[s] = f[c] + g[s \ {c}]
      BY <1>5
    <3> HIDE DEF c
    <3>3. CASE x = c
      BY <3>2, <3>3
    <3>4. CASE x # c
      <4>1. Cardinality(s \ {c}) <= n /\ Cardinality(s \ {x}) <= n /\ x \in s \ {c} /\ c \in s \ {x}
        BY <3>1, <3>4, <1>0, <2>1
      <4>2. g[s \ {c}] = f[x] + g[(s \ {c}) \ {x}] /\ g[s \ {x}] = f[c] + g[(s \ {x}) \ {c}]
        BY <4>1, <1>8
      <4>3. (s \ {c}) \ {x} = (s \ {x}) \ {c}
        OBVIOUS
      <4> DEFINE z == g[(s \ {x}) \ {c}]
      <4>4. z \in Int /\ f[x] \in Int /\ f[c] \in Int
        BY <1>4, <3>1
      <4>5. g[s \ {c}] = f[x] + z /\ g[s \ {x}] = f[c] + z
        BY <4>2, <4>3
      <4> HIDE DEF z, Good
      <4> QED BY <3>2, <4>4, <4>5
    <3> QED BY <3>3, <3>4
  <2> QED BY <2>1
<1>9. Nat \subseteq Good
  BY <1>7, <1>8, NatSetInduction
<1>10. \A s \in SUBSET T : \A x \in s : g[s] = f[x] + g[s \ {x}]
  <2> SUFFICES ASSUME NEW s \in SUBSET T, NEW x \in s PROVE g[s] = f[x] + g[s \ {x}]
    OBVIOUS
  <2>1. Cardinality(s) \in Good /\ Cardinality(s) <= Cardinality(s)
    BY <1>9, <1>0
  <2> QED BY <2>1
<1>11. g[{}] = 0
  BY <1>5
<1> QED BY <1>4, <1>6, <1>10, <1>11 DEF Sums

\* Sums are added number by number.
AddsUp(S, f, e, h) ==
  IsFiniteSet(S) /\ \A x \in S : f[x] \in Int /\ e[x] \in Int /\ h[x] = f[x] + e[x]

LEMMA TotalOfSums ==
  ASSUME NEW S, NEW f, NEW e, NEW h, AddsUp(S, f, e, h)
  PROVE  Total(h, S) = Total(f, S) + Total(e, S) /\ Total(f, S) \in Int /\ Total(e, S) \in Int
<1> USE DEF AddsUp
<1>1. PICK F : Sums(F, S, f)
  BY SumsExist
<1>2. PICK E : Sums(E, S, e)
  BY SumsExist
<1>3. PICK H : Sums(H, S, h)
  BY SumsExist
<1> DEFINE Good == {n \in Nat : \A s \in SUBSET S : Cardinality(s) <= n => H[s] = F[s] + E[s]}
<1>0. \A s \in SUBSET S : IsFiniteSet(s) /\ Cardinality(s) \in Nat
        /\ (Cardinality(s) = 0 => s = {})
        /\ \A x \in s : Cardinality(s \ {x}) = Cardinality(s) - 1
  BY FS_Subset, FS_CardinalityType, FS_EmptySet, FS_RemoveElement
<1>4. 0 \in Good
  <2>1. H[{}] = F[{}] + E[{}]
    BY <1>1, <1>2, <1>3 DEF Sums
  <2>2. \A s \in SUBSET S : Cardinality(s) <= 0 => s = {}
    BY <1>0
  <2> QED BY <2>1, <2>2
<1>5. ASSUME NEW n \in Nat, n \in Good PROVE n + 1 \in Good
  <2>1. ASSUME NEW s \in SUBSET S, Cardinality(s) <= n + 1 PROVE H[s] = F[s] + E[s]
    <3>1. CASE s = {}
      BY <3>1, <1>1, <1>2, <1>3 DEF Sums
    <3>2. CASE s # {}
      <4>1. PICK x \in s : TRUE
        BY <3>2
      <4> DEFINE r == s \ {x}
      <4>2. Cardinality(r) <= n /\ r \in SUBSET S
        BY <2>1, <1>0
      <4>3. H[s] = h[x] + H[r] /\ F[s] = f[x] + F[r] /\ E[s] = e[x] + E[r]
        BY <1>1, <1>2, <1>3 DEF Sums
      <4> HIDE DEF r
      <4>4. H[r] = F[r] + E[r]
        BY <4>2, <1>5
      <4>5. F[r] \in Int /\ E[r] \in Int /\ h[x] = f[x] + e[x] /\ f[x] \in Int /\ e[x] \in Int
        BY <4>2, <1>1, <1>2 DEF Sums
      <4> HIDE DEF Good
      <4> QED BY <4>3, <4>4, <4>5
    <3> QED BY <3>1, <3>2
  <2> QED BY <2>1
<1>6. Nat \subseteq Good
  BY <1>4, <1>5, NatSetInduction
<1>7. Cardinality(S) \in Good /\ Cardinality(S) <= Cardinality(S) /\ S \in SUBSET S
  BY <1>6, <1>0
<1>8. H[S] = F[S] + E[S]
  BY <1>7
<1> QED BY <1>1, <1>2, <1>3, <1>7, <1>8 DEF Sums

\* Elements that count nothing do not change a sum.
LEMMA TotalIgnoresZeros ==
  ASSUME NEW S, IsFiniteSet(S), NEW f, \A x \in S : f[x] \in Int,
         NEW R \in SUBSET S, \A x \in S \ R : f[x] = 0
  PROVE  Total(f, S) = Total(f, R)
<1>1. PICK F : Sums(F, S, f)
  BY SumsExist
<1> DEFINE Good == {n \in Nat : \A s \in SUBSET (S \ R) : Cardinality(s) <= n => F[R \cup s] = F[R]}
<1>0. \A s \in SUBSET (S \ R) : IsFiniteSet(s) /\ Cardinality(s) \in Nat
        /\ (Cardinality(s) = 0 => s = {})
        /\ \A x \in s : Cardinality(s \ {x}) = Cardinality(s) - 1
  BY FS_Subset, FS_CardinalityType, FS_EmptySet, FS_RemoveElement
<1>4. 0 \in Good
  <2>1. \A s \in SUBSET (S \ R) : Cardinality(s) <= 0 => R \cup s = R
    BY <1>0
  <2>2. \A s \in SUBSET (S \ R) : Cardinality(s) <= 0 => F[R \cup s] = F[R]
    BY <2>1
  <2> QED BY <2>2
<1>5. ASSUME NEW n \in Nat, n \in Good PROVE n + 1 \in Good
  <2>1. ASSUME NEW s \in SUBSET (S \ R), Cardinality(s) <= n + 1 PROVE F[R \cup s] = F[R]
    <3>1. CASE s = {}
      <4>1. R \cup s = R
        BY <3>1
      <4> QED BY <4>1
    <3>2. CASE s # {}
      <4>1. PICK x \in s : TRUE
        BY <3>2
      <4> DEFINE r == s \ {x}
      <4>2. Cardinality(r) <= n /\ r \in SUBSET (S \ R)
        BY <2>1, <1>0
      <4>3. (R \cup s) \ {x} = R \cup r /\ R \cup s \in SUBSET S /\ R \cup r \in SUBSET S /\ x \in S \ R
        BY <4>1
      <4>4. F[R \cup s] = f[x] + F[R \cup r] /\ f[x] = 0 /\ F[R \cup r] \in Int
        BY <1>1, <4>3 DEF Sums
      <4> HIDE DEF r
      <4>5. F[R \cup r] = F[R]
        BY <4>2, <1>5
      <4> HIDE DEF Good
      <4> QED BY <4>4, <4>5
    <3> QED BY <3>1, <3>2
  <2>2. n + 1 \in Nat
    OBVIOUS
  <2>3. \A s \in SUBSET (S \ R) : Cardinality(s) <= n + 1 => F[R \cup s] = F[R]
    <3> HIDE DEF Good
    <3> QED BY ONLY <2>1, Zenon
  <2> QED BY <2>2, <2>3
<1>6. Nat \subseteq Good
  BY <1>4, <1>5, NatSetInduction
<1> DEFINE t == S \ R
<1>7. Cardinality(t) \in Good /\ Cardinality(t) <= Cardinality(t) /\ t \in SUBSET (S \ R)
  BY <1>6, <1>0
<1>8. F[R \cup t] = F[R]
  <2> HIDE DEF t
  <2> QED BY <1>7
<1>9. R \cup t = S
  OBVIOUS
<1> HIDE DEF t
<1> QED BY <1>1, <1>8, <1>9 DEF Sums

\* A sum is that of the numbers it sums.
LEMMA TotalIsOfValues ==
  ASSUME NEW S, IsFiniteSet(S), NEW f, NEW h, \A x \in S : f[x] \in Int /\ h[x] = f[x]
  PROVE  Total(h, S) = Total(f, S)
<1> DEFINE z == [x \in S |-> 0]
<1>1. \A x \in S : f[x] \in Int /\ z[x] \in Int /\ h[x] = f[x] + z[x]
  OBVIOUS
<1>2. \A x \in S \ {} : z[x] = 0
  OBVIOUS
<1>3. Total(z, {}) = 0
  <2>1. PICK Z : Sums(Z, S, z)
    BY SumsExist
  <2> QED BY <2>1 DEF Sums
<1>4. Total(z, S) = Total(z, {})
  <2>1. \A x \in S : z[x] \in Int
    OBVIOUS
  <2> HIDE DEF z
  <2> QED BY <1>2, <2>1, TotalIgnoresZeros
<1>5. Total(h, S) = Total(f, S) + Total(z, S) /\ Total(f, S) \in Int
  <2> HIDE DEF z
  <2>1. AddsUp(S, f, z, h)
    BY <1>1 DEF AddsUp
  <2> QED BY <2>1, TotalOfSums
<1> HIDE DEF z
<1> QED BY <1>3, <1>4, <1>5

\* The numbers of J grow by one each, those outside I were nothing before.
LEMMA TotalGrows ==
  ASSUME NEW I, IsFiniteSet(I), NEW J, IsFiniteSet(J), NEW f, NEW h, NEW ones,
         \A x \in I \cup J : f[x] \in Int /\ h[x] = f[x] + (IF x \in J THEN 1 ELSE 0),
         \A x \in J \ I : f[x] = 0, \A x \in J : ones[x] = 1
  PROVE  Total(h, I \cup J) = Total(f, I) + Total(ones, J) /\ Total(f, I) \in Int
<1> DEFINE e == [x \in I \cup J |-> IF x \in J THEN 1 ELSE 0]
           U == I \cup J
<1>1. IsFiniteSet(U)
  BY FS_Union
<1>2. \A x \in U : f[x] \in Int /\ e[x] \in Int /\ h[x] = f[x] + e[x]
  OBVIOUS
<1>3. I \in SUBSET U /\ J \in SUBSET U /\ \A x \in U \ J : e[x] = 0
  OBVIOUS
<1>4. \A x \in U \ I : f[x] = 0
  OBVIOUS
<1>5. \A x \in J : ones[x] \in Int /\ e[x] = ones[x]
  OBVIOUS
<1> HIDE DEF e, U
<1>6. Total(h, U) = Total(f, U) + Total(e, U) /\ Total(f, U) \in Int
  <2>1. AddsUp(U, f, e, h)
    BY <1>1, <1>2 DEF AddsUp
  <2> QED BY <2>1, TotalOfSums
<1>7. Total(f, U) = Total(f, I)
  BY <1>1, <1>2, <1>3, <1>4, TotalIgnoresZeros
<1>8. Total(e, U) = Total(e, J)
  BY <1>1, <1>2, <1>3, TotalIgnoresZeros
<1>9. Total(e, J) = Total(ones, J)
  BY <1>5, TotalIsOfValues
<1> QED BY <1>6, <1>7, <1>8, <1>9 DEF U

-------------------------------------------------------------------------------
(* Iteration. *)

\* g counts from base to n with the steps op.
Iterates(g, n, V, base, op) ==
  /\ g \in [0..n -> V] /\ g[0] = base
  /\ \A k \in 1..n : g[k] = op[<<k, g[k - 1]>>]

LEMMA IterationExists ==
  ASSUME NEW V, NEW base \in V, NEW op \in [Nat \X V -> V], NEW n \in Nat
  PROVE  \E g : Iterates(g, n, V, base, op)
<1> DEFINE Good == {m \in Nat : \E g : Iterates(g, m, V, base, op)}
<1>1. 0 \in Good
  <2> DEFINE g == [k \in 0..0 |-> base]
  <2>1. g \in [0..0 -> V] /\ g[0] = base /\ \A k \in 1..0 : FALSE
    OBVIOUS
  <2>2. Iterates(g, 0, V, base, op)
    BY <2>1 DEF Iterates
  <2> QED BY <2>2
<1>2. ASSUME NEW m \in Nat, m \in Good PROVE m + 1 \in Good
  <2>1. PICK g : Iterates(g, m, V, base, op)
    BY <1>2
  <2> DEFINE last == op[<<m + 1, g[m]>>]
             h == [k \in 0..(m + 1) |-> IF k = m + 1 THEN last ELSE g[k]]
  <2>2. g[m] \in V /\ <<m + 1, g[m]>> \in Nat \X V
    BY <2>1 DEF Iterates
  <2>3. last \in V
    BY <2>2
  <2> HIDE DEF last
  <2>4. h \in [0..(m + 1) -> V] /\ h[0] = base
    BY <2>1, <2>3 DEF Iterates
  <2>5. ASSUME NEW k \in 1..(m + 1) PROVE h[k] = op[<<k, h[k - 1]>>]
    <3>1. CASE k = m + 1
      <4>1. h[k] = last /\ h[k - 1] = g[m]
        BY <3>1
      <4> QED BY <3>1, <4>1 DEF last
    <3>2. CASE k \in 1..m
      <4>1. h[k] = g[k] /\ h[k - 1] = g[k - 1]
        BY <3>2
      <4> QED BY <2>1, <3>2, <4>1 DEF Iterates
    <3> QED BY <3>1, <3>2
  <2> HIDE DEF h
  <2>6. Iterates(h, m + 1, V, base, op)
    BY <2>4, <2>5 DEF Iterates
  <2>7. m + 1 \in Nat
    OBVIOUS
  <2> QED BY <2>6, <2>7
<1>3. Nat \subseteq Good
  <2> HIDE DEF Good
  <2> QED BY <1>1, <1>2, NatSetInduction
<1>4. n \in Good
  BY <1>3
<1> QED BY <1>4

\* Subsets of T that grow until they are in C are in it after as many steps as T has elements.
Growing(W, T, C) ==
  /\ W \in [0..Cardinality(T) -> SUBSET T] /\ T \in C
  /\ \A k \in 0..(Cardinality(T) - 1) :
       /\ W[k] \subseteq W[k + 1]
       /\ IF W[k] \in C THEN W[k + 1] \in C ELSE W[k + 1] # W[k]

LEMMA GrowingArrives ==
  ASSUME NEW T, IsFiniteSet(T), NEW C, NEW W, Growing(W, T, C)
  PROVE  W[Cardinality(T)] \in C
<1> DEFINE n == Cardinality(T)
           Good == {m \in Nat : m <= n => W[m] \in C \/ Cardinality(W[m]) >= m}
<1>1. n \in Nat
  BY FS_CardinalityType
<1>2. \A s \in SUBSET T : IsFiniteSet(s) /\ Cardinality(s) \in Nat /\ Cardinality(s) <= n
                          /\ (Cardinality(s) = n => s = T)
  BY FS_Subset, FS_CardinalityType
<1>3. W \in [0..n -> SUBSET T] /\ T \in C
      /\ \A k \in 0..(n - 1) : /\ W[k] \subseteq W[k + 1]
                               /\ IF W[k] \in C THEN W[k + 1] \in C ELSE W[k + 1] # W[k]
  BY DEF Growing
<1>4. \A s, r : s \in SUBSET T /\ r \subseteq s /\ r # s => Cardinality(s) >= Cardinality(r) + 1
  <2> SUFFICES ASSUME NEW s \in SUBSET T, NEW r \in SUBSET s, r # s
               PROVE  Cardinality(s) >= Cardinality(r) + 1
    OBVIOUS
  <2>1. IsFiniteSet(s) /\ Cardinality(s) \in Nat /\ Cardinality(r) \in Nat
    BY <1>2
  <2>2. Cardinality(r) <= Cardinality(s) /\ (Cardinality(r) = Cardinality(s) => r = s)
    BY <2>1, FS_Subset
  <2> QED BY <2>1, <2>2
<1> HIDE DEF n
<1>5. 0 \in Good
  <2>1. W[0] \in SUBSET T
    BY <1>1, <1>3
  <2> QED BY <1>2, <2>1
<1>6. ASSUME NEW m \in Nat, m \in Good PROVE m + 1 \in Good
  <2> SUFFICES ASSUME m + 1 <= n PROVE W[m + 1] \in C \/ Cardinality(W[m + 1]) >= m + 1
    OBVIOUS
  <2>1. m \in 0..(n - 1) /\ m \in 0..n /\ m + 1 \in 0..n
    BY <1>1
  <2>2. W[m] \in SUBSET T /\ W[m + 1] \in SUBSET T /\ W[m] \subseteq W[m + 1]
    BY <1>3, <2>1
  <2>3. CASE W[m] \in C
    BY <1>3, <2>1, <2>3
  <2>4. CASE W[m] \notin C
    <3>1. Cardinality(W[m]) >= m /\ W[m + 1] # W[m]
      BY <1>3, <1>6, <2>1, <2>4
    <3>2. Cardinality(W[m + 1]) >= Cardinality(W[m]) + 1
      BY <1>4, <2>2, <3>1
    <3>3. Cardinality(W[m]) \in Nat /\ Cardinality(W[m + 1]) \in Nat
      BY <1>2, <2>2
    <3> QED BY <3>1, <3>2, <3>3
  <2> QED BY <2>3, <2>4
<1>7. Nat \subseteq Good
  <2> HIDE DEF Good
  <2> QED BY <1>5, <1>6, NatSetInduction
<1>8. n \in Good
  BY <1>1, <1>7
<1>9. W[n] \in SUBSET T /\ Cardinality(W[n]) \in Nat
  BY <1>1, <1>2, <1>3
<1>10. CASE Cardinality(W[n]) >= n
  <2>1. Cardinality(W[n]) = n
    BY <1>1, <1>2, <1>9, <1>10
  <2> QED BY <1>2, <1>3, <1>9, <2>1 DEF n
<1> QED BY <1>1, <1>8, <1>10 DEF n
===============================================================================
