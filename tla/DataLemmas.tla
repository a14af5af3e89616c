----------------------------- MODULE DataLemmas -----------------------------
(***************************************************************************)
(* Facts about data that the proofs of the components share.               *)
(***************************************************************************)
EXTENDS Sums, SequencesExt, SequenceTheorems, FiniteSetTheorems, FunctionTheorems, TLAPS

\* A set of natural numbers that is not empty has a least element.
LEMMA LeastNatural ==
  ASSUME NEW T \in SUBSET Nat, T # {}
  PROVE  \E x \in T : \A y \in T : x <= y
<1>1. PICK x \in T : \A y \in T : ~ (<<y, x>> \in OpToRel(<, Nat))
  BY NatLessThanWellFounded, WFMin
<1>2. ASSUME NEW y \in T, y < x
      PROVE  FALSE
  <2>1. <<y, x>> \in {ss \in Nat \X Nat : ss[1] < ss[2]}
    <3>1. <<y, x>> \in Nat \X Nat
      OBVIOUS
    <3> QED BY <1>2, <3>1
  <2>2. <<y, x>> \in OpToRel(<, Nat)
    BY <2>1 DEF OpToRel
  <2> QED BY <1>1, <2>2
<1> QED BY <1>2

\* Max is well defined on a set of indices that is not empty.
LEMMA MaxOfIndices ==
  ASSUME NEW n \in Nat, NEW T \in SUBSET (1..n), T # {}
  PROVE  /\ Max(T) \in T
         /\ \A y \in T : Max(T) >= y
<1> DEFINE M == {n - i : i \in T}
<1>1. PICK m \in M : \A y \in M : m <= y
  <2>1. PICK j \in T : TRUE
    OBVIOUS
  <2>2. n - j \in M
    BY <2>1
  <2>3. M \in SUBSET Nat /\ M # {}
    BY <2>2
  <2> HIDE DEF M
  <2> QED BY <2>3, LeastNatural
<1>2. PICK x \in T : m = n - x
  OBVIOUS
<1>3. \A y \in T : x >= y
  <2> TAKE y \in T
  <2>1. n - y \in M
    OBVIOUS
  <2> QED BY <1>1, <1>2, <2>1
<1> QED BY <1>3 DEF Max

\* Front drops the last entry of a sequence and keeps the others.
LEMMA FrontOfSequence ==
  ASSUME NEW S, NEW s \in Seq(S), Len(s) \in Nat \ {0}
  PROVE  /\ Front(s) \in Seq(S)
         /\ Len(Front(s)) = Len(s) - 1
         /\ \A i \in 1..Len(s) - 1 : Front(s)[i] = s[i]
<1> DEFINE n == Len(s) - 1
<1>1. n \in Int /\ \A i \in 1..n : s[i] \in S
  OBVIOUS
<1>2. Front(s) = SubSeq(s, 1, n)
  BY DEF Front
<1>3. /\ SubSeq(s, 1, n) \in Seq(S)
      /\ Len(SubSeq(s, 1, n)) = IF 1 <= n THEN n - 1 + 1 ELSE 0
      /\ \A i \in 1..n - 1 + 1 : SubSeq(s, 1, n)[i] = s[1 + i - 1]
  <2> HIDE DEF n
  <2> QED BY <1>1, SubSeqProperties
<1>4. Len(SubSeq(s, 1, n)) = n
  <2>1. n \in Nat
    OBVIOUS
  <2> HIDE DEF n
  <2> QED BY <1>3, <2>1
<1>5. ASSUME NEW i \in 1..n
      PROVE  SubSeq(s, 1, n)[i] = s[i]
  <2>1. i \in 1..n - 1 + 1 /\ 1 + i - 1 = i
    OBVIOUS
  <2> HIDE DEF n
  <2> QED BY <1>3, <2>1
<1> QED BY <1>2, <1>3, <1>4, <1>5

\* A concatenation has the entries of both sequences, the second's shifted.
LEMMA EntriesOfConcat ==
  ASSUME NEW S, NEW s \in Seq(S), NEW t \in Seq(S)
  PROVE  /\ s \o t \in Seq(S)
         /\ Len(s \o t) = Len(s) + Len(t)
         /\ \A i \in 1..Len(s) : (s \o t)[i] = s[i]
         /\ \A i \in 1..Len(t) : (s \o t)[Len(s) + i] = t[i]
OBVIOUS

\* A function on the first n numbers is a sequence of n entries.
LEMMA FunctionIsSequence ==
  ASSUME NEW S, NEW n \in Nat, NEW f \in [1 .. n -> S]
  PROVE  f \in Seq(S) /\ Len(f) = n
<1>1. f \in Seq(S)
  OBVIOUS
<1>2. DOMAIN f = 1 .. Len(f) /\ Len(f) \in Nat
  BY <1>1, LenProperties
<1>3. 1 .. n = 1 .. Len(f)
  BY <1>2
<1> QED BY <1>1, <1>2, <1>3

-----------------------------------------------------------------------------
(***************************************************************************)
(* Sums.  The units of a mapping are finite, and those of one argument are *)
(* as many as its value.                                                   *)
(***************************************************************************)
LEMMA UnitsOfOne ==
  ASSUME NEW a, NEW v \in Nat
  PROVE  /\ IsFiniteSet({a} \X (0 .. v - 1))
         /\ Cardinality({a} \X (0 .. v - 1)) = v
<1>1. IsFiniteSet({a}) /\ Cardinality({a}) = 1
  BY FS_Singleton
<1>2. IsFiniteSet(0 .. v - 1) /\ Cardinality(0 .. v - 1) = v
  <2>1. 0 \in Int /\ v - 1 \in Int
    OBVIOUS
  <2> QED BY <2>1, FS_Interval
<1> QED BY <1>1, <1>2, FS_Product

LEMMA UnitsFinite ==
  ASSUME NEW S, IsFiniteSet(S), NEW f \in [S -> Nat]
  PROVE  IsFiniteSet(Units(f)) /\ Total(f) \in Nat
<1> DEFINE unit == [a \in S |-> {a} \X (0 .. f[a] - 1)]
           T == {unit[a] : a \in S}
<1>1. unit \in Surjection(S, T)
  BY DEF Surjection
<1>2. IsFiniteSet(T)
  <2> HIDE DEF unit, T
  <2> QED BY <1>1, FS_Surjection
<1>3. \A U \in T : IsFiniteSet(U)
  <2> SUFFICES ASSUME NEW a \in S
               PROVE  IsFiniteSet({a} \X (0 .. f[a] - 1))
    OBVIOUS
  <2>1. f[a] \in Nat
    OBVIOUS
  <2> QED BY <2>1, UnitsOfOne
<1>4. Units(f) = UNION T
  BY DEF Units
<1>5. IsFiniteSet(UNION T)
  <2> HIDE DEF T
  <2> QED BY <1>2, <1>3, FS_UNION
<1> QED BY <1>4, <1>5, FS_CardinalityType DEF Total

\* The units of f are those of one argument and the rest.
LEMMA TotalWithout ==
  ASSUME NEW S, IsFiniteSet(S), NEW f \in [S -> Nat], NEW a \in S
  PROVE  /\ IsFiniteSet(Units(f) \ ({a} \X Nat))
         /\ Total(f) = Cardinality(Units(f) \ ({a} \X Nat)) + f[a]
<1> DEFINE U == {a} \X (0 .. f[a] - 1)
           R == Units(f) \ ({a} \X Nat)
<1>1. IsFiniteSet(Units(f))
  BY UnitsFinite
<1>2. IsFiniteSet(R)
  BY <1>1, FS_Subset
<1>3. IsFiniteSet(U) /\ Cardinality(U) = f[a]
  BY UnitsOfOne
<1>4. Units(f) = R \cup U
  BY DEF Units
<1>5. R \cap U = {}
  OBVIOUS
<1>6. Cardinality(R \cup U) = Cardinality(R) + Cardinality(U) - Cardinality(R \cap U)
  <2> HIDE DEF R, U
  <2> QED BY <1>2, <1>3, FS_Union
<1>7. Cardinality(R) \in Nat
  BY <1>2, FS_CardinalityType
<1> HIDE DEF R, U
<1>8. Total(f) = Cardinality(R) + f[a]
  BY <1>3, <1>4, <1>5, <1>6, <1>7, FS_EmptySet DEF Total
<1> QED BY <1>2, <1>8 DEF R

\* Writing one argument changes the sum by the difference.
LEMMA TotalUpdate ==
  ASSUME NEW S, IsFiniteSet(S), NEW f \in [S -> Nat], NEW a \in S,
         NEW g \in [S -> Nat], \A b \in S : b # a => g[b] = f[b]
  PROVE  Total(g) = Total(f) - f[a] + g[a]
<1>1. Units(g) \ ({a} \X Nat) = Units(f) \ ({a} \X Nat)
  <2>1. ASSUME NEW b \in S, b # a
        PROVE  {b} \X (0 .. g[b] - 1) = {b} \X (0 .. f[b] - 1)
    BY <2>1
  <2>2. DOMAIN g = S /\ DOMAIN f = S
    OBVIOUS
  <2>3. Units(g) \ ({a} \X Nat) \subseteq Units(f)
    BY <2>1, <2>2 DEF Units
  <2>4. Units(f) \ ({a} \X Nat) \subseteq Units(g)
    BY <2>1, <2>2 DEF Units
  <2> QED BY <2>3, <2>4
<1> DEFINE R == Units(f) \ ({a} \X Nat)
<1>2. Cardinality(R) \in Nat
  BY TotalWithout, FS_CardinalityType
<1>3. Total(f) = Cardinality(R) + f[a]
  BY TotalWithout
<1>4. Total(g) = Cardinality(R) + g[a]
  BY <1>1, TotalWithout
<1> HIDE DEF R
<1> QED BY <1>2, <1>3, <1>4

\* No argument exceeds the sum, and zeros add up to zero.
LEMMA TotalBounds ==
  ASSUME NEW S, IsFiniteSet(S), NEW f \in [S -> Nat]
  PROVE  /\ \A a \in S : f[a] <= Total(f)
         /\ (\A a \in S : f[a] = 0) => Total(f) = 0
<1>1. ASSUME NEW a \in S
      PROVE  f[a] <= Total(f)
  <2>1. Cardinality(Units(f) \ ({a} \X Nat)) \in Nat
    BY TotalWithout, FS_CardinalityType
  <2> QED BY <2>1, TotalWithout
<1>2. ASSUME \A a \in S : f[a] = 0
      PROVE  Total(f) = 0
  <2>1. Units(f) = {}
    BY <1>2 DEF Units
  <2> QED BY <2>1, FS_EmptySet DEF Total
<1> QED BY <1>1, <1>2

\* A mapping that is nowhere greater has no greater sum.
LEMMA TotalMonotone ==
  ASSUME NEW S, IsFiniteSet(S), NEW f \in [S -> Nat], NEW g \in [S -> Nat],
         \A a \in S : f[a] <= g[a]
  PROVE  Total(f) <= Total(g)
<1>1. ASSUME NEW a \in S
      PROVE  {a} \X (0 .. f[a] - 1) \subseteq {a} \X (0 .. g[a] - 1)
  <2>1. f[a] \in Nat /\ g[a] \in Nat /\ f[a] <= g[a]
    OBVIOUS
  <2>2. 0 .. f[a] - 1 \subseteq 0 .. g[a] - 1
    BY <2>1
  <2> QED BY <2>2
<1>2. DOMAIN f = S /\ DOMAIN g = S
  OBVIOUS
<1>3. Units(f) \subseteq Units(g)
  <2> SUFFICES ASSUME NEW u \in Units(f)
               PROVE  u \in Units(g)
    OBVIOUS
  <2>1. PICK a \in S : u \in {a} \X (0 .. f[a] - 1)
    BY <1>2 DEF Units
  <2>2. u \in {a} \X (0 .. g[a] - 1)
    BY <1>1, <2>1
  <2> QED BY <1>2, <2>2 DEF Units
<1>4. IsFiniteSet(Units(g))
  BY UnitsFinite
<1> QED BY <1>3, <1>4, FS_Subset DEF Total

\* Sums of two mappings add up: the units of h beyond those of f are as many
\* as the units of g.
LEMMA TotalSum ==
  ASSUME NEW S, IsFiniteSet(S), NEW f \in [S -> Nat], NEW g \in [S -> Nat],
         NEW h \in [S -> Nat], \A a \in S : h[a] = f[a] + g[a]
  PROVE  Total(h) = Total(f) + Total(g)
<1> DEFINE R == Units(h) \ Units(f)
           Shift == [u \in Units(g) |-> <<u[1], f[u[1]] + u[2]>>]
<1>1. \A a : \A k : <<a, k>> \in Units(f) <=> a \in S /\ k \in 0 .. f[a] - 1
  BY DEF Units
<1>2. \A a : \A k : <<a, k>> \in Units(g) <=> a \in S /\ k \in 0 .. g[a] - 1
  BY DEF Units
<1>3. \A a : \A k : <<a, k>> \in Units(h) <=> a \in S /\ k \in 0 .. h[a] - 1
  BY DEF Units
<1>4. \A u \in Units(g) : u = <<u[1], u[2]>> /\ u[1] \in S /\ u[2] \in 0 .. g[u[1]] - 1
  BY DEF Units
<1>5. \A u \in Units(h) : u = <<u[1], u[2]>> /\ u[1] \in S /\ u[2] \in 0 .. h[u[1]] - 1
  BY DEF Units
<1>6. \A u \in Units(f) : u = <<u[1], u[2]>> /\ u[1] \in S /\ u[2] \in 0 .. f[u[1]] - 1
  BY DEF Units
<1>7. Units(f) \subseteq Units(h)
  <2> SUFFICES ASSUME NEW u \in Units(f)
               PROVE  u \in Units(h)
    OBVIOUS
  <2>1. u = <<u[1], u[2]>> /\ u[1] \in S /\ u[2] \in 0 .. f[u[1]] - 1
    BY <1>6
  <2>2. u[2] \in 0 .. h[u[1]] - 1
    BY <2>1
  <2> QED BY <1>3, <2>1, <2>2
<1>8. ASSUME NEW u \in Units(g)
      PROVE  Shift[u] \in R
  <2>1. u[1] \in S /\ u[2] \in 0 .. g[u[1]] - 1
    BY <1>4
  <2>2. f[u[1]] + u[2] \in 0 .. h[u[1]] - 1 /\ f[u[1]] + u[2] \notin 0 .. f[u[1]] - 1
    BY <2>1
  <2> QED BY <1>1, <1>3, <2>1, <2>2
<1>9. ASSUME NEW u \in Units(g), NEW v \in Units(g), Shift[u] = Shift[v]
      PROVE  u = v
  <2>1. /\ u = <<u[1], u[2]>> /\ u[1] \in S /\ u[2] \in 0 .. g[u[1]] - 1
        /\ v = <<v[1], v[2]>> /\ v[1] \in S /\ v[2] \in 0 .. g[v[1]] - 1
    BY <1>4
  <2>2. u[1] = v[1] /\ f[u[1]] + u[2] = f[v[1]] + v[2]
    BY <1>9
  <2>3. u[2] = v[2]
    BY <2>1, <2>2
  <2> QED BY <2>1, <2>2, <2>3
<1>10. ASSUME NEW r \in R
       PROVE  \E u \in Units(g) : Shift[u] = r
  <2>1. r = <<r[1], r[2]>> /\ r[1] \in S /\ r[2] \in 0 .. h[r[1]] - 1
    BY <1>5
  <2>2. r[2] \notin 0 .. f[r[1]] - 1
    BY <1>1, <2>1
  <2>3. r[2] - f[r[1]] \in 0 .. g[r[1]] - 1 /\ f[r[1]] + (r[2] - f[r[1]]) = r[2]
    BY <2>1, <2>2
  <2>4. <<r[1], r[2] - f[r[1]]>> \in Units(g)
    BY <1>2, <2>1, <2>3
  <2>5. Shift[<<r[1], r[2] - f[r[1]]>>] = r
    BY <2>1, <2>3, <2>4
  <2> QED BY <2>4, <2>5
<1>11. Shift \in Bijection(Units(g), R)
  <2>1. Shift \in [Units(g) -> R]
    BY <1>8
  <2> HIDE DEF Shift, R
  <2> QED BY <1>9, <1>10, <2>1, Fun_IsBij
<1>12. /\ IsFiniteSet(Units(f)) /\ IsFiniteSet(Units(g)) /\ IsFiniteSet(Units(h))
       /\ Total(f) \in Nat /\ Total(g) \in Nat
  BY UnitsFinite
<1> HIDE DEF Shift
<1>13. IsFiniteSet(R) /\ Cardinality(R) = Total(g)
  <2>1. ExistsBijection(Units(g), R)
    BY <1>11 DEF ExistsBijection
  <2> HIDE DEF R
  <2> QED BY <1>12, <2>1, FS_Bijection DEF Total
<1>14. Units(h) = Units(f) \cup R /\ Units(f) \cap R = {}
  BY <1>7
<1> HIDE DEF R
<1>15. Cardinality(Units(f) \cup R)
         = Cardinality(Units(f)) + Cardinality(R) - Cardinality(Units(f) \cap R)
  BY <1>12, <1>13, FS_Union
<1>16. Cardinality(Units(f) \cap R) = 0
  BY <1>14, FS_EmptySet
<1> QED BY <1>12, <1>13, <1>14, <1>15, <1>16 DEF Total

\* The same for all the mappings at once.
LEMMA TotalUpdates ==
  ASSUME NEW S, IsFiniteSet(S)
  PROVE  \A u, v \in [S -> Nat], a \in S :
           (\A b \in S : b # a => v[b] = u[b]) => Total(v) = Total(u) - u[a] + v[a]
BY TotalUpdate

\* What holds of the products of every account holds of those of the sums: a
\* least counterexample would have an account other than zero, and without it
\* there would be a smaller one.
LEMMA TotalProducts ==
  ASSUME NEW S, IsFiniteSet(S), NEW T \in Nat, NEW B \in Nat
  PROVE  \A f, g \in [S -> Nat] :
           (\A a \in S : f[a] * T <= g[a] * B) => Total(f) * T <= Total(g) * B
<1> DEFINE Within(f, g) == \A a \in S : f[a] * T <= g[a] * B
           Wrong == {n \in Nat : \E f, g \in [S -> Nat] :
                       /\ Within(f, g)
                       /\ ~(Total(f) * T <= Total(g) * B)
                       /\ n = Total(f) + Total(g)}
<1>1. \A f \in [S -> Nat] : Total(f) \in Nat
  BY UnitsFinite
<1>2. SUFFICES ASSUME Wrong # {} PROVE FALSE
  <2>1. ASSUME NEW f \in [S -> Nat], NEW g \in [S -> Nat], Within(f, g),
               ~(Total(f) * T <= Total(g) * B)
        PROVE  Total(f) + Total(g) \in Wrong
    <3>1. Total(f) + Total(g) \in Nat
      BY <1>1
    <3> QED BY <2>1, <3>1
  <2> HIDE DEF Wrong
  <2> QED BY <1>2, <2>1
<1>3. PICK n \in Wrong : \A m \in Wrong : n <= m
  <2>1. Wrong \in SUBSET Nat
    OBVIOUS
  <2> HIDE DEF Wrong
  <2> QED BY <1>2, <2>1, LeastNatural
<1>4. PICK f \in [S -> Nat], g \in [S -> Nat] :
        Within(f, g) /\ ~(Total(f) * T <= Total(g) * B) /\ n = Total(f) + Total(g)
  OBVIOUS
<1>5. Total(f) \in Nat /\ Total(g) \in Nat
  BY <1>1
<1>6. PICK a \in S : f[a] + g[a] # 0
  <2>1. CASE \A a \in S : f[a] = 0
    <3>1. Total(f) = 0
      BY <2>1, TotalBounds
    <3>2. 0 * T = 0 /\ Total(g) * B \in Nat
      BY <1>5
    <3> QED BY <1>4, <3>1, <3>2
  <2>2. CASE ~ \A a \in S : f[a] = 0
    BY <2>2
  <2> QED BY <2>1, <2>2
<1> DEFINE f2 == [f EXCEPT ![a] = 0]
           g2 == [g EXCEPT ![a] = 0]
<1>7. /\ f2 \in [S -> Nat] /\ f2[a] = 0 /\ \A b \in S : b # a => f2[b] = f[b]
      /\ g2 \in [S -> Nat] /\ g2[a] = 0 /\ \A b \in S : b # a => g2[b] = g[b]
  OBVIOUS
<1>8. f[a] \in Nat /\ g[a] \in Nat /\ f[a] * T <= g[a] * B
  BY <1>4
<1>9. Within(f2, g2)
  <2> SUFFICES ASSUME NEW b \in S PROVE f2[b] * T <= g2[b] * B
    OBVIOUS
  <2>1. CASE b = a
    <3>1. 0 * T = 0 /\ 0 * B = 0
      OBVIOUS
    <3> QED BY <1>7, <2>1, <3>1
  <2>2. CASE b # a
    <3>1. f2[b] = f[b] /\ g2[b] = g[b]
      BY <1>7, <2>2
    <3> QED BY <1>4, <3>1
  <2> QED BY <2>1, <2>2
<1> HIDE DEF f2, g2, Within
<1>10. Total(f2) = Total(f) - f[a] /\ Total(g2) = Total(g) - g[a]
  <2>1. Total(f2) = Total(f) - f[a] + f2[a] /\ Total(g2) = Total(g) - g[a] + g2[a]
    BY <1>7, TotalUpdate
  <2> QED BY <1>5, <1>7, <1>8, <2>1
<1>11. Total(f2) \in Nat /\ Total(g2) \in Nat
  BY <1>1, <1>7
<1>12. ~(Total(f2) * T <= Total(g2) * B)
  <2> SUFFICES ASSUME Total(f2) * T <= Total(g2) * B PROVE FALSE
    OBVIOUS
  <2>1. Total(f) = Total(f2) + f[a] /\ Total(g) = Total(g2) + g[a]
    BY <1>5, <1>8, <1>10
  <2>2. /\ (Total(f2) + f[a]) * T = Total(f2) * T + f[a] * T
        /\ (Total(g2) + g[a]) * B = Total(g2) * B + g[a] * B
    BY <1>8, <1>11
  <2>3. /\ Total(f2) * T \in Nat /\ f[a] * T \in Nat
        /\ Total(g2) * B \in Nat /\ g[a] * B \in Nat
    BY <1>8, <1>11
  <2>4. Total(f) * T <= Total(g) * B
    BY <1>8, <2>1, <2>2, <2>3
  <2> QED BY <1>4, <2>4
<1>13. Total(f2) + Total(g2) \in Wrong
  <2>1. Total(f2) + Total(g2) \in Nat
    BY <1>11
  <2> QED BY <1>7, <1>9, <1>12, <2>1
<1>14. n <= Total(f2) + Total(g2)
  BY <1>3, <1>13
<1> QED BY <1>4, <1>5, <1>6, <1>8, <1>10, <1>14

\* The entries D of a list s are worth, account by account, the number of the
\* entries of the account times its worth.
EntriesOf(s, a) == Cardinality({i \in DOMAIN s : s[i] = a})

LEMMA TotalByAccount ==
  ASSUME NEW A, IsFiniteSet(A), NEW D, IsFiniteSet(D), NEW s \in [D -> A],
         NEW value \in [A -> Nat]
  PROVE  Total([i \in D |-> value[s[i]]]) = Total([a \in A |-> EntriesOf(s, a) * value[a]])
<1> DEFINE n == Cardinality(D)
           f == [i \in D |-> value[s[i]]]
           g == [a \in A |-> EntriesOf(s, a) * value[a]]
<1>1. n \in Nat
  BY FS_CardinalityType
<1>2. PICK pos \in Bijection(D, 1..n) : TRUE
  <2>1. ExistsBijection(1..n, D)
    BY FS_CardinalityType
  <2>2. ExistsBijection(D, 1..n)
    BY <2>1, Fun_ExistsBijSymmetric
  <2> QED BY <2>2 DEF ExistsBijection
<1>3. /\ f \in [D -> Nat] /\ \A i \in D : f[i] = value[s[i]]
      /\ g = [a \in A |-> g[a]] /\ \A a \in A : g[a] = EntriesOf(s, a) * value[a]
  OBVIOUS
<1> HIDE DEF n, f, g
<1>4. /\ \A i \in D : pos[i] \in 1..n
      /\ \A i, j \in D : pos[i] = pos[j] => i = j
      /\ \A m \in 1..n : \E i \in D : pos[i] = m
  BY <1>2 DEF Bijection, Injection, IsInjective, Surjection
<1> DEFINE Count(m, a) == Cardinality({i \in D : pos[i] <= m /\ s[i] = a})
           byEntry(m) == [i \in D |-> IF pos[i] <= m THEN f[i] ELSE 0]
           byAccount(m) == [a \in A |-> Count(m, a) * value[a]]
           Wrong == {m \in 0..n : Total(byEntry(m)) # Total(byAccount(m))}
<1>5. ASSUME NEW m \in 0..n, NEW a \in A
      PROVE  IsFiniteSet({i \in D : pos[i] <= m /\ s[i] = a}) /\ Count(m, a) \in Nat
  BY FS_Subset, FS_CardinalityType
<1>6. ASSUME NEW m \in 0..n
      PROVE  byEntry(m) \in [D -> Nat] /\ byAccount(m) \in [A -> Nat]
  <2>1. byEntry(m) \in [D -> Nat]
    BY <1>3
  <2>2. ASSUME NEW a \in A
        PROVE  Count(m, a) * value[a] \in Nat
    <3>1. Count(m, a) \in Nat /\ value[a] \in Nat
      BY <1>5
    <3> HIDE DEF Count
    <3> QED BY <3>1
  <2> HIDE DEF Count
  <2> QED BY <2>1, <2>2
<1>7. \A u, v \in [D -> Nat], i \in D :
        (\A j \in D : j # i => v[j] = u[j]) => Total(v) = Total(u) - u[i] + v[i]
  <2> HIDE DEF byEntry, byAccount, Wrong, Count
  <2> QED BY TotalUpdates
<1>8. \A u, v \in [A -> Nat], a \in A :
        (\A b \in A : b # a => v[b] = u[b]) => Total(v) = Total(u) - u[a] + v[a]
  <2> HIDE DEF byEntry, byAccount, Wrong, Count
  <2> QED BY TotalUpdates
<1>9. Wrong = {}
  <2> SUFFICES ASSUME Wrong # {}
               PROVE  FALSE
    OBVIOUS
  <2>1. PICK m \in Wrong : \A k \in Wrong : m <= k
    <3>1. Wrong \in SUBSET Nat
      BY <1>1
    <3> HIDE DEF Wrong
    <3> QED BY <3>1, LeastNatural
  <2>2. m \in 0..n /\ Total(byEntry(m)) # Total(byAccount(m))
    BY <2>1
  <2>3. CASE m = 0
    <3>1. \A i \in D : byEntry(m)[i] = 0
      BY <1>1, <1>4, <2>3
    <3>2. ASSUME NEW a \in A
          PROVE  byAccount(m)[a] = 0
      <4>1. {i \in D : pos[i] <= m /\ s[i] = a} = {}
        BY <1>1, <1>4, <2>3
      <4>2. Count(m, a) = 0
        BY <4>1, FS_EmptySet
      <4>3. value[a] \in Nat
        OBVIOUS
      <4> HIDE DEF Count
      <4> QED BY <4>2, <4>3
    <3>3. byEntry(m) \in [D -> Nat] /\ byAccount(m) \in [A -> Nat]
      BY <1>6, <2>2
    <3> HIDE DEF byEntry, byAccount
    <3> QED BY <2>2, <3>1, <3>2, <3>3, TotalBounds
  <2>4. CASE m # 0
    <3> DEFINE p == m - 1
    <3>1. p \in 0..n /\ m \in 1..n /\ p \notin Wrong
      <4>1. p \in 0..n /\ m \in 1..n
        BY <1>1, <2>2, <2>4
      <4>2. ~ (m <= p)
        BY <2>2
      <4> HIDE DEF Wrong, p
      <4> QED BY <2>1, <4>1, <4>2
    <3>2. Total(byEntry(p)) = Total(byAccount(p))
      BY <3>1
    <3>3. PICK d \in D : pos[d] = m
      BY <1>4, <3>1
    <3>4. \A i \in D : /\ i # d => (pos[i] <= m <=> pos[i] <= p)
                       /\ i = d => pos[i] <= m /\ ~ (pos[i] <= p)
      BY <1>1, <1>4, <3>1, <3>3
    <3> DEFINE b == s[d]
    <3>5. b \in A /\ f[d] = value[b] /\ value[b] \in Nat
      BY <1>3
    <3> HIDE DEF p
    <3>6. /\ byEntry(p) \in [D -> Nat] /\ byAccount(p) \in [A -> Nat]
          /\ byEntry(m) \in [D -> Nat] /\ byAccount(m) \in [A -> Nat]
      BY <1>6, <2>2, <3>1
    <3>7. Total(byEntry(m)) = Total(byEntry(p)) + value[b]
      <4>1. byEntry(p)[d] = 0 /\ byEntry(m)[d] = value[b]
        BY <3>4, <3>5
      <4>2. ASSUME NEW i \in D, i # d
            PROVE  byEntry(m)[i] = byEntry(p)[i]
        <5>1. pos[i] <= m <=> pos[i] <= p
          BY <3>4, <4>2
        <5> QED BY <5>1
      <4>3. Total(byEntry(p)) \in Nat
        <5> HIDE DEF byEntry, p
        <5> QED BY <3>6, UnitsFinite
      <4> HIDE DEF byEntry, p, b
      <4>4. Total(byEntry(m)) = Total(byEntry(p)) - byEntry(p)[d] + byEntry(m)[d]
        BY <1>7, <3>6, <4>2
      <4> QED BY <3>5, <4>1, <4>3, <4>4
    <3>8. Count(m, b) = Count(p, b) + 1
      <4> DEFINE before == {i \in D : pos[i] <= p /\ s[i] = b}
      <4>1. IsFiniteSet(before)
        BY <1>5, <3>1, <3>5
      <4>2. {i \in D : pos[i] <= m /\ s[i] = b} = before \cup {d}
        BY <3>4
      <4>3. d \notin before
        BY <3>4
      <4> HIDE DEF before
      <4>4. Cardinality(before \cup {d}) = Cardinality(before) + 1
        BY <4>1, <4>3, FS_AddElement
      <4> QED BY <4>2, <4>4 DEF before
    <3>9. ASSUME NEW a \in A, a # b
          PROVE  Count(m, a) = Count(p, a)
      <4>1. {i \in D : pos[i] <= m /\ s[i] = a} = {i \in D : pos[i] <= p /\ s[i] = a}
        BY <3>4, <3>9
      <4> QED BY <4>1
    <3>10. Total(byAccount(m)) = Total(byAccount(p)) + value[b]
      <4>1. /\ byAccount(p)[b] = Count(p, b) * value[b]
            /\ byAccount(m)[b] = Count(m, b) * value[b]
        BY <3>5
      <4>2. Count(p, b) \in Nat
        BY <1>5, <3>1, <3>5
      <4>3. \A a \in A : a # b => byAccount(m)[a] = byAccount(p)[a]
        <5> HIDE DEF Count
        <5> QED BY <3>9
      <4>4. \A c, v \in Nat : (c + 1) * v = c * v + v /\ c * v \in Nat
        OBVIOUS
      <4> HIDE DEF byAccount, b, p, Count
      <4>5. byAccount(m)[b] = byAccount(p)[b] + value[b] /\ byAccount(p)[b] \in Nat
        BY <3>5, <3>8, <4>1, <4>2, <4>4
      <4>6. Total(byAccount(p)) \in Nat
        BY <3>6, UnitsFinite
      <4>7. Total(byAccount(m)) = Total(byAccount(p)) - byAccount(p)[b] + byAccount(m)[b]
        BY <1>8, <3>5, <3>6, <4>3
      <4> QED BY <3>5, <4>5, <4>6, <4>7
    <3> HIDE DEF byEntry, byAccount
    <3> QED BY <2>2, <3>2, <3>7, <3>10
  <2> QED BY <2>3, <2>4
<1>10. Total(byEntry(n)) = Total(byAccount(n))
  <2>1. n \in 0..n
    BY <1>1
  <2> HIDE DEF byEntry, byAccount
  <2> QED BY <1>9, <2>1
<1>11. f = byEntry(n)
  <2>1. \A i \in D : byEntry(n)[i] = f[i]
    BY <1>1, <1>4, <1>3
  <2>2. DOMAIN byEntry(n) = D /\ byEntry(n) = [i \in D |-> byEntry(n)[i]]
    OBVIOUS
  <2> HIDE DEF byEntry
  <2>3. f = [i \in D |-> f[i]]
    BY <1>3
  <2> QED BY <2>1, <2>2, <2>3
<1>12. g = byAccount(n)
  <2>1. ASSUME NEW a \in A
        PROVE  {i \in D : pos[i] <= n /\ s[i] = a} = {i \in DOMAIN s : s[i] = a}
    BY <1>1, <1>4
  <2>2. \A a \in A : byAccount(n)[a] = g[a]
    BY <1>3, <2>1 DEF EntriesOf
  <2>3. DOMAIN byAccount(n) = A /\ byAccount(n) = [a \in A |-> byAccount(n)[a]]
    OBVIOUS
  <2> HIDE DEF byAccount
  <2> QED BY <1>3, <2>2, <2>3
<1> QED BY <1>10, <1>11, <1>12 DEF f, g

=============================================================================
