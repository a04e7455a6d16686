------------------------------- MODULE Sums -------------------------------
(***************************************************************************)
(* Facts about sums over finite sets, as SumFunctionOnSet of the community *)
(* modules adds them up, and about finite sets in a total order. Both are  *)
(* proved by looking at a smallest set for which they fail.                *)
(***************************************************************************)
EXTENDS Integers, FiniteSets, Functions, FiniteSetTheorems, WellFoundedInduction, TLAPS

-----------------------------------------------------------------------------
(* Smallest elements *)

\* A set of naturals has a least element.
LEMMA Smallest ==
  ASSUME NEW S \in SUBSET Nat, S # {}
  PROVE  \E n \in S : \A m \in S : n <= m
<1>1. PICK n \in S : \A m \in S : ~(<<m, n>> \in OpToRel(<, Nat))
  BY WFMin, NatLessThanWellFounded
<1>2. \A m \in S : ~(m < n)
  BY <1>1 DEF OpToRel
<1> QED BY <1>2

\* Among subsets of a finite set one has no other within it.
LEMMA Minimal ==
  ASSUME NEW S, IsFiniteSet(S), NEW Bad \in SUBSET SUBSET S, Bad # {}
  PROVE  \E s \in Bad : \A t \in Bad : t \subseteq s => t = s
<1> DEFINE N == {Cardinality(s) : s \in Bad}
<1>1. \A s \in SUBSET S : IsFiniteSet(s) /\ Cardinality(s) \in Nat
  BY FS_Subset, FS_CardinalityType
<1>2. PICK n \in N : \A m \in N : n <= m
  <2>1. N \in SUBSET Nat /\ N # {}
    BY <1>1
  <2> QED BY <2>1, Smallest
<1>3. PICK s \in Bad : n = Cardinality(s)
  BY <1>2
<1>4. ASSUME NEW t \in Bad, t \subseteq s PROVE t = s
  <2>1. Cardinality(s) <= Cardinality(t)
    BY <1>2, <1>3
  <2>2. IsFiniteSet(s) /\ Cardinality(s) \in Nat /\ Cardinality(t) \in Nat
    BY <1>1
  <2>3. Cardinality(t) <= Cardinality(s) /\ (Cardinality(t) = Cardinality(s) => t = s)
    BY <1>4, <2>2, FS_Subset
  <2> QED BY <2>1, <2>2, <2>3
<1> QED BY <1>3, <1>4

-----------------------------------------------------------------------------
(* Sums *)

Pick(s) == CHOOSE x \in s : TRUE

IsSum(g, f, S) ==
    g = [s \in SUBSET S |-> IF s = {} THEN 0 ELSE f[Pick(s)] + g[s \ {Pick(s)}]]

\* The sum of f over S is the value at S of a function on the subsets of S.
LEMMA SumIs ==
  ASSUME NEW f, NEW S
  PROVE  SumFunctionOnSet(f, S) = (CHOOSE g : IsSum(g, f, S))[S]
BY DEF SumFunctionOnSet, FoldFunctionOnSet, MapThenFoldSet, IsSum, Pick

\* What is picked from a set is one of its elements.
LEMMA Picked ==
  ASSUME NEW s, s # {}
  PROVE  Pick(s) \in s
BY DEF Pick

\* There is such a function for every finite set.
LEMMA SumExists ==
  ASSUME NEW S, IsFiniteSet(S), NEW f
  PROVE  \E g : IsSum(g, f, S)
<1> DEFINE Sub(n) == {s \in SUBSET S : Cardinality(s) <= n}
           Partial(g, n) == g = [s \in Sub(n) |-> IF s = {} THEN 0 ELSE f[Pick(s)] + g[s \ {Pick(s)}]]
           Bad == {n \in Nat : ~\E g : Partial(g, n)}
<1>1. \A s \in SUBSET S : IsFiniteSet(s) /\ Cardinality(s) \in Nat /\ Cardinality(s) <= Cardinality(S)
  BY FS_Subset, FS_CardinalityType
<1>2. \A s \in SUBSET S : s # {} => s \ {Pick(s)} \in SUBSET S
        /\ Cardinality(s \ {Pick(s)}) = Cardinality(s) - 1
  BY <1>1, Picked, FS_RemoveElement
<1>3. ASSUME NEW n \in Bad, \A m \in Bad : n <= m PROVE FALSE
  <2>1. CASE n = 0
    <3>1. PICK g : g = [s \in Sub(0) |-> 0]
      OBVIOUS
    <3>2. \A s \in Sub(0) : s = {}
      BY <1>1, FS_EmptySet
    <3>3. Partial(g, 0)
      BY <3>1, <3>2
    <3> QED BY <2>1, <3>3
  <2>2. CASE n # 0
    <3>1. n - 1 \in Nat /\ n - 1 \notin Bad
      <4>1. n \in Nat /\ n - 1 \in Nat /\ ~(n <= n - 1)
        BY <2>2
      <4> QED BY <1>3, <4>1
    <3>2. PICK g : Partial(g, n - 1)
      BY <3>1
    <3>3. PICK h : h = [s \in Sub(n) |-> IF s = {} THEN 0 ELSE f[Pick(s)] + g[s \ {Pick(s)}]]
      OBVIOUS
    <3>4. ASSUME NEW s \in Sub(n - 1) PROVE h[s] = g[s]
      <4>1. s \in Sub(n)
        BY <1>1, <3>1
      <4>2. h[s] = IF s = {} THEN 0 ELSE f[Pick(s)] + g[s \ {Pick(s)}]
        BY <3>3, <4>1
      <4>3. g[s] = IF s = {} THEN 0 ELSE f[Pick(s)] + g[s \ {Pick(s)}]
        BY <3>2
      <4> QED BY <4>2, <4>3
    <3>5. ASSUME NEW s \in Sub(n), s # {} PROVE s \ {Pick(s)} \in Sub(n - 1)
      BY <1>1, <1>2, <3>1, <3>5
    <3> HIDE DEF Sub
    <3>6. \A s \in Sub(n) : s # {} => h[s \ {Pick(s)}] = g[s \ {Pick(s)}]
      BY <3>4, <3>5
    <3>7. Partial(h, n)
      BY <3>3, <3>6
    <3> QED BY <3>7
  <2> QED BY <2>1, <2>2
<1>4. Bad = {}
  BY <1>3, Smallest
<1>5. Cardinality(S) \in Nat
  BY <1>1
<1>6. PICK g : Partial(g, Cardinality(S))
  BY <1>4, <1>5
<1>7. Sub(Cardinality(S)) = SUBSET S
  BY <1>1
<1> QED BY <1>6, <1>7 DEF IsSum

\* Two such functions agree where both are defined.
LEMMA SumUnique ==
  ASSUME NEW S, IsFiniteSet(S), NEW f, NEW g, IsSum(g, f, S), NEW T \in SUBSET S, NEW h, IsSum(h, f, T)
  PROVE  g[T] = h[T]
<1> DEFINE Bad == {s \in SUBSET T : g[s] # h[s]}
<1>1. IsFiniteSet(T)
  BY FS_Subset
<1>2. ASSUME NEW s \in Bad, \A t \in Bad : t \subseteq s => t = s PROVE FALSE
  <2>1. g[s] = (IF s = {} THEN 0 ELSE f[Pick(s)] + g[s \ {Pick(s)}]) /\ s \in SUBSET S
    BY DEF IsSum
  <2>2. h[s] = IF s = {} THEN 0 ELSE f[Pick(s)] + h[s \ {Pick(s)}]
    BY DEF IsSum
  <2>3. s # {}
    BY <2>1, <2>2
  <2>4. s \ {Pick(s)} \in SUBSET T /\ s \ {Pick(s)} # s /\ s \ {Pick(s)} \subseteq s
    BY <2>3, Picked
  <2>5. g[s \ {Pick(s)}] = h[s \ {Pick(s)}]
    BY <1>2, <2>4
  <2> QED BY <2>1, <2>2, <2>5
<1>3. Bad = {}
  <2>1. Bad \in SUBSET SUBSET T
    OBVIOUS
  <2> HIDE DEF Bad
  <2>2. ASSUME Bad # {} PROVE FALSE
    <3>1. PICK s \in Bad : \A t \in Bad : t \subseteq s => t = s
      BY <2>1, <2>2, <1>1, Minimal
    <3> QED BY <3>1, <1>2
  <2> QED BY <2>2
<1> QED BY <1>3

\* A sum is what is picked plus the sum of the others.
LEMMA SumUnfolds ==
  ASSUME NEW S, IsFiniteSet(S), NEW f
  PROVE  SumFunctionOnSet(f, S) = IF S = {} THEN 0
                                  ELSE f[Pick(S)] + SumFunctionOnSet(f, S \ {Pick(S)})
<1>1. IsSum(CHOOSE g : IsSum(g, f, S), f, S)
  BY SumExists
<1>2. PICK g : g = (CHOOSE k : IsSum(k, f, S)) /\ IsSum(g, f, S)
  BY <1>1
<1>3. SumFunctionOnSet(f, S) = g[S]
  BY <1>2, SumIs
<1>4. g[S] = IF S = {} THEN 0 ELSE f[Pick(S)] + g[S \ {Pick(S)}]
  BY <1>2 DEF IsSum
<1>5. ASSUME S # {} PROVE g[S \ {Pick(S)}] = SumFunctionOnSet(f, S \ {Pick(S)})
  <2>1. PICK T : T = S \ {Pick(S)}
    OBVIOUS
  <2>2. T \in SUBSET S /\ IsFiniteSet(T)
    BY <2>1, FS_Subset
  <2>3. IsSum(CHOOSE k : IsSum(k, f, T), f, T)
    BY <2>2, SumExists
  <2>4. g[T] = (CHOOSE k : IsSum(k, f, T))[T]
    BY <1>2, <2>2, <2>3, SumUnique
  <2> QED BY <2>1, <2>4, SumIs
<1> QED BY <1>3, <1>4, <1>5

\* The sum over no element is 0.
LEMMA SumOfNone ==
  ASSUME NEW f
  PROVE  SumFunctionOnSet(f, {}) = 0
BY SumUnfolds, FS_EmptySet

\* A sum of integers is an integer.
LEMMA SumTyped ==
  ASSUME NEW S, IsFiniteSet(S), NEW f, \A x \in S : f[x] \in Int
  PROVE  SumFunctionOnSet(f, S) \in Int
<1> DEFINE Bad == {s \in SUBSET S : SumFunctionOnSet(f, s) \notin Int}
<1>1. ASSUME NEW s \in Bad, \A t \in Bad : t \subseteq s => t = s PROVE FALSE
  <2>1. IsFiniteSet(s)
    BY FS_Subset
  <2>2. s # {}
    BY SumOfNone
  <2>3. Pick(s) \in s /\ f[Pick(s)] \in Int
    BY <2>2, Picked
  <2>4. SumFunctionOnSet(f, s) = f[Pick(s)] + SumFunctionOnSet(f, s \ {Pick(s)})
    BY <2>1, <2>2, SumUnfolds
  <2>5. SumFunctionOnSet(f, s \ {Pick(s)}) \in Int
    BY <1>1, <2>3
  <2> QED BY <2>3, <2>4, <2>5
<1>2. Bad = {}
  <2>1. Bad \in SUBSET SUBSET S
    OBVIOUS
  <2> HIDE DEF Bad
  <2>2. ASSUME Bad # {} PROVE FALSE
    <3>1. PICK s \in Bad : \A t \in Bad : t \subseteq s => t = s
      BY <2>1, <2>2, Minimal
    <3> QED BY <3>1, <1>1
  <2> QED BY <2>2
<1> QED BY <1>2

\* Any element may be taken out of a sum first.
LEMMA SumSplit ==
  ASSUME NEW S, IsFiniteSet(S), NEW f, \A x \in S : f[x] \in Int, NEW x \in S
  PROVE  SumFunctionOnSet(f, S) = f[x] + SumFunctionOnSet(f, S \ {x})
<1> DEFINE Splits(s) == \A y \in s : SumFunctionOnSet(f, s) = f[y] + SumFunctionOnSet(f, s \ {y})
           Bad == {s \in SUBSET S : ~Splits(s)}
<1>1. \A s \in SUBSET S : IsFiniteSet(s) /\ SumFunctionOnSet(f, s) \in Int
  BY FS_Subset, SumTyped
<1>2. ASSUME NEW s \in Bad, \A t \in Bad : t \subseteq s => t = s PROVE FALSE
  <2>1. PICK y \in s : SumFunctionOnSet(f, s) # f[y] + SumFunctionOnSet(f, s \ {y})
    OBVIOUS
  <2>2. PICK z : z = Pick(s) /\ z \in s
    BY <2>1, Picked
  <2>3. SumFunctionOnSet(f, s) = f[z] + SumFunctionOnSet(f, s \ {z})
    BY <1>1, <2>2, SumUnfolds
  <2>4. y # z
    BY <2>1, <2>3
  <2>5. Splits(s \ {z}) /\ Splits(s \ {y})
    <3>1. s \ {z} \in SUBSET S /\ s \ {z} # s /\ s \ {y} \in SUBSET S /\ s \ {y} # s
      BY <2>1, <2>2
    <3> QED BY <1>2, <3>1
  <2>6. SumFunctionOnSet(f, s \ {z}) = f[y] + SumFunctionOnSet(f, (s \ {z}) \ {y})
    BY <2>4, <2>5
  <2>7. SumFunctionOnSet(f, s \ {y}) = f[z] + SumFunctionOnSet(f, (s \ {y}) \ {z})
    BY <2>4, <2>5, <2>2
  <2>8. (s \ {z}) \ {y} = (s \ {y}) \ {z}
    OBVIOUS
  <2>9. /\ SumFunctionOnSet(f, (s \ {y}) \ {z}) \in Int /\ f[y] \in Int /\ f[z] \in Int
    <3>1. (s \ {y}) \ {z} \in SUBSET S
      OBVIOUS
    <3> QED BY <3>1, <1>1, <2>2
  <2> HIDE DEF Splits
  <2>10. PICK a, b, c : a = f[y] /\ b = f[z] /\ c = SumFunctionOnSet(f, (s \ {y}) \ {z})
    OBVIOUS
  <2>11. a \in Int /\ b \in Int /\ c \in Int
    BY <2>9, <2>10
  <2>12. SumFunctionOnSet(f, s) = b + (a + c)
    BY <2>3, <2>6, <2>8, <2>10
  <2>13. SumFunctionOnSet(f, s) # a + (b + c)
    BY <2>1, <2>7, <2>10
  <2> QED BY <2>11, <2>12, <2>13
<1>3. Bad = {}
  <2>1. Bad \in SUBSET SUBSET S
    OBVIOUS
  <2> HIDE DEF Bad
  <2>2. ASSUME Bad # {} PROVE FALSE
    <3>1. PICK s \in Bad : \A t \in Bad : t \subseteq s => t = s
      BY <2>1, <2>2, Minimal
    <3> QED BY <3>1, <1>2
  <2> QED BY <2>2
<1> QED BY <1>3

\* A new element adds its value.
LEMMA SumAdd ==
  ASSUME NEW S, IsFiniteSet(S), NEW f, NEW x, x \notin S, f[x] \in Int, \A y \in S : f[y] \in Int
  PROVE  SumFunctionOnSet(f, S \cup {x}) = SumFunctionOnSet(f, S) + f[x]
<1>1. IsFiniteSet(S \cup {x}) /\ (S \cup {x}) \ {x} = S
  BY FS_AddElement
<1>2. SumFunctionOnSet(f, S \cup {x}) = f[x] + SumFunctionOnSet(f, (S \cup {x}) \ {x})
  BY <1>1, SumSplit
<1>3. SumFunctionOnSet(f, S) \in Int
  BY SumTyped
<1>4. SumFunctionOnSet(f, S \cup {x}) = f[x] + SumFunctionOnSet(f, S)
  BY <1>1, <1>2
<1> QED BY <1>3, <1>4

\* A sum grows with its terms.
LEMMA SumOrder ==
  ASSUME NEW S, IsFiniteSet(S), NEW f, NEW g, \A x \in S : f[x] \in Int /\ g[x] \in Int /\ f[x] <= g[x]
  PROVE  SumFunctionOnSet(f, S) <= SumFunctionOnSet(g, S)
<1> DEFINE Bad == {s \in SUBSET S : ~(SumFunctionOnSet(f, s) <= SumFunctionOnSet(g, s))}
<1>1. ASSUME NEW s \in Bad, \A t \in Bad : t \subseteq s => t = s PROVE FALSE
  <2>1. IsFiniteSet(s)
    BY FS_Subset
  <2>2. s # {}
    BY SumOfNone
  <2>3. PICK z : z = Pick(s) /\ z \in s
    BY <2>2, Picked
  <2>4. /\ SumFunctionOnSet(f, s) = f[z] + SumFunctionOnSet(f, s \ {z})
        /\ SumFunctionOnSet(g, s) = g[z] + SumFunctionOnSet(g, s \ {z})
    BY <2>1, <2>2, <2>3, SumUnfolds
  <2>5. SumFunctionOnSet(f, s \ {z}) <= SumFunctionOnSet(g, s \ {z})
    BY <1>1, <2>3
  <2>6. SumFunctionOnSet(f, s \ {z}) \in Int /\ SumFunctionOnSet(g, s \ {z}) \in Int
    <3>1. IsFiniteSet(s \ {z}) /\ s \ {z} \in SUBSET S
      BY <2>1, FS_Subset
    <3> QED BY <3>1, SumTyped
  <2> QED BY <2>3, <2>4, <2>5, <2>6
<1>2. Bad = {}
  <2>1. Bad \in SUBSET SUBSET S
    OBVIOUS
  <2> HIDE DEF Bad
  <2>2. ASSUME Bad # {} PROVE FALSE
    <3>1. PICK s \in Bad : \A t \in Bad : t \subseteq s => t = s
      BY <2>1, <2>2, Minimal
    <3> QED BY <3>1, <1>1
  <2> QED BY <2>2
<1> QED BY <1>2

\* A sum depends on the terms alone.
LEMMA SumSame ==
  ASSUME NEW S, IsFiniteSet(S), NEW f, NEW g, \A x \in S : f[x] = g[x]
  PROVE  SumFunctionOnSet(f, S) = SumFunctionOnSet(g, S)
<1> DEFINE Bad == {s \in SUBSET S : SumFunctionOnSet(f, s) # SumFunctionOnSet(g, s)}
<1>1. ASSUME NEW s \in Bad, \A t \in Bad : t \subseteq s => t = s PROVE FALSE
  <2>1. IsFiniteSet(s)
    BY FS_Subset
  <2>2. s # {}
    BY SumOfNone
  <2>3. PICK z : z = Pick(s) /\ z \in s
    BY <2>2, Picked
  <2>4. /\ SumFunctionOnSet(f, s) = f[z] + SumFunctionOnSet(f, s \ {z})
        /\ SumFunctionOnSet(g, s) = g[z] + SumFunctionOnSet(g, s \ {z})
    BY <2>1, <2>2, <2>3, SumUnfolds
  <2>5. SumFunctionOnSet(f, s \ {z}) = SumFunctionOnSet(g, s \ {z})
    BY <1>1, <2>3
  <2> QED BY <2>3, <2>4, <2>5
<1>2. Bad = {}
  <2>1. Bad \in SUBSET SUBSET S
    OBVIOUS
  <2> HIDE DEF Bad
  <2>2. ASSUME Bad # {} PROVE FALSE
    <3>1. PICK s \in Bad : \A t \in Bad : t \subseteq s => t = s
      BY <2>1, <2>2, Minimal
    <3> QED BY <3>1, <1>1
  <2> QED BY <2>2
<1> QED BY <1>2

\* The sum over two disjoint sets is the sum of both sums.
LEMMA SumUnion ==
  ASSUME NEW S, IsFiniteSet(S), NEW T, IsFiniteSet(T), S \cap T = {}, NEW f,
         \A x \in S \cup T : f[x] \in Int
  PROVE  SumFunctionOnSet(f, S \cup T) = SumFunctionOnSet(f, S) + SumFunctionOnSet(f, T)
<1> DEFINE Sum(s) == SumFunctionOnSet(f, s)
           Bad == {s \in SUBSET T : Sum(S \cup s) # Sum(S) + Sum(s)}
<1>1. ASSUME NEW s \in Bad, \A t \in Bad : t \subseteq s => t = s PROVE FALSE
  <2>1. IsFiniteSet(s) /\ IsFiniteSet(S \cup s)
    BY FS_Subset, FS_Union
  <2>2. s # {}
    BY SumOfNone, SumTyped
  <2>3. PICK z : z \in s
    BY <2>2
  <2>4. Sum(s) = f[z] + Sum(s \ {z}) /\ Sum(S \cup s) = f[z] + Sum((S \cup s) \ {z})
    BY <2>1, <2>3, SumSplit
  <2>5. (S \cup s) \ {z} = S \cup (s \ {z})
    BY <2>3
  <2>6. Sum(S \cup (s \ {z})) = Sum(S) + Sum(s \ {z})
    BY <1>1, <2>3
  <2>7. Sum(S) \in Int /\ Sum(s \ {z}) \in Int /\ f[z] \in Int
    <3>1. IsFiniteSet(s \ {z}) /\ \A x \in s \ {z} : f[x] \in Int
      BY <2>1, FS_Subset
    <3> QED BY <3>1, <2>3, SumTyped
  <2>8. Sum(S \cup s) # Sum(S) + Sum(s)
    OBVIOUS
  <2> HIDE DEF Sum
  <2>9. Sum(S \cup s) = f[z] + (Sum(S) + Sum(s \ {z}))
    BY <2>4, <2>5, <2>6
  <2>10. Sum(s) = f[z] + Sum(s \ {z})
    BY <2>4
  <2> QED BY <2>7, <2>8, <2>9, <2>10
<1>2. Bad = {}
  <2>1. Bad \in SUBSET SUBSET T
    OBVIOUS
  <2> HIDE DEF Bad
  <2>2. ASSUME Bad # {} PROVE FALSE
    <3>1. PICK s \in Bad : \A t \in Bad : t \subseteq s => t = s
      BY <2>1, <2>2, Minimal
    <3> QED BY <3>1, <1>1
  <2> QED BY <2>2
<1> QED BY <1>2

\* What is cut into parts adds up part by part.
LEMMA SumByParts ==
  ASSUME NEW S, IsFiniteSet(S), NEW K, IsFiniteSet(K), NEW f, \A x \in S : f[x] \in Int,
         NEW part, \A x \in S : part[x] \in K, NEW sums,
         \A k \in K : sums[k] = SumFunctionOnSet(f, {x \in S : part[x] = k})
  PROVE  SumFunctionOnSet(sums, K) = SumFunctionOnSet(f, S)
<1> DEFINE Of(k) == {x \in S : part[x] = k}
           In(J) == {x \in S : part[x] \in J}
           Bad == {J \in SUBSET K : SumFunctionOnSet(sums, J) # SumFunctionOnSet(f, In(J))}
<1>1. ASSUME NEW J \in Bad, \A L \in Bad : L \subseteq J => L = J PROVE FALSE
  <2>1. IsFiniteSet(J) /\ \A k \in J : sums[k] \in Int
    <3>1. \A k : IsFiniteSet(Of(k))
      BY FS_Subset
    <3>2. \A k \in K : SumFunctionOnSet(f, Of(k)) \in Int
      BY <3>1, SumTyped
    <3> QED BY <3>2, FS_Subset
  <2>2. J # {}
    <3>1. In({}) = {}
      OBVIOUS
    <3> QED BY <3>1, SumOfNone
  <2>3. PICK k : k \in J
    BY <2>2
  <2>4. SumFunctionOnSet(sums, J) = sums[k] + SumFunctionOnSet(sums, J \ {k})
    BY <2>1, <2>3, SumSplit
  <2>5. SumFunctionOnSet(sums, J \ {k}) = SumFunctionOnSet(f, In(J \ {k}))
    BY <1>1, <2>3
  <2>6. In(J) = Of(k) \cup In(J \ {k}) /\ Of(k) \cap In(J \ {k}) = {}
    BY <2>3
  <2>7. IsFiniteSet(Of(k)) /\ IsFiniteSet(In(J \ {k}))
    BY FS_Subset
  <2>8. SumFunctionOnSet(f, In(J)) = SumFunctionOnSet(f, Of(k)) + SumFunctionOnSet(f, In(J \ {k}))
    <3> HIDE DEF Of, In
    <3>1. \A x \in Of(k) \cup In(J \ {k}) : f[x] \in Int
      BY DEF Of, In
    <3>2. PICK A, B : A = Of(k) /\ B = In(J \ {k})
      OBVIOUS
    <3>3. SumFunctionOnSet(f, A \cup B) = SumFunctionOnSet(f, A) + SumFunctionOnSet(f, B)
      BY <2>6, <2>7, <3>1, <3>2, SumUnion
    <3> QED BY <2>6, <3>2, <3>3
  <2> QED BY <2>3, <2>4, <2>5, <2>8
<1>2. Bad = {}
  <2>1. Bad \in SUBSET SUBSET K
    OBVIOUS
  <2> HIDE DEF Bad
  <2>2. ASSUME Bad # {} PROVE FALSE
    <3>1. PICK s \in Bad : \A t \in Bad : t \subseteq s => t = s
      BY <2>1, <2>2, Minimal
    <3> QED BY <3>1, <1>1
  <2> QED BY <2>2
<1>3. In(K) = S
  OBVIOUS
<1> QED BY <1>2, <1>3

-----------------------------------------------------------------------------
(* Orders                                                                  *)

\* R is a strict total order of S.
TotalOrder(R, S) ==
    /\ \A x \in S : <<x, x>> \notin R
    /\ \A x, y, z \in S : <<x, y>> \in R /\ <<y, z>> \in R => <<x, z>> \in R
    /\ \A x, y \in S : x = y \/ <<x, y>> \in R \/ <<y, x>> \in R

\* The image of a finite set is finite.
LEMMA ImageFinite ==
  ASSUME NEW S, IsFiniteSet(S), NEW f
  PROVE  IsFiniteSet({f[x] : x \in S})
<1> DEFINE T == {f[x] : x \in S}
<1>1. PICK g : g = [x \in S |-> f[x]]
  OBVIOUS
<1>2. g \in Surjection(S, T)
  BY <1>1 DEF Surjection
<1> HIDE DEF T
<1>3. IsFiniteSet(T)
  BY <1>2, FS_Surjection
<1> QED BY <1>3 DEF T

\* In a finite set with a strict total order each place is taken by one element,
\* that with as many before it, and the order is that of the places.
LEMMA Ranks ==
  ASSUME NEW S, IsFiniteSet(S), NEW R, TotalOrder(R, S)
  PROVE  /\ \A k \in 1..Cardinality(S) :
              \E x \in S : Cardinality({y \in S : <<y, x>> \in R}) = k - 1
         /\ \A x \in S : Cardinality({y \in S : <<y, x>> \in R}) + 1 \in 1..Cardinality(S)
         /\ \A x, y \in S : <<x, y>> \in R <=> Cardinality({z \in S : <<z, x>> \in R})
                                             < Cardinality({z \in S : <<z, y>> \in R})
<1> DEFINE Before(x) == {y \in S : <<y, x>> \in R}
           n == Cardinality(S)
           rank == [x \in S |-> Cardinality(Before(x)) + 1]
<1>1. \A x \in S : IsFiniteSet(Before(x)) /\ Cardinality(Before(x)) \in Nat
  BY FS_Subset, FS_CardinalityType
<1>2. ASSUME NEW x \in S, NEW y \in S, <<x, y>> \in R
      PROVE  Cardinality(Before(x)) < Cardinality(Before(y))
  <2>1. Before(x) \subseteq Before(y) /\ x \in Before(y) /\ x \notin Before(x)
    BY <1>2 DEF TotalOrder
  <2> HIDE DEF Before
  <2>2. Cardinality(Before(x)) <= Cardinality(Before(y))
        /\ (Cardinality(Before(x)) = Cardinality(Before(y)) => Before(x) = Before(y))
    BY <1>1, <2>1, FS_Subset
  <2> QED BY <1>1, <2>1, <2>2
<1>3. ASSUME NEW x \in S, NEW y \in S, Cardinality(Before(x)) < Cardinality(Before(y))
      PROVE  <<x, y>> \in R
  <2> HIDE DEF Before
  <2>1. CASE x = y
    BY <1>1, <1>3, <2>1
  <2>2. CASE <<y, x>> \in R
    BY <1>1, <1>2, <1>3, <2>2
  <2> QED BY <2>1, <2>2 DEF TotalOrder
<1>4. ASSUME NEW x \in S PROVE Cardinality(Before(x)) + 1 \in 1..n
  <2>1. Before(x) \subseteq S \ {x}
    BY DEF TotalOrder
  <2>2. IsFiniteSet(S \ {x}) /\ Cardinality(S \ {x}) = n - 1 /\ n \in Nat
    BY FS_RemoveElement, FS_CardinalityType
  <2> HIDE DEF Before
  <2>3. Cardinality(Before(x)) <= n - 1
    BY <2>1, <2>2, FS_Subset
  <2> QED BY <1>1, <2>2, <2>3
<1> HIDE DEF Before
<1>5. rank \in Injection(S, 1..n)
  <2>1. rank \in [S -> 1..n]
    BY <1>4
  <2>2. ASSUME NEW x \in S, NEW y \in S, rank[x] = rank[y] PROVE x = y
    <3>1. Cardinality(Before(x)) = Cardinality(Before(y))
      BY <1>1, <2>2
    <3>2. ~(<<x, y>> \in R) /\ ~(<<y, x>> \in R)
      BY <1>1, <1>2, <3>1
    <3> QED BY <3>2 DEF TotalOrder
  <2> QED BY <2>1, <2>2 DEF Injection, IsInjective
<1>6. rank \in Surjection(S, 1..n)
  <2>1. n \in Nat
    BY FS_CardinalityType
  <2>2. IsFiniteSet(1..n) /\ Cardinality(1..n) = n
    BY <2>1, FS_Interval
  <2> HIDE DEF rank
  <2> QED BY <1>5, <2>2, FS_Injection
<1>7. ASSUME NEW k \in 1..n PROVE \E x \in S : Cardinality(Before(x)) = k - 1
  <2>1. PICK x \in S : rank[x] = k
    BY <1>6 DEF Surjection
  <2>2. n \in Nat /\ k \in Nat
    BY FS_CardinalityType
  <2> QED BY <1>1, <2>1, <2>2
<1> QED BY <1>2, <1>3, <1>4, <1>7 DEF Before
=============================================================================
