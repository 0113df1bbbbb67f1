----------------------------- MODULE SumProofs -----------------------------
(***************************************************************************)
(* Sums of the values of a function over a finite set (SumFunctionOnSet of *)
(* the community module Functions).  The sum is a recursive function over  *)
(* the subsets of the set; its existence and its uniqueness are shown with *)
(* a least counterexample, by the well-foundedness of the naturals.        *)
(***************************************************************************)
EXTENDS Integers, FiniteSets, Functions, FiniteSetTheorems, WellFoundedInduction, TLAPS

\* The element that is taken off first.
Picked(s) == CHOOSE x \in s : TRUE

\* h adds up f over every subset of S.
Adds(f, S, h) ==
    h = [s \in SUBSET S |-> IF s = {} THEN 0 ELSE f[Picked(s)] + h[s \ {Picked(s)}]]

\* What SumFunctionOnSet stands for.
LEMMA SumIs ==
    ASSUME NEW f, NEW S
    PROVE  SumFunctionOnSet(f, S) = (CHOOSE h : Adds(f, S, h))[S]
  BY Zenon DEF SumFunctionOnSet, FoldFunctionOnSet, MapThenFoldSet, Adds, Picked

\* A set of naturals has a least member.
LEMMA LeastOf ==
    ASSUME NEW T \in SUBSET Nat, T # {}
    PROVE  \E n \in T : \A m \in T : n <= m
<1>1. PICK n \in T : \A m \in T : ~(<<m, n>> \in OpToRel(<, Nat))
  BY WFMin, NatLessThanWellFounded
<1>2. ASSUME NEW m \in T PROVE n <= m
  <2>1. ~(m < n)
    BY <1>1 DEF OpToRel
  <2> QED BY <2>1
<1> QED BY <1>2

\* A sum over S agrees with a sum over a part of it on the part.
LEMMA AddsAgree ==
    ASSUME NEW f, NEW S, IsFiniteSet(S), NEW R \in SUBSET S,
           NEW h, Adds(f, S, h), NEW g, Adds(f, R, g)
    PROVE  \A s \in SUBSET R : h[s] = g[s]
<1> DEFINE Bad == {s \in SUBSET R : h[s] # g[s]}
           Sizes == {Cardinality(s) : s \in Bad}
<1>1. SUFFICES ASSUME Bad # {} PROVE FALSE
  OBVIOUS
<1>2. ASSUME NEW s \in SUBSET R PROVE IsFiniteSet(s) /\ Cardinality(s) \in Nat
  BY FS_Subset, FS_CardinalityType
<1>3. Sizes \in SUBSET Nat /\ Sizes # {}
  BY <1>1, <1>2
<1>4. PICK n \in Sizes : \A m \in Sizes : n <= m
  BY <1>3, LeastOf
<1>5. PICK s \in Bad : n = Cardinality(s)
  BY <1>4
<1>6. ASSUME NEW t \in SUBSET R
      PROVE  /\ h[t] = IF t = {} THEN 0 ELSE f[Picked(t)] + h[t \ {Picked(t)}]
             /\ g[t] = IF t = {} THEN 0 ELSE f[Picked(t)] + g[t \ {Picked(t)}]
  BY DEF Adds
<1>7. s # {}
  BY <1>5, <1>6
<1>8. Picked(s) \in s
  BY <1>7 DEF Picked
<1>9. Cardinality(s \ {Picked(s)}) = n - 1
  BY <1>2, <1>5, <1>8, FS_RemoveElement
<1>10. s \ {Picked(s)} \notin Bad
  BY <1>2, <1>3, <1>4, <1>5, <1>9
<1> QED BY <1>5, <1>6, <1>7, <1>10

\* The sum of f over t.
Total(f, t) == (CHOOSE h : Adds(f, t, h))[t]

\* Every finite set has its sums.
LEMMA AddsExists ==
    ASSUME NEW f, NEW S, IsFiniteSet(S)
    PROVE  \E h : Adds(f, S, h)
<1> DEFINE Bad == {s \in SUBSET S : ~\E h : Adds(f, s, h)}
           Sizes == {Cardinality(s) : s \in Bad}
<1>1. SUFFICES Bad = {}
  OBVIOUS
<1>2. SUFFICES ASSUME Bad # {} PROVE FALSE
  OBVIOUS
<1>3. ASSUME NEW s \in SUBSET S PROVE IsFiniteSet(s) /\ Cardinality(s) \in Nat
  BY FS_Subset, FS_CardinalityType
<1>4. Sizes \in SUBSET Nat /\ Sizes # {}
  BY <1>2, <1>3
<1>5. PICK n \in Sizes : \A m \in Sizes : n <= m
  BY <1>4, LeastOf
<1>6. PICK s \in Bad : n = Cardinality(s)
  BY <1>5
<1>7. ASSUME NEW t \in SUBSET s, t # {}
      PROVE  \E g : Adds(f, t \ {Picked(t)}, g)
  <2>1. Picked(t) \in t
    BY <1>7 DEF Picked
  <2>2. Cardinality(t \ {Picked(t)}) = Cardinality(t) - 1
    BY <1>3, <2>1, FS_RemoveElement
  <2>3. Cardinality(t) <= Cardinality(s)
    BY <1>3, FS_Subset
  <2>4. Cardinality(t \ {Picked(t)}) < n
    BY <1>3, <1>6, <2>2, <2>3
  <2>5. t \ {Picked(t)} \notin Bad
    BY <1>4, <1>5, <2>4
  <2> QED BY <2>5
<1> DEFINE h == [t \in SUBSET s |-> IF t = {} THEN 0
                                    ELSE f[Picked(t)] + Total(f, t \ {Picked(t)})]
<1>8. ASSUME NEW t \in SUBSET s, t # {}
      PROVE  Total(f, t \ {Picked(t)}) = h[t \ {Picked(t)}]
  <2> DEFINE u == t \ {Picked(t)}
             g == CHOOSE g : Adds(f, u, g)
  <2>1. Adds(f, u, g)
    BY <1>7, <1>8
  <2>2. Total(f, u) = IF u = {} THEN 0 ELSE f[Picked(u)] + g[u \ {Picked(u)}]
    BY <2>1 DEF Adds, Total
  <2>3. CASE u = {}
    BY <2>2, <2>3
  <2>4. CASE u # {}
    <3> DEFINE v == u \ {Picked(u)}
               k == CHOOSE k : Adds(f, v, k)
    <3>1. Adds(f, v, k)
      BY <1>7, <2>4
    <3>2. g[v] = k[v]
      <4>1. u \in SUBSET S /\ IsFiniteSet(u) /\ v \in SUBSET u
        BY <1>3
      <4> HIDE DEF u, v, g, k
      <4>2. \A r \in SUBSET v : g[r] = k[r]
        BY <2>1, <3>1, <4>1, AddsAgree
      <4> QED BY <4>2
    <3>3. h[u] = f[Picked(u)] + k[v]
      BY <2>4 DEF Total
    <3> QED BY <2>2, <2>4, <3>2, <3>3
  <2> QED BY <2>3, <2>4
<1>9. h = [t \in SUBSET s |-> IF t = {} THEN 0 ELSE f[Picked(t)] + h[t \ {Picked(t)}]]
  BY <1>8
<1>10. Adds(f, s, h)
  BY <1>9 DEF Adds
<1> QED BY <1>6, <1>10

\* A sum is the picked value and the sum of the rest.
LEMMA SumUnfolds ==
    ASSUME NEW f, NEW S, IsFiniteSet(S)
    PROVE  SumFunctionOnSet(f, S)
             = IF S = {} THEN 0
               ELSE f[Picked(S)] + SumFunctionOnSet(f, S \ {Picked(S)})
<1> DEFINE R == S \ {Picked(S)}
           h == CHOOSE h : Adds(f, S, h)
           g == CHOOSE g : Adds(f, R, g)
<1>1. R \in SUBSET S /\ IsFiniteSet(R) /\ IsFiniteSet(S)
  BY FS_Subset
<1>2. Adds(f, S, h) /\ Adds(f, R, g)
  BY <1>1, AddsExists
<1>3. SumFunctionOnSet(f, S) = h[S] /\ SumFunctionOnSet(f, R) = g[R]
  BY SumIs
<1>4. h[R] = g[R]
  <2>1. ASSUME NEW Q \in SUBSET S, NEW hh, NEW gg, Adds(f, S, hh), Adds(f, Q, gg)
        PROVE  hh[Q] = gg[Q]
    BY <2>1, AddsAgree
  <2> HIDE DEF R, h, g
  <2> QED BY <1>1, <1>2, <2>1
<1>5. h[S] = IF S = {} THEN 0 ELSE f[Picked(S)] + h[R]
  <2> HIDE DEF h
  <2> QED BY <1>2 DEF Adds
<1> QED BY <1>3, <1>4, <1>5

\* The members of T whose class is one of s.
Classes(T, class, s) == {e \in T : class[e] \in s}

\* What the classes of a partition hold adds up to what the whole holds.
LEMMA SumCounts ==
    ASSUME NEW S, IsFiniteSet(S), NEW T, IsFiniteSet(T), NEW class,
           NEW f, \A l \in S : f[l] = Cardinality(Classes(T, class, {l}))
    PROVE  SumFunctionOnSet(f, S) = Cardinality(Classes(T, class, S))
<1> DEFINE In(s) == Classes(T, class, s)
           Bad == {s \in SUBSET S : SumFunctionOnSet(f, s) # Cardinality(In(s))}
           Sizes == {Cardinality(s) : s \in Bad}
<1>1. SUFFICES ASSUME Bad # {} PROVE FALSE
  OBVIOUS
<1>2. ASSUME NEW s \in SUBSET S PROVE IsFiniteSet(s) /\ Cardinality(s) \in Nat
  BY FS_Subset, FS_CardinalityType
<1>3. Sizes \in SUBSET Nat /\ Sizes # {}
  BY <1>1, <1>2
<1>4. PICK n \in Sizes : \A m \in Sizes : n <= m
  BY <1>3, LeastOf
<1>5. PICK s \in Bad : n = Cardinality(s)
  BY <1>4
<1>6. s # {}
  <2>1. SUFFICES ASSUME s = {} PROVE FALSE
    OBVIOUS
  <2>2. SumFunctionOnSet(f, s) = 0
    BY <1>2, <2>1, SumUnfolds
  <2>3. Cardinality(In(s)) = 0
    BY <2>1, FS_EmptySet DEF Classes
  <2> QED BY <1>5, <2>2, <2>3
<1> DEFINE x == Picked(s)
           r == s \ {x}
<1>7. x \in s
  BY <1>6 DEF Picked
<1>8. Cardinality(r) = n - 1
  BY <1>2, <1>5, <1>7, FS_RemoveElement
<1>9. r \notin Bad
  <2>1. SUFFICES ASSUME r \in Bad PROVE FALSE
    OBVIOUS
  <2>2. n \in Nat /\ Cardinality(r) \in Sizes
    BY <1>3, <2>1
  <2> HIDE DEF Sizes
  <2> QED BY <1>4, <1>8, <2>2
<1>10. SumFunctionOnSet(f, s) = f[x] + SumFunctionOnSet(f, r)
  BY <1>2, <1>6, SumUnfolds
<1>11. f[x] = Cardinality(In({x}))
  BY <1>7
<1>12. Cardinality(In(s)) = Cardinality(In({x})) + Cardinality(In(r))
  <2> DEFINE A == In({x})
  <2>1. IsFiniteSet(A) /\ IsFiniteSet(In(r))
    BY FS_Subset DEF Classes
  <2>2. A \cup In(r) = In(s) /\ A \cap In(r) = {}
    BY <1>7 DEF Classes
  <2>3. Cardinality(A \cup In(r)) = Cardinality(A) + Cardinality(In(r)) - Cardinality(A \cap In(r))
    BY <2>1, FS_Union
  <2>4. Cardinality(A) \in Nat /\ Cardinality(In(r)) \in Nat
    BY <2>1, FS_CardinalityType
  <2>5. Cardinality(A \cap In(r)) = 0
    BY <2>2, FS_EmptySet
  <2>6. Cardinality(In(s)) = Cardinality(A \cup In(r))
    BY <2>2
  <2>7. PICK a, b, c, d : /\ a = Cardinality(A) /\ b = Cardinality(In(r))
                          /\ c = Cardinality(A \cup In(r)) /\ d = Cardinality(A \cap In(r))
    OBVIOUS
  <2>8. c = a + b
    BY <2>3, <2>4, <2>5, <2>7
  <2> QED BY <2>6, <2>7, <2>8
<1> QED BY <1>5, <1>9, <1>10, <1>11, <1>12

\* A sum of integers is one.
LEMMA SumInt ==
    ASSUME NEW f, NEW S, IsFiniteSet(S), \A x \in S : f[x] \in Int
    PROVE  SumFunctionOnSet(f, S) \in Int
<1> DEFINE Bad == {s \in SUBSET S : SumFunctionOnSet(f, s) \notin Int}
           Sizes == {Cardinality(s) : s \in Bad}
<1>1. SUFFICES ASSUME Bad # {} PROVE FALSE
  OBVIOUS
<1>2. ASSUME NEW s \in SUBSET S PROVE IsFiniteSet(s) /\ Cardinality(s) \in Nat
  BY FS_Subset, FS_CardinalityType
<1>3. Sizes \in SUBSET Nat /\ Sizes # {}
  BY <1>1, <1>2
<1>4. PICK n \in Sizes : \A m \in Sizes : n <= m
  BY <1>3, LeastOf
<1>5. PICK s \in Bad : n = Cardinality(s)
  BY <1>4
<1>6. s # {}
  <2>1. SUFFICES ASSUME s = {} PROVE FALSE
    OBVIOUS
  <2>2. SumFunctionOnSet(f, s) = 0
    BY <1>2, <2>1, SumUnfolds
  <2> QED BY <1>5, <2>2
<1> DEFINE x == Picked(s)
           r == s \ {x}
<1>7. x \in s
  BY <1>6 DEF Picked
<1>8. Cardinality(r) = n - 1
  BY <1>2, <1>5, <1>7, FS_RemoveElement
<1>9. r \notin Bad
  <2>1. SUFFICES ASSUME r \in Bad PROVE FALSE
    OBVIOUS
  <2>2. n \in Nat /\ Cardinality(r) \in Sizes
    BY <1>3, <2>1
  <2> HIDE DEF Sizes
  <2> QED BY <1>4, <1>8, <2>2
<1>10. SumFunctionOnSet(f, s) = f[x] + SumFunctionOnSet(f, r)
  BY <1>2, <1>6, SumUnfolds
<1>11. f[x] \in Int /\ SumFunctionOnSet(f, r) \in Int
  BY <1>7, <1>9
<1> HIDE DEF x, r
<1> QED BY <1>5, <1>10, <1>11

\* Any member may be taken off first.
LEMMA SumPick ==
    ASSUME NEW f, NEW S, IsFiniteSet(S), \A x \in S : f[x] \in Int, NEW y \in S
    PROVE  SumFunctionOnSet(f, S) = f[y] + SumFunctionOnSet(f, S \ {y})
<1> DEFINE Splits(s, x) == SumFunctionOnSet(f, s) = f[x] + SumFunctionOnSet(f, s \ {x})
           Bad == {s \in SUBSET S : \E x \in s : ~Splits(s, x)}
           Sizes == {Cardinality(s) : s \in Bad}
<1>1. SUFFICES ASSUME Bad # {} PROVE FALSE
  OBVIOUS
<1>2. ASSUME NEW s \in SUBSET S PROVE IsFiniteSet(s) /\ Cardinality(s) \in Nat
  BY FS_Subset, FS_CardinalityType
<1>3. Sizes \in SUBSET Nat /\ Sizes # {}
  BY <1>1, <1>2
<1>4. PICK n \in Sizes : \A m \in Sizes : n <= m
  BY <1>3, LeastOf
<1>5. PICK s \in Bad : n = Cardinality(s)
  BY <1>4
<1>6. PICK x \in s : ~Splits(s, x)
  BY <1>5
<1>7. ASSUME NEW z \in s PROVE s \ {z} \notin Bad
  <2>1. SUFFICES ASSUME s \ {z} \in Bad PROVE FALSE
    OBVIOUS
  <2>2. Cardinality(s \ {z}) = n - 1
    BY <1>2, <1>5, FS_RemoveElement
  <2>3. n \in Nat /\ Cardinality(s \ {z}) \in Sizes
    BY <1>3, <2>1
  <2> HIDE DEF Sizes
  <2> QED BY <1>4, <2>2, <2>3
<1>8. PICK p \in s : p = Picked(s)
  BY <1>6 DEF Picked
<1>9. SumFunctionOnSet(f, s) = f[p] + SumFunctionOnSet(f, s \ {p})
  BY <1>2, <1>6, <1>8, SumUnfolds
<1>10. x # p
  BY <1>6, <1>9
<1>11. Splits(s \ {p}, x) /\ Splits(s \ {x}, p)
  BY <1>7, <1>8, <1>10
<1>12. PICK r : r = (s \ {p}) \ {x} /\ r = (s \ {x}) \ {p}
  OBVIOUS
<1>13. SumFunctionOnSet(f, r) \in Int /\ f[x] \in Int /\ f[p] \in Int
  <2>1. r \in SUBSET S
    BY <1>12
  <2> QED BY <1>2, <2>1, SumInt
<1>14. /\ SumFunctionOnSet(f, s \ {p}) = f[x] + SumFunctionOnSet(f, r)
       /\ SumFunctionOnSet(f, s \ {x}) = f[p] + SumFunctionOnSet(f, r)
  BY <1>11, <1>12
<1>15. SumFunctionOnSet(f, s) = f[x] + SumFunctionOnSet(f, s \ {x})
  BY <1>9, <1>13, <1>14
<1> QED BY <1>6, <1>15

\* The last of a sequence of values is taken off first.
LEMMA SumLast ==
    ASSUME NEW f, NEW k \in Nat \ {0}, \A i \in 1..k : f[i] \in Int
    PROVE  SumFunctionOnSet(f, 1..k) = f[k] + SumFunctionOnSet(f, 1..(k - 1))
<1>1. (1..k) \ {k} = 1..(k - 1) /\ k \in 1..k
  OBVIOUS
<1>2. IsFiniteSet(1..k)
  BY FS_Interval
<1> QED BY <1>1, <1>2, SumPick

\* The first n values of f are g's and the next m are h's.
Joins(f, n, g, m, h) ==
    /\ \A i \in 1..n : f[i] = g[i] /\ g[i] \in Int
    /\ \A i \in 1..m : f[n + i] = h[i] /\ h[i] \in Int

\* The sum is then theirs.
LEMMA SumJoins ==
    ASSUME NEW n \in Nat, NEW m \in Nat, NEW f, NEW g, NEW h, Joins(f, n, g, m, h)
    PROVE  /\ SumFunctionOnSet(f, 1..(n + m)) = SumFunctionOnSet(g, 1..n) + SumFunctionOnSet(h, 1..m)
           /\ SumFunctionOnSet(g, 1..n) \in Int /\ SumFunctionOnSet(h, 1..m) \in Int
<1> USE DEF Joins
<1>0. ASSUME NEW k \in Nat PROVE IsFiniteSet(1..k)
  BY FS_Interval
<1>1. ASSUME NEW k \in 0..(n + m), NEW i \in 1..k PROVE f[i] \in Int
  <2>1. CASE i <= n
    BY <2>1
  <2>2. CASE ~(i <= n)
    <3>1. i - n \in 1..m /\ n + (i - n) = i
      BY <2>2
    <3> QED BY <3>1
  <2> QED BY <2>1, <2>2
<1>2. ASSUME NEW k \in 1..(n + m)
      PROVE  SumFunctionOnSet(f, 1..k) = f[k] + SumFunctionOnSet(f, 1..(k - 1))
  <2>1. k \in Nat \ {0} /\ \A i \in 1..k : f[i] \in Int
    BY <1>1
  <2> QED BY <2>1, SumLast
<1>3. ASSUME NEW k \in 1..n
      PROVE  SumFunctionOnSet(g, 1..k) = g[k] + SumFunctionOnSet(g, 1..(k - 1))
  <2>1. k \in Nat \ {0} /\ \A i \in 1..k : g[i] \in Int
    OBVIOUS
  <2> QED BY <2>1, SumLast
<1>4. ASSUME NEW k \in 1..m
      PROVE  SumFunctionOnSet(h, 1..k) = h[k] + SumFunctionOnSet(h, 1..(k - 1))
  <2>1. k \in Nat \ {0} /\ \A i \in 1..k : h[i] \in Int
    OBVIOUS
  <2> QED BY <2>1, SumLast
<1>5. \A F : SumFunctionOnSet(F, 1..0) = 0
  <2>1. 1..0 = {} /\ IsFiniteSet({})
    BY FS_EmptySet
  <2> QED BY <2>1, SumUnfolds
<1>6. SumFunctionOnSet(f, 1..n) = SumFunctionOnSet(g, 1..n)
  <2> DEFINE Bad == {k \in 0..n : SumFunctionOnSet(f, 1..k) # SumFunctionOnSet(g, 1..k)}
  <2>1. SUFFICES ASSUME Bad # {} PROVE FALSE
    OBVIOUS
  <2>a. Bad \in SUBSET Nat
    OBVIOUS
  <2>2. PICK k \in Bad : \A j \in Bad : k <= j
    <3> HIDE DEF Bad
    <3> QED BY <2>1, <2>a, LeastOf
  <2>3. k # 0
    BY <1>5, <2>2
  <2>4. k \in 1..n /\ k - 1 \in 0..n /\ k - 1 \notin Bad /\ k \in 1..(n + m)
    BY <2>2, <2>3
  <2> QED BY <1>2, <1>3, <2>2, <2>4
<1>7. SumFunctionOnSet(g, 1..n) \in Int /\ SumFunctionOnSet(h, 1..m) \in Int
  BY <1>0, SumInt
<1>8. SumFunctionOnSet(f, 1..(n + m)) = SumFunctionOnSet(g, 1..n) + SumFunctionOnSet(h, 1..m)
  <2> DEFINE Bad == {k \in 0..m : SumFunctionOnSet(f, 1..(n + k))
                                    # SumFunctionOnSet(g, 1..n) + SumFunctionOnSet(h, 1..k)}
  <2>1. SUFFICES ASSUME Bad # {} PROVE FALSE
    OBVIOUS
  <2>a. Bad \in SUBSET Nat
    OBVIOUS
  <2>2. PICK k \in Bad : \A j \in Bad : k <= j
    <3> HIDE DEF Bad
    <3> QED BY <2>1, <2>a, LeastOf
  <2>3. k # 0
    <3>1. SUFFICES ASSUME k = 0 PROVE FALSE
      OBVIOUS
    <3>2. n + k = n /\ SumFunctionOnSet(h, 1..k) = 0
      BY <1>5, <3>1
    <3> QED BY <1>6, <1>7, <2>2, <3>2
  <2>4. k \in 1..m /\ k - 1 \in 0..m /\ k - 1 \notin Bad /\ n + k \in 1..(n + m) /\ k - 1 \in Nat
    BY <2>2, <2>3
  <2>5. SumFunctionOnSet(f, 1..(n + k)) = f[n + k] + SumFunctionOnSet(f, 1..(n + (k - 1)))
    <3>1. n + k - 1 = n + (k - 1)
      BY <2>4
    <3> QED BY <1>2, <2>4, <3>1
  <2>6. SumFunctionOnSet(f, 1..(n + (k - 1))) = SumFunctionOnSet(g, 1..n) + SumFunctionOnSet(h, 1..(k - 1))
    BY <2>4
  <2>7. SumFunctionOnSet(h, 1..k) = h[k] + SumFunctionOnSet(h, 1..(k - 1))
    BY <1>4, <2>4
  <2>8. f[n + k] = h[k] /\ h[k] \in Int /\ SumFunctionOnSet(h, 1..(k - 1)) \in Int
    <3>1. \A i \in 1..(k - 1) : h[i] \in Int
      BY <2>4
    <3> QED BY <1>0, <2>4, <3>1, SumInt
  <2>9. SumFunctionOnSet(f, 1..(n + k)) = SumFunctionOnSet(g, 1..n) + SumFunctionOnSet(h, 1..k)
    <3>1. PICK a, b, c : a = SumFunctionOnSet(g, 1..n) /\ b = SumFunctionOnSet(h, 1..(k - 1)) /\ c = h[k]
      OBVIOUS
    <3>2. a \in Int /\ b \in Int /\ c \in Int
      BY <1>7, <2>8, <3>1
    <3>3. c + (a + b) = a + (c + b)
      BY <3>2
    <3> QED BY <2>5, <2>6, <2>7, <2>8, <3>1, <3>3
  <2> QED BY <2>2, <2>9
<1> QED BY <1>7, <1>8
=============================================================================
