-------------------------------- MODULE Sums --------------------------------
(***************************************************************************)
(* Theorems about the sum of a function over a finite set, as the models   *)
(* write it with MapThenSumSet.  MapThenSumSet takes the elements out of   *)
(* the set in an order of its own, with a recursive function on the        *)
(* subsets.  That this function exists, and that the order does not        *)
(* matter, is proved by taking a smallest set for which it fails.          *)
(***************************************************************************)
EXTENDS Integers, FiniteSetsExt, FiniteSetTheorems, FunctionTheorems, TLAPS

SumOf(f, S) == MapThenSumSet(LAMBDA x : f[x], S)

\* The element that MapThenSumSet takes first.
First(s) == CHOOSE x \in s : TRUE

\* it is the recursive function of MapThenSumSet.
Iterates(it, f, S) ==
    it = [s \in SUBSET S |-> IF s = {} THEN 0 ELSE f[First(s)] + it[s \ {First(s)}]]

LEMMA SumIsIteration ==
    ASSUME NEW f, NEW S
    PROVE  SumOf(f, S) = (CHOOSE it : Iterates(it, f, S))[S]
BY DEF SumOf, MapThenSumSet, MapThenFoldSet, Iterates, First

LEMMA FirstIsMember ==
    ASSUME NEW s, s # {}
    PROVE  First(s) \in s
BY DEF First

\* Of a non-empty set of subsets of a finite set one has no other below it.
LEMMA SmallestSubset ==
    ASSUME NEW S, IsFiniteSet(S), NEW T \in SUBSET (SUBSET S), T # {}
    PROVE  \E s \in T : \A u \in T : u \subseteq s => u = s
<1>1. IsWellFoundedOn(StrictSubsetOrdering(S), SUBSET S)
  BY FS_StrictSubsetOrderingWellFounded, FS_FiniteSubsetsOfFinite
<1>2. PICK s \in T : \A u \in T : <<u, s>> \notin StrictSubsetOrdering(S)
  BY <1>1, WFMin
<1>3. ASSUME NEW u \in T, u \subseteq s PROVE u = s
  <2>1. <<u, s>> \in (SUBSET S) \X (SUBSET S)  OBVIOUS
  <2> QED  BY <1>2, <1>3, <2>1 DEF StrictSubsetOrdering
<1> QED  BY <1>3

\* Two iterations agree on the sets that both of them sum.
LEMMA IterationsAgree ==
    ASSUME NEW S, IsFiniteSet(S), NEW f, NEW g, NEW h, NEW it, NEW iu, NEW U \in SUBSET S,
           Iterates(it, g, S), Iterates(iu, h, U),
           \A x \in U : g[x] = h[x]
    PROVE  \A s \in SUBSET U : it[s] = iu[s]
<1> DEFINE Bad == {s \in SUBSET U : it[s] # iu[s]}
<1>1. SUFFICES ASSUME Bad # {} PROVE FALSE  OBVIOUS
<1>2. PICK s \in Bad : \A u \in Bad : u \subseteq s => u = s
  <2>1. Bad \in SUBSET (SUBSET S)  OBVIOUS
  <2> HIDE DEF Bad
  <2> QED  BY <1>1, <2>1, SmallestSubset
<1>3. s \in SUBSET U /\ s \in SUBSET S /\ it[s] # iu[s]  OBVIOUS
<1>4. s # {}  BY <1>3 DEF Iterates
<1> DEFINE x == First(s)
<1>5. x \in s  BY <1>4, FirstIsMember
<1>6. it[s \ {x}] = iu[s \ {x}]
  <2>1. s \ {x} \in SUBSET U  BY <1>3
  <2>2. s \ {x} \notin Bad  BY <1>2, <1>5
  <2> QED  BY <2>1, <2>2
<1>7. it[s] = g[x] + it[s \ {x}]  BY <1>3, <1>4 DEF Iterates
<1>8. iu[s] = h[x] + iu[s \ {x}]  BY <1>3, <1>4 DEF Iterates
<1> QED  BY <1>3, <1>5, <1>6, <1>7, <1>8

\* The recursive function exists.
LEMMA IterationExists ==
    ASSUME NEW S, IsFiniteSet(S), NEW f
    PROVE  \E it : Iterates(it, f, S)
<1> DEFINE Bad == {s \in SUBSET S : ~ \E it : Iterates(it, f, s)}
<1>1. SUFFICES ASSUME Bad # {} PROVE FALSE  OBVIOUS
<1>2. PICK s \in Bad : \A u \in Bad : u \subseteq s => u = s
  <2>1. Bad \in SUBSET (SUBSET S)  OBVIOUS
  <2> HIDE DEF Bad
  <2> QED  BY <1>1, <2>1, SmallestSubset
<1>3. s \in SUBSET S /\ ~ \E it : Iterates(it, f, s)  OBVIOUS
<1>4. ASSUME NEW u \in SUBSET s, u # s PROVE \E it : Iterates(it, f, u)
  BY <1>2, <1>3, <1>4
<1> DEFINE Part(u) == CHOOSE it : Iterates(it, f, u)
           x == First(s)
           all == [u \in SUBSET s |->
                     IF u = {} THEN 0
                     ELSE IF u = s THEN f[x] + Part(s \ {x})[s \ {x}] ELSE Part(u)[u]]
<1>5. ASSUME NEW u \in SUBSET s, u # s PROVE Iterates(Part(u), f, u)
  BY <1>4, <1>5
<1>6. ASSUME NEW u \in SUBSET s, u # {}
      PROVE  all[u] = f[First(u)] + all[u \ {First(u)}]
  <2> DEFINE y == First(u)
             v == u \ {y}
  <2>1. y \in u  BY <1>6, FirstIsMember
  <2>2. v \in SUBSET s /\ v # s /\ v \in SUBSET u  BY <2>1
  <2>3. Iterates(Part(v), f, v)  BY <1>5, <2>2
  <2>4. all[v] = Part(v)[v]
    <3>1. CASE v = {}
      <4>1. Part(v)[v] = 0
        <5> HIDE DEF v, Part
        <5> QED  BY <2>3, <3>1 DEF Iterates
      <4> QED  BY <2>2, <3>1, <4>1
    <3>2. CASE v # {}
      <4> HIDE DEF v, Part
      <4> QED  BY <2>2, <3>2
    <3> QED  BY <3>1, <3>2
  <2>5. all[u] = f[y] + Part(v)[v]
    <3>1. CASE u = s
      <4> HIDE DEF Part
      <4> QED  BY <1>6, <3>1
    <3>2. CASE u # s
      <4>1. Iterates(Part(u), f, u)  BY <1>5, <3>2
      <4>2. Part(u)[u] = f[y] + Part(u)[v]
        <5> HIDE DEF Part
        <5> QED BY <4>1, <1>6 DEF Iterates
      <4>3. IsFiniteSet(u)  BY <1>3, FS_Subset
      <4>4. Part(u)[v] = Part(v)[v]
        <5> HIDE DEF Part, v
        <5> QED  BY <4>1, <4>3, <2>2, <2>3, IterationsAgree
      <4>5. all[u] = Part(u)[u]
        <5> HIDE DEF Part
        <5> QED  BY <1>6, <3>2
      <4> QED  BY <4>2, <4>4, <4>5
    <3> QED  BY <3>1, <3>2
  <2> QED  BY <2>4, <2>5
<1>7. all[{}] = 0
  <2>1. {} \in SUBSET s  OBVIOUS
  <2> HIDE DEF Part
  <2> QED  BY <2>1
<1>8. Iterates(all, f, s)
  <2>1. all = [u \in SUBSET s |-> all[u]]
    <3> DEFINE body(u) == IF u = {} THEN 0
                     ELSE IF u = s THEN f[x] + Part(s \ {x})[s \ {x}] ELSE Part(u)[u]
    <3>1. all = [u \in SUBSET s |-> body(u)] OBVIOUS
    <3> HIDE DEF body, all
    <3> QED BY <3>1
  <2> HIDE DEF all
  <2>2. \A u \in SUBSET s : all[u] = IF u = {} THEN 0 ELSE f[First(u)] + all[u \ {First(u)}]
    BY <1>6, <1>7
  <2>3. [u \in SUBSET s |-> all[u]] =
        [u \in SUBSET s |-> IF u = {} THEN 0 ELSE f[First(u)] + all[u \ {First(u)}]]
    BY <2>2
  <2> QED  BY <2>1, <2>3 DEF Iterates
<1> QED  BY <1>3, <1>8

\* The sum of a subset is one of the values of the iteration over the whole set.
LEMMA SumOfPart ==
    ASSUME NEW S, IsFiniteSet(S), NEW f, NEW it, Iterates(it, f, S), NEW U \in SUBSET S
    PROVE  SumOf(f, U) = it[U]
<1>1. IsFiniteSet(U)  BY FS_Subset
<1>2. PICK iu : Iterates(iu, f, U)  BY <1>1, IterationExists
<1> DEFINE iv == CHOOSE iu0 : Iterates(iu0, f, U)
<1>3. Iterates(iv, f, U)  BY <1>2
<1>4. SumOf(f, U) = iv[U]  BY SumIsIteration
<1> HIDE DEF iv
<1>5. iv[U] = it[U]  BY <1>3, IterationsAgree
<1> QED  BY <1>4, <1>5

LEMMA SumOfEmpty ==
    ASSUME NEW f
    PROVE  SumOf(f, {}) = 0
<1>1. IsFiniteSet({})  BY FS_EmptySet
<1>2. PICK it : Iterates(it, f, {})  BY <1>1, IterationExists
<1>3. SumOf(f, {}) = it[{}]  BY <1>1, <1>2, SumOfPart
<1>4. it[{}] = 0  BY <1>2 DEF Iterates
<1> QED  BY <1>3, <1>4

\* The equation of the recursion.
LEMMA SumOfFirst ==
    ASSUME NEW S, IsFiniteSet(S), S # {}, NEW f
    PROVE  SumOf(f, S) = f[First(S)] + SumOf(f, S \ {First(S)})
<1>1. PICK it : Iterates(it, f, S)  BY IterationExists
<1> DEFINE R == S \ {First(S)}
<1>2. R \in SUBSET S  OBVIOUS
<1>3. SumOf(f, S) = it[S]  BY <1>1, SumOfPart
<1>4. SumOf(f, R) = it[R]  BY <1>1, <1>2, SumOfPart
<1>5. it[S] = f[First(S)] + it[R]  BY <1>1 DEF Iterates
<1> QED  BY <1>3, <1>4, <1>5

\* Only the values at the elements matter (a person outside may change).
THEOREM SumSame ==
    ASSUME NEW S, IsFiniteSet(S), NEW f, NEW g, \A x \in S : f[x] = g[x]
    PROVE  SumOf(f, S) = SumOf(g, S)
<1>1. PICK it : Iterates(it, f, S)  BY IterationExists
<1>2. PICK iu : Iterates(iu, g, S)  BY IterationExists
<1>3. it[S] = iu[S]  BY <1>1, <1>2, IterationsAgree
<1>4. SumOf(f, S) = it[S] /\ SumOf(g, S) = iu[S]  BY <1>1, <1>2, SumOfPart
<1> QED  BY <1>3, <1>4

\* A sum of integers is an integer (weights, and units that are held).
THEOREM SumType ==
    ASSUME NEW S, IsFiniteSet(S), NEW f, \A x \in S : f[x] \in Int
    PROVE  SumOf(f, S) \in Int
<1> DEFINE Bad == {s \in SUBSET S : SumOf(f, s) \notin Int}
<1>1. SUFFICES ASSUME Bad # {} PROVE FALSE  OBVIOUS
<1>2. PICK s \in Bad : \A u \in Bad : u \subseteq s => u = s
  <2>1. Bad \in SUBSET (SUBSET S)  OBVIOUS
  <2> HIDE DEF Bad
  <2> QED  BY <1>1, <2>1, SmallestSubset
<1>3. s \in SUBSET S /\ SumOf(f, s) \notin Int  OBVIOUS
<1>4. s # {}  BY <1>3, SumOfEmpty
<1> DEFINE x == First(s)
           r == s \ {x}
<1>5. x \in s  BY <1>4, FirstIsMember
<1>6. r \in SUBSET S /\ r \notin Bad  BY <1>2, <1>3, <1>5
<1>7. SumOf(f, r) \in Int  BY <1>6
<1>8. SumOf(f, s) = f[x] + SumOf(f, r)  BY <1>3, <1>4, SumOfFirst, FS_Subset
<1>9. f[x] \in Int  BY <1>3, <1>5
<1> HIDE DEF r, x
<1> QED  BY <1>3, <1>7, <1>8, <1>9

\* Any element can be taken out, whichever MapThenSumSet takes first: a rider
\* of carriedWeight, a process that is killed.
THEOREM SumWithout ==
    ASSUME NEW S, IsFiniteSet(S), NEW f, \A y \in S : f[y] \in Int, NEW x \in S
    PROVE  SumOf(f, S) = SumOf(f, S \ {x}) + f[x]
<1> DEFINE Bad == {s \in SUBSET S : \E z \in s : SumOf(f, s) # SumOf(f, s \ {z}) + f[z]}
<1>1. SUFFICES ASSUME Bad # {} PROVE FALSE  OBVIOUS
<1>2. PICK s \in Bad : \A u \in Bad : u \subseteq s => u = s
  <2>1. Bad \in SUBSET (SUBSET S)  OBVIOUS
  <2> HIDE DEF Bad
  <2> QED  BY <1>1, <2>1, SmallestSubset
<1>3. s \in SUBSET S  OBVIOUS
<1>4. PICK z \in s : SumOf(f, s) # SumOf(f, s \ {z}) + f[z]  OBVIOUS
<1> DEFINE c == First(s)
           sc == s \ {c}
           sz == s \ {z}
           szc == (s \ {z}) \ {c}
<1>5. c \in s  BY FirstIsMember
<1>6. IsFiniteSet(s)  BY <1>3, FS_Subset
<1>7. SumOf(f, s) = f[c] + SumOf(f, sc)  BY <1>6, SumOfFirst
<1>8. /\ IsFiniteSet(sc) /\ IsFiniteSet(sz) /\ IsFiniteSet(szc)
      /\ sc \in SUBSET S /\ sz \in SUBSET S /\ szc \in SUBSET S
  BY <1>3, FS_Subset
<1>9. f[c] \in Int /\ f[z] \in Int  BY <1>3, <1>5
<1>10. /\ SumOf(f, sc) \in Int /\ SumOf(f, szc) \in Int
  <2> HIDE DEF sc, szc
  <2> QED BY <1>8, SumType
<1>11. CASE z = c
  BY <1>4, <1>7, <1>9, <1>10, <1>11
<1>12. CASE z # c
  <2>1. sc \notin Bad  BY <1>2, <1>5
  <2>2. z \in sc  BY <1>12
  <2>3. sc \ {z} = szc  OBVIOUS
  <2>4. SumOf(f, sc) = SumOf(f, szc) + f[z]
    <3>1. SumOf(f, sc) = SumOf(f, sc \ {z}) + f[z]  BY <2>1, <2>2, <1>8
    <3> HIDE DEF sc, szc
    <3> QED  BY <3>1, <2>3
  <2>5. sz \notin Bad  BY <1>2, <1>5
  <2>6. c \in sz  BY <1>12, <1>5
  <2>7. SumOf(f, sz) = SumOf(f, szc) + f[c]  BY <2>5, <2>6, <1>8
  <2> HIDE DEF sc, sz, szc, c
  <2>8. SumOf(f, s) # SumOf(f, sz) + f[z]  BY <1>4 DEF sz
  <2> QED  BY <1>7, <1>9, <1>10, <2>4, <2>7, <2>8
<1> QED  BY <1>11, <1>12

\* An element that is not in the set adds its value, as a person who enters
\* adds to carriedWeight.
THEOREM SumWith ==
    ASSUME NEW S, IsFiniteSet(S), NEW f, \A y \in S : f[y] \in Int,
           NEW x, x \notin S, f[x] \in Int
    PROVE  SumOf(f, S \cup {x}) = SumOf(f, S) + f[x]
<1> DEFINE T == S \cup {x}
<1>1. IsFiniteSet(T)  BY FS_AddElement
<1>2. T \ {x} = S /\ x \in T /\ \A y \in T : f[y] \in Int  OBVIOUS
<1> HIDE DEF T
<1>3. SumOf(f, T) = SumOf(f, T \ {x}) + f[x]  BY <1>1, <1>2, SumWithout
<1> QED  BY <1>2, <1>3 DEF T

\* Natural numbers: a part of the set has no more than the whole.
THEOREM SumOfSubset ==
    ASSUME NEW S, IsFiniteSet(S), NEW f, \A x \in S : f[x] \in Nat, NEW U \in SUBSET S
    PROVE  SumOf(f, U) \in Nat /\ SumOf(f, S) \in Nat /\ SumOf(f, U) <= SumOf(f, S)
<1> DEFINE Bad == {s \in SUBSET S :
                     ~ (/\ SumOf(f, s) \in Nat
                        /\ \A u \in SUBSET s : SumOf(f, u) \in Nat /\ SumOf(f, u) <= SumOf(f, s))}
<1>1. SUFFICES ASSUME Bad # {} PROVE FALSE
  <2>1. S \notin Bad BY <1>1
  <2> QED BY <2>1
<1>2. PICK s \in Bad : \A u \in Bad : u \subseteq s => u = s
  <2>1. Bad \in SUBSET (SUBSET S)  OBVIOUS
  <2> HIDE DEF Bad
  <2> QED  BY <1>1, <2>1, SmallestSubset
<1>3. s \in SUBSET S /\ IsFiniteSet(s)  BY FS_Subset
<1>4. SumOf(f, s) \in Nat
  <2>1. CASE s = {}  BY <2>1, SumOfEmpty
  <2>2. CASE s # {}
    <3> DEFINE x == First(s)
               r == s \ {x}
    <3>1. x \in s  BY <2>2, FirstIsMember
    <3>2. r \in SUBSET S /\ r \notin Bad  BY <1>2, <1>3, <3>1
    <3>3. SumOf(f, r) \in Nat  BY <3>2
    <3>4. SumOf(f, s) = f[x] + SumOf(f, r)  BY <1>3, <2>2, SumOfFirst
    <3>5. f[x] \in Nat  BY <1>3, <3>1
    <3> HIDE DEF x, r
    <3> QED  BY <3>3, <3>4, <3>5
  <2> QED  BY <2>1, <2>2
<1>5. ASSUME NEW u \in SUBSET s
      PROVE  SumOf(f, u) \in Nat /\ SumOf(f, u) <= SumOf(f, s)
  <2>1. CASE u = s  BY <1>4, <2>1
  <2>2. CASE u # s
    <3>1. PICK x \in s : x \notin u  BY <2>2
    <3> DEFINE r == s \ {x}
    <3>2. r \in SUBSET S /\ r \notin Bad /\ u \in SUBSET r  BY <1>2, <1>3, <3>1
    <3>3. SumOf(f, r) \in Nat /\ SumOf(f, u) \in Nat /\ SumOf(f, u) <= SumOf(f, r)  BY <3>2
    <3>4. SumOf(f, s) = SumOf(f, r) + f[x]
      <4>1. \A y \in s : f[y] \in Int  BY <1>3
      <4> QED  BY <1>3, <4>1, SumWithout
    <3>5. f[x] \in Nat  BY <1>3
    <3> HIDE DEF r
    <3> QED  BY <3>3, <3>4, <3>5
  <2> QED  BY <2>1, <2>2
<1> QED  BY <1>3, <1>4, <1>5

\* The elements can be counted by other names: s maps S one-to-one.
THEOREM SumRenamed ==
    ASSUME NEW S, IsFiniteSet(S), NEW s, NEW f,
           \A x, y \in S : s[x] = s[y] => x = y,
           \A x \in S : f[s[x]] \in Int
    PROVE  SumOf([x \in S |-> f[s[x]]], S) = SumOf(f, {s[x] : x \in S})
<1> DEFINE g == [x \in S |-> f[s[x]]]
           Im(T) == {s[x] : x \in T}
           Bad == {T \in SUBSET S : SumOf(g, T) # SumOf(f, Im(T))}
<1>1. SUFFICES ASSUME Bad # {} PROVE FALSE
  <2>1. S \notin Bad BY <1>1
  <2> QED BY <2>1
<1>2. PICK T \in Bad : \A u \in Bad : u \subseteq T => u = T
  <2>1. Bad \in SUBSET (SUBSET S)  OBVIOUS
  <2> HIDE DEF Bad
  <2> QED  BY <1>1, <2>1, SmallestSubset
<1>3. T \in SUBSET S /\ IsFiniteSet(T)  BY FS_Subset
<1>4. SumOf(g, T) # SumOf(f, Im(T))  OBVIOUS
<1>5. T # {}
  <2>1. Im({}) = {}  OBVIOUS
  <2> HIDE DEF Im
  <2> QED  BY <2>1, <1>4, SumOfEmpty
<1>6. PICK x \in T : TRUE  BY <1>5
<1> DEFINE R == T \ {x}
<1>7. R \in SUBSET S /\ R \notin Bad  BY <1>2, <1>3
<1>8. SumOf(g, R) = SumOf(f, Im(R))  BY <1>7
<1>9. Im(R) = Im(T) \ {s[x]}
  <2>1. \A y \in R : s[y] # s[x]  BY <1>3
  <2> QED  BY <2>1
<1>10. \A y \in S : g[y] \in Int /\ g[y] = f[s[y]]  OBVIOUS
<1>11. SumOf(g, T) = SumOf(g, R) + g[x]
  <2>1. \A y \in T : g[y] \in Int  BY <1>3, <1>10
  <2> HIDE DEF g
  <2> QED  BY <1>3, <2>1, SumWithout
<1>12. SumOf(f, Im(T)) = SumOf(f, Im(R)) + f[s[x]]
  <2>1. IsFiniteSet(Im(T))
    <3>1. s[x] \in Im(T) OBVIOUS
    <3> DEFINE h == [y \in T |-> s[y]]
    <3>2. h \in Surjection(T, Im(T))
      <4>1. h \in [T -> Im(T)] OBVIOUS
      <4>2. \A t \in Im(T) : \E y \in T : h[y] = t OBVIOUS
      <4> HIDE DEF h, Im
      <4> QED BY <4>1, <4>2, Fun_IsSurj
    <3> HIDE DEF h, Im
    <3> QED BY <1>3, <3>2, FS_Surjection
  <2>2. \A z \in Im(T) : f[z] \in Int  BY <1>3
  <2>3. s[x] \in Im(T)  OBVIOUS
  <2> HIDE DEF Im
  <2>4. SumOf(f, Im(T)) = SumOf(f, Im(T) \ {s[x]}) + f[s[x]]  BY <2>1, <2>2, <2>3, SumWithout
  <2> QED  BY <2>4, <1>9
<1>13. g[x] = f[s[x]]  BY <1>3, <1>10
<1> HIDE DEF g, Im, R
<1> QED  BY <1>4, <1>8, <1>11, <1>12, <1>13
=============================================================================
