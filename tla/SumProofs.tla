----------------------------- MODULE SumProofs ------------------------------
(***************************************************************************)
(* Facts about MapThenSumSet, the sum of f[x] for the x in a finite set,   *)
(* by which the modules say what is booked in a session.  The community    *)
(* module defines it with a function that is recursive on the subsets of   *)
(* the set and takes their elements in a fixed, unknown order, so that it  *)
(* is a sum at all has to be shown: the function exists, the order does    *)
(* not matter, and only the elements of the set do.                        *)
(*                                                                         *)
(* The inductions are on the cardinality of a set, and take the least      *)
(* number for which a claim fails.                                         *)
(***************************************************************************)
EXTENDS Integers, FiniteSets, FiniteSetsExt, FiniteSetTheorems, TLAPS

\* Every set of numbers that has an element has a least one.
LEMMA LeastNumber ==
    ASSUME NEW T \in SUBSET Nat, T # {}
    PROVE  \E n \in T : \A m \in T : n <= m
<1>1. PICK n \in T : \A m \in T : <<m, n>> \notin OpToRel(<, Nat)
  BY WFMin, NatLessThanWellFounded
<1>2. \A m \in T : m \in Nat /\ n \in Nat /\ ~(m < n)   BY <1>1 DEF OpToRel
<1> QED BY <1>2

\* The element that the recursion takes next.
Pick(s) == CHOOSE x \in s : TRUE

LEMMA PickInSet == ASSUME NEW s, s # {} PROVE Pick(s) \in s
BY DEF Pick

\* h is the recursive function behind the sum of f over S.
SumBy(h, f, S) ==
    h = [s \in SUBSET S |->
            IF s = {} THEN 0 ELSE f[Pick(s)] + h[s \ {Pick(s)}]]

\* Its first steps: the same on the subsets that have at most n elements.
Small(S, n) == {s \in SUBSET S : Cardinality(s) <= n}

SumUpTo(h, f, S, n) ==
    h = [s \in Small(S, n) |->
            IF s = {} THEN 0 ELSE f[Pick(s)] + h[s \ {Pick(s)}]]

\* A subset of a finite set, and what taking one element leaves.
LEMMA TakeOne ==
    ASSUME NEW S, IsFiniteSet(S), NEW s \in SUBSET S, NEW x \in s
    PROVE  /\ s \ {x} \in SUBSET S /\ IsFiniteSet(s) /\ IsFiniteSet(s \ {x})
           /\ Cardinality(s) \in Nat /\ Cardinality(s \ {x}) \in Nat
           /\ Cardinality(s \ {x}) = Cardinality(s) - 1 /\ Cardinality(s) > 0
<1>1. IsFiniteSet(s)   BY FS_Subset
<1>2. Cardinality(s) \in Nat /\ IsFiniteSet(s \ {x}) /\ Cardinality(s \ {x}) = Cardinality(s) - 1
  BY <1>1, FS_CardinalityType, FS_RemoveElement
<1>3. Cardinality(s \ {x}) \in Nat   BY <1>2, FS_CardinalityType
<1> QED BY <1>1, <1>2, <1>3

\* The function exists for every finite set.
LEMMA SumByExists ==
    ASSUME NEW S, IsFiniteSet(S), NEW f
    PROVE  \E h : SumBy(h, f, S)
<1> DEFINE T == {n \in Nat : ~ \E h : SumUpTo(h, f, S, n)}
<1>1. ASSUME NEW n \in T, \A m \in T : n <= m PROVE FALSE
  <2>1. n \in Nat   OBVIOUS
  <2>2. CASE n = 0
    <3>1. Small(S, n) = {{}}
      <4>1. {} \in Small(S, n)   BY <2>2, FS_EmptySet DEF Small
      <4>2. ASSUME NEW s \in Small(S, n) PROVE s = {}
        <5>1. s \in SUBSET S /\ IsFiniteSet(s) /\ Cardinality(s) <= 0
          BY <2>2, <4>2, FS_Subset DEF Small
        <5>2. Cardinality(s) = 0   BY <5>1, FS_CardinalityType
        <5> QED BY <5>1, <5>2, FS_EmptySet
      <4> QED BY <4>1, <4>2
    <3>2. PICK h : h = [s \in Small(S, n) |-> 0]   OBVIOUS
    <3>3. SumUpTo(h, f, S, n)   BY <3>1, <3>2 DEF SumUpTo
    <3> QED BY <3>3
  <2>3. CASE n # 0
    <3>1. n - 1 \in Nat /\ n - 1 \notin T   BY <1>1, <2>1, <2>3
    <3>2. PICK g : SumUpTo(g, f, S, n - 1)   BY <3>1
    <3>3. PICK h : h = [s \in Small(S, n) |->
                          IF s = {} THEN 0 ELSE f[Pick(s)] + g[s \ {Pick(s)}]]
      OBVIOUS
    <3>4. Small(S, n - 1) \subseteq Small(S, n)
      <4>1. ASSUME NEW s \in Small(S, n - 1) PROVE s \in Small(S, n)
        <5>1. s \in SUBSET S /\ Cardinality(s) <= n - 1   BY DEF Small
        <5>2. Cardinality(s) \in Nat   BY <5>1, FS_Subset, FS_CardinalityType
        <5> QED BY <2>1, <5>1, <5>2 DEF Small
      <4> QED BY <4>1
    <3>5. \A t \in Small(S, n - 1) : h[t] = g[t]   BY <3>2, <3>3, <3>4 DEF SumUpTo
    <3>6. ASSUME NEW s \in Small(S, n), s # {} PROVE h[s \ {Pick(s)}] = g[s \ {Pick(s)}]
      <4>1. s \in SUBSET S /\ Cardinality(s) <= n /\ Pick(s) \in s   BY <3>6, PickInSet DEF Small
      <4>2. s \ {Pick(s)} \in Small(S, n - 1)   BY <2>1, <4>1, TakeOne DEF Small
      <4> QED BY <3>5, <4>2
    <3>7. h = [s \in Small(S, n) |-> IF s = {} THEN 0 ELSE f[Pick(s)] + h[s \ {Pick(s)}]]
      BY <3>3, <3>6
    <3> QED BY <3>7 DEF SumUpTo
  <2> QED BY <2>2, <2>3
<1>2. T = {}   BY <1>1, LeastNumber
<1>3. Cardinality(S) \in Nat   BY FS_CardinalityType
<1>4. PICK h : SumUpTo(h, f, S, Cardinality(S))   BY <1>2, <1>3
<1>5. Small(S, Cardinality(S)) = SUBSET S   BY FS_Subset DEF Small
<1> QED BY <1>4, <1>5 DEF SumUpTo, SumBy

\* The value for a subset depends on that subset and on f there alone.
LEMMA SumByLocal ==
    ASSUME NEW S, IsFiniteSet(S), NEW T, IsFiniteSet(T), NEW f, NEW g, NEW h, NEW k,
           SumBy(h, f, S), SumBy(k, g, T),
           NEW U \in SUBSET (S \cap T), \A x \in U : f[x] = g[x]
    PROVE  h[U] = k[U]
<1> DEFINE Bad == {n \in Nat : \E s \in SUBSET U : Cardinality(s) = n /\ h[s] # k[s]}
<1>1. ASSUME NEW n \in Bad, \A m \in Bad : n <= m PROVE FALSE
  <2>1. PICK s \in SUBSET U : Cardinality(s) = n /\ h[s] # k[s]   OBVIOUS
  <2>2. s \in SUBSET S /\ s \in SUBSET T   OBVIOUS
  <2>3. s # {}   BY <2>1, <2>2 DEF SumBy
  <2>4. PICK x \in s : x = Pick(s)   BY <2>3, PickInSet
  <2>5. h[s] = f[x] + h[s \ {x}] /\ k[s] = g[x] + k[s \ {x}]
    BY <2>2, <2>3, <2>4 DEF SumBy
  <2>6. f[x] = g[x]   OBVIOUS
  <2>7. PICK t \in SUBSET U : t = s \ {x}   OBVIOUS
  <2>8. /\ Cardinality(t) \in Nat /\ Cardinality(s) \in Nat
        /\ Cardinality(t) = Cardinality(s) - 1
    BY <2>2, <2>7, TakeOne
  <2>9. Cardinality(t) \notin Bad   BY <1>1, <2>1, <2>8
  <2>10. h[t] = k[t]   BY <2>8, <2>9
  <2> QED BY <2>1, <2>5, <2>6, <2>7, <2>10
<1>2. Bad = {}   BY <1>1, LeastNumber
<1>3. Cardinality(U) \in Nat   BY FS_Subset, FS_CardinalityType
<1> QED BY <1>2, <1>3

\* Its values are numbers.
LEMMA SumByType ==
    ASSUME NEW S, IsFiniteSet(S), NEW f, NEW h, SumBy(h, f, S),
           \A x \in S : f[x] \in Nat
    PROVE  \A s \in SUBSET S : h[s] \in Nat
<1> DEFINE Bad == {n \in Nat : \E s \in SUBSET S : Cardinality(s) = n /\ h[s] \notin Nat}
<1>1. ASSUME NEW n \in Bad, \A m \in Bad : n <= m PROVE FALSE
  <2>1. PICK s \in SUBSET S : Cardinality(s) = n /\ h[s] \notin Nat   OBVIOUS
  <2>2. s # {}   BY <2>1 DEF SumBy
  <2>3. PICK x \in s : x = Pick(s)   BY <2>2, PickInSet
  <2>4. h[s] = f[x] + h[s \ {x}]   BY <2>2, <2>3 DEF SumBy
  <2>5. PICK t \in SUBSET S : t = s \ {x}   OBVIOUS
  <2>6. /\ Cardinality(t) \in Nat /\ Cardinality(s) \in Nat
        /\ Cardinality(t) = Cardinality(s) - 1
    BY <2>5, TakeOne
  <2>7. Cardinality(t) \notin Bad   BY <1>1, <2>1, <2>6
  <2>8. h[t] \in Nat   BY <2>6, <2>7
  <2>9. f[x] \in Nat   OBVIOUS
  <2> QED BY <2>1, <2>4, <2>5, <2>8, <2>9
<1>2. Bad = {}   BY <1>1, LeastNumber
<1>3. \A s \in SUBSET S : Cardinality(s) \in Nat   BY FS_Subset, FS_CardinalityType
<1> QED BY <1>2, <1>3

\* Any element may be taken first: the order does not matter.
LEMMA SumByTake ==
    ASSUME NEW S, IsFiniteSet(S), NEW f, NEW h, SumBy(h, f, S),
           \A x \in S : f[x] \in Nat
    PROVE  \A s \in SUBSET S : \A x \in s : h[s] = f[x] + h[s \ {x}]
<1> DEFINE Bad == {n \in Nat : \E s \in SUBSET S : Cardinality(s) = n
                                   /\ \E x \in s : h[s] # f[x] + h[s \ {x}]}
<1>0. \A s \in SUBSET S : h[s] \in Nat   BY SumByType
<1>1. ASSUME NEW n \in Bad, \A m \in Bad : n <= m PROVE FALSE
  <2>0. PICK s \in SUBSET S : Cardinality(s) = n /\ \E x \in s : h[s] # f[x] + h[s \ {x}]
    OBVIOUS
  <2>1. PICK x \in s : Cardinality(s) = n /\ h[s] # f[x] + h[s \ {x}]
    BY <2>0
  <2>2. PICK c \in s : c = Pick(s)   BY PickInSet
  <2>3. h[s] = f[c] + h[s \ {c}]   BY <2>2 DEF SumBy
  <2>4. c # x   BY <2>1, <2>3
  <2>5. PICK u, v, w : u = s \ {c} /\ v = s \ {x} /\ w = (s \ {c}) \ {x}   OBVIOUS
  <2>6. /\ u \in SUBSET S /\ v \in SUBSET S /\ w \in SUBSET S /\ x \in u /\ c \in v
        /\ w = u \ {x} /\ w = v \ {c}
    BY <2>4, <2>5
  <2>7. /\ Cardinality(s) \in Nat /\ Cardinality(u) \in Nat /\ Cardinality(v) \in Nat
        /\ Cardinality(u) = Cardinality(s) - 1 /\ Cardinality(v) = Cardinality(s) - 1
    BY <2>5, TakeOne
  <2>8. Cardinality(u) \notin Bad /\ Cardinality(v) \notin Bad   BY <1>1, <2>1, <2>7
  <2>9. h[u] = f[x] + h[w] /\ h[v] = f[c] + h[w]
    <3>1. h[u] = f[x] + h[u \ {x}]   BY <2>6, <2>7, <2>8
    <3>2. h[v] = f[c] + h[v \ {c}]   BY <2>6, <2>7, <2>8
    <3> QED BY <2>6, <3>1, <3>2
  <2>10. f[x] \in Nat /\ f[c] \in Nat /\ h[w] \in Nat   BY <1>0, <2>6
  <2> QED BY <2>1, <2>3, <2>5, <2>9, <2>10
<1>2. Bad = {}   BY <1>1, LeastNumber
<1>3. \A s \in SUBSET S : Cardinality(s) \in Nat   BY FS_Subset, FS_CardinalityType
<1> QED BY <1>2, <1>3

-----------------------------------------------------------------------------
(* The sum of f[x] for the x in S.                                         *)

Total(f, S) == (CHOOSE h : SumBy(h, f, S))[S]

LEMMA TotalBy ==
    ASSUME NEW S, IsFiniteSet(S), NEW f
    PROVE  \E h : SumBy(h, f, S) /\ Total(f, S) = h[S]
<1>1. \E h : SumBy(h, f, S)   BY SumByExists
<1>2. SumBy(CHOOSE h : SumBy(h, f, S), f, S)   BY <1>1, Zenon
<1> QED BY <1>2 DEF Total

\* Whatever function computes it.
LEMMA TotalIs ==
    ASSUME NEW S, IsFiniteSet(S), NEW f, NEW h, SumBy(h, f, S)
    PROVE  Total(f, S) = h[S]
<1>1. PICK k : SumBy(k, f, S) /\ Total(f, S) = k[S]   BY TotalBy
<1>2. S \in SUBSET (S \cap S) /\ \A x \in S : f[x] = f[x]   OBVIOUS
<1>3. k[S] = h[S]   BY <1>1, <1>2, SumByLocal
<1> QED BY <1>1, <1>3

LEMMA TotalEmpty == ASSUME NEW f PROVE Total(f, {}) = 0
<1>1. IsFiniteSet({})   BY FS_EmptySet
<1>2. PICK h : SumBy(h, f, {}) /\ Total(f, {}) = h[{}]   BY <1>1, TotalBy
<1>3. h[{}] = 0   BY <1>2 DEF SumBy
<1> QED BY <1>2, <1>3

LEMMA TotalType ==
    ASSUME NEW S, IsFiniteSet(S), NEW f, \A x \in S : f[x] \in Nat
    PROVE  Total(f, S) \in Nat
<1>1. PICK h : SumBy(h, f, S) /\ Total(f, S) = h[S]   BY TotalBy
<1>2. \A s \in SUBSET S : h[s] \in Nat   BY <1>1, SumByType
<1>3. S \in SUBSET S   OBVIOUS
<1> QED BY <1>1, <1>2, <1>3

\* Only the values on the set matter.
LEMMA TotalSame ==
    ASSUME NEW S, IsFiniteSet(S), NEW f, NEW g, \A x \in S : f[x] = g[x]
    PROVE  Total(f, S) = Total(g, S)
<1>1. PICK h : SumBy(h, f, S) /\ Total(f, S) = h[S]   BY TotalBy
<1>2. PICK k : SumBy(k, g, S) /\ Total(g, S) = k[S]   BY TotalBy
<1>3. S \in SUBSET (S \cap S)   OBVIOUS
<1>4. h[S] = k[S]   BY <1>1, <1>2, <1>3, SumByLocal
<1> QED BY <1>1, <1>2, <1>4

\* One element more.
LEMMA TotalAdd ==
    ASSUME NEW S, IsFiniteSet(S), NEW f, NEW x, x \notin S,
           \A y \in S \cup {x} : f[y] \in Nat
    PROVE  Total(f, S \cup {x}) = f[x] + Total(f, S)
<1>1. PICK T : T = S \cup {x}   OBVIOUS
<1>2. IsFiniteSet(T)   BY <1>1, FS_AddElement
<1>3. PICK h : SumBy(h, f, T) /\ Total(f, T) = h[T]   BY <1>2, TotalBy
<1>4. PICK k : SumBy(k, f, S) /\ Total(f, S) = k[S]   BY TotalBy
<1>5. T \in SUBSET T /\ x \in T /\ T \ {x} = S /\ \A y \in T : f[y] \in Nat   BY <1>1
<1>6. h[T] = f[x] + h[T \ {x}]   BY <1>2, <1>3, <1>5, SumByTake
<1>7. S \in SUBSET (T \cap S) /\ \A y \in S : f[y] = f[y]   BY <1>1
<1>8. h[S] = k[S]   BY <1>2, <1>3, <1>4, <1>7, SumByLocal
<1> QED BY <1>1, <1>3, <1>4, <1>5, <1>6, <1>8

\* One element less.
LEMMA TotalRemove ==
    ASSUME NEW S, IsFiniteSet(S), NEW f, NEW x \in S, \A y \in S : f[y] \in Nat
    PROVE  /\ Total(f, S) = f[x] + Total(f, S \ {x})
           /\ Total(f, S \ {x}) \in Nat
<1>1. PICK T : T = S \ {x}   OBVIOUS
<1>2. IsFiniteSet(T) /\ x \notin T /\ T \cup {x} = S   BY <1>1, FS_RemoveElement
<1>3. \A y \in T \cup {x} : f[y] \in Nat   BY <1>2
<1>4. Total(f, T \cup {x}) = f[x] + Total(f, T)   BY <1>2, <1>3, TotalAdd
<1>5. Total(f, T) \in Nat   BY <1>2, <1>3, TotalType
<1> QED BY <1>1, <1>2, <1>4, <1>5
=============================================================================
