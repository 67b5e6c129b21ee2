---------------------------- MODULE FiniteSums ----------------------------
(***************************************************************************)
(* Sums over finite sets, as the models take them with MapThenSumSet: that *)
(* they are integers, that one summand can be taken out, and what changing *)
(* one summand does; the elements of a concatenation of sequences, as the  *)
(* models take it with FlattenSeq; the size of a set as the sum of the     *)
(* sizes of its groups; what a filter keeps of a sequence, and how many of *)
(* its elements are of a kind; division and parts of sequences.  Shared by *)
(* all the proofs that count.                                              *)
(*                                                                         *)
(* The induction over the size of a set is by a least counterexample: a    *)
(* set of naturals that is not empty has a least element (NatLeast), which *)
(* follows from the library's WFMin and needs no operator parameter.       *)
(***************************************************************************)
EXTENDS Integers, FiniteSets, Sequences, FiniteSetsExt, SequencesExt, FiniteSetTheorems, SequenceTheorems, TLAPS

\* The sum of f over S.
Sum(f, S) == MapThenSumSet(LAMBDA x : f[x], S)

\* A set of naturals that is not empty has a least element.
LEMMA NatLeast == ASSUME NEW T \in SUBSET Nat, T # {} PROVE \E x \in T : \A y \in T : x <= y
<1> DEFINE R == {ss \in Nat \X Nat : ss[1] < ss[2]}
<1>1. IsWellFoundedOn(R, Nat)  BY NatLessThanWellFounded, Zenon DEF OpToRel
<1>2. \A x, y \in Nat : <<y, x>> \in R <=> y < x  OBVIOUS
<1> HIDE DEF R
<1>3. PICK x \in T : \A y \in T : ~(<<y, x>> \in R)  BY <1>1, WFMin
<1>4. ASSUME NEW y \in T PROVE x <= y
  <2>1. x \in Nat /\ y \in Nat  OBVIOUS
  <2>2. ~(y < x)  BY <1>2, <1>3, <2>1, Zenon
  <2> QED BY <2>1, <2>2
<1> QED BY <1>4

\* The element a fold takes first, and the recursive function a fold is the value of.
Some(s) == CHOOSE x \in s : TRUE
It(f, S) ==
    CHOOSE iter : iter = [s \in SUBSET S |-> IF s = {} THEN 0 ELSE f[Some(s)] + iter[s \ {Some(s)}]]

\* A sum, which MapThenSumSet folds, is the value of the recursive function.
LEMMA SumIt == ASSUME NEW f, NEW S PROVE Sum(f, S) = It(f,S)[S]
  BY Zenon DEF Sum, MapThenSumSet, MapThenFoldSet, It, Some

\* The element a fold takes first is one of the set.
LEMMA SomeIn == ASSUME NEW s, s # {} PROVE Some(s) \in s  BY DEF Some

\* The subsets of S of at most n elements.
Small(S, n) == {s \in SUBSET S : Cardinality(s) <= n}

\* g sums f on the sets in D.
Adds(g, f, D) ==
    /\ g \in [D -> Int]
    /\ \A s \in D : g[s] = IF s = {} THEN 0 ELSE f[Some(s)] + g[s \ {Some(s)}]

\* Without the element a fold takes first, a set is smaller by one.
LEMMA OneSmaller == ASSUME NEW S, IsFiniteSet(S), NEW n \in Nat, NEW s \in Small(S, n), s # {}
                 PROVE  s \ {Some(s)} \in Small(S, n - 1) /\ s \ {Some(s)} \in Small(S, n) /\ Some(s) \in S /\ n > 0
<1>1. IsFiniteSet(s) /\ Some(s) \in s /\ s \in SUBSET S /\ Cardinality(s) <= n  BY FS_Subset, SomeIn DEF Small
<1>2. Cardinality(s \ {Some(s)}) = Cardinality(s) - 1 /\ Cardinality(s) \in Nat
  BY <1>1, FS_RemoveElement, FS_CardinalityType
<1>3. Cardinality(s \ {Some(s)}) \in Nat  BY <1>1, FS_RemoveElement, FS_CardinalityType
<1> QED BY <1>1, <1>2, <1>3 DEF Small

\* On the sets of at most n elements there is a function that sums f.
LEMMA AddsExists ==
    ASSUME NEW S, IsFiniteSet(S), NEW f, \A x \in S : f[x] \in Int
    PROVE  \A n \in Nat : \E g : Adds(g, f, Small(S, n))
<1> DEFINE Bad == {n \in Nat : ~ \E g : Adds(g, f, Small(S, n))}
<1> SUFFICES ASSUME Bad # {} PROVE FALSE  OBVIOUS
<1>1. PICK m \in Bad : \A y \in Bad : m <= y
  <2>1. Bad \in SUBSET Nat  OBVIOUS
  <2> HIDE DEF Bad
  <2> QED BY <2>1, NatLeast
<1>2. CASE m = 0
  <2> DEFINE g == [s \in Small(S, 0) |-> 0]
  <2>1. ASSUME NEW s \in Small(S, 0), s # {} PROVE FALSE
    <3>1. 0 \in Nat  OBVIOUS
    <3>2. 0 > 0  BY ONLY <2>1, <3>1, IsFiniteSet(S), OneSmaller
    <3> QED BY <3>2
  <2>2. Adds(g, f, Small(S, 0))  BY <2>1 DEF Adds
  <2> QED BY <1>1, <1>2, <2>2
<1>3. CASE m # 0
  <2>1. m - 1 \in Nat /\ m - 1 \notin Bad /\ m \in Nat  BY <1>1, <1>3
  <2>2. PICK g : Adds(g, f, Small(S, m - 1))  BY <2>1
  <2> DEFINE h == [s \in Small(S, m) |-> IF s = {} THEN 0 ELSE f[Some(s)] + g[s \ {Some(s)}]]
  <2>3. \A s \in Small(S, m - 1) : s \in Small(S, m)
    <3>1. \A s \in SUBSET S : Cardinality(s) \in Nat  BY FS_Subset, FS_CardinalityType
    <3> QED BY <2>1, <3>1 DEF Small
  <2>4. \A s \in Small(S, m - 1) : h[s] = g[s]  BY <2>2, <2>3 DEF Adds
  <2>5. ASSUME NEW s \in Small(S, m), s # {}
        PROVE  /\ f[Some(s)] \in Int /\ g[s \ {Some(s)}] \in Int
               /\ h[s \ {Some(s)}] = g[s \ {Some(s)}]
    BY <2>1, <2>2, <2>4, <2>5, OneSmaller DEF Adds
  <2>6. Adds(h, f, Small(S, m))
    <3>1. \A s \in Small(S, m) :
            h[s] = IF s = {} THEN 0 ELSE f[Some(s)] + g[s \ {Some(s)}]  OBVIOUS
    <3>2. h \in [Small(S, m) -> Int]
      <4> SUFFICES ASSUME NEW s \in Small(S, m)
                   PROVE  (IF s = {} THEN 0 ELSE f[Some(s)] + g[s \ {Some(s)}]) \in Int  OBVIOUS
      <4>1. CASE s = {}  BY <4>1
      <4>2. CASE s # {}
        <5>1. f[Some(s)] \in Int /\ g[s \ {Some(s)}] \in Int  BY <2>5, <4>2
        <5> QED BY ONLY <4>2, <5>1
      <4> QED BY <4>1, <4>2
    <3> HIDE DEF h
    <3>3. \A s \in Small(S, m) :
            h[s] = IF s = {} THEN 0 ELSE f[Some(s)] + h[s \ {Some(s)}]  BY <2>5, <3>1
    <3> QED BY <3>2, <3>3 DEF Adds
  <2> QED BY <1>1, <2>6
<1> QED BY <1>2, <1>3

\* The recursive function a fold is defined by exists, and sums f.
LEMMA ItAdds ==
    ASSUME NEW S, IsFiniteSet(S), NEW f, \A x \in S : f[x] \in Int
    PROVE  Adds(It(f, S), f, SUBSET S)
<1>1. Cardinality(S) \in Nat /\ Small(S, Cardinality(S)) = SUBSET S
  <2>1. \A s \in SUBSET S : Cardinality(s) <= Cardinality(S)  BY FS_Subset
  <2> QED BY <2>1, FS_CardinalityType DEF Small
<1>2. PICK g : Adds(g, f, SUBSET S)
  <2>1. \E g : Adds(g, f, Small(S, Cardinality(S)))  BY <1>1, AddsExists
  <2> QED BY <1>1, <2>1
<1>3. g = [s \in SUBSET S |-> IF s = {} THEN 0 ELSE f[Some(s)] + g[s \ {Some(s)}]]  BY <1>2 DEF Adds
<1>4. It(f, S) = [s \in SUBSET S |-> IF s = {} THEN 0 ELSE f[Some(s)] + It(f, S)[s \ {Some(s)}]]  BY <1>3, Zenon DEF It
<1> DEFINE i == It(f, S)
<1> HIDE DEF i
<1>5. i = [s \in SUBSET S |-> IF s = {} THEN 0 ELSE f[Some(s)] + i[s \ {Some(s)}]]  BY <1>4 DEF i
<1>6. \A s \in SUBSET S : i[s] = IF s = {} THEN 0 ELSE f[Some(s)] + i[s \ {Some(s)}]  BY <1>5
<1>7. \A s \in SUBSET S : i[s] = g[s]
  <2> DEFINE Bad == {n \in Nat : \E s \in SUBSET S : Cardinality(s) = n /\ i[s] # g[s]}
  <2> SUFFICES ASSUME Bad # {} PROVE FALSE
    <3>1. \A s \in SUBSET S : Cardinality(s) \in Nat  BY FS_Subset, FS_CardinalityType
    <3> QED BY <3>1
  <2>1. PICK m \in Bad : \A y \in Bad : m <= y
    <3>1. Bad \in SUBSET Nat  OBVIOUS
    <3> HIDE DEF Bad
    <3> QED BY <3>1, NatLeast
  <2>2. PICK s \in SUBSET S : Cardinality(s) = m /\ i[s] # g[s]  BY <2>1
  <2>3. s # {}  BY <1>2, <1>6, <2>2 DEF Adds
  <2>4. /\ s \ {Some(s)} \in SUBSET S /\ Cardinality(s \ {Some(s)}) = m - 1
        /\ Cardinality(s \ {Some(s)}) \in Nat
    BY <2>2, <2>3, SomeIn, FS_Subset, FS_RemoveElement, FS_CardinalityType
  <2>5. i[s \ {Some(s)}] = g[s \ {Some(s)}]
    <3>1. m \in Nat /\ m - 1 \notin Bad  BY <2>1
    <3> QED BY <2>4, <3>1
  <2> QED BY <1>2, <1>6, <2>2, <2>3, <2>5 DEF Adds
<1>8. \A s \in SUBSET S : i[s] \in Int  BY <1>2, <1>7 DEF Adds
<1> QED BY <1>5, <1>6, <1>8 DEF Adds, i

\* A sum over a subset is read off the recursive function of the whole set.
LEMMA SumInside ==
    ASSUME NEW S, IsFiniteSet(S), NEW f, \A x \in S : f[x] \in Int, NEW T \in SUBSET S
    PROVE  Sum(f, T) = It(f, S)[T]
<1> DEFINE i == It(f, S)
           g == It(f, T)
<1>1. IsFiniteSet(T) /\ \A x \in T : f[x] \in Int  BY FS_Subset
<1>2. Adds(i, f, SUBSET S) /\ Adds(g, f, SUBSET T)  BY <1>1, ItAdds
<1>a. Sum(f, T) = g[T]  BY SumIt
<1> HIDE DEF i, g
<1>7. \A s \in SUBSET T : i[s] = g[s]
  <2> DEFINE Bad == {n \in Nat : \E s \in SUBSET T : Cardinality(s) = n /\ i[s] # g[s]}
  <2> SUFFICES ASSUME Bad # {} PROVE FALSE
    <3>1. \A s \in SUBSET T : Cardinality(s) \in Nat  BY <1>1, FS_Subset, FS_CardinalityType
    <3> QED BY <3>1
  <2>1. PICK m \in Bad : \A y \in Bad : m <= y
    <3>1. Bad \in SUBSET Nat  OBVIOUS
    <3> HIDE DEF Bad
    <3> QED BY <3>1, NatLeast
  <2>2. PICK s \in SUBSET T : Cardinality(s) = m /\ i[s] # g[s]  BY <2>1
  <2>3. s # {} /\ s \in SUBSET S  BY <1>2, <2>2 DEF Adds
  <2>4. /\ s \ {Some(s)} \in SUBSET T /\ Cardinality(s \ {Some(s)}) = m - 1
        /\ Cardinality(s \ {Some(s)}) \in Nat
    BY <1>1, <2>2, <2>3, SomeIn, FS_Subset, FS_RemoveElement, FS_CardinalityType
  <2>5. i[s \ {Some(s)}] = g[s \ {Some(s)}]
    <3>1. m \in Nat /\ m - 1 \notin Bad  BY <2>1
    <3> QED BY <2>4, <3>1
  <2> QED BY <1>2, <2>2, <2>3, <2>5 DEF Adds
<1> QED BY <1>7, <1>a DEF i

\* Nothing adds up to zero.
LEMMA SumEmpty == ASSUME NEW f PROVE Sum(f, {}) = 0
<1>1. IsFiniteSet({}) /\ \A x \in {} : f[x] \in Int  BY FS_EmptySet
<1>2. Adds(It(f, {}), f, SUBSET {})  BY <1>1, ItAdds
<1> QED BY <1>2, SumIt DEF Adds

\* A sum of integers is an integer.
LEMMA SumType ==
    ASSUME NEW S, IsFiniteSet(S), NEW f, \A x \in S : f[x] \in Int
    PROVE  Sum(f, S) \in Int
<1> DEFINE i == It(f, S)
<1>1. Adds(i, f, SUBSET S) /\ Sum(f, S) = i[S]  BY ItAdds, SumIt
<1>2. S \in SUBSET S  OBVIOUS
<1> HIDE DEF i
<1>3. i[S] \in Int  BY <1>1, <1>2 DEF Adds
<1> QED BY <1>1, <1>3

\* A summand can be taken out of a sum, whichever one the fold takes first.
LEMMA SumRemove ==
    ASSUME NEW S, IsFiniteSet(S), NEW f, \A x \in S : f[x] \in Int, NEW x \in S
    PROVE  Sum(f, S) = f[x] + Sum(f, S \ {x})
<1> DEFINE i == It(f, S)
<1>1. Adds(i, f, SUBSET S)  BY ItAdds
<1>2. Sum(f, S) = i[S] /\ Sum(f, S \ {x}) = i[S \ {x}]  BY SumInside
<1> HIDE DEF i
<1>3. \A s \in SUBSET S : \A y \in s : i[s] = f[y] + i[s \ {y}]
  <2> DEFINE Bad == {n \in Nat : \E s \in SUBSET S : Cardinality(s) = n /\ \E y \in s : i[s] # f[y] + i[s \ {y}]}
  <2> SUFFICES ASSUME Bad # {} PROVE FALSE
    <3>1. \A s \in SUBSET S : Cardinality(s) \in Nat  BY FS_Subset, FS_CardinalityType
    <3> QED BY <3>1
  <2>1. PICK m \in Bad : \A y \in Bad : m <= y
    <3>1. Bad \in SUBSET Nat  OBVIOUS
    <3> HIDE DEF Bad
    <3> QED BY <3>1, NatLeast
  <2>2. PICK s \in SUBSET S : Cardinality(s) = m /\ \E y \in s : i[s] # f[y] + i[s \ {y}]  BY <2>1
  <2>3. PICK y \in s : i[s] # f[y] + i[s \ {y}]  BY <2>2
  <2> DEFINE c == Some(s)
  <2>4. c \in s /\ i[s] = f[c] + i[s \ {c}]  BY <1>1, <2>2, <2>3, SomeIn DEF Adds
  <2> HIDE DEF c
  <2>5. c # y  BY <2>3, <2>4
  <2>6. ASSUME NEW z \in s PROVE Cardinality(s \ {z}) \in Nat /\ Cardinality(s \ {z}) = m - 1
    BY <2>2, FS_Subset, FS_RemoveElement, FS_CardinalityType
  <2>7. m \in Nat /\ m - 1 \notin Bad  BY <2>1
  <2>8. ASSUME NEW z \in s, NEW w \in s \ {z} PROVE i[s \ {z}] = f[w] + i[(s \ {z}) \ {w}]
    <3>1. s \ {z} \in SUBSET S  OBVIOUS
    <3> QED BY <2>6, <2>7, <3>1
  <2>9. i[s \ {c}] = f[y] + i[(s \ {c}) \ {y}] /\ i[s \ {y}] = f[c] + i[(s \ {y}) \ {c}]  BY <2>4, <2>5, <2>8
  <2>10. (s \ {c}) \ {y} = (s \ {y}) \ {c}  OBVIOUS
  <2>11. f[c] \in Int /\ f[y] \in Int /\ i[(s \ {y}) \ {c}] \in Int  BY <1>1, <2>2, <2>4 DEF Adds
  <2> DEFINE a == f[c]
             b == f[y]
             r == i[(s \ {y}) \ {c}]
  <2>12. i[s] = a + (b + r) /\ i[s \ {y}] = a + r  BY <2>4, <2>9, <2>10
  <2>13. a \in Int /\ b \in Int /\ r \in Int  BY <2>11
  <2>14. i[s] # b + i[s \ {y}]  BY <2>3
  <2> HIDE DEF a, b, r
  <2>15. a + (b + r) = b + (a + r)  BY ONLY <2>13
  <2> QED BY ONLY <2>12, <2>14, <2>15
<1> QED BY <1>2, <1>3

\* Functions that agree on a set have the same sum over it.
LEMMA SumSame ==
    ASSUME NEW S, IsFiniteSet(S), NEW f, NEW g, \A x \in S : f[x] \in Int, \A x \in S : g[x] = f[x]
    PROVE  Sum(g, S) = Sum(f, S)
<1> DEFINE i == It(f, S)
           h == It(g, S)
<1>1. Adds(i, f, SUBSET S) /\ Adds(h, g, SUBSET S)  BY ItAdds
<1>2. Sum(f, S) = i[S] /\ Sum(g, S) = h[S]  BY SumIt
<1> HIDE DEF i, h
<1>3. \A s \in SUBSET S : i[s] = h[s]
  <2> DEFINE Bad == {n \in Nat : \E s \in SUBSET S : Cardinality(s) = n /\ i[s] # h[s]}
  <2> SUFFICES ASSUME Bad # {} PROVE FALSE
    <3>1. \A s \in SUBSET S : Cardinality(s) \in Nat  BY FS_Subset, FS_CardinalityType
    <3> QED BY <3>1
  <2>1. PICK m \in Bad : \A y \in Bad : m <= y
    <3>1. Bad \in SUBSET Nat  OBVIOUS
    <3> HIDE DEF Bad
    <3> QED BY <3>1, NatLeast
  <2>2. PICK s \in SUBSET S : Cardinality(s) = m /\ i[s] # h[s]  BY <2>1
  <2>3. s # {}  BY <1>1, <2>2 DEF Adds
  <2>4. /\ s \ {Some(s)} \in SUBSET S /\ Cardinality(s \ {Some(s)}) = m - 1 /\ Some(s) \in S
        /\ Cardinality(s \ {Some(s)}) \in Nat
    BY <2>2, <2>3, SomeIn, FS_Subset, FS_RemoveElement, FS_CardinalityType
  <2>5. i[s \ {Some(s)}] = h[s \ {Some(s)}]
    <3>1. m \in Nat /\ m - 1 \notin Bad  BY <2>1
    <3> QED BY <2>4, <3>1
  <2>6. g[Some(s)] = f[Some(s)]  BY <2>4
  <2> QED BY <1>1, <2>2, <2>3, <2>5, <2>6 DEF Adds
<1> QED BY <1>2, <1>3

\* When one summand changes, the sum changes by as much.
LEMMA SumUpdate ==
    ASSUME NEW S, IsFiniteSet(S), NEW f, NEW g, NEW x \in S, \A y \in S : f[y] \in Int, g[x] \in Int,
           \A y \in S : y # x => g[y] = f[y]
    PROVE  Sum(g, S) = Sum(f, S) - f[x] + g[x]
<1>1. IsFiniteSet(S \ {x})  BY FS_RemoveElement
<1>2. Sum(g, S \ {x}) = Sum(f, S \ {x}) /\ Sum(f, S \ {x}) \in Int  BY <1>1, SumSame, SumType
<1>3. Sum(f, S) = f[x] + Sum(f, S \ {x})  BY SumRemove
<1>4. \A y \in S : g[y] \in Int  OBVIOUS
<1>5. Sum(g, S) = g[x] + Sum(g, S \ {x})  BY <1>4, SumRemove
<1> QED BY <1>2, <1>3, <1>5

\* A sum of zeros is zero.
LEMMA SumZero ==
    ASSUME NEW S, IsFiniteSet(S), NEW f, \A x \in S : f[x] = 0
    PROVE  Sum(f, S) = 0
<1> DEFINE i == It(f, S)
<1>1. Adds(i, f, SUBSET S) /\ Sum(f, S) = i[S]
  <2>1. \A x \in S : f[x] \in Int  OBVIOUS
  <2> QED BY <2>1, ItAdds, SumIt
<1> HIDE DEF i
<1>2. \A s \in SUBSET S : i[s] = 0
  <2> DEFINE Bad == {n \in Nat : \E s \in SUBSET S : Cardinality(s) = n /\ i[s] # 0}
  <2> SUFFICES ASSUME Bad # {} PROVE FALSE
    <3>1. \A s \in SUBSET S : Cardinality(s) \in Nat  BY FS_Subset, FS_CardinalityType
    <3> QED BY <3>1
  <2>1. PICK m \in Bad : \A y \in Bad : m <= y
    <3>1. Bad \in SUBSET Nat  OBVIOUS
    <3> HIDE DEF Bad
    <3> QED BY <3>1, NatLeast
  <2>2. PICK s \in SUBSET S : Cardinality(s) = m /\ i[s] # 0  BY <2>1
  <2>3. s # {}  BY <1>1, <2>2 DEF Adds
  <2>4. /\ s \ {Some(s)} \in SUBSET S /\ Cardinality(s \ {Some(s)}) = m - 1 /\ Some(s) \in S
        /\ Cardinality(s \ {Some(s)}) \in Nat
    BY <2>2, <2>3, SomeIn, FS_Subset, FS_RemoveElement, FS_CardinalityType
  <2>5. i[s \ {Some(s)}] = 0
    <3>1. m \in Nat /\ m - 1 \notin Bad  BY <2>1
    <3> QED BY <2>4, <3>1
  <2>6. i[s] = f[Some(s)] + i[s \ {Some(s)}]  BY <1>1, <2>2, <2>3 DEF Adds
  <2>7. f[Some(s)] = 0  BY <2>4
  <2> QED BY <2>2, <2>5, <2>6, <2>7
<1> QED BY <1>1, <1>2

\* A sum of naturals is a natural.
LEMMA SumNat ==
    ASSUME NEW S, IsFiniteSet(S), NEW f, \A x \in S : f[x] \in Nat
    PROVE  Sum(f, S) \in Nat
<1> DEFINE i == It(f, S)
<1>1. Adds(i, f, SUBSET S) /\ Sum(f, S) = i[S]
  <2>1. \A x \in S : f[x] \in Int  OBVIOUS
  <2> QED BY <2>1, ItAdds, SumIt
<1> HIDE DEF i
<1>2. \A s \in SUBSET S : i[s] \in Nat
  <2> DEFINE Bad == {n \in Nat : \E s \in SUBSET S : Cardinality(s) = n /\ i[s] \notin Nat}
  <2> SUFFICES ASSUME Bad # {} PROVE FALSE
    <3>1. \A s \in SUBSET S : Cardinality(s) \in Nat  BY FS_Subset, FS_CardinalityType
    <3> QED BY <3>1
  <2>1. PICK m \in Bad : \A y \in Bad : m <= y
    <3>1. Bad \in SUBSET Nat  OBVIOUS
    <3> HIDE DEF Bad
    <3> QED BY <3>1, NatLeast
  <2>2. PICK s \in SUBSET S : Cardinality(s) = m /\ i[s] \notin Nat  BY <2>1
  <2>3. s # {}
    <3>1. i[{}] = 0  BY <1>1 DEF Adds
    <3> QED BY <2>2, <3>1
  <2>4. /\ s \ {Some(s)} \in SUBSET S /\ Cardinality(s \ {Some(s)}) = m - 1 /\ Some(s) \in S
        /\ Cardinality(s \ {Some(s)}) \in Nat
    BY <2>2, <2>3, SomeIn, FS_Subset, FS_RemoveElement, FS_CardinalityType
  <2>5. i[s \ {Some(s)}] \in Nat
    <3>1. m \in Nat /\ m - 1 \notin Bad  BY <2>1
    <3> QED BY <2>4, <3>1
  <2>6. i[s] = f[Some(s)] + i[s \ {Some(s)}]  BY <1>1, <2>2, <2>3 DEF Adds
  <2>7. f[Some(s)] \in Nat  BY <2>4
  <2> QED BY <2>2, <2>5, <2>6, <2>7
<1> QED BY <1>1, <1>2

\* Sums of two functions add up to the sum of their pointwise sum.
LEMMA SumPlus ==
    ASSUME NEW S, IsFiniteSet(S), NEW f, NEW g, NEW h, \A x \in S : f[x] \in Int, \A x \in S : g[x] \in Int,
           \A x \in S : h[x] = f[x] + g[x]
    PROVE  Sum(h, S) = Sum(f, S) + Sum(g, S)
<1> DEFINE i == It(f, S)
           j == It(g, S)
           k == It(h, S)
<1>1. /\ Adds(i, f, SUBSET S) /\ Sum(f, S) = i[S]
      /\ Adds(j, g, SUBSET S) /\ Sum(g, S) = j[S]
      /\ Adds(k, h, SUBSET S) /\ Sum(h, S) = k[S]
  <2>1. \A x \in S : h[x] \in Int  OBVIOUS
  <2> QED BY <2>1, ItAdds, SumIt
<1> HIDE DEF i, j, k
<1>2. \A s \in SUBSET S : k[s] = i[s] + j[s]
  <2> DEFINE Bad == {n \in Nat : \E s \in SUBSET S : Cardinality(s) = n /\ k[s] # i[s] + j[s]}
  <2> SUFFICES ASSUME Bad # {} PROVE FALSE
    <3>1. \A s \in SUBSET S : Cardinality(s) \in Nat  BY FS_Subset, FS_CardinalityType
    <3> QED BY <3>1
  <2>1. PICK m \in Bad : \A y \in Bad : m <= y
    <3>1. Bad \in SUBSET Nat  OBVIOUS
    <3> HIDE DEF Bad
    <3> QED BY <3>1, NatLeast
  <2>2. PICK s \in SUBSET S : Cardinality(s) = m /\ k[s] # i[s] + j[s]  BY <2>1
  <2>3. s # {}
    <3>1. i[{}] = 0 /\ j[{}] = 0 /\ k[{}] = 0  BY <1>1 DEF Adds
    <3>2. k[s] # i[s] + j[s]  BY <2>2
    <3> QED BY ONLY <3>1, <3>2
  <2> DEFINE c == Some(s)
             r == s \ {c}
  <2>4. r \in SUBSET S /\ Cardinality(r) = m - 1 /\ c \in S /\ Cardinality(r) \in Nat
    BY <2>2, <2>3, SomeIn, FS_Subset, FS_RemoveElement, FS_CardinalityType
  <2>5. i[s] = f[c] + i[r] /\ j[s] = g[c] + j[r] /\ k[s] = h[c] + k[r]  BY <1>1, <2>2, <2>3 DEF Adds
  <2> HIDE DEF c, r
  <2>6. k[r] = i[r] + j[r]
    <3>1. m \in Nat /\ m - 1 \notin Bad  BY <2>1
    <3> QED BY <2>4, <3>1
  <2>7. h[c] = f[c] + g[c] /\ f[c] \in Int /\ g[c] \in Int /\ i[r] \in Int /\ j[r] \in Int  BY <1>1, <2>4 DEF Adds
  <2>8. k[s] # i[s] + j[s]  BY <2>2
  <2> QED BY ONLY <2>5, <2>6, <2>7, <2>8
<1> QED BY <1>1, <1>2

-----------------------------------------------------------------------------
(* Concatenations, as the models take them with FlattenSeq.                *)

\* f[i] is the concatenation of the first i of the sequences q.
Joins(f, q) ==
    f[0] = <<>> /\ \A i \in 1 .. Len(q) : f[i] = f[i - 1] \o q[i]

\* For every number of the sequences there is a function that joins them so far.
LEMMA JoinsSoFar ==
    ASSUME NEW S, NEW q \in Seq(Seq(S))
    PROVE  \A n \in 0 .. Len(q) : \E f \in [0 .. n -> Seq(S)] : f[0] = <<>> /\ \A i \in 1 .. n : f[i] = f[i - 1] \o q[i]
<1> DEFINE Good(n) == \E f \in [0 .. n -> Seq(S)] : f[0] = <<>> /\ \A i \in 1 .. n : f[i] = f[i - 1] \o q[i]
           Bad == {n \in 0 .. Len(q) : ~Good(n)}
<1> SUFFICES ASSUME Bad # {} PROVE FALSE  OBVIOUS
<1>0. Len(q) \in Nat /\ \A i \in 1 .. Len(q) : q[i] \in Seq(S)  OBVIOUS
<1> HIDE DEF Good
<1>1. PICK m \in Bad : \A y \in Bad : m <= y
  <2>1. Bad \in SUBSET Nat  BY <1>0
  <2> HIDE DEF Bad
  <2> QED BY <2>1, NatLeast
<1>2. m \in 0 .. Len(q) /\ ~Good(m) /\ m \in Nat  BY <1>0, <1>1
<1>3. CASE m = 0
  <2> DEFINE g == [i \in {0} |-> <<>>]
             no == <<>>
  <2>1. no \in Seq(S) /\ g[0] = no  OBVIOUS
  <2>2. 0 .. 0 = {0} /\ 1 .. 0 = {}  OBVIOUS
  <2>3. g \in [0 .. 0 -> Seq(S)]  BY <2>1, <2>2
  <2>4. Good(0)  BY <2>1, <2>2, <2>3 DEF Good
  <2> QED BY <1>2, <1>3, <2>4
<1>4. CASE m # 0
  <2>1. m - 1 \in 0 .. Len(q) /\ ~(m <= m - 1) /\ m \in 1 .. Len(q)  BY <1>0, <1>2, <1>4
  <2>2. Good(m - 1)  BY <1>1, <2>1
  <2>3. PICK f \in [0 .. (m - 1) -> Seq(S)] : f[0] = <<>> /\ \A i \in 1 .. (m - 1) : f[i] = f[i - 1] \o q[i]
    BY <2>2 DEF Good
  <2> DEFINE v == f[m - 1] \o q[m]
             g == [i \in 0 .. m |-> IF i = m THEN v ELSE f[i]]
  <2>4. v \in Seq(S)
    <3>1. f[m - 1] \in Seq(S) /\ q[m] \in Seq(S)  BY <1>0, <1>2, <1>4, <2>1, <2>3
    <3> HIDE DEF Bad
    <3> QED BY <3>1
  <2>5. \A i \in 0 .. (m - 1) : i \in 0 .. m /\ i # m /\ g[i] = f[i]
    <3> HIDE DEF v
    <3>1. \A i \in 0 .. (m - 1) : i \in 0 .. m /\ i # m  BY <1>2
    <3> QED BY <3>1
  <2>6. g[m] = v /\ g \in [0 .. m -> Seq(S)]
    <3> HIDE DEF v
    <3>1. \A i \in 0 .. m : i = m \/ i \in 0 .. (m - 1)  BY <1>2
    <3> QED BY <1>2, <2>3, <2>4, <3>1
  <2>7. g[0] = <<>> /\ \A i \in 1 .. m : g[i] = g[i - 1] \o q[i]
    <3>1. g[0] = <<>>  BY <1>2, <1>4, <2>3, <2>5
    <3>2. ASSUME NEW i \in 1 .. m PROVE g[i] = g[i - 1] \o q[i]
      <4>1. i - 1 \in 0 .. (m - 1)  BY <1>2
      <4>2. g[i - 1] = f[i - 1]  BY <2>5, <4>1
      <4>3. CASE i = m  BY <2>6, <4>2, <4>3
      <4>4. CASE i # m
        <5>1. i \in 1 .. (m - 1) /\ i \in 0 .. (m - 1)  BY <1>2, <4>4
        <5>2. g[i] = f[i]  BY <2>5, <5>1
        <5> QED BY <2>3, <4>2, <5>1, <5>2
      <4> QED BY <4>3, <4>4
    <3> QED BY <3>1, <3>2
  <2>8. Good(m)  BY <2>6, <2>7 DEF Good
  <2> QED BY <1>2, <2>8
<1> QED BY <1>3, <1>4

\* The recursive function FlattenSeq is the value of.
Flattening(q) == CHOOSE f : f = [i \in 1 .. Len(q) |-> IF i = 1 THEN q[i] ELSE f[i - 1] \o q[i]]

\* FlattenSeq joins the sequences one after the other.
LEMMA FlattenJoins ==
    ASSUME NEW S, NEW q \in Seq(Seq(S))
    PROVE  \E f \in [0 .. Len(q) -> Seq(S)] : Joins(f, q) /\ FlattenSeq(q) = f[Len(q)]
<1>0. Len(q) \in Nat /\ \A i \in 1 .. Len(q) : q[i] \in Seq(S)  OBVIOUS
<1>1. PICK f \in [0 .. Len(q) -> Seq(S)] : f[0] = <<>> /\ \A i \in 1 .. Len(q) : f[i] = f[i - 1] \o q[i]
  <2>1. Len(q) \in 0 .. Len(q)  BY <1>0
  <2> QED BY <2>1, JoinsSoFar
<1>2. CASE Len(q) = 0
  <2>1. q = <<>>  BY <1>2
  <2>2. FlattenSeq(q) = q  BY <1>2 DEF FlattenSeq
  <2> QED BY <1>1, <1>2, <2>1, <2>2 DEF Joins
<1>3. CASE Len(q) # 0
  <2>1. FlattenSeq(q) = Flattening(q)[Len(q)]  BY <1>3, Zenon DEF FlattenSeq, Flattening
  <2> DEFINE g == [i \in 1 .. Len(q) |-> f[i]]
  <2>2. f[1] = q[1]
    <3>0. 1 \in 1 .. Len(q) /\ 1 - 1 = 0  BY <1>0, <1>3
    <3>1. f[1] = f[1 - 1] \o q[1] /\ q[1] \in Seq(S)  BY <1>0, <1>1, <3>0
    <3>2. f[1] = <<>> \o q[1]  BY <1>1, <3>0, <3>1
    <3> QED BY <3>1, <3>2
  <2>3. ASSUME NEW i \in 1 .. Len(q) PROVE g[i] = IF i = 1 THEN q[i] ELSE g[i - 1] \o q[i]
    <3>1. CASE i = 1  BY <2>2, <3>1
    <3>2. CASE i # 1
      <4>1. i - 1 \in 1 .. Len(q)  BY <1>0, <3>2
      <4> QED BY <1>1, <3>2, <4>1
    <3> QED BY <3>1, <3>2
  <2>4. g = [i \in 1 .. Len(q) |-> IF i = 1 THEN q[i] ELSE g[i - 1] \o q[i]]  BY <2>3
  <2> HIDE DEF g
  <2> DEFINE h == Flattening(q)
  <2>5. h = [i \in 1 .. Len(q) |-> IF i = 1 THEN q[i] ELSE h[i - 1] \o q[i]]  BY <2>4, Zenon DEF Flattening
  <2> HIDE DEF h
  <2> DEFINE Bad == {i \in 1 .. Len(q) : h[i] # f[i]}
  <2>6. Bad = {}
    <3> SUFFICES ASSUME Bad # {} PROVE FALSE  OBVIOUS
    <3>1. PICK m \in Bad : \A y \in Bad : m <= y
      <4>1. Bad \in SUBSET Nat  BY <1>0
      <4> HIDE DEF Bad
      <4> QED BY <4>1, NatLeast
    <3>2. m \in 1 .. Len(q) /\ h[m] # f[m]  BY <3>1
    <3>3. m # 1  BY <2>2, <2>5, <3>2
    <3>4. m - 1 \in 1 .. Len(q) /\ ~(m <= m - 1)  BY <1>0, <3>2, <3>3
    <3>5. h[m - 1] = f[m - 1]  BY <3>1, <3>4
    <3>6. h[m] = h[m - 1] \o q[m]  BY <2>5, <3>2, <3>3
    <3>7. f[m] = f[m - 1] \o q[m]  BY <1>1, <3>2
    <3> QED BY <3>2, <3>5, <3>6, <3>7
  <2>7. h[Len(q)] = f[Len(q)]
    <3>1. Len(q) \in 1 .. Len(q)  BY <1>0, <1>3
    <3> QED BY <2>6, <3>1, Zenon
  <2>8. FlattenSeq(q) = f[Len(q)]  BY <2>1, <2>7 DEF h
  <2> QED BY <1>1, <2>8 DEF Joins
<1> QED BY <1>2, <1>3

\* What a sequence holds.
Elements(s) == {s[i] : i \in 1 .. Len(s)}

\* A concatenation holds what its two parts hold.
LEMMA JoinedElements ==
    ASSUME NEW S, NEW a \in Seq(S), NEW b \in Seq(S)
    PROVE  Elements(a \o b) = Elements(a) \cup Elements(b)
<1>0. Len(a) \in Nat /\ Len(b) \in Nat  OBVIOUS
<1>1. /\ Len(a \o b) = Len(a) + Len(b)
      /\ \A i \in 1 .. Len(a) : (a \o b)[i] = a[i]
      /\ \A i \in 1 .. Len(b) : (a \o b)[Len(a) + i] = b[i]
  OBVIOUS
<1> DEFINE c == a \o b  m == Len(a)  n == Len(b)
<1>2. /\ m \in Nat /\ n \in Nat /\ Len(c) = m + n
      /\ \A i \in 1 .. m : c[i] = a[i]
      /\ \A i \in 1 .. n : c[m + i] = b[i]
  BY <1>0, <1>1
<1> HIDE DEF c, m, n
<1>3. \A i \in 1 .. m : i \in 1 .. m + n  BY <1>2
<1>4. \A i \in 1 .. n : m + i \in 1 .. m + n  BY <1>2
<1>5. \A i \in 1 .. m + n : i \in 1 .. m \/ \E j \in 1 .. n : i = m + j
  <2> TAKE i \in 1 .. m + n
  <2>1. CASE i \notin 1 .. m
    <3>1. i - m \in 1 .. n /\ i = m + (i - m)  BY <1>2, <2>1
    <3> QED BY <3>1
  <2> QED BY <2>1
<1>6. {c[i] : i \in 1 .. m + n} = {a[i] : i \in 1 .. m} \cup {b[i] : i \in 1 .. n}
  <2>1. ASSUME NEW i \in 1 .. m + n PROVE c[i] \in {a[j] : j \in 1 .. m} \cup {b[j] : j \in 1 .. n}  BY <1>2, <1>5
  <2>2. ASSUME NEW i \in 1 .. m PROVE a[i] \in {c[j] : j \in 1 .. m + n}  BY <1>2, <1>3
  <2>3. ASSUME NEW i \in 1 .. n PROVE b[i] \in {c[j] : j \in 1 .. m + n}
    <3>1. b[i] = c[m + i] /\ m + i \in 1 .. m + n  BY <1>2, <1>4
    <3> QED BY <3>1
  <2> QED BY <2>1, <2>2, <2>3
<1> QED BY <1>2, <1>6 DEF Elements, c, m, n

-----------------------------------------------------------------------------
(* Counting.                                                               *)

\* Counting by groups: when D holds the second component of every element of S, the sum
\* over D of how many elements have it is the size of S.
LEMMA SumOfGroups ==
    ASSUME NEW S, IsFiniteSet(S), NEW D, IsFiniteSet(D), NEW g,
           \A c \in D : g[c] = Cardinality({x \in S : x[2] = c})
    PROVE  Sum(g, D) = Cardinality({x \in S : x[2] \in D})
<1> DEFINE In(E) == {x \in S : x[2] \in E}
           Of(c) == {x \in S : x[2] = c}
           Bad == {n \in Nat : \E E \in SUBSET D : Cardinality(E) = n /\ Sum(g, E) # Cardinality(In(E))}
<1>0. \A c \in D : g[c] \in Int /\ g[c] = Cardinality(Of(c))
  <2>1. ASSUME NEW c \in D PROVE Cardinality(Of(c)) \in Nat  BY FS_Subset, FS_CardinalityType
  <2> QED BY <2>1
<1>1. ASSUME NEW E \in SUBSET D PROVE IsFiniteSet(E) /\ Cardinality(E) \in Nat  BY FS_Subset, FS_CardinalityType
<1> SUFFICES ASSUME Bad # {} PROVE FALSE
  <2>1. D \in SUBSET D  OBVIOUS
  <2> QED BY <1>1, <2>1
<1>2. PICK m \in Bad : \A y \in Bad : m <= y
  <2>1. Bad \in SUBSET Nat  OBVIOUS
  <2> HIDE DEF Bad
  <2> QED BY <2>1, NatLeast
<1>3. PICK E \in SUBSET D : Cardinality(E) = m /\ Sum(g, E) # Cardinality(In(E))  BY <1>2
<1>4. IsFiniteSet(E)  BY <1>1
<1>5. E # {}
  <2> SUFFICES ASSUME E = {} PROVE FALSE  OBVIOUS
  <2>1. In(E) = {}  OBVIOUS
  <2>2. Sum(g, E) = 0  BY SumEmpty
  <2> QED BY <1>3, <2>1, <2>2, FS_EmptySet
<1>6. PICK c : c \in E  BY <1>5
<1> DEFINE F == E \ {c}
<1>7. F \in SUBSET D /\ IsFiniteSet(F) /\ Cardinality(F) = m - 1 /\ m - 1 \in Nat
  <2>1. F \in SUBSET D  OBVIOUS
  <2>2. IsFiniteSet(F) /\ Cardinality(F) = Cardinality(E) - 1  BY <1>4, <1>6, FS_RemoveElement
  <2>3. Cardinality(F) \in Nat  BY <2>1, <1>1
  <2> QED BY <1>3, <2>1, <2>2, <2>3
<1>8. Sum(g, F) = Cardinality(In(F))
  <2>1. m - 1 \notin Bad  BY <1>2, <1>7
  <2> QED BY <1>7, <2>1
<1>9. Sum(g, E) = g[c] + Sum(g, F)
  <2>1. \A x \in E : g[x] \in Int  BY <1>0
  <2> HIDE DEF Bad, F
  <2> QED BY <1>4, <1>6, <2>1, SumRemove DEF F
<1>10. Cardinality(In(E)) = Cardinality(Of(c)) + Cardinality(In(F))
  <2>1. In(E) = Of(c) \cup In(F) /\ Of(c) \cap In(F) = {}  BY <1>6
  <2>2. IsFiniteSet(Of(c)) /\ IsFiniteSet(In(F))  BY FS_Subset
  <2>3. Cardinality({}) = 0  BY FS_EmptySet
  <2>4. Cardinality(Of(c)) \in Nat /\ Cardinality(In(F)) \in Nat  BY <2>2, FS_CardinalityType
  <2> DEFINE A == Of(c)
             B == In(F)
  <2> HIDE DEF A, B, Bad
  <2>5. Cardinality(A \cup B) = Cardinality(A) + Cardinality(B) - Cardinality(A \cap B)  BY <2>2, FS_Union DEF A, B
  <2>6. A \cap B = {} /\ Cardinality(A) \in Nat /\ Cardinality(B) \in Nat  BY <2>1, <2>4 DEF A, B
  <2>7. Cardinality(A \cup B) = Cardinality(A) + Cardinality(B)
    <3>1. Cardinality(A \cap B) = 0  BY <2>3, <2>6
    <3> DEFINE a == Cardinality(A)
               b == Cardinality(B)
               u == Cardinality(A \cup B)
               n == Cardinality(A \cap B)
    <3>2. u = a + b - n /\ n = 0 /\ a \in Nat /\ b \in Nat  BY <2>5, <2>6, <3>1
    <3> HIDE DEF a, b, u, n
    <3>3. u = a + b  BY ONLY <3>2
    <3> QED BY <3>3 DEF a, b, u
  <2>8. In(E) = A \cup B  BY <2>1 DEF A, B
  <2>9. Cardinality(In(E)) = Cardinality(A) + Cardinality(B)  BY <2>7, <2>8, Zenon
  <2> QED BY <2>9 DEF A, B
<1> QED BY <1>0, <1>3, <1>6, <1>8, <1>9, <1>10

\* The values of a function on a finite set are finitely many, and as many as the
\* set has elements when the function tells them apart.
LEMMA FiniteValues ==
    ASSUME NEW S, IsFiniteSet(S), NEW f, f \in [S -> {f[x] : x \in S}]
    PROVE  /\ IsFiniteSet({f[x] : x \in S})
           /\ (\A x, y \in S : f[x] = f[y] => x = y) => Cardinality({f[x] : x \in S}) = Cardinality(S)
<1> DEFINE T == {f[x] : x \in S}
<1>1. f \in [S -> T] /\ \A v \in T : \E x \in S : f[x] = v  OBVIOUS
<1> HIDE DEF T
<1>2. f \in Surjection(S, T)  BY <1>1 DEF Surjection
<1>3. (\A x, y \in S : f[x] = f[y] => x = y) => f \in Injection(S, T)  BY <1>1 DEF Injection, IsInjective
<1> QED BY <1>2, <1>3, FS_Surjection DEF T

\* A sum of naturals is no less than one of them.
LEMMA SumCovers ==
    ASSUME NEW S, IsFiniteSet(S), NEW f, \A x \in S : f[x] \in Nat, NEW x \in S
    PROVE  f[x] <= Sum(f, S)
<1>1. IsFiniteSet(S \ {x})  BY FS_Subset
<1>2. Sum(f, S) = f[x] + Sum(f, S \ {x})  BY SumRemove
<1>3. Sum(f, S \ {x}) \in Nat  BY <1>1, SumNat
<1> QED BY <1>2, <1>3

\* A sum is at most the largest summand times their number.
LEMMA SumBounded ==
    ASSUME NEW S, IsFiniteSet(S), NEW b \in Nat, NEW f, \A x \in S : f[x] \in Nat /\ f[x] <= b
    PROVE  Sum(f, S) <= Cardinality(S) * b
<1> DEFINE Bad == {n \in Nat : \E s \in SUBSET S : Cardinality(s) = n /\ ~(Sum(f, s) <= n * b)}
<1>0. \A s \in SUBSET S : IsFiniteSet(s) /\ Cardinality(s) \in Nat  BY FS_Subset, FS_CardinalityType
<1> SUFFICES ASSUME Bad # {} PROVE FALSE  BY <1>0
<1>1. PICK m \in Bad : \A y \in Bad : m <= y
  <2>1. Bad \in SUBSET Nat  OBVIOUS
  <2> HIDE DEF Bad
  <2> QED BY <2>1, NatLeast
<1>2. PICK s \in SUBSET S : Cardinality(s) = m /\ ~(Sum(f, s) <= m * b)  BY <1>1
<1>3. m \in Nat /\ m - 1 \notin Bad  BY <1>1
<1>4. s # {}
  <2> SUFFICES ASSUME s = {} PROVE FALSE  OBVIOUS
  <2>1. Sum(f, s) = 0 /\ m = 0  BY <1>2, SumEmpty, FS_EmptySet
  <2> QED BY <1>2, <2>1
<1>5. PICK x \in s : TRUE  BY <1>4
<1> DEFINE r == s \ {x}
<1>6. IsFiniteSet(s) /\ r \in SUBSET S /\ Cardinality(r) = m - 1 /\ Cardinality(r) \in Nat
  BY <1>0, <1>2, <1>5, FS_RemoveElement
<1>7. Sum(f, s) = f[x] + Sum(f, r)  BY <1>6, SumRemove
<1>8. Sum(f, r) \in Nat  BY <1>0, <1>6, SumNat
<1> HIDE DEF r
<1>9. Sum(f, r) <= (m - 1) * b  BY <1>3, <1>6
<1> HIDE DEF Bad
<1>10. m * b = (m - 1) * b + b /\ (m - 1) * b \in Int  BY <1>3
<1> DEFINE y == (m - 1) * b
<1>11. y \in Int /\ Sum(f, r) <= y /\ m * b = y + b  BY <1>9, <1>10
<1> HIDE DEF y
<1>12. f[x] \in Nat /\ f[x] <= b  BY <1>5
<1> QED BY <1>2, <1>7, <1>8, <1>11, <1>12

\* A bounded set of naturals has a largest element.
LEMMA NatLargest ==
    ASSUME NEW T \in SUBSET Nat, T # {}, NEW n \in Nat, \A x \in T : x <= n
    PROVE  \E x \in T : \A y \in T : y <= x
<1> DEFINE D == {n - x : x \in T}
<1>1. D \in SUBSET Nat /\ D # {}
  <2>1. \A x \in T : n - x \in Nat  OBVIOUS
  <2> QED BY <2>1
<1>2. PICK d \in D : \A e \in D : d <= e
  <2> HIDE DEF D
  <2> QED BY <1>1, NatLeast
<1>3. PICK x \in T : d = n - x  BY <1>2
<1>4. ASSUME NEW y \in T PROVE y <= x
  <2>1. n - y \in D  OBVIOUS
  <2>2. n - x <= n - y  BY <1>2, <1>3, <2>1
  <2> QED BY <2>2
<1> QED BY <1>4

\* Tasks that check a limit first and add later: a task whose check passed takes the
\* limit and what the others have found room for ...
LEMMA CheckPasses ==
    ASSUME NEW T, IsFiniteSet(T), NEW t \in T, NEW b \in Nat, NEW g, \A v \in T : g[v] \in Nat /\ g[v] <= b,
           NEW u \in Nat, NEW m \in Nat, u + g[t] <= m
    PROVE  u + Sum(g, T) <= m + (Cardinality(T) - 1) * b
<1> DEFINE L == (Cardinality(T) - 1) * b
           R == T \ {t}
<1>1. Sum(g, T) = g[t] + Sum(g, R)  BY SumRemove
<1>2. IsFiniteSet(R) /\ Cardinality(R) = Cardinality(T) - 1 /\ Cardinality(R) \in Nat
  BY FS_RemoveElement, FS_CardinalityType
<1>3. Sum(g, R) \in Nat  BY <1>2, SumNat
<1>4. Sum(g, R) <= Cardinality(R) * b  BY <1>2, SumBounded
<1>5. Sum(g, R) <= L /\ L \in Nat  BY <1>2, <1>4
<1> HIDE DEF L
<1>6. u + Sum(g, T) <= m + L  BY <1>1, <1>3, <1>5
<1> QED BY <1>6 DEF L

\* ... and any other step adds no more than the task had found room for.
LEMMA NoCheckPasses ==
    ASSUME NEW T, IsFiniteSet(T), NEW t \in T, NEW f, NEW g, \A v \in T : f[v] \in Nat, g[t] \in Nat,
           \A v \in T \ {t} : g[v] = f[v], NEW u \in Nat, NEW u1 \in Nat, u1 + g[t] <= u + f[t],
           NEW L \in Nat, u + Sum(f, T) <= L
    PROVE  u1 + Sum(g, T) <= L
<1>1. Sum(g, T) = Sum(f, T) - f[t] + g[t]
  <2>1. \A v \in T : f[v] \in Int  OBVIOUS
  <2>2. g[t] \in Int /\ \A v \in T : v # t => g[v] = f[v]  OBVIOUS
  <2> QED BY <2>1, <2>2, SumUpdate
<1>2. Sum(f, T) \in Nat  BY SumNat
<1> QED BY <1>1, <1>2

\* Where there is a task, the others are a natural number.
LEMMA TheOthers ==
    ASSUME NEW T, IsFiniteSet(T), T # {}, NEW b \in Nat
    PROVE  (Cardinality(T) - 1) * b \in Nat
<1>1. Cardinality(T) - 1 \in Nat  BY FS_EmptySet, FS_CardinalityType
<1> QED BY <1>1

-----------------------------------------------------------------------------
(* What is kept of a sequence, and how many of its elements are of a kind  *)

\* The elements of s that are in S, in their order.
Filtered(s, S) == FlattenSeq([i \in 1 .. Len(s) |-> IF s[i] \in S THEN <<s[i]>> ELSE <<>>])

\* h says where the elements of k come from, among the first n of s: every element in S
\* is there once, in its order.
FilteredFrom(h, k, s, S, n) ==
    /\ h \in [1 .. Len(k) -> 1 .. n]
    /\ \A j \in 1 .. Len(k) : k[j] = s[h[j]] /\ s[h[j]] \in S
    /\ \A i, j \in 1 .. Len(k) : i < j => h[i] < h[j]
    /\ \A i \in 1 .. n : s[i] \in S => \E j \in 1 .. Len(k) : h[j] = i

\* What is kept comes from places of the sequence, in their order.
LEMMA KeptPlaces ==
    ASSUME NEW T, NEW s \in Seq(T), NEW S
    PROVE  Filtered(s, S) \in Seq(T) /\ \E h : FilteredFrom(h, Filtered(s, S), s, S, Len(s))
<1> DEFINE n == Len(s)
           q == [i \in 1 .. n |-> IF s[i] \in S THEN <<s[i]>> ELSE <<>>]
<1>0. n \in Nat /\ \A i \in 1 .. n : s[i] \in T  OBVIOUS
<1>1. q \in Seq(Seq(T)) /\ Len(q) = n /\ \A i \in 1 .. n : q[i] = IF s[i] \in S THEN <<s[i]>> ELSE <<>>
  <2>1. \A i \in 1 .. n : (IF s[i] \in S THEN <<s[i]>> ELSE <<>>) \in Seq(T)  BY <1>0
  <2>2. q \in [1 .. n -> Seq(T)]  BY <2>1
  <2> QED BY <1>0, <2>2
<1> HIDE DEF q
<1>2. PICK f \in [0 .. n -> Seq(T)] : f[0] = <<>> /\ (\A i \in 1 .. n : f[i] = f[i - 1] \o q[i]) /\ FlattenSeq(q) = f[n]
  <2>1. \E f \in [0 .. Len(q) -> Seq(T)] : Joins(f, q) /\ FlattenSeq(q) = f[Len(q)]  BY <1>1, FlattenJoins
  <2> HIDE DEF n
  <2> QED BY <1>1, <2>1 DEF Joins
<1> HIDE DEF n
<1> DEFINE Good(m) == \E h : FilteredFrom(h, f[m], s, S, m)
           Bad == {m \in 0 .. n : ~Good(m)}
<1>3. Good(0)
  <2>1. FilteredFrom(<<>>, <<>>, s, S, 0)  BY DEF FilteredFrom
  <2> QED BY <1>2, <2>1
<1>4. ASSUME NEW m \in 1 .. n, Good(m - 1) PROVE Good(m)
  <2>1. m - 1 \in 0 .. n /\ m \in Nat /\ m - 1 \in Nat  BY <1>0
  <2> DEFINE k == f[m - 1]
  <2>2. k \in Seq(T) /\ f[m] = k \o q[m] /\ Len(k) \in Nat
    <3>1. f[m - 1] \in Seq(T)  BY <1>2, <2>1
    <3>2. f[m] = f[m - 1] \o q[m]  BY <1>2
    <3> QED BY <3>1, <3>2
  <2>3. PICK h : FilteredFrom(h, k, s, S, m - 1)  BY <1>4
  <2> HIDE DEF k
  <2>4. CASE s[m] \notin S
    <3>1. f[m] = k  BY <1>1, <2>2, <2>4
    <3>2. FilteredFrom(h, k, s, S, m)
      <4>1. \A i \in 1 .. m - 1 : i \in 1 .. m  BY <2>1
      <4>2. \A i \in 1 .. m : i = m \/ i \in 1 .. m - 1  BY <2>1
      <4>3. h \in [1 .. Len(k) -> 1 .. m]  BY <2>3, <4>1 DEF FilteredFrom
      <4> QED BY <2>3, <2>4, <4>2, <4>3 DEF FilteredFrom
    <3> QED BY <3>1, <3>2
  <2>5. CASE s[m] \in S
    <3> DEFINE L == Len(k)
               g == [j \in 1 .. L + 1 |-> IF j = L + 1 THEN m ELSE h[j]]
    <3>1. f[m] = Append(k, s[m])
      <4>1. q[m] = <<s[m]>>  BY <1>1, <2>5
      <4> QED BY <2>2, <4>1, <1>0
    <3>2. Len(f[m]) = L + 1 /\ f[m][L + 1] = s[m] /\ \A j \in 1 .. L : f[m][j] = k[j]  BY <2>2, <3>1
    <3>3. L \in Nat /\ \A j \in 1 .. L + 1 : j = L + 1 \/ j \in 1 .. L  BY <2>2
    <3>4. \A j \in 1 .. L : g[j] = h[j] /\ h[j] \in 1 .. m - 1 /\ j # L + 1 /\ j < L + 1 /\ j \in 1 .. L + 1
      BY <2>3, <3>3 DEF FilteredFrom
    <3>5. g[L + 1] = m /\ L + 1 \in 1 .. L + 1 /\ m \in 1 .. m  BY <2>1, <3>3
    <3>6. \A i \in 1 .. m - 1 : i \in 1 .. m /\ i < m  BY <2>1
    <3>7. \A i \in 1 .. m : i = m \/ i \in 1 .. m - 1  BY <2>1
    <3>8. g \in [1 .. L + 1 -> 1 .. m]
      <4> SUFFICES ASSUME NEW j \in 1 .. L + 1 PROVE g[j] \in 1 .. m  OBVIOUS
      <4> HIDE DEF g
      <4> QED BY <3>3, <3>4, <3>5, <3>6
    <3> HIDE DEF g, L
    <3>9. \A j \in 1 .. L + 1 : f[m][j] = s[g[j]] /\ s[g[j]] \in S
      BY <2>3, <2>5, <3>2, <3>3, <3>4, <3>5 DEF FilteredFrom, L
    <3>10. \A i, j \in 1 .. L + 1 : i < j => g[i] < g[j]
      <4> SUFFICES ASSUME NEW i \in 1 .. L + 1, NEW j \in 1 .. L + 1, i < j PROVE g[i] < g[j]  OBVIOUS
      <4>1. i \in 1 .. L  BY <3>3
      <4>2. CASE j = L + 1  BY <3>4, <3>5, <3>6, <4>1, <4>2
      <4>3. CASE j \in 1 .. L  BY <2>3, <3>4, <4>1, <4>3 DEF FilteredFrom, L
      <4> QED BY <3>3, <4>2, <4>3
    <3>11. \A i \in 1 .. m : s[i] \in S => \E j \in 1 .. L + 1 : g[j] = i  BY <2>3, <3>4, <3>5, <3>7 DEF FilteredFrom, L
    <3>12. FilteredFrom(g, f[m], s, S, m)  BY <3>2, <3>8, <3>9, <3>10, <3>11 DEF FilteredFrom
    <3> QED BY <3>12
  <2> QED BY <2>4, <2>5
<1> HIDE DEF Good
<1>5. Good(n)
  <2>0. n \in 0 .. n  BY <1>0
  <2> SUFFICES ASSUME Bad # {} PROVE FALSE  BY <2>0
  <2>1. PICK m \in Bad : \A y \in Bad : m <= y
    <3>1. Bad \in SUBSET Nat  BY <1>0
    <3> HIDE DEF Bad
    <3> QED BY <3>1, NatLeast
  <2>2. m \in 0 .. n /\ ~Good(m) /\ m # 0  BY <1>3, <2>1
  <2>3. m - 1 \in 0 .. n /\ ~(m <= m - 1) /\ m \in 1 .. n  BY <1>0, <2>2
  <2>4. Good(m - 1)  BY <2>1, <2>3
  <2> QED BY <1>4, <2>2, <2>3, <2>4
<1>6. FlattenSeq(q) = Filtered(s, S) /\ FlattenSeq(q) = f[n] /\ f[n] \in Seq(T)
  <2>1. n \in 0 .. n  BY <1>0
  <2> QED BY <1>2, <2>1 DEF Filtered, q, n
<1> QED BY <1>5, <1>6 DEF Good, n

\* How many of s are in S.
HowMany(s, S) == Cardinality({i \in 1 .. Len(s) : s[i] \in S})

\* A count is a natural number, no more than the length.
LEMMA CountType ==
    ASSUME NEW T, NEW s \in Seq(T), NEW S
    PROVE  HowMany(s, S) \in Nat /\ HowMany(s, S) <= Len(s) /\ IsFiniteSet({i \in 1 .. Len(s) : s[i] \in S})
<1>1. Len(s) \in Nat  OBVIOUS
<1>2. IsFiniteSet(1 .. Len(s)) /\ Cardinality(1 .. Len(s)) = Len(s)  BY <1>1, FS_Interval
<1> DEFINE D == {i \in 1 .. Len(s) : s[i] \in S}
<1>3. D \in SUBSET (1 .. Len(s))  OBVIOUS
<1> HIDE DEF D
<1>4. IsFiniteSet(D) /\ Cardinality(D) <= Len(s)  BY <1>2, <1>3, FS_Subset
<1> QED BY <1>4, FS_CardinalityType DEF HowMany, D

\* One more element counts if it is in S.
LEMMA CountAppend ==
    ASSUME NEW T, NEW s \in Seq(T), NEW x \in T, NEW S
    PROVE  HowMany(Append(s, x), S) = HowMany(s, S) + (IF x \in S THEN 1 ELSE 0)
<1> DEFINE n == Len(s)
           a == Append(s, x)
           D == {i \in 1 .. n : s[i] \in S}
           E == {i \in 1 .. n + 1 : a[i] \in S}
<1>1. n \in Nat /\ Len(a) = n + 1 /\ a[n + 1] = x /\ \A i \in 1 .. n : a[i] = s[i]  OBVIOUS
<1>2. IsFiniteSet(D) /\ Cardinality(D) \in Nat  BY CountType DEF HowMany
<1> HIDE DEF a, n
<1>3. n + 1 \notin D /\ E = IF x \in S THEN D \cup {n + 1} ELSE D
  <2>1. \A i \in 1 .. n + 1 : i = n + 1 \/ i \in 1 .. n  BY <1>1
  <2>2. \A i \in 1 .. n : i \in 1 .. n + 1 /\ i # n + 1  BY <1>1
  <2>3. n + 1 \in 1 .. n + 1  BY <1>1
  <2> QED BY <1>1, <2>1, <2>2, <2>3
<1> HIDE DEF D, E
<1>4. Cardinality(E) = Cardinality(D) + (IF x \in S THEN 1 ELSE 0)
  <2>1. CASE x \in S
    <3>1. E = D \cup {n + 1}  BY <1>3, <2>1
    <3>2. Cardinality(D \cup {n + 1}) = Cardinality(D) + 1  BY <1>2, <1>3, FS_AddElement
    <3> QED BY <2>1, <3>1, <3>2
  <2>2. CASE x \notin S  BY <1>2, <1>3, <2>2
  <2> QED BY <2>1, <2>2
<1> QED BY <1>1, <1>4 DEF HowMany, a, n, D, E

\* What is kept is as many as there were.
LEMMA KeptCount ==
    ASSUME NEW T, NEW s \in Seq(T), NEW S, NEW R \in SUBSET S
    PROVE  Len(Filtered(s, S)) = HowMany(s, S) /\ HowMany(Filtered(s, S), R) = HowMany(s, R)
<1> DEFINE k == Filtered(s, S)
<1>1. PICK h : FilteredFrom(h, k, s, S, Len(s))  BY KeptPlaces
<1>2. k \in Seq(T) /\ Len(k) \in Nat /\ Len(s) \in Nat  BY KeptPlaces
<1> HIDE DEF k
<1>3. \A i, j \in 1 .. Len(k) : h[i] = h[j] => i = j
  <2> SUFFICES ASSUME NEW i \in 1 .. Len(k), NEW j \in 1 .. Len(k), h[i] = h[j], i # j PROVE FALSE  OBVIOUS
  <2>1. h[i] \in 1 .. Len(s) /\ h[j] \in 1 .. Len(s)  BY <1>1 DEF FilteredFrom
  <2>2. i < j \/ j < i  BY <1>2
  <2>3. h[i] < h[j] \/ h[j] < h[i]  BY <1>1, <2>2 DEF FilteredFrom
  <2> QED BY <1>2, <2>1, <2>3
<1>4. ASSUME NEW Q \in SUBSET S PROVE HowMany(k, Q) = HowMany(s, Q)
  <2> DEFINE D == {j \in 1 .. Len(k) : k[j] \in Q}
             E == {i \in 1 .. Len(s) : s[i] \in Q}
             g == [j \in D |-> h[j]]
  <2>1. IsFiniteSet(D)  BY <1>2, CountType
  <2>2. g \in [D -> {g[j] : j \in D}] /\ \A i, j \in D : g[i] = g[j] => i = j  BY <1>3
  <2>3. {g[j] : j \in D} = E
    <3>1. ASSUME NEW j \in D PROVE h[j] \in E  BY <1>1 DEF FilteredFrom
    <3>2. ASSUME NEW i \in E PROVE \E j \in D : h[j] = i
      <4>1. PICK j \in 1 .. Len(k) : h[j] = i  BY <1>1 DEF FilteredFrom
      <4>2. k[j] = s[i]  BY <1>1, <4>1 DEF FilteredFrom
      <4> QED BY <4>1, <4>2
    <3> QED BY <3>1, <3>2
  <2> HIDE DEF D, E, g
  <2>4. Cardinality(E) = Cardinality(D)  BY <2>1, <2>2, <2>3, FiniteValues
  <2> QED BY <2>4 DEF HowMany, D, E
<1>5. HowMany(k, S) = Len(k)
  <2>1. {j \in 1 .. Len(k) : k[j] \in S} = 1 .. Len(k)  BY <1>1 DEF FilteredFrom
  <2>2. Cardinality(1 .. Len(k)) = Len(k)
    <3> DEFINE n == Len(k)
    <3>1. n \in Nat  BY <1>2
    <3> HIDE DEF n
    <3>2. Cardinality(1 .. n) = IF 1 > n THEN 0 ELSE n - 1 + 1  BY <3>1, FS_Interval
    <3>3. Cardinality(1 .. n) = n  BY <3>1, <3>2
    <3> QED BY <3>3 DEF n
  <2> QED BY <2>1, <2>2 DEF HowMany
<1> QED BY <1>4, <1>5 DEF k

\* What is left of a sequence when the elements of G go.
LEMMA WithoutSome ==
    ASSUME NEW T, NEW s \in Seq(T), NEW G
    PROVE  FlattenSeq([i \in 1 .. Len(s) |-> IF s[i] \in G THEN <<>> ELSE <<s[i]>>]) = Filtered(s, T \ G)
<1>1. [i \in 1 .. Len(s) |-> IF s[i] \in G THEN <<>> ELSE <<s[i]>>]
        = [i \in 1 .. Len(s) |-> IF s[i] \in T \ G THEN <<s[i]>> ELSE <<>>]  OBVIOUS
<1> QED BY <1>1, Zenon DEF Filtered

\* The elements of s are told apart.
NoRepeats(s) == \A i, j \in 1 .. Len(s) : s[i] = s[j] => i = j

\* What is kept of a sequence without repetitions has none.
LEMMA KeptDistinct ==
    ASSUME NEW T, NEW s \in Seq(T), NEW S, NoRepeats(s)
    PROVE  NoRepeats(Filtered(s, S)) /\ Elements(Filtered(s, S)) \subseteq Elements(s)
<1> DEFINE k == Filtered(s, S)
<1>1. PICK h : FilteredFrom(h, k, s, S, Len(s))  BY KeptPlaces
<1>2. k \in Seq(T) /\ Len(k) \in Nat /\ Len(s) \in Nat  BY KeptPlaces
<1> HIDE DEF k
<1>3. ASSUME NEW i \in 1 .. Len(k), NEW j \in 1 .. Len(k), k[i] = k[j] PROVE i = j
  <2>1. h[i] \in 1 .. Len(s) /\ h[j] \in 1 .. Len(s) /\ k[i] = s[h[i]] /\ k[j] = s[h[j]]  BY <1>1 DEF FilteredFrom
  <2>2. h[i] = h[j]  BY <1>3, <2>1 DEF NoRepeats
  <2>3. ~(h[i] < h[j]) /\ ~(h[j] < h[i])  BY <1>2, <2>1, <2>2
  <2>4. ~(i < j) /\ ~(j < i)  BY <1>1, <2>3 DEF FilteredFrom
  <2> QED BY <1>2, <2>4
<1>4. ASSUME NEW j \in 1 .. Len(k) PROVE k[j] \in Elements(s)  BY <1>1 DEF FilteredFrom, Elements
<1> QED BY <1>3, <1>4 DEF NoRepeats, Elements, k

\* What is kept is shorter when an element goes.
LEMMA KeptShorter ==
    ASSUME NEW T, NEW s \in Seq(T), NEW S, NEW a \in 1 .. Len(s), s[a] \notin S
    PROVE  Len(Filtered(s, S)) <= Len(s) - 1
<1> DEFINE I == 1 .. Len(s)  D == {i \in I : s[i] \in S}
<1>0. Len(s) \in Nat  OBVIOUS
<1>1. Len(Filtered(s, S)) = Cardinality(D)
  <2>1. S \in SUBSET S  OBVIOUS
  <2>2. Len(Filtered(s, S)) = HowMany(s, S)  BY <2>1, KeptCount
  <2> QED BY <2>2 DEF HowMany
<1>2. IsFiniteSet(I) /\ Cardinality(I) = Len(s) /\ a \in I  BY <1>0, FS_Interval
<1>3. D \subseteq I \ {a}  OBVIOUS
<1> HIDE DEF I, D
<1>4. IsFiniteSet(I \ {a}) /\ Cardinality(I \ {a}) = Cardinality(I) - 1  BY <1>2, FS_RemoveElement
<1>5. Cardinality(D) <= Cardinality(I \ {a})  BY <1>3, <1>4, FS_Subset
<1> QED BY <1>1, <1>2, <1>4, <1>5

\* An element that is not there is appended.
LEMMA OneMoreDistinct ==
    ASSUME NEW T, NEW s \in Seq(T), NEW x \in T, NoRepeats(s), \A i \in 1 .. Len(s) : s[i] # x
    PROVE  Append(s, x) \in Seq(T) /\ NoRepeats(Append(s, x)) /\ Len(Append(s, x)) = Len(s) + 1
<1> DEFINE a == Append(s, x)
<1>1. Len(s) \in Nat /\ a \in Seq(T) /\ Len(a) = Len(s) + 1 /\ a[Len(s) + 1] = x /\ \A i \in 1 .. Len(s) : a[i] = s[i]
  OBVIOUS
<1> HIDE DEF a
<1>2. \A i \in 1 .. Len(a) : i = Len(s) + 1 \/ i \in 1 .. Len(s)  BY <1>1
<1>3. NoRepeats(a)  BY <1>1, <1>2 DEF NoRepeats
<1> QED BY <1>1, <1>3 DEF a

-----------------------------------------------------------------------------
(* Division                                                                *)

\* Division rounds down.
LEMMA DivBelow ==
    ASSUME NEW r \in Nat \ {0}, NEW a \in Int
    PROVE  a \div r \in Int /\ r * (a \div r) <= a /\ a < r * (a \div r) + r  OBVIOUS

\* A factor of a sum.
LEMMA Distribute == ASSUME NEW r \in Int, NEW x \in Int, NEW y \in Int PROVE r * (x + y) = r * x + r * y  OBVIOUS

\* A positive product with a positive factor has a positive other one.
LEMMA FactorPositive == ASSUME NEW r \in Nat \ {0}, NEW x \in Int, r * x > 0 PROVE x > 0  OBVIOUS

\* ... to the largest quotient there is.
LEMMA DivLargest ==
    ASSUME NEW r \in Nat \ {0}, NEW a \in Int, NEW q \in Int, r * q <= a
    PROVE  q <= a \div r
<1> DEFINE d == a \div r
<1>1. d \in Int /\ a < r * d + r  BY DivBelow
<1> HIDE DEF d
<1>2. r * (d + (1 - q)) = r * d + r * (1 - q) /\ r * (1 + (0 - q)) = r * 1 + r * (0 - q) /\ r * (q + (0 - q)) = r * q + r * (0 - q)
  BY <1>1, Distribute
<1> DEFINE dd == r * d  nq == r * (0 - q)  qq == r * q  x == d + (1 - q)
<1>3. dd \in Int /\ nq \in Int /\ qq \in Int /\ x \in Int /\ r * 1 = r /\ r * 0 = 0 /\ q + (0 - q) = 0 /\ 1 + (0 - q) = 1 - q
  BY <1>1
<1>4. r * x = dd + (r + nq) /\ 0 = qq + nq
  <2>1. r * x = dd + r * (1 - q)  BY <1>2
  <2>2. r * (1 - q) = r + nq  BY <1>2, <1>3
  <2>3. 0 = qq + nq  BY <1>2, <1>3
  <2> QED BY <2>1, <2>2, <2>3
<1>5. a < dd + r /\ qq <= a  BY <1>1
<1>6. x \in Int  BY <1>3
<1>8. x = d + (1 - q) OBVIOUS
<1> HIDE DEF dd, nq, qq, x
<1>7. r * x > 0  BY <1>3, <1>4, <1>5
<1>9. x > 0  BY <1>6, <1>7, FactorPositive
<1>10. q <= d  BY ONLY <1>1, <1>8, <1>9, q \in Int
<1> QED BY <1>10 DEF d

\* A larger number has no smaller quotient.
LEMMA DivMonotone ==
    ASSUME NEW r \in Nat \ {0}, NEW a \in Int, NEW b \in Int, a <= b
    PROVE  a \div r <= b \div r
<1> DEFINE d == a \div r
<1>1. d \in Int /\ r * d <= a  BY DivBelow
<1> HIDE DEF d
<1>2. r * d \in Int  BY <1>1
<1>3. r * d <= b  BY <1>1, <1>2
<1>4. d <= b \div r  BY <1>1, <1>3, DivLargest
<1> QED BY <1>4 DEF d

\* Two quotients are no more than the quotient of the sum.
LEMMA DivSum ==
    ASSUME NEW r \in Nat \ {0}, NEW a \in Int, NEW b \in Int
    PROVE  (a \div r) + (b \div r) <= (a + b) \div r
<1> DEFINE d == a \div r  e == b \div r
<1>1. d \in Int /\ r * d <= a /\ e \in Int /\ r * e <= b  BY DivBelow
<1> HIDE DEF d, e
<1>2. r * (d + e) = r * d + r * e  BY <1>1, Distribute
<1>3. r * d \in Int /\ r * e \in Int /\ d + e \in Int /\ a + b \in Int  BY <1>1
<1>4. r * (d + e) <= a + b  BY <1>1, <1>2, <1>3
<1>5. d + e <= (a + b) \div r  BY <1>3, <1>4, DivLargest
<1> QED BY <1>5 DEF d, e

\* A quotient and k more.
LEMMA DivPlus ==
    ASSUME NEW r \in Nat \ {0}, NEW a \in Int, NEW k \in Int
    PROVE  (a \div r) + k <= (a + k * r) \div r
<1> DEFINE d == a \div r
<1>1. d \in Int /\ r * d <= a  BY DivBelow
<1> HIDE DEF d
<1>2. r * (d + k) = r * d + r * k /\ r * k = k * r  BY <1>1, Distribute
<1>3. r * d \in Int /\ k * r \in Int /\ d + k \in Int /\ a + k * r \in Int  BY <1>1
<1>4. r * (d + k) <= a + k * r  BY <1>1, <1>2, <1>3
<1>5. d + k <= (a + k * r) \div r  BY <1>3, <1>4, DivLargest
<1> QED BY <1>5 DEF d

\* What is counted of a smaller set is no more, and nothing where nothing is.
LEMMA CountWithin ==
    ASSUME NEW T, NEW s \in Seq(T), NEW A, NEW B, A \subseteq B
    PROVE  HowMany(s, A) <= HowMany(s, B)
<1> DEFINE D == {i \in 1 .. Len(s) : s[i] \in A}
           E == {i \in 1 .. Len(s) : s[i] \in B}
<1>1. D \in SUBSET E  OBVIOUS
<1>2. IsFiniteSet(E)  BY CountType
<1> HIDE DEF D, E
<1>3. Cardinality(D) <= Cardinality(E)  BY <1>1, <1>2, FS_Subset
<1> QED BY <1>3 DEF HowMany, D, E

\* There are none of what is nowhere in the sequence.
LEMMA CountNone ==
    ASSUME NEW T, NEW s \in Seq(T), NEW A, \A i \in 1 .. Len(s) : s[i] \notin A
    PROVE  HowMany(s, A) = 0
<1>1. {i \in 1 .. Len(s) : s[i] \in A} = {}  OBVIOUS
<1> QED BY <1>1, FS_EmptySet DEF HowMany

-----------------------------------------------------------------------------
(* Sequences and their elements, and sums over places                      *)

\* The elements of a sequence are those at its places.
LEMMA ToSetElements == ASSUME NEW S, NEW s \in Seq(S) PROVE ToSet(s) = Elements(s) /\ Elements(s) \subseteq S
  BY DEF ToSet, Elements

\* The least of some numbers is one of them.
LEMMA MinIs == ASSUME NEW T \in SUBSET Nat, T # {} PROVE Min(T) \in T /\ \A y \in T : Min(T) <= y
<1>1. PICK x \in T : \A y \in T : x <= y  BY NatLeast
<1> QED BY <1>1 DEF Min

\* What a sequence holds with one element more.
LEMMA AppendElements ==
    ASSUME NEW S, NEW s \in Seq(S), NEW x \in S
    PROVE  Append(s, x) \in Seq(S) /\ Elements(Append(s, x)) = Elements(s) \cup {x}  BY DEF Elements

\* What moving a key to the end leaves of the elements.
LEMMA MovedElements ==
    ASSUME NEW S, NEW s \in Seq(S), NEW i \in 1 .. Len(s)
    PROVE  RemoveAt(s, i) \in Seq(S) /\ Elements(s) \subseteq Elements(RemoveAt(s, i)) \cup {s[i]}
<1> DEFINE a == SubSeq(s, 1, i - 1)  b == SubSeq(s, i + 1, Len(s))
<1>0. Len(s) \in Nat /\ \A j \in 1 .. Len(s) : s[j] \in S  OBVIOUS
<1>1. a \in Seq(S) /\ Len(a) = i - 1 /\ \A j \in 1 .. i - 1 : a[j] = s[j]
  <2>1. \A j \in 1 .. i - 1 : s[j] \in S  BY <1>0
  <2>2. i - 1 \in Int /\ 1 \in Int  BY <1>0
  <2>3. /\ a \in Seq(S) /\ Len(a) = IF 1 <= i - 1 THEN (i - 1) - 1 + 1 ELSE 0
        /\ \A j \in 1 .. (i - 1) - 1 + 1 : a[j] = s[1 + j - 1]
    BY <2>1, <2>2, SubSeqProperties
  <2> HIDE DEF a
  <2> QED BY <1>0, <2>3
<1>2. b \in Seq(S) /\ Len(b) = Len(s) - i /\ \A j \in 1 .. Len(s) - i : b[j] = s[i + j]
  <2>1. \A j \in i + 1 .. Len(s) : s[j] \in S  BY <1>0
  <2>2. i + 1 \in Int /\ Len(s) \in Int  BY <1>0
  <2>3. /\ b \in Seq(S) /\ Len(b) = IF i + 1 <= Len(s) THEN Len(s) - (i + 1) + 1 ELSE 0
        /\ \A j \in 1 .. Len(s) - (i + 1) + 1 : b[j] = s[(i + 1) + j - 1]
    BY <2>1, <2>2, SubSeqProperties
  <2> HIDE DEF b
  <2> QED BY <1>0, <2>3
<1>3. RemoveAt(s, i) = a \o b  BY DEF RemoveAt
<1> HIDE DEF a, b
<1>4. a \o b \in Seq(S) /\ Elements(a \o b) = Elements(a) \cup Elements(b)
  BY <1>1, <1>2, JoinedElements, ConcatProperties
<1>5. ASSUME NEW j \in 1 .. Len(s), j # i PROVE s[j] \in Elements(a) \cup Elements(b)
  <2>1. CASE j < i  BY <1>0, <1>1, <2>1 DEF Elements
  <2>2. CASE j > i
    <3>1. j - i \in 1 .. Len(s) - i /\ i + (j - i) = j  BY <1>0, <2>2
    <3> QED BY <1>2, <3>1 DEF Elements
  <2> QED BY <1>0, <1>5, <2>1, <2>2
<1> QED BY <1>3, <1>4, <1>5 DEF Elements

\* A sum over places that are places of another is no larger.
LEMMA SumInjection ==
    ASSUME NEW A, IsFiniteSet(A), NEW B, IsFiniteSet(B), NEW f, \A x \in B : f[x] \in Nat,
           NEW g, NEW h, \A a \in A : h[a] \in B /\ g[a] = f[h[a]], \A a, b \in A : h[a] = h[b] => a = b
    PROVE  Sum(g, A) <= Sum(f, B)
<1> DEFINE Bad == {n \in Nat : \E s \in SUBSET A, r \in SUBSET B :
                      Cardinality(s) = n /\ (\A a \in s : h[a] \in r) /\ ~(Sum(g, s) <= Sum(f, r))}
<1>0. (\A s \in SUBSET A : IsFiniteSet(s) /\ Cardinality(s) \in Nat) /\ \A r \in SUBSET B : IsFiniteSet(r)
  BY FS_Subset, FS_CardinalityType
<1> SUFFICES ASSUME Bad # {} PROVE FALSE
  <2>1. A \in SUBSET A /\ B \in SUBSET B /\ Cardinality(A) \in Nat  BY <1>0
  <2> QED BY <2>1
<1>1. PICK m \in Bad : \A y \in Bad : m <= y
  <2>1. Bad \in SUBSET Nat  OBVIOUS
  <2> HIDE DEF Bad
  <2> QED BY <2>1, NatLeast
<1>2. PICK s \in SUBSET A, r \in SUBSET B :
         m \in Nat /\ Cardinality(s) = m /\ (\A a \in s : h[a] \in r) /\ ~(Sum(g, s) <= Sum(f, r))  BY <1>1
<1>3. IsFiniteSet(s) /\ IsFiniteSet(r)  BY <1>0
<1>4. Sum(f, r) \in Nat
  <2>1. \A x \in r : f[x] \in Nat  OBVIOUS
  <2> QED BY <1>3, <2>1, SumNat
<1>5. s # {}  BY <1>2, <1>4, SumEmpty
<1>6. PICK a \in s : TRUE  BY <1>5
<1> DEFINE s1 == s \ {a}  r1 == r \ {h[a]}
<1>7. IsFiniteSet(s1) /\ Cardinality(s1) = m - 1 /\ m - 1 \in Nat /\ s1 \in SUBSET A /\ r1 \in SUBSET B
  <2>1. Cardinality(s1) = Cardinality(s) - 1 /\ IsFiniteSet(s1)  BY <1>3, <1>6, FS_RemoveElement
  <2>2. Cardinality(s1) \in Nat  BY <2>1, FS_CardinalityType
  <2> QED BY <1>2, <2>1, <2>2
<1>8. \A b \in s1 : h[b] \in r1  BY <1>2, <1>6
<1>9. Sum(g, s) = g[a] + Sum(g, s1)
  <2>1. \A x \in s : g[x] \in Int  BY <1>2
  <2> QED BY <1>3, <1>6, <2>1, SumRemove
<1>10. Sum(f, r) = f[h[a]] + Sum(f, r1)
  <2>1. \A x \in r : f[x] \in Int  OBVIOUS
  <2>2. h[a] \in r  BY <1>2, <1>6
  <2> QED BY <1>3, <2>1, <2>2, SumRemove
<1>11. Sum(g, s1) \in Int /\ Sum(f, r1) \in Int
  <2>1. \A x \in s1 : g[x] \in Int  OBVIOUS
  <2>2. \A x \in r1 : f[x] \in Int  OBVIOUS
  <2>3. IsFiniteSet(r1)  BY <1>0, <1>7
  <2> QED BY <1>7, <2>1, <2>2, <2>3, SumType
<1>12. Sum(g, s1) <= Sum(f, r1)
  <2>1. ~(m <= m - 1)  BY <1>2
  <2>2. m - 1 \notin Bad  BY <1>1, <2>1
  <2> HIDE DEF s1, r1
  <2> QED BY <1>7, <1>8, <2>2
<1>13. g[a] = f[h[a]] /\ f[h[a]] \in Nat  OBVIOUS
<1> HIDE DEF s1, r1
<1> QED BY <1>2, <1>9, <1>10, <1>11, <1>12, <1>13

\* The places of a sequence are finitely many.
LEMMA PlacesAreFinite == ASSUME NEW n \in Nat PROVE IsFiniteSet(1 .. n) /\ Cardinality(1 .. n) = n  BY FS_Interval

=============================================================================
