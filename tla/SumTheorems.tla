----------------------------- MODULE SumTheorems -----------------------------
(* Induction without an operator parameter, and the sums of finitely many       *)
(* integers. The library states induction for a predicate P(_), which the       *)
(* provers cannot be given; here it is stated for a set, from the least of the  *)
(* numbers that would be a counterexample.                                      *)
EXTENDS Integers, Functions, FiniteSetTheorems, WellFoundedInduction, TLAPS

Less == {ss \in Nat \X Nat : ss[1] < ss[2]}

\* Some natural numbers have a least one.
LEMMA LeastExists ==
  ASSUME NEW S \in SUBSET Nat, S # {}
  PROVE  \E m \in S : \A n \in S : m <= n
<1>1. IsWellFoundedOn(Less, Nat)
  BY NatLessThanWellFounded, Zenon DEF OpToRel, Less
<1>2. PICK m \in S : \A n \in S : <<n, m>> \notin Less
  BY <1>1, WFMin, Zenon
<1>3. \A n \in S : ~(n < m)
  BY <1>2 DEF Less
<1> QED BY <1>3

\* Natural induction, for the set of the numbers that have the property.
LEMMA NatSet ==
  ASSUME NEW Q, 0 \in Q, \A n \in Nat : n \in Q => n + 1 \in Q
  PROVE  Nat \subseteq Q
<1>1. SUFFICES ASSUME Nat \ Q # {} PROVE FALSE
  OBVIOUS
<1>2. PICK m \in Nat \ Q : \A n \in Nat \ Q : m <= n
  BY <1>1, LeastExists
<1>3. m # 0 /\ m - 1 \in Nat /\ m - 1 \notin Nat \ Q
  BY <1>2
<1> QED BY <1>2, <1>3

\* Induction over the subsets of a finite set, one element after the other.
LEMMA FiniteSubsets ==
  ASSUME NEW S, IsFiniteSet(S), NEW Q, {} \in Q,
         \A T \in SUBSET S : \A x \in S \ T : T \in Q => T \cup {x} \in Q
  PROVE  SUBSET S \subseteq Q
<1> DEFINE R == {n \in Nat : \A T \in SUBSET S : Cardinality(T) = n => T \in Q}
<1>1. 0 \in R
  <2>1. \A T \in SUBSET S : Cardinality(T) = 0 => T = {}
    BY FS_Subset, FS_EmptySet
  <2> QED BY <2>1
<1>2. ASSUME NEW n \in Nat, n \in R PROVE n + 1 \in R
  <2>1. SUFFICES ASSUME NEW T \in SUBSET S, Cardinality(T) = n + 1 PROVE T \in Q
    OBVIOUS
  <2>2. IsFiniteSet(T) /\ T # {}
    BY <2>1, FS_Subset, FS_EmptySet
  <2>3. PICK x : x \in T
    BY <2>2
  <2>4. Cardinality(T \ {x}) = n
    <3>1. Cardinality(T \ {x}) = Cardinality(T) - 1
      BY <2>2, <2>3, FS_RemoveElement
    <3> QED BY <2>1, <3>1
  <2>5. T \ {x} \in Q
    BY <1>2, <2>4
  <2>6. (T \ {x}) \cup {x} = T /\ x \in S \ (T \ {x})
    BY <2>3
  <2> QED BY <2>5, <2>6
<1> HIDE DEF R
<1>3. Nat \subseteq R
  BY <1>1, <1>2, NatSet
<1>4. \A T \in SUBSET S : Cardinality(T) \in Nat
  BY FS_Subset, FS_CardinalityType
<1> QED BY <1>3, <1>4 DEF R

\* -------------------------------------------------------------------- sums

LEMMA Times ==
  ASSUME NEW a \in Nat, NEW b \in Nat
  PROVE  a * b \in Nat /\ (a + 1) * b = a * b + b
  OBVIOUS

\* A table of the sums of f over the subsets of S.
Adds(g, f, S) ==
  /\ g \in [SUBSET S -> Int]
  /\ g[{}] = 0
  /\ \A s \in SUBSET S : \A x \in s : g[s] = f[x] + g[s \ {x}]

LEMMA AddsExists ==
  ASSUME NEW S, IsFiniteSet(S), NEW f, \A x \in S : f[x] \in Int
  PROVE  \E g : Adds(g, f, S)
<1> DEFINE Q == {T \in SUBSET S : \E g : Adds(g, f, T)}
<1>1. {} \in Q
  <2>1. Adds([s \in SUBSET {} |-> 0], f, {})
    BY DEF Adds
  <2> QED BY <2>1
<1>2. ASSUME NEW T \in SUBSET S, NEW a \in S \ T, T \in Q PROVE T \cup {a} \in Q
  <2>1. PICK g : Adds(g, f, T)
    BY <1>2
  <2> DEFINE U == T \cup {a}
             h == [s \in SUBSET U |-> g[s \ {a}] + (IF a \in s THEN f[a] ELSE 0)]
  <2>2. \A s \in SUBSET U : s \ {a} \in SUBSET T
    OBVIOUS
  <2>3. h \in [SUBSET U -> Int]
    BY <2>1, <2>2 DEF Adds
  <2>4. h[{}] = 0
    <3>1. {} \ {a} = {} /\ {} \in SUBSET U
      OBVIOUS
    <3> QED BY <2>1, <3>1 DEF Adds
  <2>5. ASSUME NEW s \in SUBSET U, NEW x \in s PROVE h[s] = f[x] + h[s \ {x}]
    <3>1. s \ {x} \in SUBSET U /\ f[x] \in Int /\ f[a] \in Int
      OBVIOUS
    <3>2. CASE x = a
      <4>1. (s \ {x}) \ {a} = s \ {a} /\ a \notin s \ {x} /\ a \in s
        BY <3>2
      <4>2. g[s \ {a}] \in Int
        BY <2>1, <2>2 DEF Adds
      <4>3. h[s] = g[s \ {a}] + f[a]
        BY <4>1
      <4>4. h[s \ {x}] = g[s \ {a}] + 0
        BY <4>1, <3>1
      <4> QED BY <4>2, <4>3, <4>4, <3>1, <3>2
    <3>3. CASE x # a
      <4>1. (s \ {x}) \ {a} = (s \ {a}) \ {x} /\ (a \in s <=> a \in s \ {x}) /\ x \in s \ {a}
        BY <3>3
      <4>2. g[s \ {a}] = f[x] + g[(s \ {a}) \ {x}]
        BY <4>1, <2>1, <2>2 DEF Adds
      <4>3. (s \ {a}) \ {x} \in SUBSET T
        BY <2>2
      <4>4. g[(s \ {a}) \ {x}] \in Int
        BY <4>3, <2>1 DEF Adds
      <4>5. h[s] = g[s \ {a}] + (IF a \in s THEN f[a] ELSE 0)
        OBVIOUS
      <4>6. h[s \ {x}] = g[(s \ {a}) \ {x}] + (IF a \in s THEN f[a] ELSE 0)
        BY <3>1, <4>1
      <4> QED BY <4>2, <4>4, <4>5, <4>6, <3>1
    <3> QED BY <3>2, <3>3
  <2> HIDE DEF h
  <2>6. Adds(h, f, U)
    BY <2>3, <2>4, <2>5 DEF Adds
  <2> QED BY <2>6
<1> HIDE DEF Q
<1>3. SUBSET S \subseteq Q
  BY <1>1, <1>2, FiniteSubsets
<1> QED BY <1>3 DEF Q

\* The fold of the community modules, which takes the elements in some order,
\* is an entry of that table.
LEMMA SumIsAdded ==
  ASSUME NEW S, IsFiniteSet(S), NEW f, \A x \in S : f[x] \in Int,
         NEW g, Adds(g, f, S)
  PROVE  SumFunctionOnSet(f, S) = g[S]
<1> DEFINE Eq(h) == h = [s \in SUBSET S |-> IF s = {} THEN 0
                          ELSE f[CHOOSE x \in s : TRUE] + h[s \ {CHOOSE x \in s : TRUE}]]
           h0 == CHOOSE h : Eq(h)
<1>1. SumFunctionOnSet(f, S) = h0[S]
  BY DEF SumFunctionOnSet, FoldFunctionOnSet, MapThenFoldSet
<1>2. \A s \in SUBSET S : s # {} => (CHOOSE x \in s : TRUE) \in s
  OBVIOUS
<1>3. Eq(g)
  <2>1. g = [s \in SUBSET S |-> g[s]]
    BY DEF Adds
  <2>2. \A s \in SUBSET S : g[s] = IF s = {} THEN 0
          ELSE f[CHOOSE x \in s : TRUE] + g[s \ {CHOOSE x \in s : TRUE}]
    BY <1>2 DEF Adds
  <2> QED BY <2>1, <2>2
<1>4. Eq(h0)
  BY <1>3
<1> HIDE DEF h0
<1> DEFINE R == {n \in Nat : \A s \in SUBSET S : Cardinality(s) = n => h0[s] = g[s]}
<1>5. 0 \in R
  <2>1. \A s \in SUBSET S : Cardinality(s) = 0 => s = {}
    BY FS_Subset, FS_EmptySet
  <2>2. h0[{}] = 0 /\ g[{}] = 0
    BY <1>4 DEF Adds
  <2> QED BY <2>1, <2>2
<1>6. ASSUME NEW n \in Nat, n \in R PROVE n + 1 \in R
  <2>1. SUFFICES ASSUME NEW s \in SUBSET S, Cardinality(s) = n + 1 PROVE h0[s] = g[s]
    OBVIOUS
  <2> DEFINE x == CHOOSE x \in s : TRUE
  <2>2. IsFiniteSet(s) /\ s # {}
    BY <2>1, FS_Subset, FS_EmptySet
  <2>3. x \in s
    BY <2>2
  <2>4. h0[s] = f[x] + h0[s \ {x}]
    BY <1>4, <2>2
  <2>5. g[s] = f[x] + g[s \ {x}]
    BY <2>3 DEF Adds
  <2> HIDE DEF x
  <2>6. Cardinality(s \ {x}) = Cardinality(s) - 1
    BY <2>2, <2>3, FS_RemoveElement
  <2>7. h0[s \ {x}] = g[s \ {x}]
    BY <1>6, <2>1, <2>6
  <2> QED BY <2>4, <2>5, <2>7
<1> HIDE DEF R
<1>7. Nat \subseteq R
  BY <1>5, <1>6, NatSet
<1>8. Cardinality(S) \in Nat
  BY FS_CardinalityType
<1>9. h0[S] = g[S]
  BY <1>7, <1>8 DEF R
<1> QED BY <1>1, <1>9

\* Adding f up over S: nothing for no elements, and each element once.
LEMMA SumEmpty ==
  ASSUME NEW f
  PROVE  SumFunctionOnSet(f, {}) = 0
<1>1. Adds([s \in SUBSET {} |-> 0], f, {})
  BY DEF Adds
<1> QED BY <1>1, SumIsAdded, FS_EmptySet

LEMMA SumOfNothing ==
  ASSUME NEW S, IsFiniteSet(S), NEW f, \A x \in S : f[x] = 0
  PROVE  SumFunctionOnSet(f, S) = 0
<1>1. Adds([s \in SUBSET S |-> 0], f, S)
  BY DEF Adds
<1> QED BY <1>1, SumIsAdded

LEMMA SumType ==
  ASSUME NEW S, IsFiniteSet(S), NEW f, \A x \in S : f[x] \in Int
  PROVE  SumFunctionOnSet(f, S) \in Int
<1>1. PICK g : Adds(g, f, S)
  BY AddsExists
<1>2. g[S] \in Int
  BY <1>1 DEF Adds
<1> QED BY <1>1, <1>2, SumIsAdded

LEMMA SumOfOneMore ==
  ASSUME NEW S, IsFiniteSet(S), NEW f, \A x \in S : f[x] \in Int, NEW x \in S
  PROVE  SumFunctionOnSet(f, S) = f[x] + SumFunctionOnSet(f, S \ {x})
<1>1. PICK g : Adds(g, f, S)
  BY AddsExists
<1> DEFINE T == S \ {x}
           h == [s \in SUBSET T |-> g[s]]
<1>2. Adds(h, f, T)
  <2>1. h \in [SUBSET T -> Int]
    BY <1>1 DEF Adds
  <2>2. h[{}] = 0
    BY <1>1 DEF Adds
  <2>3. \A s \in SUBSET T : \A y \in s : h[s] = f[y] + h[s \ {y}]
    BY <1>1 DEF Adds
  <2> HIDE DEF h
  <2> QED BY <2>1, <2>2, <2>3 DEF Adds
<1>3. IsFiniteSet(T) /\ \A y \in T : f[y] \in Int
  BY FS_Subset
<1>4. SumFunctionOnSet(f, T) = g[T]
  <2>1. SumFunctionOnSet(f, T) = h[T]
    BY <1>2, <1>3, SumIsAdded
  <2> QED BY <2>1
<1>5. SumFunctionOnSet(f, S) = g[S]
  BY <1>1, SumIsAdded
<1>6. g[S] = f[x] + g[T]
  BY <1>1 DEF Adds
<1> QED BY <1>4, <1>5, <1>6

\* Sums are compared entry by entry.
LEMMA SumIncreases ==
  ASSUME NEW S, IsFiniteSet(S), NEW f, NEW h,
         \A x \in S : f[x] \in Int /\ h[x] \in Int /\ f[x] <= h[x]
  PROVE  SumFunctionOnSet(f, S) <= SumFunctionOnSet(h, S)
<1> DEFINE Q == {T \in SUBSET S : SumFunctionOnSet(f, T) <= SumFunctionOnSet(h, T)}
<1>1. {} \in Q
  BY SumEmpty
<1>2. ASSUME NEW T \in SUBSET S, NEW a \in S \ T, T \in Q PROVE T \cup {a} \in Q
  <2> DEFINE U == T \cup {a}
  <2>1. IsFiniteSet(T) /\ IsFiniteSet(U) /\ U \ {a} = T /\ a \in U
    BY FS_Subset
  <2>2. /\ SumFunctionOnSet(f, U) = f[a] + SumFunctionOnSet(f, U \ {a})
        /\ SumFunctionOnSet(h, U) = h[a] + SumFunctionOnSet(h, U \ {a})
    BY <2>1, SumOfOneMore
  <2>3. SumFunctionOnSet(f, T) \in Int /\ SumFunctionOnSet(h, T) \in Int
    BY <2>1, SumType
  <2>4. SumFunctionOnSet(f, T) <= SumFunctionOnSet(h, T)
    BY <1>2
  <2> QED BY <2>1, <2>2, <2>3, <2>4
<1> HIDE DEF Q
<1>3. SUBSET S \subseteq Q
  BY <1>1, <1>2, FiniteSubsets
<1> QED BY <1>3 DEF Q

LEMMA SumNat ==
  ASSUME NEW S, IsFiniteSet(S), NEW f, \A x \in S : f[x] \in Nat
  PROVE  SumFunctionOnSet(f, S) \in Nat
<1> DEFINE z == [x \in S |-> 0]
           Q == {T \in SUBSET S : SumFunctionOnSet(f, T) \in Nat}
<1>1. {} \in Q
  BY SumEmpty
<1>2. ASSUME NEW T \in SUBSET S, NEW a \in S \ T, T \in Q PROVE T \cup {a} \in Q
  <2> DEFINE U == T \cup {a}
  <2>1. IsFiniteSet(U) /\ U \ {a} = T /\ a \in U /\ \A x \in U : f[x] \in Int
    BY FS_Subset
  <2>2. SumFunctionOnSet(f, U) = f[a] + SumFunctionOnSet(f, U \ {a})
    BY <2>1, SumOfOneMore
  <2> QED BY <1>2, <2>1, <2>2
<1> HIDE DEF Q
<1>3. SUBSET S \subseteq Q
  BY <1>1, <1>2, FiniteSubsets
<1> QED BY <1>3 DEF Q

\* A sum over more elements, none negative, is no smaller.
LEMMA SumOfSubset ==
  ASSUME NEW S, IsFiniteSet(S), NEW f, \A x \in S : f[x] \in Nat, NEW T \in SUBSET S
  PROVE  SumFunctionOnSet(f, T) <= SumFunctionOnSet(f, S)
<1> DEFINE D == S \ T
           Q == {R \in SUBSET D : SumFunctionOnSet(f, T) <= SumFunctionOnSet(f, T \cup R)}
<1>0. IsFiniteSet(T) /\ IsFiniteSet(D)
  BY FS_Subset
<1>1. {} \in Q
  <2>1. SumFunctionOnSet(f, T) \in Int
    BY <1>0, SumType
  <2>2. T \cup {} = T
    OBVIOUS
  <2> QED BY <2>1, <2>2
<1>2. ASSUME NEW R \in SUBSET D, NEW a \in D \ R, R \in Q PROVE R \cup {a} \in Q
  <2> DEFINE U == T \cup (R \cup {a})
  <2>1. IsFiniteSet(U) /\ U \ {a} = T \cup R /\ a \in U /\ \A x \in U : f[x] \in Int
    <3>1. U \subseteq S
      OBVIOUS
    <3> QED BY <3>1, FS_Subset
  <2>2. SumFunctionOnSet(f, U) = f[a] + SumFunctionOnSet(f, U \ {a})
    BY <2>1, SumOfOneMore
  <2>3. SumFunctionOnSet(f, T \cup R) \in Int /\ SumFunctionOnSet(f, T) \in Int
    <3>1. IsFiniteSet(T \cup R)
      BY FS_Subset
    <3> QED BY <1>0, <3>1, SumType
  <2> QED BY <1>2, <2>1, <2>2, <2>3
<1>3. T \cup D = S
  OBVIOUS
<1> HIDE DEF Q, D
<1>4. SUBSET D \subseteq Q
  BY <1>0, <1>1, <1>2, FiniteSubsets
<1> QED BY <1>3, <1>4 DEF Q

\* What a change of one entry does to the sum.
DifferAt(f, h, S, x) ==
  \A y \in S : f[y] \in Int /\ h[y] \in Int /\ (y # x => f[y] = h[y])

LEMMA SumOfChange ==
  ASSUME NEW S, IsFiniteSet(S), NEW f, NEW h, NEW x \in S, DifferAt(f, h, S, x)
  PROVE  SumFunctionOnSet(h, S) = SumFunctionOnSet(f, S) + h[x] - f[x]
<1> DEFINE T == S \ {x}
<1>0. /\ \A y \in S : f[y] \in Int /\ h[y] \in Int
      /\ \A y \in T : f[y] = h[y]
  BY DEF DifferAt
<1>1. IsFiniteSet(T)
  BY FS_Subset
<1>2. /\ SumFunctionOnSet(f, T) <= SumFunctionOnSet(h, T)
      /\ SumFunctionOnSet(h, T) <= SumFunctionOnSet(f, T)
  BY <1>0, <1>1, SumIncreases
<1>3. SumFunctionOnSet(f, T) \in Int /\ SumFunctionOnSet(h, T) \in Int
  BY <1>0, <1>1, SumType
<1>4. /\ SumFunctionOnSet(f, S) = f[x] + SumFunctionOnSet(f, T)
      /\ SumFunctionOnSet(h, S) = h[x] + SumFunctionOnSet(h, T)
  BY <1>0, SumOfOneMore
<1> QED BY <1>0, <1>2, <1>3, <1>4
==============================================================================
