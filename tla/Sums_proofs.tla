------------------------------- MODULE Sums_proofs -------------------------------
(***************************************************************************)
(* What a sum over a finite set does when the set gains or loses a row, or *)
(* one row changes.  The induction is on the size of the set, from the     *)
(* least element of a set of naturals.                                     *)
(***************************************************************************)
EXTENDS Sums, FiniteSetTheorems, TLAPS

--------------------------------------------------------------------------------
\* Induction

LEMMA LeastElement ==
    ASSUME NEW T, T \subseteq Nat, T # {}
    PROVE  \E n \in T : \A m \in T : n <= m
<1> DEFINE Below == {pair \in Nat \X Nat : pair[1] < pair[2]}
<1>1. IsWellFoundedOn(Below, Nat)
  BY NatLessThanWellFounded, Zenon DEF OpToRel
<1>2. \A m, n \in Nat : <<m, n>> \notin Below => n <= m
  OBVIOUS
<1> HIDE DEF Below
<1>3. PICK n \in T : \A m \in T : <<m, n>> \notin Below
  BY <1>1, WFMin, Zenon
<1> QED
  BY <1>2, <1>3

LEMMA NaturalsReached ==
    ASSUME NEW T, 0 \in T, \A n \in Nat : n \in T => n + 1 \in T
    PROVE  Nat \subseteq T
<1> SUFFICES ASSUME Nat \ T # {} PROVE FALSE
  OBVIOUS
<1>1. PICK n \in Nat \ T : \A m \in Nat \ T : n <= m
  BY LeastElement
<1>2. n - 1 \in Nat
  BY <1>1
<1>3. n - 1 \in T
  BY <1>1, <1>2
<1> QED
  BY <1>1, <1>2, <1>3

--------------------------------------------------------------------------------
\* The fold behind a sum

AnyOf(s) == CHOOSE x \in s : TRUE

FoldStep(g, f, s) == IF s = {} THEN 0 ELSE f[AnyOf(s)] + g[s \ {AnyOf(s)}]

\* g is the recursion that MapThenSumSet unfolds for f over S.
IsFold(g, f, S) == g = [s \in SUBSET S |-> FoldStep(g, f, s)]

LEMMA AnyOfIsIn == ASSUME NEW s, s # {} PROVE AnyOf(s) \in s
BY DEF AnyOf

LEMMA OneFewer ==
    ASSUME NEW s, IsFiniteSet(s), NEW x \in s, NEW n \in Nat, Cardinality(s) <= n + 1
    PROVE  IsFiniteSet(s \ {x}) /\ Cardinality(s \ {x}) <= n
<1>1. Cardinality(s) \in Nat
  BY FS_CardinalityType
<1>2. IsFiniteSet(s \ {x}) /\ Cardinality(s \ {x}) = Cardinality(s) - 1
  BY FS_RemoveElement
<1> QED
  BY <1>1, <1>2

LEMMA FoldExists ==
    ASSUME NEW S, IsFiniteSet(S), NEW f
    PROVE  \E g : IsFold(g, f, S)
<1> DEFINE UpTo(g, n) == /\ g = [s \in SUBSET S |-> g[s]]
                         /\ \A s \in SUBSET S : Cardinality(s) <= n => g[s] = FoldStep(g, f, s)
           Reached == {n \in Nat : \E g : UpTo(g, n)}
<1>1. \A s \in SUBSET S : IsFiniteSet(s) /\ Cardinality(s) \in Nat
  BY FS_Subset, FS_CardinalityType
<1>2. 0 \in Reached
  <2> DEFINE g == [s \in SUBSET S |-> 0]
  <2>1. \A s \in SUBSET S : Cardinality(s) <= 0 => s = {}
    BY <1>1, FS_EmptySet
  <2>2. UpTo(g, 0)
    BY <2>1 DEF FoldStep
  <2> QED
    BY <2>2
<1>3. ASSUME NEW n \in Nat, n \in Reached PROVE n + 1 \in Reached
  <2>1. PICK g : UpTo(g, n)
    BY <1>3
  <2> DEFINE h == [s \in SUBSET S |-> FoldStep(g, f, s)]
  <2>2. ASSUME NEW s \in SUBSET S, Cardinality(s) <= n + 1 PROVE h[s] = FoldStep(h, f, s)
    <3>1. CASE s = {}
      BY <3>1 DEF FoldStep
    <3>2. CASE s # {}
      <4>1. s \ {AnyOf(s)} \in SUBSET S /\ Cardinality(s \ {AnyOf(s)}) <= n
        BY <1>1, <2>2, <3>2, AnyOfIsIn, OneFewer
      <4>2. h[s \ {AnyOf(s)}] = g[s \ {AnyOf(s)}]
        BY <2>1, <4>1
      <4> QED
        BY <3>2, <4>2 DEF FoldStep
    <3> QED
      BY <3>1, <3>2
  <2>3. UpTo(h, n + 1)
    BY <2>2
  <2>4. \E k : UpTo(k, n + 1)
    <3> HIDE DEF UpTo, h
    <3> QED
      BY <2>3
  <2> QED
    <3> HIDE DEF UpTo
    <3> QED
      BY <2>4
<1>4. Cardinality(S) \in Reached
  <2> HIDE DEF Reached
  <2> QED
    BY <1>1, <1>2, <1>3, NaturalsReached
<1>5. PICK g : UpTo(g, Cardinality(S))
  BY <1>4
<1>6. \A s \in SUBSET S : g[s] = FoldStep(g, f, s)
  BY <1>5, FS_Subset
<1> QED
  BY <1>5, <1>6 DEF IsFold

\* The sum is what a fold finds at S.
LEMMA SumIsFold ==
    ASSUME NEW f, NEW S, IsFiniteSet(S)
    PROVE  \E g : IsFold(g, f, S) /\ SumOver(f, S) = g[S]
<1> DEFINE g == CHOOSE iter : IsFold(iter, f, S)
<1>1. IsFold(g, f, S)
  BY FoldExists, Zenon
<1>2. SumOver(f, S) = g[S]
  BY Zenon DEF SumOver, MapThenSumSet, MapThenFoldSet, IsFold, FoldStep, AnyOf
<1> QED
  BY <1>1, <1>2

\* IsFold of functions that agree on a set agree on what they find there.
LEMMA FoldsAgree ==
    ASSUME NEW S, NEW T, NEW e, NEW f, NEW g, NEW h, IsFold(g, e, S), IsFold(h, f, T),
           NEW U, U \subseteq S, U \subseteq T, IsFiniteSet(U), \A x \in U : e[x] = f[x]
    PROVE  g[U] = h[U]
<1> DEFINE Agreed == {n \in Nat : \A s \in SUBSET U : Cardinality(s) <= n => g[s] = h[s]}
<1>1. \A s \in SUBSET U : /\ IsFiniteSet(s) /\ Cardinality(s) \in Nat
                          /\ g[s] = FoldStep(g, e, s) /\ h[s] = FoldStep(h, f, s)
  BY FS_Subset, FS_CardinalityType DEF IsFold
<1>2. 0 \in Agreed
  <2>1. \A s \in SUBSET U : Cardinality(s) <= 0 => s = {}
    BY <1>1, FS_EmptySet
  <2> QED
    BY <1>1, <2>1 DEF FoldStep
<1>3. ASSUME NEW n \in Nat, n \in Agreed PROVE n + 1 \in Agreed
  <2> SUFFICES ASSUME NEW s \in SUBSET U, Cardinality(s) <= n + 1 PROVE g[s] = h[s]
    OBVIOUS
  <2>1. CASE s = {}
    BY <1>1, <2>1 DEF FoldStep
  <2>2. CASE s # {}
    <3>1. /\ AnyOf(s) \in U /\ s \ {AnyOf(s)} \in SUBSET U
          /\ Cardinality(s \ {AnyOf(s)}) <= n
      BY <1>1, <2>2, AnyOfIsIn, OneFewer
    <3> QED
      BY <1>1, <1>3, <2>2, <3>1 DEF FoldStep
  <2> QED
    BY <2>1, <2>2
<1>4. Cardinality(U) \in Agreed
  <2> HIDE DEF Agreed
  <2> QED
    BY <1>1, <1>2, <1>3, NaturalsReached
<1> QED
  BY <1>1, <1>4

\* Whichever element is taken out of a set, the fold adds what it stands for.
LEMMA FoldTakesAny ==
    ASSUME NEW S, IsFiniteSet(S), NEW f, \A x \in S : f[x] \in Int, NEW g, IsFold(g, f, S)
    PROVE  \A s \in SUBSET S : g[s] \in Int /\ \A x \in s : g[s] = f[x] + g[s \ {x}]
<1> DEFINE Fine(s) == g[s] \in Int /\ \A x \in s : g[s] = f[x] + g[s \ {x}]
           Reached == {n \in Nat : \A s \in SUBSET S : Cardinality(s) <= n => Fine(s)}
<1>1. \A s \in SUBSET S : /\ IsFiniteSet(s) /\ Cardinality(s) \in Nat
                          /\ g[s] = FoldStep(g, f, s)
  BY FS_Subset, FS_CardinalityType DEF IsFold
<1>0. Fine({})
  BY <1>1 DEF FoldStep
<1>2. 0 \in Reached
  <2>1. \A s \in SUBSET S : Cardinality(s) <= 0 => s = {}
    BY <1>1, FS_EmptySet
  <2> QED
    BY <1>0, <2>1
<1>3. ASSUME NEW n \in Nat, n \in Reached PROVE n + 1 \in Reached
  <2> SUFFICES ASSUME NEW s \in SUBSET S, Cardinality(s) <= n + 1 PROVE Fine(s)
    OBVIOUS
  <2>1. CASE s = {}
    BY <1>0, <2>1
  <2>2. CASE s # {}
    <3> DEFINE c == AnyOf(s)
    <3>1. c \in s
      BY <2>2, AnyOfIsIn
    <3> HIDE DEF c
    <3>2. \A x \in s : s \ {x} \in SUBSET S /\ Cardinality(s \ {x}) <= n /\ Fine(s \ {x})
      BY <1>1, <1>3, OneFewer
    <3>3. g[s] = f[c] + g[s \ {c}]
      BY <1>1, <2>2 DEF FoldStep, c
    <3>4. f[c] \in Int /\ g[s \ {c}] \in Int /\ g[s] \in Int
      <4>1. c \in S
        BY <3>1
      <4>2. g[s \ {c}] \in Int
        BY <3>1, <3>2
      <4> QED
        BY <3>3, <4>1, <4>2
    <3>5. ASSUME NEW x \in s, x # c PROVE g[s] = f[x] + g[s \ {x}]
      <4> DEFINE rest == (s \ {c}) \ {x}
      <4>1. (s \ {x}) \ {c} = rest /\ rest \in SUBSET (s \ {c}) /\ rest \in SUBSET S
        OBVIOUS
      <4>2. g[s \ {c}] = f[x] + g[rest]
        BY <3>1, <3>2, <3>5
      <4>3. g[s \ {x}] = f[c] + g[(s \ {x}) \ {c}]
        BY <3>1, <3>2, <3>5
      <4>4. Cardinality(rest) <= n
        <5> HIDE DEF rest
        <5>1. /\ IsFiniteSet(s \ {c}) /\ Cardinality(s \ {c}) <= n
              /\ Cardinality(s \ {c}) \in Nat /\ Cardinality(rest) \in Nat
          BY <1>1, <3>1, <3>2, <4>1
        <5>2. Cardinality(rest) <= Cardinality(s \ {c})
          BY <4>1, <5>1, FS_Subset
        <5> QED
          BY <5>1, <5>2
      <4>5. g[rest] \in Int /\ f[x] \in Int
        <5>1. x \in S
          OBVIOUS
        <5> HIDE DEF rest
        <5> QED
          BY <1>3, <4>1, <4>4, <5>1
      <4>6. g[s \ {x}] = f[c] + g[rest]
        BY <4>1, <4>3
      <4> HIDE DEF rest
      <4> QED
        BY <3>3, <3>4, <4>2, <4>5, <4>6
    <3> QED
      BY <3>3, <3>4, <3>5
  <2> QED
    BY <2>1, <2>2
<1>4. Cardinality(S) \in Reached
  <2> HIDE DEF Reached
  <2> QED
    BY <1>1, <1>2, <1>3, NaturalsReached
<1> QED
  BY <1>1, <1>4, FS_Subset

--------------------------------------------------------------------------------
\* Sums

LEMMA SumEmpty == ASSUME NEW f PROVE SumOver(f, {}) = 0
<1>1. IsFiniteSet({})
  BY FS_EmptySet
<1>2. PICK g : IsFold(g, f, {}) /\ SumOver(f, {}) = g[{}]
  BY <1>1, SumIsFold
<1> QED
  BY <1>2 DEF IsFold, FoldStep

LEMMA SumOfZeros ==
    ASSUME NEW S, IsFiniteSet(S), NEW f, \A x \in S : f[x] = 0
    PROVE  SumOver(f, S) = 0
<1> DEFINE g == [s \in SUBSET S |-> 0]
<1>1. \A s \in SUBSET S : FoldStep(g, f, s) = 0
  <2> SUFFICES ASSUME NEW s \in SUBSET S, s # {} PROVE FoldStep(g, f, s) = 0
    BY DEF FoldStep
  <2>1. AnyOf(s) \in S /\ s \ {AnyOf(s)} \in SUBSET S
    BY AnyOfIsIn
  <2> QED
    BY <2>1 DEF FoldStep
<1>2. IsFold(g, f, S)
  BY <1>1 DEF IsFold
<1>3. PICK h : IsFold(h, f, S) /\ SumOver(f, S) = h[S]
  BY SumIsFold
<1>4. g[S] = 0
  OBVIOUS
<1> HIDE DEF g
<1>5. g[S] = h[S]
  BY <1>2, <1>3, FoldsAgree
<1> QED
  BY <1>3, <1>4, <1>5

LEMMA SumType ==
    ASSUME NEW S, IsFiniteSet(S), NEW f, \A x \in S : f[x] \in Int
    PROVE  SumOver(f, S) \in Int
<1>1. PICK g : IsFold(g, f, S) /\ SumOver(f, S) = g[S]
  BY SumIsFold
<1> QED
  BY <1>1, FoldTakesAny

LEMMA SumSame ==
    ASSUME NEW S, IsFiniteSet(S), NEW e, NEW f, \A x \in S : e[x] = f[x]
    PROVE  SumOver(e, S) = SumOver(f, S)
<1>1. PICK g : IsFold(g, e, S) /\ SumOver(e, S) = g[S]
  BY SumIsFold
<1>2. PICK h : IsFold(h, f, S) /\ SumOver(f, S) = h[S]
  BY SumIsFold
<1> QED
  BY <1>1, <1>2, FoldsAgree

LEMMA SumWithout ==
    ASSUME NEW S, IsFiniteSet(S), NEW f, \A x \in S : f[x] \in Int, NEW x \in S
    PROVE  SumOver(f, S) = f[x] + SumOver(f, S \ {x})
<1>1. IsFiniteSet(S \ {x})
  BY FS_RemoveElement
<1>2. PICK g : IsFold(g, f, S) /\ SumOver(f, S) = g[S]
  BY SumIsFold
<1>3. PICK h : IsFold(h, f, S \ {x}) /\ SumOver(f, S \ {x}) = h[S \ {x}]
  BY <1>1, SumIsFold
<1>4. g[S \ {x}] = h[S \ {x}]
  BY <1>1, <1>2, <1>3, FoldsAgree
<1>5. g[S] = f[x] + g[S \ {x}]
  BY <1>2, FoldTakesAny
<1> QED
  BY <1>2, <1>3, <1>4, <1>5

\* A row more.
LEMMA SumWith ==
    ASSUME NEW S, IsFiniteSet(S), NEW x, x \notin S,
           NEW e, NEW f, \A y \in S : e[y] \in Int /\ f[y] = e[y], f[x] \in Int
    PROVE  SumOver(f, S \cup {x}) = SumOver(e, S) + f[x]
<1>1. IsFiniteSet(S \cup {x}) /\ (S \cup {x}) \ {x} = S
  BY FS_AddElement
<1>2. SumOver(f, S \cup {x}) = f[x] + SumOver(f, S)
  BY <1>1, SumWithout
<1>3. SumOver(f, S) = SumOver(e, S) /\ SumOver(e, S) \in Int
  BY SumSame, SumType
<1> QED
  BY <1>2, <1>3

\* One row changes.
LEMMA SumChange ==
    ASSUME NEW S, IsFiniteSet(S), NEW x \in S, NEW e, NEW f,
           \A y \in S : e[y] \in Int /\ f[y] \in Int,
           \A y \in S \ {x} : f[y] = e[y]
    PROVE  SumOver(f, S) = SumOver(e, S) + f[x] - e[x]
<1>1. IsFiniteSet(S \ {x})
  BY FS_RemoveElement
<1>2. SumOver(e, S) = e[x] + SumOver(e, S \ {x}) /\ SumOver(f, S) = f[x] + SumOver(f, S \ {x})
  BY SumWithout
<1>3. SumOver(f, S \ {x}) = SumOver(e, S \ {x}) /\ SumOver(e, S \ {x}) \in Int
  BY <1>1, SumSame, SumType
<1> QED
  BY <1>2, <1>3

LEMMA SumIsNatural ==
    ASSUME NEW S, IsFiniteSet(S), NEW f, \A x \in S : f[x] \in Nat
    PROVE  SumOver(f, S) \in Nat
<1> DEFINE Reached == {n \in Nat : \A s \in SUBSET S : Cardinality(s) <= n => SumOver(f, s) \in Nat}
<1>1. \A s \in SUBSET S : IsFiniteSet(s) /\ Cardinality(s) \in Nat
  BY FS_Subset, FS_CardinalityType
<1>2. 0 \in Reached
  BY <1>1, FS_EmptySet, SumEmpty
<1>3. ASSUME NEW n \in Nat, n \in Reached PROVE n + 1 \in Reached
  <2> SUFFICES ASSUME NEW s \in SUBSET S, Cardinality(s) <= n + 1 PROVE SumOver(f, s) \in Nat
    OBVIOUS
  <2>1. CASE s = {}
    BY <2>1, SumEmpty
  <2>2. CASE s # {}
    <3>1. PICK x \in s : TRUE
      BY <2>2
    <3>2. s \ {x} \in SUBSET S /\ Cardinality(s \ {x}) <= n
      BY <1>1, OneFewer
    <3>3. SumOver(f, s \ {x}) \in Nat
      BY <1>3, <3>2
    <3>4. \A y \in s : f[y] \in Int
      OBVIOUS
    <3>5. SumOver(f, s) = f[x] + SumOver(f, s \ {x})
      BY <1>1, <3>4, SumWithout
    <3> QED
      BY <3>3, <3>5
  <2> QED
    BY <2>1, <2>2
<1>4. Cardinality(S) \in Reached
  <2> HIDE DEF Reached
  <2> QED
    BY <1>1, <1>2, <1>3, NaturalsReached
<1> QED
  BY <1>1, <1>4

\* No row is more than the sum.
LEMMA SumAtLeast ==
    ASSUME NEW S, IsFiniteSet(S), NEW f, \A x \in S : f[x] \in Nat, NEW x \in S
    PROVE  f[x] <= SumOver(f, S)
<1>1. IsFiniteSet(S \ {x})
  BY FS_RemoveElement
<1>2. SumOver(f, S \ {x}) \in Nat
  BY <1>1, SumIsNatural
<1>3. SumOver(f, S) = f[x] + SumOver(f, S \ {x})
  BY SumWithout
<1> QED
  BY <1>2, <1>3

LEMMA SumOfOne ==
    ASSUME NEW x, NEW f, f[x] \in Int
    PROVE  SumOver(f, {x}) = f[x]
<1>1. IsFiniteSet({x}) /\ {x} \ {x} = {}
  BY FS_Singleton
<1> QED
  BY <1>1, SumWithout, SumEmpty

\* The sum over a list, which grows at its end.
LEMMA ListIsFinite == ASSUME NEW n \in Nat PROVE IsFiniteSet(1..n)
BY FS_Interval

LEMMA SumAppend ==
    ASSUME NEW n \in Nat, NEW e, NEW f, \A i \in 1..n : e[i] \in Int /\ f[i] = e[i], f[n + 1] \in Int
    PROVE  SumOver(f, 1..(n + 1)) = SumOver(e, 1..n) + f[n + 1]
<1>1. 1..(n + 1) = (1..n) \cup {n + 1} /\ n + 1 \notin 1..n
  OBVIOUS
<1>2. IsFiniteSet(1..n)
  BY ListIsFinite
<1>3. SumOver(f, (1..n) \cup {n + 1}) = SumOver(e, 1..n) + f[n + 1]
  <2> DEFINE S == 1..n
             x == n + 1
  <2>1. IsFiniteSet(S) /\ x \notin S /\ (\A y \in S : e[y] \in Int /\ f[y] = e[y]) /\ f[x] \in Int
    BY <1>1, <1>2
  <2> HIDE DEF S, x
  <2>2. SumOver(f, S \cup {x}) = SumOver(e, S) + f[x]
    BY <2>1, SumWith
  <2> QED
    BY <2>2 DEF S, x
<1> QED
  BY <1>1, <1>3
================================================================================
