----------------------------- MODULE FoldProofs -----------------------------
(***************************************************************************)
(* What the folds that the models are built from compute, for every input: *)
(* sums over finite sets and replays of journals. Inductions are arguments *)
(* about a least counterexample.                                           *)
(***************************************************************************)
EXTENDS Naturals, FiniteSets, Functions, FiniteSetTheorems, TLAPS

\* A set of natural numbers has a least element.
LEMMA LeastNumber ==
  ASSUME NEW T \in SUBSET Nat, T # {}
  PROVE  \E n \in T : \A m \in T : n <= m
<1> DEFINE R == OpToRel(<, Nat)
<1>1. IsWellFoundedOn(R, Nat)
  BY NatLessThanWellFounded
<1>2. \A i, j \in Nat : i < j => <<i, j>> \in R
  BY DEF OpToRel
<1> HIDE DEF R
<1>3. PICK n \in T : \A m \in T : ~ (<<m, n>> \in R)
  BY <1>1, WFMin
<1>4. ASSUME NEW m \in T PROVE n <= m
  <2>1. n \in Nat /\ m \in Nat
    OBVIOUS
  <2>2. ~(m < n)
    BY <1>2, <1>3, <2>1
  <2> QED  BY <2>1, <2>2
<1> QED  BY <1>4

\* A set of subsets of a finite set has one with no smaller one in it.
LEMMA SmallestSubset ==
  ASSUME NEW S, IsFiniteSet(S), NEW B \in SUBSET (SUBSET S), B # {}
  PROVE  \E s \in B : \A t \in B : t \subseteq s => t = s
<1> DEFINE R == StrictSubsetOrdering(S)
<1>1. IsWellFoundedOn(R, FiniteSubsetsOf(S))
  BY FS_StrictSubsetOrderingWellFounded
<1>2. B \subseteq FiniteSubsetsOf(S)
  BY FS_FiniteSubsetsOfFinite
<1>3. \A s, t \in SUBSET S : t \subseteq s /\ t # s => <<t, s>> \in R
  BY DEF StrictSubsetOrdering
<1> HIDE DEF R
<1>4. PICK s \in B : \A t \in B : ~ (<<t, s>> \in R)
  BY <1>1, <1>2, WFMin
<1> QED  BY <1>3, <1>4

-----------------------------------------------------------------------------
(* Sums: SumFunctionOnSet(f, S) takes the elements of S in an order that   *)
(* CHOOSE determines.                                                      *)

Picked(s) == CHOOSE x \in s : TRUE

IsSum(g, f, D) ==
  g = [s \in D |-> IF s = {} THEN 0 ELSE f[Picked(s)] + g[s \ {Picked(s)}]]

\* The sum over a set is the value of a function that a recursive equation
\* describes.
LEMMA SumIs ==
  ASSUME NEW f, NEW S
  PROVE  SumFunctionOnSet(f, S) = (CHOOSE g : IsSum(g, f, SUBSET S))[S]
  BY DEF SumFunctionOnSet, FoldFunctionOnSet, MapThenFoldSet, IsSum, Picked

LEMMA PickedIn ==
  ASSUME NEW s, s # {}
  PROVE  Picked(s) \in s
  BY DEF Picked

\* The recursion on the sizes of the subsets is well defined.
LEMMA SumExists ==
  ASSUME NEW f, NEW S, IsFiniteSet(S)
  PROVE  \E g : IsSum(g, f, SUBSET S)
<1> DEFINE D(n) == {s \in SUBSET S : Cardinality(s) <= n}
           Bad == {n \in Nat : ~ \E g : IsSum(g, f, D(n))}
<1>1. \A s \in SUBSET S :
        /\ IsFiniteSet(s) /\ Cardinality(s) \in Nat
        /\ Cardinality(s) <= Cardinality(S)
        /\ (Cardinality(s) = 0 <=> s = {})
  BY FS_Subset, FS_EmptySet, FS_CardinalityType
<1>2. \A s \in SUBSET S : s # {} =>
        /\ Picked(s) \in s
        /\ s \ {Picked(s)} \in SUBSET S
        /\ Cardinality(s \ {Picked(s)}) = Cardinality(s) - 1
  BY <1>1, PickedIn, FS_RemoveElement
<1>3. Bad = {}
  <2> SUFFICES ASSUME Bad # {} PROVE FALSE
    OBVIOUS
  <2>1. PICK n \in Bad : \A m \in Bad : n <= m
    <3>1. Bad \in SUBSET Nat
      OBVIOUS
    <3> HIDE DEF Bad
    <3> QED  BY <3>1, LeastNumber
  <2>2. n \in Nat
    OBVIOUS
  <2>3. CASE n = 0
    <3>1. D(0) = {{}}
      BY <1>1, FS_EmptySet
    <3> DEFINE g == [s \in {{}} |-> 0]
    <3>2. IsSum(g, f, D(0))
      BY <3>1 DEF IsSum
    <3> QED  BY <2>1, <2>3, <3>2
  <2>4. CASE n # 0
    <3>1. n - 1 \in Nat /\ n - 1 \notin Bad
      <4>1. n - 1 \in Nat /\ ~(n <= n - 1)
        BY <2>2, <2>4
      <4> HIDE DEF Bad
      <4> QED  BY <2>1, <4>1
    <3>2. PICK g : IsSum(g, f, D(n - 1))
      BY <3>1
    <3> DEFINE h == [s \in D(n) |-> IF s = {} THEN 0
                                    ELSE f[Picked(s)] + g[s \ {Picked(s)}]]
    <3>3. \A s \in D(n) : s # {} => s \ {Picked(s)} \in D(n - 1)
      BY <1>1, <1>2, <2>2, <2>4
    <3>4. D(n - 1) \subseteq D(n)
      BY <1>1, <2>2, <2>4
    <3>5. \A s \in D(n - 1) : g[s] = h[s]
      BY <3>2, <3>4 DEF IsSum
    <3>6. h = [s \in D(n) |-> IF s = {} THEN 0
                              ELSE f[Picked(s)] + h[s \ {Picked(s)}]]
      <4> HIDE DEF D
      <4>1. \A s \in D(n) : s # {} => g[s \ {Picked(s)}] = h[s \ {Picked(s)}]
        BY <3>3, <3>5
      <4> QED  BY <4>1
    <3>7. IsSum(h, f, D(n))
      BY <3>6 DEF IsSum
    <3> QED  BY <2>1, <3>7
  <2> QED  BY <2>3, <2>4
<1>4. Cardinality(S) \in Nat
  BY FS_CardinalityType
<1>5. D(Cardinality(S)) = SUBSET S
  BY <1>1
<1>6. \E g : IsSum(g, f, D(Cardinality(S)))
  BY <1>3, <1>4
<1> QED  BY <1>5, <1>6

LEMMA SumChosen ==
  ASSUME NEW f, NEW S, IsFiniteSet(S)
  PROVE  IsSum(CHOOSE g : IsSum(g, f, SUBSET S), f, SUBSET S)
  BY SumExists

SumsUpTo(g, f, S) == IsSum(g, f, SUBSET S)

\* Two such functions agree where both are defined.
LEMMA SumsAgree ==
  ASSUME NEW f, NEW S, NEW T, NEW g, NEW h, IsFiniteSet(S), T \subseteq S,
         SumsUpTo(g, f, S), SumsUpTo(h, f, T)
  PROVE  \A s \in SUBSET T : g[s] = h[s]
<1> DEFINE B == {s \in SUBSET T : g[s] # h[s]}
<1> SUFFICES ASSUME B # {} PROVE FALSE
  OBVIOUS
<1>1. IsFiniteSet(T) /\ B \in SUBSET (SUBSET T)
  BY FS_Subset
<1>2. PICK s \in B : \A t \in B : t \subseteq s => t = s
  <2> HIDE DEF B
  <2> QED  BY <1>1, SmallestSubset
<1>3. CASE s = {}
  BY <1>3 DEF SumsUpTo, IsSum
<1>4. CASE s # {}
  <2>1. Picked(s) \in s
    BY <1>4, PickedIn
  <2>2. s \ {Picked(s)} \notin B
    BY <1>2, <2>1
  <2>3. g[s \ {Picked(s)}] = h[s \ {Picked(s)}]
    BY <2>2
  <2>4. g[s] = f[Picked(s)] + g[s \ {Picked(s)}]
    BY <1>4 DEF SumsUpTo, IsSum
  <2>5. h[s] = f[Picked(s)] + h[s \ {Picked(s)}]
    BY <1>4 DEF SumsUpTo, IsSum
  <2> QED  BY <2>3, <2>4, <2>5
<1> QED  BY <1>3, <1>4

\* The sum as a recursion over the chosen element.
LEMMA SumStep ==
  ASSUME NEW f, NEW S, IsFiniteSet(S)
  PROVE  SumFunctionOnSet(f, S)
           = IF S = {} THEN 0
             ELSE f[Picked(S)] + SumFunctionOnSet(f, S \ {Picked(S)})
<1>1. PICK T : T = S \ {Picked(S)}
  OBVIOUS
<1>2. T \subseteq S /\ IsFiniteSet(T)
  BY <1>1, FS_RemoveElement
<1>3. PICK g : g = CHOOSE x : IsSum(x, f, SUBSET S)
  OBVIOUS
<1>4. PICK h : h = CHOOSE x : IsSum(x, f, SUBSET T)
  OBVIOUS
<1>5. SumsUpTo(g, f, S) /\ SumsUpTo(h, f, T)
  BY <1>2, <1>3, <1>4, SumChosen DEF SumsUpTo
<1>6. SumFunctionOnSet(f, S) = g[S] /\ SumFunctionOnSet(f, T) = h[T]
  BY <1>3, <1>4, SumIs
<1>7. \A s \in SUBSET T : g[s] = h[s]
  BY <1>2, <1>5, SumsAgree
<1>8. g[S] = IF S = {} THEN 0 ELSE f[Picked(S)] + g[T]
  BY <1>1, <1>5 DEF SumsUpTo, IsSum
<1> QED  BY <1>1, <1>6, <1>7, <1>8

LEMMA SumEmpty ==
  ASSUME NEW f
  PROVE  SumFunctionOnSet(f, {}) = 0
  BY FS_EmptySet, SumStep

\* A sum of natural numbers is one.
LEMMA SumType ==
  ASSUME NEW f, NEW S, IsFiniteSet(S), \A x \in S : f[x] \in Nat
  PROVE  SumFunctionOnSet(f, S) \in Nat
<1> DEFINE B == {s \in SUBSET S : SumFunctionOnSet(f, s) \notin Nat}
<1> SUFFICES ASSUME B # {} PROVE FALSE
  OBVIOUS
<1>1. PICK s \in B : \A t \in B : t \subseteq s => t = s
  <2>1. B \in SUBSET (SUBSET S)
    OBVIOUS
  <2> HIDE DEF B
  <2> QED  BY <2>1, SmallestSubset
<1>2. IsFiniteSet(s)
  BY FS_Subset
<1>3. CASE s = {}
  BY <1>3, SumEmpty
<1>4. CASE s # {}
  <2>1. Picked(s) \in s
    BY <1>4, PickedIn
  <2>2. SumFunctionOnSet(f, s \ {Picked(s)}) \in Nat
    BY <1>1, <2>1
  <2>3. SumFunctionOnSet(f, s) = f[Picked(s)] + SumFunctionOnSet(f, s \ {Picked(s)})
    BY <1>2, <1>4, SumStep
  <2> QED  BY <2>1, <2>2, <2>3
<1> QED  BY <1>3, <1>4

\* A sum depends on the function's values on the set alone.
LEMMA SumSame ==
  ASSUME NEW f, NEW g, NEW S, IsFiniteSet(S), \A x \in S : f[x] = g[x]
  PROVE  SumFunctionOnSet(f, S) = SumFunctionOnSet(g, S)
<1> DEFINE B == {s \in SUBSET S : SumFunctionOnSet(f, s) # SumFunctionOnSet(g, s)}
<1> SUFFICES ASSUME B # {} PROVE FALSE
  OBVIOUS
<1>1. PICK s \in B : \A t \in B : t \subseteq s => t = s
  <2>1. B \in SUBSET (SUBSET S)
    OBVIOUS
  <2> HIDE DEF B
  <2> QED  BY <2>1, SmallestSubset
<1>2. IsFiniteSet(s)
  BY FS_Subset
<1>3. CASE s = {}
  BY <1>3, SumEmpty
<1>4. CASE s # {}
  <2>1. Picked(s) \in s
    BY <1>4, PickedIn
  <2>2. SumFunctionOnSet(f, s \ {Picked(s)}) = SumFunctionOnSet(g, s \ {Picked(s)})
    BY <1>1, <2>1
  <2>3. SumFunctionOnSet(f, s) = f[Picked(s)] + SumFunctionOnSet(f, s \ {Picked(s)})
    BY <1>2, <1>4, SumStep
  <2>4. SumFunctionOnSet(g, s) = g[Picked(s)] + SumFunctionOnSet(g, s \ {Picked(s)})
    BY <1>2, <1>4, SumStep
  <2> QED  BY <2>1, <2>2, <2>3, <2>4
<1> QED  BY <1>3, <1>4

\* Any element can be taken out first.
LEMMA SumWithout ==
  ASSUME NEW f, NEW S, IsFiniteSet(S), \A x \in S : f[x] \in Nat
  PROVE  \A x \in S : SumFunctionOnSet(f, S) = f[x] + SumFunctionOnSet(f, S \ {x})
<1> DEFINE B == {s \in SUBSET S :
                  \E x \in s : SumFunctionOnSet(f, s)
                                 # f[x] + SumFunctionOnSet(f, s \ {x})}
<1> SUFFICES ASSUME B # {} PROVE FALSE
  OBVIOUS
<1>1. PICK s \in B : \A t \in B : t \subseteq s => t = s
  <2>1. B \in SUBSET (SUBSET S)
    OBVIOUS
  <2> HIDE DEF B
  <2> QED  BY <2>1, SmallestSubset
<1>2. PICK x \in s : SumFunctionOnSet(f, s) # f[x] + SumFunctionOnSet(f, s \ {x})
  OBVIOUS
<1> DEFINE y == Picked(s)
<1>3. y \in s
  BY PickedIn
<1>4. IsFiniteSet(s) /\ IsFiniteSet((s \ {x}) \ {y})
  BY FS_Subset
<1>5. SumFunctionOnSet(f, s) = f[y] + SumFunctionOnSet(f, s \ {y})
  BY <1>3, <1>4, SumStep
<1> HIDE DEF y
<1>6. y # x
  BY <1>2, <1>5
<1>7. SumFunctionOnSet(f, s \ {y}) = f[x] + SumFunctionOnSet(f, (s \ {y}) \ {x})
  <2>1. s \ {y} \notin B /\ s \ {y} \in SUBSET S /\ x \in s \ {y}
    BY <1>1, <1>3, <1>6
  <2> QED  BY <2>1
<1>8. SumFunctionOnSet(f, s \ {x}) = f[y] + SumFunctionOnSet(f, (s \ {x}) \ {y})
  <2>1. s \ {x} \notin B /\ s \ {x} \in SUBSET S /\ y \in s \ {x}
    BY <1>1, <1>3, <1>6
  <2> QED  BY <2>1
<1>9. (s \ {x}) \ {y} = (s \ {y}) \ {x}
  OBVIOUS
<1>10. SumFunctionOnSet(f, (s \ {x}) \ {y}) \in Nat
  BY <1>4, SumType
<1>11. f[x] \in Nat /\ f[y] \in Nat
  BY <1>3
<1> QED  BY <1>2, <1>5, <1>7, <1>8, <1>9, <1>10, <1>11

\* A new element adds its value.
LEMMA SumWith ==
  ASSUME NEW f, NEW S, IsFiniteSet(S), NEW x, x \notin S,
         \A y \in S \cup {x} : f[y] \in Nat
  PROVE  SumFunctionOnSet(f, S \cup {x}) = f[x] + SumFunctionOnSet(f, S)
<1>1. IsFiniteSet(S \cup {x})
  BY FS_AddElement
<1>2. (S \cup {x}) \ {x} = S
  OBVIOUS
<1> QED  BY <1>1, <1>2, SumWithout

=============================================================================
