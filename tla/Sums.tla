--------------------------------- MODULE Sums ---------------------------------
(***************************************************************************)
(* What SumFunctionOnSet of the community modules yields on a finite set.  *)
(* It is a recursive function that adds the element CHOOSE picks to the    *)
(* sum of the others; here it is shown that the recursion is well founded  *)
(* and that the order of the elements does not matter.  Nothing below      *)
(* takes an operator as a parameter, so every fact can be cited.           *)
(***************************************************************************)
EXTENDS Integers, FiniteSets, Functions, FiniteSetTheorems, WellFoundedInduction, TLAPS

First(s) == CHOOSE x \in s : TRUE

\* One round of the recursion, given a function g for the smaller sets.
Round(f, g, s) == IF s = {} THEN 0 ELSE f[First(s)] + g[s \ {First(s)}]

-------------------------------------------------------------------------------
(* Induction over the subsets of a finite set, for a set U of them.         *)

LEMMA FirstIsElement == ASSUME NEW s, s # {} PROVE First(s) \in s
  BY DEF First

LEMMA SubsetInduction ==
    ASSUME NEW S, IsFiniteSet(S), NEW U,
           \A T \in SUBSET S : (\A V \in SUBSET T : V # T => V \in U) => T \in U
    PROVE  S \in U
<1> SUFFICES ASSUME S \notin U PROVE FALSE
  OBVIOUS
<1> DEFINE Bad == {T \in SUBSET S : T \notin U}
<1>1. Bad \subseteq FiniteSubsetsOf(S) /\ Bad # {}
  BY FS_Subset DEF FiniteSubsetsOf
<1>2. IsWellFoundedOn(StrictSubsetOrdering(S), FiniteSubsetsOf(S))
  BY FS_StrictSubsetOrderingWellFounded
<1> HIDE DEF Bad
<1>3. PICK T \in Bad : \A V \in Bad : <<V, T>> \notin StrictSubsetOrdering(S)
  BY <1>1, <1>2, WFMin
<1>4. T \in SUBSET S /\ T \notin U
  BY DEF Bad
<1>5. \A V \in SUBSET T : V # T => V \in U
  BY <1>3, <1>4 DEF Bad, StrictSubsetOrdering
<1> QED
  BY <1>4, <1>5

LEMMA ElementInduction ==
    ASSUME NEW S, IsFiniteSet(S), NEW U, {} \in U,
           \A T \in SUBSET S : \A x \in S \ T : T \in U => T \cup {x} \in U
    PROVE  S \in U
<1>1. ASSUME NEW T \in SUBSET S, \A V \in SUBSET T : V # T => V \in U
      PROVE  T \in U
  <2>1. CASE T = {}
    BY <2>1
  <2>2. ASSUME NEW x \in T PROVE T \in U
    <3>1. T \ {x} \in U
      BY <1>1, <2>2
    <3>2. T = (T \ {x}) \cup {x}
      BY <2>2
    <3> QED
      BY <3>1, <3>2, <2>2
  <2> QED
    BY <2>1, <2>2
<1> QED
  BY <1>1, SubsetInduction

-------------------------------------------------------------------------------
(* The recursion of SumFunctionOnSet has a solution, and only one.          *)

Solves(f, S, g) == g = [s \in SUBSET S |-> Round(f, g, s)]

LEMMA SolutionUnique ==
    ASSUME NEW f, NEW S, IsFiniteSet(S), NEW g, NEW h, NEW R, NEW T,
           S \subseteq R, S \subseteq T, Solves(f, R, g), Solves(f, T, h)
    PROVE  g[S] = h[S]
<1> DEFINE U == {s \in SUBSET S : g[s] = h[s]}
<1>1. \A s \in SUBSET S : g[s] = Round(f, g, s) /\ h[s] = Round(f, h, s)
  BY DEF Solves
<1>2. ASSUME NEW s \in SUBSET S, \A v \in SUBSET s : v # s => v \in U
      PROVE  s \in U
  <2>1. CASE s = {}
    BY <1>1, <2>1 DEF Round
  <2>2. CASE s # {}
    <3>1. s \ {First(s)} \in U
      BY <1>2, <2>2, FirstIsElement
    <3> QED
      BY <1>1, <2>2, <3>1 DEF Round
  <2> QED
    BY <2>1, <2>2
<1>3. S \in U
  <2> HIDE DEF U
  <2> QED
    BY <1>2, SubsetInduction
<1> QED
  BY <1>3

\* The community module's definition, in these terms.
LEMMA SumIsSolution ==
    ASSUME NEW f, NEW S
    PROVE  SumFunctionOnSet(f, S) = (CHOOSE g : Solves(f, S, g))[S]
  BY DEF SumFunctionOnSet, FoldFunctionOnSet, MapThenFoldSet, Solves, Round, First

LEMMA SumOfSolution ==
    ASSUME NEW f, NEW S, IsFiniteSet(S), NEW T, S \subseteq T, NEW g, Solves(f, T, g),
           \E h : Solves(f, S, h)
    PROVE  SumFunctionOnSet(f, S) = g[S]
<1> PICK h : Solves(f, S, h) /\ h = CHOOSE k : Solves(f, S, k)
  OBVIOUS
<1> QED
  BY SumIsSolution, SolutionUnique

LEMMA SolutionExists ==
    ASSUME NEW f, NEW S, IsFiniteSet(S)
    PROVE  \E g : Solves(f, S, g)
<1> DEFINE U == {T \in SUBSET S : \E g : Solves(f, T, g)}
<1>1. ASSUME NEW T \in SUBSET S, \A V \in SUBSET T : V # T => V \in U
      PROVE  T \in U
  <2> DEFINE g == [s \in SUBSET T |->
                   IF s = {} THEN 0 ELSE f[First(s)] + SumFunctionOnSet(f, s \ {First(s)})]
  <2>1. ASSUME NEW w \in SUBSET T, w # T
        PROVE  SumFunctionOnSet(f, w) = g[w]
    <3>1. IsFiniteSet(w) /\ w \in U
      BY <1>1, <2>1, FS_Subset
    <3> HIDE DEF g
    <3>2. PICK h : Solves(f, w, h)
      BY <3>1
    <3>3. SumFunctionOnSet(f, w) = h[w]
      BY <3>1, <3>2, SumOfSolution
    <3>a. h[w] = Round(f, h, w)
      BY <3>2 DEF Solves
    <3>4. CASE w = {}
      BY <3>3, <3>a, <3>4 DEF Round, g
    <3>5. CASE w # {}
      <4> DEFINE v == w \ {First(w)}
      <4>1. v \in SUBSET T /\ v # T /\ v \subseteq w
        BY <3>5, FirstIsElement, <2>1
      <4>2. IsFiniteSet(v) /\ v \in U
        BY <1>1, <4>1, FS_Subset
      <4> HIDE DEF v
      <4>3. SumFunctionOnSet(f, v) = h[v]
        BY <3>2, <4>1, <4>2, SumOfSolution
      <4> QED
        BY <3>3, <3>a, <3>5, <4>3 DEF Round, g, v
    <3> QED
      BY <3>4, <3>5
  <2>2. \A s \in SUBSET T : s # {} => (s \ {First(s)} \in SUBSET T /\ s \ {First(s)} # T)
    BY FirstIsElement
  <2>3. \A s \in SUBSET T : g[s] = Round(f, g, s)
    BY <2>1, <2>2 DEF Round
  <2>4. g = [s \in SUBSET T |-> Round(f, g, s)]
    <3>1. g = [s \in SUBSET T |-> g[s]]
      OBVIOUS
    <3> HIDE DEF g
    <3> QED
      BY <2>3, <3>1
  <2> HIDE DEF g
  <2> QED
    BY <2>4 DEF Solves
<1>2. S \in U
  <2> HIDE DEF U
  <2> QED
    BY <1>1, SubsetInduction
<1> QED
  BY <1>2

-------------------------------------------------------------------------------
(* Sums of finitely many integers.                                          *)

\* The sum over nothing is zero.
LEMMA SumEmpty == ASSUME NEW f PROVE SumFunctionOnSet(f, {}) = 0
<1>1. PICK g : Solves(f, {}, g) /\ g = CHOOSE h : Solves(f, {}, h)
  BY SolutionExists, FS_EmptySet
<1> QED
  BY <1>1, SumIsSolution DEF Solves, Round

LEMMA SumFirst ==
    ASSUME NEW f, NEW S, IsFiniteSet(S), S # {}
    PROVE  SumFunctionOnSet(f, S) = f[First(S)] + SumFunctionOnSet(f, S \ {First(S)})
<1>1. PICK g : Solves(f, S, g)
  BY SolutionExists
<1>2. IsFiniteSet(S \ {First(S)})
  BY FS_RemoveElement
<1>3. /\ SumFunctionOnSet(f, S) = g[S]
      /\ SumFunctionOnSet(f, S \ {First(S)}) = g[S \ {First(S)}]
  BY <1>1, <1>2, SumOfSolution, SolutionExists
<1>4. g[S] = Round(f, g, S)
  BY <1>1 DEF Solves
<1> QED
  BY <1>3, <1>4 DEF Round

\* Any element may be taken out first.
THEOREM SumSplit ==
    ASSUME NEW f, NEW S, IsFiniteSet(S), \A x \in S : f[x] \in Int
    PROVE  /\ SumFunctionOnSet(f, S) \in Int
           /\ \A x \in S : SumFunctionOnSet(f, S) = f[x] + SumFunctionOnSet(f, S \ {x})
<1> DEFINE Splits(s) ==
              /\ SumFunctionOnSet(f, s) \in Int
              /\ \A x \in s : SumFunctionOnSet(f, s) = f[x] + SumFunctionOnSet(f, s \ {x})
           U == {s \in SUBSET S : Splits(s)}
<1>1. ASSUME NEW s \in SUBSET S, \A v \in SUBSET s : v # s => v \in U
      PROVE  s \in U
  <2>1. CASE s = {}
    BY <2>1, SumEmpty
  <2>2. CASE s # {}
    <3>1. PICK p \in s : p = First(s)
      BY <2>2, FirstIsElement
    <3>2. s \ {p} \in U
      BY <1>1
    <3>3. SumFunctionOnSet(f, s) = f[p] + SumFunctionOnSet(f, s \ {p})
      BY <2>2, <3>1, SumFirst, FS_Subset
    <3>4. SumFunctionOnSet(f, s) \in Int
      BY <3>2, <3>3
    <3>5. ASSUME NEW x \in s, x # p
          PROVE  SumFunctionOnSet(f, s) = f[x] + SumFunctionOnSet(f, s \ {x})
      <4>1. s \ {x} \in U /\ (s \ {p}) \ {x} \in U
        BY <1>1, <3>5
      <4>2. SumFunctionOnSet(f, s \ {p}) = f[x] + SumFunctionOnSet(f, (s \ {p}) \ {x})
        BY <3>2, <3>5
      <4>3. SumFunctionOnSet(f, s \ {x}) = f[p] + SumFunctionOnSet(f, (s \ {x}) \ {p})
        BY <4>1, <3>5
      <4>4. (s \ {p}) \ {x} = (s \ {x}) \ {p}
        OBVIOUS
      <4>5. /\ f[x] \in Int /\ f[p] \in Int /\ SumFunctionOnSet(f, (s \ {p}) \ {x}) \in Int
            /\ SumFunctionOnSet(f, s \ {x}) \in Int /\ SumFunctionOnSet(f, s \ {p}) \in Int
        BY <4>1, <3>2
      <4> QED
        BY <3>3, <4>2, <4>3, <4>4, <4>5
    <3> QED
      BY <3>3, <3>4, <3>5
  <2> QED
    BY <2>1, <2>2
<1>2. S \in U
  <2> HIDE DEF U
  <2> QED
    BY <1>1, SubsetInduction
<1> QED
  BY <1>2

LEMMA SumInt ==
    ASSUME NEW f, NEW S, IsFiniteSet(S), \A x \in S : f[x] \in Int
    PROVE  SumFunctionOnSet(f, S) \in Int
  BY SumSplit

\* One more element adds its value.
THEOREM SumAdd ==
    ASSUME NEW f, NEW S, IsFiniteSet(S), NEW y, y \notin S,
           f[y] \in Int, \A x \in S : f[x] \in Int
    PROVE  SumFunctionOnSet(f, S \cup {y}) = f[y] + SumFunctionOnSet(f, S)
<1>1. IsFiniteSet(S \cup {y}) /\ (S \cup {y}) \ {y} = S /\ y \in S \cup {y}
  BY FS_AddElement
<1>2. \A x \in S \cup {y} : f[x] \in Int
  OBVIOUS
<1> QED
  BY <1>1, <1>2, SumSplit

\* Only the values on the set count.
LEMMA SumSame ==
    ASSUME NEW f, NEW g, NEW S, IsFiniteSet(S), \A x \in S : f[x] = g[x]
    PROVE  SumFunctionOnSet(f, S) = SumFunctionOnSet(g, S)
<1> DEFINE U == {s \in SUBSET S : SumFunctionOnSet(f, s) = SumFunctionOnSet(g, s)}
<1>1. ASSUME NEW s \in SUBSET S, \A v \in SUBSET s : v # s => v \in U
      PROVE  s \in U
  <2>1. CASE s = {}
    BY <2>1, SumEmpty
  <2>2. CASE s # {}
    <3>1. IsFiniteSet(s) /\ First(s) \in s /\ s \ {First(s)} \in U
      BY <1>1, <2>2, FirstIsElement, FS_Subset
    <3> QED
      BY <2>2, <3>1, SumFirst
  <2> QED
    BY <2>1, <2>2
<1>2. S \in U
  <2> HIDE DEF U
  <2> QED
    BY <1>1, SubsetInduction
<1> QED
  BY <1>2

\* When one value changes, the sum changes by the same amount.
THEOREM SumChange ==
    ASSUME NEW f, NEW g, NEW S, IsFiniteSet(S), NEW y \in S,
           \A x \in S : f[x] \in Int /\ g[x] \in Int,
           \A x \in S \ {y} : f[x] = g[x]
    PROVE  SumFunctionOnSet(g, S) = SumFunctionOnSet(f, S) + g[y] - f[y]
<1>1. IsFiniteSet(S \ {y})
  BY FS_RemoveElement
<1>2. /\ SumFunctionOnSet(f, S \ {y}) = SumFunctionOnSet(g, S \ {y})
      /\ SumFunctionOnSet(f, S \ {y}) \in Int
  BY <1>1, SumSame, SumInt
<1>3. /\ SumFunctionOnSet(f, S) = f[y] + SumFunctionOnSet(f, S \ {y})
      /\ SumFunctionOnSet(g, S) = g[y] + SumFunctionOnSet(g, S \ {y})
  BY SumSplit
<1> QED
  BY <1>2, <1>3

\* A sum grows with its values and, as long as they are natural numbers,
\* with its set.
THEOREM SumMonotone ==
    ASSUME NEW f, NEW g, NEW S, NEW T, IsFiniteSet(T), S \subseteq T,
           \A x \in T : g[x] \in Nat,
           \A x \in S : f[x] \in Int /\ f[x] <= g[x]
    PROVE  SumFunctionOnSet(f, S) <= SumFunctionOnSet(g, T) /\ SumFunctionOnSet(g, T) \in Nat
<1> DEFINE U == {t \in SUBSET T :
                    /\ SumFunctionOnSet(f, S \cap t) <= SumFunctionOnSet(g, t)
                    /\ SumFunctionOnSet(g, t) \in Nat}
<1>1. {} \in U
  <2>1. S \cap {} = {}
    OBVIOUS
  <2> QED
    BY <2>1, SumEmpty
<1>2. ASSUME NEW t \in SUBSET T, NEW y \in T \ t, t \in U
      PROVE  t \cup {y} \in U
  <2>1. IsFiniteSet(t) /\ IsFiniteSet(S \cap t)
    <3>1. S \cap t \in SUBSET T
      OBVIOUS
    <3> QED
      BY <3>1, FS_Subset
  <2>2. SumFunctionOnSet(g, t \cup {y}) = g[y] + SumFunctionOnSet(g, t)
    BY <2>1, SumAdd
  <2>3. SumFunctionOnSet(f, S \cap t) \in Int
    BY <2>1, SumInt
  <2>4. CASE y \in S
    <3>1. S \cap (t \cup {y}) = (S \cap t) \cup {y} /\ y \notin S \cap t
      BY <2>4
    <3>2. SumFunctionOnSet(f, S \cap (t \cup {y})) = f[y] + SumFunctionOnSet(f, S \cap t)
      BY <2>1, <2>4, <3>1, SumAdd
    <3>3. /\ f[y] \in Int /\ f[y] <= g[y] /\ g[y] \in Nat
          /\ SumFunctionOnSet(f, S \cap t) <= SumFunctionOnSet(g, t)
          /\ SumFunctionOnSet(g, t) \in Nat
      BY <1>2, <2>4
    <3>4. /\ SumFunctionOnSet(f, S \cap (t \cup {y})) <= SumFunctionOnSet(g, t \cup {y})
          /\ SumFunctionOnSet(g, t \cup {y}) \in Nat
      BY <2>2, <2>3, <3>2, <3>3
    <3> QED
      BY <3>4
  <2>5. CASE y \notin S
    <3>1. S \cap (t \cup {y}) = S \cap t
      BY <2>5
    <3>2. /\ g[y] \in Nat
          /\ SumFunctionOnSet(f, S \cap t) <= SumFunctionOnSet(g, t)
          /\ SumFunctionOnSet(g, t) \in Nat
      BY <1>2
    <3>3. /\ SumFunctionOnSet(f, S \cap (t \cup {y})) <= SumFunctionOnSet(g, t \cup {y})
          /\ SumFunctionOnSet(g, t \cup {y}) \in Nat
      <4>1. SumFunctionOnSet(f, S \cap (t \cup {y})) = SumFunctionOnSet(f, S \cap t)
        BY <3>1
      <4> QED
        BY <2>2, <2>3, <3>2, <4>1
    <3> QED
      BY <3>3
  <2> QED
    BY <2>4, <2>5
<1>3. T \in U
  <2> HIDE DEF U
  <2> QED
    BY <1>1, <1>2, ElementInduction
<1>4. S \cap T = S
  OBVIOUS
<1> QED
  BY <1>3, <1>4

\* Elements with value zero do not count.
LEMMA SumSupport ==
    ASSUME NEW f, NEW S, NEW T, IsFiniteSet(T), S \subseteq T,
           \A x \in T : f[x] \in Int, \A x \in T \ S : f[x] = 0
    PROVE  SumFunctionOnSet(f, T) = SumFunctionOnSet(f, S)
<1> DEFINE U == {t \in SUBSET T : SumFunctionOnSet(f, t) = SumFunctionOnSet(f, S \cap t)}
<1>1. {} \in U
  <2>1. S \cap {} = {}
    OBVIOUS
  <2> QED
    BY <2>1
<1>2. ASSUME NEW t \in SUBSET T, NEW y \in T \ t, t \in U
      PROVE  t \cup {y} \in U
  <2>1. IsFiniteSet(t) /\ IsFiniteSet(S \cap t)
    <3>1. S \cap t \in SUBSET T
      OBVIOUS
    <3> QED
      BY <3>1, FS_Subset
  <2>2. SumFunctionOnSet(f, t \cup {y}) = f[y] + SumFunctionOnSet(f, t)
    BY <2>1, SumAdd
  <2>3. SumFunctionOnSet(f, t) \in Int /\ SumFunctionOnSet(f, t) = SumFunctionOnSet(f, S \cap t)
    BY <1>2, <2>1, SumInt
  <2>4. CASE y \in S
    <3>1. S \cap (t \cup {y}) = (S \cap t) \cup {y} /\ y \notin S \cap t
      BY <2>4
    <3>2. SumFunctionOnSet(f, S \cap (t \cup {y})) = f[y] + SumFunctionOnSet(f, S \cap t)
      BY <2>1, <2>4, <3>1, SumAdd
    <3>3. SumFunctionOnSet(f, t \cup {y}) = SumFunctionOnSet(f, S \cap (t \cup {y}))
      BY <2>2, <2>3, <3>2
    <3> QED
      BY <3>3
  <2>5. CASE y \notin S
    <3>1. S \cap (t \cup {y}) = S \cap t
      BY <2>5
    <3>2. f[y] = 0
      BY <2>5
    <3>3. SumFunctionOnSet(f, t \cup {y}) = SumFunctionOnSet(f, t)
      BY <2>2, <2>3, <3>2
    <3>4. SumFunctionOnSet(f, t \cup {y}) = SumFunctionOnSet(f, S \cap (t \cup {y}))
      BY <2>3, <3>1, <3>3
    <3> QED
      BY <3>4
  <2> QED
    BY <2>4, <2>5
<1>3. T \in U
  <2> HIDE DEF U
  <2> QED
    BY <1>1, <1>2, ElementInduction
<1>4. S \cap T = S
  OBVIOUS
<1> QED
  BY <1>3, <1>4

LEMMA SumNat ==
    ASSUME NEW f, NEW S, IsFiniteSet(S), \A x \in S : f[x] \in Nat
    PROVE  SumFunctionOnSet(f, S) \in Nat
  BY SumMonotone

\* No value of a sum of natural numbers exceeds the sum.
LEMMA SumMember ==
    ASSUME NEW f, NEW S, IsFiniteSet(S), \A x \in S : f[x] \in Nat, NEW y \in S
    PROVE  f[y] <= SumFunctionOnSet(f, S)
<1>1. IsFiniteSet(S \ {y})
  BY FS_RemoveElement
<1>2. /\ SumFunctionOnSet(f, S \ {y}) \in Nat
      /\ SumFunctionOnSet(f, S) = f[y] + SumFunctionOnSet(f, S \ {y})
  BY <1>1, SumNat, SumSplit
<1> QED
  BY <1>2

===============================================================================
