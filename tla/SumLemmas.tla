------------------------------ MODULE SumLemmas ------------------------------
(***************************************************************************)
(* What SumFunction of the Functions module computes over a finite set of  *)
(* numbers, for the proofs that count space or leases.  The library states *)
(* these facts for folds with an operator as a parameter; here they are    *)
(* proved for the sum itself, by the smallest counterexample: the library  *)
(* orders the subsets of a finite set well-foundedly.                      *)
(***************************************************************************)
EXTENDS Integers, Functions, FiniteSets, FiniteSetTheorems, WellFoundedInduction, TLAPS

\* A nonempty collection of subsets of a finite set has a smallest one.
LEMMA SmallestSet ==
  ASSUME NEW S, IsFiniteSet(S), NEW T, T \subseteq SUBSET S, T # {}
  PROVE  \E x \in T : \A y \in T : ~(y \subseteq x /\ y # x)
<1>1. T \subseteq FiniteSubsetsOf(S)
  BY FS_FiniteSubsetsOfFinite
<1>2. PICK x \in T : \A y \in T : <<y, x>> \notin StrictSubsetOrdering(S)
  BY <1>1, WFMin, FS_StrictSubsetOrderingWellFounded
<1> QED
  BY <1>2 DEF StrictSubsetOrdering

\* The sum of f over every subset of S, as Functions defines it: one recursive
\* function on SUBSET S, that takes out a chosen element at a time.
Chosen(s) == CHOOSE x \in s : TRUE
IsSum(g, f, S) ==
  g = [s \in SUBSET S |-> IF s = {} THEN 0 ELSE f[Chosen(s)] + g[s \ {Chosen(s)}]]
TheSum(f, S) == CHOOSE g : IsSum(g, f, S)

\* SumFunctionOnSet unfolds to that function's value at S.
LEMMA SumIsIter ==
  ASSUME NEW f, NEW S
  PROVE  SumFunctionOnSet(f, S) = TheSum(f, S)[S]
  BY DEF SumFunctionOnSet, FoldFunctionOnSet, MapThenFoldSet, IsSum, Chosen, TheSum

\* The chosen element of a nonempty set is in it.
LEMMA ChosenIn == ASSUME NEW s, s # {} PROVE Chosen(s) \in s
  BY DEF Chosen

\* The recursion determines its values: on a finite set, two functions that satisfy it
\* agree, whatever larger sets they are defined on.
LEMMA SumUnique ==
  ASSUME NEW f, NEW S, IsFiniteSet(S), NEW U, NEW V, S \subseteq U, S \subseteq V,
         NEW g, IsSum(g, f, U), NEW h, IsSum(h, f, V)
  PROVE  g[S] = h[S]
<1> DEFINE Bad == {s \in SUBSET S : g[s] # h[s]}
<1> SUFFICES ASSUME Bad # {} PROVE FALSE
  OBVIOUS
<1>1. PICK s \in Bad : \A y \in Bad : ~(y \subseteq s /\ y # s)
  <2> HIDE DEF Bad
  <2>1. Bad \subseteq SUBSET S
    BY DEF Bad
  <2> QED BY <2>1, SmallestSet
<1>2. /\ g[s] = IF s = {} THEN 0 ELSE f[Chosen(s)] + g[s \ {Chosen(s)}]
      /\ h[s] = IF s = {} THEN 0 ELSE f[Chosen(s)] + h[s \ {Chosen(s)}]
  <2>1. s \in SUBSET U /\ s \in SUBSET V
    OBVIOUS
  <2> QED BY <2>1 DEF IsSum
<1>3. s # {} => g[s \ {Chosen(s)}] = h[s \ {Chosen(s)}]
  BY <1>1, ChosenIn
<1> QED
  BY <1>2, <1>3

\* The recursion has a solution on every finite set.
LEMMA SumExists ==
  ASSUME NEW f, NEW S, IsFiniteSet(S)
  PROVE  IsSum(TheSum(f, S), f, S)
<1> DEFINE Bad == {s \in SUBSET S : ~ \E g : IsSum(g, f, s)}
<1> SUFFICES ASSUME Bad # {} PROVE FALSE
  BY DEF TheSum
<1>1. PICK T \in Bad : \A y \in Bad : ~(y \subseteq T /\ y # T)
  <2> HIDE DEF Bad
  <2>1. Bad \subseteq SUBSET S
    BY DEF Bad
  <2> QED BY <2>1, SmallestSet
<1>2. \A s \in SUBSET T : s # T => IsSum(TheSum(f, s), f, s)
  BY <1>1 DEF TheSum
<1> DEFINE c(s) == s \ {Chosen(s)}
<1> DEFINE g == [s \in SUBSET T |-> IF s = {} THEN 0 ELSE f[Chosen(s)] + TheSum(f, c(s))[c(s)]]
<1>3. ASSUME NEW s \in SUBSET T, s # T PROVE g[s] = TheSum(f, s)[s]
  <2>1. IsSum(TheSum(f, s), f, s)
    BY <1>2, <1>3
  <2>2. TheSum(f, s)[s] = IF s = {} THEN 0 ELSE f[Chosen(s)] + TheSum(f, s)[c(s)]
    BY <2>1 DEF IsSum
  <2>3. CASE s # {}
    <3>1. c(s) \in SUBSET T /\ c(s) # T /\ c(s) \subseteq s
      BY <2>3, ChosenIn, <1>3
    <3>2. IsSum(TheSum(f, c(s)), f, c(s))
      BY <3>1, <1>2
    <3>3. IsFiniteSet(c(s))
      BY FS_Subset
    <3>4. TheSum(f, s)[c(s)] = TheSum(f, c(s))[c(s)]
      BY <2>1, <3>1, <3>2, <3>3, SumUnique
    <3> QED BY <2>2, <3>4
  <2> QED BY <2>2, <2>3
<1>4. ASSUME NEW s \in SUBSET T, s # {} PROVE g[s] = f[Chosen(s)] + g[c(s)]
  <2>1. c(s) \in SUBSET T /\ c(s) # T
    BY <1>4, ChosenIn
  <2> QED BY <2>1, <1>3, <1>4
<1>5. IsSum(g, f, T)
  BY <1>4, Zenon DEF IsSum
<1> QED
  BY <1>5

\* The sum over nothing is zero.
LEMMA SumEmpty == ASSUME NEW f PROVE SumFunctionOnSet(f, {}) = 0
<1>1. IsSum(TheSum(f, {}), f, {})
  BY SumExists, FS_EmptySet
<1> QED
  BY <1>1, SumIsIter DEF IsSum

\* The chosen element may be taken out of the sum.
LEMMA SumChosen ==
  ASSUME NEW f, NEW S, IsFiniteSet(S), S # {}
  PROVE  SumFunctionOnSet(f, S) = f[Chosen(S)] + SumFunctionOnSet(f, S \ {Chosen(S)})
<1> DEFINE R == S \ {Chosen(S)}
<1>1. IsSum(TheSum(f, S), f, S) /\ IsFiniteSet(R)
  BY SumExists, FS_Subset
<1>2. IsSum(TheSum(f, R), f, R)
  BY <1>1, SumExists
<1>3. TheSum(f, S)[R] = TheSum(f, R)[R]
  BY <1>1, <1>2, SumUnique
<1>4. TheSum(f, S)[S] = f[Chosen(S)] + TheSum(f, S)[R]
  BY <1>1 DEF IsSum
<1> QED
  BY <1>3, <1>4, SumIsIter

\* It is an integer when the values are.
LEMMA SumInt ==
  ASSUME NEW f, NEW S, IsFiniteSet(S), \A x \in S : f[x] \in Int
  PROVE  SumFunctionOnSet(f, S) \in Int
<1> DEFINE Bad == {s \in SUBSET S : SumFunctionOnSet(f, s) \notin Int}
<1> SUFFICES ASSUME Bad # {} PROVE FALSE
  OBVIOUS
<1>1. PICK s \in Bad : \A y \in Bad : ~(y \subseteq s /\ y # s)
  <2> HIDE DEF Bad
  <2>1. Bad \subseteq SUBSET S
    BY DEF Bad
  <2> QED BY <2>1, SmallestSet
<1>2. s # {}
  BY SumEmpty
<1>3. Chosen(s) \in S /\ IsFiniteSet(s) /\ s \ {Chosen(s)} \notin Bad
  BY <1>1, <1>2, ChosenIn, FS_Subset
<1> QED
  BY <1>2, <1>3, SumChosen

\* Any element may be taken out of the sum.
LEMMA SumRemove ==
  ASSUME NEW f, NEW S, IsFiniteSet(S), \A x \in S : f[x] \in Int, NEW x \in S
  PROVE  SumFunctionOnSet(f, S) = f[x] + SumFunctionOnSet(f, S \ {x})
<1> DEFINE Sum(s) == SumFunctionOnSet(f, s)
<1> DEFINE Bad == {s \in SUBSET S : \E y \in s : Sum(s) # f[y] + Sum(s \ {y})}
<1> SUFFICES ASSUME Bad # {} PROVE FALSE
  OBVIOUS
<1>1. PICK s \in Bad : \A y \in Bad : ~(y \subseteq s /\ y # s)
  <2> HIDE DEF Bad
  <2>1. Bad \subseteq SUBSET S
    BY DEF Bad
  <2> QED BY <2>1, SmallestSet
<1>2. PICK y \in s : Sum(s) # f[y] + Sum(s \ {y})
  BY <1>1
<1> DEFINE c == Chosen(s)
<1>3. c \in s /\ s \subseteq S /\ IsFiniteSet(s)
  BY <1>1, <1>2, ChosenIn, FS_Subset
<1> HIDE DEF c
<1>4. Sum(s) = f[c] + Sum(s \ {c})
  BY <1>3, SumChosen DEF c
<1>5. c # y
  BY <1>2, <1>4
<1>6. Sum(s \ {c}) = f[y] + Sum((s \ {c}) \ {y})
  <2>1. s \ {c} \notin Bad /\ y \in s \ {c}
    BY <1>1, <1>3, <1>5
  <2> QED BY <2>1, <1>3
<1>7. Sum(s \ {y}) = f[c] + Sum((s \ {y}) \ {c})
  <2>1. s \ {y} \notin Bad /\ c \in s \ {y}
    BY <1>1, <1>2, <1>3, <1>5
  <2> QED BY <2>1, <1>3
<1>8. Sum((s \ {c}) \ {y}) = Sum((s \ {y}) \ {c})
  <2>1. (s \ {c}) \ {y} = (s \ {y}) \ {c}
    OBVIOUS
  <2> QED BY <2>1, Zenon
<1>9. Sum((s \ {c}) \ {y}) \in Int /\ f[c] \in Int /\ f[y] \in Int
  <2>1. IsFiniteSet((s \ {c}) \ {y})
    BY <1>3, FS_Subset
  <2> QED BY <2>1, <1>3, SumInt
<1> HIDE DEF Sum
<1> QED
  BY <1>2, <1>4, <1>6, <1>7, <1>8, <1>9

\* It depends on the values only.
LEMMA SumSame ==
  ASSUME NEW f, NEW g, NEW S, IsFiniteSet(S), \A x \in S : f[x] = g[x]
  PROVE  SumFunctionOnSet(f, S) = SumFunctionOnSet(g, S)
<1> DEFINE Bad == {s \in SUBSET S : SumFunctionOnSet(f, s) # SumFunctionOnSet(g, s)}
<1> SUFFICES ASSUME Bad # {} PROVE FALSE
  OBVIOUS
<1>1. PICK s \in Bad : \A y \in Bad : ~(y \subseteq s /\ y # s)
  <2> HIDE DEF Bad
  <2>1. Bad \subseteq SUBSET S
    BY DEF Bad
  <2> QED BY <2>1, SmallestSet
<1>2. s # {}
  BY SumEmpty
<1>3. Chosen(s) \in S /\ IsFiniteSet(s) /\ s \ {Chosen(s)} \notin Bad
  BY <1>1, <1>2, ChosenIn, FS_Subset
<1> QED
  BY <1>2, <1>3, SumChosen

\* A sum of naturals is a natural, at least as large as each of them.
LEMMA SumNat ==
  ASSUME NEW f, NEW S, IsFiniteSet(S), \A x \in S : f[x] \in Nat
  PROVE  /\ SumFunctionOnSet(f, S) \in Nat
         /\ \A x \in S : f[x] <= SumFunctionOnSet(f, S)
<1> DEFINE Bad == {s \in SUBSET S : SumFunctionOnSet(f, s) \notin Nat}
<1>1. Bad = {}
  <2> SUFFICES ASSUME Bad # {} PROVE FALSE
    OBVIOUS
  <2>1. PICK s \in Bad : \A y \in Bad : ~(y \subseteq s /\ y # s)
    <3> HIDE DEF Bad
    <3>1. Bad \subseteq SUBSET S
      BY DEF Bad
    <3> QED BY <3>1, SmallestSet
  <2>2. s # {}
    BY SumEmpty
  <2>3. Chosen(s) \in S /\ IsFiniteSet(s) /\ s \ {Chosen(s)} \notin Bad
    BY <2>1, <2>2, ChosenIn, FS_Subset
  <2> QED
    BY <2>2, <2>3, SumChosen
<1>2. ASSUME NEW x \in S PROVE f[x] <= SumFunctionOnSet(f, S)
  <2>1. SumFunctionOnSet(f, S) = f[x] + SumFunctionOnSet(f, S \ {x})
    BY SumRemove
  <2>2. SumFunctionOnSet(f, S \ {x}) \in Nat
    BY <1>1
  <2> QED
    BY <2>1, <2>2
<1> QED
  BY <1>1, <1>2

\* The sum after one value changes.
LEMMA SumUpdate ==
  ASSUME NEW f, NEW S, IsFiniteSet(S), \A x \in S : f[x] \in Int,
         NEW x \in S, NEW g, g[x] \in Int, \A y \in S \ {x} : g[y] = f[y]
  PROVE  SumFunctionOnSet(g, S) = SumFunctionOnSet(f, S) - f[x] + g[x]
<1>1. IsFiniteSet(S \ {x}) /\ \A y \in S : g[y] \in Int
  BY FS_Subset
<1>2. /\ SumFunctionOnSet(f, S) = f[x] + SumFunctionOnSet(f, S \ {x})
      /\ SumFunctionOnSet(g, S) = g[x] + SumFunctionOnSet(g, S \ {x})
  BY <1>1, SumRemove
<1>3. SumFunctionOnSet(g, S \ {x}) = SumFunctionOnSet(f, S \ {x})
  BY <1>1, SumSame
<1>4. SumFunctionOnSet(f, S \ {x}) \in Int
  BY <1>1, SumInt
<1> QED
  BY <1>2, <1>3, <1>4
==============================================================================
