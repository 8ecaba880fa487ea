---------------------------- MODULE SumTheorems -----------------------------
(***************************************************************************)
(* Sums of a function over a finite set, as SumFunctionOnSet defines them: *)
(* what they are when the set or one value changes. The community modules' *)
(* definition is a recursive function over the subsets; the induction over *)
(* the subsets is that of a smallest counterexample, which the well-founded*)
(* order of FiniteSetTheorems has.                                         *)
(***************************************************************************)
EXTENDS Integers, FiniteSets, Functions, FiniteSetTheorems, WellFoundedInduction, TLAPS

-----------------------------------------------------------------------------
(* Induction and the definition of a sum.                                  *)

\* Induction over the subsets of a finite set: G has every subset of S that it
\* has when it has all the smaller ones. A smallest subset outside G would have
\* to be in it.
LEMMA SetInduction ==
    ASSUME NEW S, IsFiniteSet(S), NEW G,
           \A T \in SUBSET S : (\A U \in SUBSET T : U # T => U \in G) => T \in G
    PROVE  SUBSET S \subseteq G
<1> DEFINE Bad == {T \in SUBSET S : T \notin G}
<1> SUFFICES ASSUME Bad # {} PROVE FALSE
  OBVIOUS
<1>1. FiniteSubsetsOf(S) = SUBSET S  BY FS_FiniteSubsetsOfFinite
<1>2. IsWellFoundedOn(StrictSubsetOrdering(S), FiniteSubsetsOf(S))
  BY FS_StrictSubsetOrderingWellFounded
<1>3. Bad \subseteq FiniteSubsetsOf(S)  BY <1>1
<1>4. \E T \in Bad : \A U \in Bad : <<U, T>> \notin StrictSubsetOrdering(S)
  <2> HIDE DEF Bad
  <2> QED  BY <1>2, <1>3, WFMin
<1>5. PICK T \in Bad : \A U \in Bad : <<U, T>> \notin StrictSubsetOrdering(S)
  BY <1>4
<1>6. \A U \in SUBSET T : U # T => U \in G
  BY <1>5 DEF StrictSubsetOrdering
<1> QED  BY <1>5, <1>6

\* The member that a fold takes next.
Pick(s) == CHOOSE x \in s : TRUE

\* The recursive function a sum is defined by: that of s takes Pick(s) first.
IsPartial(g, f, S) ==
    g = [s \in SUBSET S |-> IF s = {} THEN 0 ELSE f[Pick(s)] + g[s \ {Pick(s)}]]

\* The function that SumFunctionOnSet picks.
Partial(f, S) == CHOOSE g : IsPartial(g, f, S)

\* The community modules' sum is the value of that function at S.
LEMMA SumIsPartial == ASSUME NEW f, NEW S PROVE SumFunctionOnSet(f, S) = Partial(f, S)[S]
BY DEF SumFunctionOnSet, FoldFunctionOnSet, MapThenFoldSet, Partial, IsPartial, Pick

\* A member can be taken of any set that has one.
LEMMA PickIsMember == ASSUME NEW s, s # {} PROVE Pick(s) \in s
BY DEF Pick

\* Two functions that take members the same way agree wherever both are defined.
LEMMA PartialUnique ==
    ASSUME NEW S, IsFiniteSet(S), NEW f, NEW T, NEW U, NEW g, NEW h,
           IsPartial(g, f, T), IsPartial(h, f, U)
    PROVE  \A s \in SUBSET S : s \subseteq T /\ s \subseteq U => g[s] = h[s]
<1> DEFINE G == {s \in SUBSET S : s \subseteq T /\ s \subseteq U => g[s] = h[s]}
<1>1. ASSUME NEW s \in SUBSET S, \A r \in SUBSET s : r # s => r \in G
      PROVE  s \in G
  <2> SUFFICES ASSUME s \subseteq T, s \subseteq U PROVE g[s] = h[s]
    OBVIOUS
  <2>1. CASE s = {}
    BY <2>1 DEF IsPartial
  <2>2. CASE s # {}
    <3> DEFINE r == s \ {Pick(s)}
    <3>1. r \in SUBSET s /\ r # s  BY <2>2, PickIsMember
    <3>2. g[r] = h[r]  BY <1>1, <3>1
    <3>3. g[s] = f[Pick(s)] + g[r] /\ h[s] = f[Pick(s)] + h[r]
      BY <2>2 DEF IsPartial
    <3> QED  BY <3>2, <3>3
  <2> QED  BY <2>1, <2>2
<1>2. SUBSET S \subseteq G
  <2> HIDE DEF G
  <2> QED  BY <1>1, SetInduction
<1> QED  BY <1>2

\* A function that takes members this way exists, so CHOOSE picks one.
LEMMA PartialExists ==
    ASSUME NEW S, IsFiniteSet(S), NEW f
    PROVE  \A T \in SUBSET S : IsPartial(Partial(f, T), f, T)
<1> DEFINE G == {T \in SUBSET S : IsPartial(Partial(f, T), f, T)}
<1>1. ASSUME NEW T \in SUBSET S, \A U \in SUBSET T : U # T => U \in G
      PROVE  T \in G
  <2> DEFINE Rest(s) == s \ {Pick(s)}
             g == [s \in SUBSET T |-> IF s = {} THEN 0
                                      ELSE f[Pick(s)] + Partial(f, Rest(s))[Rest(s)]]
  <2>1. ASSUME NEW s \in SUBSET T, s # {} PROVE g[Rest(s)] = Partial(f, Rest(s))[Rest(s)]
    <3> DEFINE r == Rest(s)
    <3>1. r \in SUBSET T /\ r # T /\ r \subseteq s  BY <2>1, PickIsMember
    <3>2. IsPartial(Partial(f, r), f, r)  BY <1>1, <3>1
    <3>3. CASE r = {}
      BY <3>1, <3>2, <3>3 DEF IsPartial
    <3>4. CASE r # {}
      <4> DEFINE q == Rest(r)
      <4>1. q \in SUBSET r /\ q \in SUBSET T /\ q # T  BY <3>1
      <4>2. IsPartial(Partial(f, q), f, q)  BY <1>1, <4>1
      <4>3. Partial(f, r)[r] = f[Pick(r)] + Partial(f, r)[q]
        BY <3>2, <3>4 DEF IsPartial
      <4>4. Partial(f, r)[q] = Partial(f, q)[q]
        <5> HIDE DEF q, r
        <5> QED  BY <3>2, <4>1, <4>2, PartialUnique
      <4>5. g[r] = f[Pick(r)] + Partial(f, q)[q]
        BY <3>1, <3>4
      <4> QED  BY <4>3, <4>4, <4>5
    <3> QED  BY <3>3, <3>4
  <2>2. IsPartial(g, f, T)
    <3>1. \A s \in SUBSET T : g[s] = IF s = {} THEN 0 ELSE f[Pick(s)] + g[s \ {Pick(s)}]
      BY <2>1
    <3>2. g = [s \in SUBSET T |-> g[s]]  OBVIOUS
    <3> HIDE DEF g
    <3> QED  BY <3>1, <3>2 DEF IsPartial
  <2>3. IsPartial(Partial(f, T), f, T)
    <3> HIDE DEF g
    <3> QED  BY <2>2 DEF Partial
  <2> QED  BY <2>3
<1>2. SUBSET S \subseteq G
  <2> HIDE DEF G
  <2> QED  BY <1>1, SetInduction
<1> QED  BY <1>2

-----------------------------------------------------------------------------
(* Sums.                                                                   *)

\* The recursive equation of a sum.
LEMMA SumOfPick ==
    ASSUME NEW S, IsFiniteSet(S), NEW f
    PROVE  SumFunctionOnSet(f, S) =
              IF S = {} THEN 0 ELSE f[Pick(S)] + SumFunctionOnSet(f, S \ {Pick(S)})
<1> DEFINE R == S \ {Pick(S)}
<1>1. IsPartial(Partial(f, S), f, S) /\ IsPartial(Partial(f, R), f, R)
  BY PartialExists
<1>2. Partial(f, S)[S] = IF S = {} THEN 0 ELSE f[Pick(S)] + Partial(f, S)[R]
  BY <1>1 DEF IsPartial
<1>3. Partial(f, S)[R] = Partial(f, R)[R]
  BY <1>1, PartialUnique
<1> QED  BY <1>2, <1>3, SumIsPartial

\* A sum of integers is one.
LEMMA SumIsInt ==
    ASSUME NEW S, IsFiniteSet(S), NEW f, \A x \in S : f[x] \in Int
    PROVE  SumFunctionOnSet(f, S) \in Int
<1> DEFINE G == {T \in SUBSET S : SumFunctionOnSet(f, T) \in Int}
<1>1. ASSUME NEW T \in SUBSET S, \A U \in SUBSET T : U # T => U \in G
      PROVE  T \in G
  <2>1. IsFiniteSet(T)  BY FS_Subset
  <2>2. CASE T = {}  BY <2>1, <2>2, SumOfPick
  <2>3. CASE T # {}
    <3>1. Pick(T) \in T /\ T \ {Pick(T)} \in SUBSET T  BY <2>3, PickIsMember
    <3>2. SumFunctionOnSet(f, T \ {Pick(T)}) \in Int  BY <1>1, <3>1
    <3>3. SumFunctionOnSet(f, T) = f[Pick(T)] + SumFunctionOnSet(f, T \ {Pick(T)})
      BY <2>1, <2>3, SumOfPick
    <3> QED  BY <3>1, <3>2, <3>3
  <2> QED  BY <2>2, <2>3
<1>2. SUBSET S \subseteq G
  <2> HIDE DEF G
  <2> QED  BY <1>1, SetInduction
<1> QED  BY <1>2

\* The sum of nothing.
LEMMA SumOfNone == ASSUME NEW f PROVE SumFunctionOnSet(f, {}) = 0
BY SumOfPick, FS_EmptySet

\* Any member may be taken out of a sum, not just the next one.
LEMMA SumWithout ==
    ASSUME NEW S, IsFiniteSet(S), NEW f, \A y \in S : f[y] \in Int, NEW x \in S
    PROVE  SumFunctionOnSet(f, S) = f[x] + SumFunctionOnSet(f, S \ {x})
<1> DEFINE Sum(T) == SumFunctionOnSet(f, T)
           G == {T \in SUBSET S : \A z \in T : Sum(T) = f[z] + Sum(T \ {z})}
<1>1. ASSUME NEW T \in SUBSET S, \A U \in SUBSET T : U # T => U \in G
      PROVE  T \in G
  <2> SUFFICES ASSUME NEW z \in T PROVE Sum(T) = f[z] + Sum(T \ {z})
    OBVIOUS
  <2> DEFINE p == Pick(T)
  <2>1. IsFiniteSet(T) /\ T # {} /\ p \in T  BY FS_Subset, PickIsMember
  <2>2. Sum(T) = f[p] + Sum(T \ {p})  BY <2>1, SumOfPick
  <2>3. CASE p # z
    <3> DEFINE R == T \ {p, z}
    <3>1. T \ {p} \in G /\ z \in T \ {p} /\ (T \ {p}) \ {z} = R
      BY <1>1, <2>1, <2>3
    <3>2. T \ {z} \in G /\ p \in T \ {z} /\ (T \ {z}) \ {p} = R
      BY <1>1, <2>1, <2>3
    <3>3. Sum(T \ {p}) = f[z] + Sum(R) /\ Sum(T \ {z}) = f[p] + Sum(R)
      BY <3>1, <3>2
    <3>4. f[p] \in Int /\ f[z] \in Int  BY <2>1
    <3>5. Sum(R) \in Int
      <4>1. IsFiniteSet(R) /\ \A y \in R : f[y] \in Int  BY FS_Subset
      <4> HIDE DEF R
      <4> QED  BY <4>1, SumIsInt
    <3> HIDE DEF Sum, p
    <3> QED  BY <2>2, <3>3, <3>4, <3>5
  <2> QED  BY <2>2, <2>3
<1>2. SUBSET S \subseteq G
  <2> HIDE DEF G
  <2> QED  BY <1>1, SetInduction
<1> QED  BY <1>2

\* A sum depends on the values of its members only.
LEMMA SumAgrees ==
    ASSUME NEW S, IsFiniteSet(S), NEW f, NEW h, \A x \in S : f[x] = h[x]
    PROVE  SumFunctionOnSet(f, S) = SumFunctionOnSet(h, S)
<1> DEFINE G == {T \in SUBSET S : SumFunctionOnSet(f, T) = SumFunctionOnSet(h, T)}
<1>1. ASSUME NEW T \in SUBSET S, \A U \in SUBSET T : U # T => U \in G
      PROVE  T \in G
  <2>1. IsFiniteSet(T)  BY FS_Subset
  <2>2. CASE T = {}  BY <2>2, SumOfNone
  <2>3. CASE T # {}
    <3> DEFINE R == T \ {Pick(T)}
    <3>1. Pick(T) \in T /\ R \in SUBSET T  BY <2>3, PickIsMember
    <3>2. SumFunctionOnSet(f, R) = SumFunctionOnSet(h, R)  BY <1>1, <3>1
    <3>3. SumFunctionOnSet(f, T) = f[Pick(T)] + SumFunctionOnSet(f, R)
      BY <2>1, <2>3, SumOfPick
    <3>4. SumFunctionOnSet(h, T) = h[Pick(T)] + SumFunctionOnSet(h, R)
      BY <2>1, <2>3, SumOfPick
    <3> HIDE DEF R
    <3> QED  BY <3>1, <3>2, <3>3, <3>4
  <2> QED  BY <2>2, <2>3
<1>2. SUBSET S \subseteq G
  <2> HIDE DEF G
  <2> QED  BY <1>1, SetInduction
<1> QED  BY <1>2

\* A sum after one value has changed.
LEMMA SumUpdates ==
    ASSUME NEW S, IsFiniteSet(S), NEW f, NEW h, NEW x \in S,
           \A y \in S : f[y] \in Int /\ h[y] \in Int,
           \A y \in S \ {x} : h[y] = f[y]
    PROVE  SumFunctionOnSet(h, S) = SumFunctionOnSet(f, S) - f[x] + h[x]
<1> DEFINE R == S \ {x}
<1>1. IsFiniteSet(R)  BY FS_Subset
<1>2. SumFunctionOnSet(f, S) = f[x] + SumFunctionOnSet(f, R)  BY SumWithout
<1>3. SumFunctionOnSet(h, S) = h[x] + SumFunctionOnSet(h, R)  BY SumWithout
<1>4. SumFunctionOnSet(f, R) = SumFunctionOnSet(h, R)
  <2> \A y \in R : f[y] = h[y]  OBVIOUS
  <2> HIDE DEF R
  <2> QED  BY <1>1, SumAgrees
<1>5. SumFunctionOnSet(f, R) \in Int
  <2> \A y \in R : f[y] \in Int  OBVIOUS
  <2> HIDE DEF R
  <2> QED  BY <1>1, SumIsInt
<1> HIDE DEF R
<1> QED  BY <1>2, <1>3, <1>4, <1>5

\* The sum of two functions added up.
LEMMA SumAdds ==
    ASSUME NEW S, IsFiniteSet(S), NEW f, NEW g, NEW h,
           \A x \in S : f[x] \in Int /\ g[x] \in Int /\ h[x] = f[x] + g[x]
    PROVE  SumFunctionOnSet(h, S) = SumFunctionOnSet(f, S) + SumFunctionOnSet(g, S)
<1> DEFINE G == {T \in SUBSET S : SumFunctionOnSet(h, T)
                                     = SumFunctionOnSet(f, T) + SumFunctionOnSet(g, T)}
<1>1. ASSUME NEW T \in SUBSET S, \A U \in SUBSET T : U # T => U \in G
      PROVE  T \in G
  <2>1. IsFiniteSet(T)  BY FS_Subset
  <2>2. CASE T = {}  BY <2>2, SumOfNone
  <2>3. CASE T # {}
    <3> DEFINE R == T \ {Pick(T)}
    <3>1. Pick(T) \in T /\ R \in SUBSET T  BY <2>3, PickIsMember
    <3>2. SumFunctionOnSet(h, R) = SumFunctionOnSet(f, R) + SumFunctionOnSet(g, R)
      BY <1>1, <3>1
    <3>3. SumFunctionOnSet(f, T) = f[Pick(T)] + SumFunctionOnSet(f, R)
      BY <2>1, <2>3, SumOfPick
    <3>4. SumFunctionOnSet(g, T) = g[Pick(T)] + SumFunctionOnSet(g, R)
      BY <2>1, <2>3, SumOfPick
    <3>5. SumFunctionOnSet(h, T) = h[Pick(T)] + SumFunctionOnSet(h, R)
      BY <2>1, <2>3, SumOfPick
    <3>6. IsFiniteSet(R) /\ \A x \in R : f[x] \in Int /\ g[x] \in Int  BY FS_Subset
    <3> HIDE DEF R
    <3>7. SumFunctionOnSet(f, R) \in Int /\ SumFunctionOnSet(g, R) \in Int
      BY <3>6, SumIsInt
    <3>8. f[Pick(T)] \in Int /\ g[Pick(T)] \in Int
          /\ h[Pick(T)] = f[Pick(T)] + g[Pick(T)]  BY <3>1
    <3> QED  BY <3>2, <3>3, <3>4, <3>5, <3>7, <3>8
  <2> QED  BY <2>2, <2>3
<1>2. SUBSET S \subseteq G
  <2> HIDE DEF G
  <2> QED  BY <1>1, SetInduction
<1> QED  BY <1>2

\* Members of value 0 may be left out.
LEMMA SumExtends ==
    ASSUME NEW T, IsFiniteSet(T), NEW f, NEW S \in SUBSET T, \A x \in T : f[x] \in Int,
           \A x \in T \ S : f[x] = 0
    PROVE  SumFunctionOnSet(f, T) = SumFunctionOnSet(f, S)
<1> DEFINE Sum(R) == SumFunctionOnSet(f, R)
           G == {R \in SUBSET T : Sum(R) = Sum(R \cap S)}
<1>1. ASSUME NEW R \in SUBSET T, \A U \in SUBSET R : U # R => U \in G
      PROVE  R \in G
  <2>1. IsFiniteSet(R)  BY FS_Subset
  <2>2. CASE R \subseteq S
    <3> R \cap S = R  BY <2>2
    <3> QED  OBVIOUS
  <2>3. CASE \E x \in R : x \notin S
    <3>1. PICK x \in R : x \notin S  BY <2>3
    <3>2. R \ {x} \in G /\ (R \ {x}) \cap S = R \cap S  BY <1>1, <3>1
    <3>3. Sum(R) = f[x] + Sum(R \ {x})  BY <2>1, SumWithout
    <3>4. IsFiniteSet(R \cap S) /\ \A y \in R \cap S : f[y] \in Int  BY <2>1, FS_Subset
    <3>5. Sum(R \cap S) \in Int  BY <3>4, SumIsInt
    <3> HIDE DEF Sum
    <3> QED  BY <3>1, <3>2, <3>3, <3>5
  <2> QED  BY <2>2, <2>3
<1>2. SUBSET T \subseteq G
  <2> HIDE DEF G
  <2> QED  BY <1>1, SetInduction
<1>3. T \in G /\ T \cap S = S  BY <1>2
<1> QED  BY <1>3

\* A sum of zeros.
LEMMA SumOfZeros ==
    ASSUME NEW S, IsFiniteSet(S), NEW f, \A x \in S : f[x] = 0
    PROVE  SumFunctionOnSet(f, S) = 0
BY SumExtends, SumOfNone

\* A sum with one member more.
LEMMA SumGrows ==
    ASSUME NEW T, IsFiniteSet(T), NEW f, NEW h, \A y \in T : f[y] \in Int /\ h[y] = f[y],
           NEW x \in T
    PROVE  SumFunctionOnSet(h, T) = SumFunctionOnSet(f, T \ {x}) + h[x]
<1>1. SumFunctionOnSet(f, T) = f[x] + SumFunctionOnSet(f, T \ {x})  BY SumWithout
<1>2. SumFunctionOnSet(f, T) = SumFunctionOnSet(h, T)  BY SumAgrees
<1>3. SumFunctionOnSet(f, T \ {x}) \in Int
  <2>1. IsFiniteSet(T \ {x}) /\ \A y \in T \ {x} : f[y] \in Int  BY FS_Subset
  <2> QED  BY <2>1, SumIsInt
<1> QED  BY <1>1, <1>2, <1>3
=============================================================================
