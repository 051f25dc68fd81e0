---------------------------- MODULE SumTheorems ----------------------------
(***************************************************************************)
(* What a sum over a finite set obeys.  MapThenSumSet takes an operator,   *)
(* which no backend can instantiate; SumOver takes a function instead, and *)
(* the modules that use these facts show of each of their sums that it is  *)
(* a SumOver.                                                              *)
(*                                                                         *)
(* The induction is on the subsets of a finite set, ordered by strict      *)
(* inclusion: a set of counterexamples has a minimal one.                  *)
(***************************************************************************)
EXTENDS FiniteSetsExt, FiniteSetTheorems, TLAPS

Any(s) == CHOOSE x \in s : TRUE

(* g maps every subset of S to its sum, in the way MapThenFoldSet does.    *)
Sums(g, f, S) ==
    g = [s \in SUBSET S |-> IF s = {} THEN 0 ELSE f[Any(s)] + g[s \ {Any(s)}]]

SumOver(f, S) == (CHOOSE g : Sums(g, f, S))[S]

(* On a function, it is the sum of the community modules.                  *)
LEMMA SumOverIsMapThenSum ==
    ASSUME NEW f, NEW S
    PROVE  MapThenSumSet(LAMBDA x : f[x], S) = SumOver(f, S)
BY DEF MapThenSumSet, MapThenFoldSet, SumOver, Sums, Any

(* A family of subsets of a finite set has a member without a smaller one. *)
LEMMA MinimalSubset ==
    ASSUME NEW S, IsFiniteSet(S), NEW F, F \subseteq SUBSET S, F # {}
    PROVE  \E T \in F : \A U \in F : U \subseteq T => U = T
<1> DEFINE R == StrictSubsetOrdering(S)
<1>1. IsWellFoundedOn(R, SUBSET S)
  BY FS_StrictSubsetOrderingWellFounded, FS_FiniteSubsetsOfFinite
<1> HIDE DEF R
<1>2. \E T \in F : \A U \in F : ~(<<U, T>> \in R)
  BY <1>1, WFMin
<1>3. PICK T \in F : \A U \in F : ~(<<U, T>> \in R)
  BY <1>2
<1> QED
  BY <1>3 DEF R, StrictSubsetOrdering

(* What is chosen from a set belongs to it.                                *)
LEMMA AnyInSet == \A s : s # {} => Any(s) \in s
BY DEF Any

(* The equation that defines a sum, for one subset.                        *)
LEMMA SumsStep ==
    ASSUME NEW g, NEW f, NEW S, Sums(g, f, S), NEW s \in SUBSET S
    PROVE  g[s] = IF s = {} THEN 0 ELSE f[Any(s)] + g[s \ {Any(s)}]
BY DEF Sums

(* Two functions that obey the equation agree where both are defined.      *)
LEMMA SumsAgree ==
    ASSUME NEW g, NEW h, NEW f, NEW e, NEW S, NEW T, IsFiniteSet(S), T \subseteq S,
           Sums(g, f, S), Sums(h, e, T), \A x \in T : f[x] = e[x]
    PROVE  g[T] = h[T]
<1> DEFINE F == {s \in SUBSET T : g[s] # h[s]}
<1> SUFFICES ASSUME F # {} PROVE FALSE
  OBVIOUS
<1>1. IsFiniteSet(T) /\ F \subseteq SUBSET T
  BY FS_Subset
<1>2. PICK s \in F : \A u \in F : u \subseteq s => u = s
  <2> HIDE DEF F
  <2> QED
    BY <1>1, MinimalSubset
<1>3. s \in SUBSET T /\ s \in SUBSET S /\ g[s] # h[s]
  OBVIOUS
<1>4. s # {}
  BY <1>3, SumsStep
<1> DEFINE x == Any(s)
<1>5. x \in s
  BY <1>4, AnyInSet
<1> HIDE DEF x
<1>6. g[s \ {x}] = h[s \ {x}]
  BY <1>2, <1>3, <1>5
<1>7. g[s] = f[x] + g[s \ {x}] /\ h[s] = e[x] + h[s \ {x}]
  BY <1>3, <1>4, SumsStep DEF x
<1> QED
  BY <1>3, <1>5, <1>6, <1>7

(* Every finite set has a function that obeys the equation.                *)
LEMMA SumsExist ==
    ASSUME NEW f, NEW S, IsFiniteSet(S)
    PROVE  \E g : Sums(g, f, S)
<1> DEFINE F == {T \in SUBSET S : ~\E g : Sums(g, f, T)}
<1> SUFFICES ASSUME F # {} PROVE FALSE
  BY S \in SUBSET S
<1>1. PICK T \in F : \A U \in F : U \subseteq T => U = T
  <2>1. F \subseteq SUBSET S
    OBVIOUS
  <2> HIDE DEF F
  <2> QED
    BY <2>1, MinimalSubset
<1>2. T \in SUBSET S /\ ~\E g : Sums(g, f, T)
  OBVIOUS
<1> HIDE DEF F
<1> DEFINE h == [s \in SUBSET T |->
                   IF s = {} THEN 0 ELSE f[Any(s)] + SumOver(f, s \ {Any(s)})]
<1>3. ASSUME NEW u \in SUBSET T, u # T
      PROVE  SumOver(f, u) = h[u]
  <2>1. \E g : Sums(g, f, u)
    BY <1>1, <1>2, <1>3 DEF F
  <2> DEFINE g == CHOOSE g : Sums(g, f, u)
  <2>2. Sums(g, f, u)
    BY <2>1
  <2> HIDE DEF g
  <2>3. SumOver(f, u) = g[u]
    BY DEF SumOver, g
  <2>4. CASE u = {}
    BY <2>2, <2>3, <2>4, SumsStep
  <2>5. CASE u # {}
    <3> DEFINE r == u \ {Any(u)}
    <3>1. r \in SUBSET u /\ r \in SUBSET T /\ r # T
      BY <2>5, <1>3, AnyInSet
    <3>2. \E k : Sums(k, f, r)
      BY <1>1, <1>2, <3>1 DEF F
    <3> DEFINE k == CHOOSE k : Sums(k, f, r)
    <3>3. Sums(k, f, r)
      BY <3>2
    <3> HIDE DEF k
    <3>4. SumOver(f, r) = k[r]
      BY DEF SumOver, k
    <3>5. IsFiniteSet(u)
      BY <1>2, FS_Subset
    <3>6. g[r] = k[r]
      BY <2>2, <3>1, <3>3, <3>5, SumsAgree
    <3>7. g[u] = f[Any(u)] + g[r]
      BY <2>2, <2>5, SumsStep
    <3>8. h[u] = f[Any(u)] + SumOver(f, r)
      BY <2>5
    <3> QED
      BY <2>3, <3>4, <3>6, <3>7, <3>8
  <2> QED
    BY <2>4, <2>5
<1>4. \A s \in SUBSET T : s # {} =>
         s \ {Any(s)} \in SUBSET T /\ s \ {Any(s)} # T
  BY AnyInSet
<1>5. \A s \in SUBSET T : s # {} => SumOver(f, s \ {Any(s)}) = h[s \ {Any(s)}]
  BY <1>3, <1>4
<1>6. h = [s \in SUBSET T |-> IF s = {} THEN 0 ELSE f[Any(s)] + h[s \ {Any(s)}]]
  <2> DEFINE H(s) == IF s = {} THEN 0 ELSE f[Any(s)] + SumOver(f, s \ {Any(s)})
             K(s) == IF s = {} THEN 0 ELSE f[Any(s)] + h[s \ {Any(s)}]
  <2>1. \A s \in SUBSET T : H(s) = K(s)
    BY <1>5
  <2> HIDE DEF H, K
  <2>2. [s \in SUBSET T |-> H(s)] = [s \in SUBSET T |-> K(s)]
    BY <2>1
  <2>3. h = [s \in SUBSET T |-> H(s)]
    BY DEF H
  <2> HIDE DEF h
  <2> QED
    BY <2>2, <2>3 DEF K
<1> HIDE DEF h
<1>7. Sums(h, f, T)
  BY <1>6 DEF Sums
<1> QED
  BY <1>2, <1>7

-----------------------------------------------------------------------------
(* A sum is determined by the summands.                                    *)
THEOREM SumSame ==
    ASSUME NEW S, IsFiniteSet(S), NEW f, NEW e, \A x \in S : f[x] = e[x]
    PROVE  SumOver(f, S) = SumOver(e, S)
<1>1. PICK g : Sums(g, f, S) /\ g = CHOOSE k : Sums(k, f, S)
  BY SumsExist
<1>2. PICK h : Sums(h, e, S) /\ h = CHOOSE k : Sums(k, e, S)
  BY SumsExist
<1>3. g[S] = h[S]
  BY <1>1, <1>2, SumsAgree
<1> QED
  BY <1>1, <1>2, <1>3 DEF SumOver

(* A sum takes its elements one by one.                                    *)
LEMMA SumStep ==
    ASSUME NEW S, IsFiniteSet(S), NEW f
    PROVE  SumOver(f, S) = IF S = {} THEN 0 ELSE f[Any(S)] + SumOver(f, S \ {Any(S)})
<1>1. PICK g : Sums(g, f, S) /\ g = CHOOSE k : Sums(k, f, S)
  BY SumsExist
<1>2. SumOver(f, S) = g[S]
  BY <1>1 DEF SumOver
<1>3. CASE S = {}
  BY <1>1, <1>2, <1>3, SumsStep
<1>4. CASE S # {}
  <2> DEFINE r == S \ {Any(S)}
  <2>1. r \subseteq S /\ IsFiniteSet(r)
    BY FS_Subset
  <2> HIDE DEF r
  <2>2. PICK h : Sums(h, f, r) /\ h = CHOOSE k : Sums(k, f, r)
    BY <2>1, SumsExist
  <2>3. g[r] = h[r]
    BY <1>1, <2>1, <2>2, SumsAgree
  <2>4. SumOver(f, r) = h[r]
    BY <2>2 DEF SumOver
  <2>5. g[S] = f[Any(S)] + g[r]
    BY <1>1, <1>4, SumsStep DEF r
  <2> QED
    BY <1>2, <1>4, <2>3, <2>4, <2>5 DEF r
<1> QED
  BY <1>3, <1>4

(* A sum of nothing is 0.                                                  *)
THEOREM SumEmpty == ASSUME NEW f PROVE SumOver(f, {}) = 0
BY SumStep, FS_EmptySet

(* Whatever order the elements are taken in, the sum is the same, and it   *)
(* is an integer.                                                          *)
LEMMA SumAnyOrder ==
    ASSUME NEW S, IsFiniteSet(S), NEW f, \A x \in S : f[x] \in Int
    PROVE  /\ SumOver(f, S) \in Int
           /\ \A x \in S : SumOver(f, S) = f[x] + SumOver(f, S \ {x})
<1> DEFINE Good(T) == /\ SumOver(f, T) \in Int
                      /\ \A x \in T : SumOver(f, T) = f[x] + SumOver(f, T \ {x})
           F == {T \in SUBSET S : ~Good(T)}
<1> SUFFICES ASSUME F # {} PROVE FALSE
  <2>1. S \notin F => Good(S)
    BY S \in SUBSET S
  <2> QED
    BY <2>1
<1>1. PICK T \in F : \A U \in F : U \subseteq T => U = T
  <2>1. F \subseteq SUBSET S
    OBVIOUS
  <2> HIDE DEF F
  <2> QED
    BY <2>1, MinimalSubset
<1>2. T \in SUBSET S /\ ~Good(T) /\ IsFiniteSet(T)
  BY FS_Subset
<1>3. \A U \in SUBSET T : U # T => Good(U)
  BY <1>1, <1>2
<1> HIDE DEF F, Good
<1>4. T # {}
  BY <1>2, SumEmpty DEF Good
<1> DEFINE c == Any(T)
           r == T \ {c}
<1>5. c \in T
  BY <1>4, AnyInSet
<1>6. SumOver(f, T) = f[c] + SumOver(f, r)
  BY <1>2, <1>4, SumStep
<1> HIDE DEF c
<1>7. Good(r)
  BY <1>3, <1>5
<1>8. f[c] \in Int /\ SumOver(f, r) \in Int /\ SumOver(f, T) \in Int
  BY <1>2, <1>5, <1>6, <1>7 DEF Good
<1>9. ASSUME NEW x \in T
      PROVE  SumOver(f, T) = f[x] + SumOver(f, T \ {x})
  <2>1. CASE x = c
    BY <1>6, <2>1
  <2>2. CASE x # c
    <3> DEFINE both == T \ {c, x}
    <3>1. r \ {x} = both /\ (T \ {x}) \ {c} = both
      OBVIOUS
    <3>2. x \in r /\ c \in T \ {x} /\ Good(T \ {x})
      BY <1>3, <1>5, <2>2
    <3>3. SumOver(f, r) = f[x] + SumOver(f, both)
      BY <1>7, <3>1, <3>2 DEF Good
    <3>4. SumOver(f, T \ {x}) = f[c] + SumOver(f, both)
      BY <3>1, <3>2 DEF Good
    <3>5. SumOver(f, both) \in Int
      <4>1. both \in SUBSET T /\ both # T
        BY <1>5
      <4> QED
        BY <1>3, <4>1 DEF Good
    <3>6. f[x] \in Int
      BY <1>2
    <3> HIDE DEF both, r
    <3> QED
      BY <1>6, <1>8, <3>3, <3>4, <3>5, <3>6
  <2> QED
    BY <2>1, <2>2
<1> QED
  BY <1>2, <1>8, <1>9 DEF Good

(* A sum of integers is an integer ...                                     *)
THEOREM SumIsInt ==
    ASSUME NEW S, IsFiniteSet(S), NEW f, \A x \in S : f[x] \in Int
    PROVE  SumOver(f, S) \in Int
BY SumAnyOrder

(* ... and any element may be taken out of it first.                       *)
THEOREM SumTakes ==
    ASSUME NEW S, IsFiniteSet(S), NEW f, \A y \in S : f[y] \in Int, NEW x \in S
    PROVE  SumOver(f, S) = f[x] + SumOver(f, S \ {x})
BY SumAnyOrder

(* Larger summands make a larger sum.                                      *)
THEOREM SumIsMonotone ==
    ASSUME NEW S, IsFiniteSet(S), NEW f, NEW e,
           \A x \in S : f[x] \in Int /\ e[x] \in Int /\ f[x] <= e[x]
    PROVE  SumOver(f, S) <= SumOver(e, S)
<1> DEFINE F == {T \in SUBSET S : ~(SumOver(f, T) <= SumOver(e, T))}
<1> SUFFICES ASSUME F # {} PROVE FALSE
  BY S \in SUBSET S
<1>1. PICK T \in F : \A U \in F : U \subseteq T => U = T
  <2>1. F \subseteq SUBSET S
    OBVIOUS
  <2> HIDE DEF F
  <2> QED
    BY <2>1, MinimalSubset
<1>2. T \in SUBSET S /\ ~(SumOver(f, T) <= SumOver(e, T)) /\ IsFiniteSet(T)
  BY FS_Subset
<1>3. PICK x : x \in T
  BY <1>2, SumEmpty
<1>4. SumOver(f, T \ {x}) <= SumOver(e, T \ {x})
  BY <1>1, <1>2, <1>3
<1> HIDE DEF F
<1>5. /\ SumOver(f, T) = f[x] + SumOver(f, T \ {x})
      /\ SumOver(e, T) = e[x] + SumOver(e, T \ {x})
  BY <1>2, <1>3, SumTakes
<1>6. SumOver(f, T \ {x}) \in Int /\ SumOver(e, T \ {x}) \in Int
  BY <1>2, <1>3, SumIsInt, FS_Subset
<1>7. f[x] \in Int /\ e[x] \in Int /\ f[x] <= e[x]
  BY <1>2, <1>3
<1> QED
  BY <1>2, <1>4, <1>5, <1>6, <1>7

(* A sum over a part and the rest is the sum over the whole.               *)
THEOREM SumOfParts ==
    ASSUME NEW S, NEW T, IsFiniteSet(S), IsFiniteSet(T), S \cap T = {},
           NEW f, \A x \in S \cup T : f[x] \in Int
    PROVE  SumOver(f, S \cup T) = SumOver(f, S) + SumOver(f, T)
<1> DEFINE F == {U \in SUBSET T : SumOver(f, S \cup U) # SumOver(f, S) + SumOver(f, U)}
<1> SUFFICES ASSUME F # {} PROVE FALSE
  BY T \in SUBSET T
<1>1. PICK U \in F : \A W \in F : W \subseteq U => W = U
  <2>1. F \subseteq SUBSET T
    OBVIOUS
  <2> HIDE DEF F
  <2> QED
    BY <2>1, MinimalSubset
<1>2. /\ U \in SUBSET T /\ IsFiniteSet(U) /\ IsFiniteSet(S \cup U)
      /\ SumOver(f, S \cup U) # SumOver(f, S) + SumOver(f, U)
  BY FS_Subset, FS_Union
<1>3. PICK x : x \in U
  <2>1. CASE U = {}
    <3>1. S \cup U = S
      BY <2>1
    <3>2. SumOver(f, S \cup U) = SumOver(f, S)
      BY <3>1
    <3>3. SumOver(f, U) = 0 /\ SumOver(f, S) \in Int
      BY <2>1, SumEmpty, SumIsInt
    <3>4. SumOver(f, S \cup U) = SumOver(f, S) + SumOver(f, U)
      BY <3>2, <3>3
    <3> QED
      BY <1>2, <3>4
  <2> QED
    BY <2>1
<1>4. SumOver(f, S \cup (U \ {x})) = SumOver(f, S) + SumOver(f, U \ {x})
  BY <1>1, <1>2, <1>3
<1> HIDE DEF F
<1>5. (S \cup U) \ {x} = S \cup (U \ {x})
  BY <1>2, <1>3
<1>6. /\ SumOver(f, U) = f[x] + SumOver(f, U \ {x})
      /\ SumOver(f, S \cup U) = f[x] + SumOver(f, S \cup (U \ {x}))
  <2>1. x \in S \cup U /\ \A y \in S \cup U : f[y] \in Int
    BY <1>2, <1>3
  <2>2. SumOver(f, S \cup U) = f[x] + SumOver(f, (S \cup U) \ {x})
    BY <1>2, <2>1, SumTakes
  <2> QED
    BY <1>2, <1>3, <1>5, <2>1, <2>2, SumTakes
<1>7. f[x] \in Int /\ SumOver(f, S) \in Int /\ SumOver(f, U \ {x}) \in Int
  BY <1>2, <1>3, SumIsInt, FS_Subset
<1> QED
  BY <1>2, <1>4, <1>6, <1>7

(* A sum of naturals is a natural ...                                      *)
THEOREM SumIsNat ==
    ASSUME NEW S, IsFiniteSet(S), NEW f, \A x \in S : f[x] \in Nat
    PROVE  SumOver(f, S) \in Nat
<1> DEFINE F == {T \in SUBSET S : SumOver(f, T) \notin Nat}
<1> SUFFICES ASSUME F # {} PROVE FALSE
  BY S \in SUBSET S
<1>1. PICK T \in F : \A U \in F : U \subseteq T => U = T
  <2>1. F \subseteq SUBSET S
    OBVIOUS
  <2> HIDE DEF F
  <2> QED
    BY <2>1, MinimalSubset
<1>2. T \in SUBSET S /\ SumOver(f, T) \notin Nat /\ IsFiniteSet(T)
  BY FS_Subset
<1>3. PICK x : x \in T
  BY <1>2, SumEmpty
<1>4. SumOver(f, T \ {x}) \in Nat
  BY <1>1, <1>2, <1>3
<1> HIDE DEF F
<1>5. SumOver(f, T) = f[x] + SumOver(f, T \ {x})
  BY <1>2, <1>3, SumTakes
<1> QED
  BY <1>2, <1>3, <1>4, <1>5

(* ... and no part of it is larger.                                        *)
THEOREM SumOfPart ==
    ASSUME NEW T, IsFiniteSet(T), NEW S, S \subseteq T, NEW f, \A x \in T : f[x] \in Nat
    PROVE  SumOver(f, S) <= SumOver(f, T)
<1> DEFINE rest == T \ S
<1>1. IsFiniteSet(S) /\ IsFiniteSet(rest) /\ S \cap rest = {} /\ S \cup rest = T
  BY FS_Subset
<1> HIDE DEF rest
<1>2. SumOver(f, T) = SumOver(f, S) + SumOver(f, rest)
  <2>1. \A x \in S \cup rest : f[x] \in Int
    BY <1>1
  <2>2. SumOver(f, S \cup rest) = SumOver(f, S) + SumOver(f, rest)
    BY <1>1, <2>1, SumOfParts
  <2> QED
    BY <1>1, <2>2
<1>3. SumOver(f, S) \in Nat /\ SumOver(f, rest) \in Nat
  BY <1>1, SumIsNat
<1> QED
  BY <1>2, <1>3

(* Summands that are 0 add up to 0.                                        *)
THEOREM SumOfNothing ==
    ASSUME NEW S, IsFiniteSet(S), NEW f, \A x \in S : f[x] = 0
    PROVE  SumOver(f, S) = 0
<1> DEFINE F == {T \in SUBSET S : SumOver(f, T) # 0}
<1> SUFFICES ASSUME F # {} PROVE FALSE
  BY S \in SUBSET S
<1>1. PICK T \in F : \A U \in F : U \subseteq T => U = T
  <2>1. F \subseteq SUBSET S
    OBVIOUS
  <2> HIDE DEF F
  <2> QED
    BY <2>1, MinimalSubset
<1>2. T \in SUBSET S /\ SumOver(f, T) # 0 /\ IsFiniteSet(T)
  BY FS_Subset
<1>3. PICK x : x \in T
  BY <1>2, SumEmpty
<1>4. SumOver(f, T \ {x}) = 0
  BY <1>1, <1>2, <1>3
<1> HIDE DEF F
<1>5. SumOver(f, T) = f[x] + SumOver(f, T \ {x})
  BY <1>2, <1>3, SumTakes
<1> QED
  BY <1>2, <1>3, <1>4, <1>5

(* A sum of one summand is that summand.                                   *)
THEOREM SumOfOne ==
    ASSUME NEW f, NEW x, f[x] \in Int
    PROVE  SumOver(f, {x}) = f[x]
<1>1. IsFiniteSet({x}) /\ {x} \ {x} = {}
  BY FS_Singleton
<1>2. SumOver(f, {x}) = f[x] + SumOver(f, {x} \ {x})
  BY <1>1, SumTakes
<1> QED
  BY <1>1, <1>2, SumEmpty
=============================================================================
