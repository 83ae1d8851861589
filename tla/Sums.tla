-------------------------------- MODULE Sums --------------------------------
(***************************************************************************)
(* Facts about sums over finite sets, for the proofs of the other modules. *)
(*                                                                         *)
(* A sum is the fold SumFunctionOnSet, a function defined by recursion     *)
(* over the subsets of a set.  The induction theorems of the library take  *)
(* a predicate as a parameter, which the provers cannot instantiate; here  *)
(* every induction is over the set of counterexamples instead, which has a *)
(* smallest member unless it is empty.                                     *)
(***************************************************************************)
EXTENDS Integers, Functions, FiniteSets, FiniteSetTheorems, WellFoundedInduction, TLAPS

(***************************************************************************)
(* Products, the way the proofs below need them.                           *)
(***************************************************************************)
\* A product grows with its first factor.
LEMMA ProductMonotone ==
  ASSUME NEW p \in Int, NEW q \in Int, NEW n \in Nat, p <= q
  PROVE  p * n <= q * n
<1>1. (q - p) * n >= 0
  OBVIOUS
<1>2. (q - p) * n = q * n - p * n
  OBVIOUS
<1>3. p * n \in Int /\ q * n \in Int
  OBVIOUS
<1>4. QED
  BY <1>1, <1>2, <1>3

\* Multiplication distributes over addition.
LEMMA ProductSum ==
  ASSUME NEW p \in Int, NEW m \in Int, NEW n \in Int
  PROVE  p * (m + n) = p * m + p * n
  OBVIOUS

\* A positive amount has a positive price.
LEMMA PositivePrice ==
  ASSUME NEW n \in Nat, NEW p \in Int, n * p > 0
  PROVE  p > 0
<1>1. CASE p <= 0
  <2>1. p * n <= 0 * n
    BY <1>1, ProductMonotone
  <2>2. QED
    BY <2>1
<1>2. QED
  BY <1>1

-----------------------------------------------------------------------------
(***************************************************************************)
(* The recursion.                                                          *)
(***************************************************************************)
Pick(s) == CHOOSE x \in s : TRUE

Iterates(f, w, S) ==
  f = [s \in SUBSET S |-> IF s = {} THEN 0 ELSE w[Pick(s)] + f[s \ {Pick(s)}]]

\* The sum is the value of a function chosen to satisfy the recursion.
LEMMA SumIsIteration ==
  ASSUME NEW w, NEW S
  PROVE  SumFunctionOnSet(w, S) = (CHOOSE f : Iterates(f, w, S))[S]
BY DEF SumFunctionOnSet, FoldFunctionOnSet, MapThenFoldSet, Iterates, Pick

\* Among subsets of a finite set there is one that none of the others is part of.
LEMMA SmallestSubset ==
  ASSUME NEW S, IsFiniteSet(S), NEW T \in SUBSET SUBSET S, T # {}
  PROVE  \E t \in T : \A u \in T : u \subseteq t => u = t
<1> DEFINE R == StrictSubsetOrdering(S)
<1>1. IsWellFoundedOn(R, FiniteSubsetsOf(S))
  BY FS_StrictSubsetOrderingWellFounded
<1>2. FiniteSubsetsOf(S) = SUBSET S
  BY FS_FiniteSubsetsOfFinite
<1>3. IsWellFoundedOn(R, SUBSET S)
  BY <1>1, <1>2
<1> HIDE DEF R
<1>4. PICK t \in T : \A u \in T : <<u, t>> \notin R
  <2>1. \E t \in T : \A u \in T : ~(<<u, t>> \in R)
    BY <1>3, WFMin, Zenon
  <2> QED BY <2>1
<1>5. \A u \in T : u \subseteq t => u = t
  BY <1>4 DEF R, StrictSubsetOrdering
<1> QED BY <1>5

\* Two functions that satisfy the recursion are equal on every subset.
LEMMA IterationUnique ==
  ASSUME NEW S, IsFiniteSet(S), NEW w, NEW f, NEW g,
         Iterates(f, w, S), Iterates(g, w, S)
  PROVE  f[S] = g[S]
<1> DEFINE D == {s \in SUBSET S : f[s] # g[s]}
<1>1. SUFFICES ASSUME D # {} PROVE FALSE
  BY <1>1
<1>2. PICK t \in D : \A u \in D : u \subseteq t => u = t
  <2> HIDE DEF D
  <2>1. D \in SUBSET SUBSET S
    BY DEF D
  <2> QED BY <1>1, <2>1, SmallestSubset
<1>3. t \in SUBSET S
  OBVIOUS
<1>4. f[t] = IF t = {} THEN 0 ELSE w[Pick(t)] + f[t \ {Pick(t)}]
  BY <1>3 DEF Iterates
<1>5. g[t] = IF t = {} THEN 0 ELSE w[Pick(t)] + g[t \ {Pick(t)}]
  BY <1>3 DEF Iterates
<1>6. CASE t = {}
  BY <1>4, <1>5, <1>6
<1>7. CASE t # {}
  <2>1. Pick(t) \in t
    BY <1>7 DEF Pick
  <2>2. t \ {Pick(t)} \in SUBSET S /\ t \ {Pick(t)} # t
    BY <2>1
  <2>3. f[t \ {Pick(t)}] = g[t \ {Pick(t)}]
    BY <1>2, <2>2
  <2> QED BY <1>4, <1>5, <1>7, <2>3
<1> QED BY <1>6, <1>7

\* The equation of the recursion, for the sum of a finite set.
SumUnfolds(w, s) ==
  SumFunctionOnSet(w, s) =
    IF s = {} THEN 0 ELSE w[Pick(s)] + SumFunctionOnSet(w, s \ {Pick(s)})

LEMMA SumEquation ==
  ASSUME NEW w, NEW S, IsFiniteSet(S)
  PROVE  SumUnfolds(w, S)
<1> DEFINE D == {s \in SUBSET S : ~SumUnfolds(w, s)}
<1>1. SUFFICES ASSUME D # {} PROVE FALSE
  BY <1>1
<1>2. PICK t \in D : \A u \in D : u \subseteq t => u = t
  <2> HIDE DEF D
  <2>1. D \in SUBSET SUBSET S
    BY DEF D
  <2> QED BY <1>1, <2>1, SmallestSubset
<1>3. t \in SUBSET S /\ ~SumUnfolds(w, t)
  OBVIOUS
<1>4. IsFiniteSet(t)
  BY <1>3, FS_Subset
<1>5. \A u \in SUBSET t : u # t => SumUnfolds(w, u)
  BY <1>2, <1>3
<1> HIDE DEF D
<1> DEFINE one(s) == IF s = {} THEN 0 ELSE w[Pick(s)] + SumFunctionOnSet(w, s \ {Pick(s)})
           f == [s \in SUBSET t |-> IF s = t THEN one(s) ELSE SumFunctionOnSet(w, s)]
<1>6. \A s \in SUBSET t : f[s] = one(s)
  BY <1>5 DEF SumUnfolds
<1>7. \A s \in SUBSET t : s # {} =>
         s \ {Pick(s)} \in SUBSET t /\ f[s \ {Pick(s)}] = SumFunctionOnSet(w, s \ {Pick(s)})
  <2> SUFFICES ASSUME NEW s \in SUBSET t, s # {}
               PROVE  /\ s \ {Pick(s)} \in SUBSET t
                      /\ f[s \ {Pick(s)}] = SumFunctionOnSet(w, s \ {Pick(s)})
    OBVIOUS
  <2>1. Pick(s) \in s
    BY DEF Pick
  <2> QED BY <2>1
<1>8. \A s \in SUBSET t :
         f[s] = IF s = {} THEN 0 ELSE w[Pick(s)] + f[s \ {Pick(s)}]
  BY <1>6, <1>7
<1>9. Iterates(f, w, t)
  <2>1. f = [s \in SUBSET t |-> f[s]]
    OBVIOUS
  <2> HIDE DEF f
  <2> QED BY <1>8, <2>1 DEF Iterates
<1> HIDE DEF f
<1>10. Iterates(CHOOSE g : Iterates(g, w, t), w, t)
  BY <1>9, Zenon
<1>11. (CHOOSE g : Iterates(g, w, t))[t] = f[t]
  BY <1>4, <1>9, <1>10, IterationUnique
<1>12. SumFunctionOnSet(w, t) = one(t)
  BY <1>6, <1>11, SumIsIteration
<1> QED BY <1>3, <1>12 DEF SumUnfolds

\* The sum of nothing.
LEMMA SumEmpty ==
  ASSUME NEW w
  PROVE  SumFunctionOnSet(w, {}) = 0
BY SumEquation, FS_EmptySet DEF SumUnfolds

\* The sum of integers is an integer.
LEMMA SumInt ==
  ASSUME NEW w, NEW S, IsFiniteSet(S), \A x \in S : w[x] \in Int
  PROVE  SumFunctionOnSet(w, S) \in Int
<1> DEFINE D == {s \in SUBSET S : SumFunctionOnSet(w, s) \notin Int}
<1>1. SUFFICES ASSUME D # {} PROVE FALSE
  BY <1>1
<1>2. PICK t \in D : \A u \in D : u \subseteq t => u = t
  <2> HIDE DEF D
  <2>1. D \in SUBSET SUBSET S
    BY DEF D
  <2> QED BY <1>1, <2>1, SmallestSubset
<1>3. SumUnfolds(w, t)
  BY SumEquation, FS_Subset
<1>4. t # {} => Pick(t) \in t
  BY DEF Pick
<1>5. t # {} => SumFunctionOnSet(w, t \ {Pick(t)}) \in Int
  BY <1>2, <1>4
<1> QED BY <1>3, <1>4, <1>5 DEF SumUnfolds

\* The sum of naturals is a natural.
LEMMA SumNat ==
  ASSUME NEW w, NEW S, IsFiniteSet(S), \A x \in S : w[x] \in Nat
  PROVE  SumFunctionOnSet(w, S) \in Nat
<1> DEFINE D == {s \in SUBSET S : SumFunctionOnSet(w, s) \notin Nat}
<1>1. SUFFICES ASSUME D # {} PROVE FALSE
  BY <1>1
<1>2. PICK t \in D : \A u \in D : u \subseteq t => u = t
  <2> HIDE DEF D
  <2>1. D \in SUBSET SUBSET S
    BY DEF D
  <2> QED BY <1>1, <2>1, SmallestSubset
<1>3. SumUnfolds(w, t)
  BY SumEquation, FS_Subset
<1>4. t # {} => Pick(t) \in t
  BY DEF Pick
<1>5. t # {} => SumFunctionOnSet(w, t \ {Pick(t)}) \in Nat
  BY <1>2, <1>4
<1> QED BY <1>3, <1>4, <1>5 DEF SumUnfolds

\* Any element may be taken out first.
LEMMA SumRemove ==
  ASSUME NEW w, NEW S, IsFiniteSet(S), \A x \in S : w[x] \in Int, NEW e \in S
  PROVE  SumFunctionOnSet(w, S) = w[e] + SumFunctionOnSet(w, S \ {e})
<1> DEFINE Sum(s) == SumFunctionOnSet(w, s)
           D == {s \in SUBSET S : \E x \in s : Sum(s) # w[x] + Sum(s \ {x})}
<1>1. SUFFICES ASSUME D # {} PROVE FALSE
  BY <1>1
<1>2. PICK t \in D : \A u \in D : u \subseteq t => u = t
  <2> HIDE DEF D
  <2>1. D \in SUBSET SUBSET S
    BY DEF D
  <2> QED BY <1>1, <2>1, SmallestSubset
<1>3. PICK x \in t : Sum(t) # w[x] + Sum(t \ {x})
  OBVIOUS
<1>4. \A s \in SUBSET S : Sum(s) \in Int
  BY FS_Subset, SumInt
<1> DEFINE p == Pick(t)
<1>5. p \in t
  BY DEF Pick
<1>6. Sum(t) = w[p] + Sum(t \ {p})
  BY <1>5, FS_Subset, SumEquation DEF SumUnfolds
<1> HIDE DEF p, Sum
<1>7. p # x
  BY <1>3, <1>6
<1>8. \A u \in SUBSET S : u \subseteq t /\ u # t => \A y \in u : Sum(u) = w[y] + Sum(u \ {y})
  BY <1>2
<1> HIDE DEF D
<1>9. t \in SUBSET S
  BY DEF D
<1>10. Sum(t \ {p}) = w[x] + Sum((t \ {p}) \ {x})
  BY <1>5, <1>7, <1>8, <1>9
<1>11. Sum(t \ {x}) = w[p] + Sum((t \ {x}) \ {p})
  BY <1>5, <1>7, <1>8, <1>9
<1> DEFINE rest == Sum((t \ {p}) \ {x})
<1>12. Sum((t \ {x}) \ {p}) = rest
  <2>1. (t \ {x}) \ {p} = (t \ {p}) \ {x}
    OBVIOUS
  <2> QED BY <2>1
<1>13. rest \in Int /\ w[p] \in Int /\ w[x] \in Int
  BY <1>4, <1>5, <1>9
<1> HIDE DEF rest
<1>14. Sum(t) = w[p] + (w[x] + rest) /\ Sum(t) # w[x] + (w[p] + rest)
  BY <1>3, <1>6, <1>10, <1>11, <1>12 DEF rest
<1> QED BY <1>13, <1>14

\* One element more.
LEMMA SumAdd ==
  ASSUME NEW w, NEW S, IsFiniteSet(S), NEW e, e \notin S, \A x \in S \cup {e} : w[x] \in Int
  PROVE  SumFunctionOnSet(w, S \cup {e}) = w[e] + SumFunctionOnSet(w, S)
<1>1. IsFiniteSet(S \cup {e}) /\ (S \cup {e}) \ {e} = S
  BY FS_AddElement
<1> QED BY <1>1, SumRemove

\* Functions that agree on a set have the same sum over it.
LEMMA SumSame ==
  ASSUME NEW S, IsFiniteSet(S), NEW v, NEW w, \A x \in S : v[x] = w[x]
  PROVE  SumFunctionOnSet(v, S) = SumFunctionOnSet(w, S)
<1> DEFINE D == {s \in SUBSET S : SumFunctionOnSet(v, s) # SumFunctionOnSet(w, s)}
<1>1. SUFFICES ASSUME D # {} PROVE FALSE
  BY <1>1
<1>2. PICK t \in D : \A u \in D : u \subseteq t => u = t
  <2> HIDE DEF D
  <2>1. D \in SUBSET SUBSET S
    BY DEF D
  <2> QED BY <1>1, <2>1, SmallestSubset
<1>3. SumUnfolds(v, t) /\ SumUnfolds(w, t)
  BY SumEquation, FS_Subset
<1>4. t # {} => Pick(t) \in t
  BY DEF Pick
<1>5. t # {} => SumFunctionOnSet(v, t \ {Pick(t)}) = SumFunctionOnSet(w, t \ {Pick(t)})
  BY <1>2, <1>4
<1> QED BY <1>3, <1>4, <1>5 DEF SumUnfolds

\* A bound on every term, c times another, bounds the sum.
LEMMA SumBound ==
  ASSUME NEW S, IsFiniteSet(S), NEW v, NEW w, NEW c \in Int,
         \A x \in S : v[x] \in Int /\ w[x] \in Int /\ v[x] <= c * w[x]
  PROVE  SumFunctionOnSet(v, S) <= c * SumFunctionOnSet(w, S)
<1> DEFINE V(s) == SumFunctionOnSet(v, s)
           W(s) == SumFunctionOnSet(w, s)
           D == {s \in SUBSET S : ~(V(s) <= c * W(s))}
<1>1. SUFFICES ASSUME D # {} PROVE FALSE
  BY <1>1
<1>2. PICK t \in D : \A u \in D : u \subseteq t => u = t
  <2> HIDE DEF D
  <2>1. D \in SUBSET SUBSET S
    BY DEF D
  <2> QED BY <1>1, <2>1, SmallestSubset
<1> DEFINE p == Pick(t)
           u == t \ {p}
<1>3. SumUnfolds(v, t) /\ SumUnfolds(w, t)
  BY SumEquation, FS_Subset
<1>4. \A s \in SUBSET S : V(s) \in Int /\ W(s) \in Int
  BY FS_Subset, SumInt
<1>5. CASE t = {}
  BY <1>3, <1>5 DEF SumUnfolds
<1>6. CASE t # {}
  <2>1. p \in t
    BY <1>6 DEF Pick
  <2>2. V(t) = v[p] + V(u) /\ W(t) = w[p] + W(u)
    BY <1>3, <1>6 DEF SumUnfolds
  <2> HIDE DEF p, V, W
  <2>3. u \in SUBSET S /\ u # t
    BY <2>1
  <2>4. V(u) <= c * W(u)
    BY <1>2, <2>3
  <2> HIDE DEF u
  <2>5. v[p] <= c * w[p] /\ v[p] \in Int /\ w[p] \in Int /\ V(u) \in Int /\ W(u) \in Int
    BY <1>4, <2>1, <2>3
  <2>6. c * (w[p] + W(u)) = c * w[p] + c * W(u) /\ c * w[p] \in Int /\ c * W(u) \in Int
    BY <2>5
  <2> QED BY <2>2, <2>4, <2>5, <2>6
<1> QED BY <1>5, <1>6

\* Terms that are 0 do not count.
LEMMA SumSupport ==
  ASSUME NEW w, NEW S, IsFiniteSet(S), \A x \in S : w[x] \in Int,
         NEW T \in SUBSET S, \A x \in S \ T : w[x] = 0
  PROVE  SumFunctionOnSet(w, S) = SumFunctionOnSet(w, T)
<1> DEFINE W(s) == SumFunctionOnSet(w, s)
           D == {s \in SUBSET S : T \subseteq s /\ W(s) # W(T)}
<1>1. SUFFICES ASSUME D # {} PROVE FALSE
  BY <1>1
<1>2. PICK t \in D : \A u \in D : u \subseteq t => u = t
  <2> HIDE DEF D
  <2>1. D \in SUBSET SUBSET S
    BY DEF D
  <2> QED BY <1>1, <2>1, SmallestSubset
<1>3. PICK e \in t : e \notin T
  OBVIOUS
<1>4. W(t) = w[e] + W(t \ {e})
  BY <1>3, FS_Subset, SumRemove
<1>5. W(t \ {e}) \in Int
  BY FS_Subset, SumInt
<1> HIDE DEF W
<1>6. W(t \ {e}) = W(T)
  BY <1>2, <1>3
<1>7. w[e] = 0
  BY <1>3
<1> QED BY <1>4, <1>5, <1>6, <1>7

\* More naturals, a larger sum.
LEMMA SumSubset ==
  ASSUME NEW w, NEW S, IsFiniteSet(S), \A x \in S : w[x] \in Nat, NEW T \in SUBSET S
  PROVE  SumFunctionOnSet(w, T) <= SumFunctionOnSet(w, S)
<1> DEFINE W(s) == SumFunctionOnSet(w, s)
           D == {s \in SUBSET S : T \subseteq s /\ ~(W(T) <= W(s))}
<1>1. SUFFICES ASSUME D # {} PROVE FALSE
  BY <1>1
<1>2. PICK t \in D : \A u \in D : u \subseteq t => u = t
  <2> HIDE DEF D
  <2>1. D \in SUBSET SUBSET S
    BY DEF D
  <2> QED BY <1>1, <2>1, SmallestSubset
<1>3. \A s \in SUBSET S : W(s) \in Nat
  BY FS_Subset, SumNat
<1>4. PICK e \in t : e \notin T
  BY <1>3
<1>5. W(t) = w[e] + W(t \ {e})
  BY <1>4, FS_Subset, SumRemove
<1> HIDE DEF W
<1>6. W(T) <= W(t \ {e})
  BY <1>2, <1>4
<1>7. w[e] \in Nat /\ W(T) \in Nat /\ W(t \ {e}) \in Nat
  BY <1>3, <1>4
<1> QED BY <1>5, <1>6, <1>7

=============================================================================
