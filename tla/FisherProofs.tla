----------------------------- MODULE FisherProofs -----------------------------
(***************************************************************************)
(* What fisher_one_sided computes, for tables of any size: the binomials   *)
(* count the subsets of one size, the terms of the sum count those that    *)
(* have one number of elements in the treatment, and so the sum counts     *)
(* those that have few.  How these counts move when the draw or the set    *)
(* grows follows from counting pairs twice, not from the formulas.         *)
(***************************************************************************)
EXTENDS Fisher, FiniteSetTheorems, TLAPS

-----------------------------------------------------------------------------
(* Sums over finite sets: the fold takes the elements one by one           *)

\* The element the fold takes next, and the recursion it follows.
Any(s) == CHOOSE x \in s : TRUE

Adds(f, S, g) ==
  g = [s \in SUBSET S |-> IF s = {} THEN 0 ELSE f[Any(s)] + g[s \ {Any(s)}]]

LEMMA SumUnfolds ==
  ASSUME NEW f, NEW S
  PROVE  SumFunctionOnSet(f, S) = (CHOOSE g : Adds(f, S, g))[S]
BY DEF SumFunctionOnSet, FoldFunctionOnSet, MapThenFoldSet, Adds, Any

LEMMA AnyOf == ASSUME NEW s, s # {} PROVE Any(s) \in s
BY DEF Any

LEMMA AddsSteps ==
  ASSUME NEW f, NEW S, NEW g, Adds(f, S, g), NEW s \in SUBSET S
  PROVE  g[s] = IF s = {} THEN 0 ELSE f[Any(s)] + g[s \ {Any(s)}]
<1> DEFINE G == [t \in SUBSET S |-> IF t = {} THEN 0 ELSE f[Any(t)] + g[t \ {Any(t)}]]
<1>1. g = G
  BY DEF Adds
<1>2. G[s] = IF s = {} THEN 0 ELSE f[Any(s)] + g[s \ {Any(s)}]
  OBVIOUS
<1> HIDE DEF G
<1> QED
  BY <1>1, <1>2

\* Of the subsets of a finite set with a property, one holds no other.
LEMMA LeastSubset ==
  ASSUME NEW S, IsFiniteSet(S), NEW B \in SUBSET (SUBSET S), B # {}
  PROVE  \E T \in B : \A U \in B : U \subseteq T => U = T
<1> DEFINE R == StrictSubsetOrdering(S)
           F == FiniteSubsetsOf(S)
<1>1. IsWellFoundedOn(R, F)
  BY FS_StrictSubsetOrderingWellFounded
<1>2. B \subseteq F
  BY FS_Subset DEF FiniteSubsetsOf
<1>3. \A U, T \in SUBSET S : U \subseteq T /\ U # T => <<U, T>> \in R
  BY DEF StrictSubsetOrdering
<1> HIDE DEF R, F
<1>4. \E T \in B : \A U \in B : ~(<<U, T>> \in R)
  BY <1>1, <1>2, WFMin
<1> QED
  BY <1>3, <1>4

LEMMA AddsAgree ==
  ASSUME NEW f, NEW S, NEW T, IsFiniteSet(S), NEW g, NEW h, Adds(f, S, g), Adds(f, T, h)
  PROVE  \A s \in SUBSET S : s \subseteq T => g[s] = h[s]
<1> DEFINE B == {s \in SUBSET S : s \subseteq T /\ g[s] # h[s]}
<1>1. SUFFICES ASSUME B # {} PROVE FALSE
  OBVIOUS
<1>2. PICK s \in B : \A u \in B : u \subseteq s => u = s
  <2>1. B \in SUBSET (SUBSET S)
    OBVIOUS
  <2> HIDE DEF B
  <2> QED
    BY <1>1, <2>1, LeastSubset
<1>3. s \in SUBSET S /\ s \in SUBSET T /\ g[s] # h[s]
  BY <1>2
<1>4. s # {}
  BY <1>3, AddsSteps
<1>5. Any(s) \in s
  BY <1>4, AnyOf
<1>6. s \ {Any(s)} \notin B
  BY <1>2, <1>5
<1>7. g[s \ {Any(s)}] = h[s \ {Any(s)}]
  BY <1>3, <1>6
<1>8. /\ g[s] = f[Any(s)] + g[s \ {Any(s)}]
      /\ h[s] = f[Any(s)] + h[s \ {Any(s)}]
  BY <1>3, <1>4, AddsSteps
<1> QED
  BY <1>3, <1>7, <1>8

LEMMA AddsExists ==
  ASSUME NEW f, NEW S, IsFiniteSet(S)
  PROVE  \E g : Adds(f, S, g)
<1> DEFINE B == {T \in SUBSET S : ~ \E g : Adds(f, T, g)}
<1>1. SUFFICES ASSUME B # {} PROVE FALSE
  OBVIOUS
<1>2. PICK T \in B : \A U \in B : U \subseteq T => U = T
  <2>1. B \in SUBSET (SUBSET S)
    OBVIOUS
  <2> HIDE DEF B
  <2> QED
    BY <1>1, <2>1, LeastSubset
<1>3. T \in SUBSET S /\ ~ \E g : Adds(f, T, g)
  BY <1>2
<1> DEFINE Of(U) == CHOOSE g : Adds(f, U, g)
<1>4. \A U \in SUBSET T : U # T => Adds(f, U, Of(U))
  <2>1. \A U \in SUBSET T : U # T => \E g : Adds(f, U, g)
    BY <1>2, <1>3
  <2> QED
    BY <2>1
<1> HIDE DEF Of
<1>5. \A U \in SUBSET T : U # {} /\ U # T =>
        Of(U)[U] = f[Any(U)] + Of(U \ {Any(U)})[U \ {Any(U)}]
  <2>1. TAKE U \in SUBSET T
  <2>2. HAVE U # {} /\ U # T
  <2> DEFINE V == U \ {Any(U)}
  <2>3. V \in SUBSET U /\ V # T /\ V \in SUBSET T
    BY <2>2, AnyOf
  <2>4. Adds(f, U, Of(U)) /\ Adds(f, V, Of(V))
    BY <1>4, <2>2, <2>3
  <2>5. IsFiniteSet(U)
    BY <1>3, FS_Subset, U \in SUBSET S
  <2>6. Of(U)[V] = Of(V)[V]
    BY <2>3, <2>4, <2>5, AddsAgree
  <2>7. Of(U)[U] = f[Any(U)] + Of(U)[V]
    BY <2>2, <2>4, AddsSteps
  <2> QED
    BY <2>6, <2>7
<1> DEFINE g == [U \in SUBSET T |->
                   IF U = {} THEN 0
                   ELSE f[Any(U)] + Of(U \ {Any(U)})[U \ {Any(U)}]]
<1>6. \A U \in SUBSET T : U # T => g[U] = Of(U)[U]
  <2>1. T # {} => Of({})[{}] = 0
    BY <1>4, AddsSteps
  <2> QED
    BY <1>5, <2>1
<1>7. \A U \in SUBSET T : g[U] = IF U = {} THEN 0 ELSE f[Any(U)] + g[U \ {Any(U)}]
  <2>1. TAKE U \in SUBSET T
  <2>2. CASE U = {}
    BY <2>2
  <2>3. CASE U # {}
    <3> DEFINE V == U \ {Any(U)}
    <3>1. V \in SUBSET T /\ V # T
      BY <2>3, AnyOf
    <3>2. g[V] = Of(V)[V]
      BY <3>1, <1>6
    <3>3. g[U] = f[Any(U)] + Of(V)[V]
      BY <2>3
    <3> QED
      BY <3>2, <3>3, <2>3
  <2> QED
    BY <2>2, <2>3
<1>8. Adds(f, T, g)
  <2>1. g = [U \in SUBSET T |-> g[U]]
    OBVIOUS
  <2> HIDE DEF g
  <2> QED
    BY <1>7, <2>1 DEF Adds
<1> QED
  BY <1>3, <1>8

LEMMA SumAdds ==
  ASSUME NEW f, NEW S, IsFiniteSet(S), NEW g, Adds(f, S, g)
  PROVE  \A s \in SUBSET S : SumFunctionOnSet(f, s) = g[s]
<1>1. TAKE s \in SUBSET S
<1>2. IsFiniteSet(s)
  BY FS_Subset
<1> DEFINE h == CHOOSE h : Adds(f, s, h)
<1>3. Adds(f, s, h)
  BY <1>2, AddsExists
<1>4. SumFunctionOnSet(f, s) = h[s]
  BY SumUnfolds
<1> HIDE DEF h
<1>5. h[s] = g[s]
  BY <1>2, <1>3, AddsAgree
<1> QED
  BY <1>4, <1>5

\* The first element.
LEMMA SumSteps ==
  ASSUME NEW f, NEW S, IsFiniteSet(S)
  PROVE  SumFunctionOnSet(f, S) =
           IF S = {} THEN 0 ELSE f[Any(S)] + SumFunctionOnSet(f, S \ {Any(S)})
<1>1. PICK g : Adds(f, S, g)
  BY AddsExists
<1>2. g[S] = IF S = {} THEN 0 ELSE f[Any(S)] + g[S \ {Any(S)}]
  BY <1>1, AddsSteps
<1>3. \A s \in SUBSET S : SumFunctionOnSet(f, s) = g[s]
  BY <1>1, SumAdds
<1> QED
  BY <1>2, <1>3

LEMMA SumEmpty == ASSUME NEW f PROVE SumFunctionOnSet(f, {}) = 0
BY SumSteps, FS_EmptySet

\* A sum of integers is one.
LEMMA SumInt ==
  ASSUME NEW S, IsFiniteSet(S), NEW f, \A x \in S : f[x] \in Int
  PROVE  SumFunctionOnSet(f, S) \in Int
<1> DEFINE B == {T \in SUBSET S : SumFunctionOnSet(f, T) \notin Int}
<1>1. SUFFICES ASSUME B # {} PROVE FALSE
  OBVIOUS
<1>2. PICK T \in B : \A U \in B : U \subseteq T => U = T
  <2>1. B \in SUBSET (SUBSET S)
    OBVIOUS
  <2> HIDE DEF B
  <2> QED
    BY <1>1, <2>1, LeastSubset
<1>3. T \in SUBSET S /\ SumFunctionOnSet(f, T) \notin Int /\ IsFiniteSet(T)
  BY <1>2, FS_Subset
<1>4. T # {}
  BY <1>3, SumEmpty
<1>5. Any(T) \in T
  BY <1>4, AnyOf
<1>6. T \ {Any(T)} \notin B
  BY <1>2, <1>5
<1>7. SumFunctionOnSet(f, T \ {Any(T)}) \in Int
  BY <1>3, <1>6
<1>8. f[Any(T)] \in Int
  BY <1>3, <1>5
<1>9. SumFunctionOnSet(f, T) = f[Any(T)] + SumFunctionOnSet(f, T \ {Any(T)})
  BY <1>3, <1>4, SumSteps
<1> QED
  BY <1>3, <1>7, <1>8, <1>9

\* Any element may be taken first.
LEMMA SumPick ==
  ASSUME NEW S, IsFiniteSet(S), NEW f, \A x \in S : f[x] \in Int, NEW e \in S
  PROVE  SumFunctionOnSet(f, S) = f[e] + SumFunctionOnSet(f, S \ {e})
<1> DEFINE Free(T) ==
             \A x \in T : SumFunctionOnSet(f, T) = f[x] + SumFunctionOnSet(f, T \ {x})
           B == {T \in SUBSET S : ~Free(T)}
<1>1. SUFFICES ASSUME B # {} PROVE FALSE
  OBVIOUS
<1>2. PICK T \in B : \A U \in B : U \subseteq T => U = T
  <2>1. B \in SUBSET (SUBSET S)
    OBVIOUS
  <2> HIDE DEF B
  <2> QED
    BY <1>1, <2>1, LeastSubset
<1>3. T \in SUBSET S /\ ~Free(T) /\ \A U \in SUBSET T : U # T => Free(U)
  BY <1>2
<1>4. PICK x \in T : SumFunctionOnSet(f, T) # f[x] + SumFunctionOnSet(f, T \ {x})
  BY <1>3
<1> DEFINE y == Any(T)
           U == T \ {y}
           V == T \ {x}
           W == V \ {y}
<1>5. IsFiniteSet(T)
  BY <1>3, FS_Subset
<1>6. y \in T /\ SumFunctionOnSet(f, T) = f[y] + SumFunctionOnSet(f, U)
  BY <1>4, <1>5, AnyOf, SumSteps
<1>7. x # y
  BY <1>4, <1>6
<1> HIDE DEF y
<1>8. SumFunctionOnSet(f, U) = f[x] + SumFunctionOnSet(f, W)
  <2>1. Free(U) /\ x \in U /\ U \ {x} = W
    BY <1>3, <1>6, <1>7
  <2> QED
    BY <2>1
<1>9. SumFunctionOnSet(f, V) = f[y] + SumFunctionOnSet(f, W)
  <2>1. Free(V) /\ y \in V
    BY <1>3, <1>6, <1>7
  <2> QED
    BY <2>1
<1>10. /\ f[x] \in Int /\ f[y] \in Int
       /\ SumFunctionOnSet(f, W) \in Int
  <2>1. W \in SUBSET T
    OBVIOUS
  <2>2. IsFiniteSet(W) /\ \A z \in W : f[z] \in Int
    BY <1>3, <1>5, <2>1, FS_Subset
  <2> QED
    BY <1>3, <1>6, <2>2, SumInt
<1>11. SumFunctionOnSet(f, T) # f[x] + SumFunctionOnSet(f, V)
  BY <1>4
<1>12. SumFunctionOnSet(f, T) = f[y] + SumFunctionOnSet(f, U)
  BY <1>6
<1> HIDE DEF U, V, W
<1> QED
  BY <1>8, <1>9, <1>10, <1>11, <1>12

\* Only the values on the set count.
LEMMA SumSame ==
  ASSUME NEW S, IsFiniteSet(S), NEW f, NEW h, \A x \in S : f[x] = h[x]
  PROVE  SumFunctionOnSet(f, S) = SumFunctionOnSet(h, S)
<1> DEFINE B == {T \in SUBSET S : SumFunctionOnSet(f, T) # SumFunctionOnSet(h, T)}
<1>1. SUFFICES ASSUME B # {} PROVE FALSE
  OBVIOUS
<1>2. PICK T \in B : \A U \in B : U \subseteq T => U = T
  <2>1. B \in SUBSET (SUBSET S)
    OBVIOUS
  <2> HIDE DEF B
  <2> QED
    BY <1>1, <2>1, LeastSubset
<1>3. /\ T \in SUBSET S
      /\ SumFunctionOnSet(f, T) # SumFunctionOnSet(h, T)
  BY <1>2
<1>4. IsFiniteSet(T)
  BY <1>3, FS_Subset
<1>5. T # {}
  BY <1>3, SumEmpty
<1>6. Any(T) \in T
  BY <1>5, AnyOf
<1>7. SumFunctionOnSet(f, T \ {Any(T)}) = SumFunctionOnSet(h, T \ {Any(T)})
  BY <1>2, <1>6
<1>8. /\ SumFunctionOnSet(f, T) = f[Any(T)] + SumFunctionOnSet(f, T \ {Any(T)})
      /\ SumFunctionOnSet(h, T) = h[Any(T)] + SumFunctionOnSet(h, T \ {Any(T)})
  BY <1>4, <1>5, SumSteps
<1> QED
  BY <1>3, <1>6, <1>7, <1>8

\* One more at one place, inside the set or outside of it.
LEMMA SumChanges ==
  ASSUME NEW S, IsFiniteSet(S), NEW f, \A x \in S : f[x] \in Int,
         NEW e, NEW d \in Int, NEW h,
         \A x \in S : h[x] = IF x = e THEN f[x] + d ELSE f[x]
  PROVE  SumFunctionOnSet(h, S) = SumFunctionOnSet(f, S) + IF e \in S THEN d ELSE 0
<1>1. CASE e \notin S
  <2>1. SumFunctionOnSet(h, S) = SumFunctionOnSet(f, S)
    BY <1>1, SumSame
  <2> QED
    BY <1>1, <2>1, SumInt
<1>2. CASE e \in S
  <2> DEFINE T == S \ {e}
  <2>1. IsFiniteSet(T) /\ \A x \in T : h[x] = f[x] /\ f[x] \in Int
    BY FS_RemoveElement
  <2> HIDE DEF T
  <2>2. SumFunctionOnSet(h, T) = SumFunctionOnSet(f, T)
    BY <2>1, SumSame
  <2>3. /\ SumFunctionOnSet(f, S) = f[e] + SumFunctionOnSet(f, T)
        /\ SumFunctionOnSet(h, S) = h[e] + SumFunctionOnSet(h, T)
    <3>1. \A x \in S : h[x] \in Int
      OBVIOUS
    <3> QED
      BY <1>2, <3>1, SumPick DEF T
  <2>4. SumFunctionOnSet(f, T) \in Int
    BY <2>1, SumInt
  <2> QED
    BY <1>2, <2>2, <2>3, <2>4
<1> QED
  BY <1>1, <1>2

\* What is left of a constant.
LEMMA SumRest ==
  ASSUME NEW S, IsFiniteSet(S), NEW f, \A x \in S : f[x] \in Int, NEW c \in Int,
         NEW h, \A x \in S : h[x] = c - f[x]
  PROVE  SumFunctionOnSet(h, S) = c * Cardinality(S) - SumFunctionOnSet(f, S)
<1> DEFINE B == {T \in SUBSET S :
                   SumFunctionOnSet(h, T) # c * Cardinality(T) - SumFunctionOnSet(f, T)}
<1>1. SUFFICES ASSUME B # {} PROVE FALSE
  OBVIOUS
<1>2. PICK T \in B : \A U \in B : U \subseteq T => U = T
  <2>1. B \in SUBSET (SUBSET S)
    OBVIOUS
  <2> HIDE DEF B
  <2> QED
    BY <1>1, <2>1, LeastSubset
<1>3. /\ T \in SUBSET S
      /\ SumFunctionOnSet(h, T) # c * Cardinality(T) - SumFunctionOnSet(f, T)
  BY <1>2
<1>4. IsFiniteSet(T)
  BY <1>3, FS_Subset
<1>5. T # {}
  <2>1. SUFFICES ASSUME T = {} PROVE FALSE
    OBVIOUS
  <2>2. Cardinality(T) = 0 /\ SumFunctionOnSet(f, T) = 0 /\ SumFunctionOnSet(h, T) = 0
    BY <2>1, SumEmpty, FS_EmptySet
  <2> QED
    BY <1>3, <2>2
<1>6. Any(T) \in T
  BY <1>5, AnyOf
<1> DEFINE U == T \ {Any(T)}
<1>7. SumFunctionOnSet(h, U) = c * Cardinality(U) - SumFunctionOnSet(f, U)
  BY <1>2, <1>6
<1>8. /\ SumFunctionOnSet(f, T) = f[Any(T)] + SumFunctionOnSet(f, U)
      /\ SumFunctionOnSet(h, T) = h[Any(T)] + SumFunctionOnSet(h, U)
  BY <1>4, <1>5, SumSteps
<1>9. /\ Cardinality(T) = Cardinality(U) + 1 /\ IsFiniteSet(U)
      /\ Cardinality(U) \in Nat
  <2>1. Cardinality(U) = Cardinality(T) - 1 /\ IsFiniteSet(U)
    BY <1>4, <1>6, FS_RemoveElement
  <2>2. Cardinality(T) \in Nat /\ Cardinality(U) \in Nat
    BY <1>4, <2>1, FS_CardinalityType
  <2> QED
    BY <2>1, <2>2
<1>10. SumFunctionOnSet(f, U) \in Int /\ f[Any(T)] \in Int /\ h[Any(T)] = c - f[Any(T)]
  <2>1. \A x \in U : f[x] \in Int
    BY <1>3
  <2> QED
    BY <1>3, <1>6, <1>9, <2>1, SumInt
<1> HIDE DEF U
<1>11. c * (Cardinality(U) + 1) = c * Cardinality(U) + c
  BY <1>9
<1>12. c * Cardinality(U) \in Int
  BY <1>9
<1> QED
  BY <1>3, <1>7, <1>8, <1>9, <1>10, <1>11, <1>12

\* Nothing adds up to nothing.
LEMMA SumZero ==
  ASSUME NEW S, IsFiniteSet(S), NEW f, \A x \in S : f[x] = 0
  PROVE  SumFunctionOnSet(f, S) = 0
<1>1. SumFunctionOnSet(f, S) \in Int /\ Cardinality(S) \in Nat
  BY SumInt, FS_CardinalityType
<1>2. SumFunctionOnSet(f, S) = 0 * Cardinality(S) - SumFunctionOnSet(f, S)
  <2>1. \A x \in S : f[x] \in Int /\ f[x] = 0 - f[x]
    OBVIOUS
  <2> QED
    BY <2>1, SumRest
<1> QED
  BY <1>1, <1>2

\* Two sets without an element in common.
LEMMA SumUnion ==
  ASSUME NEW S, NEW T, IsFiniteSet(S), IsFiniteSet(T), S \cap T = {},
         NEW f, \A x \in S \cup T : f[x] \in Int
  PROVE  SumFunctionOnSet(f, S \cup T) = SumFunctionOnSet(f, S) + SumFunctionOnSet(f, T)
<1> DEFINE B == {U \in SUBSET T : SumFunctionOnSet(f, S \cup U)
                                    # SumFunctionOnSet(f, S) + SumFunctionOnSet(f, U)}
<1>1. SUFFICES ASSUME B # {} PROVE FALSE
  OBVIOUS
<1>2. PICK U \in B : \A V \in B : V \subseteq U => V = U
  <2>1. B \in SUBSET (SUBSET T)
    OBVIOUS
  <2> HIDE DEF B
  <2> QED
    BY <1>1, <2>1, LeastSubset
<1>3. /\ U \in SUBSET T
      /\ SumFunctionOnSet(f, S \cup U) # SumFunctionOnSet(f, S) + SumFunctionOnSet(f, U)
  BY <1>2
<1>4. IsFiniteSet(U) /\ IsFiniteSet(S \cup U)
  <2>1. IsFiniteSet(U)
    BY <1>3, FS_Subset
  <2> QED
    BY <2>1, FS_Union
<1>5. SumFunctionOnSet(f, S) \in Int
  BY SumInt
<1>6. U # {}
  <2>1. SUFFICES ASSUME U = {} PROVE FALSE
    OBVIOUS
  <2>2. SumFunctionOnSet(f, U) = 0
    BY <2>1, SumEmpty
  <2>3. SumFunctionOnSet(f, S \cup U) = SumFunctionOnSet(f, S)
    <3>1. S \cup U = S
      BY <2>1
    <3> QED
      BY <3>1
  <2> QED
    BY <1>3, <1>5, <2>2, <2>3
<1>7. PICK e \in U : TRUE
  BY <1>6
<1> DEFINE V == U \ {e}
<1>8. SumFunctionOnSet(f, S \cup V) = SumFunctionOnSet(f, S) + SumFunctionOnSet(f, V)
  <2>1. V \in SUBSET T /\ V \notin B
    BY <1>2, <1>3
  <2> QED
    BY <2>1
<1>9. SumFunctionOnSet(f, U) = f[e] + SumFunctionOnSet(f, V)
  BY <1>3, <1>4, SumPick
<1>10. SumFunctionOnSet(f, S \cup U) = f[e] + SumFunctionOnSet(f, S \cup V)
  <2>1. (S \cup U) \ {e} = S \cup V
    BY <1>3
  <2> DEFINE W == S \cup U
  <2>2. e \in W /\ IsFiniteSet(W) /\ \A x \in W : f[x] \in Int
    BY <1>3, <1>4
  <2> HIDE DEF W
  <2>3. SumFunctionOnSet(f, W) = f[e] + SumFunctionOnSet(f, W \ {e})
    BY <2>2, SumPick
  <2> QED
    BY <2>1, <2>3 DEF W
<1>11. SumFunctionOnSet(f, V) \in Int /\ f[e] \in Int
  <2>1. IsFiniteSet(V) /\ \A x \in V : f[x] \in Int
    BY <1>3, <1>4, FS_RemoveElement
  <2> QED
    BY <1>3, <2>1, SumInt
<1> HIDE DEF V
<1> QED
  BY <1>3, <1>5, <1>8, <1>9, <1>10, <1>11

\* A sum of natural numbers is one.
LEMMA SumNat ==
  ASSUME NEW S, IsFiniteSet(S), NEW f, \A x \in S : f[x] \in Nat
  PROVE  SumFunctionOnSet(f, S) \in Nat
<1> DEFINE B == {T \in SUBSET S : SumFunctionOnSet(f, T) \notin Nat}
<1>1. SUFFICES ASSUME B # {} PROVE FALSE
  OBVIOUS
<1>2. PICK T \in B : \A U \in B : U \subseteq T => U = T
  <2>1. B \in SUBSET (SUBSET S)
    OBVIOUS
  <2> HIDE DEF B
  <2> QED
    BY <1>1, <2>1, LeastSubset
<1>3. T \in SUBSET S /\ SumFunctionOnSet(f, T) \notin Nat /\ IsFiniteSet(T)
  BY <1>2, FS_Subset
<1>4. T # {}
  BY <1>3, SumEmpty
<1>5. Any(T) \in T
  BY <1>4, AnyOf
<1>6. T \ {Any(T)} \notin B
  BY <1>2, <1>5
<1>7. SumFunctionOnSet(f, T \ {Any(T)}) \in Nat
  BY <1>3, <1>6
<1>8. f[Any(T)] \in Nat
  BY <1>3, <1>5
<1>9. SumFunctionOnSet(f, T) = f[Any(T)] + SumFunctionOnSet(f, T \ {Any(T)})
  BY <1>3, <1>4, SumSteps
<1> QED
  BY <1>3, <1>7, <1>8, <1>9

\* One number, as often as there are elements.
LEMMA SumConst ==
  ASSUME NEW S, IsFiniteSet(S), NEW c \in Int, NEW f, \A x \in S : f[x] = c
  PROVE  SumFunctionOnSet(f, S) = c * Cardinality(S)
<1> DEFINE z == [x \in S |-> 0]
<1>1. /\ \A x \in S : z[x] = 0
      /\ \A x \in S : z[x] \in Int
      /\ \A x \in S : f[x] = c - z[x]
  OBVIOUS
<1> HIDE DEF z
<1>2. SumFunctionOnSet(z, S) = 0
  BY <1>1, SumZero
<1>3. SumFunctionOnSet(f, S) = c * Cardinality(S) - SumFunctionOnSet(z, S)
  BY <1>1, SumRest
<1>4. c * Cardinality(S) \in Int
  BY FS_CardinalityType
<1> QED
  BY <1>2, <1>3, <1>4

-----------------------------------------------------------------------------
(* Counting pairs                                                           *)

\* Every set of natural numbers that is not empty has a least one.
LEMMA NatMinimum ==
  ASSUME NEW T \in SUBSET Nat, T # {}
  PROVE  \E x \in T : \A y \in T : x <= y
<1> DEFINE R == OpToRel(<, Nat)
<1>1. \A x, y \in Nat : x < y => <<x, y>> \in R
  BY DEF OpToRel
<1>2. IsWellFoundedOn(R, Nat)
  BY NatLessThanWellFounded
<1> HIDE DEF R
<1>3. PICK x \in T : \A y \in T : ~ (<<y, x>> \in R)
  BY <1>2, WFMin
<1>4. ASSUME NEW y \in T PROVE x <= y
  <2>1. x \in Nat /\ y \in Nat /\ ~(y < x)
    BY <1>1, <1>3
  <2> QED
    BY <2>1
<1> QED
  BY <1>4

\* The subsets of one size.
LEMMA SubsetsFinite ==
  ASSUME NEW U, IsFiniteSet(U), NEW m
  PROVE  /\ IsFiniteSet(kSubset(m, U))
         /\ \A S \in kSubset(m, U) :
              S \subseteq U /\ IsFiniteSet(S) /\ Cardinality(S) = m
<1>1. IsFiniteSet(SUBSET U)
  BY FS_SUBSET
<1>2. kSubset(m, U) \subseteq SUBSET U
  BY DEF kSubset
<1> QED
  BY <1>1, <1>2, FS_Subset DEF kSubset

\* Some of them.
LEMMA FamilyFinite ==
  ASSUME NEW U, IsFiniteSet(U), NEW m, NEW A \in SUBSET kSubset(m, U)
  PROVE  IsFiniteSet(A) /\ Cardinality(A) \in Nat
BY SubsetsFinite, FS_Subset, FS_CardinalityType

\* The pairs of an index and an element of its set.
Pairs(A, f) == UNION {{a} \X f[a] : a \in A}

LEMMA PairIn ==
  ASSUME NEW A, NEW f, NEW p
  PROVE  p \in Pairs(A, f) <=> \E a \in A : \E x \in f[a] : p = <<a, x>>
BY DEF Pairs

LEMMA PairsCount ==
  ASSUME NEW A, IsFiniteSet(A), NEW f, NEW q \in Nat,
         \A a \in A : IsFiniteSet(f[a]) /\ Cardinality(f[a]) = q
  PROVE  /\ IsFiniteSet(Pairs(A, f))
         /\ Cardinality(Pairs(A, f)) = Cardinality(A) * q
<1> DEFINE h == [a \in A |-> CHOOSE b : b \in Bijection(1..q, f[a])]
           g == [p \in A \X (1..q) |-> <<p[1], h[p[1]][p[2]]>>]
           Q == Pairs(A, f)
<1>1. \A a \in A : h[a] \in Bijection(1..q, f[a])
  <2>1. \A a \in A : \E b : b \in Bijection(1..q, f[a])
    BY FS_CardinalityType DEF ExistsBijection
  <2> QED
    BY <2>1
<1> HIDE DEF h
<1>2. \A a \in A :
        /\ \A i \in 1..q : h[a][i] \in f[a]
        /\ \A i, j \in 1..q : h[a][i] = h[a][j] => i = j
        /\ \A x \in f[a] : \E i \in 1..q : h[a][i] = x
  BY <1>1 DEF Bijection, Injection, Surjection, IsInjective
<1>3. \A a \in A : \A i \in 1..q : <<a, i>> \in A \X (1..q) /\ g[<<a, i>>] = <<a, h[a][i]>>
  OBVIOUS
<1>4. \A p \in A \X (1..q) : \E a \in A : \E i \in 1..q : p = <<a, i>>
  OBVIOUS
<1> HIDE DEF g
<1>5. \A p \in A \X (1..q) : g[p] \in Q
  BY <1>2, <1>3, <1>4, PairIn
<1>6. ASSUME NEW p1 \in A \X (1..q), NEW p2 \in A \X (1..q), g[p1] = g[p2]
      PROVE  p1 = p2
  <2>1. PICK a1 \in A, i1 \in 1..q : p1 = <<a1, i1>>
    BY <1>4
  <2>2. PICK a2 \in A, i2 \in 1..q : p2 = <<a2, i2>>
    BY <1>4
  <2>3. <<a1, h[a1][i1]>> = <<a2, h[a2][i2]>>
    BY <1>3, <1>6, <2>1, <2>2
  <2>4. a1 = a2 /\ h[a1][i1] = h[a2][i2]
    BY <2>3
  <2> QED
    BY <1>2, <2>1, <2>2, <2>4
<1>7. \A p \in Q : \E r \in A \X (1..q) : g[r] = p
  <2>1. TAKE p \in Q
  <2>2. PICK a \in A : \E x \in f[a] : p = <<a, x>>
    BY PairIn
  <2>3. PICK x \in f[a] : p = <<a, x>>
    BY <2>2
  <2>4. PICK i \in 1..q : h[a][i] = x
    BY <1>2
  <2>5. <<a, i>> \in A \X (1..q) /\ g[<<a, i>>] = p
    BY <1>3, <2>3, <2>4
  <2> QED
    BY <2>5
<1>8. g \in [A \X (1..q) -> Q]
  BY <1>5 DEF g
<1>9. ExistsBijection(A \X (1..q), Q)
  BY <1>6, <1>7, <1>8 DEF ExistsBijection, Bijection, Injection, Surjection, IsInjective
<1>10. /\ IsFiniteSet(A \X (1..q))
       /\ Cardinality(A \X (1..q)) = Cardinality(A) * q
  <2>1. IsFiniteSet(1..q) /\ Cardinality(1..q) = q
    BY FS_Interval
  <2> QED
    BY <2>1, FS_Product
<1> HIDE DEF Q
<1> QED
  BY <1>9, <1>10, FS_Bijection DEF Q

\* Every set of B gives one of A for each element that is taken out of it.
LEMMA Shadow ==
  ASSUME NEW U, IsFiniteSet(U), NEW m \in Nat, m <= Cardinality(U),
         NEW A \in SUBSET kSubset(m, U), NEW B \in SUBSET kSubset(m + 1, U),
         \A S \in B : \A x \in S : S \ {x} \in A
  PROVE  (m + 1) * Cardinality(B) <= (Cardinality(U) - m) * Cardinality(A)
<1> DEFINE e == [S \in B |-> S]
           f == [R \in A |-> U \ R]
           g == [p \in Pairs(B, e) |-> <<p[1] \ {p[2]}, p[2]>>]
           n == Cardinality(U)
<1>1. n \in Nat /\ IsFiniteSet(A) /\ IsFiniteSet(B) /\ Cardinality(A) \in Nat /\ Cardinality(B) \in Nat
  BY FamilyFinite, FS_CardinalityType
<1>2. /\ IsFiniteSet(Pairs(B, e))
      /\ Cardinality(Pairs(B, e)) = Cardinality(B) * (m + 1)
  <2>1. \A S \in B : IsFiniteSet(e[S]) /\ Cardinality(e[S]) = m + 1
    BY SubsetsFinite
  <2>2. m + 1 \in Nat
    OBVIOUS
  <2> HIDE DEF e
  <2> QED
    BY <1>1, <2>1, <2>2, PairsCount
<1>3. /\ IsFiniteSet(Pairs(A, f))
      /\ Cardinality(Pairs(A, f)) = Cardinality(A) * (n - m)
  <2>1. ASSUME NEW R \in A PROVE IsFiniteSet(f[R]) /\ Cardinality(f[R]) = n - m
    <3>1. R \subseteq U /\ Cardinality(R) = m
      BY SubsetsFinite
    <3>2. U \cap R = R
      BY <3>1
    <3>3. /\ IsFiniteSet(U \ R)
          /\ Cardinality(U \ R) = Cardinality(U) - Cardinality(U \cap R)
      BY FS_Difference
    <3> QED
      BY <3>1, <3>2, <3>3
  <2>2. n - m \in Nat
    BY <1>1
  <2> HIDE DEF f, n
  <2> QED
    BY <1>1, <2>1, <2>2, PairsCount
<1>4. \A p \in Pairs(B, e) : \E S \in B : \E x \in S : p = <<S, x>> /\ g[p] = <<S \ {x}, x>>
  <2>1. TAKE p \in Pairs(B, e)
  <2>2. PICK S \in B : \E x \in e[S] : p = <<S, x>>
    BY PairIn
  <2>3. PICK x \in S : p = <<S, x>>
    BY <2>2
  <2> QED
    BY <2>3
<1>5. \A p \in Pairs(B, e) : g[p] \in Pairs(A, f)
  <2>1. TAKE p \in Pairs(B, e)
  <2>2. PICK S \in B : \E x \in S : p = <<S, x>> /\ g[p] = <<S \ {x}, x>>
    BY <1>4
  <2>3. PICK x \in S : p = <<S, x>> /\ g[p] = <<S \ {x}, x>>
    BY <2>2
  <2>4. S \ {x} \in A /\ x \in f[S \ {x}]
    BY SubsetsFinite
  <2> HIDE DEF f, g
  <2> QED
    BY <2>3, <2>4, PairIn
<1>6. ASSUME NEW p1 \in Pairs(B, e), NEW p2 \in Pairs(B, e), g[p1] = g[p2]
      PROVE  p1 = p2
  <2>1. PICK S1 \in B :
          \E x \in S1 : p1 = <<S1, x>> /\ g[p1] = <<S1 \ {x}, x>>
    BY <1>4
  <2>2. PICK x1 \in S1 : p1 = <<S1, x1>> /\ g[p1] = <<S1 \ {x1}, x1>>
    BY <2>1
  <2>3. PICK S2 \in B :
          \E x \in S2 : p2 = <<S2, x>> /\ g[p2] = <<S2 \ {x}, x>>
    BY <1>4
  <2>4. PICK x2 \in S2 : p2 = <<S2, x2>> /\ g[p2] = <<S2 \ {x2}, x2>>
    BY <2>3
  <2>5. <<S1 \ {x1}, x1>> = <<S2 \ {x2}, x2>>
    BY <1>6, <2>2, <2>4
  <2>6. S1 \ {x1} = S2 \ {x2} /\ x1 = x2
    BY <2>5
  <2>7. S1 = S2
    <3>1. S1 = (S1 \ {x1}) \cup {x1} /\ S2 = (S2 \ {x2}) \cup {x2}
      OBVIOUS
    <3> QED
      BY <2>6, <3>1
  <2> QED
    BY <2>2, <2>4, <2>6, <2>7
<1>7. g \in Injection(Pairs(B, e), Pairs(A, f))
  <2>1. g \in [Pairs(B, e) -> Pairs(A, f)]
    BY <1>5
  <2> HIDE DEF g
  <2> QED
    BY <1>6, <2>1 DEF Injection, IsInjective
<1> HIDE DEF e, f, g, n
<1>8. Cardinality(Pairs(B, e)) <= Cardinality(Pairs(A, f))
  BY <1>3, <1>7, FS_Injection
<1> QED
  BY <1>1, <1>2, <1>3, <1>8 DEF n

\* Every set of A gives one of B for each element that is put into it.
LEMMA Shade ==
  ASSUME NEW U, IsFiniteSet(U), NEW m \in Nat, m <= Cardinality(U),
         NEW A \in SUBSET kSubset(m, U), NEW B \in SUBSET kSubset(m + 1, U),
         \A R \in A : \A x \in U \ R : R \cup {x} \in B
  PROVE  (Cardinality(U) - m) * Cardinality(A) <= (m + 1) * Cardinality(B)
<1> DEFINE e == [S \in B |-> S]
           f == [R \in A |-> U \ R]
           g == [p \in Pairs(A, f) |-> <<p[1] \cup {p[2]}, p[2]>>]
           n == Cardinality(U)
<1>1. n \in Nat /\ IsFiniteSet(A) /\ IsFiniteSet(B) /\ Cardinality(A) \in Nat /\ Cardinality(B) \in Nat
  BY FamilyFinite, FS_CardinalityType
<1>2. /\ IsFiniteSet(Pairs(B, e))
      /\ Cardinality(Pairs(B, e)) = Cardinality(B) * (m + 1)
  <2>1. \A S \in B : IsFiniteSet(e[S]) /\ Cardinality(e[S]) = m + 1
    BY SubsetsFinite
  <2>2. m + 1 \in Nat
    OBVIOUS
  <2> HIDE DEF e
  <2> QED
    BY <1>1, <2>1, <2>2, PairsCount
<1>3. /\ IsFiniteSet(Pairs(A, f))
      /\ Cardinality(Pairs(A, f)) = Cardinality(A) * (n - m)
  <2>1. ASSUME NEW R \in A PROVE IsFiniteSet(f[R]) /\ Cardinality(f[R]) = n - m
    <3>1. R \subseteq U /\ Cardinality(R) = m
      BY SubsetsFinite
    <3>2. U \cap R = R
      BY <3>1
    <3>3. /\ IsFiniteSet(U \ R)
          /\ Cardinality(U \ R) = Cardinality(U) - Cardinality(U \cap R)
      BY FS_Difference
    <3> QED
      BY <3>1, <3>2, <3>3
  <2>2. n - m \in Nat
    BY <1>1
  <2> HIDE DEF f, n
  <2> QED
    BY <1>1, <2>1, <2>2, PairsCount
<1>4. \A p \in Pairs(A, f) :
        \E R \in A : \E x \in U \ R : p = <<R, x>> /\ g[p] = <<R \cup {x}, x>>
  <2>1. TAKE p \in Pairs(A, f)
  <2>2. PICK R \in A : \E x \in f[R] : p = <<R, x>>
    BY PairIn
  <2>3. PICK x \in U \ R : p = <<R, x>>
    BY <2>2
  <2> QED
    BY <2>3
<1>5. \A p \in Pairs(A, f) : g[p] \in Pairs(B, e)
  <2>1. TAKE p \in Pairs(A, f)
  <2>2. PICK R \in A : \E x \in U \ R : p = <<R, x>> /\ g[p] = <<R \cup {x}, x>>
    BY <1>4
  <2>3. PICK x \in U \ R : p = <<R, x>> /\ g[p] = <<R \cup {x}, x>>
    BY <2>2
  <2>4. R \cup {x} \in B /\ x \in e[R \cup {x}]
    OBVIOUS
  <2> HIDE DEF e, g
  <2> QED
    BY <2>3, <2>4, PairIn
<1>6. ASSUME NEW p1 \in Pairs(A, f), NEW p2 \in Pairs(A, f), g[p1] = g[p2]
      PROVE  p1 = p2
  <2>1. PICK R1 \in A :
          \E x \in U \ R1 : p1 = <<R1, x>> /\ g[p1] = <<R1 \cup {x}, x>>
    BY <1>4
  <2>2. PICK x1 \in U \ R1 : p1 = <<R1, x1>> /\ g[p1] = <<R1 \cup {x1}, x1>>
    BY <2>1
  <2>3. PICK R2 \in A :
          \E x \in U \ R2 : p2 = <<R2, x>> /\ g[p2] = <<R2 \cup {x}, x>>
    BY <1>4
  <2>4. PICK x2 \in U \ R2 : p2 = <<R2, x2>> /\ g[p2] = <<R2 \cup {x2}, x2>>
    BY <2>3
  <2>5. <<R1 \cup {x1}, x1>> = <<R2 \cup {x2}, x2>>
    BY <1>6, <2>2, <2>4
  <2>6. R1 \cup {x1} = R2 \cup {x2} /\ x1 = x2
    BY <2>5
  <2>7. R1 = R2
    <3>1. R1 = (R1 \cup {x1}) \ {x1} /\ R2 = (R2 \cup {x2}) \ {x2}
      OBVIOUS
    <3> QED
      BY <2>6, <3>1
  <2> QED
    BY <2>2, <2>4, <2>6, <2>7
<1>7. g \in Injection(Pairs(A, f), Pairs(B, e))
  <2>1. g \in [Pairs(A, f) -> Pairs(B, e)]
    BY <1>5
  <2> HIDE DEF g
  <2> QED
    BY <1>6, <2>1 DEF Injection, IsInjective
<1> HIDE DEF e, f, g, n
<1>8. Cardinality(Pairs(A, f)) <= Cardinality(Pairs(B, e))
  BY <1>2, <1>7, FS_Injection
<1> QED
  BY <1>1, <1>2, <1>3, <1>8 DEF n

-----------------------------------------------------------------------------
(* The subsets of one size                                                  *)

\* The number of subsets of one size.
Ways(m, U) == Cardinality(kSubset(m, U))

LEMMA WaysNat ==
  ASSUME NEW U, IsFiniteSet(U), NEW m
  PROVE  Ways(m, U) \in Nat
BY FamilyFinite DEF Ways

LEMMA WaysOfNone ==
  ASSUME NEW U, IsFiniteSet(U)
  PROVE  kSubset(0, U) = {{}} /\ Ways(0, U) = 1
<1>1. \A S \in SUBSET U : Cardinality(S) = 0 <=> S = {}
  BY FS_Subset, FS_EmptySet
<1>2. kSubset(0, U) = {{}}
  BY <1>1 DEF kSubset
<1> QED
  BY <1>2, FS_Singleton DEF Ways

LEMMA WaysOutside ==
  ASSUME NEW U, IsFiniteSet(U), NEW m \in Int, m < 0 \/ m > Cardinality(U)
  PROVE  kSubset(m, U) = {} /\ Ways(m, U) = 0
<1>1. ASSUME NEW S \in SUBSET U PROVE Cardinality(S) # m
  <2>1. Cardinality(S) \in Nat /\ Cardinality(U) \in Nat /\ Cardinality(S) <= Cardinality(U)
    BY FS_Subset, FS_CardinalityType
  <2> QED
    BY <2>1
<1>2. kSubset(m, U) = {}
  BY <1>1 DEF kSubset
<1> QED
  BY <1>2, FS_EmptySet DEF Ways

\* An element out of a subset, or into it.
LEMMA OneLess ==
  ASSUME NEW U, IsFiniteSet(U), NEW m \in Nat, NEW S \in kSubset(m + 1, U), NEW x \in S
  PROVE  S \ {x} \in kSubset(m, U)
<1>1. S \subseteq U /\ IsFiniteSet(S) /\ Cardinality(S) = m + 1
  BY SubsetsFinite
<1>2. Cardinality(S \ {x}) = Cardinality(S) - 1
  BY <1>1, FS_RemoveElement
<1> QED
  BY <1>1, <1>2 DEF kSubset

LEMMA OneMore ==
  ASSUME NEW U, IsFiniteSet(U), NEW m \in Nat, NEW R \in kSubset(m, U), NEW x \in U \ R
  PROVE  R \cup {x} \in kSubset(m + 1, U)
<1>1. R \subseteq U /\ IsFiniteSet(R) /\ Cardinality(R) = m
  BY SubsetsFinite
<1>2. Cardinality(R \cup {x}) = m + 1
  BY <1>1, FS_AddElement
<1> QED
  BY <1>1, <1>2 DEF kSubset

\* What a subset one larger is worth.
LEMMA Ratio ==
  ASSUME NEW U, IsFiniteSet(U), NEW m \in Nat, m <= Cardinality(U)
  PROVE  (m + 1) * Ways(m + 1, U) = (Cardinality(U) - m) * Ways(m, U)
<1>1. (m + 1) * Ways(m + 1, U) <= (Cardinality(U) - m) * Ways(m, U)
  BY OneLess, Shadow DEF Ways
<1>2. (Cardinality(U) - m) * Ways(m, U) <= (m + 1) * Ways(m + 1, U)
  BY OneMore, Shade DEF Ways
<1>3. /\ (m + 1) * Ways(m + 1, U) \in Int
      /\ (Cardinality(U) - m) * Ways(m, U) \in Int
  <2>1. Ways(m + 1, U) \in Nat /\ Ways(m, U) \in Nat /\ Cardinality(U) \in Nat
    BY WaysNat, FS_CardinalityType
  <2> QED
    BY <2>1
<1> QED
  BY <1>1, <1>2, <1>3

\* Products.
LEMMA TimesUp ==
  ASSUME NEW a \in Nat, NEW b \in Nat, NEW c \in Nat, a <= b
  PROVE  a * c <= b * c /\ c * a <= c * b
OBVIOUS

LEMMA TimesDown ==
  ASSUME NEW a \in Nat, NEW b \in Nat, NEW i \in Nat \ {0}, i * a <= i * b
  PROVE  a <= b
OBVIOUS

LEMMA TimesSame ==
  ASSUME NEW a \in Nat, NEW b \in Nat, NEW i \in Nat \ {0}, i * a = i * b
  PROVE  a = b
<1>1. a <= b /\ b <= a
  BY TimesDown
<1> QED
  BY <1>1

LEMMA DivExact ==
  ASSUME NEW a \in Nat, NEW i \in Nat \ {0}
  PROVE  (i * a) \div i = a
OBVIOUS

\* Only the size of the set counts.
LEMMA WaysSame ==
  ASSUME NEW U, NEW V, IsFiniteSet(U), IsFiniteSet(V), Cardinality(U) = Cardinality(V),
         NEW m \in Int
  PROVE  Ways(m, U) = Ways(m, V)
<1> DEFINE B == {i \in Nat : Ways(i, U) # Ways(i, V)}
           n == Cardinality(U)
<1>1. n \in Nat
  BY FS_CardinalityType
<1>2. SUFFICES ASSUME B # {} PROVE FALSE
  <2>1. CASE m \in Nat
    BY <2>1
  <2>2. CASE m < 0
    BY <2>2, WaysOutside
  <2> QED
    BY <2>1, <2>2
<1>3. PICK i \in B : \A j \in B : i <= j
  <2>1. B \in SUBSET Nat
    OBVIOUS
  <2> HIDE DEF B
  <2> QED
    BY <1>2, <2>1, NatMinimum
<1>4. i \in Nat /\ Ways(i, U) # Ways(i, V)
  BY <1>3
<1>5. i # 0
  BY <1>4, WaysOfNone
<1>6. i <= n
  BY <1>1, <1>4, WaysOutside
<1> DEFINE k == i - 1
<1>7. k \in Nat /\ k <= n /\ k + 1 = i
  BY <1>1, <1>4, <1>5, <1>6
<1>8. Ways(k, U) = Ways(k, V)
  <2>1. k \notin B
    BY <1>3, <1>4, <1>5
  <2> QED
    BY <1>7, <2>1
<1> HIDE DEF k
<1>9. /\ (k + 1) * Ways(k + 1, U) = (n - k) * Ways(k, U)
      /\ (k + 1) * Ways(k + 1, V) = (n - k) * Ways(k, V)
  BY <1>7, Ratio
<1>10. Ways(i, U) \in Nat /\ Ways(i, V) \in Nat /\ i \in Nat \ {0}
  BY <1>4, <1>5, WaysNat
<1>11. i * Ways(i, U) = i * Ways(i, V)
  BY <1>7, <1>8, <1>9
<1> QED
  BY <1>4, <1>10, <1>11, TimesSame

\* A family of subsets of one more element: those without it, and those with it.
Lacking(x, G) == {S \in G : x \notin S}
Completed(x, m, U, G) == {R \in kSubset(m, U) : R \cup {x} \in G}

LEMMA Split ==
  ASSUME NEW U, IsFiniteSet(U), NEW x, x \notin U, NEW m \in Nat,
         NEW G \in SUBSET kSubset(m + 1, U \cup {x})
  PROVE  Cardinality(G) = Cardinality(Lacking(x, G)) + Cardinality(Completed(x, m, U, G))
<1> DEFINE W == U \cup {x}
           Without == Lacking(x, G)
           With == {S \in G : x \in S}
           Both == Without \cup With
           Rest == Completed(x, m, U, G)
           g == [R \in Rest |-> R \cup {x}]
<1>1. IsFiniteSet(W)
  BY FS_AddElement
<1>2. IsFiniteSet(G)
  BY <1>1, FamilyFinite
<1>3. /\ IsFiniteSet(Without) /\ IsFiniteSet(With)
      /\ Without \cap With = {} /\ Both = G
  BY <1>2, FS_Subset DEF Lacking
<1>4. IsFiniteSet(Rest)
  <2>1. Rest \in SUBSET kSubset(m, U)
    BY DEF Completed
  <2> QED
    BY <2>1, FamilyFinite
<1>5. g \in [Rest -> With]
  BY DEF Completed
<1>6. ASSUME NEW R1 \in Rest, NEW R2 \in Rest, g[R1] = g[R2] PROVE R1 = R2
  <2>1. R1 \subseteq U /\ R2 \subseteq U /\ R1 \cup {x} = R2 \cup {x}
    BY <1>6, SubsetsFinite DEF Completed
  <2>2. R1 = (R1 \cup {x}) \ {x} /\ R2 = (R2 \cup {x}) \ {x}
    BY <2>1
  <2> QED
    BY <2>1, <2>2
<1>7. ASSUME NEW S \in With PROVE \E R \in Rest : g[R] = S
  <2>1. S \in kSubset(m + 1, W) /\ x \in S
    OBVIOUS
  <2>2. S \ {x} \in kSubset(m, W)
    BY <1>1, <2>1, OneLess
  <2>3. S \ {x} \in kSubset(m, U)
    BY <2>2 DEF kSubset
  <2>4. (S \ {x}) \cup {x} = S
    BY <2>1
  <2>5. S \ {x} \in Rest /\ g[S \ {x}] = S
    BY <2>3, <2>4 DEF Completed
  <2> QED
    BY <2>5
<1>8. ExistsBijection(Rest, With)
  <2> HIDE DEF g, Rest, With
  <2> QED
    BY <1>5, <1>6, <1>7 DEF ExistsBijection, Bijection, Injection, Surjection, IsInjective
<1>9. Cardinality(Rest) = Cardinality(With)
  <2> HIDE DEF Rest, With
  <2> QED
    BY <1>4, <1>8, FS_Bijection
<1>10. /\ Cardinality(Both)
            = Cardinality(Without) + Cardinality(With) - Cardinality(Without \cap With)
       /\ Cardinality(Without \cap With) = 0
       /\ Cardinality(Without) \in Nat /\ Cardinality(With) \in Nat
  <2> HIDE DEF Without, With
  <2> QED
    BY <1>3, FS_Union, FS_EmptySet, FS_CardinalityType
<1> HIDE DEF Without, With, Both, Rest
<1>11. Cardinality(Both) = Cardinality(Without) + Cardinality(Rest)
  BY <1>9, <1>10
<1> QED
  BY <1>3, <1>11 DEF Without, Rest

\* All of them.
LEMMA WaysSplit ==
  ASSUME NEW U, IsFiniteSet(U), NEW x, x \notin U, NEW m \in Nat
  PROVE  Ways(m + 1, U \cup {x}) = Ways(m + 1, U) + Ways(m, U)
<1> DEFINE G == kSubset(m + 1, U \cup {x})
<1>1. Cardinality(G) = Cardinality(Lacking(x, G)) + Cardinality(Completed(x, m, U, G))
  <2>1. G \in SUBSET kSubset(m + 1, U \cup {x})
    OBVIOUS
  <2> HIDE DEF G
  <2> QED
    BY <2>1, Split
<1>2. Lacking(x, G) = kSubset(m + 1, U)
  BY DEF kSubset, Lacking
<1>3. ASSUME NEW R \in kSubset(m, U) PROVE R \cup {x} \in G
  <2>1. IsFiniteSet(U \cup {x})
    BY FS_AddElement
  <2>2. R \in kSubset(m, U \cup {x}) /\ x \in (U \cup {x}) \ R
    BY DEF kSubset
  <2> QED
    BY <2>1, <2>2, OneMore
<1>4. Completed(x, m, U, G) = kSubset(m, U)
  BY <1>3 DEF Completed
<1> QED
  BY <1>1, <1>2, <1>4 DEF Ways

LEMMA Absorption ==
  ASSUME NEW U, IsFiniteSet(U), NEW x, x \notin U, NEW m \in Nat, m <= Cardinality(U)
  PROVE  (m + 1) * Ways(m + 1, U \cup {x}) = (Cardinality(U) + 1) * Ways(m, U)
<1> DEFINE n == Cardinality(U)
           a == Ways(m + 1, U)
           b == Ways(m, U)
<1>1. n \in Nat /\ a \in Nat /\ b \in Nat
  BY WaysNat, FS_CardinalityType
<1>2. (m + 1) * a = (n - m) * b
  BY Ratio
<1>3. Ways(m + 1, U \cup {x}) = a + b
  BY WaysSplit
<1> HIDE DEF n, a, b
<1>4. (m + 1) * (a + b) = (m + 1) * a + (m + 1) * b
  BY <1>1
<1>5. (n - m) * b + (m + 1) * b = (n + 1) * b
  BY <1>1
<1>6. (m + 1) * (a + b) = (n + 1) * b
  BY <1>2, <1>4, <1>5
<1> QED
  BY <1>3, <1>6 DEF n, b

-----------------------------------------------------------------------------
(* The binomials, and the terms of the sum                                  *)

\* The recursion of the binomials.
Multiplies(n, k, c) ==
  c = [i \in Nat |-> IF i = 0 THEN 1 ELSE (c[i - 1] * (n - k + i)) \div i]

LEMMA CombUnfolds ==
  ASSUME NEW n, NEW k
  PROVE  Comb(n, k) = IF k < 0 \/ k > n THEN 0 ELSE (CHOOSE c : Multiplies(n, k, c))[k]
BY DEF Comb, Multiplies

LEMMA MultipliesStep ==
  ASSUME NEW n, NEW k, NEW c, Multiplies(n, k, c), NEW i \in Nat
  PROVE  c[i] = IF i = 0 THEN 1 ELSE (c[i - 1] * (n - k + i)) \div i
<1> DEFINE C == [j \in Nat |-> IF j = 0 THEN 1 ELSE (c[j - 1] * (n - k + j)) \div j]
<1>1. c = C
  BY DEF Multiplies
<1>2. C[i] = IF i = 0 THEN 1 ELSE (c[i - 1] * (n - k + i)) \div i
  OBVIOUS
<1> HIDE DEF C
<1> QED
  BY <1>1, <1>2

LEMMA IntervalSize ==
  ASSUME NEW n \in Nat
  PROVE  IsFiniteSet(1..n) /\ Cardinality(1..n) = n
BY FS_Interval

\* One element more at each step.
Growing(n, k) == [i \in Nat |-> Ways(i, 1..(n - k + i))]

LEMMA GrowingSteps ==
  ASSUME NEW n \in Nat, NEW k \in Nat, k <= n, NEW i \in Nat
  PROVE  Ways(i, 1..(n - k + i)) =
           IF i = 0 THEN 1 ELSE (Ways(i - 1, 1..(n - k + (i - 1))) * (n - k + i)) \div i
<1>1. CASE i = 0
  <2>1. IsFiniteSet(1..(n - k + i))
    BY IntervalSize
  <2> QED
    BY <1>1, <2>1, WaysOfNone
<1>2. CASE i # 0
  <2> DEFINE r == n - k + (i - 1)
             U == 1..r
             w == Ways(i - 1, U)
  <2>1. r \in Nat /\ r + 1 = n - k + i /\ i - 1 \in Nat /\ i - 1 <= r /\ (i - 1) + 1 = i
    BY <1>2
  <2>2. IsFiniteSet(U) /\ Cardinality(U) = r /\ r + 1 \notin U /\ 1..(r + 1) = U \cup {r + 1}
    BY <2>1, IntervalSize
  <2>3. w \in Nat
    BY <2>2, WaysNat
  <2> HIDE DEF U, r
  <2>4. ((i - 1) + 1) * Ways((i - 1) + 1, U \cup {r + 1}) = (Cardinality(U) + 1) * w
    BY <2>1, <2>2, Absorption
  <2>5. i * Ways(i, 1..(r + 1)) = (r + 1) * w
    BY <2>1, <2>2, <2>4
  <2>6. Ways(i, 1..(r + 1)) \in Nat
    BY <2>1, IntervalSize, WaysNat
  <2> HIDE DEF w
  <2>7. w * (r + 1) = i * Ways(i, 1..(r + 1))
    BY <2>1, <2>3, <2>5
  <2>8. (w * (r + 1)) \div i = Ways(i, 1..(r + 1))
    BY <1>2, <2>6, <2>7, DivExact
  <2> QED
    BY <1>2, <2>1, <2>8 DEF w, U, r
<1> QED
  BY <1>1, <1>2

LEMMA GrowingMultiplies ==
  ASSUME NEW n \in Nat, NEW k \in Nat, k <= n
  PROVE  Multiplies(n, k, Growing(n, k))
<1> DEFINE W == Growing(n, k)
<1>1. \A i \in Nat : W[i] = IF i = 0 THEN 1 ELSE (W[i - 1] * (n - k + i)) \div i
  <2>1. TAKE i \in Nat
  <2>2. W[i] = Ways(i, 1..(n - k + i))
    BY DEF Growing
  <2>3. i # 0 => W[i - 1] = Ways(i - 1, 1..(n - k + (i - 1)))
    BY DEF Growing
  <2> HIDE DEF W
  <2> QED
    BY <2>2, <2>3, GrowingSteps
<1>2. W = [i \in Nat |-> W[i]]
  BY DEF Growing
<1> HIDE DEF W
<1>3. Multiplies(n, k, W)
  BY <1>1, <1>2 DEF Multiplies
<1> QED
  BY <1>3 DEF W

LEMMA MultipliesOnce ==
  ASSUME NEW n \in Nat, NEW k \in Nat, NEW c, Multiplies(n, k, c),
         NEW e, Multiplies(n, k, e)
  PROVE  \A i \in Nat : c[i] = e[i]
<1> DEFINE B == {i \in Nat : c[i] # e[i]}
<1>1. SUFFICES ASSUME B # {} PROVE FALSE
  OBVIOUS
<1>2. PICK i \in B : \A j \in B : i <= j
  <2>1. B \in SUBSET Nat
    OBVIOUS
  <2> HIDE DEF B
  <2> QED
    BY <1>1, <2>1, NatMinimum
<1>3. i \in Nat /\ c[i] # e[i]
  BY <1>2
<1>4. i # 0
  BY <1>3, MultipliesStep
<1>5. c[i - 1] = e[i - 1]
  <2>1. i - 1 \in Nat /\ ~(i <= i - 1)
    BY <1>3, <1>4
  <2>2. i - 1 \notin B
    BY <1>2, <2>1
  <2> QED
    BY <2>1, <2>2
<1>6. /\ c[i] = (c[i - 1] * (n - k + i)) \div i
      /\ e[i] = (e[i - 1] * (n - k + i)) \div i
  BY <1>3, <1>4, MultipliesStep
<1> QED
  BY <1>3, <1>5, <1>6

\* The binomial of the code is the number of subsets.
LEMMA CombCounts ==
  ASSUME NEW U, IsFiniteSet(U), NEW k \in Int
  PROVE  Comb(Cardinality(U), k) = Ways(k, U)
<1> DEFINE n == Cardinality(U)
<1>1. n \in Nat
  BY FS_CardinalityType
<1>2. CASE k < 0 \/ k > n
  BY <1>1, <1>2, CombUnfolds, WaysOutside
<1>3. CASE k >= 0 /\ k <= n
  <2> DEFINE c == CHOOSE c : Multiplies(n, k, c)
  <2>1. k \in Nat /\ k <= n
    BY <1>3
  <2>2. IsFiniteSet(1..n) /\ Cardinality(1..n) = n
    BY <1>1, IntervalSize
  <2> HIDE DEF n
  <2>3. Multiplies(n, k, Growing(n, k))
    BY <1>1, <2>1, GrowingMultiplies
  <2>4. Multiplies(n, k, c)
    BY <2>3
  <2>5. Comb(n, k) = c[k]
    BY <1>1, <2>1, CombUnfolds
  <2> HIDE DEF c
  <2>6. c[k] = Growing(n, k)[k]
    BY <1>1, <2>1, <2>3, <2>4, MultipliesOnce
  <2>7. Growing(n, k)[k] = Ways(k, 1..n)
    <3>1. n - k + k = n
      BY <1>1, <2>1
    <3> QED
      BY <2>1, <3>1 DEF Growing
  <2>8. Ways(k, 1..n) = Ways(k, U)
    BY <2>2, WaysSame DEF n
  <2> QED
    BY <2>5, <2>6, <2>7, <2>8 DEF n
<1> QED
  BY <1>1, <1>2, <1>3

\* The subsets with one number of elements in T.
Exactly(T, k, m, U) == {S \in kSubset(m, U) : Cardinality(S \cap T) = k}

LEMMA ExactlyCounts ==
  ASSUME NEW U, IsFiniteSet(U), NEW T \in SUBSET U, NEW m \in Int, NEW k \in Int
  PROVE  /\ IsFiniteSet(Exactly(T, k, m, U))
         /\ Cardinality(Exactly(T, k, m, U)) = Ways(k, T) * Ways(m - k, U \ T)
<1> DEFINE V == U \ T
           A == kSubset(k, T)
           B == kSubset(m - k, V)
           E == Exactly(T, k, m, U)
           g == [p \in A \X B |-> p[1] \cup p[2]]
<1>1. IsFiniteSet(T) /\ IsFiniteSet(V)
  BY FS_Subset, FS_Difference
<1>2. ASSUME NEW R \in A, NEW Q \in B
      PROVE  R \cup Q \in E /\ (R \cup Q) \cap T = R /\ (R \cup Q) \ T = Q
  <2>1. R \subseteq T /\ IsFiniteSet(R) /\ Cardinality(R) = k
    BY <1>1, SubsetsFinite
  <2>2. Q \subseteq V /\ IsFiniteSet(Q) /\ Cardinality(Q) = m - k
    BY <1>1, SubsetsFinite
  <2>3. (R \cup Q) \cap T = R /\ (R \cup Q) \ T = Q /\ R \cup Q \subseteq U
    BY <2>1, <2>2
  <2>4. Cardinality(R \cap Q) = 0
    <3>1. R \cap Q = {}
      BY <2>1, <2>2
    <3> QED
      BY <3>1, FS_EmptySet
  <2>5. Cardinality(R \cup Q) = Cardinality(R) + Cardinality(Q) - Cardinality(R \cap Q)
    BY <2>1, <2>2, FS_Union
  <2>6. Cardinality(R \cup Q) = m
    BY <2>1, <2>2, <2>4, <2>5
  <2>7. Cardinality((R \cup Q) \cap T) = k
    BY <2>1, <2>3
  <2> QED
    BY <2>3, <2>6, <2>7 DEF Exactly, kSubset
<1>3. ASSUME NEW S \in E
      PROVE  S \cap T \in A /\ S \ T \in B /\ (S \cap T) \cup (S \ T) = S
  <2>1. S \subseteq U /\ IsFiniteSet(S) /\ Cardinality(S) = m /\ Cardinality(S \cap T) = k
    BY SubsetsFinite DEF Exactly
  <2>2. Cardinality(S \ T) = Cardinality(S) - Cardinality(S \cap T)
    BY <2>1, FS_Difference
  <2>3. Cardinality(S \ T) = m - k
    BY <2>1, <2>2
  <2> QED
    BY <2>1, <2>3 DEF kSubset
<1>4. IsFiniteSet(A) /\ IsFiniteSet(B)
  BY <1>1, SubsetsFinite
<1> HIDE DEF A, B, E, V
<1>5. g \in [A \X B -> E]
  BY <1>2
<1>6. ASSUME NEW p \in A \X B, NEW q \in A \X B, g[p] = g[q] PROVE p = q
  <2>1. PICK R1 \in A, Q1 \in B : p = <<R1, Q1>>
    OBVIOUS
  <2>2. PICK R2 \in A, Q2 \in B : q = <<R2, Q2>>
    OBVIOUS
  <2>3. R1 \cup Q1 = R2 \cup Q2
    BY <1>6, <2>1, <2>2
  <2>4. /\ R1 = (R1 \cup Q1) \cap T /\ Q1 = (R1 \cup Q1) \ T
        /\ R2 = (R2 \cup Q2) \cap T /\ Q2 = (R2 \cup Q2) \ T
    BY <1>2
  <2>5. R1 = R2 /\ Q1 = Q2
    BY <2>3, <2>4
  <2> QED
    BY <2>1, <2>2, <2>5
<1>7. ASSUME NEW S \in E PROVE \E p \in A \X B : g[p] = S
  <2>1. <<S \cap T, S \ T>> \in A \X B
    BY <1>3
  <2>2. g[<<S \cap T, S \ T>>] = S
    BY <1>3, <2>1
  <2> QED
    BY <2>1, <2>2
<1> HIDE DEF g
<1>8. ExistsBijection(A \X B, E)
  BY <1>5, <1>6, <1>7 DEF ExistsBijection, Bijection, Injection, Surjection, IsInjective
<1>9. IsFiniteSet(A \X B) /\ Cardinality(A \X B) = Cardinality(A) * Cardinality(B)
  BY <1>4, FS_Product
<1>10. IsFiniteSet(E) /\ Cardinality(E) = Cardinality(A) * Cardinality(B)
  BY <1>8, <1>9, FS_Bijection
<1> QED
  BY <1>10 DEF A, B, E, V, Ways

-----------------------------------------------------------------------------
(* The sum                                                                  *)

\* The subsets with no more than c elements in T.
Few(T, c, m, U) == {S \in kSubset(m, U) : Cardinality(S \cap T) <= c}

LEMMA FewFinite ==
  ASSUME NEW U, IsFiniteSet(U), NEW T, NEW c, NEW m
  PROVE  IsFiniteSet(Few(T, c, m, U)) /\ Cardinality(Few(T, c, m, U)) \in Nat
<1>1. Few(T, c, m, U) \in SUBSET kSubset(m, U)
  BY DEF Few
<1> HIDE DEF Few
<1> QED
  BY <1>1, FamilyFinite

LEMMA MeetNat ==
  ASSUME NEW U, IsFiniteSet(U), NEW T, NEW m, NEW S \in kSubset(m, U)
  PROVE  Cardinality(S \cap T) \in Nat
<1>1. IsFiniteSet(S)
  BY SubsetsFinite
<1> QED
  BY <1>1, FS_Intersection, FS_CardinalityType

LEMMA FewNone ==
  ASSUME NEW U, IsFiniteSet(U), NEW T, NEW c \in Int, c < 0, NEW m
  PROVE  Few(T, c, m, U) = {} /\ Cardinality(Few(T, c, m, U)) = 0
<1>1. ASSUME NEW S \in kSubset(m, U) PROVE ~(Cardinality(S \cap T) <= c)
  <2>1. Cardinality(S \cap T) \in Nat
    BY MeetNat
  <2> QED
    BY <2>1
<1>2. Few(T, c, m, U) = {}
  BY <1>1 DEF Few
<1> QED
  BY <1>2, FS_EmptySet

\* One more of them may be in T.
LEMMA FewSteps ==
  ASSUME NEW U, IsFiniteSet(U), NEW T \in SUBSET U, NEW m \in Int, NEW j \in Nat
  PROVE  Cardinality(Few(T, j, m, U)) =
           Ways(j, T) * Ways(m - j, U \ T) + Cardinality(Few(T, j - 1, m, U))
<1> DEFINE A == Few(T, j - 1, m, U)
           E == Exactly(T, j, m, U)
           Both == A \cup E
<1>1. /\ IsFiniteSet(A) /\ IsFiniteSet(E) /\ Cardinality(A) \in Nat
      /\ Cardinality(E) = Ways(j, T) * Ways(m - j, U \ T)
  <2>1. IsFiniteSet(A) /\ Cardinality(A) \in Nat
    BY FewFinite
  <2>2. j \in Int
    OBVIOUS
  <2> HIDE DEF A
  <2> QED
    BY <2>1, <2>2, ExactlyCounts
<1>2. \A S \in kSubset(m, U) :
        LET x == Cardinality(S \cap T)
        IN  /\ x <= j <=> (x <= j - 1 \/ x = j)
            /\ ~(x <= j - 1 /\ x = j)
  <2>1. TAKE S \in kSubset(m, U)
  <2>2. Cardinality(S \cap T) \in Nat
    BY MeetNat
  <2> QED
    BY <2>2
<1>3. Both = Few(T, j, m, U) /\ A \cap E = {}
  BY <1>2 DEF Few, Exactly
<1> HIDE DEF A, E
<1>4. Cardinality(A \cap E) = 0
  BY <1>3, FS_EmptySet
<1>5. Cardinality(Both) = Cardinality(A) + Cardinality(E) - Cardinality(A \cap E)
  BY <1>1, FS_Union
<1>6. Cardinality(E) \in Nat
  BY <1>1, FS_CardinalityType
<1> HIDE DEF Both
<1>7. Cardinality(Both) = Cardinality(E) + Cardinality(A)
  BY <1>1, <1>4, <1>5, <1>6
<1> QED
  BY <1>1, <1>3, <1>7 DEF A

\* What is added up, and where there is nothing to add.
Adding(f, ks, T, m, U) == \A k \in ks : f[k] = Ways(k, T) * Ways(m - k, U \ T)
NoneBelow(lo, T, m, U) == \A k \in Nat : k < lo => Ways(k, T) * Ways(m - k, U \ T) = 0

LEMMA FewSumsFromNone ==
  ASSUME NEW U, IsFiniteSet(U), NEW T \in SUBSET U, NEW m \in Int, NEW f,
         Adding(f, Nat, T, m, U), NEW c \in Nat
  PROVE  Cardinality(Few(T, c, m, U)) = SumFunctionOnSet(f, 0..c)
<1> DEFINE B == {j \in Nat : Cardinality(Few(T, j, m, U)) # SumFunctionOnSet(f, 0..j)}
<1>1. SUFFICES ASSUME B # {} PROVE FALSE
  OBVIOUS
<1>2. PICK j \in B : \A i \in B : j <= i
  <2>1. B \in SUBSET Nat
    OBVIOUS
  <2> HIDE DEF B
  <2> QED
    BY <1>1, <2>1, NatMinimum
<1>3. j \in Nat /\ Cardinality(Few(T, j, m, U)) # SumFunctionOnSet(f, 0..j)
  BY <1>2
<1> DEFINE before == SumFunctionOnSet(f, 0..(j - 1))
<1>4. Cardinality(Few(T, j - 1, m, U)) = before
  <2>1. CASE j = 0
    <3>1. 0..(j - 1) = {}
      BY <2>1
    <3>2. before = 0
      BY <3>1, SumEmpty
    <3>3. Cardinality(Few(T, j - 1, m, U)) = 0
      BY <2>1, FewNone
    <3> QED
      BY <3>2, <3>3
  <2>2. CASE j # 0
    <3>1. j - 1 \in Nat /\ ~(j <= j - 1)
      BY <1>3, <2>2
    <3>2. j - 1 \notin B
      BY <1>2, <3>1
    <3> QED
      BY <3>1, <3>2
  <2> QED
    BY <2>1, <2>2
<1>5. SumFunctionOnSet(f, 0..j) = f[j] + before
  <2> DEFINE S == 0..j
  <2>1. IsFiniteSet(S) /\ j \in S /\ S \ {j} = 0..(j - 1)
    <3>1. 0 \in Int /\ j \in Int
      BY <1>3
    <3>2. IsFiniteSet(S)
      BY <3>1, FS_Interval
    <3>3. S \ {j} = 0..(j - 1)
      BY <1>3
    <3> QED
      BY <1>3, <3>2, <3>3
  <2>2. \A x \in S : f[x] \in Int
    <3>1. TAKE x \in S
    <3>2. x \in Nat
      BY <1>3
    <3>3. IsFiniteSet(T) /\ IsFiniteSet(U \ T)
      BY FS_Subset, FS_Difference
    <3>4. Ways(x, T) \in Nat /\ Ways(m - x, U \ T) \in Nat
      BY <3>3, WaysNat
    <3> QED
      BY <3>2, <3>4 DEF Adding
  <2> HIDE DEF S
  <2>3. SumFunctionOnSet(f, S) = f[j] + SumFunctionOnSet(f, S \ {j})
    BY <2>1, <2>2, SumPick
  <2> QED
    BY <2>1, <2>3 DEF S
<1>6. f[j] = Ways(j, T) * Ways(m - j, U \ T)
  BY <1>3 DEF Adding
<1>7. Cardinality(Few(T, j, m, U)) = f[j] + before
  BY <1>3, <1>4, <1>6, FewSteps
<1> QED
  BY <1>3, <1>5, <1>7

\* The sum may leave out what is nothing.
LEMMA FewSums ==
  ASSUME NEW U, IsFiniteSet(U), NEW T \in SUBSET U, NEW m \in Int, NEW f,
         NEW lo \in Nat, NEW c \in Nat, lo <= c,
         Adding(f, lo..c, T, m, U), NoneBelow(lo, T, m, U)
  PROVE  Cardinality(Few(T, c, m, U)) = SumFunctionOnSet(f, lo..c)
<1> DEFINE h == [k \in Nat |-> Ways(k, T) * Ways(m - k, U \ T)]
           L == 0..(lo - 1)
           R == lo..c
           All == L \cup R
<1>1. /\ IsFiniteSet(L) /\ IsFiniteSet(R) /\ L \cap R = {} /\ All = 0..c
      /\ L \subseteq Nat /\ R \subseteq Nat /\ \A k \in L : k < lo
  BY FS_Interval
<1>2. \A k \in Nat : h[k] \in Int
  <2>1. TAKE k \in Nat
  <2>2. IsFiniteSet(T) /\ IsFiniteSet(U \ T)
    BY FS_Subset, FS_Difference
  <2>3. Ways(k, T) \in Nat /\ Ways(m - k, U \ T) \in Nat
    BY <2>2, WaysNat
  <2> QED
    BY <2>3
<1>3. \A k \in R : f[k] = Ways(k, T) * Ways(m - k, U \ T)
  BY DEF Adding
<1> HIDE DEF h, L, R
<1>4. Cardinality(Few(T, c, m, U)) = SumFunctionOnSet(h, 0..c)
  <2>1. Adding(h, Nat, T, m, U)
    BY DEF h, Adding
  <2> QED
    BY <2>1, FewSumsFromNone
<1>5. SumFunctionOnSet(h, All) = SumFunctionOnSet(h, L) + SumFunctionOnSet(h, R)
  <2>1. \A k \in L \cup R : h[k] \in Int
    BY <1>1, <1>2
  <2> QED
    BY <1>1, <2>1, SumUnion
<1>6. SumFunctionOnSet(h, L) = 0
  <2>1. \A k \in L : h[k] = 0
    BY <1>1 DEF h, NoneBelow
  <2> QED
    BY <1>1, <2>1, SumZero
<1>7. SumFunctionOnSet(h, R) = SumFunctionOnSet(f, R)
  <2>1. \A k \in R : h[k] = f[k]
    BY <1>1, <1>3 DEF h
  <2> QED
    BY <1>1, <2>1, SumSame
<1>8. SumFunctionOnSet(h, R) \in Int
  <2>1. \A k \in R : h[k] \in Int
    BY <1>1, <1>2
  <2> QED
    BY <1>1, <2>1, SumInt
<1> HIDE DEF All
<1>9. Cardinality(Few(T, c, m, U)) = SumFunctionOnSet(f, R)
  BY <1>1, <1>4, <1>5, <1>6, <1>7, <1>8
<1> QED
  BY <1>9 DEF R

\* What fisher_one_sided computes, by counting.
LEMMA FisherIsFew ==
  ASSUME NEW a \in Nat, NEW b \in Nat, NEW c \in Nat, NEW d \in Nat,
         NEW U, IsFiniteSet(U), NEW T \in SUBSET U,
         Cardinality(U) = a + b + c + d, Cardinality(T) = c + d
  PROVE  /\ FisherOneSided(a, b, c, d).num = Cardinality(Few(T, c, a + c, U))
         /\ FisherOneSided(a, b, c, d).den = Ways(a + c, U)
<1> DEFINE V == U \ T
           lo == Larger(0, (a + c) - (a + b))
           f == Terms(a + b, c + d, a + c, lo..c)
<1>1. IsFiniteSet(T) /\ IsFiniteSet(V)
  BY FS_Subset, FS_Difference
<1>2. Cardinality(V) = a + b
  <2>1. U \cap T = T
    OBVIOUS
  <2>2. Cardinality(V) = Cardinality(U) - Cardinality(U \cap T)
    BY FS_Difference
  <2>3. Cardinality(U \cap T) = c + d
    BY <2>1
  <2> QED
    BY <2>2, <2>3
<1>3. lo \in Nat /\ lo <= c /\ (lo = 0 \/ lo = (a + c) - (a + b))
  BY DEF Larger
<1>4. FisherOneSided(a, b, c, d) =
        [num |-> SumFunctionOnSet(f, lo..c), den |-> Comb((a + b) + (c + d), a + c)]
  BY DEF FisherOneSided
<1> HIDE DEF V, lo
<1>5. Adding(f, lo..c, T, a + c, U)
  <2> SUFFICES \A k \in lo..c : f[k] = Ways(k, T) * Ways((a + c) - k, V)
    BY DEF Adding, V
  <2>1. TAKE k \in lo..c
  <2>2. k \in Int /\ (a + c) - k \in Int
    BY <1>3
  <2>3. f[k] = Comb(c + d, k) * Comb(a + b, (a + c) - k)
    BY DEF Terms
  <2>4. Comb(c + d, k) = Ways(k, T)
    BY <1>1, <2>2, CombCounts
  <2>5. Comb(a + b, (a + c) - k) = Ways((a + c) - k, V)
    BY <1>1, <1>2, <2>2, CombCounts
  <2> QED
    BY <2>3, <2>4, <2>5
<1>6. NoneBelow(lo, T, a + c, U)
  <2> SUFFICES \A k \in Nat : k < lo => Ways(k, T) * Ways((a + c) - k, V) = 0
    BY DEF NoneBelow, V
  <2>1. TAKE k \in Nat
  <2>2. HAVE k < lo
  <2>3. (a + c) - k > Cardinality(V) /\ (a + c) - k \in Int
    BY <1>2, <1>3, <2>2
  <2>4. Ways((a + c) - k, V) = 0
    BY <1>1, <2>3, WaysOutside
  <2>5. Ways(k, T) \in Nat
    BY <1>1, WaysNat
  <2> QED
    BY <2>4, <2>5
<1> HIDE DEF f
<1>7. a + c \in Int
  OBVIOUS
<1>8. Cardinality(Few(T, c, a + c, U)) = SumFunctionOnSet(f, lo..c)
  BY <1>3, <1>5, <1>6, <1>7, FewSums
<1>9. Comb((a + b) + (c + d), a + c) = Ways(a + c, U)
  <2>1. (a + b) + (c + d) = Cardinality(U)
    OBVIOUS
  <2> QED
    BY <1>7, <2>1, CombCounts
<1> QED
  BY <1>4, <1>8, <1>9

-----------------------------------------------------------------------------
(* How the counts move                                                      *)

\* The inequalities of Shadow and Shade, with the ratio of the two sizes taken out.
LEMMA CrossDown ==
  ASSUME NEW i \in Nat \ {0}, NEW j \in Nat, NEW f \in Nat, NEW g \in Nat,
         NEW d \in Nat, NEW e \in Nat, i * e = j * d, i * g <= j * f
  PROVE  g * d <= f * e
<1>1. (i * g) * d <= (j * f) * d
  <2>1. i * g \in Nat /\ j * f \in Nat
    OBVIOUS
  <2> QED
    BY <2>1, TimesUp
<1>2. (i * g) * d = i * (g * d) /\ (j * f) * d = f * (j * d) /\ f * (i * e) = i * (f * e)
  OBVIOUS
<1>3. i * (g * d) <= i * (f * e)
  BY <1>1, <1>2
<1>4. g * d \in Nat /\ f * e \in Nat
  OBVIOUS
<1> QED
  BY <1>3, <1>4, TimesDown

LEMMA CrossUp ==
  ASSUME NEW i \in Nat \ {0}, NEW j \in Nat, NEW f \in Nat, NEW g \in Nat,
         NEW d \in Nat, NEW e \in Nat, i * e = j * d, j * f <= i * g
  PROVE  f * e <= g * d
<1>1. (j * f) * d <= (i * g) * d
  <2>1. i * g \in Nat /\ j * f \in Nat
    OBVIOUS
  <2> QED
    BY <2>1, TimesUp
<1>2. (i * g) * d = i * (g * d) /\ (j * f) * d = f * (j * d) /\ f * (i * e) = i * (f * e)
  OBVIOUS
<1>3. i * (f * e) <= i * (g * d)
  BY <1>1, <1>2
<1>4. g * d \in Nat /\ f * e \in Nat
  OBVIOUS
<1> QED
  BY <1>3, <1>4, TimesDown

\* A larger draw meets T in no more than c elements less often.
LEMMA FewRarer ==
  ASSUME NEW U, IsFiniteSet(U), NEW T, NEW c \in Int, NEW m \in Nat, m <= Cardinality(U)
  PROVE  Cardinality(Few(T, c, m + 1, U)) * Ways(m, U)
           <= Cardinality(Few(T, c, m, U)) * Ways(m + 1, U)
<1> DEFINE A == Few(T, c, m, U)
           B == Few(T, c, m + 1, U)
<1>1. A \in SUBSET kSubset(m, U) /\ B \in SUBSET kSubset(m + 1, U)
  BY DEF Few
<1>2. ASSUME NEW S \in B, NEW x \in S PROVE S \ {x} \in A
  <2>1. S \in kSubset(m + 1, U) /\ Cardinality(S \cap T) <= c
    BY DEF Few
  <2>2. S \ {x} \in kSubset(m, U)
    BY <2>1, OneLess
  <2>3. IsFiniteSet(S \cap T)
    BY <2>1, SubsetsFinite, FS_Intersection
  <2>4. (S \ {x}) \cap T \subseteq S \cap T
    OBVIOUS
  <2>5. /\ Cardinality((S \ {x}) \cap T) \in Nat /\ Cardinality(S \cap T) \in Nat
        /\ Cardinality((S \ {x}) \cap T) <= Cardinality(S \cap T)
    BY <2>3, <2>4, FS_Subset, FS_CardinalityType
  <2>6. Cardinality((S \ {x}) \cap T) <= c
    BY <2>1, <2>5
  <2> QED
    BY <2>2, <2>6 DEF Few
<1>3. /\ Cardinality(A) \in Nat /\ Cardinality(B) \in Nat /\ Cardinality(U) \in Nat
      /\ Ways(m, U) \in Nat /\ Ways(m + 1, U) \in Nat
  BY FewFinite, WaysNat, FS_CardinalityType
<1> HIDE DEF A, B
<1>4. (m + 1) * Cardinality(B) <= (Cardinality(U) - m) * Cardinality(A)
  BY <1>1, <1>2, Shadow
<1>5. (m + 1) * Ways(m + 1, U) = (Cardinality(U) - m) * Ways(m, U)
  BY Ratio
<1>6. m + 1 \in Nat \ {0} /\ Cardinality(U) - m \in Nat
  BY <1>3
<1>7. Cardinality(B) * Ways(m, U) <= Cardinality(A) * Ways(m + 1, U)
  BY <1>3, <1>4, <1>5, <1>6, CrossDown
<1> QED
  BY <1>7 DEF A, B

\* With one more of them allowed, it does so more often.
LEMMA FewCommoner ==
  ASSUME NEW U, IsFiniteSet(U), NEW T, NEW c \in Int, NEW m \in Nat, m <= Cardinality(U)
  PROVE  Cardinality(Few(T, c, m, U)) * Ways(m + 1, U)
           <= Cardinality(Few(T, c + 1, m + 1, U)) * Ways(m, U)
<1> DEFINE A == Few(T, c, m, U)
           B == Few(T, c + 1, m + 1, U)
<1>1. A \in SUBSET kSubset(m, U) /\ B \in SUBSET kSubset(m + 1, U)
  BY DEF Few
<1>2. ASSUME NEW R \in A, NEW x \in U \ R PROVE R \cup {x} \in B
  <2>1. R \in kSubset(m, U) /\ Cardinality(R \cap T) <= c
    BY DEF Few
  <2>2. R \cup {x} \in kSubset(m + 1, U)
    BY <2>1, OneMore
  <2>3. IsFiniteSet(R \cap T)
    BY <2>1, SubsetsFinite, FS_Intersection
  <2>4. (R \cup {x}) \cap T \subseteq (R \cap T) \cup {x}
    OBVIOUS
  <2>5. /\ IsFiniteSet((R \cap T) \cup {x})
        /\ Cardinality((R \cap T) \cup {x}) = Cardinality(R \cap T) + 1
    <3>1. x \notin R \cap T
      OBVIOUS
    <3> QED
      BY <2>3, <3>1, FS_AddElement
  <2>6. /\ Cardinality((R \cup {x}) \cap T) \in Nat /\ Cardinality(R \cap T) \in Nat
        /\ Cardinality((R \cup {x}) \cap T) <= Cardinality((R \cap T) \cup {x})
    BY <2>3, <2>4, <2>5, FS_Subset, FS_CardinalityType
  <2>7. Cardinality((R \cup {x}) \cap T) <= c + 1
    BY <2>1, <2>5, <2>6
  <2> QED
    BY <2>2, <2>7 DEF Few
<1>3. /\ Cardinality(A) \in Nat /\ Cardinality(B) \in Nat /\ Cardinality(U) \in Nat
      /\ Ways(m, U) \in Nat /\ Ways(m + 1, U) \in Nat
  BY FewFinite, WaysNat, FS_CardinalityType
<1> HIDE DEF A, B
<1>4. (Cardinality(U) - m) * Cardinality(A) <= (m + 1) * Cardinality(B)
  BY <1>1, <1>2, Shade
<1>5. (m + 1) * Ways(m + 1, U) = (Cardinality(U) - m) * Ways(m, U)
  BY Ratio
<1>6. m + 1 \in Nat \ {0} /\ Cardinality(U) - m \in Nat
  BY <1>3
<1>7. Cardinality(A) * Ways(m + 1, U) <= Cardinality(B) * Ways(m, U)
  BY <1>3, <1>4, <1>5, <1>6, CrossUp
<1> QED
  BY <1>7 DEF A, B

\* One more trial, outside of the treatment or of it.
LEMMA FewOutside ==
  ASSUME NEW U, IsFiniteSet(U), NEW T \in SUBSET U, NEW x, x \notin U,
         NEW c \in Int, NEW m \in Nat
  PROVE  Cardinality(Few(T, c, m + 1, U \cup {x})) =
           Cardinality(Few(T, c, m + 1, U)) + Cardinality(Few(T, c, m, U))
<1> DEFINE W == U \cup {x}
           G == Few(T, c, m + 1, W)
<1>1. G \in SUBSET kSubset(m + 1, U \cup {x})
  BY DEF Few
<1>2. Lacking(x, G) = Few(T, c, m + 1, U)
  BY DEF Lacking, Few, kSubset
<1>3. \A R \in kSubset(m, U) : R \cup {x} \in kSubset(m + 1, W) /\ (R \cup {x}) \cap T = R \cap T
  <2>1. TAKE R \in kSubset(m, U)
  <2>2. IsFiniteSet(W) /\ R \in kSubset(m, W) /\ x \in W \ R /\ R \subseteq U
    BY FS_AddElement DEF kSubset
  <2>3. R \cup {x} \in kSubset(m + 1, W)
    BY <2>2, OneMore
  <2> QED
    BY <2>2, <2>3
<1>4. Completed(x, m, U, G) = Few(T, c, m, U)
  BY <1>3 DEF Completed, Few
<1> HIDE DEF G
<1>5. Cardinality(G) = Cardinality(Lacking(x, G)) + Cardinality(Completed(x, m, U, G))
  BY <1>1, Split
<1> QED
  BY <1>2, <1>4, <1>5 DEF G

LEMMA FewInside ==
  ASSUME NEW U, IsFiniteSet(U), NEW T \in SUBSET U, NEW x, x \notin U,
         NEW c \in Int, NEW m \in Nat
  PROVE  Cardinality(Few(T \cup {x}, c, m + 1, U \cup {x})) =
           Cardinality(Few(T, c, m + 1, U)) + Cardinality(Few(T, c - 1, m, U))
<1> DEFINE W == U \cup {x}
           G == Few(T \cup {x}, c, m + 1, W)
<1>1. G \in SUBSET kSubset(m + 1, U \cup {x})
  BY DEF Few
<1>2. Lacking(x, G) = Few(T, c, m + 1, U)
  <2>1. \A S : x \notin S => S \cap (T \cup {x}) = S \cap T
    OBVIOUS
  <2> QED
    BY <2>1 DEF Lacking, Few, kSubset
<1>3. \A R \in kSubset(m, U) :
        /\ R \cup {x} \in kSubset(m + 1, W)
        /\ Cardinality((R \cup {x}) \cap (T \cup {x})) <= c <=> Cardinality(R \cap T) <= c - 1
  <2>1. TAKE R \in kSubset(m, U)
  <2>2. IsFiniteSet(W) /\ R \in kSubset(m, W) /\ x \in W \ R /\ R \subseteq U
    BY FS_AddElement DEF kSubset
  <2>3. R \cup {x} \in kSubset(m + 1, W)
    BY <2>2, OneMore
  <2>4. IsFiniteSet(R \cap T) /\ x \notin R \cap T
    BY <2>2, SubsetsFinite, FS_Intersection
  <2>5. Cardinality((R \cap T) \cup {x}) = Cardinality(R \cap T) + 1
    BY <2>4, FS_AddElement
  <2>6. (R \cup {x}) \cap (T \cup {x}) = (R \cap T) \cup {x}
    BY <2>2
  <2>7. Cardinality((R \cup {x}) \cap (T \cup {x})) = Cardinality(R \cap T) + 1
    BY <2>5, <2>6
  <2>8. Cardinality(R \cap T) \in Nat
    BY <2>4, FS_CardinalityType
  <2> QED
    BY <2>3, <2>7, <2>8
<1>4. Completed(x, m, U, G) = Few(T, c - 1, m, U)
  BY <1>3 DEF Completed, Few
<1> HIDE DEF G
<1>5. Cardinality(G) = Cardinality(Lacking(x, G)) + Cardinality(Completed(x, m, U, G))
  BY <1>1, Split
<1> QED
  BY <1>2, <1>4, <1>5 DEF G

\* The draw of nothing.
LEMMA FewOfNone ==
  ASSUME NEW U, IsFiniteSet(U), NEW T, NEW c \in Nat
  PROVE  Cardinality(Few(T, c, 0, U)) = 1
<1>1. Cardinality({} \cap T) <= c
  <2>1. {} \cap T = {} /\ Cardinality({}) = 0
    BY FS_EmptySet
  <2> QED
    BY <2>1
<1>2. Few(T, c, 0, U) = {{}}
  BY <1>1, WaysOfNone DEF Few
<1> QED
  BY <1>2, FS_Singleton

-----------------------------------------------------------------------------
(* A treatment that denies every trial                                      *)

LEMMA WaysSome ==
  ASSUME NEW U, IsFiniteSet(U), NEW m \in Nat, m <= Cardinality(U)
  PROVE  Ways(m, U) >= 1
<1> DEFINE n == Cardinality(U)
           V == 1..n
<1>1. n \in Nat /\ m \in Int
  BY FS_CardinalityType
<1>2. IsFiniteSet(V) /\ Cardinality(V) = n /\ Cardinality(1..m) = m
  BY <1>1, IntervalSize
<1>3. 1..m \in kSubset(m, V)
  BY <1>1, <1>2 DEF kSubset
<1> HIDE DEF V
<1>4. Ways(m, V) \in Nat /\ Ways(m, V) # 0
  BY <1>2, <1>3, WaysNat, SubsetsFinite, FS_EmptySet DEF Ways
<1>5. Ways(m, U) = Ways(m, V)
  BY <1>1, <1>2, WaysSame
<1> QED
  BY <1>4, <1>5

\* Out of twice as many, each element more at least doubles the ratio of the ways.
LEMMA Doubles ==
  ASSUME NEW U, IsFiniteSet(U), NEW V, IsFiniteSet(V), Cardinality(U) = 2 * Cardinality(V),
         NEW m \in Nat, NEW k \in Nat, k * Ways(m, V) <= Ways(m, U)
  PROVE  (2 * k) * Ways(m + 1, V) <= Ways(m + 1, U)
<1> DEFINE n == Cardinality(V)
           x == Ways(m, V)
           y == Ways(m, U)
           p == Ways(m + 1, V)
           q == Ways(m + 1, U)
<1>1. n \in Nat /\ x \in Nat /\ y \in Nat /\ p \in Nat /\ q \in Nat
  BY WaysNat, FS_CardinalityType
<1>2. CASE m > n
  <2>1. p = 0
    <3>1. m + 1 \in Int /\ m + 1 > Cardinality(V)
      BY <1>1, <1>2
    <3> QED
      BY <3>1, WaysOutside
  <2> QED
    BY <1>1, <2>1
<1>3. CASE m <= n
  <2>1. (m + 1) * p = (n - m) * x
    BY <1>3, Ratio
  <2>2. (m + 1) * q = (2 * n - m) * y
    <3>1. m <= Cardinality(U)
      BY <1>1, <1>3
    <3> QED
      BY <3>1, Ratio
  <2>3. k * x <= y
    OBVIOUS
  <2> HIDE DEF n, x, y, p, q
  <2> DEFINE r == n - m
  <2>4. r \in Nat /\ 2 * n - m = 2 * r + m
    BY <1>1, <1>3
  <2> HIDE DEF r
  <2>5. (m + 1) * p = r * x /\ (m + 1) * q = (2 * r + m) * y
    BY <2>1, <2>2, <2>4 DEF r
  <2>6. k * x \in Nat /\ (k * x) * (2 * r) <= y * (2 * r)
    <3>1. k * x \in Nat /\ 2 * r \in Nat
      BY <1>1, <2>4
    <3> QED
      BY <1>1, <2>3, <3>1, TimesUp
  <2>7. y * (2 * r) <= (2 * r + m) * y
    <3>1. (2 * r + m) * y = y * (2 * r) + m * y /\ m * y \in Nat /\ y * (2 * r) \in Nat
      BY <1>1, <2>4
    <3> QED
      BY <3>1
  <2>8. (m + 1) * ((2 * k) * p) = (2 * k) * ((m + 1) * p)
    BY <1>1
  <2>9. (2 * k) * (r * x) = (k * x) * (2 * r)
    BY <1>1, <2>4
  <2>10. (m + 1) * ((2 * k) * p) <= (m + 1) * q
    <3>1. /\ (k * x) * (2 * r) \in Int /\ y * (2 * r) \in Int /\ (2 * r + m) * y \in Int
      BY <1>1, <2>4
    <3> QED
      BY <2>5, <2>6, <2>7, <2>8, <2>9, <3>1
  <2>11. (2 * k) * p \in Nat /\ m + 1 \in Nat \ {0}
    BY <1>1
  <2>12. (2 * k) * p <= q
    BY <1>1, <2>10, <2>11, TimesDown
  <2> QED
    BY <2>12 DEF p, q
<1> QED
  BY <1>1, <1>2, <1>3

LEMMA Rarely ==
  ASSUME NEW U, IsFiniteSet(U), NEW V, IsFiniteSet(V), Cardinality(U) = 2 * Cardinality(V),
         NEW m \in Nat, m >= 5
  PROVE  32 * Ways(m, V) <= Ways(m, U)
<1> DEFINE B == {i \in Nat : i >= 5 /\ ~(32 * Ways(i, V) <= Ways(i, U))}
<1>1. SUFFICES ASSUME B # {} PROVE FALSE
  OBVIOUS
<1>2. PICK i \in B : \A j \in B : i <= j
  <2>1. B \in SUBSET Nat
    OBVIOUS
  <2> HIDE DEF B
  <2> QED
    BY <1>1, <2>1, NatMinimum
<1>3. i \in Nat /\ i >= 5 /\ ~(32 * Ways(i, V) <= Ways(i, U))
  BY <1>2
<1>4. 1 * Ways(0, V) <= Ways(0, U)
  BY WaysOfNone
<1>5. 2 * Ways(1, V) <= Ways(1, U)
  <2>1. (2 * 1) * Ways(0 + 1, V) <= Ways(0 + 1, U)
    BY <1>4, Doubles
  <2> QED
    BY <2>1
<1>6. 4 * Ways(2, V) <= Ways(2, U)
  <2>1. (2 * 2) * Ways(1 + 1, V) <= Ways(1 + 1, U)
    BY <1>5, Doubles
  <2> QED
    BY <2>1
<1>7. 8 * Ways(3, V) <= Ways(3, U)
  <2>1. (2 * 4) * Ways(2 + 1, V) <= Ways(2 + 1, U)
    BY <1>6, Doubles
  <2> QED
    BY <2>1
<1>8. 16 * Ways(4, V) <= Ways(4, U)
  <2>1. (2 * 8) * Ways(3 + 1, V) <= Ways(3 + 1, U)
    BY <1>7, Doubles
  <2> QED
    BY <2>1
<1>9. 32 * Ways(5, V) <= Ways(5, U)
  <2>1. (2 * 16) * Ways(4 + 1, V) <= Ways(4 + 1, U)
    BY <1>8, Doubles
  <2> QED
    BY <2>1
<1>10. i # 5
  BY <1>3, <1>9
<1> DEFINE j == i - 1
<1>11. j \in Nat /\ j >= 5 /\ j + 1 = i /\ ~(i <= j)
  BY <1>3, <1>10
<1>12. 32 * Ways(j, V) <= Ways(j, U)
  <2>1. j \notin B
    BY <1>2, <1>11
  <2> QED
    BY <1>11, <2>1
<1> HIDE DEF j
<1>13. (2 * 32) * Ways(j + 1, V) <= Ways(j + 1, U)
  BY <1>11, <1>12, Doubles
<1>14. Ways(i, V) \in Nat /\ Ways(i, U) \in Nat
  BY WaysNat
<1> QED
  BY <1>3, <1>11, <1>13, <1>14

\* Four out of four, and out of eight.
LEMMA FourOfEight ==
  ASSUME NEW U, IsFiniteSet(U), NEW V, IsFiniteSet(V), Cardinality(U) = 8, Cardinality(V) = 4
  PROVE  Ways(4, V) = 1 /\ Ways(4, U) = 70
<1>1. Ways(0, V) = 1 /\ Ways(0, U) = 1
  BY WaysOfNone
<1>2. \A S : IsFiniteSet(S) =>
        \A m \in Nat : m <= Cardinality(S) =>
          (m + 1) * Ways(m + 1, S) = (Cardinality(S) - m) * Ways(m, S)
  BY Ratio
<1>3. Ways(1, V) = 4 /\ Ways(1, U) = 8
  <2>1. /\ (0 + 1) * Ways(0 + 1, V) = (4 - 0) * Ways(0, V)
        /\ (0 + 1) * Ways(0 + 1, U) = (8 - 0) * Ways(0, U)
    BY <1>2
  <2>2. Ways(1, V) \in Nat /\ Ways(1, U) \in Nat
    BY WaysNat
  <2> QED
    BY <1>1, <2>1, <2>2
<1>4. Ways(2, V) = 6 /\ Ways(2, U) = 28
  <2>1. /\ (1 + 1) * Ways(1 + 1, V) = (4 - 1) * Ways(1, V)
        /\ (1 + 1) * Ways(1 + 1, U) = (8 - 1) * Ways(1, U)
    BY <1>2
  <2>2. Ways(2, V) \in Nat /\ Ways(2, U) \in Nat
    BY WaysNat
  <2> QED
    BY <1>3, <2>1, <2>2
<1>5. Ways(3, V) = 4 /\ Ways(3, U) = 56
  <2>1. /\ (2 + 1) * Ways(2 + 1, V) = (4 - 2) * Ways(2, V)
        /\ (2 + 1) * Ways(2 + 1, U) = (8 - 2) * Ways(2, U)
    BY <1>2
  <2>2. Ways(3, V) \in Nat /\ Ways(3, U) \in Nat
    BY WaysNat
  <2> QED
    BY <1>4, <2>1, <2>2
<1>6. /\ (3 + 1) * Ways(3 + 1, V) = (4 - 3) * Ways(3, V)
      /\ (3 + 1) * Ways(3 + 1, U) = (8 - 3) * Ways(3, U)
  BY <1>2
<1>7. Ways(4, V) \in Nat /\ Ways(4, U) \in Nat
  BY WaysNat
<1> QED
  BY <1>5, <1>6, <1>7

\* A treatment that denies every trial, against as many trials of a control that allows
\* enough of them.
LEMMA DeniedAll ==
  ASSUME NEW n \in Nat, NEW a \in Nat, a <= n, a >= 5 \/ (a = 4 /\ n = 4)
  PROVE  20 * FisherOneSided(a, n - a, 0, n).num < FisherOneSided(a, n - a, 0, n).den
<1> DEFINE U == 1..(2 * n)
           T == 1..n
           V == U \ T
           b == n - a
<1>1. /\ IsFiniteSet(U) /\ Cardinality(U) = 2 * n
      /\ IsFiniteSet(T) /\ Cardinality(T) = n /\ T \in SUBSET U
  <2>1. 2 * n \in Nat
    OBVIOUS
  <2> QED
    BY <2>1, IntervalSize
<1> HIDE DEF U, T
<1>2. IsFiniteSet(V) /\ Cardinality(V) = n
  <2>1. IsFiniteSet(V) /\ Cardinality(V) = Cardinality(U) - Cardinality(U \cap T)
    BY <1>1, FS_Difference
  <2>2. U \cap T = T
    BY <1>1
  <2>3. Cardinality(U \cap T) = n
    BY <1>1, <2>2
  <2> QED
    BY <1>1, <2>1, <2>3
<1> DEFINE z == 0
<1>3. b \in Nat /\ z \in Nat /\ a + b + z + n = 2 * n /\ z + n = n /\ a + z = a
  OBVIOUS
<1> HIDE DEF b, z
<1>4. /\ FisherOneSided(a, b, z, n).num = Cardinality(Few(T, z, a, U))
      /\ FisherOneSided(a, b, z, n).den = Ways(a, U)
  <2>1. Cardinality(U) = a + b + z + n /\ Cardinality(T) = z + n
    BY <1>1, <1>3
  <2>2. /\ FisherOneSided(a, b, z, n).num = Cardinality(Few(T, z, a + z, U))
        /\ FisherOneSided(a, b, z, n).den = Ways(a + z, U)
    BY <1>1, <1>3, <2>1, FisherIsFew
  <2> QED
    BY <1>3, <2>2
<1>5. Ways(a, V) \in Nat /\ Ways(a, U) \in Nat /\ Ways(a, U) >= 1
  BY <1>1, <1>2, WaysNat, WaysSome
<1>6. Cardinality(Few(T, z, a, U)) = Ways(a, V)
  <2>1. a \in Int /\ z - 1 \in Int /\ z - 1 < 0 /\ a - z = a
    BY DEF z
  <2>2. Cardinality(Few(T, z, a, U)) = Ways(z, T) * Ways(a - z, V) + Cardinality(Few(T, z - 1, a, U))
    BY <1>1, <1>3, <2>1, FewSteps
  <2>3. Cardinality(Few(T, z - 1, a, U)) = 0
    BY <1>1, <2>1, FewNone
  <2>4. Ways(z, T) = 1
    BY <1>1, WaysOfNone DEF z
  <2> HIDE DEF V
  <2> QED
    BY <1>5, <2>1, <2>2, <2>3, <2>4
<1> HIDE DEF V
<1>7. 20 * Ways(a, V) < Ways(a, U)
  <2>1. CASE a >= 5
    <3>1. 32 * Ways(a, V) <= Ways(a, U)
      BY <1>1, <1>2, <2>1, Rarely
    <3> QED
      BY <1>5, <3>1
  <2>2. CASE a = 4 /\ n = 4
    <3>1. Ways(4, V) = 1 /\ Ways(4, U) = 70
      BY <1>1, <1>2, <2>2, FourOfEight
    <3> QED
      BY <2>2, <3>1
  <2> QED
    BY <2>1, <2>2
<1> QED
  BY <1>4, <1>6, <1>7 DEF b, z

=============================================================================
