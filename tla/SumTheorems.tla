----------------------------- MODULE SumTheorems -----------------------------
(***************************************************************************)
(* Facts about sums over finite sets, for the proofs about the monthly     *)
(* summary and the binarization of pages.                                  *)
(*                                                                         *)
(* SumFunctionOnSet is a recursive function on the subsets of a set.  That *)
(* it exists, and what it returns, takes an induction over finite sets.    *)
(* Each such induction is an argument by a minimal counterexample.         *)
(***************************************************************************)
EXTENDS FiniteSetsExt, FiniteSetTheorems, WellFoundedInduction, TLAPS

\* Any nonempty collection of subsets of a finite set has a minimal member.
LEMMA MinimalSet ==
  ASSUME NEW S, IsFiniteSet(S), NEW Bad, Bad \subseteq SUBSET S, Bad # {}
  PROVE  \E T \in Bad : \A U \in Bad : ~(U \subseteq T /\ U # T)
<1>1. Bad \subseteq FiniteSubsetsOf(S)
  BY FS_FiniteSubsetsOfFinite
<1>2. PICK T \in Bad : \A U \in Bad : <<U, T>> \notin StrictSubsetOrdering(S)
  BY <1>1, FS_StrictSubsetOrderingWellFounded, WFMin
<1>3. QED
  BY <1>2 DEF StrictSubsetOrdering

-----------------------------------------------------------------------------
(***************************************************************************)
(* The recursive function.                                                 *)
(***************************************************************************)
First(s) == CHOOSE x \in s : TRUE

Body(f, g, s) == IF s = {} THEN 0 ELSE f[First(s)] + g[s \ {First(s)}]

Folds(f, S, g) == g = [s \in SUBSET S |-> Body(f, g, s)]

\* A set that is not empty loses its first element.
LEMMA FirstOf ==
  ASSUME NEW s, s # {}
  PROVE  First(s) \in s
  BY DEF First

\* Two such functions agree wherever both are defined.
LEMMA FoldsUnique ==
  ASSUME NEW f, NEW S, IsFiniteSet(S), NEW T \in SUBSET S,
         NEW g, Folds(f, S, g), NEW h, Folds(f, T, h)
  PROVE  \A U \in SUBSET T : g[U] = h[U]
<1> DEFINE Bad == {U \in SUBSET T : g[U] # h[U]}
<1>1. SUFFICES ASSUME Bad # {} PROVE FALSE
  OBVIOUS
<1>2. IsFiniteSet(T)
  BY FS_Subset
<1>3. PICK U \in Bad : \A V \in Bad : ~(V \subseteq U /\ V # U)
  <2>1. Bad \subseteq SUBSET T
    OBVIOUS
  <2> HIDE DEF Bad
  <2>2. QED
    BY <1>1, <1>2, <2>1, MinimalSet
<1>4. \A V \in SUBSET T : g[V] = Body(f, g, V) /\ h[V] = Body(f, h, V)
  BY DEF Folds
<1>5. U # {}
  BY <1>3, <1>4 DEF Body
<1>6. g[U \ {First(U)}] = h[U \ {First(U)}]
  BY <1>3, <1>5, FirstOf
<1>7. QED
  BY <1>3, <1>4, <1>5, <1>6 DEF Body

\* There is one for every finite set.
LEMMA FoldsExists ==
  ASSUME NEW f, NEW S, IsFiniteSet(S)
  PROVE  \E g : Folds(f, S, g)
<1> DEFINE Bad == {U \in SUBSET S : ~ \E g : Folds(f, U, g)}
<1>1. SUFFICES ASSUME Bad # {} PROVE FALSE
  OBVIOUS
<1>2. PICK U \in Bad : \A V \in Bad : ~(V \subseteq U /\ V # U)
  <2>1. Bad \subseteq SUBSET S
    OBVIOUS
  <2> HIDE DEF Bad
  <2>2. QED
    BY <1>1, <2>1, MinimalSet
<1> DEFINE Fold(V) == CHOOSE g : Folds(f, V, g)
           Value(V) == IF V = {} THEN 0
                       ELSE f[First(V)] + Fold(V \ {First(V)})[V \ {First(V)}]
           h == [V \in SUBSET U |-> Value(V)]
<1> HIDE DEF Fold
<1>3. ASSUME NEW V \in SUBSET U, V # U
      PROVE  Folds(f, V, Fold(V)) /\ Fold(V)[V] = Value(V)
  <2>1. \E g : Folds(f, V, g)
    BY <1>2, <1>3
  <2>2. Folds(f, V, Fold(V))
    BY <2>1 DEF Fold
  <2>3. Fold(V)[V] = Body(f, Fold(V), V)
    BY <2>2 DEF Folds
  <2>4. ASSUME V # {}
        PROVE  Fold(V)[V \ {First(V)}] = Fold(V \ {First(V)})[V \ {First(V)}]
    <3> DEFINE W == V \ {First(V)}
    <3>1. W \in SUBSET V /\ W # V /\ W \in SUBSET U /\ W # U
      BY <1>3, <2>4, FirstOf
    <3>2. \E g : Folds(f, W, g)
      BY <1>2, <3>1
    <3>3. Folds(f, W, Fold(W))
      BY <3>2 DEF Fold
    <3>4. IsFiniteSet(V)
      BY FS_Subset
    <3>5. QED
      BY <2>2, <3>1, <3>3, <3>4, FoldsUnique
  <2>5. QED
    BY <2>2, <2>3, <2>4 DEF Body
<1>4. ASSUME NEW V \in SUBSET U
      PROVE  Value(V) = Body(f, h, V)
  <2>1. CASE V = {}
    BY <2>1 DEF Body
  <2>2. CASE V # {}
    <3> DEFINE W == V \ {First(V)}
    <3>1. W \in SUBSET U /\ W # U
      BY <2>2, FirstOf
    <3>2. h[W] = Value(W)
      BY <3>1
    <3>3. Fold(W)[W] = Value(W)
      BY <1>3, <3>1
    <3>4. QED
      BY <2>2, <3>2, <3>3 DEF Body
  <2>3. QED
    BY <2>1, <2>2
<1>5. Folds(f, U, h)
  BY <1>4 DEF Folds
<1>6. QED
  BY <1>2, <1>5
-----------------------------------------------------------------------------
(***************************************************************************)
(* Sums.                                                                   *)
(***************************************************************************)

\* The sum over a set is the recursive function's value for it.
LEMMA SumFolds ==
  ASSUME NEW f, NEW S, IsFiniteSet(S)
  PROVE  \E g : Folds(f, S, g) /\ SumFunctionOnSet(f, S) = g[S]
<1> DEFINE Fold == CHOOSE g : Folds(f, S, g)
<1>1. Folds(f, S, Fold)
  BY FoldsExists
<1>2. SumFunctionOnSet(f, S) = Fold[S]
  BY DEF SumFunctionOnSet, FoldFunctionOnSet, MapThenFoldSet, Folds, Body, First
<1>3. QED
  BY <1>1, <1>2

\* Nothing sums up to zero.
THEOREM SumEmpty == \A f : SumFunctionOnSet(f, {}) = 0
<1> SUFFICES ASSUME NEW f PROVE SumFunctionOnSet(f, {}) = 0
  OBVIOUS
<1>1. PICK g : Folds(f, {}, g) /\ SumFunctionOnSet(f, {}) = g[{}]
  BY SumFolds, FS_EmptySet
<1>2. QED
  BY <1>1 DEF Folds, Body

\* One element at a time, in the order of the function.
LEMMA SumFirst ==
  ASSUME NEW f, NEW S, IsFiniteSet(S), S # {}
  PROVE  SumFunctionOnSet(f, S)
            = f[First(S)] + SumFunctionOnSet(f, S \ {First(S)})
<1> DEFINE T == S \ {First(S)}
<1>1. IsFiniteSet(T)
  BY FS_Subset
<1>2. PICK g : Folds(f, S, g) /\ SumFunctionOnSet(f, S) = g[S]
  BY SumFolds
<1>3. PICK h : Folds(f, T, h) /\ SumFunctionOnSet(f, T) = h[T]
  BY <1>1, SumFolds
<1>4. g[T] = h[T]
  BY <1>2, <1>3, FoldsUnique
<1>5. g[S] = Body(f, g, S)
  BY <1>2 DEF Folds
<1>6. QED
  BY <1>2, <1>3, <1>4, <1>5 DEF Body

\* The sum of integers is one.
THEOREM SumType ==
  ASSUME NEW S, IsFiniteSet(S), NEW f, \A x \in S : f[x] \in Int
  PROVE  SumFunctionOnSet(f, S) \in Int
<1> DEFINE Bad == {U \in SUBSET S : SumFunctionOnSet(f, U) \notin Int}
<1>1. SUFFICES ASSUME Bad # {} PROVE FALSE
  OBVIOUS
<1>2. PICK U \in Bad : \A V \in Bad : ~(V \subseteq U /\ V # U)
  <2>1. Bad \subseteq SUBSET S
    OBVIOUS
  <2> HIDE DEF Bad
  <2>2. QED
    BY <1>1, <2>1, MinimalSet
<1>3. U # {}
  BY <1>2, SumEmpty
<1>4. U \ {First(U)} \in SUBSET S /\ U \ {First(U)} \notin Bad /\ f[First(U)] \in Int
  BY <1>2, <1>3, FirstOf
<1>5. IsFiniteSet(U)
  BY <1>2, FS_Subset
<1>6. QED
  BY <1>2, <1>3, <1>4, <1>5, SumFirst

\* The order does not matter.
THEOREM SumRemove ==
  ASSUME NEW S, IsFiniteSet(S), NEW f, \A x \in S : f[x] \in Int,
         NEW x \in S
  PROVE  SumFunctionOnSet(f, S) = f[x] + SumFunctionOnSet(f, S \ {x})
<1> DEFINE Sum(U) == SumFunctionOnSet(f, U)
           Bad == {U \in SUBSET S : \E y \in U : Sum(U) # f[y] + Sum(U \ {y})}
<1> HIDE DEF Sum
<1>1. \A U \in SUBSET S : IsFiniteSet(U) /\ Sum(U) \in Int
  BY FS_Subset, SumType DEF Sum
<1>2. \A U \in SUBSET S : U # {} => Sum(U) = f[First(U)] + Sum(U \ {First(U)})
  BY <1>1, SumFirst DEF Sum
<1>3. SUFFICES ASSUME Bad # {} PROVE FALSE
  BY DEF Sum
<1>4. PICK U \in Bad : \A V \in Bad : ~(V \subseteq U /\ V # U)
  <2>1. Bad \subseteq SUBSET S
    OBVIOUS
  <2> HIDE DEF Bad
  <2>2. QED
    BY <1>3, <2>1, MinimalSet
<1>5. PICK y \in U : Sum(U) # f[y] + Sum(U \ {y})
  BY <1>4
<1> DEFINE first == First(U)
           Rest == U \ {first, y}
<1>6. first \in U /\ first # y /\ f[first] \in Int /\ f[y] \in Int
  BY <1>2, <1>4, <1>5, FirstOf
<1>7. Sum(U) = f[first] + Sum(U \ {first})
  BY <1>2, <1>4, <1>6
<1>8. Sum(U \ {first}) = f[y] + Sum(Rest)
  <2>1. U \ {first} \notin Bad /\ y \in U \ {first}
    BY <1>4, <1>5, <1>6
  <2>2. (U \ {first}) \ {y} = Rest
    OBVIOUS
  <2>3. QED
    BY <1>4, <2>1, <2>2
<1>9. Sum(U \ {y}) = f[first] + Sum(Rest)
  <2>1. U \ {y} \notin Bad /\ first \in U \ {y}
    BY <1>4, <1>5, <1>6
  <2>2. (U \ {y}) \ {first} = Rest
    OBVIOUS
  <2>3. QED
    BY <1>4, <2>1, <2>2
<1>10. Sum(Rest) \in Int
  BY <1>1, <1>4
<1>11. QED
  BY <1>5, <1>6, <1>7, <1>8, <1>9, <1>10

\* The sum over two sets without a common element.
THEOREM SumUnion ==
  ASSUME NEW S, IsFiniteSet(S), NEW T, IsFiniteSet(T), S \cap T = {},
         NEW f, \A x \in S \cup T : f[x] \in Int
  PROVE  SumFunctionOnSet(f, S \cup T)
            = SumFunctionOnSet(f, S) + SumFunctionOnSet(f, T)
<1> DEFINE Sum(U) == SumFunctionOnSet(f, U)
           Bad == {U \in SUBSET T : Sum(S \cup U) # Sum(S) + Sum(U)}
<1> HIDE DEF Sum
<1>1. \A U \in SUBSET (S \cup T) : IsFiniteSet(U) /\ Sum(U) \in Int
  BY FS_Union, FS_Subset, SumType DEF Sum
<1>2. \A U \in SUBSET (S \cup T) : \A x \in U : Sum(U) = f[x] + Sum(U \ {x})
  BY <1>1, SumRemove DEF Sum
<1>3. SUFFICES ASSUME Bad # {} PROVE FALSE
  BY DEF Sum
<1>4. PICK U \in Bad : \A V \in Bad : ~(V \subseteq U /\ V # U)
  <2>1. Bad \subseteq SUBSET T
    OBVIOUS
  <2> HIDE DEF Bad
  <2>2. QED
    BY <1>3, <2>1, MinimalSet
<1>5. U # {}
  <2>1. Sum({}) = 0 /\ Sum(S) \in Int /\ S \cup {} = S
    BY <1>1, SumEmpty DEF Sum
  <2>2. Sum(S \cup {}) = Sum(S) + Sum({})
    BY <2>1
  <2>3. {} \notin Bad
    BY <2>2
  <2>4. QED
    BY <1>4, <2>3
<1>6. PICK x \in U : TRUE
  BY <1>5
<1>7. (S \cup U) \ {x} = S \cup (U \ {x})
  BY <1>4
<1>8. Sum(S \cup U) = f[x] + Sum(S \cup (U \ {x})) /\ Sum(U) = f[x] + Sum(U \ {x})
  BY <1>2, <1>4, <1>7
<1>9. Sum(S \cup (U \ {x})) = Sum(S) + Sum(U \ {x})
  BY <1>4
<1>10. Sum(S) \in Int /\ Sum(U \ {x}) \in Int /\ f[x] \in Int
  BY <1>1, <1>4
<1>11. QED
  BY <1>4, <1>8, <1>9, <1>10

\* Only the values matter.
THEOREM SumEqual ==
  ASSUME NEW S, IsFiniteSet(S), NEW f, NEW g,
         \A x \in S : f[x] \in Int /\ f[x] = g[x]
  PROVE  SumFunctionOnSet(f, S) = SumFunctionOnSet(g, S)
<1> DEFINE Bad == {U \in SUBSET S : SumFunctionOnSet(f, U) # SumFunctionOnSet(g, U)}
<1>1. SUFFICES ASSUME Bad # {} PROVE FALSE
  OBVIOUS
<1>2. PICK U \in Bad : \A V \in Bad : ~(V \subseteq U /\ V # U)
  <2>1. Bad \subseteq SUBSET S
    OBVIOUS
  <2> HIDE DEF Bad
  <2>2. QED
    BY <1>1, <2>1, MinimalSet
<1>3. U # {} /\ IsFiniteSet(U)
  BY <1>2, SumEmpty, FS_Subset
<1>4. U \ {First(U)} \notin Bad /\ f[First(U)] = g[First(U)]
  BY <1>2, <1>3, FirstOf
<1>5. QED
  BY <1>2, <1>3, <1>4, SumFirst

\* The sum of natural numbers is one ...
THEOREM SumNatural ==
  ASSUME NEW S, IsFiniteSet(S), NEW f, \A x \in S : f[x] \in Nat
  PROVE  SumFunctionOnSet(f, S) \in Nat
<1> DEFINE Bad == {U \in SUBSET S : SumFunctionOnSet(f, U) \notin Nat}
<1>1. SUFFICES ASSUME Bad # {} PROVE FALSE
  OBVIOUS
<1>2. PICK U \in Bad : \A V \in Bad : ~(V \subseteq U /\ V # U)
  <2>1. Bad \subseteq SUBSET S
    OBVIOUS
  <2> HIDE DEF Bad
  <2>2. QED
    BY <1>1, <2>1, MinimalSet
<1>3. U # {} /\ IsFiniteSet(U)
  <2>1. SumFunctionOnSet(f, {}) \in Nat
    BY SumEmpty
  <2>2. QED
    BY <1>2, <2>1, FS_Subset
<1>4. U \ {First(U)} \in SUBSET S /\ U \ {First(U)} \notin Bad /\ f[First(U)] \in Nat
  BY <1>2, <1>3, FirstOf
<1>5. QED
  BY <1>2, <1>3, <1>4, SumFirst

\* ... and is positive if and only if one of them is.
THEOREM SumPositive ==
  ASSUME NEW S, IsFiniteSet(S), NEW f, \A x \in S : f[x] \in Nat
  PROVE  SumFunctionOnSet(f, S) > 0 <=> \E x \in S : f[x] > 0
<1>1. ASSUME NEW x \in S, f[x] > 0
      PROVE  SumFunctionOnSet(f, S) > 0
  <2>1. SumFunctionOnSet(f, S) = f[x] + SumFunctionOnSet(f, S \ {x})
    BY SumRemove
  <2>2. SumFunctionOnSet(f, S \ {x}) \in Nat
    BY FS_Subset, SumNatural
  <2>3. QED
    BY <1>1, <2>1, <2>2
<1>2. ASSUME \A x \in S : ~(f[x] > 0)
      PROVE  SumFunctionOnSet(f, S) = 0
  <2> DEFINE Bad == {U \in SUBSET S : SumFunctionOnSet(f, U) # 0}
  <2>1. SUFFICES ASSUME Bad # {} PROVE FALSE
    OBVIOUS
  <2>2. PICK U \in Bad : \A V \in Bad : ~(V \subseteq U /\ V # U)
    <3>1. Bad \subseteq SUBSET S
      OBVIOUS
    <3> HIDE DEF Bad
    <3>2. QED
      BY <2>1, <3>1, MinimalSet
  <2>3. U # {} /\ IsFiniteSet(U)
    BY <2>2, SumEmpty, FS_Subset
  <2>4. U \ {First(U)} \notin Bad /\ f[First(U)] = 0
    BY <1>2, <2>2, <2>3, FirstOf
  <2>5. QED
    BY <2>2, <2>3, <2>4, SumFirst
<1>3. QED
  BY <1>1, <1>2

\* Sums are linear ...
THEOREM SumLinear ==
  ASSUME NEW S, IsFiniteSet(S), NEW c \in Int, NEW f, NEW g, NEW h,
         \A x \in S : f[x] \in Int /\ g[x] \in Int /\ h[x] = c * f[x] + g[x]
  PROVE  SumFunctionOnSet(h, S) = c * SumFunctionOnSet(f, S) + SumFunctionOnSet(g, S)
<1> DEFINE F(U) == SumFunctionOnSet(f, U)
           G(U) == SumFunctionOnSet(g, U)
           H(U) == SumFunctionOnSet(h, U)
           Bad == {U \in SUBSET S : H(U) # c * F(U) + G(U)}
<1> HIDE DEF F, G, H
<1>1. SUFFICES ASSUME Bad # {} PROVE FALSE
  BY DEF F, G, H
<1>2. PICK U \in Bad : \A V \in Bad : ~(V \subseteq U /\ V # U)
  <2>1. Bad \subseteq SUBSET S
    OBVIOUS
  <2> HIDE DEF Bad
  <2>2. QED
    BY <1>1, <2>1, MinimalSet
<1>3. U # {} /\ IsFiniteSet(U)
  <2>1. F({}) = 0 /\ G({}) = 0 /\ H({}) = 0
    BY SumEmpty DEF F, G, H
  <2>2. {} \notin Bad
    BY <2>1
  <2>3. QED
    BY <1>2, <2>2, FS_Subset
<1> DEFINE x == First(U)
           T == U \ {x}
<1>4. x \in S /\ T \in SUBSET S /\ T \notin Bad
  BY <1>2, <1>3, FirstOf
<1>5. F(U) = f[x] + F(T) /\ G(U) = g[x] + G(T) /\ H(U) = h[x] + H(T)
  BY <1>3, SumFirst DEF F, G, H
<1>6. F(T) \in Int /\ G(T) \in Int
  BY <1>4, FS_Subset, SumType DEF F, G
<1>7. f[x] \in Int /\ g[x] \in Int /\ h[x] = c * f[x] + g[x]
  BY <1>4
<1>8. H(T) = c * F(T) + G(T) /\ H(U) # c * F(U) + G(U)
  BY <1>2, <1>4
<1>9. c * (f[x] + F(T)) = c * f[x] + c * F(T) /\ c * f[x] \in Int /\ c * F(T) \in Int
  BY <1>6, <1>7
<1>10. QED
  BY <1>5, <1>6, <1>7, <1>8, <1>9

THEOREM SumMultiple ==
  ASSUME NEW S, IsFiniteSet(S), NEW c \in Int, NEW f, NEW h,
         \A x \in S : f[x] \in Int /\ h[x] = c * f[x]
  PROVE  SumFunctionOnSet(h, S) = c * SumFunctionOnSet(f, S)
<1> DEFINE zero == [x \in S |-> 0]
<1>1. \A x \in S : f[x] \in Int /\ zero[x] \in Nat /\ ~(zero[x] > 0)
                    /\ h[x] = c * f[x] + zero[x]
  OBVIOUS
<1> HIDE DEF zero
<1>2. SumFunctionOnSet(zero, S) \in Nat /\ ~(SumFunctionOnSet(zero, S) > 0)
  BY <1>1, SumNatural, SumPositive
<1>3. SumFunctionOnSet(h, S) = c * SumFunctionOnSet(f, S) + SumFunctionOnSet(zero, S)
  BY <1>1, SumLinear
<1>4. c * SumFunctionOnSet(f, S) \in Int
  BY <1>1, SumType
<1>5. QED
  BY <1>2, <1>3, <1>4

\* ... and monotonic.
THEOREM SumMonotonic ==
  ASSUME NEW S, IsFiniteSet(S), NEW f, NEW g,
         \A x \in S : f[x] \in Int /\ g[x] \in Int /\ f[x] <= g[x]
  PROVE  SumFunctionOnSet(f, S) <= SumFunctionOnSet(g, S)
<1> DEFINE d == [x \in S |-> g[x] - f[x]]
<1>1. \A x \in S : d[x] \in Nat /\ g[x] = 1 * f[x] + d[x]
  OBVIOUS
<1> HIDE DEF d
<1>2. SumFunctionOnSet(g, S) = 1 * SumFunctionOnSet(f, S) + SumFunctionOnSet(d, S)
  BY <1>1, SumLinear
<1>3. SumFunctionOnSet(f, S) \in Int /\ SumFunctionOnSet(d, S) \in Nat
  BY <1>1, SumType, SumNatural
<1>4. QED
  BY <1>2, <1>3
=============================================================================
