---------------------------- MODULE FoldTheorems ----------------------------
(***************************************************************************)
(* Induction over finite sets and numbers, and what it shows of folds over *)
(* finite sets, as the community modules define them (an element is        *)
(* chosen, the rest is folded, and the operator combines the two), and of  *)
(* recursive functions.  The operators are constants, so that an INSTANCE  *)
(* has the theorems for the operators of a model.                          *)
(***************************************************************************)
EXTENDS Integers, FiniteSets, FiniteSetTheorems, WellFoundedInduction, TLAPS

CONSTANTS Op(_, _), Choose(_)

\* g is the function that the folds define by recursion over the subsets of S.
Iterates(g, base, f, S) ==
    g = [s \in SUBSET S |->
            IF s = {} THEN base ELSE Op(f[Choose(s)], g[s \ {Choose(s)}])]

Fold(base, f, S) == (CHOOSE g : Iterates(g, base, f, S))[S]

\* Every set that is folded is finite and an element of it is chosen.
Foldable(S) == IsFiniteSet(S) /\ \A T \in SUBSET S : T # {} => Choose(T) \in T

\* What the operator does on a type.
Closed(Typ) == \A t, u \in Typ : Op(t, u) \in Typ
Commutes(Typ) ==
    /\ Closed(Typ)
    /\ \A t, u \in Typ : Op(t, u) = Op(u, t)
    /\ \A t, u, v \in Typ : Op(t, Op(u, v)) = Op(Op(t, u), v)

\* Induction over the subsets of a finite set.  The induction theorems of the
\* library are about predicates; this one is about a set of sets.
LEMMA SubsetInduction ==
    ASSUME NEW S, IsFiniteSet(S), NEW Q, {} \in Q,
           \A T \in SUBSET S : \A x \in S : T \in Q /\ x \notin T => T \cup {x} \in Q
    PROVE  SUBSET S \subseteq Q
  <1> DEFINE R == StrictSubsetOrdering(S)
             B == {T \in SUBSET S : T \notin Q}
  <1>1. IsWellFoundedOn(R, SUBSET S)
    BY FS_StrictSubsetOrderingWellFounded, FS_FiniteSubsetsOfFinite
  <1>2. SUFFICES ASSUME B # {} PROVE FALSE
    OBVIOUS
  <1> HIDE DEF R
  <1>3. PICK T \in B : \A U \in B : ~(<<U, T>> \in R)
    BY <1>1, <1>2, WFMin
  <1>4. PICK x \in T : TRUE
    BY <1>3
  <1>5. T \ {x} \in SUBSET S /\ T \ {x} # T /\ T = (T \ {x}) \cup {x} /\ x \in S
    BY <1>3, <1>4
  <1>6. <<T \ {x}, T>> \in R
    BY <1>3, <1>5 DEF R, StrictSubsetOrdering
  <1>7. T \ {x} \in Q
    BY <1>3, <1>5, <1>6
  <1>8. QED
    BY <1>3, <1>5, <1>7

\* The same for natural numbers.
LEMMA NumberInduction ==
    ASSUME NEW Q, 0 \in Q, \A n \in Nat : n \in Q => n + 1 \in Q
    PROVE  Nat \subseteq Q
  <1> DEFINE R == OpToRel(<, Nat)
             B == {n \in Nat : n \notin Q}
  <1>1. IsWellFoundedOn(R, Nat)
    BY NatLessThanWellFounded
  <1>2. SUFFICES ASSUME B # {} PROVE FALSE
    OBVIOUS
  <1>3. \A m, n \in Nat : <<m, n>> \in R <=> m < n
    BY DEF OpToRel
  <1> HIDE DEF R
  <1>4. PICK n \in B : \A m \in B : ~(<<m, n>> \in R)
    BY <1>1, <1>2, WFMin
  <1>5. n # 0 /\ n - 1 \in Nat /\ n - 1 < n /\ (n - 1) + 1 = n
    BY <1>4
  <1>6. n - 1 \in Q
    BY <1>3, <1>4, <1>5
  <1>7. QED
    BY <1>4, <1>5, <1>6

-----------------------------------------------------------------------------
(* The recursion defines a function. *)

\* The subsets of S with at most n elements.
UpTo(S, n) == {s \in SUBSET S : Cardinality(s) <= n}

\* g is defined by the recursion on the sets of D.
IteratesOn(g, base, f, D) ==
    g = [s \in D |-> IF s = {} THEN base ELSE Op(f[Choose(s)], g[s \ {Choose(s)}])]

LEMMA ChooseSmaller ==
    ASSUME NEW S, Foldable(S), NEW n \in Nat, NEW s \in UpTo(S, n + 1), s # {}
    PROVE  s \ {Choose(s)} \in UpTo(S, n)
  <1>1. Choose(s) \in s /\ IsFiniteSet(s)
    BY FS_Subset DEF Foldable, UpTo
  <1>2. Cardinality(s) \in Nat /\ Cardinality(s \ {Choose(s)}) = Cardinality(s) - 1
    BY <1>1, FS_RemoveElement, FS_CardinalityType
  <1>3. QED
    BY <1>2 DEF UpTo

LEMMA FoldExists ==
    ASSUME NEW S, Foldable(S), NEW base, NEW f
    PROVE  \E g : Iterates(g, base, f, S)
  <1> DEFINE Q == {n \in Nat : \E g : IteratesOn(g, base, f, UpTo(S, n))}
  <1>1. 0 \in Q
    <2> DEFINE g == [s \in UpTo(S, 0) |-> base]
    <2>1. \A s \in UpTo(S, 0) : s = {}
      BY FS_Subset, FS_EmptySet, FS_CardinalityType DEF UpTo, Foldable
    <2>2. g = [s \in UpTo(S, 0) |->
                 IF s = {} THEN base ELSE Op(f[Choose(s)], g[s \ {Choose(s)}])]
      BY <2>1
    <2>3. QED
      BY <2>2 DEF IteratesOn
  <1>2. ASSUME NEW n \in Nat, n \in Q PROVE n + 1 \in Q
    <2>1. PICK g : IteratesOn(g, base, f, UpTo(S, n))
      BY <1>2
    <2> DEFINE h == [s \in UpTo(S, n + 1) |->
                       IF s = {} THEN base ELSE Op(f[Choose(s)], g[s \ {Choose(s)}])]
    <2>2. ASSUME NEW s \in UpTo(S, n) PROVE h[s] = g[s]
      <3>1. s \in UpTo(S, n + 1)
        BY FS_Subset, FS_CardinalityType DEF UpTo, Foldable
      <3>2. g[s] = IF s = {} THEN base ELSE Op(f[Choose(s)], g[s \ {Choose(s)}])
        BY <2>1, Zenon DEF IteratesOn
      <3>3. QED
        BY <3>1, <3>2
    <2>3. ASSUME NEW s \in UpTo(S, n + 1), s # {}
          PROVE  h[s \ {Choose(s)}] = g[s \ {Choose(s)}]
      BY <2>2, <2>3, ChooseSmaller
    <2>4. h = [s \in UpTo(S, n + 1) |->
                 IF s = {} THEN base ELSE Op(f[Choose(s)], h[s \ {Choose(s)}])]
      <3> DEFINE k == [s \in UpTo(S, n + 1) |->
                 IF s = {} THEN base ELSE Op(f[Choose(s)], h[s \ {Choose(s)}])]
      <3>1. ASSUME NEW s \in UpTo(S, n + 1) PROVE h[s] = k[s]
        <4>1. CASE s = {}
          BY <4>1
        <4>2. CASE s # {}
          <5>1. h[s] = Op(f[Choose(s)], g[s \ {Choose(s)}])
            BY <4>2
          <5>2. k[s] = Op(f[Choose(s)], h[s \ {Choose(s)}])
            BY <4>2
          <5>3. h[s \ {Choose(s)}] = g[s \ {Choose(s)}]
            BY <2>3, <4>2
          <5> HIDE DEF h, k
          <5>4. QED
            BY <5>1, <5>2, <5>3
        <4>3. QED
          BY <4>1, <4>2
      <3>2. QED
        BY <3>1
    <2> HIDE DEF h
    <2>5. IteratesOn(h, base, f, UpTo(S, n + 1))
      BY <2>4 DEF IteratesOn
    <2>6. QED
      BY <2>5
  <1>3. Nat \subseteq Q
    <2> HIDE DEF Q
    <2> QED BY <1>1, <1>2, NumberInduction
  <1>4. Cardinality(S) \in Nat /\ UpTo(S, Cardinality(S)) = SUBSET S
    BY FS_Subset, FS_CardinalityType DEF UpTo, Foldable
  <1>5. PICK g : IteratesOn(g, base, f, UpTo(S, Cardinality(S)))
    BY <1>3, <1>4
  <1>6. Iterates(g, base, f, S)
    BY <1>4, <1>5 DEF Iterates, IteratesOn
  <1>7. QED
    BY <1>6

\* What the recursion says of one set.
LEMMA IteratesAt ==
    ASSUME NEW S, NEW base, NEW f, NEW g, Iterates(g, base, f, S), NEW s \in SUBSET S
    PROVE  g[s] = IF s = {} THEN base ELSE Op(f[Choose(s)], g[s \ {Choose(s)}])
  BY Zenon DEF Iterates

\* Two such functions, even over different sets and for functions f and h that
\* agree where it matters, agree.
LEMMA IteratesUnique ==
    ASSUME NEW S, NEW U, Foldable(S), Foldable(U), NEW base, NEW f, NEW h,
           NEW g, NEW k, Iterates(g, base, f, S), Iterates(k, base, h, U),
           NEW T \in SUBSET (S \cap U), \A x \in T : f[x] = h[x]
    PROVE  g[T] = k[T]
  <1> DEFINE Q == {n \in Nat : \A W \in UpTo(T, n) : g[W] = k[W]}
  <1>1. Foldable(T)
    BY FS_Subset DEF Foldable
  <1>2. {} \in SUBSET S /\ {} \in SUBSET U /\ g[{}] = base /\ k[{}] = base
    BY IteratesAt
  <1>3. \A W \in SUBSET T : W # {} =>
            /\ g[W] = Op(f[Choose(W)], g[W \ {Choose(W)}])
            /\ k[W] = Op(h[Choose(W)], k[W \ {Choose(W)}])
    <2>1. TAKE W \in SUBSET T
    <2>2. W \in SUBSET S /\ W \in SUBSET U
      OBVIOUS
    <2>3. HAVE W # {}
    <2>4. QED
      BY <2>2, <2>3, IteratesAt
  <1>4. 0 \in Q
    <2>1. \A W \in UpTo(T, 0) : W = {}
      BY <1>1, FS_Subset, FS_EmptySet, FS_CardinalityType DEF UpTo, Foldable
    <2>2. QED
      BY <1>2, <2>1
  <1>5. ASSUME NEW n \in Nat, n \in Q PROVE n + 1 \in Q
    <2>1. ASSUME NEW W \in UpTo(T, n + 1), W # {} PROVE g[W] = k[W]
      <3>1. W # {} /\ W \in SUBSET T
        BY <2>1 DEF UpTo
      <3>2. f[Choose(W)] = h[Choose(W)]
        BY <1>1, <2>1, <3>1 DEF Foldable
      <3>3. g[W \ {Choose(W)}] = k[W \ {Choose(W)}]
        BY <1>1, <1>5, <2>1, ChooseSmaller
      <3>4. QED
        BY <1>3, <3>1, <3>2, <3>3
    <2>2. QED
      BY <1>2, <2>1
  <1>6. Nat \subseteq Q
    <2> HIDE DEF Q
    <2> QED BY <1>4, <1>5, NumberInduction
  <1>7. Cardinality(T) \in Nat /\ T \in UpTo(T, Cardinality(T))
    BY <1>1, FS_CardinalityType DEF UpTo, Foldable
  <1>8. QED
    BY <1>6, <1>7

LEMMA FoldIterates ==
    ASSUME NEW S, Foldable(S), NEW base, NEW f
    PROVE  \E g : Iterates(g, base, f, S) /\ Fold(base, f, S) = g[S]
  <1>1. Iterates(CHOOSE g : Iterates(g, base, f, S), base, f, S)
    BY FoldExists, Zenon
  <1>2. QED
    BY <1>1, Zenon DEF Fold

-----------------------------------------------------------------------------
(* What a fold returns. *)

\* Whatever function satisfies the recursion has the fold as its value at S.
THEOREM FoldIs ==
    ASSUME NEW S, Foldable(S), NEW base, NEW f, NEW g, Iterates(g, base, f, S)
    PROVE  g[S] = Fold(base, f, S)
  <1>1. PICK k : Iterates(k, base, f, S) /\ Fold(base, f, S) = k[S]
    BY FoldIterates
  <1>2. QED
    BY <1>1, IteratesUnique

\* The fold of no element is the base.
THEOREM FoldEmpty ==
    ASSUME NEW base, NEW f PROVE Fold(base, f, {}) = base
  <1>1. Foldable({})
    BY FS_EmptySet DEF Foldable
  <1>2. QED
    BY <1>1, FoldIterates, IteratesAt

\* The fold of a set is the chosen element combined with the fold of the others.
THEOREM FoldStep ==
    ASSUME NEW S, Foldable(S), S # {}, NEW base, NEW f
    PROVE  Fold(base, f, S) = Op(f[Choose(S)], Fold(base, f, S \ {Choose(S)}))
  <1> DEFINE T == S \ {Choose(S)}
  <1>1. PICK g : Iterates(g, base, f, S) /\ Fold(base, f, S) = g[S]
    BY FoldIterates
  <1>2. Foldable(T) /\ T \in SUBSET S /\ T \in SUBSET T
    BY FS_Subset DEF Foldable
  <1>3. PICK k : Iterates(k, base, f, T) /\ Fold(base, f, T) = k[T]
    BY <1>2, FoldIterates
  <1>4. g[T] = k[T]
    BY <1>1, <1>2, <1>3, IteratesUnique
  <1>5. g[S] = Op(f[Choose(S)], g[T])
    BY <1>1, IteratesAt
  <1>6. QED
    BY <1>1, <1>3, <1>4, <1>5

\* The fold depends on the values at the elements of the set only.
THEOREM FoldSame ==
    ASSUME NEW S, Foldable(S), NEW base, NEW f, NEW h, \A x \in S : f[x] = h[x]
    PROVE  Fold(base, f, S) = Fold(base, h, S)
  <1>1. PICK g : Iterates(g, base, f, S) /\ Fold(base, f, S) = g[S]
    BY FoldIterates
  <1>2. PICK k : Iterates(k, base, h, S) /\ Fold(base, h, S) = k[S]
    BY FoldIterates
  <1>3. QED
    BY <1>1, <1>2, IteratesUnique

\* The fold of values of a type has that type.
THEOREM FoldType ==
    ASSUME NEW Typ, Closed(Typ), NEW base \in Typ,
           NEW S, Foldable(S), NEW f, \A x \in S : f[x] \in Typ
    PROVE  Fold(base, f, S) \in Typ
  <1> DEFINE Q == {n \in Nat : \A T \in UpTo(S, n) : Fold(base, f, T) \in Typ}
  <1>1. \A T \in SUBSET S : Foldable(T)
    BY FS_Subset DEF Foldable
  <1>2. 0 \in Q
    <2>1. \A T \in UpTo(S, 0) : T = {}
      BY FS_Subset, FS_EmptySet, FS_CardinalityType DEF UpTo, Foldable
    <2>2. QED
      BY <2>1, FoldEmpty
  <1>3. ASSUME NEW n \in Nat, n \in Q PROVE n + 1 \in Q
    <2>1. ASSUME NEW T \in UpTo(S, n + 1), T # {} PROVE Fold(base, f, T) \in Typ
      <3>1. T \in SUBSET S /\ Foldable(T)
        BY <1>1 DEF UpTo
      <3>2. f[Choose(T)] \in Typ
        BY <2>1, <3>1 DEF Foldable
      <3>3. Fold(base, f, T \ {Choose(T)}) \in Typ
        BY <1>3, <2>1, ChooseSmaller
      <3>4. Fold(base, f, T) = Op(f[Choose(T)], Fold(base, f, T \ {Choose(T)}))
        BY <2>1, <3>1, FoldStep
      <3>5. QED
        BY <3>2, <3>3, <3>4 DEF Closed
    <2>2. Fold(base, f, {}) \in Typ
      BY FoldEmpty
    <2>3. ASSUME NEW T \in UpTo(S, n + 1) PROVE Fold(base, f, T) \in Typ
      <3>1. CASE T = {}
        BY <2>2, <3>1
      <3>2. CASE T # {}
        BY <2>1, <3>2
      <3>3. QED
        BY <3>1, <3>2
    <2>4. QED
      BY <2>3
  <1>4. Nat \subseteq Q
    <2> HIDE DEF Q
    <2> QED BY <1>2, <1>3, NumberInduction
  <1>5. Cardinality(S) \in Nat /\ S \in UpTo(S, Cardinality(S))
    BY FS_CardinalityType DEF UpTo, Foldable
  <1>6. QED
    BY <1>4, <1>5

\* If the operator is commutative and associative, any element may be taken out
\* of the set first.
THEOREM FoldAny ==
    ASSUME NEW Typ, Commutes(Typ), NEW base \in Typ,
           NEW S, Foldable(S), NEW f, \A x \in S : f[x] \in Typ, NEW e \in S
    PROVE  Fold(base, f, S) = Op(f[e], Fold(base, f, S \ {e}))
  <1> DEFINE F(T) == Fold(base, f, T)
             Q == {n \in Nat : \A T \in UpTo(S, n) : \A x \in T :
                                   F(T) = Op(f[x], F(T \ {x}))}
  <1>1. \A T \in SUBSET S : Foldable(T) /\ F(T) \in Typ
    BY FoldType, FS_Subset DEF Foldable, Commutes, Closed
  <1>2. ASSUME NEW t \in Typ, NEW u \in Typ, NEW v \in Typ
        PROVE  Op(t, Op(u, v)) = Op(u, Op(t, v))
    <2>1. Op(t, Op(u, v)) = Op(Op(t, u), v)
      BY DEF Commutes
    <2>2. Op(t, u) = Op(u, t)
      BY DEF Commutes
    <2>3. Op(u, Op(t, v)) = Op(Op(u, t), v)
      BY DEF Commutes
    <2>4. QED
      BY <2>1, <2>2, <2>3, Zenon
  <1>3. 0 \in Q
    <2>1. \A T \in UpTo(S, 0) : T = {}
      BY FS_Subset, FS_EmptySet, FS_CardinalityType DEF UpTo, Foldable
    <2>2. QED
      BY <2>1
  <1>4. ASSUME NEW n \in Nat, n \in Q PROVE n + 1 \in Q
    <2>1. ASSUME NEW T \in UpTo(S, n + 1), NEW x \in T
          PROVE  F(T) = Op(f[x], F(T \ {x}))
      <3> DEFINE c == Choose(T)
                 V == T \ {c}
                 W == V \ {x}
      <3>1. T # {} /\ T \in SUBSET S /\ Foldable(T) /\ c \in T
        BY <1>1 DEF UpTo, Foldable
      <3>2. F(T) = Op(f[c], F(V))
        BY <3>1, FoldStep
      <3>3. CASE x = c
        BY <3>2, <3>3
      <3>4. CASE x # c
        <4>1. V \in UpTo(S, n) /\ x \in V
          BY <3>1, <3>4, ChooseSmaller
        <4>2. T \ {x} \in UpTo(S, n) /\ c \in T \ {x} /\ (T \ {x}) \ {c} = W
          <5>1. IsFiniteSet(T)
            BY <3>1 DEF Foldable
          <5>2. Cardinality(T \ {x}) = Cardinality(T) - 1 /\ Cardinality(T) \in Nat
            BY <5>1, FS_RemoveElement, FS_CardinalityType
          <5>3. T \ {x} \in UpTo(S, n)
            BY <5>2 DEF UpTo
          <5>4. QED
            BY <3>1, <3>4, <5>3
        <4>3. F(V) = Op(f[x], F(W))
          BY <1>4, <4>1
        <4>4. F(T \ {x}) = Op(f[c], F(W))
          <5>1. F(T \ {x}) = Op(f[c], F((T \ {x}) \ {c}))
            BY <1>4, <4>2
          <5>2. QED
            BY <4>2, <5>1
        <4>5. f[c] \in Typ /\ f[x] \in Typ /\ F(W) \in Typ
          BY <1>1, <3>1
        <4> HIDE DEF F, W, V, c
        <4>6. Op(f[c], Op(f[x], F(W))) = Op(f[x], Op(f[c], F(W)))
          BY <1>2, <4>5
        <4>7. QED
          BY <3>2, <4>3, <4>4, <4>6
      <3>5. QED
        BY <3>3, <3>4
    <2>2. QED
      BY <2>1
  <1>5. Nat \subseteq Q
    <2> HIDE DEF Q
    <2> QED BY <1>3, <1>4, NumberInduction
  <1>6. Cardinality(S) \in Nat /\ S \in UpTo(S, Cardinality(S))
    BY FS_CardinalityType DEF UpTo, Foldable
  <1>7. QED
    BY <1>5, <1>6

\* Functions that differ at one element of the set have folds that differ in the
\* part of that element only.
THEOREM FoldUpdate ==
    ASSUME NEW Typ, Commutes(Typ), NEW base \in Typ, NEW S, Foldable(S),
           NEW f, \A x \in S : f[x] \in Typ, NEW h, NEW e \in S, h[e] \in Typ,
           \A x \in S \ {e} : h[x] = f[x]
    PROVE  \E r \in Typ : /\ Fold(base, f, S) = Op(f[e], r)
                          /\ Fold(base, h, S) = Op(h[e], r)
  <1> DEFINE T == S \ {e}
  <1>1. Foldable(T)
    BY FS_Subset DEF Foldable
  <1>2. Fold(base, f, T) \in Typ
    BY <1>1, FoldType DEF Commutes
  <1>3. Fold(base, h, T) = Fold(base, f, T)
    BY <1>1, FoldSame
  <1>4. \A x \in S : h[x] \in Typ
    OBVIOUS
  <1> HIDE DEF T
  <1>5. Fold(base, f, S) = Op(f[e], Fold(base, f, T))
    BY FoldAny DEF T
  <1>6. Fold(base, h, S) = Op(h[e], Fold(base, h, T))
    BY <1>4, FoldAny DEF T
  <1>7. QED
    BY <1>2, <1>3, <1>5, <1>6

\* If the operator's result is in N only when its second argument is, then a fold
\* in N started from a base in N.
THEOREM FoldBack ==
    ASSUME NEW N, \A t, u : Op(t, u) \in N => u \in N,
           NEW S, Foldable(S), NEW base, NEW f, Fold(base, f, S) \in N
    PROVE  base \in N
  <1> DEFINE Q == {n \in Nat : \A T \in UpTo(S, n) : Fold(base, f, T) \in N => base \in N}
  <1>1. \A T \in SUBSET S : Foldable(T)
    BY FS_Subset DEF Foldable
  <1>2. 0 \in Q
    <2>1. \A T \in UpTo(S, 0) : T = {}
      BY FS_Subset, FS_EmptySet, FS_CardinalityType DEF UpTo, Foldable
    <2>2. QED
      BY <2>1, FoldEmpty
  <1>3. ASSUME NEW n \in Nat, n \in Q PROVE n + 1 \in Q
    <2>1. ASSUME NEW T \in UpTo(S, n + 1), T # {}, Fold(base, f, T) \in N
          PROVE  base \in N
      <3>1. T \in SUBSET S /\ Foldable(T)
        BY <1>1 DEF UpTo
      <3>2. Fold(base, f, T) = Op(f[Choose(T)], Fold(base, f, T \ {Choose(T)}))
        BY <2>1, <3>1, FoldStep
      <3>3. Fold(base, f, T \ {Choose(T)}) \in N
        BY <2>1, <3>2
      <3>4. T \ {Choose(T)} \in UpTo(S, n)
        BY <2>1, ChooseSmaller
      <3>5. QED
        BY <1>3, <3>3, <3>4
    <2>2. ASSUME NEW T \in UpTo(S, n + 1), Fold(base, f, T) \in N PROVE base \in N
      <3>1. CASE T = {}
        BY <2>2, <3>1, FoldEmpty
      <3>2. CASE T # {}
        BY <2>1, <2>2, <3>2
      <3>3. QED
        BY <3>1, <3>2
    <2>3. QED
      BY <2>2
  <1>4. Nat \subseteq Q
    <2> HIDE DEF Q
    <2> QED BY <1>2, <1>3, NumberInduction
  <1>5. Cardinality(S) \in Nat /\ S \in UpTo(S, Cardinality(S))
    BY FS_CardinalityType DEF UpTo, Foldable
  <1>6. QED
    BY <1>4, <1>5

-----------------------------------------------------------------------------
(* Functions defined by recursion over an interval. *)

Recurses(g, base, f, lo, hi) ==
    g = [k \in lo .. hi |-> IF k = lo THEN base ELSE Op(f[k], g[k - 1])]

\* There is such a function, whatever the operator does.
THEOREM RecursionExists ==
    ASSUME NEW lo \in Int, NEW hi \in Int, NEW base, NEW f
    PROVE  \E g : Recurses(g, base, f, lo, hi)
  <1> DEFINE Q == {n \in Nat : \E g : Recurses(g, base, f, lo, lo + n - 1)}
  <1>1. 0 \in Q
    <2> DEFINE g == [k \in lo .. lo + 0 - 1 |-> base]
    <2>1. g = [k \in lo .. lo + 0 - 1 |-> IF k = lo THEN base ELSE Op(f[k], g[k - 1])]
      OBVIOUS
    <2>2. QED
      BY <2>1 DEF Recurses
  <1>2. ASSUME NEW n \in Nat, n \in Q PROVE n + 1 \in Q
    <2>1. PICK g : Recurses(g, base, f, lo, lo + n - 1)
      BY <1>2
    <2> DEFINE D == lo .. lo + (n + 1) - 1
               h == [k \in D |-> IF k = lo THEN base ELSE Op(f[k], g[k - 1])]
               m == [k \in D |-> IF k = lo THEN base ELSE Op(f[k], h[k - 1])]
    <2>2. ASSUME NEW k \in lo .. lo + n - 1 PROVE h[k] = g[k]
      <3>1. g[k] = IF k = lo THEN base ELSE Op(f[k], g[k - 1])
        BY <2>1, Zenon DEF Recurses
      <3>2. k \in D
        OBVIOUS
      <3>3. QED
        BY <3>1, <3>2
    <2>3. ASSUME NEW k \in D PROVE h[k] = m[k]
      <3>1. CASE k = lo
        BY <3>1
      <3>2. CASE k # lo
        <4>1. k - 1 \in lo .. lo + n - 1
          BY <3>2
        <4>2. h[k - 1] = g[k - 1]
          BY <2>2, <4>1
        <4>3. h[k] = Op(f[k], g[k - 1])
          BY <3>2
        <4>4. m[k] = Op(f[k], h[k - 1])
          BY <3>2
        <4> HIDE DEF h, m
        <4>5. QED
          BY <4>2, <4>3, <4>4
      <3>3. QED
        BY <3>1, <3>2
    <2>4. h = m
      BY <2>3
    <2> HIDE DEF h
    <2>5. Recurses(h, base, f, lo, lo + (n + 1) - 1)
      BY <2>4 DEF Recurses
    <2>6. QED
      BY <2>5
  <1>3. Nat \subseteq Q
    <2> HIDE DEF Q
    <2> QED BY <1>1, <1>2, NumberInduction
  <1>4. CASE hi >= lo
    <2>1. hi - lo + 1 \in Nat /\ lo + (hi - lo + 1) - 1 = hi
      BY <1>4
    <2>2. QED
      BY <1>3, <2>1
  <1>5. CASE hi < lo
    <2>1. lo .. hi = lo .. lo + 0 - 1
      BY <1>5
    <2>2. PICK g : Recurses(g, base, f, lo, lo + 0 - 1)
      BY <1>1
    <2>3. Recurses(g, base, f, lo, hi)
      BY <2>1, <2>2 DEF Recurses
    <2>4. QED
      BY <2>3
  <1>6. QED
    BY <1>4, <1>5

\* What such a function satisfies.
THEOREM RecursionAt ==
    ASSUME NEW lo \in Int, NEW hi \in Int, NEW base, NEW f, NEW g,
           Recurses(g, base, f, lo, hi)
    PROVE  /\ DOMAIN g = lo .. hi
           /\ lo <= hi => g[lo] = base
           /\ \A k \in lo + 1 .. hi : g[k] = Op(f[k], g[k - 1])
  <1>1. DOMAIN g = lo .. hi
    BY Zenon DEF Recurses
  <1>2. ASSUME NEW k \in lo .. hi
        PROVE  g[k] = IF k = lo THEN base ELSE Op(f[k], g[k - 1])
    BY Zenon DEF Recurses
  <1>3. lo <= hi => g[lo] = base
    BY <1>2
  <1>4. ASSUME NEW k \in lo + 1 .. hi PROVE g[k] = Op(f[k], g[k - 1])
    <2>1. k \in lo .. hi /\ k # lo
      OBVIOUS
    <2>2. QED
      BY <1>2, <2>1
  <1>5. QED
    BY <1>1, <1>3, <1>4

-----------------------------------------------------------------------------
\* A finite set of integers has a largest element, which the folds over sequences
\* choose, and a smallest one.
LEMMA LargestExists ==
    ASSUME NEW S, IsFiniteSet(S), S \subseteq Int, S # {}
    PROVE  \E x \in S : \A y \in S : x >= y
  <1> DEFINE Q == {T \in SUBSET S : T # {} => \E x \in T : \A y \in T : x >= y}
  <1>1. {} \in Q
    OBVIOUS
  <1>2. ASSUME NEW T \in SUBSET S, NEW e \in S, T \in Q, e \notin T
        PROVE  T \cup {e} \in Q
    <2>1. CASE T = {}
      BY <2>1
    <2>2. CASE T # {}
      <3>1. PICK x \in T : \A y \in T : x >= y
        BY <1>2, <2>2
      <3>2. CASE x >= e
        BY <3>1, <3>2
      <3>3. CASE e >= x
        BY <3>1, <3>3
      <3>4. QED
        BY <3>2, <3>3
    <2>3. QED
      BY <2>1, <2>2
  <1>3. SUBSET S \subseteq Q
    <2> HIDE DEF Q
    <2> QED BY <1>1, <1>2, SubsetInduction
  <1>4. QED
    BY <1>3

LEMMA SmallestExists ==
    ASSUME NEW S, IsFiniteSet(S), S \subseteq Int, S # {}
    PROVE  \E x \in S : \A y \in S : x <= y
  <1> DEFINE Q == {T \in SUBSET S : T # {} => \E x \in T : \A y \in T : x <= y}
  <1>1. {} \in Q
    OBVIOUS
  <1>2. ASSUME NEW T \in SUBSET S, NEW e \in S, T \in Q, e \notin T
        PROVE  T \cup {e} \in Q
    <2>1. CASE T = {}
      BY <2>1
    <2>2. CASE T # {}
      <3>1. PICK x \in T : \A y \in T : x <= y
        BY <1>2, <2>2
      <3>2. CASE x <= e
        BY <3>1, <3>2
      <3>3. CASE e <= x
        BY <3>1, <3>3
      <3>4. QED
        BY <3>2, <3>3
    <2>3. QED
      BY <2>1, <2>2
  <1>3. SUBSET S \subseteq Q
    <2> HIDE DEF Q
    <2> QED BY <1>1, <1>2, SubsetInduction
  <1>4. QED
    BY <1>3

-----------------------------------------------------------------------------
\* Powers of two, from the number of subsets: the provers know no exponentiation.
LEMMA PowerOfTwo ==
    ASSUME NEW n \in Nat PROVE 2^n \in Nat \ {0} /\ 2^(n + 1) = 2 * 2^n
  <1> DEFINE S == 1 .. n
             T == 1 .. n + 1
             A == SUBSET S
             B == {X \cup {n + 1} : X \in A}
             F == [X \in A |-> X \cup {n + 1}]
  <1>1. /\ IsFiniteSet(S) /\ Cardinality(S) = n /\ S \in A
        /\ IsFiniteSet(T) /\ Cardinality(T) = n + 1
    BY FS_Interval
  <1>2. /\ 2^n = Cardinality(A) /\ IsFiniteSet(A)
        /\ 2^(n + 1) = Cardinality(SUBSET T)
    BY <1>1, FS_SUBSET
  <1>3. T = S \cup {n + 1} /\ n + 1 \notin S
    OBVIOUS
  <1> HIDE DEF S, T
  <1>4. SUBSET T = A \cup B /\ A \cap B = {}
    <2>1. ASSUME NEW X \in SUBSET T PROVE X \in A \cup B
      <3>1. CASE n + 1 \in X
        <4>1. X \ {n + 1} \in A /\ X = (X \ {n + 1}) \cup {n + 1}
          BY <1>3, <3>1
        <4>2. QED
          BY <4>1
      <3>2. CASE n + 1 \notin X
        BY <1>3, <3>2
      <3>3. QED
        BY <3>1, <3>2
    <2>2. A \subseteq SUBSET T
      BY <1>3
    <2>3. B \subseteq SUBSET T
      BY <1>3
    <2>4. \A X \in B : n + 1 \in X
      OBVIOUS
    <2>5. \A X \in A : n + 1 \notin X
      BY <1>3
    <2> HIDE DEF A, B
    <2>6. QED
      BY <2>1, <2>2, <2>3, <2>4, <2>5
  <1>5. F \in Bijection(A, B)
    <2>1. \A X, Y \in A : F[X] = F[Y] => X = Y
      <3>1. SUFFICES ASSUME NEW X \in A, NEW Y \in A, F[X] = F[Y] PROVE X = Y
        OBVIOUS
      <3>2. X = F[X] \ {n + 1} /\ Y = F[Y] \ {n + 1}
        BY <1>3
      <3>3. QED
        BY <3>1, <3>2
    <2>2. F \in [A -> B] /\ \A Y \in B : \E X \in A : F[X] = Y
      OBVIOUS
    <2> HIDE DEF F, A, B
    <2>3. QED
      BY <2>1, <2>2 DEF Bijection, Injection, Surjection, IsInjective
  <1>6. IsFiniteSet(B) /\ Cardinality(B) = Cardinality(A)
    BY <1>2, <1>5, FS_Bijection DEF ExistsBijection
  <1>7. Cardinality(A) \in Nat /\ Cardinality(A) # 0
    BY <1>1, <1>2, FS_CardinalityType, FS_EmptySet
  <1> DEFINE p == 2^n
             q == 2^(n + 1)
  <1>8. p = Cardinality(A) /\ q = Cardinality(SUBSET T)
    BY <1>2
  <1> HIDE DEF A, B, p, q
  <1>9. Cardinality(A \cup B) = Cardinality(A) + Cardinality(B) - Cardinality(A \cap B)
    BY <1>2, <1>6, FS_Union
  <1>10. Cardinality(A \cap B) = 0
    BY <1>4, FS_EmptySet
  <1>11. Cardinality(SUBSET T) = Cardinality(A \cup B)
    BY <1>4, Zenon
  <1>12. p \in Nat \ {0} /\ q = 2 * p
    BY <1>6, <1>7, <1>8, <1>9, <1>10, <1>11
  <1>13. QED
    BY <1>12 DEF p, q
=============================================================================
