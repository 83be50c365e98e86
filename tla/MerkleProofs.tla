---------------------------- MODULE MerkleProofs ----------------------------
(***************************************************************************)
(* Theorems about Merkle trees of any list of leaves, and about            *)
(* MerkleNFTAllowlist for any accounts, lists, prices and limits and       *)
(* whatever receivers do during a mint.                                    *)
(***************************************************************************)
EXTENDS MerkleNFTAllowlist, MCMerkle, FiniteSetTheorems, TLAPS

-----------------------------------------------------------------------------
(* The folds and recursions that the tree is defined by. *)

Largest(S) == Max(S)
PairWith(node, hash) == HashPair(hash, node)
Climb(x, tree) == IF Len(tree) > 1 THEN Above(tree) ELSE tree
ClimbPromoted(x, tree) == IF Len(tree) > 1 THEN AbovePromoted(tree) ELSE tree
Joined(piece, sequence) == sequence \o piece

Hashing == INSTANCE FoldTheorems WITH Op <- PairWith, Choose <- Largest
Climbing == INSTANCE FoldTheorems WITH Op <- Climb, Choose <- Largest
Promoting == INSTANCE FoldTheorems WITH Op <- ClimbPromoted, Choose <- Largest
Joining == INSTANCE FoldTheorems WITH Op <- Joined, Choose <- Largest

LEMMA VerifyIsFold ==
    ASSUME NEW proof, NEW root, NEW leaf
    PROVE  VerifyMerkleProof(proof, root, leaf) <=>
              Hashing!Fold(leaf, proof, DOMAIN proof) = root
  BY Zenon DEF VerifyMerkleProof, FoldLeft, MapThenFoldSet, Hashing!Fold,
               Hashing!Iterates, PairWith, Largest

LEMMA HashingFoldable ==
    ASSUME NEW S, IsFiniteSet(S), S \subseteq Int
    PROVE  Hashing!Foldable(S)
  <1>1. Hashing!IsFiniteSet(S)
    BY DEF IsFiniteSet, Hashing!IsFiniteSet
  <1>2. ASSUME NEW T \in SUBSET S, T # {} PROVE Largest(T) \in T
    <2>1. Hashing!IsFiniteSet(T)
      <3>1. IsFiniteSet(T)
        BY FS_Subset
      <3>2. QED
        BY <3>1 DEF IsFiniteSet, Hashing!IsFiniteSet
    <2>2. \E x \in T : \A y \in T : x >= y
      BY <1>2, <2>1, Hashing!LargestExists
    <2>3. QED
      BY <2>2 DEF Largest, Max
  <1>3. QED
    BY <1>1, <1>2 DEF Hashing!Foldable

\* The levels of merkletreejs.
Promoted(ls) == LevelsBy(ls, AbovePromoted)

LEMMA LevelsRecurse ==
    ASSUME NEW ls, Len(ls) \in Int
    PROVE  Climbing!Recurses(Levels(ls), ls, ls, 1, Len(ls))
  <1>1. Levels(ls) = CHOOSE g : Climbing!Recurses(g, ls, ls, 1, Len(ls))
    BY Zenon DEF Levels, LevelsBy, Climbing!Recurses, Climb
  <1>2. \E g : Climbing!Recurses(g, ls, ls, 1, Len(ls))
    BY Climbing!RecursionExists
  <1>3. QED
    BY <1>1, <1>2, Zenon

LEMMA PromotedRecurse ==
    ASSUME NEW ls, Len(ls) \in Int
    PROVE  Promoting!Recurses(Promoted(ls), ls, ls, 1, Len(ls))
  <1>1. Promoted(ls) = CHOOSE g : Promoting!Recurses(g, ls, ls, 1, Len(ls))
    BY Zenon DEF Promoted, LevelsBy, Promoting!Recurses, ClimbPromoted
  <1>2. \E g : Promoting!Recurses(g, ls, ls, 1, Len(ls))
    BY Promoting!RecursionExists
  <1>3. QED
    BY <1>1, <1>2, Zenon

-----------------------------------------------------------------------------
(* Levels. *)

Proper(tree) == tree \in Seq(Range(tree)) /\ Len(tree) \in Nat \ {0}

LEMMA ProperLen == ASSUME NEW tree, Proper(tree) PROVE Len(tree) \in Nat \ {0}
  BY DEF Proper

LEMMA LevelsAt ==
    ASSUME NEW ls, Len(ls) \in Nat \ {0}
    PROVE  /\ DOMAIN Levels(ls) = 1 .. Len(ls)
           /\ Levels(ls)[1] = ls
           /\ \A k \in 2 .. Len(ls) : Levels(ls)[k] = Climb(ls[k], Levels(ls)[k - 1])
  BY LevelsRecurse, Climbing!RecursionAt

LEMMA PromotedAt ==
    ASSUME NEW ls, Len(ls) \in Nat \ {0}
    PROVE  /\ DOMAIN Promoted(ls) = 1 .. Len(ls)
           /\ Promoted(ls)[1] = ls
           /\ \A k \in 2 .. Len(ls) :
                 Promoted(ls)[k] = ClimbPromoted(ls[k], Promoted(ls)[k - 1])
  BY PromotedRecurse, Promoting!RecursionAt

LEMMA FunctionIsProper ==
    ASSUME NEW n \in Nat \ {0}, NEW t, DOMAIN t = 1 .. n, t = [k \in 1 .. n |-> t[k]]
    PROVE  Proper(t) /\ Len(t) = n
  <1>1. t \in [1 .. n -> Range(t)]
    BY DEF Range
  <1>2. QED
    BY <1>1 DEF Proper

LEMMA Halves ==
    ASSUME NEW n \in Nat \ {0, 1}
    PROVE  LET m == (n + 1) \div 2
           IN  /\ m \in Nat \ {0} /\ m < n
               /\ \A k \in 1 .. m : 2 * k - 1 \in 1 .. n
  OBVIOUS

\* Every node of the level above is a node of this level or a pair of them.
LEMMA AboveIs ==
    ASSUME NEW tree, Proper(tree), Len(tree) > 1
    PROVE  /\ Proper(Above(tree)) /\ Len(Above(tree)) = (Len(tree) + 1) \div 2
           /\ Len(Above(tree)) < Len(tree)
           /\ \A x \in Range(Above(tree)) : \E y, z \in Range(tree) : x = HashPair(y, z)
  <1> DEFINE m == (Len(tree) + 1) \div 2
  <1>1. /\ m \in Nat \ {0} /\ m < Len(tree) /\ \A k \in 1 .. m : 2 * k - 1 \in 1 .. Len(tree)
        /\ DOMAIN tree = 1 .. Len(tree) /\ Len(tree) \in Nat
    BY Halves DEF Proper
  <1>2. Above(tree) = [k \in 1 .. m |-> HashPair(tree[2 * k - 1], Right(tree, 2 * k - 1))]
    BY DEF Above
  <1> HIDE DEF m
  <1>3. Proper(Above(tree)) /\ Len(Above(tree)) = m
    BY <1>1, <1>2, FunctionIsProper
  <1>4. ASSUME NEW k \in 1 .. m
        PROVE  tree[2 * k - 1] \in Range(tree) /\ Right(tree, 2 * k - 1) \in Range(tree)
    <2> DEFINE j == 2 * k - 1
    <2>1. j \in 1 .. Len(tree)
      BY <1>1
    <2> HIDE DEF j
    <2>2. tree[j] \in Range(tree) /\ Right(tree, j) \in Range(tree)
      BY <1>1, <2>1 DEF Right, Range
    <2>3. QED
      BY <2>2 DEF j
  <1>5. QED
    BY <1>1, <1>2, <1>3, <1>4 DEF Range, m

LEMMA AbovePromotedIs ==
    ASSUME NEW tree, Proper(tree), Len(tree) > 1
    PROVE  /\ Proper(AbovePromoted(tree))
           /\ Len(AbovePromoted(tree)) = (Len(tree) + 1) \div 2
           /\ Len(AbovePromoted(tree)) < Len(tree)
           /\ \A x \in Range(AbovePromoted(tree)) :
                \/ x \in Range(tree)
                \/ \E y, z \in Range(tree) : x = HashPair(y, z)
  <1> DEFINE m == (Len(tree) + 1) \div 2
  <1>1. /\ m \in Nat \ {0} /\ m < Len(tree) /\ \A k \in 1 .. m : 2 * k - 1 \in 1 .. Len(tree)
        /\ DOMAIN tree = 1 .. Len(tree) /\ Len(tree) \in Nat
    BY Halves DEF Proper
  <1>2. AbovePromoted(tree) =
          [k \in 1 .. m |-> IF 2 * k <= Len(tree) THEN HashPair(tree[2 * k - 1], tree[2 * k])
                            ELSE tree[2 * k - 1]]
    BY DEF AbovePromoted
  <1> HIDE DEF m
  <1>3. Proper(AbovePromoted(tree)) /\ Len(AbovePromoted(tree)) = m
    BY <1>1, <1>2, FunctionIsProper
  <1>4. ASSUME NEW k \in 1 .. m
        PROVE  /\ tree[2 * k - 1] \in Range(tree)
               /\ 2 * k <= Len(tree) => tree[2 * k] \in Range(tree)
    <2> DEFINE j == 2 * k - 1
    <2>1. j \in 1 .. Len(tree) /\ 2 * k = j + 1
      BY <1>1
    <2> HIDE DEF j
    <2>2. tree[j] \in Range(tree) /\ j + 1 <= Len(tree) => tree[j + 1] \in Range(tree)
      BY <1>1, <2>1 DEF Range
    <2>3. QED
      BY <1>1, <2>1, <2>2 DEF j, Range
  <1>5. QED
    BY <1>1, <1>2, <1>3, <1>4 DEF Range, m

\* What is common to the levels of the two libraries.
RisesFrom(above, tree) ==
    /\ Proper(above)
    /\ Len(above) = 1 \/ Len(above) < Len(tree)
    /\ \A x \in Range(above) :
          x \in Range(tree) \/ \E y, z \in Range(tree) : x = HashPair(y, z)

Rises(level, ls) ==
    /\ DOMAIN level = 1 .. Len(ls) /\ level[1] = ls
    /\ \A k \in 2 .. Len(ls) : Proper(level[k - 1]) => RisesFrom(level[k], level[k - 1])

LEMMA ClimbRises ==
    ASSUME NEW tree, Proper(tree), NEW x
    PROVE  RisesFrom(Climb(x, tree), tree) /\ RisesFrom(ClimbPromoted(x, tree), tree)
  <1>1. CASE Len(tree) > 1
    BY <1>1, AboveIs, AbovePromotedIs DEF Climb, ClimbPromoted, RisesFrom
  <1>2. CASE ~(Len(tree) > 1)
    <2>1. Len(tree) = 1
      BY <1>2, ProperLen
    <2>2. QED
      BY <2>1 DEF Climb, ClimbPromoted, RisesFrom
  <1>3. QED
    BY <1>1, <1>2

LEMMA LevelsRise ==
    ASSUME NEW ls, Proper(ls)
    PROVE  Rises(Levels(ls), ls) /\ Rises(Promoted(ls), ls)
  <1>1. Len(ls) \in Nat \ {0}
    BY DEF Proper
  <1>2. Rises(Levels(ls), ls)
    BY <1>1, LevelsAt, ClimbRises DEF Rises
  <1>3. Rises(Promoted(ls), ls)
    BY <1>1, PromotedAt, ClimbRises DEF Rises
  <1>4. QED
    BY <1>2, <1>3

-----------------------------------------------------------------------------
(* Soundness: what a verified proof starts from is a node of the tree. *)

NodesOf(level) == UNION {Range(level[k]) : k \in DOMAIN level}

NotPaired(S) == \A x \in S : \A y, z : x # HashPair(y, z)

LEMMA LevelsProper ==
    ASSUME NEW ls, Proper(ls), NEW level, Rises(level, ls)
    PROVE  /\ \A k \in 1 .. Len(ls) :
                 Proper(level[k]) /\ (Len(level[k]) = 1 \/ Len(level[k]) <= Len(ls) + 1 - k)
           /\ Len(level[Len(ls)]) = 1
  <1> DEFINE Short(k) == Len(level[k]) = 1 \/ Len(level[k]) <= Len(ls) + 1 - k
             Q == {n \in Nat : n + 1 \in 1 .. Len(ls) =>
                                 Proper(level[n + 1]) /\ Short(n + 1)}
  <1>1. Len(ls) \in Nat \ {0}
    BY DEF Proper
  <1>2. 0 \in Q
    BY <1>1 DEF Rises
  <1>3. ASSUME NEW n \in Nat, n \in Q PROVE n + 1 \in Q
    <2>1. ASSUME (n + 1) + 1 \in 1 .. Len(ls)
          PROVE  Proper(level[(n + 1) + 1]) /\ Short((n + 1) + 1)
      <3>1. (n + 1) + 1 \in 2 .. Len(ls) /\ ((n + 1) + 1) - 1 = n + 1 /\ n + 1 \in 1 .. Len(ls)
        BY <1>1, <2>1
      <3>2. Proper(level[n + 1]) /\ Short(n + 1)
        BY <1>3, <3>1
      <3>3. RisesFrom(level[(n + 1) + 1], level[n + 1])
        BY <3>1, <3>2 DEF Rises
      <3>4. Len(level[n + 1]) \in Nat \ {0} /\ Len(level[(n + 1) + 1]) \in Nat \ {0}
        BY <3>2, <3>3 DEF Proper, RisesFrom
      <3>5. Short((n + 1) + 1)
        <4> DEFINE a == Len(level[n + 1])
                   b == Len(level[(n + 1) + 1])
        <4>1. /\ a \in Nat \ {0} /\ b \in Nat \ {0}
              /\ a = 1 \/ a <= Len(ls) + 1 - (n + 1)
              /\ b = 1 \/ b < a
          BY <3>2, <3>3, <3>4 DEF RisesFrom
        <4> HIDE DEF a, b
        <4>2. b = 1 \/ b <= Len(ls) + 1 - ((n + 1) + 1)
          BY <1>1, <4>1
        <4>3. QED
          BY <4>2 DEF b
      <3>6. QED
        BY <3>3, <3>5 DEF RisesFrom
    <2>2. QED
      BY <2>1
  <1>4. Nat \subseteq Q
    <2> HIDE DEF Q
    <2> QED BY <1>2, <1>3, Hashing!NumberInduction
  <1>5. ASSUME NEW k \in 1 .. Len(ls) PROVE Proper(level[k]) /\ Short(k)
    <2>1. k - 1 \in Nat /\ (k - 1) + 1 = k
      OBVIOUS
    <2>2. QED
      BY <1>4, <2>1
  <1>6. Len(level[Len(ls)]) = 1
    <2>1. Proper(level[Len(ls)]) /\ Short(Len(ls))
      BY <1>1, <1>5
    <2> DEFINE a == Len(level[Len(ls)])
    <2>2. a \in Nat \ {0} /\ (a = 1 \/ a <= Len(ls) + 1 - Len(ls))
      BY <2>1, ProperLen
    <2> HIDE DEF a
    <2>3. a = 1
      BY <1>1, <2>2
    <2>4. QED
      BY <2>3 DEF a
  <1>7. QED
    BY <1>5, <1>6

\* A node is a leaf or a pair of nodes.
LEMMA NodesPaired ==
    ASSUME NEW ls, Proper(ls), NEW level, Rises(level, ls), NEW x \in NodesOf(level)
    PROVE  x \in Range(ls) \/ \E y, z \in NodesOf(level) : x = HashPair(y, z)
  <1> DEFINE Good(n) == \A u \in Range(level[n + 1]) :
                           \/ u \in Range(ls)
                           \/ \E y, z \in NodesOf(level) : u = HashPair(y, z)
             Q == {n \in Nat : n + 1 \in 1 .. Len(ls) => Good(n)}
  <1>1. 0 \in Q
    BY DEF Rises
  <1>2. ASSUME NEW n \in Nat, n \in Q PROVE n + 1 \in Q
    <2>1. ASSUME (n + 1) + 1 \in 1 .. Len(ls) PROVE Good(n + 1)
      <3>1. /\ (n + 1) + 1 \in 2 .. Len(ls) /\ ((n + 1) + 1) - 1 = n + 1
            /\ n + 1 \in 1 .. Len(ls) /\ n + 1 \in DOMAIN level
        BY <2>1 DEF Proper, Rises
      <3>2. Proper(level[n + 1])
        BY <3>1, LevelsProper
      <3>3. \A u \in Range(level[(n + 1) + 1]) :
               \/ u \in Range(level[n + 1])
               \/ \E y, z \in Range(level[n + 1]) : u = HashPair(y, z)
        <4>1. RisesFrom(level[(n + 1) + 1], level[n + 1])
          BY <3>1, <3>2 DEF Rises
        <4>2. QED
          BY <4>1 DEF RisesFrom
      <3>4. Range(level[n + 1]) \subseteq NodesOf(level)
        BY <3>1 DEF NodesOf
      <3>5. Good(n)
        BY <1>2, <3>1
      <3>6. QED
        BY <3>3, <3>4, <3>5
    <2> HIDE DEF Good
    <2>2. QED
      BY <2>1
  <1>3. Nat \subseteq Q
    <2> HIDE DEF Q
    <2> QED BY <1>1, <1>2, Hashing!NumberInduction
  <1>4. PICK k \in 1 .. Len(ls) : x \in Range(level[k])
    BY DEF NodesOf, Rises
  <1>5. k - 1 \in Nat /\ (k - 1) + 1 = k
    BY <1>4
  <1>6. Good(k - 1)
    BY <1>3, <1>4, <1>5
  <1>7. QED
    BY <1>4, <1>5, <1>6

LEMMA SoundIn ==
    ASSUME NEW ls, Proper(ls), NEW level, Rises(level, ls), NEW leaf, NEW proof,
           NotPaired(Range(ls) \cup {leaf}),
           IsFiniteSet(DOMAIN proof), DOMAIN proof \subseteq Int,
           VerifyMerkleProof(proof, level[Len(ls)][1], leaf)
    PROVE  leaf \in Range(ls)
  <1> DEFINE N == NodesOf(level)
             root == level[Len(ls)][1]
  <1>1. Len(ls) \in 1 .. Len(ls) /\ Len(ls) \in DOMAIN level
    BY DEF Proper, Rises
  <1>2. Proper(level[Len(ls)])
    BY <1>1, LevelsProper
  <1>3. root \in Range(level[Len(ls)])
    BY <1>2 DEF Proper, Range
  <1>4. root \in N
    BY <1>1, <1>3 DEF NodesOf
  <1>5. ASSUME NEW t, NEW u, PairWith(t, u) \in N PROVE u \in N
    <2>1. HashPair(u, t) \in N /\ HashPair(u, t) \notin Range(ls)
      BY <1>5 DEF PairWith, NotPaired
    <2>2. PICK y \in N, z \in N : HashPair(u, t) = HashPair(y, z)
      BY <2>1, NodesPaired
    <2>3. HashPair(u, t).pair = {u, t} /\ HashPair(y, z).pair = {y, z}
      BY DEF HashPair
    <2>4. {u, t} = {y, z}
      BY <2>2, <2>3
    <2>5. QED
      BY <2>2, <2>4
  <1>6. Hashing!Foldable(DOMAIN proof)
    BY HashingFoldable
  <1>7. Hashing!Fold(leaf, proof, DOMAIN proof) \in N
    BY <1>4, VerifyIsFold
  <1>8. leaf \in N
    BY <1>5, <1>6, <1>7, Hashing!FoldBack
  <1>9. QED
    BY <1>8, NodesPaired DEF NotPaired

-----------------------------------------------------------------------------
(* The proofs that the two libraries give. *)

\* What FlattenSeq has joined after each sequence.
Flattens(g, seqs) ==
    /\ DOMAIN g = 1 .. Len(seqs) /\ g[1] = seqs[1]
    /\ \A k \in 2 .. Len(seqs) : g[k] = g[k - 1] \o seqs[k]

LEMMA FlattenSeqAt ==
    ASSUME NEW seqs, Len(seqs) \in Nat \ {0}
    PROVE  \E g : Flattens(g, seqs) /\ FlattenSeq(seqs) = g[Len(seqs)]
  <1> DEFINE n == Len(seqs)
             IsFlat(g) == g = [k \in 1 .. n |-> IF k = 1 THEN seqs[k] ELSE g[k - 1] \o seqs[k]]
             flat == CHOOSE g : IsFlat(g)
  <1>1. FlattenSeq(seqs) = flat[n]
    BY DEF FlattenSeq
  <1>2. PICK g : Joining!Recurses(g, seqs[1], seqs, 1, n)
    BY Joining!RecursionExists
  <1>3. IsFlat(g)
    <2>1. g = [k \in 1 .. n |-> IF k = 1 THEN seqs[1] ELSE g[k - 1] \o seqs[k]]
      BY <1>2, Zenon DEF Joining!Recurses, Joined
    <2>2. [k \in 1 .. n |-> IF k = 1 THEN seqs[1] ELSE g[k - 1] \o seqs[k]]
            = [k \in 1 .. n |-> IF k = 1 THEN seqs[k] ELSE g[k - 1] \o seqs[k]]
      OBVIOUS
    <2>3. QED
      BY <2>1, <2>2, Zenon
  <1>4. IsFlat(flat)
    BY <1>3, Zenon
  <1> HIDE DEF flat
  <1>5. DOMAIN flat = 1 .. n
    BY <1>4, Zenon
  <1>6. ASSUME NEW k \in 1 .. n
        PROVE  flat[k] = IF k = 1 THEN seqs[k] ELSE flat[k - 1] \o seqs[k]
    BY <1>4, Zenon
  <1>7. Flattens(flat, seqs)
    <2>1. ASSUME NEW k \in 2 .. n PROVE flat[k] = flat[k - 1] \o seqs[k]
      <3>1. k \in 1 .. n /\ k # 1
        OBVIOUS
      <3>2. QED
        BY <1>6, <3>1, Zenon
    <2>2. 1 \in 1 .. n
      OBVIOUS
    <2>3. flat[1] = seqs[1]
      BY <1>6, <2>2, Zenon
    <2>4. QED
      BY <1>5, <2>1, <2>3, Zenon DEF Flattens
  <1>8. QED
    BY <1>1, <1>7

\* Where the path to a target is, and what merkletreejs adds at a level.
At(ls, target, k) == PathIndex(IndexOf(ls, target), k)

Siblings(ls, target) ==
    [k \in DOMAIN Promoted(ls) |->
        IF At(ls, target, k) = Len(Promoted(ls)[k]) /\ At(ls, target, k) % 2 = 1 THEN <<>>
        ELSE <<Sibling(Promoted(ls)[k], At(ls, target, k))>>]

LEMMA HexProofIs ==
    ASSUME NEW ls, NEW target
    PROVE  getHexProof(ls, target) = FlattenSeq(Siblings(ls, target))
  BY Zenon DEF getHexProof, Siblings, Promoted, At

LEMMA FlattenedProper ==
    ASSUME NEW ls, Proper(ls), NEW target, NEW g, Flattens(g, Siblings(ls, target))
    PROVE  /\ Len(Siblings(ls, target)) = Len(ls)
           /\ \E U : \A k \in 1 .. Len(ls) : g[k] \in Seq(U) /\ Siblings(ls, target)[k] \in Seq(U)
  <1> DEFINE seqs == Siblings(ls, target)
             node(k) == Sibling(Promoted(ls)[k], At(ls, target, k))
             U == {node(k) : k \in 1 .. Len(ls)}
  <1>1. DOMAIN seqs = 1 .. Len(ls) /\ Len(ls) \in Nat \ {0}
    BY PromotedAt DEF Siblings, Proper
  <1>2. ASSUME NEW k \in 1 .. Len(ls) PROVE seqs[k] \in Seq(U)
    <2>1. seqs[k] = <<>> \/ seqs[k] = <<node(k)>>
      BY <1>1 DEF Siblings
    <2>2. node(k) \in U
      OBVIOUS
    <2> HIDE DEF seqs, node, U
    <2>3. \A x \in U : <<x>> \in Seq(U)
      OBVIOUS
    <2>4. <<>> \in Seq(U)
      OBVIOUS
    <2>5. QED
      BY <2>1, <2>2, <2>3, <2>4, Zenon
  <1>3. seqs = [k \in 1 .. Len(ls) |-> seqs[k]]
    BY <1>1 DEF Siblings
  <1> HIDE DEF seqs, U
  <1>4. Len(seqs) = Len(ls)
    BY <1>1, <1>3, FunctionIsProper
  <1> DEFINE Q == {n \in Nat : n + 1 \in 1 .. Len(ls) => g[n + 1] \in Seq(U)}
  <1>5. 0 \in Q
    BY <1>1, <1>2 DEF Flattens, seqs
  <1>6. ASSUME NEW n \in Nat, n \in Q PROVE n + 1 \in Q
    <2>1. ASSUME (n + 1) + 1 \in 1 .. Len(ls) PROVE g[(n + 1) + 1] \in Seq(U)
      <3>1. (n + 1) + 1 \in 2 .. Len(ls) /\ ((n + 1) + 1) - 1 = n + 1 /\ n + 1 \in 1 .. Len(ls)
        BY <1>1, <2>1
      <3>2. g[(n + 1) + 1] = g[n + 1] \o seqs[(n + 1) + 1]
        BY <1>4, <3>1 DEF Flattens, seqs
      <3>3. g[n + 1] \in Seq(U) /\ seqs[(n + 1) + 1] \in Seq(U)
        BY <1>2, <1>6, <2>1, <3>1
      <3>4. QED
        BY <3>2, <3>3
    <2>2. QED
      BY <2>1
  <1>7. Nat \subseteq Q
    <2> HIDE DEF Q
    <2> QED BY <1>5, <1>6, Hashing!NumberInduction
  <1>8. ASSUME NEW k \in 1 .. Len(ls) PROVE g[k] \in Seq(U)
    <2>1. k - 1 \in Nat /\ (k - 1) + 1 = k
      OBVIOUS
    <2>2. QED
      BY <1>7, <2>1
  <1>9. QED
    BY <1>2, <1>4, <1>8 DEF seqs

\* A proof has finitely many numbered places.
LEMMA ProofDomains ==
    ASSUME NEW ls, Proper(ls), NEW target
    PROVE  /\ IsFiniteSet(DOMAIN GetProof(ls, target)) /\ DOMAIN GetProof(ls, target) \subseteq Int
           /\ IsFiniteSet(DOMAIN getHexProof(ls, target))
           /\ DOMAIN getHexProof(ls, target) \subseteq Int
  <1>1. IsFiniteSet(1 .. Len(ls)) /\ Len(ls) \in Nat \ {0}
    BY FS_Interval DEF Proper
  <1>2. DOMAIN GetProof(ls, target) \subseteq 1 .. Len(ls)
    BY <1>1, LevelsAt DEF GetProof
  <1>3. IsFiniteSet(DOMAIN GetProof(ls, target)) /\ DOMAIN GetProof(ls, target) \subseteq Int
    BY <1>1, <1>2, FS_Subset
  <1>4. Len(Siblings(ls, target)) \in Nat \ {0}
    <2>1. DOMAIN Siblings(ls, target) = 1 .. Len(ls)
      BY <1>1, PromotedAt DEF Siblings
    <2>2. Siblings(ls, target) = [k \in 1 .. Len(ls) |-> Siblings(ls, target)[k]]
      BY <2>1 DEF Siblings
    <2>3. QED
      BY <1>1, <2>1, <2>2, FunctionIsProper
  <1>5. PICK g : /\ Flattens(g, Siblings(ls, target))
                 /\ FlattenSeq(Siblings(ls, target)) = g[Len(Siblings(ls, target))]
    BY <1>4, FlattenSeqAt
  <1>6. PICK U : g[Len(ls)] \in Seq(U)
    BY <1>1, <1>5, FlattenedProper
  <1>7. getHexProof(ls, target) \in Seq(U)
    BY <1>5, <1>6, HexProofIs, FlattenedProper
  <1>8. DOMAIN getHexProof(ls, target) = 1 .. Len(getHexProof(ls, target))
        /\ Len(getHexProof(ls, target)) \in Nat
    BY <1>7
  <1>9. IsFiniteSet(DOMAIN getHexProof(ls, target)) /\ DOMAIN getHexProof(ls, target) \subseteq Int
    BY <1>8, FS_Interval
  <1>10. QED
    BY <1>3, <1>9

-----------------------------------------------------------------------------
(* Completeness: the path from a leaf up to the root. *)

LEMMA DivIs ==
    ASSUME NEW n \in Nat, NEW d \in Nat \ {0}
    PROVE  /\ n \div d \in Nat /\ d * (n \div d) <= n /\ n < d * (n \div d) + d
           /\ \A q \in Nat : d * q <= n /\ n < d * q + d => n \div d = q
  BY Z3T(30)

LEMMA DivTwice ==
    ASSUME NEW n \in Nat, NEW m \in Nat \ {0}
    PROVE  n \div (2 * m) = (n \div m) \div 2
  <1> DEFINE q == n \div m
             r == q \div 2
  <1>1. q \in Nat /\ m * q <= n /\ n < m * q + m
    BY DivIs
  <1> HIDE DEF q
  <1>2. r \in Nat /\ (q = 2 * r \/ q = 2 * r + 1)
    BY <1>1
  <1> HIDE DEF r
  <1>3. 2 * m \in Nat \ {0} /\ (2 * m) * r = m * (2 * r)
    BY <1>2, Z3T(30)
  <1>4. m * (2 * r + 1) = m * (2 * r) + m /\ m * (2 * r) \in Nat
    BY <1>2, Z3T(30)
  <1>5. (2 * m) * r <= n /\ n < (2 * m) * r + 2 * m
    BY <1>1, <1>2, <1>3, <1>4
  <1>6. n \div (2 * m) = r
    BY <1>2, <1>3, <1>5, DivIs
  <1>7. QED
    BY <1>6 DEF q, r

\* GetProof halves the index at every level.
LEMMA PathHalves ==
    ASSUME NEW idx \in Nat \ {0}, NEW k \in Nat \ {0}
    PROVE  /\ PathIndex(idx, 1) = idx /\ PathIndex(idx, k) \in Nat \ {0}
           /\ PathIndex(idx, k + 1) = (PathIndex(idx, k) + 1) \div 2
  <1> DEFINE m == 2^(k - 1)
             n == idx - 1
             q == n \div m
  <1>1. k - 1 \in Nat /\ (k - 1) + 1 = k /\ (k + 1) - 1 = k /\ n \in Nat
    OBVIOUS
  <1>2. m \in Nat \ {0} /\ 2^k = 2 * m
    BY <1>1, Hashing!PowerOfTwo
  <1>3. PathIndex(idx, k) = q + 1
    BY DEF PathIndex
  <1>4. PathIndex(idx, k + 1) = n \div (2 * m) + 1
    BY <1>1, <1>2 DEF PathIndex
  <1>5. PathIndex(idx, 1) = idx
    <2>1. 2^(1 - 1) = 1
      OBVIOUS
    <2>2. QED
      BY <2>1 DEF PathIndex
  <1> HIDE DEF m, n
  <1>6. n \div (2 * m) = q \div 2 /\ q \in Nat
    BY <1>1, <1>2, DivTwice, DivIs
  <1> HIDE DEF q
  <1>7. q \div 2 + 1 = ((q + 1) + 1) \div 2
    BY <1>6
  <1>8. QED
    BY <1>3, <1>4, <1>5, <1>6, <1>7

LEMMA UpAt ==
    ASSUME NEW tree, Proper(tree), Len(tree) > 1, NEW j \in 1 .. Len(tree)
    PROVE  /\ (j + 1) \div 2 \in 1 .. Len(Above(tree))
           /\ Above(tree)[(j + 1) \div 2] = HashPair(tree[j], Sibling(tree, j))
  <1> DEFINE h == (j + 1) \div 2
             m == (Len(tree) + 1) \div 2
  <1>1. Len(tree) \in Nat /\ Len(Above(tree)) = m
    BY AboveIs DEF Proper
  <1>2. /\ h \in 1 .. m
        /\ j % 2 = 1 => 2 * h - 1 = j
        /\ j % 2 # 1 => 2 * h - 1 = j - 1 /\ j - 1 >= 1
    BY <1>1
  <1>3. Above(tree)[h] = HashPair(tree[2 * h - 1], Right(tree, 2 * h - 1))
    BY <1>2 DEF Above
  <1> HIDE DEF h, m
  <1>4. CASE j % 2 = 1
    BY <1>2, <1>3, <1>4 DEF Sibling, h, m, Above
  <1>5. CASE j % 2 # 1
    <2>1. Right(tree, j - 1) = tree[j]
      <3>1. (j - 1) + 1 = j /\ j <= Len(tree)
        BY <1>1
      <3>2. QED
        BY <3>1 DEF Right
    <2>2. Above(tree)[h] = HashPair(tree[j - 1], tree[j])
      BY <1>2, <1>3, <1>5, <2>1
    <2>3. HashPair(tree[j - 1], tree[j]) = HashPair(tree[j], tree[j - 1])
      BY DEF HashPair
    <2>4. QED
      BY <1>1, <1>2, <1>5, <2>2, <2>3 DEF Sibling, h
  <1>6. QED
    BY <1>1, <1>2, <1>4, <1>5 DEF h

LEMMA UpAtPromoted ==
    ASSUME NEW tree, Proper(tree), Len(tree) > 1, NEW j \in 1 .. Len(tree)
    PROVE  /\ (j + 1) \div 2 \in 1 .. Len(AbovePromoted(tree))
           /\ AbovePromoted(tree)[(j + 1) \div 2] =
                 IF j = Len(tree) /\ j % 2 = 1 THEN tree[j]
                 ELSE HashPair(tree[j], Sibling(tree, j))
  <1> DEFINE h == (j + 1) \div 2
             m == (Len(tree) + 1) \div 2
  <1>1. Len(tree) \in Nat /\ Len(AbovePromoted(tree)) = m
    BY AbovePromotedIs DEF Proper
  <1>2. /\ h \in 1 .. m
        /\ j % 2 = 1 => 2 * h - 1 = j /\ 2 * h = j + 1
        /\ j % 2 # 1 => 2 * h - 1 = j - 1 /\ 2 * h = j
    BY <1>1
  <1>3. AbovePromoted(tree)[h] =
          IF 2 * h <= Len(tree) THEN HashPair(tree[2 * h - 1], tree[2 * h])
          ELSE tree[2 * h - 1]
    BY <1>2 DEF AbovePromoted
  <1> HIDE DEF h, m
  <1>4. CASE j % 2 = 1 /\ j = Len(tree)
    BY <1>1, <1>2, <1>3, <1>4 DEF h
  <1>5. CASE j % 2 = 1 /\ j # Len(tree)
    <2>1. j + 1 <= Len(tree)
      BY <1>1, <1>5
    <2>2. Sibling(tree, j) = tree[j + 1]
      BY <1>5, <2>1 DEF Sibling, Right
    <2>3. AbovePromoted(tree)[h] = HashPair(tree[j], tree[j + 1])
      BY <1>2, <1>3, <1>5, <2>1
    <2>4. QED
      BY <1>1, <1>2, <1>5, <2>2, <2>3 DEF h
  <1>6. CASE j % 2 # 1
    <2>1. AbovePromoted(tree)[h] = HashPair(tree[j - 1], tree[j])
      BY <1>1, <1>2, <1>3, <1>6
    <2>2. HashPair(tree[j - 1], tree[j]) = HashPair(tree[j], tree[j - 1])
      BY DEF HashPair
    <2>3. QED
      BY <1>1, <1>2, <1>6, <2>1, <2>2 DEF Sibling, h
  <1>7. QED
    BY <1>4, <1>5, <1>6

LEMMA FirstIndex ==
    ASSUME NEW ls, Proper(ls), NEW target \in Range(ls)
    PROVE  IndexOf(ls, target) \in 1 .. Len(ls) /\ ls[IndexOf(ls, target)] = target
  <1> DEFINE S == {i \in 1 .. Len(ls) : ls[i] = target}
             First(i) == ls[i] = target /\ \A j \in 1 .. i - 1 : ls[j] # target
  <1>1. DOMAIN ls = 1 .. Len(ls) /\ Len(ls) \in Nat
    BY DEF Proper
  <1>2. S # {} /\ S \subseteq 1 .. Len(ls)
    BY <1>1 DEF Range
  <1>3. IsFiniteSet(S)
    <2> HIDE DEF S
    <2>1. IsFiniteSet(1 .. Len(ls))
      BY <1>1, FS_Interval
    <2>2. QED
      BY <1>2, <2>1, FS_Subset
  <1>4. Hashing!IsFiniteSet(S)
    BY <1>3 DEF IsFiniteSet, Hashing!IsFiniteSet
  <1>5. PICK i \in S : \A j \in S : i <= j
    <2> HIDE DEF S
    <2>1. S \subseteq Int
      BY <1>1, <1>2
    <2>2. QED
      BY <1>2, <1>4, <2>1, Hashing!SmallestExists
  <1>6. \A j \in 1 .. i - 1 : j \in 1 .. Len(ls) /\ ~(i <= j)
    BY <1>1, <1>5
  <1>7. i \in DOMAIN ls /\ First(i)
    BY <1>1, <1>5, <1>6
  <1>8. IndexOf(ls, target) = CHOOSE k \in DOMAIN ls : First(k)
    BY DEF IndexOf
  <1>9. IndexOf(ls, target) \in DOMAIN ls /\ First(IndexOf(ls, target))
    BY <1>7, <1>8
  <1>10. QED
    BY <1>1, <1>9

LEMMA AtHalves ==
    ASSUME NEW ls, Proper(ls), NEW target \in Range(ls)
    PROVE  /\ At(ls, target, 1) \in 1 .. Len(ls) /\ ls[At(ls, target, 1)] = target
           /\ \A k \in Nat \ {0} :
                 /\ At(ls, target, k) \in Nat \ {0}
                 /\ At(ls, target, k + 1) = (At(ls, target, k) + 1) \div 2
  <1>1. IndexOf(ls, target) \in Nat \ {0} /\ Len(ls) \in Nat
    BY FirstIndex, ProperLen
  <1>2. PathIndex(IndexOf(ls, target), 1) = IndexOf(ls, target)
    BY <1>1, PathHalves
  <1>3. ASSUME NEW k \in Nat \ {0}
        PROVE  /\ At(ls, target, k) \in Nat \ {0}
               /\ At(ls, target, k + 1) = (At(ls, target, k) + 1) \div 2
    BY <1>1, PathHalves DEF At
  <1>4. QED
    BY <1>2, <1>3, FirstIndex DEF At

\* One step of the path, in each of the two trees.
LEMMA GoStep ==
    ASSUME NEW ls, Proper(ls), NEW target \in Range(ls), NEW k \in 1 .. Len(ls) - 1,
           NEW tree, tree = Levels(ls)[k], NEW j, j = At(ls, target, k), j \in 1 .. Len(tree)
    PROVE  LET above == Levels(ls)[k + 1]
               i == At(ls, target, k + 1)
           IN  /\ i \in 1 .. Len(above)
               /\ above[i] = IF Len(tree) > 1 THEN HashPair(tree[j], Sibling(tree, j))
                             ELSE tree[j]
  <1> DEFINE above == Levels(ls)[k + 1]
             i == At(ls, target, k + 1)
  <1>1. /\ Len(ls) \in Nat \ {0} /\ k \in Nat \ {0} /\ k \in 1 .. Len(ls)
        /\ k + 1 \in 2 .. Len(ls) /\ (k + 1) - 1 = k
    BY ProperLen
  <1>2. above = Climb(ls[k + 1], tree)
    BY <1>1, LevelsAt
  <1>3. i = (j + 1) \div 2
    BY <1>1, AtHalves
  <1>4. Proper(tree) /\ Len(tree) \in Nat \ {0}
    BY <1>1, LevelsRise, LevelsProper, ProperLen
  <1> HIDE DEF above, i
  <1>5. CASE Len(tree) > 1
    BY <1>2, <1>3, <1>4, <1>5, UpAt DEF Climb, above, i
  <1>6. CASE ~(Len(tree) > 1)
    <2>1. Len(tree) = 1 /\ j = 1 /\ (1 + 1) \div 2 = 1
      <3> DEFINE n == Len(tree)
      <3>1. n \in Nat \ {0} /\ ~(n > 1) /\ j \in 1 .. n
        BY <1>4, <1>6
      <3> HIDE DEF n
      <3>2. n = 1 /\ j = 1
        BY <3>1
      <3>3. QED
        BY <3>2 DEF n
    <2>2. i = 1 /\ above = tree
      BY <1>2, <1>3, <1>6, <2>1 DEF Climb
    <2>3. QED
      BY <1>6, <2>1, <2>2 DEF above, i
  <1>7. QED
    BY <1>5, <1>6

LEMMA HexStep ==
    ASSUME NEW ls, Proper(ls), NEW target \in Range(ls), NEW k \in 1 .. Len(ls) - 1,
           NEW tree, tree = Promoted(ls)[k], NEW j, j = At(ls, target, k), j \in 1 .. Len(tree)
    PROVE  LET above == Promoted(ls)[k + 1]
               i == At(ls, target, k + 1)
           IN  /\ i \in 1 .. Len(above)
               /\ above[i] = IF j = Len(tree) /\ j % 2 = 1 THEN tree[j]
                             ELSE HashPair(tree[j], Sibling(tree, j))
  <1> DEFINE above == Promoted(ls)[k + 1]
             i == At(ls, target, k + 1)
  <1>1. /\ Len(ls) \in Nat \ {0} /\ k \in Nat \ {0} /\ k \in 1 .. Len(ls)
        /\ k + 1 \in 2 .. Len(ls) /\ (k + 1) - 1 = k
    BY ProperLen
  <1>2. above = ClimbPromoted(ls[k + 1], tree)
    BY <1>1, PromotedAt
  <1>3. i = (j + 1) \div 2
    BY <1>1, AtHalves
  <1>4. Proper(tree) /\ Len(tree) \in Nat \ {0}
    BY <1>1, LevelsRise, LevelsProper, ProperLen
  <1> HIDE DEF above, i
  <1>5. CASE Len(tree) > 1
    <2>1. above = AbovePromoted(tree)
      BY <1>2, <1>5 DEF ClimbPromoted
    <2>2. /\ i \in 1 .. Len(AbovePromoted(tree))
          /\ AbovePromoted(tree)[i] = IF j = Len(tree) /\ j % 2 = 1 THEN tree[j]
                                      ELSE HashPair(tree[j], Sibling(tree, j))
      BY <1>3, <1>4, <1>5, UpAtPromoted
    <2>3. QED
      BY <2>1, <2>2, Zenon DEF above, i
  <1>6. CASE ~(Len(tree) > 1)
    <2>1. Len(tree) = 1 /\ j = 1 /\ (1 + 1) \div 2 = 1 /\ j % 2 = 1
      <3> DEFINE n == Len(tree)
      <3>1. n \in Nat \ {0} /\ ~(n > 1) /\ j \in 1 .. n
        BY <1>4, <1>6
      <3> HIDE DEF n
      <3>2. n = 1 /\ j = 1
        BY <3>1
      <3>3. QED
        BY <3>2 DEF n
    <2>2. i = 1 /\ above = tree
      BY <1>2, <1>3, <1>6, <2>1 DEF ClimbPromoted
    <2>3. QED
      BY <1>6, <2>1, <2>2 DEF above, i
  <1>7. QED
    BY <1>5, <1>6

LEMMA LargestIs ==
    ASSUME NEW S, NEW n \in S, S \subseteq Int, \A x \in S : x <= n
    PROVE  Largest(S) = n
  <1>1. Largest(S) \in S /\ \A y \in S : Largest(S) >= y
    BY DEF Largest, Max
  <1>2. Largest(S) \in Int /\ n \in Int /\ Largest(S) >= n /\ Largest(S) <= n
    BY <1>1
  <1>3. QED
    BY <1>2

\* What the fold over a proof is after the levels below k: the node of level k on
\* the path.
LEMMA GoPath ==
    ASSUME NEW ls, Proper(ls), NEW target \in Range(ls)
    PROVE  LET proof == GetProof(ls, target)
               below(k) == {i \in DOMAIN proof : i < k}
           IN  \A k \in 1 .. Len(ls) :
                  /\ At(ls, target, k) \in 1 .. Len(Levels(ls)[k])
                  /\ Hashing!Fold(target, proof, below(k)) = Levels(ls)[k][At(ls, target, k)]
  <1> DEFINE proof == GetProof(ls, target)
             below(k) == {i \in DOMAIN proof : i < k}
             level == Levels(ls)
             at(k) == At(ls, target, k)
             Good(k) == /\ at(k) \in 1 .. Len(level[k])
                        /\ Hashing!Fold(target, proof, below(k)) = level[k][at(k)]
             Q == {n \in Nat : n + 1 \in 1 .. Len(ls) => Good(n + 1)}
  <1>1. Len(ls) \in Nat \ {0} /\ DOMAIN level = 1 .. Len(ls) /\ level[1] = ls
    BY ProperLen, LevelsAt
  <1>2. /\ DOMAIN proof = {k \in 1 .. Len(ls) : Len(level[k]) > 1}
        /\ \A k \in DOMAIN proof : proof[k] = Sibling(level[k], at(k))
    BY <1>1 DEF GetProof, At
  <1>3. \A k : Hashing!Foldable(below(k))
    <2>1. TAKE k
    <2>2. IsFiniteSet(DOMAIN proof) /\ DOMAIN proof \subseteq Int
      BY ProofDomains
    <2>3. IsFiniteSet(below(k)) /\ below(k) \subseteq Int
      BY <2>2, FS_Subset
    <2>4. QED
      BY <2>3, HashingFoldable
  <1> HIDE DEF proof, level
  <1>4. 0 \in Q
    <2>1. below(1) = {}
      BY <1>1, <1>2
    <2>2. Hashing!Fold(target, proof, {}) = target
      BY Hashing!FoldEmpty
    <2>3. at(1) \in 1 .. Len(ls) /\ ls[at(1)] = target
      BY AtHalves
    <2>4. Good(1)
      BY <1>1, <2>1, <2>2, <2>3, Zenon
    <2>5. 0 + 1 = 1
      OBVIOUS
    <2> HIDE DEF Good
    <2>6. QED
      BY <2>4, <2>5
  <1>5. ASSUME NEW n \in Nat, n \in Q PROVE n + 1 \in Q
    <2>1. ASSUME (n + 1) + 1 \in 1 .. Len(ls) PROVE Good((n + 1) + 1)
      <3> DEFINE k == n + 1
                 tree == level[k]
                 j == at(k)
      <3>1. k \in 1 .. Len(ls) - 1 /\ k \in 1 .. Len(ls) /\ k \in Nat
        BY <1>1, <2>1
      <3>2. Good(k)
        BY <1>5, <3>1
      <3>3. /\ at(k + 1) \in 1 .. Len(level[k + 1])
            /\ level[k + 1][at(k + 1)] =
                 IF Len(tree) > 1 THEN HashPair(tree[j], Sibling(tree, j)) ELSE tree[j]
        BY <3>1, <3>2, GoStep DEF level
      <3> HIDE DEF k, tree, j
      <3>4. CASE Len(tree) > 1
        <4>1. k \in DOMAIN proof /\ proof[k] = Sibling(tree, j)
          BY <1>2, <3>1, <3>4 DEF tree, j
        <4>2. /\ k \in below(k + 1) /\ below(k + 1) # {} /\ below(k + 1) \subseteq Int
              /\ \A x \in below(k + 1) : x <= k
          BY <1>1, <1>2, <3>1, <4>1
        <4>3. Largest(below(k + 1)) = k
          BY <4>2, LargestIs
        <4>4. below(k + 1) \ {k} = below(k)
          BY <1>1, <1>2, <3>1, <4>1
        <4>5. Hashing!Fold(target, proof, below(k + 1))
                = PairWith(proof[k], Hashing!Fold(target, proof, below(k + 1) \ {k}))
          BY <1>3, <4>2, <4>3, Hashing!FoldStep
        <4>6. Hashing!Fold(target, proof, below(k)) = tree[j]
          BY <3>2 DEF tree, j
        <4>7. QED
          BY <3>3, <3>4, <4>1, <4>4, <4>5, <4>6 DEF PairWith, k
      <3>5. CASE ~(Len(tree) > 1)
        <4>1. below(k + 1) = below(k)
          BY <1>1, <1>2, <3>1, <3>5 DEF tree
        <4>2. Hashing!Fold(target, proof, below(k)) = tree[j]
          BY <3>2 DEF tree, j
        <4>3. QED
          BY <3>3, <3>5, <4>1, <4>2 DEF k
      <3>6. QED
        BY <3>4, <3>5
    <2> HIDE DEF Good
    <2>2. QED
      BY <2>1
  <1>6. Nat \subseteq Q
    <2> HIDE DEF Q
    <2> QED BY <1>4, <1>5, Hashing!NumberInduction
  <1>7. ASSUME NEW k \in 1 .. Len(ls) PROVE Good(k)
    <2>1. k - 1 \in Nat /\ (k - 1) + 1 = k
      OBVIOUS
    <2> HIDE DEF Good
    <2>2. QED
      BY <1>6, <2>1
  <1>8. QED
    BY <1>7 DEF proof, level

LEMMA GoComplete ==
    ASSUME NEW ls, Proper(ls), NEW target \in Range(ls)
    PROVE  VerifyMerkleProof(GetProof(ls, target), BuildMerkleTree(ls), target)
  <1> DEFINE n == Len(ls)
             proof == GetProof(ls, target)
  <1>1. n \in Nat \ {0} /\ n \in 1 .. n
    BY ProperLen
  <1>2. Len(Levels(ls)[n]) = 1
    BY LevelsRise, LevelsProper
  <1>3. /\ At(ls, target, n) \in 1 .. Len(Levels(ls)[n])
        /\ Hashing!Fold(target, proof, {i \in DOMAIN proof : i < n})
              = Levels(ls)[n][At(ls, target, n)]
    BY <1>1, GoPath
  <1>4. At(ls, target, n) = 1
    BY <1>2, <1>3
  <1>5. DOMAIN proof = {k \in 1 .. n : Len(Levels(ls)[k]) > 1}
    BY <1>1, LevelsAt DEF GetProof
  <1>6. {i \in DOMAIN proof : i < n} = DOMAIN proof
    <2> HIDE DEF proof
    <2>1. ASSUME NEW i \in DOMAIN proof PROVE i < n
      <3>1. i \in 1 .. n /\ Len(Levels(ls)[i]) > 1
        BY <1>5
      <3>2. ASSUME Len(Levels(ls)[i]) = 1 PROVE FALSE
        <4>1. 1 > 1
          BY <3>1, <3>2, Zenon
        <4>2. QED
          BY <4>1
      <3>3. i # n
        BY <1>2, <3>2, Zenon
      <3> HIDE DEF n
      <3>4. QED
        BY <1>1, <3>1, <3>3
    <2>2. QED
      BY <2>1
  <1>7. Hashing!Fold(target, proof, DOMAIN proof) = Levels(ls)[n][1]
    BY <1>3, <1>4, <1>6, Zenon
  <1>8. QED
    BY <1>7, VerifyIsFold DEF BuildMerkleTree

\* One more hash at the end of a proof.
LEMMA HashOneMore ==
    ASSUME NEW U, NEW p \in Seq(U), NEW x \in U, NEW base
    PROVE  Hashing!Fold(base, p \o <<x>>, DOMAIN (p \o <<x>>))
              = HashPair(Hashing!Fold(base, p, DOMAIN p), x)
  <1> DEFINE r == p \o <<x>>
             n == Len(p)
  <1>1. /\ n \in Nat /\ DOMAIN p = 1 .. n /\ DOMAIN r = 1 .. n + 1
        /\ \A i \in 1 .. n : r[i] = p[i]
        /\ r[n + 1] = x
    OBVIOUS
  <1> HIDE DEF r, n
  <1>2. Hashing!Foldable(1 .. n) /\ Hashing!Foldable(1 .. n + 1)
    <2>1. IsFiniteSet(1 .. n) /\ IsFiniteSet(1 .. n + 1)
      BY <1>1, FS_Interval
    <2>2. QED
      BY <1>1, <2>1, HashingFoldable
  <1>3. Largest(1 .. n + 1) = n + 1
    BY <1>1, LargestIs
  <1>4. 1 .. n + 1 # {} /\ (1 .. n + 1) \ {n + 1} = 1 .. n
    <2>1. n \in Nat
      BY <1>1
    <2>2. n + 1 \in 1 .. n + 1
      BY <2>1
    <2>3. (1 .. n + 1) \ {n + 1} = 1 .. n
      BY <2>1
    <2>4. QED
      BY <2>2, <2>3
  <1>5. Hashing!Fold(base, r, 1 .. n + 1)
          = PairWith(r[n + 1], Hashing!Fold(base, r, (1 .. n + 1) \ {n + 1}))
    BY <1>2, <1>3, <1>4, Hashing!FoldStep
  <1>6. Hashing!Fold(base, r, 1 .. n) = Hashing!Fold(base, p, 1 .. n)
    BY <1>1, <1>2, Hashing!FoldSame
  <1>7. QED
    BY <1>1, <1>4, <1>5, <1>6 DEF PairWith, r

LEMMA HexPath ==
    ASSUME NEW ls, Proper(ls), NEW target \in Range(ls), NEW g,
           Flattens(g, Siblings(ls, target))
    PROVE  Hashing!Fold(target, g[Len(ls)], DOMAIN g[Len(ls)]) = Promoted(ls)[Len(ls)][1]
  <1> DEFINE seqs == Siblings(ls, target)
             level == Promoted(ls)
             at(k) == At(ls, target, k)
             Lone(k) == at(k) = Len(level[k]) /\ at(k) % 2 = 1
             sib(k) == Sibling(level[k], at(k))
             hash(k) == Hashing!Fold(target, g[k], DOMAIN g[k])
             up(k) == IF Lone(k) THEN level[k][at(k)] ELSE HashPair(level[k][at(k)], sib(k))
             Good(k) == at(k) \in 1 .. Len(level[k]) /\ hash(k) = up(k)
             Q == {n \in Nat : n + 1 \in 1 .. Len(ls) => Good(n + 1)}
  <1>1. Len(ls) \in Nat \ {0} /\ DOMAIN level = 1 .. Len(ls) /\ level[1] = ls
    BY ProperLen, PromotedAt
  <1>2. Len(seqs) = Len(ls)
    BY FlattenedProper
  <1>3. PICK U : \A k \in 1 .. Len(ls) : g[k] \in Seq(U) /\ seqs[k] \in Seq(U)
    BY FlattenedProper
  <1>4. \A k \in 1 .. Len(ls) : seqs[k] = IF Lone(k) THEN <<>> ELSE <<sib(k)>>
    BY <1>1 DEF Siblings
  <1>5. g[1] = seqs[1] /\ \A k \in 2 .. Len(ls) : g[k] = g[k - 1] \o seqs[k]
    BY <1>2 DEF Flattens
  <1> HIDE DEF seqs, level
  <1>6. ASSUME NEW p \in Seq(U), NEW k \in 1 .. Len(ls)
        PROVE  Hashing!Fold(target, p \o seqs[k], DOMAIN (p \o seqs[k])) =
                 IF Lone(k) THEN Hashing!Fold(target, p, DOMAIN p)
                 ELSE HashPair(Hashing!Fold(target, p, DOMAIN p), sib(k))
    <2>1. CASE Lone(k)
      <3>1. seqs[k] = <<>>
        BY <1>4, <2>1
      <3>2. p \o seqs[k] = p
        BY <3>1
      <3>3. QED
        BY <2>1, <3>2
    <2>2. CASE ~Lone(k)
      <3>1. seqs[k] = <<sib(k)>>
        BY <1>4, <2>2
      <3> HIDE DEF Lone, sib
      <3>2. sib(k) \in U
        <4>1. <<sib(k)>> \in Seq(U)
          BY <1>3, <3>1
        <4>2. QED
          BY <4>1
      <3>3. QED
        BY <2>2, <3>1, <3>2, HashOneMore
    <2>3. QED
      BY <2>1, <2>2
  <1>7. 0 \in Q
    <2>1. at(1) \in 1 .. Len(ls) /\ ls[at(1)] = target /\ 0 + 1 = 1 /\ 1 \in 1 .. Len(ls)
      BY <1>1, AtHalves
    <2>2. <<>> \in Seq(U) /\ g[1] = <<>> \o seqs[1]
      BY <1>3, <1>5, <2>1
    <2>3. DOMAIN <<>> = {} /\ Hashing!Fold(target, <<>>, {}) = target
      BY Hashing!FoldEmpty
    <2>4. hash(1) = IF Lone(1) THEN target ELSE HashPair(target, sib(1))
      <3> HIDE DEF Lone, sib
      <3>1. Hashing!Fold(target, <<>> \o seqs[1], DOMAIN (<<>> \o seqs[1])) =
              IF Lone(1) THEN Hashing!Fold(target, <<>>, DOMAIN <<>>)
              ELSE HashPair(Hashing!Fold(target, <<>>, DOMAIN <<>>), sib(1))
        BY <1>6, <2>1, <2>2, Zenon
      <3>2. Hashing!Fold(target, <<>>, DOMAIN <<>>) = target
        BY <2>3, Zenon
      <3>3. QED
        BY <2>2, <3>1, <3>2, Zenon
    <2> HIDE DEF Lone, sib, hash
    <2>5. Good(1)
      BY <1>1, <2>1, <2>4
    <2> HIDE DEF Good
    <2>6. QED
      BY <2>1, <2>5
  <1>8. ASSUME NEW n \in Nat, n \in Q PROVE n + 1 \in Q
    <2>1. ASSUME (n + 1) + 1 \in 1 .. Len(ls) PROVE Good((n + 1) + 1)
      <3> DEFINE k == n + 1
      <3>1. /\ k \in 1 .. Len(ls) - 1 /\ k \in 1 .. Len(ls) /\ k + 1 \in 1 .. Len(ls)
            /\ k + 1 \in 2 .. Len(ls) /\ (k + 1) - 1 = k
        BY <1>1, <2>1
      <3> HIDE DEF Good
      <3>2. Good(k)
        BY <1>8, <3>1
      <3> HIDE DEF k
      <3>3. at(k + 1) \in 1 .. Len(level[k + 1]) /\ level[k + 1][at(k + 1)] = up(k)
        BY <3>1, <3>2, HexStep DEF level, Good
      <3>4. hash(k) = up(k)
        BY <3>2 DEF Good
      <3> HIDE DEF Lone, sib, up
      <3>5. g[k + 1] = g[k] \o seqs[k + 1] /\ g[k] \in Seq(U)
        BY <1>3, <1>5, <3>1
      <3>6. hash(k + 1) = IF Lone(k + 1) THEN hash(k) ELSE HashPair(hash(k), sib(k + 1))
        BY <1>6, <3>1, <3>5
      <3> HIDE DEF hash
      <3>7. QED
        BY <3>3, <3>4, <3>6 DEF Good, up, k
    <2> HIDE DEF Good
    <2>2. QED
      BY <2>1
  <1>9. Nat \subseteq Q
    <2> HIDE DEF Q
    <2> QED BY <1>7, <1>8, Hashing!NumberInduction
  <1>10. Good(Len(ls))
    <2>1. Len(ls) - 1 \in Nat /\ (Len(ls) - 1) + 1 = Len(ls) /\ Len(ls) \in 1 .. Len(ls)
      BY <1>1
    <2> HIDE DEF Good
    <2>2. QED
      BY <1>9, <2>1
  <1>11. Len(level[Len(ls)]) = 1
    BY LevelsRise, LevelsProper DEF level
  <1>12. at(Len(ls)) = 1 /\ Lone(Len(ls))
    BY <1>10, <1>11
  <1>13. QED
    BY <1>10, <1>12 DEF level

LEMMA HexComplete ==
    ASSUME NEW ls, Proper(ls), NEW target \in Range(ls)
    PROVE  VerifyMerkleProof(getHexProof(ls, target), getHexRoot(ls), target)
  <1>1. Len(Siblings(ls, target)) \in Nat \ {0}
    <2>1. DOMAIN Siblings(ls, target) = 1 .. Len(ls) /\ Len(ls) \in Nat \ {0}
      BY ProperLen, PromotedAt DEF Siblings
    <2>2. Siblings(ls, target) = [k \in 1 .. Len(ls) |-> Siblings(ls, target)[k]]
      BY <2>1 DEF Siblings
    <2>3. QED
      BY <2>1, <2>2, FunctionIsProper
  <1>2. PICK g : /\ Flattens(g, Siblings(ls, target))
                 /\ FlattenSeq(Siblings(ls, target)) = g[Len(Siblings(ls, target))]
    BY <1>1, FlattenSeqAt
  <1>3. getHexProof(ls, target) = g[Len(ls)]
    BY <1>2, HexProofIs, FlattenedProper
  <1>4. getHexRoot(ls) = Promoted(ls)[Len(ls)][1]
    BY Zenon DEF getHexRoot, Promoted
  <1>5. QED
    BY <1>2, <1>3, <1>4, HexPath, VerifyIsFold

-----------------------------------------------------------------------------
(* The roots of the two libraries: below a node of BuildMerkleTree all leaves *)
(* are at the same depth, below one of merkletreejs they need not be.         *)

PairsOf(x, S) == {HashPair(y, z) : y \in S, z \in S}
Raising == INSTANCE FoldTheorems WITH Op <- PairsOf, Choose <- Largest

\* P[h] are the nodes with all leaves, which are in S, at depth h.
Heights(P, S, N) ==
    /\ P[0] = S
    /\ \A h \in 1 .. N : P[h] = {HashPair(y, z) : y \in P[h - 1], z \in P[h - 1]}

LEMMA HeightsExist ==
    ASSUME NEW S, NEW N \in Nat
    PROVE  \E P : Heights(P, S, N)
  <1>1. PICK P : Raising!Recurses(P, S, S, 0, N)
    BY Raising!RecursionExists
  <1>2. P[0] = S /\ \A h \in 0 + 1 .. N : P[h] = PairsOf(S[h], P[h - 1])
    BY <1>1, Raising!RecursionAt
  <1>3. ASSUME NEW h \in 1 .. N
        PROVE  P[h] = {HashPair(y, z) : y \in P[h - 1], z \in P[h - 1]}
    <2>1. h \in 0 + 1 .. N
      OBVIOUS
    <2>2. P[h] = PairsOf(S[h], P[h - 1])
      BY <1>2, <2>1
    <2>3. QED
      BY <2>2 DEF PairsOf
  <1>4. Heights(P, S, N)
    BY <1>2, <1>3 DEF Heights
  <1>5. QED
    BY <1>4

LEMMA PairHeight ==
    ASSUME NEW P, NEW S, NEW N \in Nat, Heights(P, S, N), NEW h \in 1 .. N, NEW y, NEW z
    PROVE  HashPair(y, z) \in P[h] <=> y \in P[h - 1] /\ z \in P[h - 1]
  <1>1. P[h] = {HashPair(u, v) : u \in P[h - 1], v \in P[h - 1]}
    BY DEF Heights
  <1>2. ASSUME HashPair(y, z) \in P[h] PROVE y \in P[h - 1] /\ z \in P[h - 1]
    <2>1. PICK u \in P[h - 1], v \in P[h - 1] : HashPair(y, z) = HashPair(u, v)
      BY <1>1, <1>2
    <2>2. HashPair(y, z).pair = {y, z} /\ HashPair(u, v).pair = {u, v}
      BY DEF HashPair
    <2>3. {y, z} = {u, v}
      BY <2>1, <2>2
    <2>4. QED
      BY <2>1, <2>3
  <1>3. QED
    BY <1>1, <1>2

LEMMA HeightsDiffer ==
    ASSUME NEW P, NEW S, NEW N \in Nat, Heights(P, S, N), NotPaired(S)
    PROVE  \A i, j \in 0 .. N : i < j => P[i] \cap P[j] = {}
  <1> DEFINE Q == {i \in Nat : \A j \in 0 .. N : i < j => P[i] \cap P[j] = {}}
  <1>1. ASSUME NEW j \in 1 .. N, NEW x \in P[j]
        PROVE  \E y, z : x = HashPair(y, z)
    BY DEF Heights
  <1>2. 0 \in Q
    <2>1. ASSUME NEW j \in 0 .. N, 0 < j PROVE P[0] \cap P[j] = {}
      <3>1. j \in 1 .. N
        BY <2>1
      <3>2. QED
        BY <1>1, <3>1 DEF NotPaired, Heights
    <2>2. QED
      BY <2>1
  <1>3. ASSUME NEW i \in Nat, i \in Q PROVE i + 1 \in Q
    <2>1. ASSUME NEW j \in 0 .. N, i + 1 < j, NEW x \in P[i + 1] \cap P[j] PROVE FALSE
      <3>1. /\ j \in 1 .. N /\ i + 1 \in 1 .. N /\ (i + 1) - 1 = i
            /\ j - 1 \in 0 .. N /\ i < j - 1
        BY <2>1
      <3>2. PICK y, z : x = HashPair(y, z)
        BY <1>1, <2>1, <3>1
      <3>3. y \in P[i] /\ y \in P[j - 1]
        BY <2>1, <3>1, <3>2, PairHeight
      <3>4. QED
        BY <1>3, <3>1, <3>3
    <2>2. QED
      BY <2>1
  <1>4. Nat \subseteq Q
    <2> HIDE DEF Q
    <2> QED BY <1>2, <1>3, Hashing!NumberInduction
  <1>5. QED
    BY <1>4

\* An odd number above 1 is no power of two, and neither are its even multiples.
LEMMA OddNoPower ==
    ASSUME NEW m \in Nat, m > 1, m % 2 = 1, NEW h \in Nat
    PROVE  \A k \in Nat : m * 2^h # 2^k
  <1> DEFINE Q == {i \in Nat : \A k \in Nat : m * 2^i # 2^k}
  <1>1. 2^0 = 1
    OBVIOUS
  <1>2. ASSUME NEW k \in Nat PROVE \/ k = 0 /\ 2^k = 1
                                   \/ k - 1 \in Nat /\ 2^(k - 1) \in Nat /\ 2^k = 2 * 2^(k - 1)
    <2>1. CASE k = 0
      BY <1>1, <2>1
    <2>2. CASE k # 0
      <3>1. k - 1 \in Nat /\ (k - 1) + 1 = k
        BY <2>2
      <3>2. QED
        BY <3>1, Hashing!PowerOfTwo
    <2>3. QED
      BY <2>1, <2>2
  <1>3. 0 \in Q
    <2>1. ASSUME NEW k \in Nat, m * 2^0 = 2^k PROVE FALSE
      <3>1. 2^k = m
        BY <1>1, <2>1
      <3>2. CASE 2^k = 1
        BY <3>1, <3>2
      <3>3. CASE 2^(k - 1) \in Nat /\ 2^k = 2 * 2^(k - 1)
        <4> DEFINE p == 2^(k - 1)
        <4>1. p \in Nat /\ m = 2 * p
          BY <3>1, <3>3
        <4> HIDE DEF p
        <4>2. QED
          BY <4>1
      <3>4. QED
        BY <1>2, <3>2, <3>3
    <2>2. QED
      BY <2>1
  <1>4. ASSUME NEW i \in Nat, i \in Q PROVE i + 1 \in Q
    <2>1. ASSUME NEW k \in Nat, m * 2^(i + 1) = 2^k PROVE FALSE
      <3> DEFINE p == 2^i
                 x == m * p
                 r == 2^(k - 1)
      <3>1. p \in Nat /\ 2^(i + 1) = 2 * p
        BY Hashing!PowerOfTwo
      <3>2. m * (2 * p) = 2^k
        BY <2>1, <3>1
      <3> HIDE DEF p
      <3>3. x \in Nat /\ m * (2 * p) = 2 * x
        BY <3>1, Z3T(30)
      <3>4. 2 * x = 2^k
        BY <3>2, <3>3
      <3>5. CASE 2^k = 1
        <4> HIDE DEF x
        <4>1. 2 * x = 1
          BY <3>4, <3>5
        <4>2. QED
          BY <3>3, <4>1
      <3>6. CASE k - 1 \in Nat /\ r \in Nat /\ 2^k = 2 * r
        <4>1. 2 * x = 2 * r
          BY <3>4, <3>6
        <4> HIDE DEF x, r
        <4>2. x = r
          BY <3>3, <3>6, <4>1
        <4>3. QED
          BY <1>4, <3>6, <4>2 DEF x, r, p
      <3>7. QED
        BY <1>2, <3>5, <3>6
    <2>2. QED
      BY <2>1
  <1>5. Nat \subseteq Q
    <2> HIDE DEF Q
    <2> QED BY <1>3, <1>4, Hashing!NumberInduction
  <1>6. QED
    BY <1>5

\* The nodes of a level of merkletreejs but the last one are those of the level of
\* BuildMerkleTree.  The last is too as long as no level has been odd; after that it
\* has leaves at different depths or at too small a one, and so have all that follow.
Abreast(A, B, h, P, n) ==
    /\ Proper(A) /\ Proper(B) /\ Len(A) = Len(B)
    /\ h \in 0 .. n
    /\ \A i \in 1 .. Len(A) : A[i] \in P[h]
    /\ \A i \in 1 .. Len(A) - 1 : B[i] \in P[h]
    /\ \/ A = B /\ n = Len(A) * 2^h
       \/ /\ \A j \in h .. n : B[Len(A)] \notin P[j]
          /\ \A k \in Nat : n # 2^k

\* Where the nodes of the level above come from.
LEMMA AboveFrom ==
    ASSUME NEW A, NEW B, Proper(A), Proper(B), Len(A) = Len(B), Len(A) > 1,
           NEW k \in 1 .. (Len(A) + 1) \div 2
    PROVE  /\ \E i, j \in 1 .. Len(A) : Above(A)[k] = HashPair(A[i], A[j])
           /\ k < (Len(A) + 1) \div 2 =>
                \E i, j \in 1 .. Len(A) - 1 : AbovePromoted(B)[k] = HashPair(B[i], B[j])
           /\ k = (Len(A) + 1) \div 2 =>
                AbovePromoted(B)[k] = IF Len(A) % 2 = 1 THEN B[Len(A)]
                                      ELSE HashPair(B[Len(A) - 1], B[Len(A)])
           /\ Len(A) % 2 # 1 => Above(A)[k] = HashPair(A[2 * k - 1], A[2 * k])
           /\ Len(A) % 2 # 1 => AbovePromoted(B)[k] = HashPair(B[2 * k - 1], B[2 * k])
  <1> DEFINE n == Len(A)
             m == (n + 1) \div 2
  <1>1. n \in Nat /\ n > 1 /\ Len(B) = n
    BY DEF Proper
  <1>2. Above(A)[k] = HashPair(A[2 * k - 1], IF 2 * k <= n THEN A[2 * k] ELSE A[2 * k - 1])
    <2>1. (2 * k - 1) + 1 = 2 * k
      OBVIOUS
    <2>2. Above(A)[k] = HashPair(A[2 * k - 1], Right(A, 2 * k - 1))
      BY DEF Above
    <2>3. QED
      BY <2>1, <2>2, Zenon DEF Right
  <1>3. AbovePromoted(B)[k] = IF 2 * k <= n THEN HashPair(B[2 * k - 1], B[2 * k])
                              ELSE B[2 * k - 1]
    BY <1>1 DEF AbovePromoted
  <1>4. /\ 2 * k - 1 \in 1 .. n
        /\ 2 * k <= n => 2 * k \in 1 .. n
        /\ k < m => 2 * k <= n /\ 2 * k - 1 \in 1 .. n - 1 /\ 2 * k \in 1 .. n - 1
        /\ k = m /\ n % 2 = 1 => 2 * k - 1 = n /\ ~(2 * k <= n)
        /\ k = m /\ n % 2 # 1 => 2 * k = n
        /\ n % 2 # 1 => 2 * k <= n
    BY <1>1
  <1> HIDE DEF n, m
  <1>5. \E i, j \in 1 .. n : Above(A)[k] = HashPair(A[i], A[j])
    BY <1>2, <1>4
  <1>6. ASSUME k < m
        PROVE  \E i, j \in 1 .. n - 1 : AbovePromoted(B)[k] = HashPair(B[i], B[j])
    BY <1>3, <1>4, <1>6
  <1>7. ASSUME k = m
        PROVE  AbovePromoted(B)[k] = IF n % 2 = 1 THEN B[n] ELSE HashPair(B[n - 1], B[n])
    <2>1. CASE n % 2 = 1
      BY <1>3, <1>4, <1>7, <2>1
    <2>2. CASE n % 2 # 1
      <3>1. 2 * k = n /\ 2 * k <= n
        BY <1>4, <1>7, <2>2
      <3>2. QED
        BY <1>3, <2>2, <3>1
    <2>3. QED
      BY <2>1, <2>2
  <1>8. ASSUME n % 2 # 1
        PROVE  /\ Above(A)[k] = HashPair(A[2 * k - 1], A[2 * k])
               /\ AbovePromoted(B)[k] = HashPair(B[2 * k - 1], B[2 * k])
    BY <1>2, <1>3, <1>4, <1>8
  <1>9. QED
    BY <1>5, <1>6, <1>7, <1>8 DEF n, m

LEMMA AboveEven ==
    ASSUME NEW A, NEW B, Proper(A), Proper(B), Len(A) = Len(B), Len(A) > 1, Len(A) % 2 # 1,
           NEW k \in 1 .. (Len(A) + 1) \div 2
    PROVE  /\ Above(A)[k] = HashPair(A[2 * k - 1], A[2 * k])
           /\ AbovePromoted(B)[k] = HashPair(B[2 * k - 1], B[2 * k])
  BY AboveFrom

LEMMA AbreastStep ==
    ASSUME NEW A, NEW B, NEW P, NEW S, NEW n \in Nat, NEW h \in 0 .. n - 1,
           Heights(P, S, n), NotPaired(S), Abreast(A, B, h, P, n), Len(A) > 1
    PROVE  Abreast(Above(A), AbovePromoted(B), h + 1, P, n)
  <1> DEFINE l == Len(A)
             m == (l + 1) \div 2
             U == Above(A)
             V == AbovePromoted(B)
  <1>1. /\ Proper(A) /\ Proper(B) /\ Len(B) = l /\ l \in Nat /\ l > 1
        /\ Proper(U) /\ Proper(V) /\ Len(U) = m /\ Len(V) = m
    BY AboveIs, AbovePromotedIs DEF Abreast, Proper
  <1>2. h \in Nat /\ h + 1 \in 0 .. n /\ h + 1 \in 1 .. n /\ (h + 1) - 1 = h /\ h \in 0 .. n
    OBVIOUS
  <1>3. m \in Nat /\ m >= 1
    BY <1>1
  <1>4. \A x, y : HashPair(x, y) \in P[h + 1] <=> x \in P[h] /\ y \in P[h]
    BY <1>2, PairHeight
  <1>5. ASSUME NEW k \in 1 .. m PROVE U[k] \in P[h + 1]
    <2>1. PICK i \in 1 .. l, j \in 1 .. l : U[k] = HashPair(A[i], A[j])
      BY <1>1, AboveFrom
    <2>2. QED
      BY <1>4, <2>1 DEF Abreast
  <1>6. ASSUME NEW k \in 1 .. m - 1 PROVE V[k] \in P[h + 1]
    <2>1. k \in 1 .. m /\ k < m
      BY <1>3
    <2>2. PICK i \in 1 .. l - 1, j \in 1 .. l - 1 : V[k] = HashPair(B[i], B[j])
      BY <1>1, <2>1, AboveFrom
    <2>3. QED
      BY <1>4, <2>2 DEF Abreast
  <1>7. V[m] = IF l % 2 = 1 THEN B[l] ELSE HashPair(B[l - 1], B[l])
    <2>1. m \in 1 .. m
      BY <1>3
    <2>2. QED
      BY <1>1, <2>1, AboveFrom
  <1>8. CASE A = B /\ n = l * 2^h /\ l % 2 # 1
    <2>1. ASSUME NEW k \in 1 .. m PROVE U[k] = V[k]
      <3>1. /\ U[k] = HashPair(A[2 * k - 1], A[2 * k])
            /\ V[k] = HashPair(B[2 * k - 1], B[2 * k])
        BY <1>1, <1>8, AboveEven
      <3>2. QED
        BY <1>8, <3>1, Zenon
    <2>2. U = V
      <3>1. U = [k \in 1 .. m |-> U[k]] /\ V = [k \in 1 .. m |-> V[k]]
        BY <1>1 DEF Above, AbovePromoted
      <3> HIDE DEF U, V, m
      <3>2. [k \in 1 .. m |-> U[k]] = [k \in 1 .. m |-> V[k]]
        BY <2>1
      <3>3. QED
        BY <3>1, <3>2, Zenon
    <2>3. l = 2 * m
      BY <1>1, <1>8
    <2> HIDE DEF l, m, U, V
    <2>4. n = m * 2^(h + 1)
      <3> DEFINE p == 2^h
      <3>1. p \in Nat /\ 2^(h + 1) = 2 * p
        BY <1>2, Hashing!PowerOfTwo
      <3>2. n = (2 * m) * p
        BY <1>8, <2>3
      <3> HIDE DEF p
      <3>3. (2 * m) * p = m * (2 * p)
        BY <1>3, <3>1, Z3T(30)
      <3>4. QED
        BY <3>1, <3>2, <3>3
    <2>5. QED
      BY <1>1, <1>2, <1>5, <1>6, <2>2, <2>4 DEF Abreast, U, V
  <1>9. CASE A = B /\ n = l * 2^h /\ l % 2 = 1
    <2>1. V[m] = B[l]
      BY <1>7, <1>9
    <2>2. B[l] \in P[h]
      BY <1>1, <1>9 DEF Abreast
    <2>3. \A j \in h + 1 .. n : V[m] \notin P[j]
      <3>1. \A j \in h + 1 .. n : j \in 0 .. n /\ h < j
        BY <1>2
      <3>2. QED
        BY <1>2, <2>1, <2>2, <3>1, HeightsDiffer
    <2>4. \A k \in Nat : n # 2^k
      BY <1>1, <1>2, <1>9, OddNoPower
    <2> HIDE DEF l, m, U, V
    <2>5. QED
      BY <1>1, <1>2, <1>5, <1>6, <2>3, <2>4 DEF Abreast, U, V
  <1>10. CASE (\A j \in h .. n : B[l] \notin P[j]) /\ (\A k \in Nat : n # 2^k)
    <2>1. ASSUME NEW j \in h + 1 .. n, V[m] \in P[j] PROVE FALSE
      <3>1. j \in 1 .. n /\ j \in h .. n /\ j - 1 \in h .. n
        BY <1>2
      <3>2. CASE l % 2 = 1
        BY <1>7, <1>10, <2>1, <3>1, <3>2
      <3>3. CASE l % 2 # 1
        <4>1. HashPair(B[l - 1], B[l]) \in P[j]
          BY <1>7, <2>1, <3>3
        <4>2. B[l] \in P[j - 1]
          BY <3>1, <4>1, PairHeight
        <4>3. QED
          BY <1>10, <3>1, <4>2
      <3>4. QED
        BY <3>2, <3>3
    <2> HIDE DEF l, m, U, V
    <2>2. QED
      BY <1>1, <1>2, <1>5, <1>6, <1>10, <2>1 DEF Abreast, U, V
  <1>11. QED
    BY <1>8, <1>9, <1>10 DEF Abreast

LEMMA LevelsAbreast ==
    ASSUME NEW ls, Proper(ls), NEW P, Heights(P, Range(ls), Len(ls)), NotPaired(Range(ls))
    PROVE  \A k \in 1 .. Len(ls) :
              \E h \in 0 .. k - 1 : Abreast(Levels(ls)[k], Promoted(ls)[k], h, P, Len(ls))
  <1> DEFINE n == Len(ls)
             A(k) == Levels(ls)[k]
             B(k) == Promoted(ls)[k]
             Q == {i \in Nat : i + 1 \in 1 .. n => \E h \in 0 .. i : Abreast(A(i + 1), B(i + 1), h, P, n)}
  <1>1. n \in Nat \ {0}
    BY ProperLen
  <1>2. 0 \in Q
    <2>1. A(1) = ls /\ B(1) = ls
      BY <1>1, LevelsAt, PromotedAt
    <2>2. P[0] = Range(ls) /\ \A i \in 1 .. n : ls[i] \in Range(ls)
      BY DEF Heights, Range, Proper
    <2>3. 2^0 = 1
      OBVIOUS
    <2>4. n = n * 2^0 /\ 0 \in 0 .. n
      BY <1>1, <2>3
    <2>5. \A i \in 1 .. n - 1 : i \in 1 .. n
      BY <1>1
    <2>6. Abreast(ls, ls, 0, P, n)
      BY <2>2, <2>4, <2>5 DEF Abreast
    <2>7. 0 + 1 = 1 /\ 0 \in 0 .. 0
      OBVIOUS
    <2> HIDE DEF n, A, B
    <2>8. QED
      BY <2>1, <2>6, <2>7
  <1>3. ASSUME NEW i \in Nat, i \in Q PROVE i + 1 \in Q
    <2>1. ASSUME (i + 1) + 1 \in 1 .. n
          PROVE  \E h \in 0 .. i + 1 : Abreast(A((i + 1) + 1), B((i + 1) + 1), h, P, n)
      <3>1. (i + 1) + 1 \in 2 .. n /\ ((i + 1) + 1) - 1 = i + 1 /\ i + 1 \in 1 .. n
        BY <1>1, <2>1
      <3>2. PICK h \in 0 .. i : Abreast(A(i + 1), B(i + 1), h, P, n)
        BY <1>3, <3>1
      <3>3. /\ A((i + 1) + 1) = Climb(ls[(i + 1) + 1], A(i + 1))
            /\ B((i + 1) + 1) = ClimbPromoted(ls[(i + 1) + 1], B(i + 1))
        BY <1>1, <3>1, LevelsAt, PromotedAt
      <3>4. h \in 0 .. n - 1 /\ h + 1 \in 0 .. i + 1 /\ h \in 0 .. i + 1
        BY <1>1, <3>1
      <3>5. Len(A(i + 1)) = Len(B(i + 1))
        BY <3>2 DEF Abreast
      <3> HIDE DEF n, A, B
      <3>6. CASE Len(A(i + 1)) > 1
        <4>1. Abreast(Above(A(i + 1)), AbovePromoted(B(i + 1)), h + 1, P, n)
          BY <1>1, <3>2, <3>4, <3>6, AbreastStep DEF n
        <4>2. QED
          BY <3>3, <3>4, <3>5, <3>6, <4>1 DEF Climb, ClimbPromoted
      <3>7. CASE ~(Len(A(i + 1)) > 1)
        BY <3>2, <3>3, <3>4, <3>5, <3>7 DEF Climb, ClimbPromoted
      <3>8. QED
        BY <3>6, <3>7
    <2>2. QED
      BY <2>1
  <1>4. Nat \subseteq Q
    <2> HIDE DEF Q
    <2> QED BY <1>2, <1>3, Hashing!NumberInduction
  <1>5. ASSUME NEW k \in 1 .. n
        PROVE  \E h \in 0 .. k - 1 : Abreast(A(k), B(k), h, P, n)
    <2>1. k - 1 \in Nat /\ (k - 1) + 1 = k
      OBVIOUS
    <2> HIDE DEF n, A, B
    <2>2. QED
      BY <1>4, <2>1
  <1>6. QED
    BY <1>5

LEMMA AgreeForPowers ==
    ASSUME NEW ls, Proper(ls), NotPaired(Range(ls))
    PROVE  RootsAgree(ls)
  <1> DEFINE n == Len(ls)
             A == Levels(ls)[n]
             B == Promoted(ls)[n]
  <1>1. n \in Nat \ {0} /\ n \in 1 .. n
    BY ProperLen
  <1>2. PICK P : Heights(P, Range(ls), n)
    BY <1>1, HeightsExist
  <1>3. PICK h \in 0 .. n - 1 : Abreast(A, B, h, P, n)
    BY <1>1, <1>2, LevelsAbreast
  <1>4. Len(A) = 1
    BY LevelsRise, LevelsProper
  <1>5. BuildMerkleTree(ls) = A[1]
    BY DEF BuildMerkleTree
  <1>6. getHexRoot(ls) = B[1]
    BY Zenon DEF getHexRoot, Promoted
  <1> HIDE DEF n, A, B
  <1>7. A[1] \in P[h]
    BY <1>3, <1>4 DEF Abreast
  <1>8. CASE A = B /\ n = 1 * 2^h
    <2>1. 2^h \in Nat
      BY <1>3, Hashing!PowerOfTwo
    <2>2. n = 2^h /\ h \in 0 .. n
      BY <1>1, <1>8, <2>1
    <2>3. QED
      BY <1>5, <1>6, <1>8, <2>2 DEF RootsAgree, n
  <1>9. CASE (\A j \in h .. n : B[1] \notin P[j]) /\ (\A k \in Nat : n # 2^k)
    <2>1. h \in h .. n /\ \A k \in 0 .. n : k \in Nat
      BY <1>1
    <2>2. A[1] # B[1]
      BY <1>7, <1>9, <2>1
    <2>3. QED
      BY <1>5, <1>6, <1>9, <2>1, <2>2 DEF RootsAgree, n
  <1>10. QED
    BY <1>3, <1>4, <1>8, <1>9 DEF Abreast

-----------------------------------------------------------------------------
(* The lists of leaves of MCMerkle. *)

TreeInv == leafList \in Seq(Leaves)

LEMMA TreeInvariance == TreeSpec => []TreeInv
  <1>1. TreeInit => TreeInv
    BY DEF TreeInit, TreeInv
  <1>2. TreeInv /\ [AddLeaf]_leafList => TreeInv'
    BY DEF AddLeaf, TreeInv
  <1>3. QED
    BY <1>1, <1>2, PTL DEF TreeSpec

LEMMA SequenceIsProper ==
    ASSUME NEW S, NEW t \in Seq(S), t # <<>>
    PROVE  Proper(t) /\ Range(t) \subseteq S
  BY DEF Proper, Range

\* Every leaf of a list of any length, duplicates and odd levels included, has a
\* proof that VerifyMerkleProof accepts (MerkleComplete).
THEOREM EveryLeafVerifies == TreeSpec => []MerkleComplete
  <1>1. TreeInv => MerkleComplete
    BY SequenceIsProper, GoComplete DEF TreeInv, MerkleComplete, Complete
  <1>2. QED
    BY <1>1, TreeInvariance, PTL

\* VerifyMerkleProof accepts no leaf that is not in the tree, whatever the list
\* and the proof, if no leaf is the hash of a pair (MerkleSound).
THEOREM NoForgery ==
    ASSUME NotPaired(Leaves \cup {Stranger})
    PROVE  TreeSpec => []MerkleSound
  <1>1. TreeInv => MerkleSound
    <2> SUFFICES ASSUME TreeInv, leafList # <<>>,
                        NEW leaf \in (Leaves \cup {Stranger}) \ Range(leafList),
                        NEW n \in 0 .. Len(leafList),
                        NEW proof \in [1 .. n -> Nodes(leafList) \cup (Leaves \cup {Stranger})],
                        VerifyMerkleProof(proof, BuildMerkleTree(leafList), leaf)
                 PROVE  FALSE
      BY DEF MerkleSound, SoundFor
    <2>1. Proper(leafList) /\ Range(leafList) \subseteq Leaves
      BY SequenceIsProper DEF TreeInv
    <2>2. Rises(Levels(leafList), leafList)
      BY <2>1, LevelsRise
    <2>3. NotPaired(Range(leafList) \cup {leaf})
      BY <2>1 DEF NotPaired
    <2>4. DOMAIN proof \subseteq Int /\ IsFiniteSet(DOMAIN proof)
      BY FS_Interval DEF TreeInv
    <2>5. QED
      BY <2>1, <2>2, <2>3, <2>4, SoundIn DEF BuildMerkleTree
  <1>2. QED
    BY <1>1, TreeInvariance, PTL

\* BuildMerkleTree and merkletreejs give the same root for 1, 2, 4, 8, ... leaves
\* and for no other number, whatever the leaves are, as long as none is itself a
\* digest of two nodes (MerkleRootsAgree).
THEOREM RootsForPowersOfTwo ==
    ASSUME NotPaired(Leaves)
    PROVE  TreeSpec => []MerkleRootsAgree
  <1>1. TreeInv => MerkleRootsAgree
    <2> SUFFICES ASSUME TreeInv, leafList # <<>> PROVE RootsAgree(leafList)
      BY DEF MerkleRootsAgree
    <2>1. Proper(leafList) /\ Range(leafList) \subseteq Leaves
      BY SequenceIsProper DEF TreeInv
    <2>2. NotPaired(Range(leafList))
      BY <2>1 DEF NotPaired
    <2>3. QED
      BY <2>1, <2>2, AgreeForPowers
  <1>2. QED
    BY <1>1, TreeInvariance, PTL

-----------------------------------------------------------------------------
(* Sums over accounts. *)

Add(x, y) == x + y
AnyOf(S) == CHOOSE x \in S : TRUE

Adding == INSTANCE FoldTheorems WITH Op <- Add, Choose <- AnyOf

LEMMA SumIsFold ==
    ASSUME NEW f PROVE SumOf(f) = Adding!Fold(0, f, DOMAIN f)
  BY Zenon DEF SumOf, Adding!Fold, Adding!Iterates, FoldFunction, FoldFunctionOnSet,
               MapThenFoldSet, Add, AnyOf

LEMMA CallersFoldable ==
    /\ Adding!Commutes(Int) /\ Adding!Closed(Int)
    /\ \A S \in SUBSET Callers : Adding!Foldable(S)
  <1>1. ASSUME NEW S \in SUBSET Callers PROVE Adding!Foldable(S)
    <2>1. IsFiniteSet(S)
      BY NFTAssumption, FS_Subset
    <2>2. Adding!IsFiniteSet(S)
      BY <2>1 DEF IsFiniteSet, Adding!IsFiniteSet
    <2>3. QED
      BY <2>2 DEF Adding!Foldable, AnyOf
  <1>2. Adding!Commutes(Int) /\ Adding!Closed(Int)
    BY DEF Adding!Commutes, Adding!Closed, Add
  <1>3. QED
    BY <1>1, <1>2

LEMMA SumOfZero == SumOf([a \in Callers |-> 0]) = 0
  <1> DEFINE f == [a \in Callers |-> 0]
  <1>1. Adding!Closed({0})
    BY DEF Adding!Closed, Add
  <1>2. \A a \in Callers : f[a] \in {0}
    OBVIOUS
  <1> HIDE DEF f
  <1>3. Adding!Fold(0, f, Callers) \in {0}
    BY <1>1, <1>2, CallersFoldable, Adding!FoldType
  <1>4. SumOf(f) = Adding!Fold(0, f, Callers)
    BY SumIsFold DEF f
  <1>5. QED
    BY <1>3, <1>4 DEF f

LEMMA SumOfType == ASSUME NEW f \in [Callers -> Nat] PROVE SumOf(f) \in Int
  <1>1. /\ 0 \in Int /\ Adding!Closed(Int) /\ Adding!Foldable(Callers)
        /\ DOMAIN f = Callers /\ \A x \in Callers : f[x] \in Int
    BY CallersFoldable
  <1>2. Adding!Fold(0, f, Callers) \in Int
    BY <1>1, Adding!FoldType
  <1>3. QED
    BY <1>1, <1>2, SumIsFold

LEMMA SumOfUpdate ==
    ASSUME NEW f \in [Callers -> Nat], NEW a \in Callers, NEW n \in Nat
    PROVE  /\ SumOf(f) \in Int
           /\ SumOf([f EXCEPT ![a] = @ + n]) = SumOf(f) + n
  <1> DEFINE h == [f EXCEPT ![a] = @ + n]
  <1>1. /\ DOMAIN f = Callers /\ DOMAIN h = Callers
        /\ \A x \in Callers : f[x] \in Int
        /\ h[a] = f[a] + n /\ h[a] \in Int
        /\ \A x \in Callers \ {a} : h[x] = f[x]
    OBVIOUS
  <1> HIDE DEF h
  <1>2. /\ 0 \in Int /\ Adding!Commutes(Int) /\ Adding!Closed(Int)
        /\ Adding!Foldable(Callers) /\ Adding!Foldable(Callers \ {a})
        /\ \A x \in Callers : h[x] \in Int
    BY <1>1, CallersFoldable
  <1> DEFINE r == Adding!Fold(0, f, Callers \ {a})
  <1>3. r \in Int
    BY <1>1, <1>2, Adding!FoldType
  <1>4. Adding!Fold(0, h, Callers \ {a}) = r
    BY <1>1, <1>2, Adding!FoldSame
  <1>5. Adding!Fold(0, f, Callers) = Add(f[a], r)
    BY <1>1, <1>2, Adding!FoldAny
  <1>6. Adding!Fold(0, h, Callers) = Add(h[a], Adding!Fold(0, h, Callers \ {a}))
    BY <1>1, <1>2, Adding!FoldAny
  <1> HIDE DEF r
  <1>7. SumOf(f) = Adding!Fold(0, f, Callers) /\ SumOf(h) = Adding!Fold(0, h, Callers)
    BY <1>1, SumIsFold
  <1>8. SumOf(f) \in Int /\ SumOf(h) = SumOf(f) + n
    BY <1>1, <1>3, <1>4, <1>5, <1>6, <1>7 DEF Add
  <1>9. QED
    BY <1>8 DEF h

-----------------------------------------------------------------------------
(* The invariant: what holds of the storage with pending tokens still to be *)
(* delivered, and of the storage that a failing receiver brings back.       *)

Fields == {"totalSupply", "wlMintActive", "publicMintActive", "merkleRoot",
           "wlMintedCount", "publicMintedCount", "ownerOf", "balance",
           "withdrawn", "list", "tool", "everListed"}

Typed(st) ==
    /\ DOMAIN st = Fields
    /\ st.totalSupply \in Nat /\ st.balance \in Nat /\ st.withdrawn \in Nat
    /\ st.wlMintedCount \in [Callers -> Nat]
    /\ st.publicMintedCount \in [Callers -> Nat]

PaidFor(st) ==
    /\ st.totalSupply = SumOf(st.wlMintedCount) + SumOf(st.publicMintedCount)
    /\ st.totalSupply <= MAX_SUPPLY
    /\ \A a \in Callers : /\ st.wlMintedCount[a] <= MAX_PER_WL
                          /\ st.publicMintedCount[a] <= MAX_PER_PUBLIC
    /\ st.balance + st.withdrawn =
          WL_PRICE * SumOf(st.wlMintedCount) + PUBLIC_PRICE * SumOf(st.publicMintedCount)

Listed(st) ==
    /\ \A a \in Callers : st.wlMintedCount[a] > 0 => a \in st.everListed
    /\ \/ st.tool = "none" /\ st.merkleRoot = [zero |-> 0] /\ st.list = <<>>
       \/ /\ st.tool \in Tools /\ st.list \in AllowLists
          /\ st.merkleRoot = RootBy(st.tool, st.list)
          /\ Range(st.list) \subseteq st.everListed

Consistent(st, pending) ==
    /\ Typed(st) /\ PaidFor(st) /\ Listed(st)
    /\ pending <= st.totalSupply
    /\ DOMAIN st.ownerOf = 1 .. st.totalSupply - pending

Frame(a, quantity, i, saved) ==
    [to |-> a, quantity |-> quantity, i |-> i, saved |-> saved]

\* The token at which the mint stands is the last one that exists.
Minting(a, quantity, i, saved) ==
    /\ frames = <<Frame(a, quantity, i, saved)>>
    /\ Consistent(s, quantity - i)
    /\ Consistent(saved, 0)

Inv ==
    \/ frames = <<>> /\ Consistent(s, 0)
    \/ \E saved : \E a \in Callers, quantity \in Nat : \E i \in 1 .. quantity :
          Minting(a, quantity, i, saved)

LEMMA OneFrame ==
    ASSUME NEW fr
    PROVE  /\ <<fr>> # <<>> /\ Last(<<fr>>) = fr /\ Front(<<fr>>) = <<>>
           /\ Append(<<>>, fr) = <<fr>>
  BY DEF Last, Front

LEMMA InitInv == Init => Inv
  <1> SUFFICES ASSUME Init PROVE Consistent(s, 0)
    BY DEF Init, Inv
  <1>1. Typed(s)
    BY DEF Init, Typed, Fields
  <1>2. PaidFor(s)
    BY SumOfZero, NFTAssumption DEF Init, PaidFor
  <1>3. Listed(s)
    BY DEF Init, Listed
  <1>4. 0 <= s.totalSupply /\ DOMAIN s.ownerOf = 1 .. s.totalSupply - 0
    BY DEF Init
  <1>5. QED
    BY <1>1, <1>2, <1>3, <1>4 DEF Consistent

\* What an owner's call does to the storage during a mint it does between mints.
LEMMA OwnerStep ==
    ASSUME NEW pending \in Nat, Consistent(s, pending),
           \/ \E tool \in Tools, list \in AllowLists : setMerkleRoot(tool, list)
           \/ toggleWlMint \/ togglePublicMint \/ withdraw
    PROVE  Consistent(s', pending)
  <1>1. ASSUME NEW tool \in Tools, NEW list \in AllowLists, setMerkleRoot(tool, list)
        PROVE  Consistent(s', pending)
    <2>1. s' = [s EXCEPT !.merkleRoot = RootBy(tool, list), !.list = list,
                         !.tool = tool, !.everListed = @ \cup Range(list)]
      BY <1>1 DEF setMerkleRoot
    <2>2. /\ Typed(s') /\ PaidFor(s') /\ pending <= s'.totalSupply
          /\ DOMAIN s'.ownerOf = 1 .. s'.totalSupply - pending
      BY <2>1 DEF Consistent, Typed, PaidFor, Fields
    <2>3. Listed(s')
      BY <2>1 DEF Consistent, Typed, Listed, Fields
    <2>4. QED
      BY <2>2, <2>3 DEF Consistent
  <1>2. CASE toggleWlMint \/ togglePublicMint
    BY <1>2 DEF toggleWlMint, togglePublicMint, Consistent, Typed, PaidFor, Listed, Fields
  <1>3. CASE withdraw
    BY <1>3 DEF withdraw, Consistent, Typed, PaidFor, Listed, Fields
  <1>4. QED
    BY <1>1, <1>2, <1>3

\* The next token of a mint does not exist yet, so that the loop goes on.
LEMMA NextToken ==
    ASSUME NEW st, NEW a \in Callers, NEW quantity \in Nat, NEW i \in 0 .. quantity - 1,
           NEW saved, Consistent(saved, 0), Consistent(st, quantity - i),
           SafeMint(st, Frame(a, quantity, i, saved), <<>>)
    PROVE  Inv'
  <1> DEFINE id == st.totalSupply - quantity + i + 1
  <1>1. TokenId(st, Frame(a, quantity, i, saved)) = id
    BY DEF TokenId, Frame
  <1>2. /\ id \in Int /\ st.totalSupply \in Nat
        /\ DOMAIN st.ownerOf = 1 .. id - 1
    BY DEF Consistent, Typed
  <1>3. id \notin DOMAIN st.ownerOf
    BY <1>2
  <1>4. /\ s' = [st EXCEPT !.ownerOf = Given(@, id, a)]
        /\ frames' = Append(<<>>, [Frame(a, quantity, i, saved) EXCEPT !.i = @ + 1])
    BY <1>1, <1>3 DEF SafeMint, Frame
  <1>5. frames' = <<Frame(a, quantity, i + 1, saved)>>
    <2>1. [Frame(a, quantity, i, saved) EXCEPT !.i = @ + 1] = Frame(a, quantity, i + 1, saved)
      BY DEF Frame
    <2>2. QED
      BY <1>4, <2>1, OneFrame
  <1> HIDE DEF id
  <1>6. s'.ownerOf = Given(st.ownerOf, id, a) /\ s'.totalSupply = st.totalSupply
    BY <1>4 DEF Consistent, Typed, Fields
  <1>7. DOMAIN s'.ownerOf = 1 .. id
    <2>1. id >= 1
      BY <1>2 DEF Consistent, id
    <2>2. DOMAIN s'.ownerOf = DOMAIN st.ownerOf \cup {id}
      BY <1>6 DEF Given
    <2>3. QED
      BY <1>2, <2>1, <2>2
  <1>8. Typed(s') /\ PaidFor(s') /\ Listed(s')
    BY <1>4 DEF Consistent, Typed, PaidFor, Listed, Fields
  <1>9. Consistent(s', quantity - (i + 1))
    BY <1>2, <1>6, <1>7, <1>8 DEF Consistent, id
  <1>10. QED
    BY <1>5, <1>9 DEF Inv, Minting

\* A mint that is called between transactions, whichever price it is at: st is
\* the storage after its effects.
LEMMA MintStarts ==
    ASSUME Consistent(s, 0), frames = <<>>, NEW a \in Callers,
           NEW quantity \in 1 .. MAX_SUPPLY, s.totalSupply + quantity <= MAX_SUPPLY,
           NEW st, DOMAIN st = Fields, st.ownerOf = s.ownerOf,
           st.totalSupply = s.totalSupply,
           Consistent([st EXCEPT !.totalSupply = @ + quantity], quantity),
           StartMint(a, quantity, st)
    PROVE  Inv'
  <1>1. quantity \in Nat /\ 0 \in 0 .. quantity - 1 /\ quantity - 0 = quantity
    BY NFTAssumption
  <1>2. SafeMint([st EXCEPT !.totalSupply = @ + quantity],
                 Frame(a, quantity, 0, s), <<>>)
    BY DEF StartMint, Frame
  <1>3. QED
    BY <1>1, <1>2, NextToken

\* The mints at one price (count, within limit), those at the other one, and
\* what was paid for both.
Pays(count, price, limit, other, otherPrice, paid) ==
    /\ count \in [Callers -> Nat] /\ other \in [Callers -> Nat]
    /\ price \in Nat /\ otherPrice \in Nat /\ limit \in Nat
    /\ \A b \in Callers : count[b] <= limit
    /\ SumOf(count) \in Int /\ SumOf(other) \in Int
    /\ paid = price * SumOf(count) + otherPrice * SumOf(other)

LEMMA PaysStep ==
    ASSUME NEW count, NEW price, NEW limit, NEW other, NEW otherPrice, NEW paid,
           Pays(count, price, limit, other, otherPrice, paid),
           NEW a \in Callers, NEW quantity \in Nat, count[a] + quantity <= limit,
           NEW after, after = [count EXCEPT ![a] = @ + quantity]
    PROVE  /\ Pays(after, price, limit, other, otherPrice, paid + price * quantity)
           /\ SumOf(after) = SumOf(count) + quantity
           /\ price * quantity \in Nat
  <1>1. after \in [Callers -> Nat] /\ \A b \in Callers : after[b] <= limit
    BY DEF Pays
  <1>2. SumOf(after) = SumOf(count) + quantity
    BY SumOfUpdate DEF Pays
  <1>3. price * quantity \in Nat
    BY DEF Pays
  <1>4. price * (SumOf(count) + quantity) = price * SumOf(count) + price * quantity
    BY DEF Pays
  <1>5. price * SumOf(count) \in Int /\ otherPrice * SumOf(other) \in Int
    BY DEF Pays
  <1>6. paid + price * quantity = price * SumOf(after) + otherPrice * SumOf(other)
    BY <1>2, <1>3, <1>4, <1>5 DEF Pays
  <1>7. SumOf(after) \in Int
    BY <1>2 DEF Pays
  <1>8. QED
    BY <1>1, <1>2, <1>3, <1>6, <1>7 DEF Pays

LEMMA PaysSwap ==
    ASSUME NEW count, NEW price, NEW limit, NEW other, NEW otherPrice, NEW paid,
           NEW otherLimit \in Nat, \A b \in Callers : other[b] <= otherLimit,
           Pays(count, price, limit, other, otherPrice, paid)
    PROVE  Pays(other, otherPrice, otherLimit, count, price, paid)
  <1>1. price * SumOf(count) \in Int /\ otherPrice * SumOf(other) \in Int
    BY DEF Pays
  <1>2. QED
    BY <1>1 DEF Pays

\* PaidFor in these terms.
LEMMA PaidForPays ==
    ASSUME NEW st, Typed(st)
    PROVE  PaidFor(st) <=>
              /\ st.totalSupply = SumOf(st.wlMintedCount) + SumOf(st.publicMintedCount)
              /\ st.totalSupply <= MAX_SUPPLY
              /\ \A a \in Callers : st.publicMintedCount[a] <= MAX_PER_PUBLIC
              /\ Pays(st.wlMintedCount, WL_PRICE, MAX_PER_WL,
                      st.publicMintedCount, PUBLIC_PRICE, st.balance + st.withdrawn)
  <1>1. SumOf(st.wlMintedCount) \in Int /\ SumOf(st.publicMintedCount) \in Int
    BY SumOfType DEF Typed
  <1>2. WL_PRICE \in Nat /\ PUBLIC_PRICE \in Nat /\ MAX_PER_WL \in Nat
    BY NFTAssumption
  <1>3. QED
    BY <1>1, <1>2 DEF Typed, PaidFor, Pays

LEMMA ConsistentMint ==
    ASSUME NEW st, NEW su, Consistent(st, 0), NEW quantity \in Nat,
           Typed(su), PaidFor(su), Listed(su),
           su.totalSupply = st.totalSupply + quantity, su.ownerOf = st.ownerOf
    PROVE  Consistent(su, quantity)
  BY DEF Consistent, Typed

LEMMA PublicMintInv ==
    ASSUME Inv, NEW a \in Callers, NEW quantity \in 1 .. MAX_SUPPLY,
           publicMint(a, quantity)
    PROVE  Inv'
  <1> DEFINE st == [s EXCEPT !.publicMintedCount[a] = @ + quantity,
                             !.balance = @ + PUBLIC_PRICE * quantity]
             su == [st EXCEPT !.totalSupply = @ + quantity]
  <1>1. frames = <<>> /\ Consistent(s, 0)
    BY OneFrame DEF publicMint, nonReentrant, Inv, Minting
  <1>2. /\ s.totalSupply + quantity <= MAX_SUPPLY
        /\ s.publicMintedCount[a] + quantity <= MAX_PER_PUBLIC
    BY DEF publicMint, MayMint
  <1>3. StartMint(a, quantity, st)
    BY DEF publicMint
  <1>4. /\ DOMAIN st = Fields /\ st.ownerOf = s.ownerOf /\ st.totalSupply = s.totalSupply
        /\ DOMAIN su = Fields
        /\ su.ownerOf = s.ownerOf /\ su.totalSupply = s.totalSupply + quantity
        /\ su.publicMintedCount = [s.publicMintedCount EXCEPT ![a] = @ + quantity]
        /\ su.wlMintedCount = s.wlMintedCount /\ su.withdrawn = s.withdrawn
        /\ su.balance = s.balance + PUBLIC_PRICE * quantity
        /\ su.merkleRoot = s.merkleRoot /\ su.list = s.list /\ su.tool = s.tool
        /\ su.everListed = s.everListed
    BY <1>1 DEF Consistent, Typed, Fields
  <1> HIDE DEF su, st
  <1> DEFINE public == s.publicMintedCount
             wl == s.wlMintedCount
             after == su.publicMintedCount
             paid == s.balance + s.withdrawn
  <1>5. /\ quantity \in Nat /\ MAX_PER_PUBLIC \in Nat /\ MAX_PER_WL \in Nat
        /\ s.balance \in Nat /\ s.withdrawn \in Nat /\ s.totalSupply \in Nat
    BY <1>1, NFTAssumption DEF Consistent, Typed
  <1>6. Typed(s) /\ PaidFor(s)
    BY <1>1 DEF Consistent
  <1>7. Pays(wl, WL_PRICE, MAX_PER_WL, public, PUBLIC_PRICE, paid)
    BY <1>6, PaidForPays
  <1>8. Pays(public, PUBLIC_PRICE, MAX_PER_PUBLIC, wl, WL_PRICE, paid)
    BY <1>5, <1>6, <1>7, PaysSwap DEF PaidFor
  <1>9. /\ Pays(after, PUBLIC_PRICE, MAX_PER_PUBLIC, wl, WL_PRICE,
                paid + PUBLIC_PRICE * quantity)
        /\ SumOf(after) = SumOf(public) + quantity /\ PUBLIC_PRICE * quantity \in Nat
    BY <1>2, <1>4, <1>5, <1>8, PaysStep
  <1>10. Pays(wl, WL_PRICE, MAX_PER_WL, after, PUBLIC_PRICE, paid + PUBLIC_PRICE * quantity)
    BY <1>5, <1>6, <1>9, PaysSwap DEF PaidFor
  <1>11. Typed(su)
    BY <1>4, <1>5, <1>6, <1>9 DEF Typed, Pays
  <1>12. PaidFor(su)
    <2>1. su.totalSupply = SumOf(wl) + SumOf(after)
      BY <1>4, <1>5, <1>6, <1>8, <1>9 DEF Pays, PaidFor
    <2>2. su.balance + su.withdrawn = paid + PUBLIC_PRICE * quantity
      BY <1>4, <1>5, <1>9
    <2>3. \A b \in Callers : after[b] <= MAX_PER_PUBLIC
      BY <1>9 DEF Pays
    <2>4. QED
      BY <1>2, <1>4, <1>10, <1>11, <2>1, <2>2, <2>3, PaidForPays
  <1>13. Listed(su)
    BY <1>1, <1>4 DEF Consistent, Listed
  <1>14. Consistent(su, quantity)
    BY <1>1, <1>4, <1>5, <1>11, <1>12, <1>13, ConsistentMint
  <1>15. QED
    BY <1>1, <1>2, <1>3, <1>4, <1>14, MintStarts DEF su

LEMMA LeavesNotPaired ==
    ASSUME NEW encoding, NEW list, list \in AllowLists
    PROVE  /\ Proper(LeavesOf(encoding, list))
           /\ Len(LeavesOf(encoding, list)) = Len(list)
           /\ \A b : NotPaired(Range(LeavesOf(encoding, list)) \cup {Leaf(b)})
  <1>1. Len(list) \in Nat \ {0} /\ DOMAIN list = 1 .. Len(list)
    BY NFTAssumption
  <1>2. /\ DOMAIN LeavesOf(encoding, list) = 1 .. Len(list)
        /\ LeavesOf(encoding, list) = [k \in 1 .. Len(list) |-> LeavesOf(encoding, list)[k]]
    BY <1>1 DEF LeavesOf
  <1>3. ASSUME NEW x, NEW y, NEW e, NEW b PROVE LeafOf(e, b) # HashPair(x, y)
    <2>1. DOMAIN LeafOf(e, b) = {"leaf"} /\ DOMAIN HashPair(x, y) = {"pair"}
      BY DEF LeafOf, HashPair
    <2>2. QED
      BY <2>1
  <1>4. \A b : NotPaired(Range(LeavesOf(encoding, list)) \cup {Leaf(b)})
    BY <1>1, <1>3 DEF LeavesOf, Leaf, NotPaired, Range
  <1>5. QED
    BY <1>1, <1>2, <1>4, FunctionIsProper

LEMMA ProofsFinite ==
    ASSUME NEW proof \in Proofs
    PROVE  IsFiniteSet(DOMAIN proof) /\ DOMAIN proof \subseteq Int
  <1>1. CASE proof \in ToolProofs
    <2>1. PICK tool \in Tools, list \in AllowLists :
              \E a \in Range(list) : proof = ProofBy(tool, list, a)
      BY <1>1 DEF ToolProofs
    <2>2. PICK encoding, target :
              \/ proof = GetProof(LeavesOf(encoding, list), target)
              \/ proof = getHexProof(LeavesOf(encoding, list), target)
      <3>1. CASE tool = "go"
        BY <2>1, <3>1 DEF ProofBy
      <3>2. CASE tool = "test"
        BY <2>1, <3>2 DEF ProofBy
      <3>3. CASE tool = "script"
        BY <2>1, <3>3 DEF ProofBy
      <3>4. QED
        BY <3>1, <3>2, <3>3 DEF Tools
    <2>3. QED
      BY <2>2, LeavesNotPaired, ProofDomains
  <1>2. CASE proof \notin ToolProofs
    <2>1. PICK n \in 0 .. MaxProof : proof \in [1 .. n -> Digests]
      BY <1>2 DEF Proofs
    <2>2. n \in Nat /\ DOMAIN proof = 1 .. n
      BY <2>1, NFTAssumption
    <2>3. QED
      BY <2>2, FS_Interval
  <1>3. QED
    BY <1>1, <1>2

\* What a root admits: accounts of its list, if its leaves are packed.
LEMMA VerifiedInList ==
    ASSUME NEW tool \in Tools, NEW list \in AllowLists, NEW a, NEW proof \in Proofs,
           VerifyMerkleProof(proof, RootBy(tool, list), Leaf(a))
    PROVE  tool # "script" /\ a \in Range(list)
  <1> DEFINE ls(e) == LeavesOf(e, list)
  <1>1. PICK e \in {"packed", "padded"} :
            /\ tool = "script" => e = "padded"
            /\ tool # "script" => e = "packed"
            /\ \/ RootBy(tool, list) = Levels(ls(e))[Len(ls(e))][1]
               \/ RootBy(tool, list) = Promoted(ls(e))[Len(ls(e))][1]
    <2>1. \A e : getHexRoot(ls(e)) = Promoted(ls(e))[Len(ls(e))][1]
      BY Zenon DEF getHexRoot, Promoted
    <2>2. CASE tool = "go"
      BY <2>2 DEF RootBy, BuildMerkleTree
    <2>3. CASE tool = "test"
      BY <2>1, <2>3 DEF RootBy
    <2>4. CASE tool = "script"
      BY <2>1, <2>4 DEF RootBy
    <2>5. QED
      BY <2>2, <2>3, <2>4 DEF Tools
  <1>2. Proper(ls(e)) /\ NotPaired(Range(ls(e)) \cup {Leaf(a)})
    BY LeavesNotPaired
  <1>3. Leaf(a) \in Range(ls(e))
    BY <1>1, <1>2, LevelsRise, ProofsFinite, SoundIn
  <1>4. PICK k \in DOMAIN list : LeafOf("packed", a) = LeafOf(e, list[k])
    BY <1>3 DEF LeavesOf, Range, Leaf
  <1>5. LeafOf("packed", a).leaf = <<"packed", a>> /\ LeafOf(e, list[k]).leaf = <<e, list[k]>>
    BY DEF LeafOf
  <1>6. <<"packed", a>> = <<e, list[k]>>
    BY <1>4, <1>5
  <1>7. e = "packed" /\ a = list[k]
    BY <1>6
  <1>8. QED
    BY <1>1, <1>4, <1>7 DEF Range

\* Nothing hashes to the root that was never set.
LEMMA ZeroAdmitsNobody ==
    ASSUME NEW a, NEW proof \in Proofs
    PROVE  ~VerifyMerkleProof(proof, [zero |-> 0], Leaf(a))
  <1> DEFINE N == {[zero |-> 0]}
  <1>1. ASSUME NEW t, NEW u, PairWith(t, u) \in N PROVE u \in N
    <2>1. DOMAIN HashPair(u, t) = {"pair"} /\ DOMAIN [zero |-> 0] = {"zero"}
      BY DEF HashPair
    <2>2. QED
      BY <1>1, <2>1 DEF PairWith
  <1>2. Leaf(a) \notin N
    <2>1. DOMAIN Leaf(a) = {"leaf"} /\ DOMAIN [zero |-> 0] = {"zero"}
      BY DEF Leaf, LeafOf
    <2>2. QED
      BY <2>1
  <1>3. Hashing!Foldable(DOMAIN proof)
    BY ProofsFinite, HashingFoldable
  <1> HIDE DEF N
  <1>4. Hashing!Fold(Leaf(a), proof, DOMAIN proof) \notin N
    BY <1>1, <1>2, <1>3, Hashing!FoldBack
  <1>5. QED
    BY <1>4, VerifyIsFold DEF N

\* The proofs that the contract accepts are those of listed accounts.
LEMMA VerifiedListed ==
    ASSUME Listed(s), NEW a \in Callers, NEW proof \in Proofs,
           VerifyMerkleProof(proof, s.merkleRoot, Leaf(a))
    PROVE  a \in s.everListed
  BY VerifiedInList, ZeroAdmitsNobody DEF Listed

LEMMA WlMintInv ==
    ASSUME Inv, NEW a \in Callers, NEW quantity \in 1 .. MAX_SUPPLY,
           NEW proof \in Proofs,
           wlMint(a, quantity, proof)
    PROVE  Inv'
  <1> DEFINE st == [s EXCEPT !.wlMintedCount[a] = @ + quantity,
                             !.balance = @ + WL_PRICE * quantity]
             su == [st EXCEPT !.totalSupply = @ + quantity]
  <1>1. frames = <<>> /\ Consistent(s, 0)
    BY OneFrame DEF wlMint, nonReentrant, Inv, Minting
  <1>2. /\ s.totalSupply + quantity <= MAX_SUPPLY
        /\ s.wlMintedCount[a] + quantity <= MAX_PER_WL
    BY DEF wlMint, MayMint
  <1>3. StartMint(a, quantity, st)
    BY DEF wlMint
  <1>4. /\ DOMAIN st = Fields /\ st.ownerOf = s.ownerOf /\ st.totalSupply = s.totalSupply
        /\ DOMAIN su = Fields
        /\ su.ownerOf = s.ownerOf /\ su.totalSupply = s.totalSupply + quantity
        /\ su.wlMintedCount = [s.wlMintedCount EXCEPT ![a] = @ + quantity]
        /\ su.publicMintedCount = s.publicMintedCount /\ su.withdrawn = s.withdrawn
        /\ su.balance = s.balance + WL_PRICE * quantity
        /\ su.merkleRoot = s.merkleRoot /\ su.list = s.list /\ su.tool = s.tool
        /\ su.everListed = s.everListed
    BY <1>1 DEF Consistent, Typed, Fields
  <1> HIDE DEF su, st
  <1> DEFINE public == s.publicMintedCount
             wl == s.wlMintedCount
             after == su.wlMintedCount
             paid == s.balance + s.withdrawn
  <1>5. /\ quantity \in Nat /\ MAX_PER_WL \in Nat
        /\ s.balance \in Nat /\ s.withdrawn \in Nat /\ s.totalSupply \in Nat
    BY <1>1, NFTAssumption DEF Consistent, Typed
  <1>6. Typed(s) /\ PaidFor(s)
    BY <1>1 DEF Consistent
  <1>7. Pays(wl, WL_PRICE, MAX_PER_WL, public, PUBLIC_PRICE, paid)
    BY <1>6, PaidForPays
  <1>8. /\ Pays(after, WL_PRICE, MAX_PER_WL, public, PUBLIC_PRICE,
                paid + WL_PRICE * quantity)
        /\ SumOf(after) = SumOf(wl) + quantity /\ WL_PRICE * quantity \in Nat
    BY <1>2, <1>4, <1>5, <1>7, PaysStep
  <1>9. Typed(su)
    BY <1>4, <1>5, <1>6, <1>8 DEF Typed, Pays
  <1>10. PaidFor(su)
    <2>1. su.totalSupply = SumOf(after) + SumOf(public)
      BY <1>4, <1>5, <1>6, <1>7, <1>8 DEF Pays, PaidFor
    <2>2. su.balance + su.withdrawn = paid + WL_PRICE * quantity
      BY <1>4, <1>5, <1>8
    <2>3. \A b \in Callers : public[b] <= MAX_PER_PUBLIC
      BY <1>6 DEF PaidFor
    <2>4. QED
      BY <1>2, <1>4, <1>8, <1>9, <2>1, <2>2, <2>3, PaidForPays
  <1>11. Listed(su)
    <2>1. a \in s.everListed
      BY <1>1, VerifiedListed DEF wlMint, Consistent
    <2>2. \A b \in Callers \ {a} : su.wlMintedCount[b] = s.wlMintedCount[b]
      BY <1>4, <1>6 DEF Typed
    <2>3. QED
      BY <1>1, <1>4, <2>1, <2>2 DEF Consistent, Listed
  <1>12. Consistent(su, quantity)
    BY <1>1, <1>4, <1>5, <1>9, <1>10, <1>11, ConsistentMint
  <1>13. QED
    BY <1>1, <1>2, <1>3, <1>4, <1>12, MintStarts DEF su

LEMMA ReceiverInv ==
    ASSUME Inv, ReceiverReturns \/ ReceiverFails
    PROVE  Inv'
  <1>1. frames # <<>>
    BY DEF ReceiverReturns, ReceiverFails
  <1>2. PICK saved : \E a \in Callers, quantity \in Nat : \E i \in 1 .. quantity :
            Minting(a, quantity, i, saved)
    BY <1>1 DEF Inv
  <1> PICK a \in Callers, quantity \in Nat :
          \E i \in 1 .. quantity : Minting(a, quantity, i, saved)
    BY <1>2
  <1>3. PICK i \in 1 .. quantity : Minting(a, quantity, i, saved)
    OBVIOUS
  <1> DEFINE fr == Frame(a, quantity, i, saved)
  <1>4. /\ Last(frames) = fr /\ Front(frames) = <<>>
        /\ fr.quantity = quantity /\ fr.i = i /\ fr.saved = saved
    BY <1>3, OneFrame DEF Minting, Frame
  <1>5. CASE ReceiverFails
    BY <1>3, <1>4, <1>5 DEF ReceiverFails, Inv, Minting
  <1>6. CASE ReceiverReturns /\ i < quantity
    <2>1. SafeMint(s, fr, <<>>)
      BY <1>4, <1>6 DEF ReceiverReturns
    <2>2. i \in 0 .. quantity - 1
      BY <1>6
    <2>3. QED
      BY <1>3, <2>1, <2>2, NextToken DEF Minting
  <1>7. CASE ReceiverReturns /\ ~(i < quantity)
    <2>1. i = quantity /\ quantity - i = 0
      BY <1>7
    <2>2. s' = s /\ frames' = <<>>
      BY <1>4, <1>7 DEF ReceiverReturns
    <2>3. QED
      BY <1>3, <2>1, <2>2 DEF Minting, Inv, Consistent, Typed, PaidFor, Listed
  <1>8. QED
    BY <1>5, <1>6, <1>7

LEMMA OwnerInv ==
    ASSUME Inv,
           \/ \E tool \in Tools, list \in AllowLists : setMerkleRoot(tool, list)
           \/ toggleWlMint \/ togglePublicMint \/ withdraw
    PROVE  Inv'
  <1>1. frames' = frames
    BY DEF setMerkleRoot, toggleWlMint, togglePublicMint, withdraw
  <1>2. CASE frames = <<>> /\ Consistent(s, 0)
    BY <1>1, <1>2, OwnerStep DEF Inv
  <1>3. ASSUME NEW a \in Callers, NEW quantity \in Nat, NEW saved, NEW i \in 1 .. quantity,
               Minting(a, quantity, i, saved)
        PROVE  Inv'
    <2>1. quantity - i \in Nat /\ Consistent(s, quantity - i)
      BY <1>3 DEF Minting
    <2>2. Consistent(s', quantity - i)
      BY <2>1, OwnerStep
    <2>3. Minting(a, quantity, i, saved)'
      BY <1>1, <1>3, <2>2 DEF Minting
    <2>4. QED
      BY <2>3 DEF Inv
  <1>4. QED
    BY <1>2, <1>3 DEF Inv

LEMMA Invariance == Spec => []Inv
  <1>1. ASSUME Inv, [Next]_vars PROVE Inv'
    <2>1. CASE UNCHANGED vars
      BY <1>1, <2>1 DEF vars, Inv, Minting
    <2>2. CASE Next
      BY <1>1, <2>2, PublicMintInv, WlMintInv, ReceiverInv, OwnerInv DEF Next
    <2>3. QED
      BY <1>1, <2>1, <2>2
  <1>2. QED
    BY <1>1, InitInv, PTL DEF Spec

\* The tokens are 1, 2, 3, ... without a gap, but for those that a mint under way
\* has still to deliver, whatever its receiver does (IdsContiguous).
THEOREM NoGapsInIds == Spec => []IdsContiguous
  <1>1. Inv => IdsContiguous
    <2> SUFFICES ASSUME Inv PROVE IdsContiguous
      OBVIOUS
    <2>1. CASE frames = <<>> /\ Consistent(s, 0)
      BY <2>1 DEF Consistent, IdsContiguous
    <2>2. ASSUME NEW a \in Callers, NEW quantity \in Nat, NEW saved,
                 NEW i \in 1 .. quantity, Minting(a, quantity, i, saved)
          PROVE  IdsContiguous
      <3>1. /\ frames # <<>> /\ Last(frames).quantity = quantity /\ Last(frames).i = i
        BY <2>2, OneFrame DEF Minting, Frame
      <3>2. QED
        BY <2>2, <3>1 DEF Minting, Consistent, IdsContiguous
    <2>3. QED
      BY <2>1, <2>2 DEF Inv
  <1>2. QED
    BY <1>1, Invariance, PTL

LEMMA StorageConsistent ==
    ASSUME Inv PROVE Typed(s) /\ PaidFor(s) /\ Listed(s)
  BY DEF Inv, Minting, Consistent

\* Every token is counted against a limit and paid for at its price, reverted
\* mints and withdrawals included, within the supply (SupplyPaidFor).
THEOREM EverythingPaidFor == Spec => []SupplyPaidFor
  <1>1. Inv => SupplyPaidFor
    BY StorageConsistent DEF PaidFor, SupplyPaidFor
  <1>2. QED
    BY <1>1, Invariance, PTL

\* Nobody mints at the allowlist price who was on no published list
\* (OnlyListedMint).
THEOREM NobodyUnlisted == Spec => []OnlyListedMint
  <1>1. Inv => OnlyListedMint
    BY StorageConsistent DEF Listed, OnlyListedMint
  <1>2. QED
    BY <1>1, Invariance, PTL

\* A root of go/merkle or of the tests admits the published list and nobody else,
\* whatever is passed to wlMint as a proof (RootAdmitsList).
THEOREM AdmitsTheList == Spec => []RootAdmitsList
  <1>1. Inv => RootAdmitsList
    <2> SUFFICES ASSUME Inv PROVE RootAdmitsList
      OBVIOUS
    <2>1. Listed(s)
      BY StorageConsistent
    <2>2. CASE s.tool = "none" /\ s.merkleRoot = [zero |-> 0]
      BY <2>2 DEF RootAdmitsList
    <2>3. CASE /\ s.tool \in Tools /\ s.list \in AllowLists
               /\ s.merkleRoot = RootBy(s.tool, s.list)
      <3>1. CASE s.tool = "script"
        BY <3>1 DEF RootAdmitsList
      <3>2. CASE s.tool \in {"go", "test"}
        <4>1. Admitted \subseteq Range(s.list) \cap Callers
          BY <2>3, VerifiedInList DEF Admitted
        <4>2. ASSUME NEW a \in Range(s.list) \cap Callers PROVE a \in Admitted
          <5> DEFINE ls == LeavesOf("packed", s.list)
                     proof == ProofBy(s.tool, s.list, a)
          <5>1. proof \in Proofs
            <6> DEFINE P == {ProofBy(s.tool, s.list, b) : b \in Range(s.list)}
            <6>1. proof \in P
              OBVIOUS
            <6>2. \E tool \in Tools, list \in AllowLists :
                     P = {ProofBy(tool, list, b) : b \in Range(list)}
              BY <2>3
            <6> HIDE DEF proof, P
            <6>3. proof \in ToolProofs
              BY <6>1, <6>2 DEF ToolProofs
            <6>4. QED
              BY <6>3 DEF Proofs
          <5>2. Proper(ls) /\ Leaf(a) \in Range(ls)
            BY <2>3, LeavesNotPaired DEF Range, LeavesOf, Leaf
          <5> HIDE DEF ls
          <5>3. CASE s.tool = "go"
            <6>1. /\ proof = GetProof(ls, Leaf(a)) /\ s.merkleRoot = BuildMerkleTree(ls)
              BY <2>3, <5>3 DEF ProofBy, RootBy, ls, Leaf
            <6>2. QED
              BY <5>1, <5>2, <6>1, GoComplete DEF Admitted
          <5>4. CASE s.tool = "test"
            <6>1. /\ proof = getHexProof(ls, Leaf(a)) /\ s.merkleRoot = getHexRoot(ls)
              BY <2>3, <5>4 DEF ProofBy, RootBy, ls, Leaf
            <6>2. QED
              BY <5>1, <5>2, <6>1, HexComplete DEF Admitted
          <5>5. QED
            BY <3>2, <5>3, <5>4
        <4>3. QED
          BY <3>2, <4>1, <4>2 DEF RootAdmitsList
      <3>3. QED
        BY <2>3, <3>1, <3>2 DEF Tools
    <2>4. QED
      BY <2>1, <2>2, <2>3 DEF Listed
  <1>2. QED
    BY <1>1, Invariance, PTL
=============================================================================
