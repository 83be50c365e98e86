------------------------------- MODULE Merkle -------------------------------
(***************************************************************************)
(* go/merkle: the root of a Merkle tree, proofs, and their verification.   *)
(*                                                                         *)
(* The hash is symbolic and free of collisions.  HashPair sorts its        *)
(* arguments before it hashes them, so the digest depends on the two nodes *)
(* and not on their order: it is a record of the set of the two.  A leaf   *)
(* is never such a record.                                                 *)
(***************************************************************************)
EXTENDS Integers, SequencesExt

HashPair(a, b) == [pair |-> {a, b}]

\* The node that an even index is paired with: itself at the end of a level.
Right(tree, i) == IF i + 1 <= Len(tree) THEN tree[i + 1] ELSE tree[i]

\* merkletreejs with its defaults (external), and the mutant of Above: an odd
\* trailing node moves up as it is.
AbovePromoted(tree) ==
    [k \in 1 .. (Len(tree) + 1) \div 2 |->
        IF 2 * k <= Len(tree) THEN HashPair(tree[2 * k - 1], tree[2 * k])
        ELSE tree[2 * k - 1]]

\* One pass of the loop: the level above.
Above(tree) ==
    [k \in 1 .. (Len(tree) + 1) \div 2 |->
        HashPair(tree[2 * k - 1], Right(tree, 2 * k - 1))]

\* The levels from the leaves up to the root, which then repeats.
LevelsBy(leaves, Up(_)) ==
    LET level[k \in 1 .. Len(leaves)] ==
            IF k = 1 THEN leaves
            ELSE IF Len(level[k - 1]) > 1 THEN Up(level[k - 1])
            ELSE level[k - 1]
    IN  level

Levels(leaves) == LevelsBy(leaves, Above)

\* The root; the code indexes an empty slice when there are no leaves.
BuildMerkleTree(leaves) == Levels(leaves)[Len(leaves)][1]

\* The root that scripts/merkle-gen.js prints for the leaves.
getHexRoot(leaves) == LevelsBy(leaves, AbovePromoted)[Len(leaves)][1]

\* Mutant: the left sibling is appended for every node.
SiblingLeft(tree, cur) == IF cur = 1 THEN Right(tree, cur) ELSE tree[cur - 1]

\* What GetProof appends at a level where the path is at index cur.
Sibling(tree, cur) == IF cur % 2 = 1 THEN Right(tree, cur) ELSE tree[cur - 1]

\* The leaf must be present; its first occurrence counts.
IndexOf(leaves, target) ==
    CHOOSE i \in DOMAIN leaves : /\ leaves[i] = target
                                 /\ \A j \in 1 .. i - 1 : leaves[j] # target

\* Where the path from index idx of the leaves is k levels up.
PathIndex(idx, k) == (idx - 1) \div 2^(k - 1) + 1

GetProof(leaves, target) ==
    LET levels == Levels(leaves)
        height == {k \in DOMAIN levels : Len(levels[k]) > 1}
    IN  [k \in height |->
            Sibling(levels[k], PathIndex(IndexOf(leaves, target), k))]

\* The proof that scripts/merkle-gen.js prints (external): a node that moves up
\* as it is has no sibling.
getHexProof(leaves, target) ==
    LET levels  == LevelsBy(leaves, AbovePromoted)
        at(k)   == PathIndex(IndexOf(leaves, target), k)
        sibs(k) == IF at(k) = Len(levels[k]) /\ at(k) % 2 = 1 THEN <<>>
                   ELSE <<Sibling(levels[k], at(k))>>
    IN  FlattenSeq([k \in DOMAIN levels |-> sibs(k)])

\* Mutant: the proof is folded without the leaf.
VerifyWithoutLeaf(proof, root, leaf) ==
    IF proof = <<>> THEN leaf = root
    ELSE FoldLeft(HashPair, Head(proof), Tail(proof)) = root

VerifyMerkleProof(proof, root, leaf) == FoldLeft(HashPair, leaf, proof) = root

-----------------------------------------------------------------------------
(* Properties of a list of leaves. *)

\* Every leaf has a proof that verifies.
Complete(leaves) ==
    \A target \in Range(leaves) :
        VerifyMerkleProof(GetProof(leaves, target), BuildMerkleTree(leaves), target)

\* The two roots agree exactly when no level is odd.
RootsAgree(leaves) ==
    getHexRoot(leaves) = BuildMerkleTree(leaves) <=>
        \E k \in 0 .. Len(leaves) : Len(leaves) = 2^k

\* The nodes of the tree.
Nodes(leaves) == UNION {Range(level) : level \in Range(Levels(leaves))}

\* No other leaf verifies with any proof made of nodes of the tree and leaves.
SoundFor(leaves, others) ==
    \A leaf \in others \ Range(leaves), n \in 0 .. Len(leaves) :
        \A proof \in [1 .. n -> Nodes(leaves) \cup others] :
            ~VerifyMerkleProof(proof, BuildMerkleTree(leaves), leaf)
=============================================================================
