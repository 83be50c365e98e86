------------------------------ MODULE MCMerkle ------------------------------
(***************************************************************************)
(* Merkle trees and proofs over bounded lists of leaves: a behaviour       *)
(* appends leaves to a list.  MCAlgorithms runs it; the names leave room   *)
(* for a module that extends the contract's module as well (MerkleProofs). *)
(***************************************************************************)
EXTENDS Merkle

CONSTANTS
    Leaves,     \* leaves of the lists
    Stranger,   \* a leaf of no list
    MaxLeaves,  \* bound
    MaxForged   \* bound of the lists that MerkleSound tries all proofs for

VARIABLE leafList

TreeInit == leafList = <<>>

AddLeaf ==
    /\ Len(leafList) < MaxLeaves
    /\ \E leaf \in Leaves : leafList' = Append(leafList, leaf)

TreeSpec == TreeInit /\ [][AddLeaf]_leafList

-----------------------------------------------------------------------------
\* Every leaf of a tree, duplicates and odd levels included, has a proof that
\* VerifyMerkleProof accepts.
MerkleComplete == leafList # <<>> => Complete(leafList)

\* BuildMerkleTree pairs odd leaves with themselves, "matching merkletreejs
\* defaults".  It does not hold: merkletreejs moves them up.
RootsMatch == leafList # <<>> => getHexRoot(leafList) = BuildMerkleTree(leafList)

\* The two roots are the same for 1, 2, 4, 8, ... leaves and for no other number.
MerkleRootsAgree == leafList # <<>> => RootsAgree(leafList)

\* VerifyMerkleProof accepts no leaf that is not in the tree.
MerkleSound ==
    leafList # <<>> /\ Len(leafList) <= MaxForged => SoundFor(leafList, Leaves \cup {Stranger})
=============================================================================
