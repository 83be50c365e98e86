------------------------ MODULE MCMerkleNFTAllowlist ------------------------
(***************************************************************************)
(* A collection of three tokens, two callers and two more addresses.      *)
(***************************************************************************)
EXTENDS MerkleNFTAllowlist

CONSTANTS owner, alice, x, y

\* One list with a single address, one with an odd number of them.
MCAllowLists == {<<alice>>, <<x, owner, y>>}
=============================================================================
