----------------------------- MODULE MCToolkit -----------------------------
(***************************************************************************)
(* The parts of the toolkit that work alone: the algorithms over bounded   *)
(* inputs (MCAlgorithms), and the allowlist's contract with the trees that *)
(* the algorithms make.  A behaviour follows one kind of input, or, with   *)
(* none, the contract.                                                     *)
(***************************************************************************)
EXTENDS MCAlgorithms, MCMerkleNFTAllowlist

ToolkitInit == AlgorithmInit /\ Init

Compute  == AlgorithmNext /\ UNCHANGED vars
Transact == kind = "none" /\ Next /\ UNCHANGED inputs

ToolkitSpec == ToolkitInit /\ [][Compute \/ Transact]_<<inputs, vars>>
=============================================================================
