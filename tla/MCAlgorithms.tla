---------------------------- MODULE MCAlgorithms ----------------------------
(***************************************************************************)
(* The pure algorithms over bounded inputs.  A behaviour follows one kind  *)
(* of input: leaves are appended to a list (MCMerkle), hexadecimal digits  *)
(* to a piece of code, or blocks of any fullness to a chain whose base fee *)
(* is kept; with kind "none" there is no input.                            *)
(***************************************************************************)
EXTENDS BaseFee, Bytecode, MCMerkle

CONSTANTS
    Digits,     \* hexadecimal digits of the code
    InitFees,   \* base fees to start from
    MaxDigits, MaxFee   \* bounds

ASSUME InputsAssumption == InitFees \subseteq Nat /\ Digits \subseteq 0 .. 15

VARIABLES kind, digits, fee

inputs == <<kind, digits, fee, leafList>>

AlgorithmInit ==
    /\ TreeInit
    /\ digits = <<>>
    /\ \/ kind \in {"tree", "code", "none"} /\ fee = 0
       \/ kind = "fee" /\ fee \in InitFees

GrowTree ==
    /\ kind = "tree" /\ AddLeaf
    /\ UNCHANGED <<kind, digits, fee>>

AddDigit ==
    /\ kind = "code" /\ Len(digits) < MaxDigits
    /\ \E d \in Digits : digits' = Append(digits, d)
    /\ UNCHANGED <<kind, fee, leafList>>

AddBlock ==
    /\ kind = "fee"
    /\ \E gasUsed \in 0 .. 2 * TargetGas :
          /\ fee' = CalcNextBaseFee(fee, gasUsed)
          /\ fee' <= MaxFee
    /\ UNCHANGED <<kind, digits, leafList>>

AlgorithmNext == GrowTree \/ AddDigit \/ AddBlock

AlgorithmSpec == AlgorithmInit /\ [][AlgorithmNext]_inputs

-----------------------------------------------------------------------------
\* The base fee moves by at most 12.5% a block, stays within one wei of the
\* documented formula, and grows with the gas used.
FeeFollowsFormula ==
    kind = "fee" => \A gasUsed \in 0 .. 2 * TargetGas :
        /\ fee > 0 => StepBounded(fee, gasUsed) /\ NearFormula(fee, gasUsed)
        /\ gasUsed < 2 * TargetGas => Monotone(fee, gasUsed)

\* A base fee that has fallen below 8 wei never moves again, however full the
\* blocks are.
FeeTrap == [][(fee \in 1 .. 7) => (fee' = fee)]_inputs

\* PatchBytecodeForV1 removes every 0xfd and keeps the layout of the code; when no
\* PUSH data holds 0xfd it changes REVERT instructions only.
PatchOnlyReverts == LayoutKept(Decode(digits)) /\ OnlyRevertsChange(Decode(digits))

\* PatchBytecodeForV1 "does not touch PUSH data".  It does not hold.
PushDataKept ==
    PatchBytecodeForV1(Decode(digits)) = OpcodePatch(Decode(digits))

\* The script's patch is the program's when no "fd" straddles two bytes.
PatchScriptAgrees == ScriptAgrees(digits)
=============================================================================
