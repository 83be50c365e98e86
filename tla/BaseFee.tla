------------------------------ MODULE BaseFee ------------------------------
(***************************************************************************)
(* go/eip1559: the base fee of the next block, in integer arithmetic.      *)
(***************************************************************************)
EXTENDS Integers

CONSTANT TargetGas

ASSUME TargetGasAssumption == TargetGas \in Nat \ {0}

Distance(a, b) == IF a < b THEN b - a ELSE a - b

\* Mutant: the wrong denominator.
ScaledTwice(currentBaseFee, gasUsed) ==
    ((currentBaseFee * Distance(gasUsed, TargetGas)) \div TargetGas) \div 4

\* The two truncating divisions.
Scaled(currentBaseFee, gasUsed) ==
    ((currentBaseFee * Distance(gasUsed, TargetGas)) \div TargetGas) \div 8

CalcNextBaseFee(currentBaseFee, gasUsed) ==
    LET scaled == Scaled(currentBaseFee, gasUsed)
        next   == IF gasUsed < TargetGas THEN currentBaseFee - scaled
                                         ELSE currentBaseFee + scaled
    IN  IF next < 1 THEN 1 ELSE next

-----------------------------------------------------------------------------
(* Properties of one step; a block uses at most twice the target. *)

\* The fee moves by at most an eighth ("max per-block move is +/-12.5%").
StepBounded(fee, gasUsed) ==
    8 * Distance(CalcNextBaseFee(fee, gasUsed), fee) <= fee

\* The truncated result is within one wei of the formula in the package
\* comment, on the side of the current fee.
NearFormula(fee, gasUsed) ==
    LET exact == fee * (8 * TargetGas + gasUsed - TargetGas)
        got   == 8 * TargetGas * CalcNextBaseFee(fee, gasUsed)
    IN  IF gasUsed < TargetGas THEN got - 8 * TargetGas < exact /\ exact <= got
        ELSE got <= exact /\ exact < got + 8 * TargetGas

\* A fuller block never leads to a lower fee.
Monotone(fee, gasUsed) ==
    CalcNextBaseFee(fee, gasUsed) <= CalcNextBaseFee(fee, gasUsed + 1)
=============================================================================
