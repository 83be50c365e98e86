------------------------------ MODULE Bytecode ------------------------------
(***************************************************************************)
(* go/scdo/bytecode.go: REVERT is replaced by STOP before a contract is    *)
(* deployed on SCDO V1.0.0.  Code is a sequence of bytes; PatchBytecodeHex *)
(* takes it as hexadecimal digits.  The deployment script does the same to *)
(* the digits with sed, without a look at byte boundaries.                 *)
(***************************************************************************)
EXTENDS Integers, Sequences, FiniteSets

STOP   == 0
REVERT == 253

\* Mutant: the byte becomes a PUSH1.
PatchByPush(bytecode) ==
    [i \in DOMAIN bytecode |-> IF bytecode[i] = REVERT THEN 96 ELSE bytecode[i]]

\* Every 0xfd byte becomes 0x00.
PatchBytecodeForV1(bytecode) ==
    [i \in DOMAIN bytecode |-> IF bytecode[i] = REVERT THEN STOP ELSE bytecode[i]]

CountRevertOpcodes(bytecode) ==
    Cardinality({i \in DOMAIN bytecode : bytecode[i] = REVERT})

\* hex.DecodeString of an even number of digits, and back.
Decode(digits) ==
    [i \in 1 .. Len(digits) \div 2 |-> 16 * digits[2 * i - 1] + digits[2 * i]]
Encode(bytecode) ==
    [j \in 1 .. 2 * Len(bytecode) |->
        IF j % 2 = 1 THEN bytecode[(j + 1) \div 2] \div 16
                     ELSE bytecode[j \div 2] % 16]

\* An odd number of digits is an error, here the empty result.
PatchBytecodeHex(digits) ==
    IF Len(digits) % 2 # 0 THEN <<>>
    ELSE Encode(PatchBytecodeForV1(Decode(digits)))

\* sed 's/fd/00/g'.  An occurrence of "fd" cannot overlap another one.
InFd(digits, j) ==
    \/ j < Len(digits) /\ digits[j] = 15 /\ digits[j + 1] = 13
    \/ j > 1 /\ digits[j - 1] = 15 /\ digits[j] = 13
SedPatch(digits) ==
    [j \in DOMAIN digits |-> IF InFd(digits, j) THEN 0 ELSE digits[j]]

-----------------------------------------------------------------------------
(* How the EVM reads code (external): PUSH1 .. PUSH32 are followed by data. *)

Width(op) == IF op \in 96 .. 127 THEN op - 94 ELSE 1

\* The positions at which instructions start: reached[n] are the first n + 1.
Starts(bytecode) ==
    LET next(p) == p + Width(bytecode[p])
        reached[n \in 0 .. Len(bytecode)] ==
            IF n = 0 THEN {1} \cap DOMAIN bytecode
            ELSE reached[n - 1]
                   \cup ({next(p) : p \in reached[n - 1]} \cap DOMAIN bytecode)
    IN  reached[Len(bytecode)]

-----------------------------------------------------------------------------
(* Properties of a piece of code. *)

\* The patched code has no 0xfd left, not even in data, and every instruction
\* starts where it did, so that jumps keep their targets.
LayoutKept(bytecode) ==
    LET patched == PatchBytecodeForV1(bytecode)
    IN  /\ CountRevertOpcodes(patched) = 0
        /\ Starts(patched) = Starts(bytecode)

\* The patch a disassembler would make: REVERT instructions only.
OpcodePatch(bytecode) ==
    [i \in DOMAIN bytecode |->
        IF i \in Starts(bytecode) /\ bytecode[i] = REVERT THEN STOP ELSE bytecode[i]]

\* The patch is that of a disassembler when no PUSH data holds the byte 0xfd.
OnlyRevertsChange(bytecode) ==
    (\A i \in DOMAIN bytecode \ Starts(bytecode) : bytecode[i] # REVERT)
        => PatchBytecodeForV1(bytecode) = OpcodePatch(bytecode)

\* The script and PatchBytecodeHex agree unless the digits "fd" straddle two
\* bytes.
ScriptAgrees(digits) ==
    LET straddles == \E j \in DOMAIN digits :
            /\ j % 2 = 0 /\ j < Len(digits)
            /\ digits[j] = 15 /\ digits[j + 1] = 13
    IN  Len(digits) % 2 = 0 =>
            (SedPatch(digits) = PatchBytecodeHex(digits) <=> ~straddles)
=============================================================================
