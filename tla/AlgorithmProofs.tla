-------------------------- MODULE AlgorithmProofs --------------------------
(***************************************************************************)
(* Theorems about the base fee and the bytecode patch, for every target,   *)
(* fee and block and for code of any length.                               *)
(***************************************************************************)
EXTENDS MCAlgorithms, FiniteSetTheorems, TLAPS

\* The lists of leaves of a run are those of MCMerkle, so the theorems of
\* MerkleProofs about TreeSpec hold for them.
LEMMA ListsOfLeaves == AlgorithmSpec => TreeSpec
  <1>1. AlgorithmInit => TreeInit
    BY DEF AlgorithmInit
  <1>2. [AlgorithmNext]_inputs => [AddLeaf]_leafList
    BY DEF AlgorithmNext, GrowTree, AddDigit, AddBlock, inputs
  <1>3. QED
    BY <1>1, <1>2, PTL DEF AlgorithmSpec, TreeSpec

(* The base fee. *)

LEMMA DivBounds ==
    ASSUME NEW n \in Nat, NEW d \in Nat \ {0}
    PROVE  n \div d \in Nat /\ d * (n \div d) <= n /\ n < d * (n \div d) + d
  BY Z3T(30)

LEMMA DivAtMost ==
    ASSUME NEW f \in Nat, NEW k \in Nat, NEW d \in Nat \ {0}, k <= d
    PROVE  (f * k) \div d \in 0 .. f
  <1> DEFINE q == (f * k) \div d
  <1>1. f * k \in Nat /\ f * k <= f * d
    BY Z3T(30)
  <1>2. q \in Nat /\ d * q <= f * k
    BY <1>1, DivBounds
  <1>3. d * q <= d * f
    BY <1>1, <1>2, Z3T(30)
  <1> HIDE DEF q
  <1>4. q <= f
    BY <1>2, <1>3, Z3T(30)
  <1>5. QED
    BY <1>2, <1>4 DEF q

LEMMA DivMonotone ==
    ASSUME NEW m \in Nat, NEW n \in Nat, NEW d \in Nat \ {0}, m <= n
    PROVE  m \div d <= n \div d
  <1> DEFINE p == m \div d
             q == n \div d
  <1>1. p \in Nat /\ d * p <= m
    BY DivBounds
  <1>2. q \in Nat /\ n < d * q + d
    BY DivBounds
  <1> HIDE DEF p, q
  <1>3. d * p < d * (q + 1)
    BY <1>1, <1>2, Z3T(30)
  <1>4. p < q + 1
    BY <1>1, <1>2, <1>3, Z3T(30)
  <1>5. QED
    BY <1>1, <1>2, <1>4 DEF p, q

\* What the two divisions return for a block of at most twice the target.
LEMMA ScaledBounds ==
    ASSUME NEW f \in Nat, NEW g \in 0 .. 2 * TargetGas
    PROVE  /\ Distance(g, TargetGas) \in Nat
           /\ Scaled(f, g) \in Nat /\ 8 * Scaled(f, g) <= f
           /\ 8 * TargetGas * Scaled(f, g) <= f * Distance(g, TargetGas)
           /\ f * Distance(g, TargetGas) < 8 * TargetGas * Scaled(f, g) + 8 * TargetGas
  <1> DEFINE k == Distance(g, TargetGas)
             q == (f * k) \div TargetGas
             s == q \div 8
  <1>1. k \in Nat /\ k <= TargetGas
    BY TargetGasAssumption DEF Distance
  <1>2. q \in 0 .. f
    BY <1>1, DivAtMost, TargetGasAssumption
  <1>3. f * k \in Nat
    BY <1>1
  <1>4. TargetGas * q <= f * k /\ f * k < TargetGas * q + TargetGas
    BY <1>3, DivBounds, TargetGasAssumption
  <1>5. s = Scaled(f, g)
    BY DEF Scaled
  <1>6. s \in Nat /\ 8 * s <= q /\ q < 8 * s + 8
    BY <1>2, Z3T(30)
  <1> HIDE DEF k, q, s
  <1>7. TargetGas * (8 * s) <= TargetGas * q
    BY <1>2, <1>6, TargetGasAssumption, Z3T(30)
  <1>8. TargetGas * (q + 1) <= TargetGas * (8 * s + 8)
    BY <1>2, <1>6, TargetGasAssumption, Z3T(30)
  <1>9. 8 * TargetGas * s <= f * k
    BY <1>2, <1>3, <1>4, <1>6, <1>7, TargetGasAssumption, Z3T(30)
  <1>10. f * k < 8 * TargetGas * s + 8 * TargetGas
    BY <1>2, <1>3, <1>4, <1>6, <1>8, TargetGasAssumption, Z3T(30)
  <1>11. QED
    BY <1>1, <1>2, <1>5, <1>6, <1>9, <1>10 DEF k

\* The minimum of 1 is met by a fee of 0 only.
LEMMA CalcCases ==
    ASSUME NEW f \in Nat, NEW g \in 0 .. 2 * TargetGas
    PROVE  CalcNextBaseFee(f, g) = IF f = 0 THEN 1
                                   ELSE IF g < TargetGas THEN f - Scaled(f, g)
                                   ELSE f + Scaled(f, g)
  <1>1. Scaled(f, g) \in Nat /\ 8 * Scaled(f, g) <= f
    BY ScaledBounds
  <1>2. QED
    BY <1>1 DEF CalcNextBaseFee

LEMMA FeeIsNat ==
    ASSUME NEW f \in Nat, NEW g \in 0 .. 2 * TargetGas
    PROVE  CalcNextBaseFee(f, g) \in Nat
  <1>1. Scaled(f, g) \in Nat /\ 8 * Scaled(f, g) <= f
    BY ScaledBounds
  <1>2. QED
    BY <1>1, CalcCases

LEMMA BoundedStep ==
    ASSUME NEW f \in Nat \ {0}, NEW g \in 0 .. 2 * TargetGas
    PROVE  StepBounded(f, g)
  <1>1. Scaled(f, g) \in Nat /\ 8 * Scaled(f, g) <= f
    BY ScaledBounds
  <1>2. QED
    BY <1>1, CalcCases DEF StepBounded, Distance

LEMMA NearTheFormula ==
    ASSUME NEW f \in Nat \ {0}, NEW g \in 0 .. 2 * TargetGas
    PROVE  NearFormula(f, g)
  <1> DEFINE T == TargetGas
             s == Scaled(f, g)
             k == Distance(g, T)
  <1>1. /\ s \in Nat /\ k \in Nat /\ T \in Nat /\ g \in Nat
        /\ 8 * T * s <= f * k /\ f * k < 8 * T * s + 8 * T
    BY ScaledBounds, TargetGasAssumption
  <1>2. CASE g < T
    <2>1. CalcNextBaseFee(f, g) = f - s
      BY <1>2, CalcCases
    <2>2. k = T - g
      BY <1>1, <1>2 DEF Distance
    <2> HIDE DEF s, k
    <2>3. f * (8 * T + g - T) = 8 * T * f - f * k
      BY <1>1, <2>2, Z3T(30)
    <2>4. 8 * T * (f - s) = 8 * T * f - 8 * T * s
      BY <1>1, Z3T(30)
    <2>5. 8 * T * f \in Int /\ 8 * T * s \in Int /\ f * k \in Int /\ 8 * T \in Int
      BY <1>1
    <2>6. 8 * T * (f - s) - 8 * T < f * (8 * T + g - T)
      BY <1>1, <2>3, <2>4, <2>5
    <2>7. f * (8 * T + g - T) <= 8 * T * (f - s)
      BY <1>1, <2>3, <2>4, <2>5
    <2>8. QED
      BY <1>2, <2>1, <2>6, <2>7 DEF NearFormula
  <1>3. CASE ~(g < T)
    <2>1. CalcNextBaseFee(f, g) = f + s
      BY <1>3, CalcCases
    <2>2. k = g - T
      BY <1>1, <1>3 DEF Distance
    <2> HIDE DEF s, k
    <2>3. f * (8 * T + g - T) = 8 * T * f + f * k
      BY <1>1, <2>2, Z3T(30)
    <2>4. 8 * T * (f + s) = 8 * T * f + 8 * T * s
      BY <1>1, Z3T(30)
    <2>5. 8 * T * f \in Int /\ 8 * T * s \in Int /\ f * k \in Int /\ 8 * T \in Int
      BY <1>1
    <2>6. 8 * T * (f + s) <= f * (8 * T + g - T)
      BY <1>1, <2>3, <2>4, <2>5
    <2>7. f * (8 * T + g - T) < 8 * T * (f + s) + 8 * T
      BY <1>1, <2>3, <2>4, <2>5
    <2>8. QED
      BY <1>3, <2>1, <2>6, <2>7 DEF NearFormula
  <1>4. QED
    BY <1>2, <1>3

\* The further a block is from the target, the larger the change.
LEMMA ScaledMonotone ==
    ASSUME NEW f \in Nat, NEW g \in 0 .. 2 * TargetGas, NEW h \in 0 .. 2 * TargetGas,
           Distance(g, TargetGas) <= Distance(h, TargetGas)
    PROVE  Scaled(f, g) <= Scaled(f, h)
  <1> DEFINE k == Distance(g, TargetGas)
             l == Distance(h, TargetGas)
  <1>1. k \in Nat /\ l \in Nat /\ k <= l
    BY ScaledBounds
  <1>2. f * k \in Nat /\ f * l \in Nat /\ f * k <= f * l
    <2> HIDE DEF k, l
    <2> QED BY <1>1, Z3T(30)
  <1>3. (f * k) \div TargetGas <= (f * l) \div TargetGas
    BY <1>2, DivMonotone, TargetGasAssumption
  <1>4. (f * k) \div TargetGas \in Nat /\ (f * l) \div TargetGas \in Nat
    BY <1>2, DivBounds, TargetGasAssumption
  <1>5. ((f * k) \div TargetGas) \div 8 <= ((f * l) \div TargetGas) \div 8
    BY <1>3, <1>4, DivMonotone
  <1>6. QED
    BY <1>5 DEF Scaled

LEMMA MonotoneInGas ==
    ASSUME NEW f \in Nat, NEW g \in 0 .. 2 * TargetGas, g < 2 * TargetGas
    PROVE  Monotone(f, g)
  <1> DEFINE a == Scaled(f, g)
             b == Scaled(f, g + 1)
  <1>1. g + 1 \in 0 .. 2 * TargetGas
    BY TargetGasAssumption
  <1>2. a \in Nat /\ b \in Nat /\ 8 * a <= f /\ 8 * b <= f
    BY <1>1, ScaledBounds
  <1>3. CASE g + 1 < TargetGas
    <2>1. Distance(g + 1, TargetGas) <= Distance(g, TargetGas)
      BY <1>3, TargetGasAssumption DEF Distance
    <2>2. b <= a
      BY <1>1, <2>1, ScaledMonotone
    <2>3. QED
      BY <1>1, <1>2, <1>3, <2>2, CalcCases, TargetGasAssumption DEF Monotone
  <1>4. CASE g + 1 = TargetGas
    <2>1. QED
      BY <1>1, <1>2, <1>4, CalcCases, TargetGasAssumption DEF Monotone
  <1>5. CASE g + 1 > TargetGas
    <2>1. Distance(g, TargetGas) <= Distance(g + 1, TargetGas)
      BY <1>5, TargetGasAssumption DEF Distance
    <2>2. a <= b
      BY <1>1, <2>1, ScaledMonotone
    <2>3. QED
      BY <1>1, <1>2, <1>5, <2>2, CalcCases, TargetGasAssumption DEF Monotone
  <1>6. QED
    BY <1>3, <1>4, <1>5, TargetGasAssumption

FeeInv == kind = "fee" => fee \in Nat

LEMMA FeeInvariant == AlgorithmSpec => []FeeInv
  <1>1. AlgorithmInit => FeeInv
    BY InputsAssumption DEF AlgorithmInit, FeeInv
  <1>2. ASSUME FeeInv, [AlgorithmNext]_inputs PROVE FeeInv'
    <2>1. CASE AddBlock
      BY <1>2, <2>1, FeeIsNat DEF AddBlock, FeeInv
    <2>2. CASE ~AddBlock
      BY <1>2, <2>2 DEF AlgorithmNext, GrowTree, AddDigit, FeeInv, inputs
    <2>3. QED
      BY <2>1, <2>2
  <1>3. QED
    BY <1>1, <1>2, PTL DEF AlgorithmSpec

\* CalcNextBaseFee keeps its documented bounds for every fee, target and block:
\* an eighth per block, one wei from the formula, growing with the gas used.
THEOREM FeeFormula == AlgorithmSpec => []FeeFollowsFormula
  <1>1. ASSUME FeeInv, kind = "fee", NEW g \in 0 .. 2 * TargetGas
        PROVE  /\ fee > 0 => StepBounded(fee, g) /\ NearFormula(fee, g)
               /\ g < 2 * TargetGas => Monotone(fee, g)
    <2>1. fee \in Nat
      BY <1>1 DEF FeeInv
    <2>2. ASSUME fee > 0 PROVE StepBounded(fee, g) /\ NearFormula(fee, g)
      BY <2>1, <2>2, BoundedStep, NearTheFormula
    <2>3. ASSUME g < 2 * TargetGas PROVE Monotone(fee, g)
      BY <2>1, <2>3, MonotoneInGas
    <2>4. QED
      BY <2>2, <2>3
  <1>2. FeeInv => FeeFollowsFormula
    BY <1>1 DEF FeeFollowsFormula
  <1>3. QED
    BY <1>2, FeeInvariant, PTL

\* Below 8 wei the truncated change is 0: CalcNextBaseFee returns the fee it was
\* given, for every target and block.
THEOREM FeeIsTrapped == AlgorithmSpec => FeeTrap
  <1>1. ASSUME FeeInv, [AlgorithmNext]_inputs, fee \in 1 .. 7
        PROVE  fee' = fee
    <2>1. CASE AddBlock
      <3>1. PICK g \in 0 .. 2 * TargetGas : fee' = CalcNextBaseFee(fee, g)
        BY <2>1 DEF AddBlock
      <3>2. Scaled(fee, g) \in Nat /\ 8 * Scaled(fee, g) <= fee
        BY <1>1, ScaledBounds
      <3>3. QED
        BY <1>1, <3>1, <3>2, CalcCases
    <2>2. CASE ~AddBlock
      BY <1>1, <2>2 DEF AlgorithmNext, GrowTree, AddDigit, inputs
    <2>3. QED
      BY <2>1, <2>2
  <1>2. FeeInv /\ [AlgorithmNext]_inputs => [(fee \in 1 .. 7) => (fee' = fee)]_inputs
    BY <1>1
  <1>3. QED
    BY <1>2, FeeInvariant, PTL DEF AlgorithmSpec, FeeTrap

-----------------------------------------------------------------------------
(* The bytecode patch. *)

\* A byte is its two digits.
LEMMA TwoDigits ==
    ASSUME NEW a \in 0 .. 15, NEW b \in 0 .. 15
    PROVE  /\ (16 * a + b) \div 16 = a /\ (16 * a + b) % 16 = b
           /\ 16 * a + b = 253 <=> a = 15 /\ b = 13
           /\ 16 * a + b \in Int
  OBVIOUS

LEMMA DigitAt ==
    ASSUME NEW d \in Seq(0 .. 15)
    PROVE  \A j \in 1 .. Len(d) : d[j] \in 0 .. 15
  OBVIOUS

\* What PatchBytecodeHex does to each digit of an even number of them: only the
\* two digits of a byte 0xfd change.
LEMMA HexAt ==
    ASSUME NEW d \in Seq(0 .. 15), Len(d) % 2 = 0
    PROVE  /\ PatchBytecodeHex(d) = [j \in 1 .. Len(d) |-> PatchBytecodeHex(d)[j]]
           /\ \A j \in 1 .. Len(d) :
                /\ j % 2 = 1 => /\ j + 1 \in 1 .. Len(d)
                                /\ PatchBytecodeHex(d)[j] =
                                     IF d[j] = 15 /\ d[j + 1] = 13 THEN 0 ELSE d[j]
                /\ j % 2 = 0 => /\ j - 1 \in 1 .. Len(d)
                                /\ PatchBytecodeHex(d)[j] =
                                     IF d[j - 1] = 15 /\ d[j] = 13 THEN 0 ELSE d[j]
  <1> DEFINE n == Len(d) \div 2
             bytes == Decode(d)
             patched == PatchBytecodeForV1(bytes)
  <1>1. Len(d) \in Nat /\ n \in Nat /\ Len(d) = 2 * n
    OBVIOUS
  <1>2. \A i \in 1 .. n : /\ 2 * i - 1 \in 1 .. Len(d) /\ 2 * i \in 1 .. Len(d)
                          /\ d[2 * i - 1] \in 0 .. 15 /\ d[2 * i] \in 0 .. 15
    <2> HIDE DEF n
    <2>1. \A j \in 1 .. Len(d) : d[j] \in 0 .. 15
      BY DigitAt
    <2>2. TAKE i \in 1 .. n
    <2>3. 2 * i - 1 \in 1 .. Len(d) /\ 2 * i \in 1 .. Len(d)
      BY <1>1
    <2>4. QED
      BY <2>1, <2>3
  <1>3. bytes = [i \in 1 .. n |-> 16 * d[2 * i - 1] + d[2 * i]]
    BY DEF Decode
  <1>4. patched = [i \in 1 .. n |-> IF 16 * d[2 * i - 1] + d[2 * i] = 253 THEN 0
                                    ELSE 16 * d[2 * i - 1] + d[2 * i]]
    BY <1>3 DEF PatchBytecodeForV1, REVERT, STOP
  <1>5. patched \in Seq(Int) /\ Len(patched) = n
    <2>1. \A i \in 1 .. n : 16 * d[2 * i - 1] + d[2 * i] \in Int
      <3>1. TAKE i \in 1 .. n
      <3>2. d[2 * i - 1] \in 0 .. 15 /\ d[2 * i] \in 0 .. 15
        BY <1>2
      <3> DEFINE a == d[2 * i - 1]
                 b == d[2 * i]
      <3>3. a \in 0 .. 15 /\ b \in 0 .. 15
        BY <3>2
      <3> HIDE DEF a, b
      <3>4. 16 * a + b \in Int
        BY <3>3, TwoDigits
      <3>5. QED
        BY <3>4 DEF a, b
    <2>2. patched \in [1 .. n -> Int]
      BY <1>4, <2>1
    <2> HIDE DEF patched, n
    <2>3. QED
      BY <1>1, <2>2
  <1>6. PatchBytecodeHex(d) =
          [j \in 1 .. Len(d) |-> IF j % 2 = 1 THEN patched[(j + 1) \div 2] \div 16
                                              ELSE patched[j \div 2] % 16]
    BY <1>1, <1>5 DEF PatchBytecodeHex, Encode
  <1>7. \A i \in 1 .. n :
          /\ patched[i] \div 16 = IF d[2 * i - 1] = 15 /\ d[2 * i] = 13 THEN 0 ELSE d[2 * i - 1]
          /\ patched[i] % 16 = IF d[2 * i - 1] = 15 /\ d[2 * i] = 13 THEN 0 ELSE d[2 * i]
    <2>1. TAKE i \in 1 .. n
    <2>2. d[2 * i - 1] \in 0 .. 15 /\ d[2 * i] \in 0 .. 15
      BY <1>2
    <2>3. patched[i] = IF 16 * d[2 * i - 1] + d[2 * i] = 253 THEN 0
                       ELSE 16 * d[2 * i - 1] + d[2 * i]
      BY <1>4
    <2> DEFINE a == d[2 * i - 1]
               b == d[2 * i]
    <2> HIDE DEF patched, a, b
    <2>4. /\ patched[i] \div 16 = IF a = 15 /\ b = 13 THEN 0 ELSE a
          /\ patched[i] % 16 = IF a = 15 /\ b = 13 THEN 0 ELSE b
      <3>1. a \in 0 .. 15 /\ b \in 0 .. 15
        BY <2>2 DEF a, b
      <3>2. patched[i] = IF 16 * a + b = 253 THEN 0 ELSE 16 * a + b
        BY <2>3 DEF a, b
      <3>3. QED
        <4>1. CASE a = 15 /\ b = 13
          BY <3>2, <4>1
        <4>2. CASE ~(a = 15 /\ b = 13)
          <5>1. patched[i] = 16 * a + b
            BY <3>1, <3>2, <4>2, TwoDigits
          <5>2. (16 * a + b) \div 16 = a /\ (16 * a + b) % 16 = b
            BY <3>1, TwoDigits
          <5>3. QED
            BY <4>2, <5>1, <5>2
        <4>3. QED
          BY <4>1, <4>2
    <2>5. QED
      BY <2>4 DEF a, b
  <1> HIDE DEF n, bytes, patched
  <1>8. ASSUME NEW j \in 1 .. Len(d), j % 2 = 1
        PROVE  /\ j + 1 \in 1 .. Len(d)
               /\ PatchBytecodeHex(d)[j] = IF d[j] = 15 /\ d[j + 1] = 13 THEN 0 ELSE d[j]
    <2>1. PICK i \in 1 .. n : j = 2 * i - 1 /\ i = (j + 1) \div 2
      BY <1>1, <1>8
    <2>2. QED
      BY <1>1, <1>6, <1>7, <1>8, <2>1
  <1>9. ASSUME NEW j \in 1 .. Len(d), j % 2 = 0
        PROVE  /\ j - 1 \in 1 .. Len(d)
               /\ PatchBytecodeHex(d)[j] = IF d[j - 1] = 15 /\ d[j] = 13 THEN 0 ELSE d[j]
    <2>1. PICK i \in 1 .. n : j = 2 * i /\ i = j \div 2
      BY <1>1, <1>9
    <2>2. QED
      BY <1>1, <1>6, <1>7, <1>9, <2>1
  <1>10. QED
    BY <1>6, <1>8, <1>9

\* sed and PatchBytecodeHex differ exactly where "fd" straddles two bytes.
LEMMA ScriptAgreement ==
    ASSUME NEW d \in Seq(0 .. 15)
    PROVE  ScriptAgrees(d)
  <1> DEFINE straddles == \E j \in DOMAIN d : /\ j % 2 = 0 /\ j < Len(d)
                                              /\ d[j] = 15 /\ d[j + 1] = 13
  <1> SUFFICES ASSUME Len(d) % 2 = 0
               PROVE  SedPatch(d) = PatchBytecodeHex(d) <=> ~straddles
    BY DEF ScriptAgrees
  <1>1. DOMAIN d = 1 .. Len(d) /\ Len(d) \in Nat /\ \A j \in 1 .. Len(d) : d[j] \in 0 .. 15
    BY DigitAt
  <1>2. SedPatch(d) = [j \in 1 .. Len(d) |-> IF InFd(d, j) THEN 0 ELSE d[j]]
    BY <1>1 DEF SedPatch
  <1>3. ASSUME straddles PROVE SedPatch(d) # PatchBytecodeHex(d)
    <2>1. PICK j \in 1 .. Len(d) : /\ j % 2 = 0 /\ j < Len(d)
                                   /\ d[j] = 15 /\ d[j + 1] = 13
      BY <1>1, <1>3
    <2>2. SedPatch(d)[j] = 0
      BY <1>2, <2>1 DEF InFd
    <2>3. PatchBytecodeHex(d)[j] = 15
      BY <2>1, HexAt
    <2>4. QED
      BY <2>2, <2>3
  <1>4. ASSUME ~straddles PROVE SedPatch(d) = PatchBytecodeHex(d)
    <2>1. ASSUME NEW j \in 1 .. Len(d), j % 2 = 1
          PROVE  SedPatch(d)[j] = PatchBytecodeHex(d)[j]
      <3>1. /\ j + 1 \in 1 .. Len(d)
            /\ PatchBytecodeHex(d)[j] = IF d[j] = 15 /\ d[j + 1] = 13 THEN 0 ELSE d[j]
        BY <2>1, HexAt
      <3>2. ~(j > 1 /\ d[j - 1] = 15 /\ d[j] = 13)
        <4>1. SUFFICES ASSUME j > 1, d[j - 1] = 15, d[j] = 13 PROVE FALSE
          OBVIOUS
        <4>2. j - 1 \in 1 .. Len(d) /\ (j - 1) % 2 = 0 /\ j - 1 < Len(d) /\ (j - 1) + 1 = j
          BY <1>1, <2>1, <4>1
        <4>3. QED
          BY <1>1, <1>4, <4>1, <4>2
      <3>3. InFd(d, j) <=> d[j] = 15 /\ d[j + 1] = 13
        BY <1>1, <3>1, <3>2 DEF InFd
      <3>4. QED
        BY <1>2, <3>1, <3>3
    <2>2. ASSUME NEW j \in 1 .. Len(d), j % 2 = 0
          PROVE  SedPatch(d)[j] = PatchBytecodeHex(d)[j]
      <3>1. /\ j - 1 \in 1 .. Len(d)
            /\ PatchBytecodeHex(d)[j] = IF d[j - 1] = 15 /\ d[j] = 13 THEN 0 ELSE d[j]
        BY <2>2, HexAt
      <3>2. ~(j < Len(d) /\ d[j] = 15 /\ d[j + 1] = 13)
        BY <1>1, <1>4, <2>2
      <3>3. InFd(d, j) <=> d[j - 1] = 15 /\ d[j] = 13
        BY <1>1, <3>1, <3>2 DEF InFd
      <3>4. QED
        BY <1>2, <3>1, <3>3
    <2>3. \A j \in 1 .. Len(d) : j % 2 = 1 \/ j % 2 = 0
      BY <1>1
    <2>4. \A j \in 1 .. Len(d) : SedPatch(d)[j] = PatchBytecodeHex(d)[j]
      BY <2>1, <2>2, <2>3
    <2>5. QED
      BY <1>2, <2>4, HexAt
  <1>5. QED
    BY <1>3, <1>4

DigitsInv == digits \in Seq(0 .. 15)

LEMMA DigitsInvariant == AlgorithmSpec => []DigitsInv
  <1> USE DEF DigitsInv
  <1>1. AlgorithmInit => DigitsInv
    BY DEF AlgorithmInit
  <1>2. ASSUME DigitsInv, [AlgorithmNext]_inputs PROVE DigitsInv'
    <2>1. CASE AddDigit
      BY <1>2, <2>1, InputsAssumption DEF AddDigit
    <2>2. CASE ~AddDigit
      BY <1>2, <2>2 DEF AlgorithmNext, GrowTree, AddBlock, inputs
    <2>3. QED
      BY <2>1, <2>2
  <1>3. QED
    BY <1>1, <1>2, PTL DEF AlgorithmSpec

\* For code of any length the deployment script's sed and PatchBytecodeHex give
\* the same digits unless "fd" straddles two bytes.
THEOREM ScriptMatchesProgram == AlgorithmSpec => []PatchScriptAgrees
  <1>1. DigitsInv => PatchScriptAgrees
    BY ScriptAgreement DEF PatchScriptAgrees, DigitsInv
  <1>2. QED
    BY <1>1, DigitsInvariant, PTL

-----------------------------------------------------------------------------
(* Where instructions start, and what the patch does to them. *)

\* One more round of Starts, with the code as the first argument.
NextStarts(bytecode, starts) ==
    starts \cup ({p + Width(bytecode[p]) : p \in starts} \cap DOMAIN bytecode)
AnyOf(S) == CHOOSE x \in S : TRUE
Reading == INSTANCE FoldTheorems WITH Op <- NextStarts, Choose <- AnyOf

\* Starts is the last value of a function g that has the first instruction, then
\* one instruction more at every argument.
Reads(g, b) ==
    /\ Starts(b) = g[Len(b)]
    /\ g[0] = {1} \cap DOMAIN b
    /\ \A n \in 1 .. Len(b) : g[n] = NextStarts(b, g[n - 1])

LEMMA StartsReached ==
    ASSUME NEW b, Len(b) \in Nat
    PROVE  \E g : Reads(g, b)
  <1> DEFINE f == [n \in 0 .. Len(b) |-> b]
             base == {1} \cap DOMAIN b
             g == CHOOSE h : h = [n \in 0 .. Len(b) |->
                                    IF n = 0 THEN base ELSE NextStarts(b, h[n - 1])]
  <1>1. Starts(b) = g[Len(b)]
    BY Zenon DEF Starts, NextStarts
  <1>2. \E h : Reading!Recurses(h, base, f, 0, Len(b))
    BY Reading!RecursionExists
  <1>3. \A h : Reading!Recurses(h, base, f, 0, Len(b)) <=>
                 h = [n \in 0 .. Len(b) |-> IF n = 0 THEN base ELSE NextStarts(b, h[n - 1])]
    <2>1. TAKE h
    <2>2. ASSUME NEW n \in 0 .. Len(b)
          PROVE  (IF n = 0 THEN base ELSE NextStarts(f[n], h[n - 1])) =
                 (IF n = 0 THEN base ELSE NextStarts(b, h[n - 1]))
      OBVIOUS
    <2>3. [n \in 0 .. Len(b) |-> IF n = 0 THEN base ELSE NextStarts(f[n], h[n - 1])] =
          [n \in 0 .. Len(b) |-> IF n = 0 THEN base ELSE NextStarts(b, h[n - 1])]
      BY <2>2
    <2>4. QED
      BY <2>3, Zenon DEF Reading!Recurses
  <1>4. Reading!Recurses(g, base, f, 0, Len(b))
    BY <1>2, <1>3, Zenon
  <1> HIDE DEF g
  <1>5. /\ g[0] = base
        /\ \A n \in 1 .. Len(b) : g[n] = NextStarts(f[n], g[n - 1])
    BY <1>4, Reading!RecursionAt
  <1>6. Reads(g, b)
    BY <1>1, <1>5 DEF Reads
  <1>7. QED
    BY <1>6

\* Code of the same length with operations of the same width has its instructions
\* at the same places.
LEMMA SameStarts ==
    ASSUME NEW b, NEW c, Len(b) \in Nat, Len(c) = Len(b),
           DOMAIN b = 1 .. Len(b), DOMAIN c = DOMAIN b,
           \A p \in DOMAIN b : Width(c[p]) = Width(b[p])
    PROVE  Starts(c) = Starts(b)
  <1>1. (\E g : Reads(g, b)) /\ (\E h : Reads(h, c))
    BY StartsReached
  <1>2. PICK g : Reads(g, b)
    BY <1>1
  <1>3. PICK h : Reads(h, c)
    BY <1>1
  <1>4. /\ g[0] = h[0] /\ g[0] \subseteq DOMAIN b
        /\ \A n \in 1 .. Len(b) : /\ g[n] = NextStarts(b, g[n - 1])
                                  /\ h[n] = NextStarts(c, h[n - 1])
    BY <1>2, <1>3 DEF Reads
  <1> DEFINE Q == {n \in Nat : n <= Len(b) => h[n] = g[n] /\ g[n] \subseteq DOMAIN b}
  <1>5. 0 \in Q
    BY <1>4
  <1>6. ASSUME NEW n \in Nat, n \in Q PROVE n + 1 \in Q
    <2>1. SUFFICES ASSUME n + 1 <= Len(b)
                   PROVE  h[n + 1] = g[n + 1] /\ g[n + 1] \subseteq DOMAIN b
      OBVIOUS
    <2>2. h[n] = g[n] /\ g[n] \subseteq DOMAIN b
      BY <1>6, <2>1
    <2>3. n + 1 \in 1 .. Len(b) /\ (n + 1) - 1 = n
      BY <2>1
    <2>4. g[n + 1] = NextStarts(b, g[n]) /\ h[n + 1] = NextStarts(c, h[n])
      BY <1>4, <2>3
    <2>5. {p + Width(c[p]) : p \in g[n]} = {p + Width(b[p]) : p \in g[n]}
      BY <2>2
    <2>6. QED
      BY <2>2, <2>4, <2>5 DEF NextStarts
  <1>7. Nat \subseteq Q
    <2> HIDE DEF Q
    <2>1. QED
      BY <1>5, <1>6, Reading!NumberInduction
  <1>8. QED
    BY <1>2, <1>3, <1>7 DEF Reads

\* The patch keeps the length of the code and the width of every byte, read as an
\* operation: REVERT and STOP have none but their own.
LEMMA PatchSameWidths ==
    ASSUME NEW b, Len(b) \in Nat, DOMAIN b = 1 .. Len(b)
    PROVE  LET c == PatchBytecodeForV1(b)
           IN  /\ Len(c) = Len(b) /\ DOMAIN c = DOMAIN b
               /\ \A p \in DOMAIN b : Width(c[p]) = Width(b[p]) /\ c[p] # REVERT
  <1> DEFINE c == PatchBytecodeForV1(b)
  <1>1. c = [i \in 1 .. Len(b) |-> IF b[i] = REVERT THEN STOP ELSE b[i]]
    BY DEF PatchBytecodeForV1
  <1>2. Width(REVERT) = Width(STOP) /\ STOP # REVERT
    BY DEF Width, REVERT, STOP
  <1> HIDE DEF c
  <1>3. DOMAIN c = DOMAIN b /\ Len(c) = Len(b)
    BY <1>1
  <1>4. ASSUME NEW p \in DOMAIN b PROVE Width(c[p]) = Width(b[p]) /\ c[p] # REVERT
    BY <1>1, <1>2
  <1>5. QED
    BY <1>3, <1>4 DEF c

LEMMA DecodeIsCode ==
    ASSUME NEW d \in Seq(0 .. 15)
    PROVE  Len(Decode(d)) \in Nat /\ DOMAIN Decode(d) = 1 .. Len(Decode(d))
  <1>1. Len(d) \div 2 \in Nat
    OBVIOUS
  <1>2. DOMAIN Decode(d) = 1 .. Len(d) \div 2
    BY DEF Decode
  <1>3. QED
    BY <1>1, <1>2

LEMMA PatchKeepsLayout ==
    ASSUME NEW b, Len(b) \in Nat, DOMAIN b = 1 .. Len(b)
    PROVE  LayoutKept(b)
  <1> DEFINE c == PatchBytecodeForV1(b)
  <1>1. /\ Len(c) = Len(b) /\ DOMAIN c = DOMAIN b
        /\ \A p \in DOMAIN b : Width(c[p]) = Width(b[p]) /\ c[p] # REVERT
    BY PatchSameWidths
  <1> HIDE DEF c
  <1>2. Starts(c) = Starts(b)
    BY <1>1, SameStarts
  <1>3. {i \in DOMAIN c : c[i] = REVERT} = {}
    BY <1>1
  <1>4. CountRevertOpcodes(c) = 0
    BY <1>3, FS_EmptySet DEF CountRevertOpcodes
  <1>5. QED
    BY <1>2, <1>4 DEF LayoutKept, c

LEMMA PatchOfADisassembler ==
    ASSUME NEW b PROVE OnlyRevertsChange(b)
  BY DEF OnlyRevertsChange, PatchBytecodeForV1, OpcodePatch

\* PatchBytecodeForV1 leaves no 0xfd and moves no instruction, for code of any
\* length and content, and is a disassembler's patch when no PUSH data holds 0xfd.
THEOREM OnlyRevertsPatched == AlgorithmSpec => []PatchOnlyReverts
  <1>1. DigitsInv => PatchOnlyReverts
    BY DecodeIsCode, PatchKeepsLayout, PatchOfADisassembler DEF PatchOnlyReverts, DigitsInv
  <1>2. QED
    BY <1>1, DigitsInvariant, PTL
=============================================================================
