\* Lists of up to 6 leaves, duplicates and odd levels included; up to 3 bytes of
\* code; fees around 8 wei; three tokens, two callers, an odd list and a list of
\* one.
SPECIFICATION ToolkitSpec
CONSTANTS
    Stranger = Stranger
    Leaves = {a, b, c}
    MaxLeaves = 6
    MaxForged = 4
    Digits = {0, 6, 13, 15}
    TargetGas = 15
    InitFees = {0, 1, 20, 63, 64, 100}
    MaxDigits = 6
    MaxFee = 200
    owner = owner
    alice = alice
    x = x
    y = y
    Accounts = {owner, alice, x, y}
    Callers = {owner, alice}
    AllowLists <- MCAllowLists
    MAX_SUPPLY = 3
    WL_PRICE = 1
    PUBLIC_PRICE = 2
    MAX_PER_WL = 2
    MAX_PER_PUBLIC = 2
    MaxProof = 2
INVARIANTS
    MerkleComplete MerkleSound FeeFollowsFormula  PatchScriptAgrees
    IdsContiguous SupplyPaidFor OnlyListedMint RootAdmitsList
PROPERTY FeeTrap
CHECK_DEADLOCK FALSE
