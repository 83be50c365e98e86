\* A failed Mint call, calls that succeed from then on, and streams that stay open.
SPECIFICATION RetrySpec
CONSTANTS
    Users = {"u"}
    Tokens = {"home"}
    HomeToken = "home"
    DepositAmounts = {1010}
    BurnAmounts = {500}
    FeeChoices = {100}
    WithdrawNonces = {7, 8}
    Faults <- CallsFail
    MaxDeposits = 2
    MaxBurns = 2
    MaxEvents = 3
    MaxLapses = 0
    MaxResends = 1
PROPERTY DepositsMinted
