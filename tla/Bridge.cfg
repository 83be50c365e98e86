\* Every failure, deposits of two tokens, burns that share a nonce.
SPECIFICATION FairSpec
CONSTANTS
    Users = {"u"}
    Tokens = {"home", "foreign"}
    HomeToken = "home"
    DepositAmounts = {1010}
    BurnAmounts = {500}
    FeeChoices = {100}
    WithdrawNonces = {7, 8}
    Faults <- AllFaults
    MaxDeposits = 2
    MaxBurns = 2
    MaxEvents = 3
    MaxLapses = 1
    MaxResends = 1
INVARIANTS TypeOK PegBacked Solvent PaidOnce
PROPERTIES KeepsPromises DepositsAttended BurnsPaid
