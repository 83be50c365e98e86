\* Two accounts, three callers, one lost or null reply.
SPECIFICATION FairSpec
CONSTANTS
    minter = minter
    user = user
    Accounts = {minter, user}
    Word = 4
    Callers = {"operator", "spender", "user"}
    Program <- MCProgram
    MaxFaults = 1
INVARIANTS PoolExecutable OnceUnlessMisled SupplyIsSum
PROPERTIES HaltKeepsTokens EveryProgramEnds
