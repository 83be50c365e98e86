------------------------------- MODULE Bridge -------------------------------
(***************************************************************************)
(* The lock-and-mint bridge: BridgeLock.sol on Ethereum, BridgeMint.sol on *)
(* SCDO, and the relayer of go/bridge between them.  Any ERC20 token can   *)
(* be deposited and is minted as the same pegged token; the client of the  *)
(* relayer withdraws one token, the home token, for Withdraw names none.   *)
(* The destination chain of a deposit is left out: the relayer ignores it. *)
(*                                                                         *)
(* The relayer is one goroutine: it takes an event from one of two streams *)
(* and makes one blocking call before it takes the next.  A call is cut    *)
(* into the contract's execution of the transaction and the client's reply *)
(* to the relayer: the reply may be lost, wrong, or find the relayer dead. *)
(* The client's account is the minter and the admin throughout, so only it *)
(* mints and signs; whoever has seen a signed withdraw call can have it    *)
(* executed again.  A token's transfer moves the whole amount.             *)
(***************************************************************************)
EXTENDS Integers, Sequences, FiniteSetsExt

CONSTANTS
    Users,
    Tokens,           \* ERC20 tokens of Ethereum
    HomeToken,        \* the one the client withdraws
    DepositAmounts,   \* amounts users deposit
    BurnAmounts,      \* amounts users burn
    FeeChoices,       \* values the owner may set feeBps to
    WithdrawNonces,   \* nonces users pick for their burns
    Faults,           \* the failures of this configuration
    MaxDeposits,      \* bound: deposits made
    MaxBurns,         \* bound: burns made
    MaxEvents,        \* bound: deposits and burns made
    MaxLapses,        \* bound: times the relayer loses track of a payment
    MaxResends        \* bound: times one signed call is sent again

MAX_FEE_BPS == 100

\* callError:   a transaction is not executed and the client says so
\* unconfirmed: the client reports success for one that was not executed
\* lostReply:   the client reports an error for one that was executed
\* closed:      an event stream ends and is watched again
\* restart:     the relayer process stops and starts again
\* resend:      a signed withdraw call is sent again, by anyone
FaultKinds ==
    {"callError", "unconfirmed", "lostReply", "closed", "restart", "resend"}

ASSUME UsersAssumption == IsFiniteSet(Users)
ASSUME AmountsAssumption ==
    /\ DepositAmounts \subseteq Nat \ {0}
    /\ BurnAmounts \subseteq Nat
    /\ FeeChoices \subseteq 0 .. MAX_FEE_BPS
    /\ WithdrawNonces \subseteq Nat
ASSUME TokensAssumption == HomeToken \in Tokens
ASSUME BoundsAssumption ==
    /\ MaxDeposits \in Nat /\ MaxBurns \in Nat /\ MaxEvents \in Nat
    /\ MaxLapses \in Nat /\ MaxResends \in Nat
ASSUME FaultsAssumption == Faults \subseteq FaultKinds

VARIABLES
    \* BridgeLock
    feeBps,
    locked,         \* the contract's balance of each token
    deposits,       \* Deposited events; depositNonce is their number
    released,       \* times the relayer's calls paid each burn, by position
    resent,         \* times calls of others paid it
    signed,         \* burns whose withdraw call was signed and sent
    \* BridgeMint
    usedNonces,
    balanceOf,
    totalSupply,
    burns,          \* Burned events
    \* Relayer
    running,
    seenMinted,
    seenWithdrawn,
    depPos,         \* next event of depChan
    burnPos,        \* next event of burnChan
    call,           \* the blocking call: "none", "mint" or "withdraw"
    current,        \* position of the event being handled
    outcome,        \* its transaction: "sent", "executed" or "refused"
    \* history: read by the properties and the bounds only
    lapses,         \* restarts, and payments the relayer was told had failed
    refused         \* calls that were not executed, with their event

lock    == <<feeBps, locked, deposits, released, resent>>
pegged  == <<usedNonces, balanceOf, totalSupply, burns>>
streams == <<depPos, burnPos>>
seen    == <<seenMinted, seenWithdrawn>>
pending == <<call, current, outcome>>
history == <<lapses, refused>>
relayer == <<running, seen, streams, pending, signed, history>>
vars    == <<lock, pegged, relayer>>

\* The events the streams carry.
DepositedEvent == [token : Tokens, user : Users, amount : Nat, nonce : Nat]
BurnedEvent    == [user : Users, amount : Nat, nonce : Nat]

Init ==
    /\ feeBps = 10
    /\ locked = [t \in Tokens |-> 0] /\ deposits = <<>>
    /\ released = <<>> /\ resent = <<>> /\ signed = {}
    /\ usedNonces = {}
    /\ balanceOf = [u \in Users |-> 0] /\ totalSupply = 0
    /\ burns = <<>>
    /\ running = FALSE
    /\ seenMinted = {} /\ seenWithdrawn = {}
    /\ depPos = 1 /\ burnPos = 1
    /\ call = "none" /\ current = 0 /\ outcome = "sent"
    /\ lapses = 0 /\ refused = {}

-----------------------------------------------------------------------------
(* BridgeLock. *)

\* Mutant: the fee is credited instead of deducted.
NetPlusFee(amount) == amount + (amount * feeBps) \div 10000

\* deposit() announces the amount less the fee.
Net(amount) == amount - (amount * feeBps) \div 10000

Deposit(user, token, amount) ==
    /\ Len(deposits) < MaxDeposits /\ Len(deposits) + Len(burns) < MaxEvents
    /\ locked' = [locked EXCEPT ![token] = @ + amount]
    /\ deposits' = Append(deposits, [token |-> token, user |-> user,
                                     amount |-> Net(amount),
                                     nonce |-> Len(deposits)])
    /\ UNCHANGED <<feeBps, released, resent, pegged, relayer>>

\* setFeeBps(), by the owner.
SetFeeBps(fee) ==
    /\ fee <= MAX_FEE_BPS
    /\ feeBps' = fee
    /\ UNCHANGED <<locked, deposits, released, resent, pegged, relayer>>

\* Mutant: the fee is deducted from withdrawals as well.
WithdrawLessFee(i) ==
    locked' = [locked EXCEPT ![HomeToken] = @ - Net(burns[i].amount)]

\* withdraw() of a call that the admin signed: the balance must suffice; no
\* nonce is recorded and the caller is not looked at.
Withdrawable(i) == burns[i].amount <= locked[HomeToken]
Withdraw(i)     == locked' = [locked EXCEPT ![HomeToken] = @ - burns[i].amount]

ExecWithdraw ==
    /\ call = "withdraw" /\ outcome = "sent"
    /\ Withdrawable(current)
    /\ Withdraw(current)
    /\ released' = [released EXCEPT ![current] = @ + 1]
    /\ outcome' = "executed"
    /\ UNCHANGED <<feeBps, deposits, resent, pegged, running, seen,
                   streams, call, current, signed, history>>

\* The signed call of burn i, sent once more.
Resend(i) ==
    /\ "resend" \in Faults
    /\ i \in signed /\ resent[i] < MaxResends
    /\ Withdrawable(i)
    /\ Withdraw(i)
    /\ resent' = [resent EXCEPT ![i] = @ + 1]
    /\ UNCHANGED <<feeBps, deposits, released, pegged, relayer>>

-----------------------------------------------------------------------------
(* BridgeMint. *)

\* Mutant: the nonce is not checked.
NonceAlwaysUnused(n) == TRUE

NonceUnused(n) == n \notin usedNonces

ExecMint ==
    /\ call = "mint" /\ outcome = "sent"
    /\ LET d == deposits[current]
       IN  /\ NonceUnused(d.nonce)
           /\ usedNonces' = usedNonces \cup {d.nonce}
           /\ balanceOf' = [balanceOf EXCEPT ![d.user] = @ + d.amount]
           /\ totalSupply' = totalSupply + d.amount
    /\ outcome' = "executed"
    /\ UNCHANGED <<lock, burns, running, seen, streams, call, current,
                   signed, history>>

\* Mutant: the balance is not checked.
BurnUnchecked(user, amount, nonce) ==
    /\ Len(burns) < MaxBurns /\ Len(deposits) + Len(burns) < MaxEvents
    /\ balanceOf' = [balanceOf EXCEPT ![user] = @ - amount]
    /\ totalSupply' = totalSupply - amount
    /\ burns' = Append(burns, [user |-> user, amount |-> amount, nonce |-> nonce])
    /\ released' = Append(released, 0) /\ resent' = Append(resent, 0)
    /\ UNCHANGED <<feeBps, locked, deposits, usedNonces, relayer>>

\* burn(): the balance pays, the event carries the nonce the user chose.
Burn(user, amount, nonce) ==
    /\ Len(burns) < MaxBurns /\ Len(deposits) + Len(burns) < MaxEvents
    /\ balanceOf[user] >= amount
    /\ balanceOf' = [balanceOf EXCEPT ![user] = @ - amount]
    /\ totalSupply' = totalSupply - amount
    /\ burns' = Append(burns, [user |-> user, amount |-> amount, nonce |-> nonce])
    /\ released' = Append(released, 0) /\ resent' = Append(resent, 0)
    /\ UNCHANGED <<feeBps, locked, deposits, usedNonces, relayer>>

\* A transaction that reverts, or never reaches its chain.
Refuse ==
    /\ call # "none" /\ outcome = "sent"
    /\ \/ call = "mint" /\ ~NonceUnused(deposits[current].nonce)
       \/ call = "withdraw" /\ ~Withdrawable(current)
       \/ Faults \cap {"callError", "unconfirmed"} # {}
    /\ outcome' = "refused"
    /\ refused' = refused \cup {<<call, current>>}
    /\ UNCHANGED <<lock, pegged, running, seen, streams, call, current, signed,
                   lapses>>

-----------------------------------------------------------------------------
(* The relayer. *)

\* Mutant: what was seen is kept across a restart.
StartRemembers ==
    /\ ~running
    /\ running' = TRUE
    /\ depPos' = 1 /\ burnPos' = 1
    /\ UNCHANGED <<lock, pegged, seen, pending, signed, history>>

\* Mutant: the streams go on where they were.
StartResumes ==
    /\ ~running
    /\ running' = TRUE
    /\ seenMinted' = {} /\ seenWithdrawn' = {}
    /\ UNCHANGED <<lock, pegged, streams, pending, signed, history>>

\* New and Run: empty maps, both streams watched from the start blocks.
Start ==
    /\ ~running
    /\ running' = TRUE
    /\ seenMinted' = {} /\ seenWithdrawn' = {}
    /\ depPos' = 1 /\ burnPos' = 1
    /\ UNCHANGED <<lock, pegged, pending, signed, history>>

Idle == running /\ call = "none"

\* handleDeposit up to the call of Mint.
HandleDeposit ==
    /\ Idle
    /\ depPos <= Len(deposits)
    /\ depPos' = depPos + 1
    /\ LET nonce == deposits[depPos].nonce
       IN  \/ /\ nonce \in seenMinted
              /\ UNCHANGED <<seenMinted, pending>>
           \/ /\ nonce \notin seenMinted
              /\ seenMinted' = seenMinted \cup {nonce}
              /\ call' = "mint" /\ current' = depPos /\ outcome' = "sent"
    /\ UNCHANGED <<lock, pegged, running, seenWithdrawn, burnPos, signed, history>>

\* Mutant: the nonce is not remembered.
HandleBurnForgets ==
    /\ Idle
    /\ burnPos <= Len(burns)
    /\ burnPos' = burnPos + 1
    /\ burns[burnPos].nonce \notin seenWithdrawn
    /\ call' = "withdraw" /\ current' = burnPos /\ outcome' = "sent"
    /\ signed' = signed \cup {burnPos}
    /\ UNCHANGED <<lock, pegged, running, seen, depPos, history>>

\* handleBurn up to the call of Withdraw, which signs and sends.
HandleBurn ==
    /\ Idle
    /\ burnPos <= Len(burns)
    /\ burnPos' = burnPos + 1
    /\ LET nonce == burns[burnPos].nonce
       IN  \/ /\ nonce \in seenWithdrawn
              /\ UNCHANGED <<seenWithdrawn, pending, signed>>
           \/ /\ nonce \notin seenWithdrawn
              /\ seenWithdrawn' = seenWithdrawn \cup {nonce}
              /\ call' = "withdraw" /\ current' = burnPos /\ outcome' = "sent"
              /\ signed' = signed \cup {burnPos}
    /\ UNCHANGED <<lock, pegged, running, seenMinted, depPos, history>>

EndCall == call' = "none" /\ current' = 0 /\ outcome' = "sent"

\* The client returns a transaction hash.
ReplyOk ==
    /\ call # "none"
    /\ outcome = "executed" \/ (outcome = "refused" /\ "unconfirmed" \in Faults)
    /\ EndCall
    /\ UNCHANGED <<lock, pegged, running, seen, streams, signed, history>>

\* The client returns an error: the nonce is forgotten again, and with it the
\* payment when there was one.
ReplyError ==
    /\ call # "none"
    /\ outcome = "refused" \/ (outcome = "executed" /\ "lostReply" \in Faults)
    /\ \/ /\ call = "mint"
          /\ seenMinted' = seenMinted \ {deposits[current].nonce}
          /\ UNCHANGED <<seenWithdrawn, lapses>>
       \/ /\ call = "withdraw"
          /\ seenWithdrawn' = seenWithdrawn \ {burns[current].nonce}
          /\ \/ outcome = "refused" /\ UNCHANGED lapses
             \/ outcome = "executed" /\ lapses < MaxLapses /\ lapses' = lapses + 1
          /\ UNCHANGED seenMinted
    /\ EndCall
    /\ UNCHANGED <<lock, pegged, running, streams, signed, refused>>

\* A closed channel is watched again from the same start block.
Rewatch ==
    /\ Idle
    /\ "closed" \in Faults
    /\ \/ depPos' = 1 /\ UNCHANGED burnPos
       \/ burnPos' = 1 /\ UNCHANGED depPos
    /\ UNCHANGED <<lock, pegged, running, seen, pending, signed, history>>

\* The context is cancelled, a watch fails, or the process dies.
Stop ==
    /\ running
    /\ "restart" \in Faults
    /\ lapses < MaxLapses /\ lapses' = lapses + 1
    /\ running' = FALSE
    /\ EndCall
    /\ UNCHANGED <<lock, pegged, seen, streams, signed, refused>>

-----------------------------------------------------------------------------
User == \/ \E u \in Users, t \in Tokens, a \in DepositAmounts : Deposit(u, t, a)
        \/ \E u \in Users, a \in BurnAmounts, n \in WithdrawNonces : Burn(u, a, n)
        \/ \E i \in signed : Resend(i)

Owner == \E f \in FeeChoices : SetFeeBps(f)

Relayer == \/ Start \/ HandleDeposit \/ HandleBurn
           \/ ExecMint \/ ExecWithdraw \/ Refuse \/ ReplyOk \/ ReplyError

Next == User \/ Owner \/ Relayer \/ Rewatch \/ Stop

Spec == Init /\ [][Next]_vars

\* The relayer goroutine runs and every call it makes returns.  From some time
\* on the streams stay open, as nothing in the relayer closes them.
FairSpec ==
    /\ Spec
    /\ WF_vars(Relayer)
    /\ <>[][~(Rewatch \/ Stop)]_vars

\* Furthermore calls fail for a while only.
RetrySpec == FairSpec /\ <>[][~Refuse]_vars

-----------------------------------------------------------------------------
(* Properties. *)

\* Every variable stays in its type: in particular no balance and no escrow
\* goes below zero, which is where the contracts' checked arithmetic reverts.
TypeOK ==
    /\ feeBps \in 0 .. MAX_FEE_BPS
    /\ locked \in [Tokens -> Nat]
    /\ deposits \in Seq(DepositedEvent)
    /\ released \in Seq(Nat) /\ resent \in Seq(Nat)
    /\ usedNonces \subseteq Nat
    /\ balanceOf \in [Users -> Nat]
    /\ totalSupply \in Nat
    /\ burns \in Seq(BurnedEvent)
    /\ signed \subseteq DOMAIN burns
    /\ running \in BOOLEAN
    /\ seenMinted \subseteq Nat
    /\ seenWithdrawn \subseteq Nat
    /\ depPos \in 1 .. MaxDeposits + 1
    /\ burnPos \in 1 .. MaxBurns + 1
    /\ call \in {"none", "mint", "withdraw"}
    /\ current \in Nat
    /\ outcome \in {"sent", "executed", "refused"}
    /\ lapses \in 0 .. MaxLapses
    /\ refused \subseteq {"mint", "withdraw"} \X Nat

Total(events, positions) ==
    MapThenSumSet(LAMBDA i : events[i].amount, positions)

Home   == {i \in DOMAIN deposits : deposits[i].token = HomeToken}
Minted == {i \in DOMAIN deposits : deposits[i].nonce \in usedNonces}

\* How often a burn was paid, and what was paid for burns paid before.
Paid     == [i \in DOMAIN burns |-> released[i] + resent[i]]
Unpaid   == {i \in DOMAIN burns : Paid[i] = 0}
Overpaid ==
    Total([i \in DOMAIN burns |->
              [amount |-> IF Paid[i] = 0 THEN 0 ELSE (Paid[i] - 1) * burns[i].amount]],
          DOMAIN burns)

\* Every pegged token in existence or burned was minted for exactly one
\* deposit, through lost replies, replayed streams and relayer restarts.
PegBacked ==
    totalSupply + Total(burns, DOMAIN burns) = Total(deposits, Minted)

\* The home token that the lock holds covers all pegged tokens, all burns still
\* to be paid and all its deposits still to be minted, but for two things:
\* burns that were paid more than once, and pegged tokens that were minted for
\* deposits of other tokens.
Solvent ==
    locked[HomeToken] + Overpaid + Total(deposits, Minted \ Home) >=
        totalSupply + Total(burns, Unpaid) + Total(deposits, Home \ Minted)

\* The relayer itself pays a burn again only after it lost track of a payment:
\* once more for each restart and each payment that was reported as failed.
PaidOnce == \A i \in DOMAIN burns : released[i] <= 1 + lapses

\* Every deposit is eventually minted (relayer step 2 of the package comment),
\* also when its Mint call fails: "Remove from seen so we retry on next poll".
DepositsMinted ==
    \A i \in 1 .. MaxDeposits :
        (i \in DOMAIN deposits) ~> (i \in DOMAIN deposits /\ i \in Minted)

\* No deposit is passed over: it is minted, or a Mint call for it was refused,
\* whatever the relayer forgets, replays and has seen before.
DepositsAttended ==
    \A i \in 1 .. MaxDeposits :
        (i \in DOMAIN deposits) ~>
            (i \in DOMAIN deposits /\ (i \in Minted \/ <<"mint", i>> \in refused))

\* No burn with a nonce of its own is passed over: it is paid (step 4 of the
\* package comment), or a Withdraw call for it was refused.
BurnsPaid ==
    \A i \in 1 .. MaxBurns :
        (i \in DOMAIN burns) ~>
            (/\ i \in DOMAIN burns
             /\ \/ i \notin Unpaid
                \/ <<"withdraw", i>> \in refused
                \/ \E j \in DOMAIN burns \ {i} : burns[j].nonce = burns[i].nonce)

\* The amounts that events can carry.
PromisedAmounts ==
    {a - (a * f) \div 10000 : a \in DepositAmounts, f \in 0 .. MAX_FEE_BPS}
        \cup BurnAmounts

\* The events as promises, without their nonces.
PromisedDeposits == [i \in DOMAIN deposits |-> [token  |-> deposits[i].token,
                                                user   |-> deposits[i].user,
                                                amount |-> deposits[i].amount]]
PromisedBurns    == [i \in DOMAIN burns |-> [user   |-> burns[i].user,
                                             amount |-> burns[i].amount]]
Promises == INSTANCE PeggedBridge WITH
    Amounts  <- PromisedAmounts,
    escrow   <- locked,
    deposits <- PromisedDeposits,
    minted   <- Minted,
    holding  <- balanceOf,
    burns    <- PromisedBurns,
    paid     <- Paid

\* The bridge keeps the promises of PeggedBridge, whatever fails and whoever
\* calls: no deposit is minted twice, pegged tokens come from deposits only, and
\* escrow goes to those who burned and in the amounts they burned.
KeepsPromises == Promises!Spec
=============================================================================
