---------------------------- MODULE PeggedBridge ----------------------------
(***************************************************************************)
(* What the lock-and-mint bridge promises.  A deposit of any token goes    *)
(* into escrow and is minted at most once; pegged tokens are burned only   *)
(* by who holds them; escrow of the home token is paid to who burned, in   *)
(* the amount that was burned, and never beyond what there is.  That a     *)
(* burn is paid only once is not promised: BridgeLock keeps no record of   *)
(* payments.  Nothing is said of relayers, nonces or messages.             *)
(***************************************************************************)
EXTENDS Integers, Sequences

CONSTANTS Users, Tokens, HomeToken, Amounts

VARIABLES
    escrow,    \* what the lock holds of each token
    deposits,  \* every deposit: who is to receive how much for which token
    minted,    \* the deposits that were minted, by position
    holding,   \* pegged tokens per user
    burns,     \* every burn: who is owed how much
    paid       \* how often each burn was paid

bridge == <<escrow, deposits, minted, holding, burns, paid>>

DepositPromise == [token : Tokens, user : Users, amount : Amounts]
BurnPromise    == [user : Users, amount : Amounts]

Init ==
    /\ escrow = [t \in Tokens |-> 0]
    /\ deposits = <<>> /\ minted = {}
    /\ holding = [u \in Users |-> 0]
    /\ burns = <<>> /\ paid = <<>>

\* At least the promised amount goes into escrow; a fee may come on top.
Deposit ==
    /\ \E p \in DepositPromise :
          /\ deposits' = Append(deposits, p)
          /\ escrow'[p.token] >= escrow[p.token] + p.amount
          /\ escrow' = [escrow EXCEPT ![p.token] = escrow'[p.token]]
    /\ UNCHANGED <<minted, holding, burns, paid>>

Mint(i) ==
    /\ i \notin minted
    /\ minted' = minted \cup {i}
    /\ holding' = [holding EXCEPT ![deposits[i].user] = @ + deposits[i].amount]
    /\ UNCHANGED <<escrow, deposits, burns, paid>>

Burn ==
    /\ \E p \in BurnPromise :
          /\ p.amount <= holding[p.user]
          /\ holding' = [holding EXCEPT ![p.user] = @ - p.amount]
          /\ burns' = Append(burns, p) /\ paid' = Append(paid, 0)
    /\ UNCHANGED <<escrow, deposits, minted>>

Pay(i) ==
    /\ burns[i].amount <= escrow[HomeToken]
    /\ escrow' = [escrow EXCEPT ![HomeToken] = @ - burns[i].amount]
    /\ paid' = [paid EXCEPT ![i] = @ + 1]
    /\ UNCHANGED <<deposits, minted, holding, burns>>

Next ==
    \/ Deposit
    \/ \E i \in DOMAIN deposits : Mint(i)
    \/ Burn
    \/ \E i \in DOMAIN burns : Pay(i)

Spec == Init /\ [][Next]_bridge
=============================================================================
