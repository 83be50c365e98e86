---------------------------- MODULE BridgeProofs ----------------------------
(***************************************************************************)
(* Theorems about Bridge for every set of users, amounts, fees and nonces  *)
(* and any number of deposits and burns.                                   *)
(*                                                                         *)
(*   PaysOnce         the relayer repeats only payments it lost track of   *)
(*   NeverNegative    no balance and no escrow goes below zero             *)
(*   TokensAreBacked  every pegged token was minted for one deposit        *)
(*   EscrowCovers     the escrow covers all claims but for two named leaks *)
(*   Implements       the bridge implements PeggedBridge                   *)
(***************************************************************************)
EXTENDS Bridge, FiniteSetTheorems, TLAPS

\* How the sequences, positions and nonces hang together.
ShapeInv ==
    /\ feeBps \in 0 .. MAX_FEE_BPS
    /\ locked \in [Tokens -> Nat]
    /\ deposits \in Seq(DepositedEvent)
    /\ \A i \in DOMAIN deposits : deposits[i].nonce = i - 1
    /\ burns \in Seq(BurnedEvent)
    /\ released \in Seq(Nat) /\ Len(released) = Len(burns)
    /\ resent \in Seq(Nat) /\ Len(resent) = Len(burns)
    /\ signed \subseteq DOMAIN burns
    /\ lapses \in Nat
    /\ usedNonces \subseteq 0 .. Len(deposits) - 1
    /\ balanceOf \in [Users -> Nat]
    /\ depPos \in Nat \ {0}
    /\ burnPos \in Nat \ {0}
    /\ call \in {"none", "mint", "withdraw"}
    /\ outcome \in {"sent", "executed", "refused"}
    /\ call = "mint" => current \in DOMAIN deposits
    /\ call = "withdraw" => current \in DOMAIN burns

\* A burn that was paid once for every lapse is paid again only while the
\* relayer does not remember it; the burn it is paying was not paid more often,
\* nor was any other with its nonce.
LedgerInv ==
    /\ \A i \in DOMAIN burns : released[i] > lapses => burns[i].nonce \in seenWithdrawn
    /\ ~running => call = "none" /\ \A i \in DOMAIN burns : released[i] <= lapses
    /\ call = "withdraw" => burns[current].nonce \in seenWithdrawn
    /\ call = "withdraw" /\ outcome # "executed" =>
          \A i \in DOMAIN burns :
              burns[i].nonce = burns[current].nonce => released[i] <= lapses

Inv == ShapeInv /\ LedgerInv /\ PaidOnce

-----------------------------------------------------------------------------
\* The elements of a sequence over a set.
LEMMA ElementType ==
    ASSUME NEW S, NEW s \in Seq(S), NEW i \in DOMAIN s
    PROVE  s[i] \in S
OBVIOUS

\* The announced amount is a natural number, not above what was deposited.
LEMMA NetBounds ==
    ASSUME NEW a \in Nat, feeBps \in 0 .. MAX_FEE_BPS
    PROVE  Net(a) \in Nat /\ Net(a) <= a
<1>1. feeBps \in Nat /\ feeBps <= 100
    BY DEF MAX_FEE_BPS
<1> DEFINE p == a * feeBps
<1>2. p \in Nat /\ p <= 100 * a
    BY <1>1
<1> HIDE DEF p
<1>3. p \div 10000 \in Nat /\ p \div 10000 <= a
    BY <1>2
<1> QED BY <1>3 DEF Net, p

\* Every step is one of the following.
LEMMA BridgeSteps ==
    [Next]_vars =>
        \/ \E u \in Users, t \in Tokens, a \in DepositAmounts : Deposit(u, t, a)
        \/ \E f \in FeeChoices : SetFeeBps(f)
        \/ \E u \in Users, a \in BurnAmounts, n \in WithdrawNonces : Burn(u, a, n)
        \/ \E i \in signed : Resend(i)
        \/ Start \/ HandleDeposit \/ HandleBurn \/ ExecMint \/ ExecWithdraw
        \/ ReplyOk \/ ReplyError \/ Refuse \/ Rewatch \/ Stop
        \/ UNCHANGED vars
BY DEF Next, User, Owner, Relayer

\* Init establishes the invariant.
LEMMA InvInit == Init => Inv
BY DEF Init, Inv, ShapeInv, LedgerInv, PaidOnce, MAX_FEE_BPS

\* A withdrawal leaves no negative balance.
LEMMA WithdrawType ==
    ASSUME ShapeInv, NEW i \in DOMAIN burns, Withdrawable(i), Withdraw(i)
    PROVE  locked' \in [Tokens -> Nat]
<1>1. burns[i] \in BurnedEvent
    BY ElementType DEF ShapeInv
<1>2. burns[i].amount \in Nat /\ burns[i].amount <= locked[HomeToken]
    BY <1>1 DEF BurnedEvent, Withdrawable
<1>3. locked' = [locked EXCEPT ![HomeToken] = locked[HomeToken] - burns[i].amount]
    BY DEF Withdraw
<1>4. locked[HomeToken] - burns[i].amount \in Nat
    BY <1>2, TokensAssumption DEF ShapeInv
<1> QED BY <1>3, <1>4 DEF ShapeInv

\* The shape is kept by every step.
LEMMA ShapeStep == ShapeInv /\ [Next]_vars => ShapeInv'
<1> SUFFICES ASSUME ShapeInv, [Next]_vars PROVE ShapeInv'
    OBVIOUS
<1> USE AmountsAssumption
    DEF ShapeInv, lock, pegged, streams, seen, pending, history, relayer
<1>1. ASSUME NEW u \in Users, NEW t \in Tokens, NEW a \in DepositAmounts,
             Deposit(u, t, a)
      PROVE  ShapeInv'
    <2>1. a \in Nat /\ Net(a) \in Nat
        BY NetBounds
    <2> DEFINE e == [token |-> t, user |-> u, amount |-> Net(a), nonce |-> Len(deposits)]
    <2>2. e \in DepositedEvent
        BY <2>1 DEF DepositedEvent
    <2>3. deposits' = Append(deposits, e) /\ locked' = [locked EXCEPT ![t] = @ + a]
        BY <1>1 DEF Deposit
    <2>4. /\ deposits' \in Seq(DepositedEvent) /\ locked' \in [Tokens -> Nat]
          /\ Len(deposits') = Len(deposits) + 1
        BY <2>1, <2>2, <2>3
    <2>5. \A i \in DOMAIN deposits' : deposits'[i].nonce = i - 1
        BY <2>3, SMTT(20)
    <2> HIDE DEF e
    <2>6. UNCHANGED <<feeBps, released, resent, pegged, relayer>>
        BY <1>1 DEF Deposit
    <2> QED BY <2>4, <2>5, <2>6, SMTT(20)
<1>2. ASSUME NEW f \in FeeChoices, SetFeeBps(f) PROVE ShapeInv'
    BY <1>2 DEF SetFeeBps
<1>3. ASSUME NEW u \in Users, NEW a \in BurnAmounts, NEW n \in WithdrawNonces,
             Burn(u, a, n)
      PROVE  ShapeInv'
    <2>1. [user |-> u, amount |-> a, nonce |-> n] \in BurnedEvent
        BY DEF BurnedEvent
    <2>2. /\ burns' \in Seq(BurnedEvent)
          /\ released' \in Seq(Nat) /\ resent' \in Seq(Nat)
        BY <1>3, <2>1 DEF Burn
    <2>3. /\ Len(released') = Len(burns') /\ Len(resent') = Len(burns')
          /\ signed' \subseteq DOMAIN burns'
        BY <1>3 DEF Burn
    <2>4. balanceOf' \in [Users -> Nat]
        BY <1>3 DEF Burn
    <2>5. call' = "withdraw" => current' \in DOMAIN burns'
        BY <1>3 DEF Burn
    <2> QED BY <1>3, <2>2, <2>3, <2>4, <2>5 DEF Burn
<1>4. CASE Start
    BY <1>4 DEF Start
<1>5. CASE HandleDeposit
    BY <1>5 DEF HandleDeposit, Idle
<1>6. CASE HandleBurn
    <2>1. burnPos \in DOMAIN burns /\ burnPos' = burnPos + 1
        BY <1>6 DEF HandleBurn
    <2>2. \/ UNCHANGED pending
          \/ call' = "withdraw" /\ current' = burnPos /\ outcome' = "sent"
        BY <1>6 DEF HandleBurn
    <2>3. signed' = signed \/ signed' = signed \cup {burnPos}
        BY <1>6 DEF HandleBurn
    <2>4. UNCHANGED <<lock, pegged, depPos, lapses>>
        BY <1>6 DEF HandleBurn
    <2> QED BY <2>1, <2>2, <2>3, <2>4
<1>7. CASE ExecMint
    <2>0. current \in 1 .. Len(deposits)
        BY <1>7 DEF ExecMint
    <2>1. deposits[current] \in DepositedEvent /\ deposits[current].nonce = current - 1
        BY <2>0, ElementType
    <2>2. usedNonces' \subseteq 0 .. Len(deposits) - 1
        <3>1. usedNonces' = usedNonces \cup {current - 1}
            BY <1>7, <2>1 DEF ExecMint
        <3>2. current - 1 \in 0 .. Len(deposits) - 1
            BY <2>0
        <3> QED BY <3>1, <3>2
    <2>3. balanceOf' \in [Users -> Nat]
        BY <1>7, <2>1, SMTT(20) DEF ExecMint, DepositedEvent
    <2> QED BY <1>7, <2>2, <2>3 DEF ExecMint
<1>8. CASE ExecWithdraw
    <2>0. current \in 1 .. Len(burns)
        BY <1>8 DEF ExecWithdraw
    <2>1. burns[current] \in BurnedEvent
        BY <2>0, ElementType
    <2>2. locked' \in [Tokens -> Nat]
        BY <1>8, <2>0, WithdrawType DEF ExecWithdraw
    <2>3. released' \in Seq(Nat) /\ Len(released') = Len(released)
        BY <1>8 DEF ExecWithdraw
    <2> QED BY <1>8, <2>2, <2>3 DEF ExecWithdraw
<1>15. ASSUME NEW i \in signed, Resend(i) PROVE ShapeInv'
    <2>1. i \in DOMAIN burns /\ i \in DOMAIN resent
        OBVIOUS
    <2>2. locked' \in [Tokens -> Nat]
        BY <1>15, <2>1, WithdrawType DEF Resend
    <2>3. resent' \in Seq(Nat) /\ Len(resent') = Len(resent)
        BY <1>15, <2>1 DEF Resend
    <2> QED BY <1>15, <2>2, <2>3 DEF Resend
<1>9. CASE ReplyOk
    BY <1>9 DEF ReplyOk, EndCall
<1>10. CASE ReplyError
    BY <1>10 DEF ReplyError, EndCall
<1>11. CASE Refuse
    BY <1>11 DEF Refuse
<1>12. CASE Rewatch
    BY <1>12 DEF Rewatch
<1>13. CASE Stop
    BY <1>13 DEF Stop, EndCall
<1>14. CASE UNCHANGED vars
    BY <1>14 DEF vars
<1> QED BY <1>1, <1>2, <1>3, <1>4, <1>5, <1>6, <1>7, <1>8, <1>9, <1>10, <1>11,
           <1>12, <1>13, <1>14, <1>15, BridgeSteps

\* The relayer's memory covers every payment that it did not lose track of.
LEMMA LedgerStep == Inv /\ [Next]_vars => LedgerInv' /\ PaidOnce'
<1> SUFFICES ASSUME Inv, [Next]_vars PROVE LedgerInv' /\ PaidOnce'
    OBVIOUS
<1>0. ShapeInv
    BY DEF Inv
<1> USE DEF Inv, LedgerInv, PaidOnce, lock, pegged, streams, seen, pending, history, relayer
<1>1. ASSUME NEW u \in Users, NEW t \in Tokens, NEW a \in DepositAmounts,
             Deposit(u, t, a)
      PROVE  LedgerInv' /\ PaidOnce'
    BY <1>1 DEF Deposit
<1>2. ASSUME NEW f \in FeeChoices, SetFeeBps(f) PROVE LedgerInv' /\ PaidOnce'
    BY <1>2 DEF SetFeeBps
<1>3. ASSUME NEW u \in Users, NEW a \in BurnAmounts, NEW n \in WithdrawNonces,
             Burn(u, a, n)
      PROVE  LedgerInv' /\ PaidOnce'
    <2> DEFINE k == Len(burns) + 1
    <2>1. DOMAIN burns' = 1 .. k /\ DOMAIN burns = 1 .. k - 1 /\ k \in Nat \ {0}
        BY <1>0, <1>3 DEF Burn, ShapeInv
    <2>2. \A i \in DOMAIN burns : burns'[i] = burns[i] /\ released'[i] = released[i]
        BY <1>0, <1>3 DEF Burn, ShapeInv
    <2>3. released'[k] = 0
        BY <1>0, <1>3 DEF Burn, ShapeInv
    <2>4. UNCHANGED <<running, seen, pending, lapses>>
        BY <1>3 DEF Burn
    <2>5. call = "withdraw" => current \in DOMAIN burns
        BY <1>0 DEF ShapeInv
    <2>6. \A i \in DOMAIN burns' : i \in DOMAIN burns \/ i = k
        BY <2>1
    <2>7. ~(0 > lapses) /\ 0 <= lapses /\ 0 <= 1 + lapses
        BY <1>0 DEF ShapeInv
    <2> HIDE DEF k
    <2> QED BY <2>2, <2>3, <2>4, <2>5, <2>6, <2>7
<1>4. CASE Start
    <2>1. \A i \in DOMAIN burns : ~(released[i] > lapses)
        BY <1>0, <1>4 DEF Start, ShapeInv
    <2> QED BY <1>4, <2>1 DEF Start
<1>5. CASE HandleDeposit
    BY <1>5 DEF HandleDeposit, Idle
<1>6. CASE HandleBurn
    <2>1. UNCHANGED <<released, burns, lapses, running>> /\ running /\ call = "none"
        BY <1>6 DEF HandleBurn, Idle
    <2>2. CASE UNCHANGED <<seenWithdrawn, pending>>
        BY <2>1, <2>2
    <2>3. CASE /\ burns[burnPos].nonce \notin seenWithdrawn
               /\ seenWithdrawn' = seenWithdrawn \cup {burns[burnPos].nonce}
               /\ call' = "withdraw" /\ current' = burnPos
        <3>1. \A i \in DOMAIN burns :
                  burns[i].nonce = burns[burnPos].nonce => released[i] <= lapses
            BY <1>0, <2>3 DEF ShapeInv
        <3> QED BY <2>1, <2>3, <3>1
    <2> QED BY <1>6, <2>2, <2>3 DEF HandleBurn
<1>7. CASE ExecMint
    BY <1>7 DEF ExecMint
<1>8. CASE ExecWithdraw
    <2>1. current \in DOMAIN burns /\ DOMAIN burns = DOMAIN released
        BY <1>0, <1>8 DEF ExecWithdraw, ShapeInv
    <2>2. released' = [released EXCEPT ![current] = released[current] + 1]
        BY <1>8 DEF ExecWithdraw
    <2>3. released[current] <= lapses /\ released[current] \in Nat /\ lapses \in Nat
        BY <1>0, <1>8, <2>1, SMTT(20) DEF ExecWithdraw, ShapeInv
    <2>4. /\ UNCHANGED <<burns, seen, running, call, current, lapses>>
          /\ outcome' = "executed" /\ call = "withdraw"
        BY <1>8 DEF ExecWithdraw
    <2>5. running
        BY <1>8 DEF ExecWithdraw
    <2>6. \A i \in DOMAIN burns : released'[i] = released[i] \/ i = current
        BY <2>1, <2>2
    <2>7. released'[current] = released[current] + 1
        BY <2>1, <2>2
    <2>8. released'[current] <= 1 + lapses
        BY <2>3, <2>7
    <2> QED BY <2>1, <2>4, <2>5, <2>6, <2>8
<1>9. CASE ReplyOk
    BY <1>9 DEF ReplyOk, EndCall
<1>10. CASE ReplyError
    <2>1. /\ UNCHANGED <<released, burns, running>> /\ call' = "none"
          /\ call # "none" /\ running
        BY <1>10 DEF ReplyError, EndCall
    <2>2. CASE lapses' = lapses + 1
        <3>1. \A i \in DOMAIN burns : released[i] <= lapses'
            BY <1>0, <2>2 DEF ShapeInv
        <3>2. \A i \in DOMAIN burns : released[i] <= 1 + lapses'
            BY <1>0, <2>2, <3>1 DEF ShapeInv
        <3> QED BY <1>0, <2>1, <2>2, <3>1, <3>2 DEF ShapeInv
    <2>3. CASE call = "mint"
        BY <1>10, <2>1, <2>3 DEF ReplyError
    <2>4. CASE call = "withdraw" /\ outcome = "refused" /\ UNCHANGED lapses
        <3>1. seenWithdrawn' = seenWithdrawn \ {burns[current].nonce}
            BY <1>10, <2>4 DEF ReplyError
        <3>2. \A i \in DOMAIN burns :
                  burns[i].nonce = burns[current].nonce => ~(released[i] > lapses)
            BY <1>0, <2>4 DEF ShapeInv
        <3> QED BY <2>1, <2>4, <3>1, <3>2
    <2> QED BY <1>10, <2>2, <2>3, <2>4 DEF ReplyError
<1>11. CASE Refuse
    BY <1>11 DEF Refuse
<1>12. CASE Rewatch
    BY <1>12 DEF Rewatch, Idle
<1>13. CASE Stop
    <2>1. /\ UNCHANGED <<released, burns>> /\ call' = "none" /\ lapses' = lapses + 1
        BY <1>13 DEF Stop, EndCall
    <2>2. \A i \in DOMAIN burns : released[i] <= lapses'
        BY <1>0, <2>1 DEF ShapeInv
    <2>3. \A i \in DOMAIN burns : released[i] <= 1 + lapses' /\ ~(released[i] > lapses')
        BY <1>0, <2>1, <2>2 DEF ShapeInv
    <2> QED BY <2>1, <2>2, <2>3
<1>14. CASE UNCHANGED vars
    BY <1>14 DEF vars
<1>15. ASSUME NEW i \in signed, Resend(i) PROVE LedgerInv' /\ PaidOnce'
    BY <1>15 DEF Resend
<1> QED BY <1>1, <1>2, <1>3, <1>4, <1>5, <1>6, <1>7, <1>8, <1>9, <1>10, <1>11,
           <1>12, <1>13, <1>14, <1>15, BridgeSteps

\* The inductive invariant holds throughout.
LEMMA Invariance == Spec => []Inv
<1>1. Inv /\ [Next]_vars => Inv'
    BY ShapeStep, LedgerStep DEF Inv
<1> QED BY <1>1, InvInit, PTL DEF Spec

\* However calls fail, streams are replayed, nonces collide and others send
\* signed calls again, the relayer itself pays a burn at most once more than it
\* was restarted or told that a payment failed which was in fact made.
THEOREM PaysOnce == Spec => []PaidOnce
<1>1. Inv => PaidOnce
    BY DEF Inv
<1> QED BY <1>1, Invariance, PTL

-----------------------------------------------------------------------------
(* Sums over events and over users. *)

Add(x, y) == x + y
AnyOf(S) == CHOOSE x \in S : TRUE

Adding == INSTANCE FoldTheorems WITH Op <- Add, Choose <- AnyOf

\* Finite sets of numbers can be added up.
LEMMA AddsUp ==
    /\ Adding!Commutes(Int) /\ Adding!Closed(Int) /\ Adding!Closed(Nat)
    /\ \A S : IsFiniteSet(S) => Adding!Foldable(S)
<1>1. ASSUME NEW S, IsFiniteSet(S) PROVE Adding!Foldable(S)
    <2>1. Adding!IsFiniteSet(S)
        BY <1>1 DEF IsFiniteSet, Adding!IsFiniteSet
    <2> QED BY <2>1 DEF Adding!Foldable, AnyOf
<1>2. Adding!Commutes(Int) /\ Adding!Closed(Int) /\ Adding!Closed(Nat)
    BY DEF Adding!Commutes, Adding!Closed, Add
<1> QED BY <1>1, <1>2

AmountsOf(events) == [i \in DOMAIN events |-> events[i].amount]

\* A sequence of events with their amounts.
Tallied(events) ==
    /\ DOMAIN events = 1 .. Len(events) /\ Len(events) \in Nat
    /\ \A i \in DOMAIN events : events[i].amount \in Nat

LEMMA EventsTallied == ASSUME ShapeInv PROVE Tallied(deposits) /\ Tallied(burns)
<1>1. ASSUME NEW S, \A e \in S : e.amount \in Nat, NEW s \in Seq(S) PROVE Tallied(s)
    <2>1. DOMAIN s = 1 .. Len(s) /\ Len(s) \in Nat
        OBVIOUS
    <2>2. \A i \in DOMAIN s : s[i] \in S
        BY ElementType
    <2> QED BY <1>1, <2>1, <2>2 DEF Tallied
<1>2. /\ \A e \in DepositedEvent : e.amount \in Nat
      /\ \A e \in BurnedEvent : e.amount \in Nat
    BY DEF DepositedEvent, BurnedEvent
<1> QED BY <1>1, <1>2 DEF ShapeInv

LEMMA PositionsFoldable ==
    ASSUME NEW events, Tallied(events), NEW P \in SUBSET DOMAIN events
    PROVE  IsFiniteSet(P) /\ Adding!Foldable(P)
<1>1. IsFiniteSet(1 .. Len(events)) /\ P \in SUBSET (1 .. Len(events))
    BY FS_Interval DEF Tallied
<1>2. IsFiniteSet(P)
    BY <1>1, FS_Subset
<1> QED BY <1>2, AddsUp

\* Total is the fold of the amounts.
LEMMA TotalIsFold ==
    ASSUME NEW events, Tallied(events), NEW P \in SUBSET DOMAIN events
    PROVE  Total(events, P) = Adding!Fold(0, AmountsOf(events), P)
<1> DEFINE Sums(g) == g = [s \in SUBSET P |->
                             IF s = {} THEN 0
                             ELSE LET x == AnyOf(s)
                                  IN  events[x].amount + g[s \ {x}]]
           X == CHOOSE g : Sums(g)
           f == AmountsOf(events)
<1>1. Adding!Foldable(P)
    BY PositionsFoldable
<1>2. \A s \in SUBSET P : s # {} => f[AnyOf(s)] = events[AnyOf(s)].amount
    BY DEF AnyOf, AmountsOf
<1>3. ASSUME NEW g PROVE Sums(g) <=> Adding!Iterates(g, 0, f, P)
    BY <1>2 DEF Adding!Iterates, Add
<1>4. \E g : Adding!Iterates(g, 0, f, P)
    BY <1>1, Adding!FoldExists
<1>5. Sums(X)
    BY <1>3, <1>4, Zenon
<1>6. X[P] = Adding!Fold(0, f, P)
    BY <1>1, <1>3, <1>5, Adding!FoldIs
<1>7. Total(events, P) = X[P]
    BY Zenon DEF Total, MapThenSumSet, MapThenFoldSet, AnyOf
<1> QED BY <1>6, <1>7

LEMMA TotalType ==
    ASSUME NEW events, Tallied(events), NEW P \in SUBSET DOMAIN events
    PROVE  Total(events, P) \in Nat
<1>1. /\ \A i \in P : AmountsOf(events)[i] \in Nat
      /\ 0 \in Nat /\ Adding!Closed(Nat) /\ Adding!Foldable(P)
    BY AddsUp, PositionsFoldable DEF Tallied, AmountsOf
<1>2. Adding!Fold(0, AmountsOf(events), P) \in Nat
    BY <1>1, Adding!FoldType
<1> QED BY <1>2, TotalIsFold

\* Nothing adds up to nothing.
LEMMA TotalEmpty == Total(<<>>, {}) = 0
<1>1. Tallied(<<>>) /\ {} \in SUBSET DOMAIN <<>>
    BY DEF Tallied
<1>2. Adding!Fold(0, AmountsOf(<<>>), {}) = 0
    BY Adding!FoldEmpty
<1> QED BY <1>1, <1>2, TotalIsFold

\* One more event adds its amount.
LEMMA TotalAdd ==
    ASSUME NEW events, Tallied(events), NEW P \in SUBSET DOMAIN events,
           NEW i \in DOMAIN events \ P
    PROVE  Total(events, P \cup {i}) = Total(events, P) + events[i].amount
<1> DEFINE f == AmountsOf(events)
           T == P \cup {i}
<1>1. /\ \A k \in T : f[k] \in Int
      /\ 0 \in Int /\ Adding!Commutes(Int) /\ Adding!Foldable(T) /\ i \in T
      /\ T \in SUBSET DOMAIN events /\ T \ {i} = P /\ f[i] = events[i].amount
    BY AddsUp, PositionsFoldable DEF Tallied, AmountsOf
<1> HIDE DEF f, T
<1>2. Adding!Fold(0, f, T) = Add(f[i], Adding!Fold(0, f, T \ {i}))
    BY <1>1, Adding!FoldAny
<1>3. Adding!Fold(0, f, P) = Total(events, P) /\ Adding!Fold(0, f, T) = Total(events, T)
    BY <1>1, TotalIsFold DEF f
<1>4. Total(events, P) \in Nat /\ events[i].amount \in Nat
    BY TotalType DEF Tallied
<1>5. Total(events, T) = events[i].amount + Total(events, P)
    BY <1>1, <1>2, <1>3 DEF Add
<1> QED BY <1>4, <1>5 DEF T

\* A total depends on the events it is over only.
LEMMA TotalSame ==
    ASSUME NEW old, NEW new, Tallied(old), Tallied(new),
           NEW P \in SUBSET DOMAIN old, P \in SUBSET DOMAIN new,
           \A i \in P : old[i] = new[i]
    PROVE  Total(new, P) = Total(old, P)
<1>1. Adding!Foldable(P) /\ \A i \in P : AmountsOf(old)[i] = AmountsOf(new)[i]
    BY PositionsFoldable DEF AmountsOf
<1>2. Adding!Fold(0, AmountsOf(old), P) = Adding!Fold(0, AmountsOf(new), P)
    BY <1>1, Adding!FoldSame
<1> QED BY <1>2, TotalIsFold

\* When one amount changes the total changes with it.
LEMMA TotalUpdate ==
    ASSUME NEW old, NEW new, Tallied(old), Tallied(new), NEW P \in SUBSET DOMAIN old,
           P \in SUBSET DOMAIN new, NEW i \in P,
           \A k \in P \ {i} : old[k] = new[k]
    PROVE  Total(new, P) = Total(old, P) + new[i].amount - old[i].amount
<1> DEFINE Q == P \ {i}
<1>1. /\ Q \in SUBSET DOMAIN old /\ Q \in SUBSET DOMAIN new /\ P = Q \cup {i}
      /\ i \in DOMAIN old \ Q /\ i \in DOMAIN new \ Q /\ \A k \in Q : old[k] = new[k]
    OBVIOUS
<1> HIDE DEF Q
<1>2. Total(new, Q) = Total(old, Q)
    BY <1>1, TotalSame
<1>3. /\ Total(new, P) = Total(new, Q) + new[i].amount
      /\ Total(old, P) = Total(old, Q) + old[i].amount
    BY <1>1, TotalAdd
<1>4. Total(old, Q) \in Nat /\ new[i].amount \in Nat /\ old[i].amount \in Nat
    BY <1>1, TotalType DEF Tallied
<1> QED BY <1>2, <1>3, <1>4

\* What all users hold.
Held == Adding!Fold(0, balanceOf, Users)

LEMMA HeldInit == Init => Held = 0
<1> SUFFICES ASSUME Init PROVE Held = 0
    OBVIOUS
<1>1. /\ \A u \in Users : balanceOf[u] \in {0}
      /\ Adding!Closed({0}) /\ Adding!Foldable(Users) /\ 0 \in {0}
    BY UsersAssumption, AddsUp DEF Init, Adding!Closed, Add
<1>2. Adding!Fold(0, balanceOf, Users) \in {0}
    BY <1>1, Adding!FoldType
<1> QED BY <1>2 DEF Held

\* One balance and the sum of the others.
LEMMA SumWithout ==
    ASSUME NEW f, \A x \in Users : f[x] \in Int, NEW u \in Users
    PROVE  Adding!Fold(0, f, Users) = f[u] + Adding!Fold(0, f, Users \ {u})
<1>1. Adding!Commutes(Int) /\ Adding!Foldable(Users) /\ 0 \in Int
    BY UsersAssumption, AddsUp
<1>2. Adding!Fold(0, f, Users) = Add(f[u], Adding!Fold(0, f, Users \ {u}))
    BY <1>1, Adding!FoldAny
<1> QED BY <1>2 DEF Add

\* When one balance changes the sum changes with it, and no balance is above
\* the sum.
LEMMA SumUpdate ==
    ASSUME NEW f \in [Users -> Nat], NEW u \in Users, NEW n \in Int,
           f[u] + n \in Nat
    PROVE  /\ Adding!Fold(0, f, Users) \in Nat
           /\ f[u] <= Adding!Fold(0, f, Users)
           /\ Adding!Fold(0, [f EXCEPT ![u] = f[u] + n], Users)
                = Adding!Fold(0, f, Users) + n
<1> DEFINE r == Adding!Fold(0, f, Users \ {u})
           h == [f EXCEPT ![u] = f[u] + n]
<1>1. /\ \A x \in Users : f[x] \in Int /\ f[x] \in Nat
      /\ \A x \in Users : h[x] \in Int
      /\ h[u] = f[u] + n /\ \A x \in Users \ {u} : h[x] = f[x]
    OBVIOUS
<1> HIDE DEF h
<1>2. /\ Adding!Commutes(Int) /\ Adding!Closed(Nat) /\ Adding!Foldable(Users)
      /\ Adding!Foldable(Users \ {u}) /\ 0 \in Nat /\ 0 \in Int
    BY UsersAssumption, AddsUp, FS_Subset
<1>3. r \in Nat
    BY <1>1, <1>2, Adding!FoldType
<1>4. Adding!Fold(0, h, Users \ {u}) = r
    BY <1>1, <1>2, Adding!FoldSame
<1>5. Adding!Fold(0, f, Users) = f[u] + r
    BY <1>1, SumWithout
<1>6. Adding!Fold(0, h, Users) = h[u] + Adding!Fold(0, h, Users \ {u})
    BY <1>1, SumWithout
<1> HIDE DEF r
<1>7. /\ Adding!Fold(0, f, Users) \in Nat /\ f[u] <= Adding!Fold(0, f, Users)
      /\ Adding!Fold(0, h, Users) = Adding!Fold(0, f, Users) + n
    BY <1>1, <1>3, <1>4, <1>5, <1>6
<1> QED BY <1>7 DEF h

-----------------------------------------------------------------------------
(* Every variable stays in its type. *)

\* The supply is what the users hold; positions stay within their streams.
HoldingsInv ==
    /\ totalSupply = Held
    /\ Len(deposits) <= MaxDeposits /\ Len(burns) <= MaxBurns
    /\ depPos <= Len(deposits) + 1 /\ burnPos <= Len(burns) + 1
    /\ current \in Nat
    /\ seenMinted \subseteq Nat /\ seenWithdrawn \subseteq Nat
    /\ lapses <= MaxLapses
    /\ refused \subseteq {"mint", "withdraw"} \X Nat

LEMMA HeldType == ASSUME ShapeInv PROVE Held \in Nat
<1>1. /\ \A u \in Users : balanceOf[u] \in Nat
      /\ 0 \in Nat /\ Adding!Closed(Nat) /\ Adding!Foldable(Users)
    BY UsersAssumption, AddsUp DEF ShapeInv
<1>2. Adding!Fold(0, balanceOf, Users) \in Nat
    BY <1>1, Adding!FoldType
<1> QED BY <1>2 DEF Held

\* The balances change only when tokens are minted or burned.
LEMMA HeldStep ==
    ASSUME ShapeInv, [Next]_vars, totalSupply = Held
    PROVE  totalSupply' = Held'
<1> USE DEF lock, pegged, streams, seen, pending, history, relayer
<1>1. ASSUME NEW u \in Users, NEW a \in BurnAmounts, NEW n \in WithdrawNonces,
             Burn(u, a, n)
      PROVE  totalSupply' = Held'
    <2>1. /\ balanceOf \in [Users -> Nat] /\ -a \in Int /\ a \in Nat
          /\ balanceOf[u] >= a /\ balanceOf[u] + (-a) \in Nat
          /\ balanceOf' = [balanceOf EXCEPT ![u] = balanceOf[u] + (-a)]
        <3>1. a \in Nat /\ balanceOf[u] \in Nat /\ balanceOf[u] >= a
            BY <1>1, AmountsAssumption DEF Burn, ShapeInv
        <3>2. balanceOf[u] - a = balanceOf[u] + (-a) /\ balanceOf[u] + (-a) \in Nat
            BY <3>1
        <3>3. balanceOf' = [balanceOf EXCEPT ![u] = balanceOf[u] - a]
            BY <1>1 DEF Burn
        <3>4. balanceOf' = [balanceOf EXCEPT ![u] = balanceOf[u] + (-a)]
            BY <3>2, <3>3, Zenon
        <3>5. -a \in Int
            BY <3>1
        <3> QED BY <3>1, <3>2, <3>4, <3>5 DEF ShapeInv
    <2>2. Held' = Held + (-a)
        BY <2>1, SumUpdate DEF Held
    <2>3. totalSupply' = totalSupply - a
        BY <1>1 DEF Burn
    <2> QED BY <2>1, <2>2, <2>3, HeldType
<1>2. CASE ExecMint
    <2> DEFINE d == deposits[current]
    <2>1. d \in DepositedEvent
        BY <1>2, ElementType DEF ExecMint, ShapeInv
    <2>2. d.user \in Users /\ d.amount \in Nat
        BY <2>1 DEF DepositedEvent
    <2>3. /\ balanceOf \in [Users -> Nat] /\ d.amount \in Int
          /\ balanceOf[d.user] + d.amount \in Nat
          /\ balanceOf' = [balanceOf EXCEPT ![d.user] = balanceOf[d.user] + d.amount]
        BY <1>2, <2>2 DEF ExecMint, ShapeInv
    <2>4. Held' = Held + d.amount
        BY <2>2, <2>3, SumUpdate DEF Held
    <2>5. totalSupply' = totalSupply + d.amount
        BY <1>2 DEF ExecMint
    <2> QED BY <2>4, <2>5
<1>3. ASSUME UNCHANGED <<totalSupply, balanceOf>> PROVE totalSupply' = Held'
    BY <1>3 DEF Held
<1>4. ASSUME NEW u \in Users, NEW t \in Tokens, NEW a \in DepositAmounts,
             Deposit(u, t, a)
      PROVE  totalSupply' = Held'
    BY <1>3, <1>4 DEF Deposit
<1>5. ASSUME NEW f \in FeeChoices, SetFeeBps(f) PROVE totalSupply' = Held'
    BY <1>3, <1>5 DEF SetFeeBps
<1>6. CASE Start \/ HandleDeposit \/ HandleBurn \/ ExecWithdraw \/ ReplyOk
           \/ ReplyError \/ Refuse \/ Rewatch \/ Stop \/ UNCHANGED vars
    BY <1>3, <1>6 DEF Start, HandleDeposit, HandleBurn, ExecWithdraw, ReplyOk,
                      ReplyError, Refuse, Rewatch, Stop, vars
<1>7. ASSUME NEW i \in signed, Resend(i) PROVE totalSupply' = Held'
    BY <1>3, <1>7 DEF Resend
<1> QED BY <1>1, <1>2, <1>4, <1>5, <1>6, <1>7, BridgeSteps

LEMMA RunningStep == running \in BOOLEAN /\ [Next]_vars => (running \in BOOLEAN)'
<1> SUFFICES ASSUME running \in BOOLEAN, [Next]_vars PROVE running' \in BOOLEAN
    OBVIOUS
<1>1. UNCHANGED running \/ running' = TRUE \/ running' = FALSE
    BY BridgeSteps, Zenon
       DEF Deposit, SetFeeBps, Burn, Start, HandleDeposit, HandleBurn, ExecMint,
           ExecWithdraw, Resend, ReplyOk, ReplyError, Refuse, Rewatch, Stop, vars,
           relayer
<1> QED BY <1>1, Zenon

LEMMA HoldingsStep == ShapeInv /\ HoldingsInv /\ [Next]_vars => HoldingsInv'
<1> SUFFICES ASSUME ShapeInv, HoldingsInv, [Next]_vars PROVE HoldingsInv'
    OBVIOUS
<1>0. totalSupply' = Held'
    BY HeldStep DEF HoldingsInv
<1> USE <1>0 DEF HoldingsInv, lock, pegged, streams, seen, pending, history, relayer
<1>1. ASSUME NEW u \in Users, NEW t \in Tokens, NEW a \in DepositAmounts,
             Deposit(u, t, a)
      PROVE  HoldingsInv'
    BY <1>1, BoundsAssumption DEF Deposit, ShapeInv
<1>2. ASSUME NEW f \in FeeChoices, SetFeeBps(f) PROVE HoldingsInv'
    BY <1>2 DEF SetFeeBps
<1>3. ASSUME NEW u \in Users, NEW a \in BurnAmounts, NEW n \in WithdrawNonces,
             Burn(u, a, n)
      PROVE  HoldingsInv'
    BY <1>3, BoundsAssumption, SMTT(20) DEF Burn, ShapeInv
<1>4. CASE HandleDeposit
    <2>1. depPos \in 1 .. Len(deposits) /\ depPos' = depPos + 1
        BY <1>4 DEF HandleDeposit, ShapeInv
    <2>2. deposits[depPos].nonce \in Nat
        BY <2>1 DEF ShapeInv
    <2>3. seenMinted' \subseteq Nat /\ current' \in Nat
        <3>1. seenMinted' = seenMinted \/ seenMinted' = seenMinted \cup {deposits[depPos].nonce}
            BY <1>4 DEF HandleDeposit
        <3>2. current' = current \/ current' = depPos
            BY <1>4 DEF HandleDeposit
        <3>3. current' \in Nat
            BY <2>1, <3>2 DEF ShapeInv
        <3>4. seenMinted \subseteq Nat
            OBVIOUS
        <3> QED BY <2>2, <3>1, <3>3, <3>4
    <2>4. UNCHANGED <<deposits, burns, burnPos, seenWithdrawn, history>>
        BY <1>4 DEF HandleDeposit
    <2> QED BY <2>1, <2>3, <2>4
<1>5. CASE HandleBurn
    <2>1. burnPos \in 1 .. Len(burns) /\ burnPos' = burnPos + 1
        BY <1>5 DEF HandleBurn, ShapeInv
    <2>2. burns[burnPos].nonce \in Nat
        <3>1. burns[burnPos] \in BurnedEvent
            BY <2>1, ElementType DEF ShapeInv
        <3> QED BY <3>1 DEF BurnedEvent
    <2>3. seenWithdrawn' \subseteq Nat /\ current' \in Nat
        <3>1. \/ seenWithdrawn' = seenWithdrawn
              \/ seenWithdrawn' = seenWithdrawn \cup {burns[burnPos].nonce}
            BY <1>5 DEF HandleBurn
        <3>2. current' = current \/ current' = burnPos
            BY <1>5 DEF HandleBurn
        <3>3. current' \in Nat
            BY <2>1, <3>2 DEF ShapeInv
        <3>4. seenWithdrawn \subseteq Nat
            OBVIOUS
        <3> QED BY <2>2, <3>1, <3>3, <3>4
    <2>4. UNCHANGED <<deposits, burns, depPos, seenMinted, history>>
        BY <1>5 DEF HandleBurn
    <2> QED BY <2>1, <2>3, <2>4
<1>6. CASE Start
    BY <1>6 DEF Start, ShapeInv
<1>7. CASE Rewatch
    <2>1. UNCHANGED <<deposits, burns, current, seenMinted, seenWithdrawn, history>>
        BY <1>7 DEF Rewatch
    <2>2. depPos' \in {1, depPos} /\ burnPos' \in {1, burnPos}
        BY <1>7 DEF Rewatch
    <2> QED BY <2>1, <2>2 DEF ShapeInv
<1>8. CASE ReplyOk \/ Stop
    <2>1. UNCHANGED <<deposits, burns, seenMinted, seenWithdrawn, depPos, burnPos, refused>>
        BY <1>8 DEF ReplyOk, Stop
    <2>2. current' = 0
        BY <1>8 DEF ReplyOk, Stop, EndCall
    <2>3. lapses' <= MaxLapses
        BY <1>8, BoundsAssumption DEF ReplyOk, Stop, ShapeInv
    <2> QED BY <2>1, <2>2, <2>3
<1>9. CASE ReplyError
    <2>1. seenMinted' \subseteq seenMinted /\ seenWithdrawn' \subseteq seenWithdrawn
        BY <1>9 DEF ReplyError
    <2>2. UNCHANGED <<deposits, burns, depPos, burnPos, refused>> /\ current' = 0
        BY <1>9 DEF ReplyError, EndCall
    <2>3. lapses' = lapses \/ (lapses < MaxLapses /\ lapses' = lapses + 1)
        BY <1>9 DEF ReplyError
    <2>4. lapses' <= MaxLapses
        BY <2>3, BoundsAssumption DEF ShapeInv
    <2> QED BY <2>1, <2>2, <2>4
<1>10. CASE ExecMint \/ ExecWithdraw \/ UNCHANGED vars
    BY <1>10 DEF ExecMint, ExecWithdraw, vars
<1>11. CASE Refuse
    <2>1. <<call, current>> \in {"mint", "withdraw"} \X Nat
        BY <1>11 DEF Refuse, ShapeInv
    <2>2. refused' = refused \cup {<<call, current>>}
        BY <1>11 DEF Refuse
    <2> QED BY <1>11, <2>1, <2>2 DEF Refuse
<1>12. ASSUME NEW i \in signed, Resend(i) PROVE HoldingsInv'
    BY <1>12 DEF Resend
<1> QED BY <1>1, <1>2, <1>3, <1>4, <1>5, <1>6, <1>7, <1>8, <1>9, <1>10, <1>11,
           <1>12, BridgeSteps

LEMMA HoldingsInvariance == Spec => [](ShapeInv /\ HoldingsInv)
<1>1. Init => ShapeInv /\ HoldingsInv
    <2> SUFFICES ASSUME Init PROVE ShapeInv /\ HoldingsInv
        OBVIOUS
    <2>1. ShapeInv /\ Held = 0
        BY InvInit, HeldInit DEF Inv
    <2>2. Len(deposits) = 0 /\ Len(burns) = 0
        BY DEF Init
    <2> QED BY <2>1, <2>2, BoundsAssumption DEF Init, HoldingsInv
<1>2. ShapeInv /\ HoldingsInv /\ [Next]_vars => (ShapeInv /\ HoldingsInv)'
    BY ShapeStep, HoldingsStep
<1> QED BY <1>1, <1>2, PTL DEF Spec

\* No balance, no supply and no escrow ever goes below zero, where the
\* contracts' checked arithmetic would revert, under every failure.
THEOREM NeverNegative == Spec => []TypeOK
<1>1. Init => running \in BOOLEAN
    BY Zenon DEF Init
<1>2. ASSUME ShapeInv, HoldingsInv, running \in BOOLEAN PROVE TypeOK
    <2>1. totalSupply \in Nat
        BY <1>2, HeldType DEF HoldingsInv
    <2>2. usedNonces \subseteq Nat
        BY <1>2 DEF ShapeInv
    <2>3. depPos \in 1 .. MaxDeposits + 1 /\ burnPos \in 1 .. MaxBurns + 1
        BY <1>2, BoundsAssumption DEF ShapeInv, HoldingsInv
    <2> QED BY <1>2, <2>1, <2>2, <2>3, SMTT(20) DEF ShapeInv, HoldingsInv, TypeOK
<1> QED BY <1>1, <1>2, HoldingsInvariance, RunningStep, PTL DEF Spec

-----------------------------------------------------------------------------
(* Tokens, claims and escrow. *)

\* Every deposit and every burn, as the step that makes it sees it.
LEMMA DepositBooked ==
    ASSUME ShapeInv, NEW u \in Users, NEW t \in Tokens, NEW a \in DepositAmounts,
           Deposit(u, t, a)
    PROVE  /\ Total(deposits', Minted') = Total(deposits, Minted)
           /\ Total(deposits', (Minted \ Home)') = Total(deposits, Minted \ Home)
           /\ \E n \in Nat :
                 /\ n <= a /\ a \in Nat
                 /\ Total(deposits', (Home \ Minted)')
                      = Total(deposits, Home \ Minted)
                        + (IF t = HomeToken THEN n ELSE 0)
<1> DEFINE k == Len(deposits) + 1
           new == deposits'
           U == Home \ Minted
           F == Minted \ Home
<1>1. a \in Nat /\ Net(a) \in Nat /\ Net(a) <= a
    BY NetBounds, AmountsAssumption DEF ShapeInv
<1>2. new = Append(deposits, [token |-> t, user |-> u, amount |-> Net(a),
                              nonce |-> Len(deposits)])
    BY DEF Deposit
<1>3. /\ DOMAIN new = 1 .. k /\ DOMAIN deposits = 1 .. k - 1 /\ k \in Nat
      /\ Len(new) = k /\ new[k].amount = Net(a) /\ new[k].nonce = k - 1
      /\ new[k].token = t
      /\ \A i \in DOMAIN deposits : new[i] = deposits[i]
    BY <1>2 DEF ShapeInv
<1>4. Tallied(deposits) /\ Tallied(new)
    BY <1>1, <1>3, EventsTallied DEF Tallied
<1>5. Minted' = Minted /\ k \notin Minted /\ Minted \in SUBSET DOMAIN deposits
    <2>1. usedNonces' = usedNonces /\ usedNonces \subseteq 0 .. k - 2
        BY <1>3 DEF Deposit, pegged, ShapeInv
    <2>2. k - 1 \notin usedNonces
        BY <1>3, <2>1
    <2>3. \A i \in DOMAIN new : i \in DOMAIN deposits \/ i = k
        BY <1>3
    <2>4. k \notin DOMAIN deposits /\ DOMAIN deposits \subseteq DOMAIN new
        BY <1>3
    <2> QED BY <1>3, <2>1, <2>2, <2>3, <2>4 DEF Minted
<1>6. /\ Home' = Home \cup (IF t = HomeToken THEN {k} ELSE {})
      /\ Home \in SUBSET DOMAIN deposits /\ k \notin Home
      /\ k \in DOMAIN new /\ DOMAIN deposits \subseteq DOMAIN new
    <2>1. \A i \in DOMAIN new : i \in DOMAIN deposits \/ i = k
        BY <1>3
    <2>2. k \notin DOMAIN deposits /\ DOMAIN deposits \subseteq DOMAIN new /\ k \in DOMAIN new
        BY <1>3
    <2> QED BY <1>3, <2>1, <2>2 DEF Home
<1>7. /\ F' = F /\ U' = U \cup (IF t = HomeToken THEN {k} ELSE {})
      /\ k \in DOMAIN new \ U
      /\ U \in SUBSET DOMAIN deposits /\ F \in SUBSET DOMAIN deposits
      /\ U \in SUBSET DOMAIN new
    BY <1>5, <1>6
<1> HIDE DEF k, new, U, F
<1>8. ASSUME NEW P \in SUBSET DOMAIN deposits PROVE Total(new, P) = Total(deposits, P)
    <2>1. (\A i \in P : deposits[i] = new[i]) /\ P \in SUBSET DOMAIN new
        BY <1>3, <1>6
    <2> QED BY <1>4, <2>1, TotalSame
<1>9. Total(new, U \cup {k}) = Total(new, U) + new[k].amount
    BY <1>4, <1>7, TotalAdd
<1>10. Total(new, U') = Total(deposits, U) + (IF t = HomeToken THEN Net(a) ELSE 0)
    <2>1. Total(deposits, U) \in Nat
        BY <1>4, <1>7, TotalType
    <2>2. CASE t = HomeToken
        BY <1>3, <1>7, <1>8, <1>9, <2>1, <2>2
    <2>3. CASE t # HomeToken
        BY <1>7, <1>8, <2>1, <2>3
    <2> QED BY <2>2, <2>3
<1>11. Total(new, Minted') = Total(deposits, Minted) /\ Total(new, F') = Total(deposits, F)
    BY <1>5, <1>7, <1>8
<1> QED BY <1>1, <1>10, <1>11 DEF new, U, F

\* How often each burn was paid, and what was paid for it more than it is worth.
Repaid ==
    [i \in DOMAIN burns |->
        [amount |-> IF Paid[i] = 0 THEN 0 ELSE (Paid[i] - 1) * burns[i].amount]]

LEMMA PaidType ==
    ASSUME ShapeInv
    PROVE  /\ Paid \in [DOMAIN burns -> Nat] /\ Unpaid \in SUBSET DOMAIN burns
           /\ Tallied(Repaid) /\ DOMAIN Repaid = DOMAIN burns
           /\ Overpaid = Total(Repaid, DOMAIN burns) /\ Overpaid \in Nat
<1>1. Tallied(burns)
    BY EventsTallied
<1>2. Paid \in [DOMAIN burns -> Nat]
    BY DEF Paid, ShapeInv
<1>3. DOMAIN Repaid = 1 .. Len(burns) /\ Len(burns) \in Nat /\ DOMAIN burns = 1 .. Len(burns)
    BY <1>1 DEF Repaid, Tallied
<1>4. Len(Repaid) = Len(burns)
    BY <1>3
<1>5. ASSUME NEW i \in DOMAIN burns PROVE Repaid[i].amount \in Nat
    <2>1. Paid[i] \in Nat /\ burns[i].amount \in Nat
        BY <1>1, <1>2 DEF Tallied
    <2>2. ASSUME NEW p \in Nat, NEW n \in Nat, p # 0 PROVE (p - 1) * n \in Nat
        BY <2>2
    <2> QED BY <2>1, <2>2 DEF Repaid
<1>6. Tallied(Repaid)
    BY <1>3, <1>4, <1>5 DEF Tallied
<1>7. Overpaid = Total(Repaid, DOMAIN burns)
    BY DEF Overpaid, Repaid
<1>8. Total(Repaid, DOMAIN burns) \in Nat
    BY <1>3, <1>6, TotalType
<1> QED BY <1>2, <1>3, <1>6, <1>7, <1>8 DEF Unpaid

LEMMA BurnBooked ==
    ASSUME ShapeInv, NEW u \in Users, NEW a \in BurnAmounts,
           NEW n \in WithdrawNonces, Burn(u, a, n)
    PROVE  /\ a \in Nat
           /\ Total(burns', DOMAIN burns') = Total(burns, DOMAIN burns) + a
           /\ Total(burns', Unpaid') = Total(burns, Unpaid) + a
           /\ Overpaid' = Overpaid
<1> DEFINE k == Len(burns) + 1
           new == burns'
           D == DOMAIN burns
<1>1. a \in Nat
    BY AmountsAssumption
<1>2. /\ new = Append(burns, [user |-> u, amount |-> a, nonce |-> n])
      /\ released' = Append(released, 0) /\ resent' = Append(resent, 0)
    BY DEF Burn
<1>3. /\ DOMAIN new = 1 .. k /\ D = 1 .. k - 1 /\ k \in Nat
      /\ Len(new) = k /\ new[k].amount = a
      /\ \A i \in D : new[i] = burns[i]
    BY <1>2 DEF ShapeInv
<1>4. Tallied(burns) /\ Tallied(new)
    BY <1>1, <1>3, EventsTallied DEF Tallied
<1>5. /\ \A i \in D : Paid'[i] = Paid[i]
      /\ Paid'[k] = 0
    <2>1. \A i \in D : released'[i] = released[i] /\ resent'[i] = resent[i]
        BY <1>2 DEF ShapeInv
    <2>2. released'[k] = 0 /\ resent'[k] = 0
        BY <1>2 DEF ShapeInv
    <2>3. D \subseteq DOMAIN new /\ k \in DOMAIN new
        BY <1>3
    <2> QED BY <2>1, <2>2, <2>3 DEF Paid
<1>6. Unpaid' = Unpaid \cup {k}
    <2>1. \A i \in DOMAIN new : i \in D \/ i = k
        BY <1>3
    <2>2. D \subseteq DOMAIN new /\ k \in DOMAIN new
        BY <1>3
    <2> QED BY <1>3, <1>5, <2>1, <2>2 DEF Unpaid
<1>7. /\ DOMAIN new = D \cup {k} /\ k \in DOMAIN new \ D /\ k \in DOMAIN new \ Unpaid
      /\ D \in SUBSET DOMAIN new /\ Unpaid \in SUBSET D /\ Unpaid \in SUBSET DOMAIN new
    BY <1>3 DEF Unpaid
<1> HIDE DEF k, new
<1>8. ASSUME NEW P \in SUBSET D, P \in SUBSET DOMAIN new, k \in DOMAIN new \ P
      PROVE  Total(new, P \cup {k}) = Total(burns, P) + a
    <2>1. \A i \in P : burns[i] = new[i]
        BY <1>3
    <2>2. Total(new, P) = Total(burns, P)
        BY <1>4, <1>8, <2>1, TotalSame
    <2>3. Total(new, P \cup {k}) = Total(new, P) + new[k].amount
        BY <1>4, <1>8, TotalAdd
    <2> QED BY <1>3, <2>2, <2>3
<1>9. Total(new, DOMAIN new) = Total(burns, D) + a
    BY <1>7, <1>8
<1>10. Total(new, Unpaid') = Total(burns, Unpaid) + a
    BY <1>6, <1>7, <1>8
<1>11. Overpaid' = Overpaid
    <2> DEFINE old == Repaid
               rep == Repaid'
    <2>1. /\ Tallied(old) /\ DOMAIN old = D /\ Overpaid = Total(old, D)
        BY PaidType
    <2>2. rep[k].amount = 0 /\ \A i \in D : rep[i] = old[i]
        BY <1>3, <1>5, <1>7 DEF Repaid, new
    <2>3. /\ Tallied(rep) /\ DOMAIN rep = DOMAIN new /\ Overpaid' = Total(rep, DOMAIN new)
        <3>1. DOMAIN rep = DOMAIN new /\ Overpaid' = Total(rep, DOMAIN new)
            BY DEF Repaid, Overpaid, new
        <3>2. \A i \in DOMAIN rep : rep[i].amount \in Nat
            BY <1>7, <2>1, <2>2, <3>1 DEF Tallied
        <3>3. DOMAIN rep = 1 .. Len(new) /\ Len(new) \in Nat
            BY <1>4, <3>1 DEF Tallied
        <3>4. Len(rep) = Len(new)
            BY <3>3
        <3> QED BY <3>1, <3>2, <3>3, <3>4 DEF Tallied
    <2> HIDE DEF old, rep
    <2>4. Total(rep, D) = Total(old, D)
        BY <1>7, <2>1, <2>3, <2>2, TotalSame
    <2>5. Total(rep, D \cup {k}) = Total(rep, D) + rep[k].amount
        BY <1>7, <2>3, TotalAdd
    <2>6. Total(old, D) \in Nat
        BY <2>1, TotalType
    <2> QED BY <1>7, <2>1, <2>3, <2>2, <2>4, <2>5, <2>6
<1> QED BY <1>1, <1>9, <1>10, <1>11 DEF new

\* One more payment of a burn settles it or is one too many.
LEMMA PaymentBooked ==
    ASSUME ShapeInv, NEW i \in DOMAIN burns, burns' = burns,
           Paid' = [Paid EXCEPT ![i] = Paid[i] + 1]
    PROVE  /\ burns[i].amount \in Nat
           /\ Total(burns', Unpaid') \in Nat /\ Overpaid' \in Nat
           /\ Overpaid' + Total(burns, Unpaid)
                = Overpaid + Total(burns', Unpaid') + burns[i].amount
<1> DEFINE n == burns[i].amount
           D == DOMAIN burns
           old == Repaid
           rep == Repaid'
<1>1. /\ Tallied(burns) /\ n \in Nat /\ Paid \in [D -> Nat] /\ Unpaid \in SUBSET D
      /\ Tallied(old) /\ DOMAIN old = D /\ Overpaid = Total(old, D) /\ Overpaid \in Nat
    BY EventsTallied, PaidType DEF Tallied
<1>2. /\ Paid' \in [D -> Nat] /\ Paid'[i] = Paid[i] + 1
      /\ \A j \in D \ {i} : Paid'[j] = Paid[j]
    BY <1>1
<1>3. ASSUME NEW p \in Nat, NEW m \in Nat
      PROVE  p * m \in Nat /\ (p + 1) * m = p * m + m
    OBVIOUS
<1>4. /\ rep = [j \in D |-> [amount |-> IF Paid'[j] = 0 THEN 0
                                        ELSE (Paid'[j] - 1) * burns[j].amount]]
      /\ Overpaid' = Total(rep, D)
    BY DEF Repaid, Overpaid
<1>5. /\ \A j \in D \ {i} : old[j] = rep[j]
      /\ rep[i].amount = Paid[i] * n
      /\ old[i].amount = IF Paid[i] = 0 THEN 0 ELSE (Paid[i] - 1) * n
    <2>1. \A j \in D \ {i} : old[j] = rep[j]
        BY <1>2, <1>4 DEF Repaid
    <2>2. rep[i].amount = Paid[i] * n
        <3>1. rep[i].amount = IF Paid'[i] = 0 THEN 0 ELSE (Paid'[i] - 1) * n
            BY <1>4
        <3>2. Paid'[i] # 0 /\ Paid'[i] - 1 = Paid[i]
            <4>1. Paid'[i] = Paid[i] + 1 /\ Paid[i] \in Nat
                BY <1>1, <1>2
            <4>2. ASSUME NEW x, NEW y \in Nat, x = y + 1 PROVE x # 0 /\ x - 1 = y
                BY <4>2
            <4> QED BY <4>1, <4>2, Zenon
        <3> HIDE DEF n, rep
        <3> QED BY <3>1, <3>2
    <2> QED BY <2>1, <2>2 DEF Repaid
<1>6. Tallied(rep) /\ DOMAIN rep = D
    <2>1. DOMAIN rep = D /\ D = 1 .. Len(burns) /\ Len(burns) \in Nat
        BY <1>1, <1>4 DEF Tallied
    <2>2. rep[i].amount \in Nat
        BY <1>1, <1>3, <1>5
    <2>3. \A j \in D : rep[j].amount \in Nat
        BY <1>1, <1>5, <2>2 DEF Tallied
    <2>4. Len(rep) = Len(burns)
        BY <2>1
    <2> QED BY <2>1, <2>3, <2>4 DEF Tallied
<1> HIDE DEF n, D, old, rep
<1>7. Total(rep, D) = Total(old, D) + rep[i].amount - old[i].amount
    <2>1. /\ D \in SUBSET DOMAIN old /\ D \in SUBSET DOMAIN rep /\ i \in D
          /\ \A k \in D \ {i} : old[k] = rep[k]
        BY <1>1, <1>5, <1>6 DEF D
    <2> QED BY <1>1, <1>6, <2>1, TotalUpdate, Zenon
<1>8. Total(rep, D) \in Nat
    BY <1>6, TotalType
<1>9. CASE Paid[i] = 0
    <2>1. rep[i].amount = 0 /\ old[i].amount = 0
        BY <1>1, <1>5, <1>9
    <2>2. /\ Unpaid = Unpaid' \cup {i} /\ i \in D \ Unpaid' /\ Unpaid' \in SUBSET D
        BY <1>1, <1>2, <1>9 DEF Unpaid, D
    <2>3. /\ Total(burns, Unpaid) = Total(burns, Unpaid') + n
          /\ Total(burns, Unpaid') \in Nat
        BY <1>1, <2>2, TotalAdd, TotalType DEF D, n
    <2> QED BY <1>1, <1>4, <1>7, <1>8, <2>1, <2>3 DEF n
<1>10. CASE Paid[i] # 0
    <2> DEFINE q == Paid[i] - 1
    <2>1. q \in Nat /\ Paid[i] = q + 1
        BY <1>1, <1>10 DEF D
    <2>2. rep[i].amount = (q + 1) * n /\ old[i].amount = q * n
        BY <1>5, <1>10, <2>1
    <2> HIDE DEF q
    <2>3. rep[i].amount = q * n + n /\ q * n \in Nat
        BY <1>1, <1>3, <2>1, <2>2
    <2>4. Unpaid' = Unpaid
        BY <1>1, <1>2, <1>10 DEF Unpaid, D
    <2>5. Total(burns, Unpaid) \in Nat
        BY <1>1, TotalType DEF D
    <2>6. Total(rep, D) = Total(old, D) + n
        BY <1>1, <1>7, <1>8, <2>2, <2>3
    <2> QED BY <1>1, <1>4, <1>8, <2>4, <2>5, <2>6 DEF n
<1> QED BY <1>9, <1>10

\* withdraw() pays a burn, for the relayer or for someone else.
PaysFor(i) ==
    /\ i \in DOMAIN burns
    /\ Withdrawable(i) /\ Withdraw(i)
    /\ Paid' = [Paid EXCEPT ![i] = Paid[i] + 1]
    /\ UNCHANGED <<deposits, pegged>>

LEMMA Payments ==
    ASSUME ShapeInv, ExecWithdraw \/ \E i \in signed : Resend(i)
    PROVE  \E i \in DOMAIN burns : PaysFor(i)
<1>0. DOMAIN released = DOMAIN burns /\ DOMAIN resent = DOMAIN burns
      /\ (\A i \in DOMAIN burns : released[i] \in Nat /\ resent[i] \in Nat)
    BY DEF ShapeInv
<1>1. CASE ExecWithdraw
    <2>1. current \in DOMAIN burns
        BY <1>1 DEF ExecWithdraw, ShapeInv
    <2>2. /\ released' = [released EXCEPT ![current] = released[current] + 1]
          /\ UNCHANGED <<resent, pegged, burns, deposits>>
          /\ Withdrawable(current) /\ Withdraw(current)
        BY <1>1 DEF ExecWithdraw, pegged
    <2>3. /\ \A i \in DOMAIN burns \ {current} : released'[i] = released[i]
          /\ released'[current] = released[current] + 1
        BY <1>0, <2>1, <2>2
    <2>4. /\ \A i \in DOMAIN burns \ {current} :
                 released'[i] + resent'[i] = released[i] + resent[i]
          /\ released'[current] + resent'[current] = released[current] + resent[current] + 1
        BY <1>0, <2>1, <2>2, <2>3
    <2>5. Paid' = [Paid EXCEPT ![current] = Paid[current] + 1]
        BY <2>1, <2>2, <2>4 DEF Paid
    <2> QED BY <2>1, <2>2, <2>5 DEF PaysFor
<1>2. ASSUME NEW k \in signed, Resend(k) PROVE PaysFor(k) /\ k \in DOMAIN burns
    <2>1. k \in DOMAIN burns
        BY DEF ShapeInv
    <2>2. /\ resent' = [resent EXCEPT ![k] = resent[k] + 1]
          /\ UNCHANGED <<released, pegged, burns, deposits>>
          /\ Withdrawable(k) /\ Withdraw(k)
        BY <1>2 DEF Resend, pegged
    <2>3. /\ \A i \in DOMAIN burns \ {k} : resent'[i] = resent[i]
          /\ resent'[k] = resent[k] + 1
        BY <1>0, <2>1, <2>2
    <2>4. /\ \A i \in DOMAIN burns \ {k} :
                 released'[i] + resent'[i] = released[i] + resent[i]
          /\ released'[k] + resent'[k] = released[k] + resent[k] + 1
        BY <1>0, <2>1, <2>2, <2>3
    <2>5. Paid' = [Paid EXCEPT ![k] = Paid[k] + 1]
        BY <2>1, <2>2, <2>4 DEF Paid
    <2> QED BY <2>1, <2>2, <2>5 DEF PaysFor
<1> QED BY <1>1, <1>2

\* Whatever is not a deposit, a burn, a mint or a payment leaves tokens, events
\* and escrow alone.
LEMMA OtherSteps ==
    ASSUME ShapeInv, [Next]_vars
    PROVE  \/ \E u \in Users, t \in Tokens, a \in DepositAmounts : Deposit(u, t, a)
           \/ \E u \in Users, a \in BurnAmounts, n \in WithdrawNonces : Burn(u, a, n)
           \/ ExecMint
           \/ \E i \in DOMAIN burns : PaysFor(i)
           \/ UNCHANGED <<locked, deposits, released, resent, pegged>>
<1>1. ASSUME NEW f \in FeeChoices, SetFeeBps(f)
      PROVE  UNCHANGED <<locked, deposits, released, resent, pegged>>
    BY <1>1 DEF SetFeeBps
<1>2. CASE Start \/ HandleDeposit \/ HandleBurn \/ ReplyOk \/ ReplyError
           \/ Refuse \/ Rewatch \/ Stop \/ UNCHANGED vars
    BY <1>2 DEF Start, HandleDeposit, HandleBurn, ReplyOk, ReplyError, Refuse,
                Rewatch, Stop, vars, lock
<1> QED BY <1>1, <1>2, BridgeSteps, Payments

LEMMA MintBooked ==
    ASSUME ShapeInv, ExecMint
    PROVE  LET n == deposits[current].amount
           IN  /\ n \in Nat /\ totalSupply' = totalSupply + n
               /\ Total(deposits', Minted') = Total(deposits, Minted) + n
               /\ \/ /\ Total(deposits', (Minted \ Home)') = Total(deposits, Minted \ Home)
                     /\ Total(deposits, Home \ Minted)
                          = Total(deposits', (Home \ Minted)') + n
                  \/ /\ Total(deposits', (Minted \ Home)')
                          = Total(deposits, Minted \ Home) + n
                     /\ Total(deposits', (Home \ Minted)') = Total(deposits, Home \ Minted)
               /\ Total(deposits', (Home \ Minted)') \in Nat
<1> DEFINE n == deposits[current].amount
           F == Minted \ Home
           U == Home \ Minted
           V == U'
<1>1. current \in DOMAIN deposits /\ deposits[current].nonce = current - 1
    BY DEF ExecMint, ShapeInv
<1>2. current \notin Minted /\ Minted' = Minted \cup {current}
    BY <1>1 DEF Minted, ExecMint, NonceUnused, ShapeInv, lock
<1>3. deposits' = deposits /\ totalSupply' = totalSupply + n /\ Home' = Home
    BY DEF ExecMint, lock, Home
<1>4. /\ Tallied(deposits) /\ Minted \in SUBSET DOMAIN deposits
      /\ F \in SUBSET DOMAIN deposits /\ V \in SUBSET DOMAIN deposits
      /\ current \in DOMAIN deposits \ Minted /\ current \in DOMAIN deposits \ F
      /\ V = U \ {current} /\ current \in DOMAIN deposits \ V
    BY <1>1, <1>2, <1>3, EventsTallied DEF Minted, Home
<1>5. n \in Nat
    BY <1>1, <1>4 DEF Tallied
<1>6. ASSUME current \in Home
      PROVE  /\ Total(deposits', F') = Total(deposits, F)
             /\ Total(deposits, U) = Total(deposits', V) + n
    <2>1. F' = F /\ U = V \cup {current}
        BY <1>2, <1>3, <1>6
    <2> HIDE DEF n, F, U, V
    <2>2. Total(deposits, V \cup {current}) = Total(deposits, V) + n
        BY <1>4, TotalAdd DEF n
    <2> QED BY <1>3, <2>1, <2>2
<1>7. ASSUME current \notin Home
      PROVE  /\ Total(deposits', F') = Total(deposits, F) + n
             /\ Total(deposits', V) = Total(deposits, U)
    <2>1. F' = F \cup {current} /\ V = U
        BY <1>2, <1>3, <1>7
    <2> HIDE DEF n, F, U, V
    <2>2. Total(deposits, F \cup {current}) = Total(deposits, F) + n
        BY <1>4, TotalAdd DEF n
    <2> QED BY <1>3, <2>1, <2>2
<1> HIDE DEF n, F, U, V
<1>8. Total(deposits, Minted \cup {current}) = Total(deposits, Minted) + n
    BY <1>4, TotalAdd DEF n
<1>9. Total(deposits', V) \in Nat
    BY <1>3, <1>4, TotalType
<1>10. Total(deposits', Minted') = Total(deposits, Minted) + n
    BY <1>2, <1>3, <1>8
<1> QED BY <1>3, <1>5, <1>6, <1>7, <1>9, <1>10 DEF n, F, U, V

\* What the totals are about.
LEMMA TotalsAreNat ==
    ASSUME ShapeInv
    PROVE  /\ Total(burns, DOMAIN burns) \in Nat /\ Total(burns, Unpaid) \in Nat
           /\ Total(deposits, Minted) \in Nat
           /\ Total(deposits, Minted \ Home) \in Nat
           /\ Total(deposits, Home \ Minted) \in Nat
BY EventsTallied, TotalType DEF Unpaid, Minted, Home

LEMMA PegStep == ShapeInv /\ HoldingsInv /\ PegBacked /\ [Next]_vars => PegBacked'
<1> SUFFICES ASSUME ShapeInv, HoldingsInv, PegBacked, [Next]_vars PROVE PegBacked'
    OBVIOUS
<1>0. totalSupply \in Nat
    BY HeldType DEF HoldingsInv
<1> USE <1>0, TotalsAreNat DEF PegBacked
<1>1. ASSUME NEW u \in Users, NEW t \in Tokens, NEW a \in DepositAmounts,
             Deposit(u, t, a)
      PROVE PegBacked'
    <2>1. UNCHANGED <<totalSupply, burns>>
        BY <1>1 DEF Deposit, pegged
    <2>2. Total(deposits', Minted') = Total(deposits, Minted)
        BY <1>1, DepositBooked
    <2> QED BY <2>1, <2>2
<1>2. ASSUME NEW u \in Users, NEW a \in BurnAmounts, NEW n \in WithdrawNonces,
             Burn(u, a, n)
      PROVE  PegBacked'
    <2>1. a \in Nat /\ Total(burns', DOMAIN burns') = Total(burns, DOMAIN burns) + a
        BY <1>2, BurnBooked
    <2>2. totalSupply' = totalSupply - a /\ UNCHANGED <<deposits, usedNonces>>
        BY <1>2 DEF Burn
    <2>3. Total(deposits', Minted') = Total(deposits, Minted)
        BY <2>2 DEF Minted
    <2> QED BY <2>1, <2>2, <2>3
<1>3. CASE ExecMint
    <2> DEFINE n == deposits[current].amount
    <2>1. /\ n \in Nat /\ totalSupply' = totalSupply + n
          /\ Total(deposits', Minted') = Total(deposits, Minted) + n
        BY <1>3, MintBooked
    <2>2. UNCHANGED burns
        BY <1>3 DEF ExecMint
    <2> HIDE DEF n
    <2> QED BY <2>1, <2>2
<1>4. CASE \/ \E i \in DOMAIN burns : PaysFor(i)
           \/ UNCHANGED <<locked, deposits, released, resent, pegged>>
    <2>1. UNCHANGED <<totalSupply, burns, deposits, usedNonces>>
        BY <1>4 DEF PaysFor, pegged
    <2>2. Minted' = Minted
        BY <2>1 DEF Minted
    <2> QED BY <2>1, <2>2
<1> QED BY <1>1, <1>2, <1>3, <1>4, OtherSteps

\* Every pegged token in existence or burned was minted for exactly one deposit,
\* under every failure: lost replies, replayed streams and relayer restarts.
THEOREM TokensAreBacked == Spec => []PegBacked
<1>1. Init => PegBacked
    <2> SUFFICES ASSUME Init PROVE PegBacked
        OBVIOUS
    <2>1. totalSupply = 0 /\ burns = <<>> /\ deposits = <<>> /\ Minted = {}
        BY DEF Init, Minted
    <2>2. DOMAIN burns = {}
        BY <2>1
    <2> QED BY <2>1, <2>2, TotalEmpty DEF PegBacked
<1> QED BY <1>1, HoldingsInvariance, PegStep, PTL DEF Spec

LEMMA SolventStep == ShapeInv /\ HoldingsInv /\ Solvent /\ [Next]_vars => Solvent'
<1> SUFFICES ASSUME ShapeInv, HoldingsInv, Solvent, [Next]_vars PROVE Solvent'
    OBVIOUS
<1> DEFINE L == locked[HomeToken]
           F == Minted \ Home
           U == Home \ Minted
<1>0. HomeToken \in Tokens /\ locked \in [Tokens -> Nat]
    BY TokensAssumption DEF ShapeInv
<1>1. /\ totalSupply \in Nat /\ L \in Nat /\ Overpaid \in Nat
      /\ Total(burns, Unpaid) \in Nat /\ Total(deposits, F) \in Nat
      /\ Total(deposits, U) \in Nat
    BY <1>0, HeldType, PaidType, TotalsAreNat DEF HoldingsInv
<1>2. L + Overpaid + Total(deposits, F) >=
          totalSupply + Total(burns, Unpaid) + Total(deposits, U)
    BY DEF Solvent
<1> SUFFICES L' + Overpaid' + Total(deposits', F') >=
                 totalSupply' + Total(burns', Unpaid') + Total(deposits', U')
    BY DEF Solvent
<1>3. ASSUME NEW u \in Users, NEW t \in Tokens, NEW a \in DepositAmounts,
             Deposit(u, t, a)
      PROVE  L' + Overpaid' + Total(deposits', F') >=
                 totalSupply' + Total(burns', Unpaid') + Total(deposits', U')
    <2>1. UNCHANGED <<totalSupply, burns, released, resent>>
        BY <1>3 DEF Deposit, pegged
    <2>2. Unpaid' = Unpaid /\ Overpaid' = Overpaid
        BY <2>1 DEF Unpaid, Paid, Overpaid
    <2>3. PICK n \in Nat :
                 /\ n <= a /\ a \in Nat
                 /\ Total(deposits', U')
                      = Total(deposits, U) + (IF t = HomeToken THEN n ELSE 0)
        BY <1>3, DepositBooked
    <2>4. Total(deposits', F') = Total(deposits, F)
        BY <1>3, DepositBooked
    <2>5. L' = L + (IF t = HomeToken THEN a ELSE 0)
        BY <1>0, <1>1, <1>3, <2>3 DEF Deposit
    <2> HIDE DEF L, F, U
    <2> QED BY <1>1, <1>2, <2>1, <2>2, <2>3, <2>4, <2>5
<1>4. ASSUME NEW u \in Users, NEW a \in BurnAmounts, NEW n \in WithdrawNonces,
             Burn(u, a, n)
      PROVE  L' + Overpaid' + Total(deposits', F') >=
                 totalSupply' + Total(burns', Unpaid') + Total(deposits', U')
    <2>1. /\ a \in Nat /\ Total(burns', Unpaid') = Total(burns, Unpaid) + a
          /\ Overpaid' = Overpaid
        BY <1>4, BurnBooked
    <2>2. /\ totalSupply' = totalSupply - a
          /\ UNCHANGED <<locked, deposits, usedNonces>>
        BY <1>4 DEF Burn
    <2>3. L' = L /\ F' = F /\ U' = U
        BY <2>2 DEF Minted, Home
    <2> HIDE DEF L, F, U
    <2>4. Total(deposits', F') = Total(deposits, F) /\ Total(deposits', U') = Total(deposits, U)
        BY <2>2, <2>3
    <2> QED BY <1>1, <1>2, <2>1, <2>2, <2>3, <2>4
<1>5. CASE ExecMint
    <2> DEFINE n == deposits[current].amount
    <2>1. /\ n \in Nat /\ totalSupply' = totalSupply + n
          /\ \/ /\ Total(deposits', F') = Total(deposits, F)
                /\ Total(deposits, U) = Total(deposits', U') + n
             \/ /\ Total(deposits', F') = Total(deposits, F) + n
                /\ Total(deposits', U') = Total(deposits, U)
          /\ Total(deposits', U') \in Nat
        BY <1>5, MintBooked
    <2>2. UNCHANGED <<locked, released, resent, burns>>
        BY <1>5 DEF ExecMint, lock
    <2>3. L' = L /\ Unpaid' = Unpaid /\ Overpaid' = Overpaid
        BY <2>2 DEF Unpaid, Paid, Overpaid
    <2>4. Total(burns', Unpaid') = Total(burns, Unpaid)
        BY <2>2, <2>3
    <2> HIDE DEF n, L, F, U
    <2> QED BY <1>1, <1>2, <2>1, <2>3, <2>4
<1>6. ASSUME NEW i \in DOMAIN burns, PaysFor(i)
      PROVE  L' + Overpaid' + Total(deposits', F') >=
                 totalSupply' + Total(burns', Unpaid') + Total(deposits', U')
    <2> DEFINE n == burns[i].amount
    <2>1. UNCHANGED <<burns, deposits, usedNonces, totalSupply>>
        BY <1>6 DEF PaysFor, pegged
    <2>2. /\ n \in Nat /\ Total(burns', Unpaid') \in Nat /\ Overpaid' \in Nat
          /\ Overpaid' + Total(burns, Unpaid) = Overpaid + Total(burns', Unpaid') + n
        BY <1>6, <2>1, PaymentBooked DEF PaysFor
    <2>3. L' = L - n
        BY <1>0, <1>6 DEF PaysFor, Withdraw
    <2>4. F' = F /\ U' = U
        BY <2>1 DEF Minted, Home
    <2> HIDE DEF n, L, F, U
    <2>5. Total(deposits', F') = Total(deposits, F) /\ Total(deposits', U') = Total(deposits, U)
        BY <2>1, <2>4
    <2> QED BY <1>1, <1>2, <2>1, <2>2, <2>3, <2>5
<1>7. CASE UNCHANGED <<locked, deposits, released, resent, pegged>>
    BY <1>2, <1>7 DEF Minted, Home, Unpaid, Paid, Overpaid, pegged
<1> QED BY <1>3, <1>4, <1>5, <1>6, <1>7, OtherSteps

\* The home token in the lock covers every pegged token, every unpaid burn and
\* every deposit of it still to be minted, but for burns paid more than once and
\* for tokens that were minted for deposits of other tokens.
THEOREM EscrowCovers == Spec => []Solvent
<1>1. Init => Solvent
    <2> SUFFICES ASSUME Init PROVE Solvent
        OBVIOUS
    <2>1. /\ totalSupply = 0 /\ burns = <<>> /\ deposits = <<>>
          /\ locked[HomeToken] = 0
        BY TokensAssumption DEF Init
    <2>2. ShapeInv
        BY InvInit DEF Inv
    <2>3. Unpaid = {} /\ Minted \ Home = {} /\ Home \ Minted = {}
        BY <2>1 DEF Unpaid, Minted, Home
    <2>4. Overpaid \in Nat
        BY <2>2, PaidType
    <2>5. Total(deposits, Minted \ Home) = 0 /\ Total(burns, Unpaid) = 0
          /\ Total(deposits, Home \ Minted) = 0
        BY <2>1, <2>3, TotalEmpty
    <2> QED BY <2>1, <2>4, <2>5 DEF Solvent
<1> QED BY <1>1, HoldingsInvariance, SolventStep, PTL DEF Spec

-----------------------------------------------------------------------------
(* The bridge implements PeggedBridge. *)

\* A function over the positions of a longer sequence.
LEMMA AppendIs ==
    ASSUME NEW n \in Nat, NEW f, f = [i \in 1 .. n |-> f[i]], NEW q
    PROVE  Append(f, q) = [i \in 1 .. n + 1 |-> IF i = n + 1 THEN q ELSE f[i]]
<1>1. f \in Seq({f[i] : i \in 1 .. n}) /\ Len(f) = n
    OBVIOUS
<1> QED BY <1>1

\* Initial states map to initial states.
LEMMA PromisesInit == Init => Promises!Init
BY DEF Init, Promises!Init, PromisedDeposits, PromisedBurns, Minted, Paid

\* Every step maps to a step of PeggedBridge or leaves its variables alone.
LEMMA PromisesStep == ShapeInv /\ [Next]_vars => [Promises!Next]_Promises!bridge
<1> SUFFICES ASSUME ShapeInv, [Next]_vars PROVE [Promises!Next]_Promises!bridge
    OBVIOUS
<1> USE DEF pegged
<1>1. ASSUME NEW u \in Users, NEW t \in Tokens, NEW a \in DepositAmounts,
             Deposit(u, t, a)
      PROVE  Promises!Next
    <2> DEFINE p == [token |-> t, user |-> u, amount |-> Net(a)]
               e == [token |-> t, user |-> u, amount |-> Net(a), nonce |-> Len(deposits)]
               n == Len(deposits)
    <2>1. a \in Nat /\ Net(a) \in Nat /\ Net(a) <= a
        BY NetBounds, AmountsAssumption DEF ShapeInv
    <2>2. Net(a) \in PromisedAmounts
        BY DEF ShapeInv, Net, PromisedAmounts
    <2>3. PromisedDeposits' = Append(PromisedDeposits, p)
        <3>1. deposits' = Append(deposits, e) /\ deposits \in Seq(DepositedEvent)
            BY <1>1 DEF ShapeInv, Deposit
        <3>2. /\ DOMAIN deposits = 1 .. n /\ n \in Nat /\ DOMAIN deposits' = 1 .. n + 1
              /\ \A i \in 1 .. n : deposits'[i] = deposits[i]
              /\ deposits'[n + 1] = e
            BY <3>1
        <3>3. Append(PromisedDeposits, p)
                = [i \in 1 .. n + 1 |-> IF i = n + 1 THEN p ELSE PromisedDeposits[i]]
            BY <3>2, AppendIs DEF PromisedDeposits
        <3>4. \A i \in 1 .. n + 1 : i = n + 1 \/ i \in 1 .. n
            BY <3>2
        <3> QED BY <3>2, <3>3, <3>4 DEF PromisedDeposits
    <2>4. /\ locked' = [locked EXCEPT ![t] = locked'[t]]
          /\ locked'[t] >= locked[t] + Net(a)
        BY <1>1, <2>1 DEF Deposit, ShapeInv
    <2>5. Minted' = Minted
        BY <1>1 DEF Minted, Deposit, ShapeInv
    <2>6. UNCHANGED <<balanceOf, PromisedBurns, Paid>>
        BY <1>1 DEF Deposit, Paid, PromisedBurns
    <2>7. p \in Promises!DepositPromise
        BY <2>2 DEF Promises!DepositPromise
    <2>8. p.token = t /\ p.amount = Net(a)
        OBVIOUS
    <2> HIDE DEF p
    <2> QED BY <2>3, <2>4, <2>5, <2>6, <2>7, <2>8 DEF Promises!Next, Promises!Deposit
<1>2. ASSUME NEW u \in Users, NEW a \in BurnAmounts, NEW m \in WithdrawNonces,
             Burn(u, a, m)
      PROVE  Promises!Next
    <2> DEFINE p == [user |-> u, amount |-> a]
               e == [user |-> u, amount |-> a, nonce |-> m]
               n == Len(burns)
    <2>0. /\ burns' = Append(burns, e) /\ burns \in Seq(BurnedEvent)
          /\ released' = Append(released, 0) /\ resent' = Append(resent, 0)
        BY <1>2 DEF ShapeInv, Burn
    <2>1. /\ DOMAIN burns = 1 .. n /\ n \in Nat /\ DOMAIN burns' = 1 .. n + 1
          /\ \A i \in 1 .. n : burns'[i] = burns[i]
          /\ burns'[n + 1] = e
          /\ \A i \in 1 .. n + 1 : i = n + 1 \/ i \in 1 .. n
        BY <2>0
    <2>2. PromisedBurns' = Append(PromisedBurns, p)
        <3>1. Append(PromisedBurns, p)
                = [i \in 1 .. n + 1 |-> IF i = n + 1 THEN p ELSE PromisedBurns[i]]
            BY <2>1, AppendIs DEF PromisedBurns
        <3> QED BY <2>1, <3>1 DEF PromisedBurns
    <2>3. Paid' = Append(Paid, 0)
        <3>1. Append(Paid, 0) = [i \in 1 .. n + 1 |-> IF i = n + 1 THEN 0 ELSE Paid[i]]
            BY <2>1, AppendIs DEF Paid
        <3>2. /\ \A i \in 1 .. n : released'[i] = released[i] /\ resent'[i] = resent[i]
              /\ released'[n + 1] = 0 /\ resent'[n + 1] = 0
            BY <2>0 DEF ShapeInv
        <3> QED BY <2>1, <3>1, <3>2 DEF Paid
    <2>4. p.amount <= balanceOf[p.user]
          /\ balanceOf' = [balanceOf EXCEPT ![p.user] = @ - p.amount]
        BY <1>2, AmountsAssumption DEF Burn, ShapeInv
    <2>5. UNCHANGED <<locked, PromisedDeposits, Minted>>
        BY <1>2 DEF Burn, Minted, PromisedDeposits
    <2>6. p \in Promises!BurnPromise
        BY DEF Promises!BurnPromise, PromisedAmounts
    <2> QED BY <2>2, <2>3, <2>4, <2>5, <2>6 DEF Promises!Next, Promises!Burn
<1>3. CASE ExecMint
    <2>1. current \in DOMAIN deposits /\ deposits[current].nonce = current - 1
        BY <1>3 DEF ExecMint, ShapeInv
    <2>2. current \notin Minted /\ Minted' = Minted \cup {current}
        BY <1>3, <2>1 DEF Minted, ExecMint, NonceUnused, ShapeInv, lock
    <2>3. balanceOf' = [balanceOf EXCEPT ![PromisedDeposits[current].user]
                                           = @ + PromisedDeposits[current].amount]
        BY <1>3, <2>1 DEF ExecMint, PromisedDeposits
    <2>4. UNCHANGED <<locked, PromisedDeposits, PromisedBurns, Paid>>
        BY <1>3 DEF ExecMint, PromisedDeposits, PromisedBurns, Paid, lock
    <2>5. current \in DOMAIN PromisedDeposits
        BY <2>1 DEF PromisedDeposits
    <2> QED BY <2>2, <2>3, <2>4, <2>5 DEF Promises!Next, Promises!Mint
<1>4. ASSUME NEW i \in DOMAIN burns, PaysFor(i) PROVE Promises!Next
    <2>1. i \in DOMAIN PromisedBurns /\ PromisedBurns[i].amount = burns[i].amount
        BY DEF PromisedBurns
    <2>2. /\ burns[i].amount <= locked[HomeToken]
          /\ locked' = [locked EXCEPT ![HomeToken] = @ - burns[i].amount]
          /\ Paid' = [Paid EXCEPT ![i] = @ + 1]
        BY <1>4 DEF PaysFor, Withdrawable, Withdraw
    <2>3. UNCHANGED <<PromisedDeposits, Minted, balanceOf, PromisedBurns>>
        BY <1>4 DEF PaysFor, PromisedDeposits, PromisedBurns, Minted
    <2> QED BY <2>1, <2>2, <2>3 DEF Promises!Next, Promises!Pay
<1>5. ASSUME UNCHANGED <<locked, deposits, released, resent, pegged>>
      PROVE  UNCHANGED Promises!bridge
    BY <1>5 DEF Promises!bridge, PromisedDeposits, PromisedBurns, Minted, Paid
<1> QED BY <1>1, <1>2, <1>3, <1>4, <1>5, OtherSteps

\* The bridge implements PeggedBridge, whatever fails and whoever sends a signed
\* call again.
THEOREM Implements == Spec => KeepsPromises
<1>1. Inv => ShapeInv
    BY DEF Inv
<1> QED BY <1>1, PromisesInit, PromisesStep, Invariance, PTL
        DEF Spec, KeepsPromises, Promises!Spec
=============================================================================
