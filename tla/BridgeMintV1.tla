---------------------------- MODULE BridgeMintV1 ----------------------------
(***************************************************************************)
(* solidity/contracts/bridge/BridgeMintV1.sol as a function from a state   *)
(* and a call to a state.  It is deployed with REVERT patched to STOP      *)
(* (go/scdo/bytecode.go), so a require that fails ends the call and keeps  *)
(* what the call did before: halt = "stop".  halt = "revert" is the        *)
(* contract as it was written.  Solidity 0.5 arithmetic wraps.             *)
(***************************************************************************)
EXTENDS Integers, Sequences

CONSTANTS
    Accounts,   \* addresses
    Word        \* 2^256

ASSUME WordAssumption == Word \in Nat \ {0}

Uint256 == 0 .. Word - 1

\* Calls of the contract's functions, by their signatures.
Calls ==
    [fn : {"transfer", "approve"}, sender : Accounts, to : Accounts, amount : Uint256]
    \cup [fn : {"transferFrom"}, sender : Accounts, from : Accounts, to : Accounts,
          amount : Uint256]
    \cup [fn : {"mint"}, sender : Accounts, to : Accounts, amount : Uint256,
          nonce : Uint256]
    \cup [fn : {"burn"}, sender : Accounts, amount : Uint256, nonce : Uint256]
    \cup [fn : {"setMinter"}, sender : Accounts, to : Accounts]

Plus(a, b)  == (a + b) % Word
Minus(a, b) == (a - b) % Word

\* The constructor: its argument becomes the minter.
constructor(_minter) ==
    [totalSupply |-> 0,
     minter      |-> _minter,
     balanceOf   |-> [a \in Accounts |-> 0],
     allowance   |-> [a \in Accounts |-> [b \in Accounts |-> 0]],
     usedNonces  |-> {},
     events      |-> <<>>]

\* Mutant: both balances are read before either is written.
MoveCached(s, from, to, amount) ==
    [s EXCEPT !.balanceOf =
        [a \in Accounts |-> IF a = to THEN Plus(@[to], amount)
                            ELSE IF a = from THEN Minus(@[from], amount) ELSE @[a]]]

\* The two assignments of _transfer, in their order.
Move(s, from, to, amount) ==
    LET paid == [s.balanceOf EXCEPT ![from] = Minus(@, amount)]
    IN  [s EXCEPT !.balanceOf = [paid EXCEPT ![to] = Plus(@, amount)]]

transfer(s, c) ==
    IF s.balanceOf[c.sender] < c.amount THEN s
    ELSE Move(s, c.sender, c.to, c.amount)

approve(s, c) == [s EXCEPT !.allowance[c.sender][c.to] = c.amount]

\* Mutant: the tokens move before the allowance is looked at.
TransferFromChecksLast(s, c, halt) ==
    LET moved == Move(s, c.from, c.to, c.amount)
    IN  IF s.balanceOf[c.from] < c.amount THEN s
        ELSE IF s.allowance[c.from][c.sender] < c.amount
        THEN IF halt = "stop" THEN moved ELSE s
        ELSE [moved EXCEPT !.allowance[c.from][c.sender] = @ - c.amount]

\* The allowance is reduced before _transfer looks at the balance.
transferFrom(s, c, halt) ==
    LET reduced == [s EXCEPT !.allowance[c.from][c.sender] = @ - c.amount]
    IN  IF s.allowance[c.from][c.sender] < c.amount THEN s
        ELSE IF s.balanceOf[c.from] < c.amount
        THEN IF halt = "stop" THEN reduced ELSE s
        ELSE Move(reduced, c.from, c.to, c.amount)

mint(s, c) ==
    IF c.sender # s.minter \/ c.nonce \in s.usedNonces THEN s
    ELSE [s EXCEPT !.usedNonces = @ \cup {c.nonce},
                   !.balanceOf[c.to] = Plus(@, c.amount),
                   !.totalSupply = Plus(@, c.amount),
                   !.events = Append(@, [type |-> "Minted", nonce |-> c.nonce,
                                         amount |-> c.amount])]

burn(s, c) ==
    IF s.balanceOf[c.sender] < c.amount THEN s
    ELSE [s EXCEPT !.balanceOf[c.sender] = Minus(@, c.amount),
                   !.totalSupply = Minus(@, c.amount),
                   !.events = Append(@, [type |-> "Burned", nonce |-> c.nonce,
                                         amount |-> c.amount])]

setMinter(s, c) == IF c.sender # s.minter THEN s ELSE [s EXCEPT !.minter = c.to]

\* The function that the selector in the call data names.
Exec(s, c, halt) ==
    CASE c.fn = "transfer"     -> transfer(s, c)
      [] c.fn = "approve"      -> approve(s, c)
      [] c.fn = "transferFrom" -> transferFrom(s, c, halt)
      [] c.fn = "mint"         -> mint(s, c)
      [] c.fn = "burn"         -> burn(s, c)
      [] c.fn = "setMinter"    -> setMinter(s, c)
=============================================================================
