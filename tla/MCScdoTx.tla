------------------------------ MODULE MCScdoTx ------------------------------
(***************************************************************************)
(* Two callers with the minter's key, one with the user's.                 *)
(***************************************************************************)
EXTENDS ScdoTx

CONSTANTS minter, user

MCProgram(c) ==
    CASE c = "operator" -> <<
            [fn |-> "deploy", sender |-> minter, to |-> minter],
            [fn |-> "mint", sender |-> minter, to |-> user, amount |-> 3, nonce |-> 1]>>
      [] c = "spender" -> <<
            [fn |-> "transferFrom", sender |-> minter, from |-> user, to |-> minter,
             amount |-> 2],
            [fn |-> "setMinter", sender |-> minter, to |-> user]>>
      [] c = "user" -> <<
            [fn |-> "approve", sender |-> user, to |-> minter, amount |-> 2],
            [fn |-> "transfer", sender |-> user, to |-> user, amount |-> 1],
            [fn |-> "burn", sender |-> user, amount |-> 2, nonce |-> 1]>>
=============================================================================
