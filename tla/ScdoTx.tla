------------------------------- MODULE ScdoTx -------------------------------
(***************************************************************************)
(* go/scdo: clients of a SCDO node that deploy and call the patched        *)
(* BridgeMintV1 contract with SendTx.                                      *)
(*                                                                         *)
(* SendTx is three JSON-RPC calls: the height, the account's nonce at that *)
(* height, and scdo_addTx.  Other callers and the miner run between them.  *)
(* Each call may be lost on the way to the node or on the way back, and    *)
(* the node may answer null.  A caller has a program of transactions.  It  *)
(* sends one again when it gets an error and goes on to the next when it   *)
(* gets none: the hash SendTx returns is empty, so it cannot wait for a    *)
(* receipt.  Several callers may hold the key of one account.              *)
(*                                                                         *)
(* The node is external: it refuses a nonce that is used up and a second   *)
(* transaction with the nonce of a pooled one (the gas price is the same), *)
(* and mines the transaction whose nonce is the account's.                 *)
(***************************************************************************)
EXTENDS BridgeMintV1, FiniteSets, SequencesExt

CONSTANTS
    Callers,    \* who calls SendTx
    Program(_), \* the caller's transactions, in order
    MaxFaults   \* bound: calls that go wrong

\* What SendTx sends: a call, or the deployment of the contract.
Transactions == Calls \cup [fn : {"deploy"}, sender : Accounts, to : Accounts]

ASSUME ProgramAssumption ==
    /\ IsFiniteSet(Accounts)
    /\ \A c \in Callers : Program(c) \in Seq(Transactions)
    /\ MaxFaults \in Nat

\* A job is a caller and a position in its program.
Jobs == UNION {{c} \X DOMAIN Program(c) : c \in Callers}

Call(job) == Program(job[1])[job[2]]
Sender(job) == Call(job).sender

VARIABLES
    chain,      \* the jobs mined, one per block
    pool,       \* pooled transactions: job and AccountNonce
    contract,   \* the state of the first contract deployed, or <<>>
    at,         \* the position of each caller in its program
    pc,         \* where its SendTx stands
    height,     \* its local variables, 0 when they are out of scope
    nonce,
    misled,     \* jobs the node took though SendTx returned an error
    faults      \* calls that went wrong so far

node   == <<chain, pool, contract>>
caller == <<at, pc, height, nonce>>
vars   == <<node, caller, misled, faults>>

Job(c) == <<c, at[c]>>

Done(c) == at[c] > Len(Program(c))

\* scdo_getAccountNonce: transactions of the account in the first h blocks.
NonceAt(a, h) == Cardinality({k \in 1 .. h : Sender(chain[k]) = a})

AccountNonce(a) == NonceAt(a, Len(chain))

\* A null result leaves the variable at its zero value and is no error.
callContext(reply, value, zero) == IF reply = "value" THEN value ELSE zero

BlockHeight(reply) == callContext(reply, Len(chain), 0)

Nonce(c, reply) == callContext(reply, NonceAt(Sender(Job(c)), height[c]), 0)

Replies == {"value", "null", "error"}

\* The answer of the node, or a fault.
Reply(reply) ==
    \/ reply = "value" /\ UNCHANGED faults
    \/ reply # "value" /\ faults < MaxFaults /\ faults' = faults + 1

Init ==
    /\ chain = <<>> /\ pool = {} /\ contract = <<>>
    /\ at = [c \in Callers |-> 1]
    /\ pc = [c \in Callers |-> "idle"]
    /\ height = [c \in Callers |-> 0] /\ nonce = [c \in Callers |-> 0]
    /\ misled = {} /\ faults = 0

-----------------------------------------------------------------------------
(* SendTx *)

\* SendTx begins, for the first time or after an error; tx.Nonce is 0.
FetchHeight(c) ==
    /\ pc[c] = "idle" /\ ~Done(c)
    /\ \E reply \in Replies :
          /\ Reply(reply)
          /\ pc' = [pc EXCEPT ![c] = IF reply = "error" THEN "idle" ELSE "nonce"]
          /\ height' = [height EXCEPT ![c] =
                            IF reply = "error" THEN 0
                            ELSE BlockHeight(reply)]
    /\ UNCHANGED <<node, at, nonce, misled>>

\* Mutant: the nonce after the account's.
FetchNonceNext(c) ==
    /\ pc[c] = "nonce"
    /\ pc' = [pc EXCEPT ![c] = "addTx"]
    /\ nonce' = [nonce EXCEPT ![c] = NonceAt(Sender(Job(c)), height[c]) + 1]
    /\ height' = [height EXCEPT ![c] = 0]
    /\ UNCHANGED <<node, at, misled, faults>>

FetchNonce(c) ==
    /\ pc[c] = "nonce"
    /\ \E reply \in Replies :
          /\ Reply(reply)
          /\ pc' = [pc EXCEPT ![c] = IF reply = "error" THEN "idle" ELSE "addTx"]
          /\ nonce' = [nonce EXCEPT ![c] =
                          IF reply = "error" THEN 0
                          ELSE Nonce(c, reply)]
    /\ height' = [height EXCEPT ![c] = 0]
    /\ UNCHANGED <<node, at, misled>>

\* What the node does with the transaction (external).
Fits(c) ==
    /\ nonce[c] >= AccountNonce(Sender(Job(c)))
    /\ \A t \in pool : Sender(t.job) = Sender(Job(c)) => t.nonce # nonce[c]

\* Mutant: the test of ok is inverted.
OkInverted(reply, fits) == reply # "error" /\ ~callContext(reply, fits, FALSE)

\* SendTx returns no error only for a reply that is true.
Ok(reply, fits) == reply # "error" /\ callContext(reply, fits, FALSE)

\* scdo_addTx; an error may come before or after the node took the transaction.
AddTx(c) ==
    /\ pc[c] = "addTx"
    /\ \E reply \in Replies, arrives \in BOOLEAN :
          /\ Reply(reply)
          /\ reply # "error" => arrives
          /\ LET took == arrives /\ Fits(c)
             IN  /\ pool' = IF took
                            THEN pool \cup {[job |-> Job(c), nonce |-> nonce[c]]}
                            ELSE pool
                 /\ at' = [at EXCEPT ![c] = IF Ok(reply, Fits(c)) THEN @ + 1 ELSE @]
                 /\ misled' = IF took /\ reply # "value" THEN misled \cup {Job(c)}
                              ELSE misled
    /\ pc' = [pc EXCEPT ![c] = "idle"]
    /\ nonce' = [nonce EXCEPT ![c] = 0]
    /\ UNCHANGED <<chain, contract, height>>

-----------------------------------------------------------------------------
(* The node *)

\* Only the contract of the first deployment is followed; calls go to its
\* address and do nothing before it exists.
Executed(call) ==
    CASE call.fn = "deploy" /\ contract = <<>> -> constructor(call.to)
      [] call.fn # "deploy" /\ contract # <<>> -> Exec(contract, call, "stop")
      [] OTHER -> contract

\* A block with one transaction; others with its nonce are dropped.
Mine(t) ==
    /\ t.nonce = AccountNonce(Sender(t.job))
    /\ chain' = Append(chain, t.job)
    /\ pool' = {u \in pool : Sender(u.job) = Sender(t.job) => u.nonce > t.nonce}
    /\ contract' = Executed(Call(t.job))
    /\ UNCHANGED <<caller, misled, faults>>

Finished ==
    /\ \A c \in Callers : Done(c)
    /\ pool = {}
    /\ UNCHANGED vars

Next ==
    \/ \E c \in Callers : FetchHeight(c) \/ FetchNonce(c) \/ AddTx(c)
    \/ \E t \in pool : Mine(t)
    \/ Finished

Spec == Init /\ [][Next]_vars

\* Calls return, callers send again, and the miner mines what it can.
FairSpec ==
    /\ Spec
    /\ \A c \in Callers : WF_vars(FetchHeight(c) \/ FetchNonce(c) \/ AddTx(c))
    /\ WF_vars(\E t \in pool : Mine(t))

-----------------------------------------------------------------------------
(* Properties *)

\* Every pooled transaction can be mined next: the nonce SendTx reads at a
\* height that may be stale, or 0 for a null reply, is never ahead of the
\* account's, so no transaction waits behind a gap; and there is one per account.
PoolExecutable ==
    \A t \in pool :
        /\ t.nonce = AccountNonce(Sender(t.job))
        /\ \A u \in pool : Sender(u.job) = Sender(t.job) => u = t

Times(job) == Cardinality({k \in DOMAIN chain : chain[k] = job})

Pooled(job) == \E t \in pool : t.job = job

\* SendTx called until it succeeds executes a transaction exactly once, unless
\* an error or null in reply to addTx hid that the node had taken it: then
\* calling it again executes the transaction twice.  A transaction the caller has
\* left behind stays in the pool until it is mined, whatever is sent after it.
OnceUnlessMisled ==
    \A job \in Jobs :
        /\ job \notin misled => Times(job) <= 1
        /\ job[2] < at[job[1]] => Times(job) >= 1 \/ Pooled(job)

\* Every program ends with all it sent mined, though callers who share an account
\* are refused while another's transaction, or their own last one, is pooled.
EveryProgramEnds == <>(pool = {} /\ \A c \in Callers : Done(c))

Deployed == contract # <<>>

Signed(e) == IF e.type = "Minted" THEN e.amount ELSE -e.amount

\* What the events say was minted, less what they say was burned.
Issued(events) == FoldLeft(LAMBDA x, e : x + Signed(e), 0, events)

\* The total supply is the sum of the balances, and what the events say, modulo
\* the word size; a source nonce is minted once, whoever is the minter and
\* however often the transaction is sent again.
SupplyIsSum ==
    Deployed =>
        /\ contract.totalSupply = FoldFunction(+, 0, contract.balanceOf) % Word
        /\ contract.totalSupply = Issued(contract.events) % Word
        /\ \A k, l \in DOMAIN contract.events :
              /\ contract.events[k].type = "Minted" /\ contract.events[l].type = "Minted"
              /\ contract.events[k].nonce = contract.events[l].nonce
              => k = l

\* A failed call of the patched contract, which keeps what it did before it
\* failed, differs from a reverted one in a lower allowance only.
HaltKeepsTokens ==
    [][Deployed /\ chain' # chain /\ Call(Last(chain')).fn # "deploy" =>
        LET reverted == Exec(contract, Call(Last(chain')), "revert")
        IN  /\ contract' = [reverted EXCEPT !.allowance = contract'.allowance]
            /\ \A a, b \in Accounts :
                  contract'.allowance[a][b] <= reverted.allowance[a][b]]_vars
=============================================================================
