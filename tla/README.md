# TLA+ models of eip-toolkit

This directory holds TLA+ specifications of eip-toolkit: the log filter daemon
(`go/logfilter`), the lock-and-mint bridge (`go/bridge` with
`solidity/contracts/bridge`), the SCDO client and the patched contract it deploys
(`go/scdo`, `BridgeMintV1.sol`), the allowlist NFT, and the pure algorithms. TLC
checks small instances, TLAPS proves the main safety results for every instance.

| file | content |
|---|---|
| `LogTask.tla`, `MCLogTask.tla`, `LogTask_*.cfg` | one log-filter task: chain, sync round, pending pool, checkpoint, failures |
| `LogTaskProofs.tla` | its theorems |
| `TaskRunner.tla`, `MCTaskRunner.tla`, `TaskRunner_*.cfg` | several tasks: semaphores, RPC retries, restarts, shutdown |
| `TaskRunnerProofs.tla` | its theorems |
| `PendingPool.tla` | what a pending pool promises (abstract) |
| `RedisPendingPool.tla`, `MCRedisPendingPool.tla`, `RedisPendingPool_shared.cfg` | the Redis pool, command by command, for several daemons |
| `RedisPendingPoolProofs.tla` | its theorems |
| `PeggedBridge.tla` | what a lock-and-mint bridge promises (abstract) |
| `Bridge.tla`, `MCBridge.tla`, `Bridge*.cfg` | BridgeLock, BridgeMint and the relayer |
| `BridgeProofs.tla` | its theorems |
| `BridgeMintV1.tla` | the contract for SCDO as a function on states |
| `ScdoTx.tla`, `MCScdoTx.tla`, `ScdoTx.cfg` | `SendTx` against a node, with that contract deployed |
| `ScdoTxProofs.tla` | theorems about both |
| `MerkleNFTAllowlist.tla`, `MCMerkleNFTAllowlist.tla` | the NFT contract and the tools that make its allowlist |
| `Merkle.tla`, `MCMerkle.tla` | Merkle trees and proofs, and the lists of leaves that `MCAlgorithms` runs |
| `MerkleProofs.tla` | theorems about the trees and the NFT contract |
| `BaseFee.tla`, `Bytecode.tla`, `MCAlgorithms.tla` | the base fee and the bytecode patch, and inputs for all three algorithms |
| `MCToolkit.tla`, `Toolkit*.cfg` | the run of the algorithms and the NFT contract |
| `AlgorithmProofs.tla` | their theorems |
| `FoldTheorems.tla` | induction, folds and recursive functions, for the proofs |
| `PROJECT.json` | components, runs, mutants, map to the source, findings, hazards, theorems |

To check: `tlc -config LogTask_safety.cfg MCLogTask`, `tlapm LogTaskProofs.tla`.

## Inventory of the system

**logfilter** follows one or more contracts on an EVM chain and hands their
logs to a batch handler.

| part | state | operations | what is hard |
|---|---|---|---|
| `LogTask.RunOnce` / `TaskLoop` | `Checkpoint`, `BatchSize` and the locals of a round | one sync round: head, then per batch fetch, dedup, `Add`, `PopConfirmed`, `HandleBatch`, `Save` | each step is a remote call that may fail; the chain moves and the process may die between any two |
| pending pools | logs by height key, in memory or in Redis | `Add`, `PopConfirmed`, `Count` | entries leave the pool before they are delivered; lost Redis replies |
| checkpoint stores | one block number in memory, a file or Redis | `Save`, `Load` | torn file writes; restart before the first save |
| batch handlers | an SQL table or a Kafka topic | `HandleBatch` | partial delivery (Kafka), repeated delivery |
| `RealRPC` | none | `BlockNumber`, `EthGetLogs` with retries | wraps errors that others compare by text |
| `RPCSemaphore` | slots in use | `Acquire`, `Release` | two semaphores taken in order by every task |
| `TaskRunner` | tasks, backoff | `RunAll` | restarts the *same* task value; cancellation |
| `main` | start block, pool and handler chosen from the environment | boot, signals, exit | which block a restart resumes from |
| metrics, shutdown | gauges and counters; the goroutine of `NewShutdownContext` | `StartMetricsServer`, `NewShutdownContext` | a signal at any moment |

**bridge** locks ERC20 tokens on Ethereum and mints one pegged token on SCDO.

| part | state | operations | what is hard |
|---|---|---|---|
| `BridgeLock.sol` | token balance, `feeBps`, `depositNonce`, admin | `deposit`, `withdraw`, `setFeeBps`, `setAdmin` | withdrawals are signed but not recorded, and anyone may send a signed one again; any token is accepted |
| `BridgeMint.sol` | balances, `usedNonces`, minter | `mint`, `burn`, `setMinter`, ERC20 transfers | the withdraw nonce is the user's choice |
| `Relayer` | `seenMinted`, `seenWithdrawn`, two event streams | `Run`, `handleDeposit`, `handleBurn` | failed calls, calls whose result is not known, replayed streams, restarts |
| `BridgeMintV1.sol` | as BridgeMint, Solidity 0.5 | the same plus `approve`, `transferFrom` | unchecked arithmetic; REVERT is patched to STOP |

**scdo, NFT and algorithms.**

| part | state | operations | what is hard |
|---|---|---|---|
| `Client.SendTx` | none; locals between three remote calls | read height, read nonce, `addTx` | other senders and the miner run in between; lost and null replies |
| `PatchBytecodeForV1` | none | REVERT to STOP, on bytes, and in a script with `sed` | PUSH data, byte boundaries; failed calls keep their effects |
| `MerkleNFTAllowlist.sol` | supply, owners, counts per wallet, root, switches | `wlMint`, `publicMint`, the owner's setters, `withdraw` | `_safeMint` calls the receiver in the middle of a mint |
| `go/merkle`, `scripts/merkle-gen.js` | none | root, proofs, verification | odd levels; three encoders that must agree |
| `go/eip1559` | none | `CalcNextBaseFee` | truncation at small fees |

These systems share no state. In logfilter, `main` or `TaskRunner` drives
`TaskLoop`, which drives `RunOnce`, which calls RPC, pool, handler and store in
turn; only the pool in Redis and the checkpoint survive the process. In the
bridge, contracts and relayer interact through event streams and transactions.

What makes them correct:

- a log is handed over only when it is deep enough, at least once, and no log is
  skipped; the checkpoint does not run ahead of what can still be recovered and
  does not go back; a task that is restarted makes progress;
- every pegged token is backed by one deposit, every burn is paid once and the
  escrow covers all open claims, as far as the lock contract allows; no deposit or
  burn is passed over;
- no RPC slot is lost, every waiting task gets one, live tasks run until they are
  cancelled and a signal ends everything;
- a transaction sent until it succeeds is executed once, leaves no gap of nonces,
  and the token's books balance although failed calls are not reverted;
- NFT ids are contiguous, every token is paid for and within its limit, and a
  published root admits the list it was made from.

`PROJECT.json` lists the hazards with their source lines and the properties that
cover them.

## LogTask

### Correspondence with the code

| variable | code |
|---|---|
| `chain`, `reorgs` | the node behind `RPCQuerier` (external): the matching events of each block |
| `pc` | the call of `RunOnce` that comes next; `down` = no process, `poll` = before `BlockNumber` (also the wait of live mode), `done` = a one-pass task has returned |
| `Checkpoint`, `BatchSize` | the fields of `LogTask` |
| `latestBlock`, `currentStart`, `end`, `batch`, `ready` | locals of `RunOnce` (`batch` is `batchDedup`) |
| `pool` | the pending pool: pairs of height key and log. A key with no logs is not represented: neither pool returns anything for it |
| `store` | the saved checkpoint; 0 when there is none or it cannot be read, which `main` treats alike |
| `delivered` | every log some handler call has taken |
| `origin` | the block the first process started from; history, for the properties |

| action | code |
|---|---|
| `Boot` | `main` picks the start block (`StartBlock`) and builds the task |
| `BeginRound`, `BlockNumberError` | `BlockNumber` and the early return when the checkpoint is ahead |
| `EthGetLogs`, `RangeError`, `RPCError`, `InvertedRange` | the query of one batch, the dedup loop, its three kinds of failure |
| `Add`, `AddError` | filing the batch under its first height |
| `PopConfirmed`, `PopError` | taking every entry whose *key* is deep enough; Redis errors before or after the deletion |
| `HandleBatch`, `HandlerError` | the handler takes all of `ready`, or fails after any part of it |
| `Save`, `SaveError` | `Store.Save(end)` and `t.Checkpoint = end` |
| `Fail` | the error return: `TaskRunner` runs the same task value again, or `main` exits and a supervisor restarts it |
| `Crash`, `CrashInHandler`, `CrashInSave` | a kill, or a shutdown signal seen at that point |
| `Mine`, `Reorg` | the chain grows; the node drops its last blocks |

Abstractions: a log is its block, transaction and index; addresses, topics and
data are not modelled. The retries inside `RealRPC` are one step, because between
attempts only metrics change. One task runs, so both semaphores are always free;
both are the subject of `TaskRunner`. The pool is atomic, as `PendingPool` has it.
A batch size configured as 0 is excluded (`NumbersAssumption`), but a batch that
*becomes* 0 by range errors is not. `Faults` says which failures a configuration
has; the assumptions exclude failures that cannot occur there (the in-memory pool
does not fail; `RealRPC` wraps range errors, so `main` never shrinks a batch).

### Runs

| run | configuration | result |
|---|---|---|
| `logtask_safety` | the daemon with Redis, every failure, kills at every point, torn saves, one reorganisation of up to 2 blocks; batch 2, depth 2 | `TypeOK`; `HandedDeepEnough`; `CheckpointNeverRegresses` |
| `logtask_taskrunner` | in-memory pool, `START_BLOCK`, restart in the same process, range errors; blocks with several logs; batch 3, depth 2, 6 blocks | `NoLogSkipped` |
| `logtask_daemon` | Redis pool, saved checkpoint, kills except between pop and delivery, all call errors; a log in every block; batch 4, depth 3, 10 blocks | `NoLogSkipped`; `RoundDelivers`; `EventuallyDelivered` |
| `logtask_v_key` | two events in one transaction, no failure | `EveryLogHandled` is violated |
| `logtask_v_reorg` | a reorganisation of 1 block, depth 2, batch 1 | `HandedOnChain` is violated |

Bounds. With batch 3 and depth 2 a batch spans more blocks than the depth, and
six blocks give rounds that start in the middle of an earlier batch, so that keys
overlap. The case that makes a restart hard, an undelivered entry of the pool
below the checkpoint, first occurs with batch 4, depth 3 and ten blocks: it needs
one delivery that moves the checkpoint past logs that stay in the pool. `LogTask_daemon.cfg` and
`LogTask_v_restart.cfg` use these bounds (a pool that does not
survive a restart is noticed with them and not with smaller ones). All bounds concern
the environment (`MaxHeight`, `MaxReorgs`, `ReorgDepth`); the task itself is not
bounded. The theorems do not depend on them.

Fairness (`FairSpec`). Blocks keep coming up to the bound; the task is scheduled
whenever it can step (`TaskRunner` or the supervisor always starts it again, and
the calls return); failures stop at some point. A task that meets an error in
every round for ever delivers nothing, so without the last assumption nothing
could be promised.

What the two violations mean:

- *Key.* The dedup key is the block and the transaction hash, without a log index:
  the second event of a transaction is taken for a copy and dropped.
- *Reorganisation.* The re-fetch from the checkpoint replaces stale entries batch
  by batch, but the pop after the first batch takes all due entries.

Three configurations beside the runs document further limits; TLC finds their
property violated:

- `LogTask_v_depth.cfg`, without any failure: a batch is filed under its first
  height, so its last log is handed over up to `BatchSize - 1` blocks early, with
  the default sizes (1000 and 6) often at once. `HandedDeepEnough` is the
  guarantee that remains.
- `LogTask_v_shrink.cfg`: the error path leaves `BatchSize = 0`. Run again, the
  task fetches empty ranges at the same block for ever. `TaskRunner` shows that
  the daemon cannot get there, because `RealRPC` hides range errors.
- `LogTask_v_restart.cfg`, a kill while the handler runs: `PopConfirmed` deletes
  before the handler has accepted. A failure in between is harmless while the
  checkpoint has not passed the logs; it may have, because a save records the end
  of the batch just fetched.

Two more limits follow from the same code and are built into the assumptions of
`NoLogSkipped` (`Reliable`) rather than run: before the first delivery nothing is
saved, so a restart begins at the head of the moment (`Reliable` asks for a saved
checkpoint or `START_BLOCK`); and the saved block is the last one *fetched*, so
with the in-memory pool only `START_BLOCK` makes a restart safe.

### Theorems

All are in `LogTaskProofs.tla` and hold for every chain, batch size, depth and
bound, under the assumptions `LogTask` makes on its constants.

| theorem | statement | extra assumption |
|---|---|---|
| `TypeCorrect` | `Spec => []TypeOK` | none |
| `DepthBound` | `Spec => []HandedDeepEnough` | `BatchNeverEmpty`: no recognised range errors |
| `NothingSkipped` | `Spec => []NoLogSkipped` | `Reliable` |
| `RoundComplete` | `Spec => []RoundDelivers` | `Reliable` |
| `CheckpointMonotone` | `Spec => CheckpointNeverRegresses` | no `START_BLOCK`, `BatchNeverEmpty` |

The argument. `ErrorShape` first reduces the eleven ways to fail to three shapes,
so every induction step has one case per successful action and a few for all
failures. The inductive invariant is layered:

- `LoopInv`: `Checkpoint <= currentStart <= end + 1` and `end <= latestBlock`
  inside a round, and which locals are empty at which step;
- `KeyInv`, `SpanInv`: a log's key is at or below its block, at most
  `InitBatchSize - 1` below it. With the pop condition this is `DepthBound`;
- `RestartInv`: how `Checkpoint`, `store` and `origin` are related after every
  kind of restart;
- `CoverInv`: the frontier below which no log is missing, step by step: the
  checkpoint, then `currentStart` while fetching, `end` after `Add`, the head
  after the round. `NoLogSkipped` alone is not inductive: it says nothing about
  blocks between `Checkpoint` and `end`, which the next `Save` puts behind the
  checkpoint;
- `DueInv`: after a pop no entry that stays in the pool is due. With `CoverInv`
  and `KeyInv` it gives `RoundDelivers`: a log that is not delivered is in the
  pool, under a key below its block, hence not due.

`Reliable` is what the code needs: a stable chain, no failure between the pop and
the end of the handler, no torn checkpoint, and a restart that either keeps the
memory, or starts from a fixed block, or finds both pool and checkpoint again.
`LogTask_v_restart.cfg` shows that the second condition cannot be dropped.

Only model-checked: `EventuallyDelivered` (liveness is out of the prover's reach)
and the violations.

## Bridge

### Correspondence with the code

`feeBps`, `locked`, `deposits` are BridgeLock's fee, its balance of each token and
its events (the deposit nonce is the number of events before). `released` and
`resent` count how often each burn was paid by a call of the relayer and by a call
of someone else; `signed` has the burns whose withdraw call was signed and sent.
`usedNonces`, `balanceOf`, `totalSupply`, `burns` are BridgeMint's. `running`,
`seenMinted`, `seenWithdrawn`, the stream positions and the pending `call` are the
relayer's. `lapses` and `refused` are history.

A contract function is one atomic action with its `require`s as guards
(`Deposit`, `SetFeeBps`, `ExecWithdraw`, `ExecMint`, `Burn`). `BridgeLock.withdraw`
checks the admin's signature, records no nonce and does not look at its caller, so a
call that was signed may be executed any number of times: `Resend`. A deposit may be
of any token and is minted alike, because the relayer does not look at `d.Token`;
`Withdraw` of the client names no token, so it is always the same one, `HomeToken`.

The relayer is one goroutine, so a handler is `HandleDeposit` / `HandleBurn` up to its
blocking call and `ReplyOk` / `ReplyError` after it; in between the transaction is
executed, or refused (`Refuse`), while users, owner and chain go on. `Rewatch` is the
closed channel, `Stop` and `Start` a restart of the process.

Failures: a call fails; the client reports success at submission and the
transaction is never executed; the client reports an error for a transaction that
was executed; a stream ends; the process restarts; a signed call is sent again.

Abstractions: a token's transfer moves the whole amount; signatures are right; admin
and minter are the relayer's account and do not change; no ERC20 transfers between
users; amounts do not reach 2^256; the destination chain of a deposit is left out, as
the relayer ignores it.

`PeggedBridge` is the promise without relayer, nonces and messages: a deposit is
minted at most once, only holders burn, and escrow of the home token goes to who
burned, in the amount that was burned, and never beyond what there is. It does not
promise that a burn is paid once: the lock contract does not. `KeepsPromises` maps
`Bridge` to it: minted deposits are those whose nonce is in `usedNonces`, and a burn
was paid `released + resent` times.

### Runs

| run | configuration | result |
|---|---|---|
| `bridge` | two tokens, reused nonces, all failures, one restart or lost reply to a payment, each signed call sent again once | `TypeOK`; `PegBacked`; `Solvent`; `PaidOnce`; `KeepsPromises`; `DepositsAttended`; `BurnsPaid` |
| `bridge_v_retry` | one token, calls that fail, streams that stay open | `DepositsMinted` is violated |

| property | meaning |
|---|---|
| `PegBacked` | each pegged token comes from exactly one deposit, whatever is replayed or lost |
| `Solvent` | the home token in the lock covers all pegged tokens, unpaid burns and unminted deposits, but for two leaks that the formula counts: burns that were paid more than once, and pegged tokens minted for another token |
| `PaidOnce` | the relayer itself pays a burn again only after it lost track of a payment: once more per restart and per executed payment that was reported as failed |
| `KeepsPromises` | the refinement of `PeggedBridge` |
| `DepositsAttended` | a deposit is minted or a Mint call for it was refused: none is passed over because of what the relayer remembers or where it watches from |
| `BurnsPaid` | the same for a burn whose nonce no other burn has |

Three events, of which at most two are deposits and two are burns, let one event be
pending while another is replayed, let nonces collide and let the escrow run short;
1010 with a fee of 1% makes the fee round.

Fairness (`FairSpec`): the relayer's goroutine runs and its calls return (weak fairness
of `Relayer`). Nothing is assumed to make streams end; they end and the process
restarts finitely often (`<>[][~(Rewatch \/ Stop)]`), since each of them starts the
streams over, and a relayer that is restarted for ever need not get past an event.

`bridge_v_retry`. On a failed call the relayer takes the nonce out of `seenMinted`,
"so we retry on next poll" (`relayer.go:160`). There is no poll: `pollInterval` is set
and never read, and the event comes again only when its stream ends. With a call that
fails once and succeeds from then on (`RetrySpec`) the deposit is never minted.

Not promised: a second burn with a nonce that is in use is never paid (the relayer
takes it for a repeat), though `BridgeMint.sol:41` says "relayer sees this and releases
on Ethereum".

### Theorems

In `BridgeProofs.tla`, for every finite set of users (`UsersAssumption`), all tokens,
amounts, fees and nonces, every failure, any number of deposits, burns, restarts and
calls sent again.

| theorem | statement |
|---|---|
| `NeverNegative` | `Spec => []TypeOK` |
| `TokensAreBacked` | `Spec => []PegBacked` |
| `PaysOnce` | `Spec => []PaidOnce` |
| `EscrowCovers` | `Spec => []Solvent` |
| `Implements` | `Spec => KeepsPromises`: `Bridge` implements `PeggedBridge` |

The invariant of `PaysOnce` has two parts. `ShapeInv`: the nonce of the i-th deposit
is i - 1 and used nonces belong to deposits made, so that minting one deposit marks no
other; the pending call refers to an event. `LedgerInv`: a burn that was paid more
often than the relayer lost track has its nonce in `seenWithdrawn`; a relayer that is
down owes a lapse for all that was paid; and while a withdrawal is pending, no burn
with its nonce was paid more often than `lapses`. `PaidOnce` alone is not inductive: it
does not exclude a pending withdrawal for a burn at its bound. `ReplyError` takes a
nonce out of the memory, which is sound because the transaction was refused or a lapse
is counted. For `Implements`, `ExecMint` is the abstract `Mint`, `ExecWithdraw` and
`Resend` are `Pay`, `Deposit` and `Burn` are themselves, and every other step is a
stutter.

The other theorems are about sums. `TypeOK` is not inductive: a burn lowers
`totalSupply`, and only the balance is checked. `HoldingsInv` adds that the supply
is the sum of the balances, hence at least any one of them. `PegBacked` and
`Solvent` are inductive over `ShapeInv`: an action moves the amount of one event from
one sum to another, or from the supply to a sum. `Solvent` loses nothing because a
deposit announces no more than it locks (`NetBounds`), and a payment either settles an
unpaid burn or is added to what was overpaid. What a sum over a set is after one
element joined, left or changed comes from `FoldTheorems`.

Only model-checked: `DepositsAttended` and `BurnsPaid` (liveness).

## TaskRunner

Several tasks are goroutines with a program counter each. A step ends where the
goroutine blocks or reads the context, so a cancellation may fall between any two.
`start`, `returned`, `backoff` and `stopped` are places in `RunAll`, `loop` and
`poll` in `TaskLoop`, `check`, `local`, `global` and `batch` in `RunOnce`, `call`
and `sleep` in `RealRPC`. What a round does with its data is left to `LogTask`: a
batch is one step here, and the head is either ahead of the checkpoint or not.
`AcquireLocal`, `AcquireGlobal` and the two `...Cancelled` actions are
`RPCSemaphore.Acquire`, whose `select` may take either ready case. Errors keep the
distinction the code makes: `range` is a message that `IsRateLimitOrRangeErr`
knows, `wrapped range` is what `RealRPC` makes of it.

`Signal`, `Cancel`, `CloseStopCh`, `ContextDone` are `NewShutdownContext`,
`ServerShutdown` and `ListenFails` are `StartMetricsServer`.

Run `runner`: a live task behind `RealRPC` and a one-pass task with a client that
passes errors on compete for one global slot; one retry, two failures per task,
batch 2 (so that it can shrink to 1 and to 0), backoff 1 with cap 3 (so that the
cap is met).

| property | meaning |
|---|---|
| `SlotsAccounted` | slots in use and both gauges equal the number of tasks that are at the places that own them: no path out of a query loses or doubles one |
| `RunsUntilCancelled` | a live task never stops by itself, `errors.Is(nil, nil)` notwithstanding |
| `BackoffSchedule` | the wait depends on the number of restarts in the task's life only; it is not reset, and the first one is not capped |
| `ShutdownCompletes` | after a signal everything ends, whoever waits for what |
| `SlotGranted` | a task that waits for the global slot gets it or gives up |

Fairness: goroutines are scheduled, calls return and timers fire (weak). A Go
channel serves blocked senders in order of arrival, which is strong fairness of
`AcquireGlobal`. Failures are bounded per task (`MaxRestarts`), but shutdown may
begin anywhere.

Run `runner_v_shrink` states what `README.md` promises, "automatic batch shrink on
range/rate-limit errors", for every failed query (`ShrinksOnRangeError`), and TLC
finds it violated: `RealRPC` wraps the last error of its attempts,
`IsRateLimitOrRangeErr` compares whole messages, and the daemon's task loop ends with
the batch as it was.

The gauge `metricTaskUnhealthySec` is left out: `RunOnce` resets it in a deferred
call, so it reads 0 between attempts whatever happened.

### Theorems

In `TaskRunnerProofs.tla`, for any finite set of tasks, any number of slots,
retries and restarts and any batch size (`TasksAssumption`, `SizesAssumption`).

| theorem | statement |
|---|---|
| `TypeCorrect` | `Spec => []TypeOK` |
| `NoSlotLost` | `Spec => []SlotsAccounted` |
| `NeverShrinks` | `Spec => []RealRPCNeverShrinks` |
| `StopsOnlyWhenCancelled` | `Spec => []RunsUntilCancelled` |
| `WaitsBySchedule` | `Spec => []BackoffSchedule` |

`PlaceInv` says what is true of a goroutine by the place it has reached: outside a
call the locals of `RealRPC` are gone, it sleeps only while attempts are left, a
live task leaves `TaskLoop` with an error only. `CountInv` is `SlotsAccounted` with
the capacities: every action moves one task, which joins or leaves the sets of
holders, and their cardinalities change by one with the semaphore. It needs
`PlaceInv`, because only the kind of the query tells whether a task in `call` or
`sleep` owns slots. `TypeOK` needs both: that a release never takes a count below
0 follows from the set of holders, not from the count. `BackoffSchedule` leaves
open what a task in `backoff` waits for; `WaitInv` adds it: the failure is counted
already and the wait not yet doubled. `NextWait` shows that doubling under the cap
gives the schedule's next value, also when the first wait is above the cap (the run
has one below it). `NeverShrinks` (`RealRPCNeverShrinks`: the batch of a task behind
`RealRPC` keeps its size) is what `LogTask` assumes of the daemon; it is the other
side of `runner_v_shrink`. Only model-checked: liveness.

## PendingPool and RedisPendingPool

`PendingPool` is the interface: `Add` replaces what is filed under a height,
`PopConfirmed` takes out entries that are deep enough and hands over logs that were
filed deep enough. The in-memory pool takes all of them and hands over exactly those,
under its mutex; a shared pool may leave some for the next call, hand over what another
call has taken out, and take out what it fails to return.

`RedisPendingPool` has every Redis command as a step: `Add` is one transaction; a pop
is `SMembers`, a `Get` per due height, `Exec` when there is something to return, and
`Return`. `PopError` is an error or a death at any point; after `Exec`, when the reply
is lost, the logs that were removed are in nobody's hands and join `lost`. `main` gives
every daemon the same prefix, so any number of them share the keys, and daemons whose
rounds end at different heads file batches of different lengths under one height
(`Payloads`).

Run `redis_shared`: two daemons; under height 0 either may file the logs of one block
or of two; height 2 is never deep enough.

| property | meaning |
|---|---|
| `NothingLost` | a log of a batch's first block, which every batch filed under the height has (`Core`), is still filed there, in the hands of a `PopConfirmed`, handed over, or was lost with a reply to `EXEC` |
| `EventuallyHanded` | every such log that can be confirmed is handed over in the end, unless it was lost in that way |
| `ImplementsPool` | although reads and deletions of several daemons interleave, every step is a step of `PendingPool` or a stutter |

Logs of the further blocks of a batch have no such guarantee: a daemon may overwrite
a longer batch with a shorter one, or delete the longer one after having read the
shorter. With a batch size of 1 every log is in `Core`.

Fairness: daemons keep running rounds that see the chain's head (strong fairness of
`SMembers` with the highest head, weak fairness of the steps of a pop), errors stop.

### Theorems

In `RedisPendingPoolProofs.tla`, for any daemons, heights, logs, batches and depth,
whatever fails.

| theorem | statement |
|---|---|
| `NoneLost` | `Spec => []NothingLost` |
| `Implements` | `Spec => ImplementsPool`: `RedisPendingPool` implements `PendingPool` |

`NothingLost` alone is not inductive: it does not say what a pop under way is going
to delete. `PopInv` does: every height that a daemon will remove from the index is
due, and it is in the index or its core logs are gone (handed over, in hand or lost); a
block it deletes has its core logs in `out`; a height it removes without having found
the block is gone. `KeyInv` says that every block holds its core logs and only logs
that were filed under it, and that a block which the index has lost is gone. Hence
`Exec` deletes only what is in hand or gone. For `Implements`, `Exec` is an abstract
`PopConfirmed` that takes entries out, `Return` one that hands logs over, `Add` is
itself, and the other steps are stutters. Only model-checked: `EventuallyHanded`.

## ScdoTx and BridgeMintV1

`BridgeMintV1` is the contract as a function from a state and a call to a state.
`halt = "stop"` is the deployed contract, in which a failing `require` ends the
call and keeps its effects; `halt = "revert"` is the contract as written.
Arithmetic wraps at `Word`.

`ScdoTx` has callers with a program of transactions each. `FetchHeight`,
`FetchNonce` and `AddTx` are the three remote calls of `SendTx`. The hash that
`SendTx` returns is empty (`tx.go:71`; the comment of `DeployContract` says "Returns
the tx hash"), so a caller cannot wait for a receipt: it goes on when there is no
error and sends again when there is one. A reply may be the value, an error (before or after the node
acted) or null, which `callContext` turns into the zero value without an error.
External and taken from how the client uses it: the node refuses a nonce that is
used up or that a pooled transaction of the account has (gas prices are equal),
and mines one transaction per block, in order of nonces. The signature is a
placeholder in the code and is taken as valid.

Run `scdo`: two callers with the minter's key and one with the user's; the seven
transactions deploy, mint, approve, transfer (to oneself), transferFrom, burn and
hand over the minter's role; word size 4, so that sums wrap; one lost or null
reply. 
| property | meaning |
|---|---|
| `PoolExecutable` | stale heights, null replies and concurrent senders never produce a nonce ahead of the account's: no transaction waits behind a gap |
| `OnceUnlessMisled` | a transaction is executed at most once, unless the reply to `addTx` hid that the node had taken it; one that was accepted is never dropped for what is sent after it |
| `SupplyIsSum` | supply, balances and events agree modulo the word, though nothing is reverted, and a source nonce is minted once even if its transaction is executed twice |
| `HaltKeepsTokens` | the patch changes the effect of a failing call in one place only: `transferFrom` may consume an allowance without moving tokens |
| `EveryProgramEnds` | all transactions are accepted and mined in the end: callers that share a key, and the own transaction before, do not block a caller for ever (weak fairness of callers and miner) |

### Theorems

In `ScdoTxProofs.tla`, for any set of callers, any programs of transactions
(`ProgramAssumption`: finite sequences of well-formed calls, finitely many
accounts), any sharing of keys, word size and number of lost or null replies.

| theorem | statement |
|---|---|
| `NoGapInPool` | `Spec => []PoolExecutable` |
| `ExecutedOnce` | `Spec => []OnceUnlessMisled` |
| `SupplyAddsUp` | `Spec => []SupplyIsSum` |
| `HaltedCallsKeepTokens` | `Spec => HaltKeepsTokens` |

`NonceInv` says where the nonce in a caller's hands comes from: the height it read
is not above the chain's, so the nonce counts a prefix of the chain and is not above
the account's. The node refuses smaller ones and takes one transaction per nonce,
hence `PoolExecutable`. `OnceInv` follows a transaction through the places it can be
in: once its caller has gone on it is in the pool or on the chain; unless the reply of
`addTx` misled the caller, it is there only then, never in both, and at one position
of the chain. It needs
`NonceInv`: two copies in the pool would need two nonces of the same account.

`ContractInv` is about congruence: `totalSupply`, the sum of the balances and
what the events say differ by multiples of the word. Each function is shown to keep
it, `Move` also when sender and receiver are the same, and so does every prefix of a
function that a failing `require` can leave behind. `HaltedCallsKeepTokens` goes
through the functions and compares the two ways to halt. Only model-checked:
`EveryProgramEnds` (liveness).

## MerkleNFTAllowlist

The contract's storage is one record. A mint under way is a frame that remembers
the storage at its start; between two tokens the receiver runs, and until it
returns (`ReceiverReturns`) or fails (`ReceiverFails`, which restores the frame's
storage) any call may be made, the owner's too. The allowlist comes from one of
three tools: `go/merkle`, the merkletreejs of the contract's tests, and
`scripts/merkle-gen.js`, which encodes leaves with padding. As a proof a caller passes
what a tool prints, or any sequence of up to `MaxProof` digests of any tool's trees.

In run `toolkit` there are three tokens, two callers (one is the owner), limits of 2, a
list of one and a list of three addresses. `IdsContiguous` and `SupplyPaidFor` hold
through callbacks and failures; `OnlyListedMint` and `RootAdmitsList` say that a
root of either library admits exactly its list, whatever is passed as a proof. The root
that `scripts/merkle-gen.js` prints admits nobody, because the contract packs its
leaf: `Toolkit_v_script.cfg`.

### Theorems

In `MerkleProofs.tla`, for any finite set of accounts, any allowlists, prices and
limits (`NFTAssumption`) and whatever receivers do.

| theorem | statement |
|---|---|
| `NoGapsInIds` | `Spec => []IdsContiguous` |
| `EverythingPaidFor` | `Spec => []SupplyPaidFor` |
| `NobodyUnlisted` | `Spec => []OnlyListedMint` |
| `AdmitsTheList` | `Spec => []RootAdmitsList` |

The invariant `Inv` has two cases: no mint is under way and the storage is
`Consistent` with nothing pending; or one mint is (`nonReentrant` admits no second
one), the storage is consistent but for the tokens it has still to deliver, and the
storage it would fall back to is consistent as well. The last part is what a
receiver that fails needs, and it survives because the owner's calls during a mint
do not touch the saved copy. `Consistent` has the counts and money (`PaidFor`, sums
over accounts) and where the root comes from (`Listed`). That an accepted proof
belongs to a listed account uses the soundness of the tree below; that every listed
account has one uses its completeness, for both libraries.

## Algorithms

`Merkle` is the tree over a symbolic hash without collisions; `HashPair` is the
set of two nodes because the code sorts them. `BaseFee` and `Bytecode` are the Go
functions in integer arithmetic and on sequences of bytes. `MCAlgorithms` grows lists
of up to 6 leaves (odd numbers on two levels, repeated leaves), code of
up to 6 hexadecimal digits over PUSH1, REVERT, STOP and digits that straddle them,
and chains of blocks of every fullness. `MCToolkit` puts it beside the NFT contract
into one run, `toolkit`; a behaviour follows one kind of input or the contract.

| property | compared with |
|---|---|
| `MerkleComplete`, `MerkleSound` | every leaf of a list has an accepted proof; no other leaf has one, whatever nodes are offered |
| `FeeFollowsFormula` | the formula of the package comment, within one wei, its bound of 12.5%, and that fuller blocks never lower the fee |
| `FeeTrap` | below 8 wei the base fee never moves again |
| `PatchOnlyReverts` | a disassembler: instructions stay where they were, and where no PUSH data holds 0xfd the patch is the one a disassembler would make |
| `PatchScriptAgrees` | `sed` in `deploy-scdo-bridge.sh` does the same unless "fd" straddles two bytes |

Two comments of the code do not hold. `BuildMerkleTree` does not match merkletreejs,
which passes odd nodes up instead of pairing them with themselves
(`Toolkit_v_roots.cfg`; the roots are equal for 1, 2, 4, ... leaves only, theorem
`RootsForPowersOfTwo`). `PatchBytecodeForV1` does change PUSH data that holds 0xfd
(`Toolkit_v_push.cfg`).

A step appends one element, so every input up to the bound is a state; the
behaviour ends when the bound is met, hence no deadlock check.

### Theorems

In `AlgorithmProofs.tla`, for every target, start fee and sequence of blocks and
for code of any length (`TargetGasAssumption`, `InputsAssumption`).

| theorem | statement |
|---|---|
| `FeeFormula` | `AlgorithmSpec => []FeeFollowsFormula` |
| `FeeIsTrapped` | `AlgorithmSpec => FeeTrap` |
| `ScriptMatchesProgram` | `AlgorithmSpec => []PatchScriptAgrees` |
| `OnlyRevertsPatched` | `AlgorithmSpec => []PatchOnlyReverts` |

`ScaledBounds` encloses the result of the two truncating divisions between
multiples of 8 times the target; the bound of an eighth, the wei from the formula
and the trap are linear consequences. `HexAt` says what `PatchBytecodeHex` does to
one digit, by the parity of its position; an occurrence of "fd" that `sed` sees and
the program does not is one that begins at an even position. Instructions stay where
they are because REVERT and STOP have the same width: `SameStarts` is an induction
along the code.

In `MerkleProofs.tla`, for lists of leaves of any length, repeated leaves included
(`TreeSpec` is the part of the run that grows lists: lemma `ListsOfLeaves` of
`AlgorithmProofs.tla` proves `AlgorithmSpec => TreeSpec`):

| theorem | statement | extra assumption |
|---|---|---|
| `EveryLeafVerifies` | `TreeSpec => []MerkleComplete` | none |
| `NoForgery` | `TreeSpec => []MerkleSound` | no leaf is the digest of two nodes |
| `RootsForPowersOfTwo` | `TreeSpec => []MerkleRootsAgree` | the same |

Without that assumption the last two are false: an inner node, offered as a leaf,
verifies. The code's leaves are hashes of addresses, and those of the contract are
shown to satisfy it (`LeavesNotPaired`). *Completeness* (`GoPath`): folding the
first k hashes of a proof gives the node of level k + 1 on the path, whose index is
halved at every level; `HexPath` is the same for merkletreejs, where a level may add
no hash. *Soundness* (`SoundIn`) goes backwards: a node of the tree is a leaf or a
pair of nodes, so if the last value of a fold is a node, then so is each earlier one
and the leaf at its start. *Roots* (`Abreast`): all leaves below a node of
`BuildMerkleTree` are at one depth. The levels of merkletreejs are the same until one
is odd; from then on its last node has a leaf at another depth, on every level up to
the root, and the length of the list is an odd number above 1 times a power of two.

## How the proofs handle data

The induction theorems of the TLAPS library take a predicate as a parameter, which the
provers cannot instantiate. `FoldTheorems` states induction over a *set* (of numbers,
or of subsets of a finite set) instead, derived from the well-foundedness of the
strict-subset ordering. From it follow that a recursive function and the folds of
the community modules exist and satisfy their defining equations, that a sum does
not depend on the order of its elements and changes by one element at a time, and
that a property of a fold's result can be traced back to its start. The operator of a
fold is a CONSTANT of that module, so an INSTANCE gives the theorems for the operator
of a model. Powers of two come from the number of subsets of a set. No definition of
a model is replaced for a proof: lemmas such as `SumIsFold` and `LevelsRecurse` say
that the model's own definition is the one the theorems are about.

## Only model-checked

Liveness: `EventuallyDelivered`, `DepositsAttended`, `BurnsPaid`, `ShutdownCompletes`,
`SlotGranted`, `EventuallyHanded` and `EveryProgramEnds`. Fairness and ENABLED are out
of the prover's reach. Every safety property that a passing run checks is a theorem.
The violations are TLC's counterexamples.

Configurations that are not runs of `PROJECT.json` show further disagreements between
the code and its documentation; TLC finds the property of each violated:

| configuration | module | property | says |
|---|---|---|---|
| `LogTask_v_depth.cfg` | `MCLogTask` | `ConfirmationDepth` | `README.md:93`: logs are handed over "after `ConfirmBlockNum` confirmations" |
| `LogTask_v_restart.cfg` | `MCLogTask` | `NoLogSkipped` | `README.md:93`: the Redis pool "survives restarts" |
| `LogTask_v_shrink.cfg` | `MCLogTask` | `EventuallyDelivered` | a task that shrinks its batch still makes progress |
| `Toolkit_v_roots.cfg` | `MCToolkit` | `RootsMatch` | `merkle.go:32`: odd leaves are paired with themselves, "matching merkletreejs defaults" |
| `Toolkit_v_push.cfg` | `MCToolkit` | `PushDataKept` | `bytecode.go:23`: PUSH data "is not touched" |
| `Toolkit_v_script.cfg` | `MCToolkit` | `ScriptRootAdmitsList` | `README.md:150`: "Generate a root + proof locally" with `scripts/merkle-gen.js` |

## Not modelled

- `ERC20Mock`, a test double; the web page; deployment commands and containers;
- wallet, address, hash and hex helpers of `go/scdo`: stateless cryptography and
  formatting, with a placeholder for the signature; `Balance` and `GetReceipt`, reads
  that nothing in the repository acts on;
- metrics other than the gauges in `TaskRunner`: write-only;
- the rows and payloads that batch handlers write; flags and environment of
  `main`;
- `setAdmin`, `setMinter` and ERC20 transfers in `Bridge`; ERC721 transfers and
  changes of ownership in the NFT contract, which are OpenZeppelin's.

## Plan

1. `Bridge`: `setAdmin`, `setMinter` and transfers between users, with the theorems
   carried over.
2. `Reliable` of `LogTask` by cases: which failures each part of it is needed for.
