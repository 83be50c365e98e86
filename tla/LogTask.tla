------------------------------ MODULE LogTask ------------------------------
(***************************************************************************)
(* One contract log-filter job of go/logfilter: the chain it follows, the  *)
(* sync round LogTask.RunOnce, the polling loop TaskLoop, the pending pool *)
(* that holds logs until they are confirmed, the checkpoint store, and     *)
(* what happens when a step fails or the process dies.                     *)
(*                                                                         *)
(* A round is cut into the steps between which the environment can act:    *)
(* BlockNumber, EthGetLogs, PendingPool.Add, PendingPool.PopConfirmed,     *)
(* BatchHandler.HandleBatch and Store.Save.  Each is one remote call (RPC, *)
(* Redis, SQL or Kafka, disk); the chain may grow or be reorganised and    *)
(* the process may die between any two of them.                            *)
(*                                                                         *)
(* Block heights start at 1; 0 stands for "none" in store, origin,         *)
(* latestBlock, currentStart and end.                                      *)
(***************************************************************************)
EXTENDS Integers, Sequences, FiniteSets

CONSTANTS
    TxHash,           \* transaction hashes
    Bodies,           \* possible block bodies: sets of matching events
    ConfirmBlockNum,  \* LogTask.ConfirmBlockNum
    InitBatchSize,    \* LogTask.BatchSize as configured
    START_BLOCK,      \* main's START_BLOCK, 0 when unset
    InitStore,        \* checkpoint an earlier process left, 0 when none
    LiveMode,         \* LogTask.LiveMode
    InProcessRestart, \* TRUE: TaskRunner re-runs the same LogTask value;
                      \* FALSE: main exits and the supervisor restarts it
    PoolSurvives,     \* TRUE: RedisPendingPool; FALSE: BlockPendingPool
    Faults,           \* the steps that may fail in this configuration
    InitHeight,       \* chain height when the task is first started
    MaxHeight,        \* bound: blocks mined
    ReorgDepth,       \* bound: blocks one reorganisation drops
    MaxReorgs         \* bound: number of reorganisations

FaultKinds == {"blockNumber", "range", "rpc", "add", "pop", "popLost",
               "handler", "save", "tornSave", "crash", "crashInHandler"}

ASSUME BodiesAssumption == Bodies \subseteq SUBSET [tx : TxHash, idx : Nat]
ASSUME NumbersAssumption ==
    /\ ConfirmBlockNum \in Nat
    /\ InitBatchSize \in Nat \ {0}
    /\ START_BLOCK \in Nat
    /\ InitStore \in Nat
    /\ InitHeight \in Nat \ {0}
    /\ MaxHeight \in Nat
    /\ ReorgDepth \in Nat
    /\ MaxReorgs \in Nat
ASSUME ModesAssumption ==
    /\ LiveMode \in BOOLEAN
    /\ InProcessRestart \in BOOLEAN
    /\ PoolSurvives \in BOOLEAN
    /\ Faults \subseteq FaultKinds
\* Add and PopConfirmed of the in-memory pool always return a nil error.
ASSUME PoolFaultsAssumption ==
    PoolSurvives \/ Faults \cap {"add", "pop", "popLost"} = {}
\* main queries through RealRPC, which wraps every error, so that
\* IsRateLimitOrRangeErr never recognises one; other queriers are for library
\* users, who run tasks under TaskRunner.
ASSUME RangeFaultAssumption == InProcessRestart \/ "range" \notin Faults

VARIABLES
    chain,         \* external: bodies of blocks 1..Len(chain)
    reorgs,        \* external: reorganisations so far
    pc,            \* the step the task takes next
    Checkpoint,    \* LogTask.Checkpoint
    BatchSize,     \* LogTask.BatchSize, halved by range errors
    latestBlock,   \* local of RunOnce; kept until the next round or failure
    currentStart,  \* local of RunOnce
    end,           \* local of RunOnce
    batch,         \* local batchDedup of RunOnce
    ready,         \* local of RunOnce
    pool,          \* PendingPool: pairs of a height key and a log under it
    store,         \* CheckpointStore: the saved block, 0 when absent/unreadable
    delivered,     \* every log the batch handler has accepted
    origin         \* the block the first process started from

external == <<chain, reorgs>>
locals   == <<latestBlock, currentStart, end, batch, ready>>
vars     == <<chain, reorgs, pc, Checkpoint, BatchSize, latestBlock,
              currentStart, end, batch, ready, pool, store, delivered, origin>>

PCs == {"down", "poll", "fetch", "add", "pop", "handle", "save", "done"}
Logs == [block : Nat, tx : TxHash, idx : Nat]

-----------------------------------------------------------------------------
(* The chain and what the code computes from it. *)

\* LogResult values of one block.
LogsOf(h) == {[block |-> h, tx |-> e.tx, idx |-> e.idx] : e \in chain[h]}

\* eth_getLogs(from, to) on the current chain.
LogsIn(from, to) == UNION {LogsOf(h) : h \in (from .. to) \cap DOMAIN chain}

\* LogResult.uniqueKey: the block and the transaction, not the log index.
SameKey(l, m) == l.block = m.block /\ l.tx = m.tx

\* The dedup loop of RunOnce keeps the first log of every key.
Dedup(logs) == {l \in logs : \A m \in logs : SameKey(l, m) => l.idx <= m.idx}

\* Mutants: the depth ignored; a strict comparison.
ConfirmedIgnoresDepth == {e \in pool : e.key <= latestBlock}
ConfirmedStrict == {e \in pool : e.key + ConfirmBlockNum < latestBlock}

\* A pool entry is popped when its key, not its logs, is deep enough.
Confirmed == {e \in pool : e.key + ConfirmBlockNum <= latestBlock}

\* Mutant: the head is taken as an exclusive bound.
BatchEndExclusive ==
    IF currentStart + BatchSize - 1 > latestBlock THEN latestBlock - 1
    ELSE currentStart + BatchSize - 1

\* Last block of the next batch; with BatchSize = 0 it is currentStart - 1,
\* and uint64 wraps 0 + 0 - 1 to a value above every height.
BatchEnd ==
    LET e == currentStart + BatchSize - 1
    IN  IF e > latestBlock \/ e < 0 THEN latestBlock ELSE e

ResetLocals ==
    /\ latestBlock' = 0
    /\ currentStart' = 0
    /\ end' = 0
    /\ batch' = {}
    /\ ready' = {}

-----------------------------------------------------------------------------
Init ==
    /\ chain \in [1 .. InitHeight -> Bodies]
    /\ reorgs = 0
    /\ pc = "down"
    /\ Checkpoint = 0
    /\ BatchSize = InitBatchSize
    /\ latestBlock = 0 /\ currentStart = 0 /\ end = 0
    /\ batch = {} /\ ready = {}
    /\ pool = {}
    /\ store = InitStore
    /\ delivered = {}
    /\ origin = 0

(* The environment. *)

\* A block is added to the chain.
Mine ==
    /\ Len(chain) < MaxHeight
    /\ \E body \in Bodies : chain' = Append(chain, body)
    /\ UNCHANGED <<reorgs, pc, Checkpoint, BatchSize, locals, pool, store,
                   delivered, origin>>

\* The node abandons its last blocks; Mine then builds the other branch.
Reorg ==
    /\ reorgs < MaxReorgs
    /\ \E d \in 1 .. ReorgDepth :
          /\ d < Len(chain)
          /\ chain' = SubSeq(chain, 1, Len(chain) - d)
    /\ reorgs' = reorgs + 1
    /\ UNCHANGED <<pc, Checkpoint, BatchSize, locals, pool, store, delivered,
                   origin>>

-----------------------------------------------------------------------------
(* Starting, failing and dying. *)

\* main: START_BLOCK wins, then a readable saved checkpoint, then the head.
StartBlock ==
    IF START_BLOCK # 0 THEN START_BLOCK
    ELSE IF store > 0 THEN store ELSE Len(chain)

\* main builds the task; a library user does the same by hand.
Boot ==
    /\ pc = "down"
    /\ pc' = "poll"
    /\ Checkpoint' = StartBlock
    /\ BatchSize' = InitBatchSize
    /\ origin' = IF origin = 0 THEN StartBlock ELSE origin
    /\ UNCHANGED <<external, locals, pool, store, delivered>>

\* Mutant: nothing of the pool survives.
DieLosesPool(kept) ==
    /\ pc' = "down"
    /\ Checkpoint' = 0
    /\ BatchSize' = InitBatchSize
    /\ pool' = {}

\* The process is gone: memory is lost, Redis and the store are not.
Die(kept) ==
    /\ pc' = "down"
    /\ Checkpoint' = 0
    /\ BatchSize' = InitBatchSize
    /\ pool' = IF PoolSurvives THEN kept ELSE {}

\* RunOnce returns an error.  TaskLoop passes it on; TaskRunner calls
\* TaskLoop again on the same task, main exits.
Fail(kept) ==
    /\ ResetLocals
    /\ \/ /\ InProcessRestart
          /\ pc' = "poll"
          /\ pool' = kept
          /\ UNCHANGED <<Checkpoint, BatchSize>>
       \/ /\ ~InProcessRestart
          /\ Die(kept)

\* A kill, a power loss, or a shutdown signal seen between two steps.
Crash ==
    /\ pc \notin {"down", "done", "handle"}
    /\ "crash" \in Faults
    /\ ResetLocals
    /\ Die(pool)
    /\ UNCHANGED <<external, store, delivered, origin>>

\* Death while the handler runs: any part of the batch may be written.
CrashInHandler ==
    /\ pc = "handle"
    /\ "crashInHandler" \in Faults
    /\ \E done \in SUBSET ready : delivered' = delivered \cup done
    /\ ResetLocals
    /\ Die(pool)
    /\ UNCHANGED <<external, store, origin>>

\* Death inside os.WriteFile, which truncates before it writes: the next
\* Load fails on the empty file.
CrashInSave ==
    /\ pc = "save"
    /\ "tornSave" \in Faults
    /\ store' = 0
    /\ ResetLocals
    /\ Die(pool)
    /\ UNCHANGED <<external, delivered, origin>>

-----------------------------------------------------------------------------
(* RunOnce. *)

\* RunOnce returns true; TaskLoop polls again only in live mode.
RoundDone == pc' = IF LiveMode THEN "poll" ELSE "done"

\* BlockNumber succeeds; nothing to do when the checkpoint is ahead.
BeginRound ==
    /\ pc = "poll"
    /\ latestBlock' = Len(chain)
    /\ \/ /\ Checkpoint > Len(chain)
          /\ RoundDone
          /\ UNCHANGED currentStart
       \/ /\ Checkpoint <= Len(chain)
          /\ pc' = "fetch"
          /\ currentStart' = Checkpoint
    /\ UNCHANGED <<external, Checkpoint, BatchSize, end, batch, ready, pool,
                   store, delivered, origin>>

BlockNumberError ==
    /\ pc = "poll"
    /\ "blockNumber" \in Faults
    /\ Fail(pool)
    /\ UNCHANGED <<external, store, delivered, origin>>

\* Mutant: the batch grows after every success, past what was configured.
EthGetLogsGrowing ==
    /\ pc = "fetch"
    /\ pc' = "add"
    /\ end' = BatchEnd
    /\ batch' = Dedup(LogsIn(currentStart, BatchEnd))
    /\ BatchSize' = 2 * BatchSize
    /\ UNCHANGED <<external, Checkpoint, latestBlock, currentStart, ready, pool,
                   store, delivered, origin>>

\* The query and the dedup loop.
EthGetLogs ==
    /\ pc = "fetch"
    /\ pc' = "add"
    /\ end' = BatchEnd
    /\ batch' = Dedup(LogsIn(currentStart, BatchEnd))
    /\ UNCHANGED <<external, Checkpoint, BatchSize, latestBlock, currentStart,
                   ready, pool, store, delivered, origin>>

\* An error IsRateLimitOrRangeErr accepts: halve the batch and try again,
\* or give up, leaving BatchSize = 0 in the task.
RangeError ==
    /\ pc = "fetch"
    /\ "range" \in Faults
    /\ \/ /\ BatchSize \div 2 >= 1
          /\ BatchSize' = BatchSize \div 2
          /\ UNCHANGED <<pc, Checkpoint, locals, pool>>
       \/ /\ BatchSize \div 2 < 1
          /\ BatchSize' = 0
          /\ ResetLocals
          /\ pc' = "poll"
          /\ UNCHANGED <<Checkpoint, pool>>
    /\ UNCHANGED <<external, store, delivered, origin>>

\* Any other RPC error.
RPCError ==
    /\ pc = "fetch"
    /\ "rpc" \in Faults
    /\ Fail(pool)
    /\ UNCHANGED <<external, store, delivered, origin>>

\* A healthy node may also reject the inverted range of an empty batch.
InvertedRange ==
    /\ pc = "fetch"
    /\ BatchEnd < currentStart
    /\ Fail(pool)
    /\ UNCHANGED <<external, store, delivered, origin>>

\* The entry under the batch's first height is replaced.
Added == {e \in pool : e.key # currentStart}
           \cup {[key |-> currentStart, log |-> l] : l \in batch}

Add ==
    /\ pc = "add"
    /\ pc' = "pop"
    /\ pool' = Added
    /\ batch' = {}
    /\ UNCHANGED <<external, Checkpoint, BatchSize, latestBlock, currentStart,
                   end, ready, store, delivered, origin>>

\* The Redis transaction fails, or it is applied and the reply is lost.
AddError ==
    /\ pc = "add"
    /\ "add" \in Faults
    /\ Fail(pool) \/ Fail(Added)
    /\ UNCHANGED <<external, store, delivered, origin>>

\* currentStart = end + 1, and the loop condition.
NextBatch ==
    /\ end' = 0
    /\ \/ /\ end + 1 <= latestBlock
          /\ pc' = "fetch"
          /\ currentStart' = end + 1
       \/ /\ end + 1 > latestBlock
          /\ RoundDone
          /\ currentStart' = 0

PopConfirmed ==
    /\ pc = "pop"
    /\ pool' = pool \ Confirmed
    /\ ready' = {e.log : e \in Confirmed}
    /\ \/ /\ Confirmed = {}
          /\ NextBatch
       \/ /\ Confirmed # {}
          /\ pc' = "handle"
          /\ UNCHANGED <<currentStart, end>>
    /\ UNCHANGED <<external, Checkpoint, BatchSize, latestBlock, batch, store,
                   delivered, origin>>

\* A Redis error before the deletions, or ("popLost") after them.
PopError ==
    /\ pc = "pop"
    /\ \/ "pop" \in Faults /\ Fail(pool)
       \/ "popLost" \in Faults /\ Confirmed # {} /\ Fail(pool \ Confirmed)
    /\ UNCHANGED <<external, store, delivered, origin>>

HandleBatch ==
    /\ pc = "handle"
    /\ pc' = "save"
    /\ delivered' = delivered \cup ready
    /\ ready' = {}
    /\ UNCHANGED <<external, Checkpoint, BatchSize, latestBlock, currentStart,
                   end, batch, pool, store, origin>>

HandlerError ==
    /\ pc = "handle"
    /\ "handler" \in Faults
    /\ \E done \in SUBSET ready : delivered' = delivered \cup done
    /\ Fail(pool)
    /\ UNCHANGED <<external, store, origin>>

\* Mutant: the head is saved instead of the last block fetched.
SaveHead ==
    /\ pc = "save"
    /\ store' = latestBlock
    /\ Checkpoint' = latestBlock
    /\ NextBatch
    /\ UNCHANGED <<external, BatchSize, latestBlock, batch, ready, pool,
                   delivered, origin>>

\* Mutant: the file gets the block before the batch, the task its last one.
SaveBefore ==
    /\ pc = "save"
    /\ store' = currentStart - 1
    /\ Checkpoint' = end
    /\ NextBatch
    /\ UNCHANGED <<external, BatchSize, latestBlock, batch, ready, pool,
                   delivered, origin>>

Save ==
    /\ pc = "save"
    /\ store' = end
    /\ Checkpoint' = end
    /\ NextBatch
    /\ UNCHANGED <<external, BatchSize, latestBlock, batch, ready, pool,
                   delivered, origin>>

\* Save fails before, or ("tornSave") after the file is truncated.
SaveError ==
    /\ pc = "save"
    /\ \/ "save" \in Faults /\ store' = store
       \/ "tornSave" \in Faults /\ store' = 0
    /\ Fail(pool)
    /\ UNCHANGED <<external, delivered, origin>>

-----------------------------------------------------------------------------
Chain == Mine \/ Reorg
Task  == \/ Boot \/ BeginRound \/ EthGetLogs \/ InvertedRange \/ Add
         \/ PopConfirmed \/ HandleBatch \/ Save
Error == \/ BlockNumberError \/ RangeError \/ RPCError \/ AddError
         \/ PopError \/ HandlerError \/ SaveError
         \/ Crash \/ CrashInHandler \/ CrashInSave

Next == Chain \/ Task \/ Error

Spec == Init /\ [][Next]_vars

\* Fairness.  Blocks keep being mined; the scheduler, TaskRunner or the
\* supervisor keeps the task going; failures are transient: from some point on
\* calls succeed and the process is not killed.
Fairness ==
    /\ WF_vars(Mine)
    /\ WF_vars(Task)
    /\ <>[][~Error]_vars

FairSpec == Spec /\ Fairness

-----------------------------------------------------------------------------
(* Properties. *)

\* Every variable stays in its type, through every error path and restart.
TypeOK ==
    /\ chain \in Seq(Bodies)
    /\ reorgs \in 0 .. MaxReorgs
    /\ pc \in PCs
    /\ Checkpoint \in Nat
    /\ BatchSize \in 0 .. InitBatchSize
    /\ latestBlock \in Nat
    /\ currentStart \in Nat
    /\ end \in Nat
    /\ batch \subseteq Logs
    /\ ready \subseteq Logs
    /\ pool \subseteq [key : Nat, log : Logs]
    /\ store \in Nat
    /\ delivered \subseteq Logs
    /\ origin \in Nat

\* No range error can leave the running task with BatchSize = 0.
BatchNeverEmpty == "range" \notin Faults

\* What the pool's keys by batch start really guarantee: a log handed to the
\* batch handler is at most InitBatchSize - 1 blocks short of ConfirmBlockNum
\* confirmations, whatever fails, restarts or is reorganised in between.
\* (Holds under BatchNeverEmpty: see BatchEnd.)
HandedDeepEnough ==
    \A l \in ready :
        l.block + ConfirmBlockNum <= latestBlock + InitBatchSize - 1

\* The confirmation promise of RunOnce as documented: only logs at least
\* ConfirmBlockNum deep are handed to the handler.
ConfirmationDepth ==
    \A l \in ready : l.block + ConfirmBlockNum <= latestBlock

\* The configurations in which no log may be lost: the chain is stable, no
\* failure strikes between the pop and the end of the handler or tears the
\* checkpoint, and what a restart forgets is fetched again.
Reliable ==
    /\ MaxReorgs = 0
    /\ Faults \cap {"popLost", "handler", "crashInHandler", "tornSave"} = {}
    /\ \/ InProcessRestart /\ "crash" \notin Faults
       \/ ~InProcessRestart /\ START_BLOCK # 0
       \/ ~InProcessRestart /\ PoolSurvives /\ InitStore > 0

\* Every log the dedup loop keeps for block h.
Kept(h) == IF h \in DOMAIN chain THEN Dedup(LogsOf(h)) ELSE {}

\* The logs that are delivered, in the handler's hands, or in the pool.
Known == delivered \cup ready \cup {e.log : e \in pool}

\* None of the logs of block h is missing.
Covered(h) == Kept(h) \subseteq Known

\* RunOnce never fetches below Checkpoint again, so a log below it that is
\* neither delivered nor pending is lost.  None is.
NoLogSkipped == origin # 0 => \A h \in origin .. Checkpoint - 1 : Covered(h)

\* When RunOnce returns true, every log ConfirmBlockNum deep at the head it
\* saw has been through the handler: no log is left behind in the pool.
RoundDelivers ==
    pc \in {"poll", "done"} /\ latestBlock # 0 =>
        \A h \in origin .. latestBlock - ConfirmBlockNum : Kept(h) \subseteq delivered

\* The saved checkpoint may be lost by a torn write but never moves back, so
\* that a restart does not resume before a block an earlier one had passed.
CheckpointNeverRegresses == [][store' = 0 \/ store' >= store]_store

\* Every log of every block from the start block on, once it can be confirmed,
\* is eventually delivered.
EventuallyDelivered ==
    \A h \in 1 .. MaxHeight - ConfirmBlockNum :
        (origin # 0 /\ origin <= h /\ h \in DOMAIN chain)
            ~> (h \in DOMAIN chain /\ Kept(h) \subseteq delivered)

\* uniqueKey identifies a log: two different logs never share a key, so the
\* dedup loop only drops copies and every log reaches pool or handler.
EveryLogHandled ==
    \A h \in origin .. Checkpoint - 1 :
        origin # 0 /\ h \in DOMAIN chain =>
            LogsOf(h) \subseteq Known

\* Reorg protection: a log handed to the handler is on the chain.
HandedOnChain ==
    \A l \in ready : l.block \in DOMAIN chain /\ l \in LogsOf(l.block)
=============================================================================
