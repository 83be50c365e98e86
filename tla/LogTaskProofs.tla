--------------------------- MODULE LogTaskProofs ---------------------------
(***************************************************************************)
(* Theorems about LogTask for every chain, batch size and depth.           *)
(*                                                                         *)
(*   TypeCorrect         every variable keeps its type                     *)
(*   DepthBound          how deep a log is when the handler gets it        *)
(*   NothingSkipped      no log below the checkpoint is lost               *)
(*   RoundComplete       a finished round has delivered what was due       *)
(*   CheckpointMonotone  the saved checkpoint never moves back             *)
(*                                                                         *)
(* ErrorShape reduces every failure to one of three shapes (shrink the     *)
(* batch, leave the round, end the process), so that each inductive step   *)
(* has one case per successful action and three for all the failures.      *)
(***************************************************************************)
EXTENDS LogTask, TLAPS

\* Everything up to and including block n is delivered, handed over or pooled.
CoveredUpTo(n) == \A h \in origin .. n : Covered(h)

Busy == pc \in {"fetch", "add", "pop", "handle", "save"}

\* Where the locals of RunOnce stand relative to each other and to the chain.
LoopInv ==
    /\ pc # "add" => batch = {}
    /\ pc # "handle" => ready = {}
    /\ Busy => Checkpoint <= currentStart /\ currentStart <= latestBlock
    /\ pc \in {"add", "pop", "handle", "save"} =>
          /\ currentStart <= end + 1
          /\ end <= latestBlock
          /\ BatchSize >= 1 => currentStart <= end

\* A log is filed under a key at or below its block ...
KeyInv ==
    /\ \A e \in pool : e.key <= e.log.block
    /\ \A l \in batch : currentStart <= l.block

\* ... and, unless range errors have left BatchSize = 0, close to it.
SpanInv ==
    /\ BatchSize >= 1
    /\ \A e \in pool : e.log.block <= e.key + InitBatchSize - 1
    /\ \A l \in batch : l.block <= currentStart + InitBatchSize - 1

\* Process state against stored state, in the configurations of Reliable.
RestartInv ==
    /\ Len(chain) >= 1
    /\ latestBlock <= Len(chain)
    /\ origin = 0 => pc = "down" /\ store = InitStore
    /\ origin # 0 /\ START_BLOCK # 0 => origin = START_BLOCK
    /\ pc = "down" => Checkpoint = 0 /\ latestBlock = 0
    /\ pc = "down" /\ InProcessRestart => origin = 0
    /\ Checkpoint = origin \/ Checkpoint <= Len(chain)
    /\ ~InProcessRestart => BatchSize >= 1
    /\ ~InProcessRestart /\ START_BLOCK = 0 =>
          /\ store > 0
          /\ origin # 0 => store = origin \/ store <= Len(chain)
          /\ pc # "down" => Checkpoint = store

\* The frontier below which nothing is missing, step by step.
CoverInv ==
    origin # 0 =>
        /\ CoveredUpTo(Checkpoint - 1)
        /\ ~InProcessRestart /\ START_BLOCK = 0 => CoveredUpTo(store - 1)
        /\ pc \in {"fetch", "add"} => CoveredUpTo(currentStart - 1)
        /\ pc = "add" => \A h \in currentStart .. end : Kept(h) \subseteq batch
        /\ pc \in {"pop", "handle", "save"} => CoveredUpTo(end)
        /\ pc \in {"poll", "done"} /\ latestBlock # 0 => CoveredUpTo(latestBlock)

\* What a pop leaves in the pool is not due until the round ends.
DueInv ==
    /\ pc \in {"handle", "save"} =>
          \A e \in pool : e.key + ConfirmBlockNum > latestBlock
    /\ pc \in {"poll", "done"} /\ latestBlock # 0 =>
          \/ origin > latestBlock
          \/ \A e \in pool : e.key + ConfirmBlockNum > latestBlock

LossInv == TypeOK /\ LoopInv /\ KeyInv /\ RestartInv /\ CoverInv /\ DueInv

OrderInv ==
    /\ TypeOK
    /\ LoopInv
    /\ BatchSize >= 1
    /\ pc # "down" => store <= Checkpoint

-----------------------------------------------------------------------------
(* Facts about the operators. *)

\* Bounds of the next batch: it never passes the head and never leaves a gap.
LEMMA BatchEndBounds ==
    ASSUME currentStart \in Nat, latestBlock \in Nat,
           BatchSize \in 0 .. InitBatchSize
    PROVE  /\ BatchEnd \in Nat
           /\ BatchEnd <= latestBlock
           /\ currentStart <= latestBlock => currentStart <= BatchEnd + 1
           /\ currentStart <= latestBlock /\ BatchSize >= 1 => /\ currentStart <= BatchEnd
                                /\ BatchEnd <= currentStart + InitBatchSize - 1
BY NumbersAssumption DEF BatchEnd

\* eth_getLogs returns well-formed logs of the blocks asked for.
LEMMA LogsInBounds ==
    ASSUME chain \in Seq(Bodies), NEW from \in Nat, NEW to \in Nat
    PROVE  /\ LogsIn(from, to) \subseteq Logs
           /\ \A l \in LogsIn(from, to) : from <= l.block /\ l.block <= to
<1> SUFFICES ASSUME NEW l \in LogsIn(from, to)
             PROVE  l \in Logs /\ from <= l.block /\ l.block <= to
    OBVIOUS
<1>1. PICK h \in (from .. to) \cap DOMAIN chain : l \in LogsOf(h)
    BY DEF LogsIn
<1>2. PICK e \in chain[h] : l = [block |-> h, tx |-> e.tx, idx |-> e.idx]
    BY <1>1 DEF LogsOf
<1>3. chain[h] \in Bodies
    BY <1>1
<1>4. e \in [tx : TxHash, idx : Nat]
    BY <1>3, BodiesAssumption
<1> QED BY <1>1, <1>2, <1>4 DEF Logs

\* There is no height between a block and the one before it.
LEMMA NothingBetween == \A n \in Nat : n .. n - 1 = {}
OBVIOUS

\* What the pool holds after an Add is well-formed.
LEMMA AddedType ==
    ASSUME currentStart \in Nat, batch \subseteq Logs,
           pool \subseteq [key : Nat, log : Logs]
    PROVE  Added \subseteq [key : Nat, log : Logs]
BY DEF Added

\* What PopConfirmed returns is well-formed.
LEMMA ConfirmedType ==
    ASSUME pool \subseteq [key : Nat, log : Logs]
    PROVE  {e.log : e \in Confirmed} \subseteq Logs
BY DEF Confirmed

-----------------------------------------------------------------------------
(* How the error paths end, in one shape. *)

\* The batch is halved and the same query is sent again.
Shrink ==
    /\ pc = "fetch"
    /\ BatchSize \div 2 >= 1
    /\ BatchSize' = BatchSize \div 2
    /\ UNCHANGED <<external, pc, Checkpoint, locals, pool, store, delivered,
                   origin>>

\* RunOnce is left with the pool contents kept.
Exit(kept) ==
    /\ pc \notin {"down", "done"}
    /\ ResetLocals
    /\ \/ /\ InProcessRestart
          /\ pc' = "poll"
          /\ pool' = kept
          /\ Checkpoint' = Checkpoint
          /\ \/ BatchSize' = BatchSize
             \/ BatchSize' = 0 /\ "range" \in Faults
       \/ /\ ~InProcessRestart \/ Faults \cap {"crash", "crashInHandler", "tornSave"} # {}
          /\ Die(kept)
    /\ \/ delivered' = delivered
       \/ /\ Faults \cap {"handler", "crashInHandler"} # {}
          /\ \E done \in SUBSET ready : delivered' = delivered \cup done
    /\ pc = "handle" => Faults \cap {"handler", "crashInHandler"} # {}
    /\ \/ store' = store
       \/ store' = 0 /\ "tornSave" \in Faults
    /\ UNCHANGED <<external, origin>>

Leave == \/ Exit(pool)
         \/ pc = "add" /\ Exit(Added)
         \/ pc = "pop" /\ "popLost" \in Faults /\ Exit(pool \ Confirmed)

\* Every error path and every kill is a Shrink or a Leave.
LEMMA ErrorShape == Error \/ InvertedRange => Shrink \/ Leave
<1>1. BlockNumberError => Leave
    BY DEF BlockNumberError, Leave, Exit, Fail
<1>2. RangeError => Shrink \/ Leave
    BY RangeFaultAssumption DEF RangeError, Shrink, Leave, Exit
<1>3. RPCError \/ InvertedRange => Leave
    BY DEF RPCError, InvertedRange, Leave, Exit, Fail
<1>4. AddError => Leave
    BY DEF AddError, Leave, Exit, Fail
<1>5. PopError => Leave
    BY DEF PopError, Leave, Exit, Fail
<1>6. HandlerError => Leave
    BY DEF HandlerError, Leave, Exit, Fail
<1>7. SaveError => Leave
    BY DEF SaveError, Leave, Exit, Fail
<1>8. Crash => Leave
    BY DEF Crash, Leave, Exit
<1>9. CrashInHandler => Leave
    BY DEF CrashInHandler, Leave, Exit
<1>10. CrashInSave => Leave
    BY DEF CrashInSave, Leave, Exit
<1> QED BY <1>1, <1>2, <1>3, <1>4, <1>5, <1>6, <1>7, <1>8, <1>9, <1>10 DEF Error

-----------------------------------------------------------------------------
(* Type correctness. *)

\* A failing or dying task leaves every variable in its type.
LEMMA LeaveType == TypeOK /\ (Shrink \/ Leave) => TypeOK'
<1> SUFFICES ASSUME TypeOK, Shrink \/ Leave PROVE TypeOK'
    OBVIOUS
<1> USE NumbersAssumption DEF TypeOK, external, locals
<1>1. CASE Shrink
    BY <1>1 DEF Shrink
<1>2. ASSUME NEW kept, kept \subseteq [key : Nat, log : Logs], Exit(kept)
      PROVE  TypeOK'
    BY <1>2 DEF Exit, Die, ResetLocals, PCs
<1>3. CASE Leave
    BY <1>2, <1>3, AddedType DEF Leave
<1> QED BY <1>1, <1>3

\* The initial state is well-typed.
LEMMA TypeInit == Init => TypeOK
<1> SUFFICES ASSUME Init PROVE TypeOK
    OBVIOUS
<1>1. chain \in Seq(Bodies)
    BY NumbersAssumption DEF Init
<1> QED BY <1>1, NumbersAssumption DEF Init, TypeOK, PCs

\* Moving on to the next batch, or ending the round, keeps the types of the
\* program counter and of the two bounds of the batch.
LEMMA NextBatchType ==
    ASSUME end \in Nat, latestBlock \in Nat, NextBatch
    PROVE  pc' \in PCs /\ currentStart' \in Nat /\ end' \in Nat
<1>1. end' = 0 /\ (currentStart' = end + 1 \/ currentStart' = 0)
    BY DEF NextBatch
<1>2. pc' \in {"fetch", "poll", "done"}
    BY DEF NextBatch, RoundDone
<1> QED BY <1>1, <1>2 DEF PCs

\* Every step keeps every variable in its type.
LEMMA TypeStep == TypeOK /\ [Next]_vars => TypeOK'
<1> SUFFICES ASSUME TypeOK, [Next]_vars PROVE TypeOK'
    OBVIOUS
<1> USE NumbersAssumption DEF TypeOK, external, locals
<1>1. CASE Mine
    BY <1>1 DEF Mine
<1>2. CASE Reorg
    BY <1>2 DEF Reorg
<1>3. CASE Boot
    BY <1>3 DEF Boot, StartBlock, PCs
<1>4. CASE BeginRound
    BY <1>4 DEF BeginRound, RoundDone, PCs
<1>5. CASE EthGetLogs
    <2>1. BatchEnd \in Nat
        BY BatchEndBounds
    <2>2. Dedup(LogsIn(currentStart, BatchEnd)) \subseteq Logs
        BY <2>1, LogsInBounds DEF Dedup
    <2> QED BY <1>5, <2>1, <2>2 DEF EthGetLogs, PCs
<1>6. CASE Add
    BY <1>6, AddedType DEF Add, PCs
<1>7. CASE PopConfirmed
    <2>1. ready' \subseteq Logs /\ pool' \subseteq [key : Nat, log : Logs]
        BY <1>7, ConfirmedType DEF PopConfirmed
    <2>2. /\ UNCHANGED <<chain, reorgs, Checkpoint, BatchSize, latestBlock, batch>>
          /\ UNCHANGED <<store, delivered, origin>>
        BY <1>7 DEF PopConfirmed
    <2>3. \/ NextBatch
          \/ pc' = "handle" /\ UNCHANGED <<currentStart, end>>
        BY <1>7 DEF PopConfirmed
    <2>4. pc' \in PCs /\ currentStart' \in Nat /\ end' \in Nat
        <3>1. CASE NextBatch
            BY <3>1, NextBatchType
        <3>2. CASE pc' = "handle" /\ UNCHANGED <<currentStart, end>>
            BY <3>2 DEF PCs
        <3> QED BY <2>3, <3>1, <3>2
    <2> QED BY <2>1, <2>2, <2>4
<1>8. CASE HandleBatch
    BY <1>8 DEF HandleBatch, PCs
<1>9. CASE Save
    <2>1. pc' \in PCs /\ currentStart' \in Nat /\ end' \in Nat
        BY <1>9, NextBatchType DEF Save
    <2> QED BY <1>9, <2>1 DEF Save
<1>10. CASE Error \/ InvertedRange
    BY <1>10, ErrorShape, LeaveType
<1>11. CASE UNCHANGED vars
    BY <1>11 DEF vars
<1> QED BY <1>1, <1>2, <1>3, <1>4, <1>5, <1>6, <1>7, <1>8, <1>9, <1>10,
           <1>11 DEF Next, Chain, Task

\* Every variable keeps its type in every behaviour.
THEOREM TypeCorrect == Spec => []TypeOK
BY TypeInit, TypeStep, PTL DEF Spec

-----------------------------------------------------------------------------
(* The loop of RunOnce and the depth of what it hands over. *)

\* A step of the task, an error or the chain, in the shapes used below.
LEMMA StepCases ==
    [Next]_vars => \/ Mine \/ Reorg \/ Boot \/ BeginRound \/ EthGetLogs \/ Add
                   \/ PopConfirmed \/ HandleBatch \/ Save \/ Shrink \/ Leave
                   \/ UNCHANGED vars
BY ErrorShape DEF Next, Chain, Task

\* Init establishes the loop and key invariants.
LEMMA InitLoop == Init => LoopInv /\ KeyInv /\ SpanInv /\ HandedDeepEnough
BY NumbersAssumption DEF Init, LoopInv, KeyInv, SpanInv, HandedDeepEnough, Busy

\* The order Checkpoint <= currentStart <= end + 1 <= latestBlock + 1 is kept.
LEMMA LoopStep == TypeOK /\ LoopInv /\ [Next]_vars => LoopInv'
<1> SUFFICES ASSUME TypeOK, LoopInv, [Next]_vars PROVE LoopInv'
    OBVIOUS
<1> USE NumbersAssumption DEF TypeOK, LoopInv, Busy, external, locals, PCs
<1>1. CASE Mine \/ Reorg
    BY <1>1 DEF Mine, Reorg
<1>2. CASE Boot
    BY <1>2 DEF Boot
<1>3. CASE BeginRound
    BY <1>3 DEF BeginRound, RoundDone
<1>4. CASE EthGetLogs
    BY <1>4, BatchEndBounds DEF EthGetLogs
<1>5. CASE Add
    BY <1>5 DEF Add
<1>6. CASE PopConfirmed
    BY <1>6 DEF PopConfirmed, NextBatch, RoundDone
<1>7. CASE HandleBatch
    BY <1>7 DEF HandleBatch
<1>8. CASE Save
    BY <1>8 DEF Save, NextBatch, RoundDone
<1>9. CASE Shrink
    BY <1>9 DEF Shrink
<1>10. CASE Leave
    BY <1>10 DEF Leave, Exit, Die, ResetLocals
<1>11. CASE UNCHANGED vars
    BY <1>11 DEF vars
<1> QED BY <1>1, <1>2, <1>3, <1>4, <1>5, <1>6, <1>7, <1>8, <1>9, <1>10,
           <1>11, StepCases

\* A log never sits under a key above its own block.
LEMMA KeyStep == TypeOK /\ LoopInv /\ KeyInv /\ [Next]_vars => KeyInv'
<1> SUFFICES ASSUME TypeOK, LoopInv, KeyInv, [Next]_vars PROVE KeyInv'
    OBVIOUS
<1> USE NumbersAssumption DEF TypeOK, LoopInv, KeyInv, Busy, external, locals
<1>0. \A e \in Added : e.key <= e.log.block
    BY DEF Added
<1>1. CASE Mine \/ Reorg
    BY <1>1 DEF Mine, Reorg
<1>2. CASE Boot
    BY <1>2 DEF Boot
<1>3. CASE BeginRound
    BY <1>3 DEF BeginRound
<1>4. CASE EthGetLogs
    <2>1. \A l \in batch' : currentStart <= l.block
        BY <1>4, BatchEndBounds, LogsInBounds DEF EthGetLogs, Dedup
    <2> QED BY <1>4, <2>1 DEF EthGetLogs
<1>5. CASE Add
    BY <1>0, <1>5 DEF Add
<1>6. CASE PopConfirmed
    BY <1>6 DEF PopConfirmed
<1>7. CASE HandleBatch
    BY <1>7 DEF HandleBatch
<1>8. CASE Save
    BY <1>8 DEF Save
<1>9. CASE Shrink
    BY <1>9 DEF Shrink
<1>10. CASE Leave
    BY <1>0, <1>10 DEF Leave, Exit, Die, ResetLocals
<1>11. CASE UNCHANGED vars
    BY <1>11 DEF vars
<1> QED BY <1>1, <1>2, <1>3, <1>4, <1>5, <1>6, <1>7, <1>8, <1>9, <1>10,
           <1>11, StepCases

\* As long as BatchSize stays positive, a log is close to its key.
LEMMA SpanStep ==
    ASSUME BatchNeverEmpty
    PROVE  TypeOK /\ LoopInv /\ SpanInv /\ [Next]_vars => SpanInv'
<1> SUFFICES ASSUME TypeOK, LoopInv, SpanInv, [Next]_vars PROVE SpanInv'
    OBVIOUS
<1> USE NumbersAssumption
    DEF TypeOK, LoopInv, SpanInv, Busy, external, locals, Logs
<1>0. \A e \in Added : e.log.block <= e.key + InitBatchSize - 1
    BY DEF Added
<1>1. CASE Mine \/ Reorg
    BY <1>1 DEF Mine, Reorg
<1>2. CASE Boot
    BY <1>2 DEF Boot
<1>3. CASE BeginRound
    BY <1>3 DEF BeginRound
<1>4. CASE EthGetLogs
    <2>1. BatchEnd \in Nat /\ BatchEnd <= currentStart + InitBatchSize - 1
        BY <1>4, BatchEndBounds DEF EthGetLogs
    <2>2. \A l \in batch' : l \in Logs /\ l.block <= BatchEnd
        BY <1>4, <2>1, LogsInBounds DEF EthGetLogs, Dedup
    <2> QED BY <1>4, <2>1, <2>2 DEF EthGetLogs
<1>5. CASE Add
    BY <1>0, <1>5 DEF Add
<1>6. CASE PopConfirmed
    BY <1>6 DEF PopConfirmed
<1>7. CASE HandleBatch
    BY <1>7 DEF HandleBatch
<1>8. CASE Save
    BY <1>8 DEF Save
<1>9. CASE Shrink
    BY <1>9 DEF Shrink
<1>10. CASE Leave
    BY <1>0, <1>10, BatchNeverEmpty
       DEF Leave, Exit, Die, ResetLocals, BatchNeverEmpty
<1>11. CASE UNCHANGED vars
    BY <1>11 DEF vars
<1> QED BY <1>1, <1>2, <1>3, <1>4, <1>5, <1>6, <1>7, <1>8, <1>9, <1>10,
           <1>11, StepCases

\* Only PopConfirmed hands logs over, and it goes by their keys.
LEMMA DepthStep ==
    TypeOK /\ LoopInv /\ SpanInv /\ HandedDeepEnough /\ [Next]_vars
        => HandedDeepEnough'
<1> SUFFICES ASSUME TypeOK, LoopInv, SpanInv, HandedDeepEnough, [Next]_vars
             PROVE  HandedDeepEnough'
    OBVIOUS
<1> USE NumbersAssumption DEF TypeOK, LoopInv, HandedDeepEnough, external, locals
<1>1. CASE PopConfirmed
    <2> SUFFICES ASSUME NEW e \in Confirmed
                 PROVE  e.log.block + ConfirmBlockNum
                            <= latestBlock + InitBatchSize - 1
        BY <1>1 DEF PopConfirmed
    <2>1. e \in pool /\ e.key + ConfirmBlockNum <= latestBlock
        BY DEF Confirmed
    <2>2. e.key \in Nat /\ e.log.block \in Nat
        BY <2>1 DEF Logs
    <2>3. e.log.block <= e.key + InitBatchSize - 1
        BY <2>1 DEF SpanInv
    <2> QED BY <2>1, <2>2, <2>3
<1>2. CASE BeginRound
    BY <1>2 DEF BeginRound
<1>3. CASE Leave
    BY <1>3 DEF Leave, Exit, ResetLocals
<1>4. CASE HandleBatch
    BY <1>4 DEF HandleBatch
<1>5. CASE Mine \/ Reorg \/ Boot \/ EthGetLogs \/ Add \/ Save \/ Shrink
    BY <1>5 DEF Mine, Reorg, Boot, EthGetLogs, Add, Save, Shrink
<1>6. CASE UNCHANGED vars
    BY <1>6 DEF vars
<1> QED BY <1>1, <1>2, <1>3, <1>4, <1>5, <1>6, StepCases

\* The confirmation depth the daemon really gives, for every configuration
\* whose range errors cannot leave BatchSize = 0.
THEOREM DepthBound == ASSUME BatchNeverEmpty PROVE Spec => []HandedDeepEnough
<1>1. Init => LoopInv /\ KeyInv /\ SpanInv /\ HandedDeepEnough
    BY InitLoop
<1>2. TypeOK /\ LoopInv /\ SpanInv /\ HandedDeepEnough /\ [Next]_vars
          => (LoopInv /\ SpanInv /\ HandedDeepEnough)'
    BY LoopStep, SpanStep, DepthStep
<1> QED BY <1>1, <1>2, TypeCorrect, PTL DEF Spec

-----------------------------------------------------------------------------
(* Nothing is lost, in the configurations of Reliable. *)

\* Init establishes the three invariants below.
LEMMA InitLoss == ASSUME Reliable PROVE Init => RestartInv /\ CoverInv /\ DueInv
<1> SUFFICES ASSUME Init PROVE RestartInv /\ CoverInv /\ DueInv
    OBVIOUS
<1>1. Len(chain) = InitHeight
    BY NumbersAssumption DEF Init
<1> QED BY <1>1, Reliable, NumbersAssumption
        DEF Init, Reliable, RestartInv, CoverInv, DueInv

\* Process state and stored state stay consistent through every restart.
LEMMA RestartStep ==
    ASSUME Reliable
    PROVE  TypeOK /\ LoopInv /\ RestartInv /\ [Next]_vars => RestartInv'
<1> SUFFICES ASSUME TypeOK, LoopInv, RestartInv, [Next]_vars PROVE RestartInv'
    OBVIOUS
<1> USE NumbersAssumption, ModesAssumption
    DEF TypeOK, LoopInv, RestartInv, Busy, external, locals, PCs
<1>1. CASE Mine
    BY <1>1 DEF Mine
<1>2. CASE Reorg
    BY <1>2, Reliable DEF Reorg, Reliable
<1>3. CASE Boot
    BY <1>3 DEF Boot, StartBlock
<1>4. CASE BeginRound
    BY <1>4 DEF BeginRound, RoundDone
<1>5. CASE EthGetLogs
    BY <1>5 DEF EthGetLogs
<1>6. CASE Add
    BY <1>6 DEF Add
<1>7. CASE PopConfirmed
    BY <1>7 DEF PopConfirmed, NextBatch, RoundDone
<1>8. CASE HandleBatch
    BY <1>8 DEF HandleBatch
<1>9. CASE Save
    BY <1>9 DEF Save, NextBatch, RoundDone
<1>10. CASE Shrink
    BY <1>10 DEF Shrink
<1>11. ASSUME NEW kept, Exit(kept) PROVE RestartInv'
    BY <1>11, Reliable DEF Exit, Die, ResetLocals, Reliable
<1>12. CASE Leave
    BY <1>11, <1>12 DEF Leave
<1>13. CASE UNCHANGED vars
    BY <1>13 DEF vars
<1> QED BY <1>1, <1>2, <1>3, <1>4, <1>5, <1>6, <1>7, <1>8, <1>9, <1>10,
           <1>12, <1>13, StepCases

\* The logs kept for a block belong to it and lie within the chain.
LEMMA KeptBlock ==
    ASSUME NEW h, NEW l \in Kept(h)
    PROVE  l.block = h /\ h \in DOMAIN chain
BY DEF Kept, Dedup, LogsOf

\* Deduplicating a range keeps what deduplicating each of its blocks keeps.
LEMMA DedupByBlock ==
    ASSUME NEW from \in Nat, NEW to \in Nat, NEW h \in from .. to
    PROVE  Kept(h) \subseteq Dedup(LogsIn(from, to))
<1> SUFFICES ASSUME NEW l \in Kept(h) PROVE l \in Dedup(LogsIn(from, to))
    OBVIOUS
<1>1. h \in DOMAIN chain /\ l \in LogsOf(h) /\ l.block = h
    BY KeptBlock DEF Kept, Dedup
<1>2. l \in LogsIn(from, to)
    BY <1>1 DEF LogsIn
<1>3. ASSUME NEW m \in LogsIn(from, to), SameKey(l, m) PROVE l.idx <= m.idx
    <2>1. PICK g \in (from .. to) \cap DOMAIN chain : m \in LogsOf(g)
        BY DEF LogsIn
    <2>2. m.block = g
        BY <2>1 DEF LogsOf
    <2>3. g = h
        BY <1>1, <1>3, <2>2 DEF SameKey
    <2> QED BY <1>1, <1>3, <2>1, <2>3 DEF Kept, Dedup
<1> QED BY <1>2, <1>3 DEF Dedup

\* A new block does not change the logs of the blocks below it.
LEMMA KeptStable ==
    ASSUME chain \in Seq(Bodies), Mine, NEW h \in Int, h <= Len(chain)
    PROVE  Kept(h)' = Kept(h)
<1>1. PICK body \in Bodies : chain' = Append(chain, body)
    BY DEF Mine
<1>2. h \in DOMAIN chain' <=> h \in DOMAIN chain
    BY <1>1
<1>3. h \in DOMAIN chain => chain'[h] = chain[h]
    BY <1>1
<1> QED BY <1>2, <1>3 DEF Kept, LogsOf

\* Filing a batch forgets nothing below it.
LEMMA AddKeepsBelow ==
    ASSUME KeyInv, TypeOK, ready = {},
           NEW h \in Nat, h < currentStart, Covered(h)
    PROVE  Kept(h) \subseteq delivered \cup {e.log : e \in Added}
<1> SUFFICES ASSUME NEW l \in Kept(h), l \notin delivered
             PROVE  \E e \in Added : l = e.log
    OBVIOUS
<1>1. PICK e \in pool : l = e.log
    BY DEF Covered, Known
<1>2. e.key <= l.block /\ l.block = h /\ e.key \in Nat
    BY <1>1, KeptBlock DEF KeyInv, TypeOK
<1>3. e.key # currentStart
    BY <1>2 DEF TypeOK
<1> QED BY <1>1, <1>3 DEF Added

\* A step that moves no log and no block leaves coverage as it is.
LEMMA SameCover ==
    ASSUME chain' = chain, Known' = Known
    PROVE  \A h : Kept(h)' = Kept(h) /\ (Covered(h)' <=> Covered(h))
BY DEF Kept, LogsOf, Covered

\* Logs only move from pool to ready and from ready to delivered.
LEMMA KnownMoves ==
    ASSUME LoopInv, PopConfirmed \/ HandleBatch
    PROVE  Known' = Known
<1>1. CASE PopConfirmed
    <2>1. ready = {} /\ Confirmed \subseteq pool
        BY <1>1 DEF LoopInv, PopConfirmed, Confirmed
    <2> QED BY <1>1, <2>1 DEF PopConfirmed, Known
<1>2. CASE HandleBatch
    BY <1>2 DEF HandleBatch, Known
<1> QED BY <1>1, <1>2

\* The frontier below which nothing is missing never moves down.
LEMMA CoverStep ==
    ASSUME Reliable
    PROVE  TypeOK /\ LoopInv /\ KeyInv /\ RestartInv /\ CoverInv /\ [Next]_vars
               => CoverInv'
<1> SUFFICES ASSUME TypeOK, LoopInv, KeyInv, RestartInv, CoverInv, [Next]_vars,
                    origin' # 0
             PROVE  CoverInv'
    BY DEF CoverInv
<1> USE NumbersAssumption, ModesAssumption DEF CoverInv, CoveredUpTo, external,
        locals
<1> DEFINE Moved == chain' = chain /\ Known' = Known /\ origin' = origin
<1>1. CASE Mine
    <2>1. /\ UNCHANGED <<pc, Checkpoint, latestBlock, currentStart, end, batch,
                         store, origin>>
          /\ Known' = Known
        BY <1>1 DEF Mine, Known
    <2>2. \A h \in Int : h <= Len(chain) =>
              Kept(h)' = Kept(h) /\ (Covered(h)' <=> Covered(h))
        BY <1>1, <2>1, KeptStable DEF TypeOK, Covered
    <2>3. \A h \in origin .. Checkpoint - 1 : h <= Len(chain)
        BY DEF RestartInv, TypeOK
    <2>4. ~InProcessRestart /\ START_BLOCK = 0 =>
              \A h \in origin .. store - 1 : h <= Len(chain)
        BY <2>1 DEF RestartInv, TypeOK
    <2>5. Busy => \A h \in origin .. currentStart : h <= Len(chain)
        BY DEF RestartInv, LoopInv, TypeOK, Busy
    <2>6. pc \in {"add", "pop", "handle", "save"} =>
              \A h \in origin .. end : h <= Len(chain)
        BY DEF RestartInv, LoopInv, TypeOK
    <2>7. pc = "add" => \A h \in currentStart .. end : h <= Len(chain)
        BY DEF RestartInv, LoopInv, TypeOK
    <2>8. \A h \in origin .. latestBlock : h <= Len(chain)
        BY DEF RestartInv, TypeOK
    <2> QED BY <2>1, <2>2, <2>3, <2>4, <2>5, <2>6, <2>7, <2>8
            DEF TypeOK, Busy
<1>2. CASE Reorg
    BY <1>2, Reliable DEF Reorg, Reliable, TypeOK
<1>3. CASE Boot
    <2>1. chain' = chain /\ Known' = Known
        BY <1>3 DEF Boot, Known
    <2>2. origin' = Checkpoint' \/ ( /\ ~InProcessRestart
                                     /\ START_BLOCK = 0
                                     /\ origin # 0 /\ origin' = origin
                                     /\ Checkpoint' = store)
        BY <1>3, Reliable DEF Boot, StartBlock, RestartInv, Reliable
    <2>3. ~InProcessRestart /\ START_BLOCK = 0 => Checkpoint' = store
        BY <1>3 DEF Boot, StartBlock, RestartInv, TypeOK
    <2>4. pc' = "poll" /\ latestBlock' = 0 /\ store' = store
        BY <1>3 DEF Boot, RestartInv
    <2>5. \A h : Covered(h)' <=> Covered(h)
        BY <2>1, SameCover
    <2>6. Checkpoint' \in Nat /\ origin' \in Nat
        BY TypeStep DEF TypeOK
    <2>7. \A h \in origin' .. Checkpoint' - 1 : Covered(h)'
        <3>1. CASE origin' = Checkpoint'
            BY <2>6, <3>1, NothingBetween, Zenon
        <3>2. CASE origin' # Checkpoint'
            <4>1. origin' = origin /\ Checkpoint' = store /\ CoveredUpTo(store - 1)
                BY <2>2, <3>2
            <4> QED BY <2>5, <4>1
        <3> QED BY <3>1, <3>2
    <2> QED BY <2>3, <2>4, <2>7
<1>4. CASE BeginRound
    <2>1. Moved
        BY <1>4 DEF BeginRound, Known
    <2> QED BY <1>4, <2>1, SameCover DEF BeginRound, RoundDone, RestartInv, TypeOK
<1>5. CASE EthGetLogs
    <2>1. Moved
        BY <1>5 DEF EthGetLogs, Known
    <2>2. \A h \in currentStart .. BatchEnd :
              Kept(h) \subseteq Dedup(LogsIn(currentStart, BatchEnd))
        BY BatchEndBounds, DedupByBlock DEF TypeOK
    <2> QED BY <1>5, <2>1, <2>2, SameCover DEF EthGetLogs, TypeOK
<1>6. CASE Add
    <2>1. ready = {} /\ ready' = {} /\ origin # 0
        BY <1>6 DEF Add, LoopInv
    <2>2. \A h : Kept(h)' = Kept(h)
        BY <1>6 DEF Add, Kept, LogsOf
    <2>3. ASSUME NEW h \in Nat, h < currentStart, Covered(h)
          PROVE  Covered(h)'
        BY <1>6, <2>1, <2>2, <2>3, AddKeepsBelow DEF Add, Covered, Known
    <2>4. ASSUME NEW h \in currentStart .. end PROVE Covered(h)'
        <3>1. Kept(h) \subseteq batch
            BY <1>6, <2>1 DEF Add
        <3>2. \A l \in batch : [key |-> currentStart, log |-> l] \in pool'
            BY <1>6 DEF Add, Added
        <3>3. ASSUME NEW l \in batch PROVE \E e \in pool' : l = e.log
            <4>1. l = [key |-> currentStart, log |-> l].log
                OBVIOUS
            <4> QED BY <3>2, <4>1
        <3> QED BY <2>2, <3>1, <3>3 DEF Covered, Known
    <2>5. \A h \in origin .. end : Covered(h)'
        BY <1>6, <2>1, <2>3, <2>4 DEF Add, TypeOK
    <2>6. \A h \in origin .. currentStart - 1 : Covered(h)'
        BY <1>6, <2>1, <2>3 DEF Add, TypeOK
    <2>7. Checkpoint <= currentStart
        BY <1>6 DEF Add, LoopInv, Busy
    <2>8. ~InProcessRestart /\ START_BLOCK = 0 => store <= currentStart
        BY <1>6, <2>7 DEF Add, RestartInv
    <2> QED BY <1>6, <2>5, <2>6, <2>7, <2>8 DEF Add, TypeOK
<1>7. CASE PopConfirmed
    <2>1. Moved
        BY <1>7, KnownMoves DEF PopConfirmed
    <2> QED BY <1>7, <2>1, SameCover
            DEF PopConfirmed, NextBatch, RoundDone, LoopInv, TypeOK
<1>8. CASE HandleBatch
    <2>1. Moved
        BY <1>8, KnownMoves DEF HandleBatch
    <2> QED BY <1>8, <2>1, SameCover DEF HandleBatch, TypeOK
<1>9. CASE Save
    <2>1. Moved
        BY <1>9 DEF Save, Known
    <2> QED BY <1>9, <2>1, SameCover
            DEF Save, NextBatch, RoundDone, LoopInv, TypeOK
<1>10. CASE Shrink
    <2>1. Moved
        BY <1>10 DEF Shrink, Known
    <2> QED BY <1>10, <2>1, SameCover DEF Shrink, TypeOK
<1>11. CASE Leave
    <2>0. /\ ready = {} /\ ready' = {} /\ chain' = chain /\ origin' = origin
          /\ delivered' = delivered /\ store' = store
          /\ pc' \in {"poll", "down"} /\ latestBlock' = 0
        BY <1>11, Reliable DEF Leave, Exit, Die, ResetLocals, LoopInv, Reliable
    <2>1. \A h : Kept(h)' = Kept(h)
        BY <2>0 DEF Kept, LogsOf
    <2>2. ASSUME pool' = pool \/ (pc = "add" /\ pool' = Added),
                 NEW h \in origin .. Checkpoint - 1
          PROVE  Covered(h)'
        <3>1. Covered(h)
            BY <2>0
        <3>2. CASE pool' = pool
            BY <2>0, <2>1, <3>1, <3>2 DEF Covered, Known
        <3>3. CASE pc = "add" /\ pool' = Added
            <4>1. h \in Nat /\ h < currentStart
                BY <3>3 DEF LoopInv, Busy, TypeOK
            <4> QED BY <2>0, <2>1, <3>1, <3>3, <4>1, AddKeepsBelow
                    DEF Covered, Known
        <3> QED BY <2>2, <3>2, <3>3
    <2>3. CASE InProcessRestart
        <3>1. /\ pool' = pool \/ (pc = "add" /\ pool' = Added)
              /\ Checkpoint' = Checkpoint /\ pc' = "poll"
            BY <1>11, <2>3, Reliable DEF Leave, Exit, Reliable
        <3> QED BY <2>0, <2>2, <2>3, <3>1
    <2>4. CASE ~InProcessRestart
        <3>1. Checkpoint' = 0 /\ pc' = "down"
            BY <1>11, <2>4 DEF Leave, Exit, Die
        <3>2. CASE START_BLOCK # 0
            BY <2>0, <3>1, <3>2 DEF TypeOK
        <3>3. CASE START_BLOCK = 0
            <4>1. pool' = pool \/ (pc = "add" /\ pool' = Added)
                BY <1>11, <2>4, <3>3, Reliable DEF Leave, Exit, Die, Reliable
            <4>2. Checkpoint = store
                BY <1>11, <2>4, <3>3 DEF Leave, Exit, RestartInv
            <4> QED BY <2>0, <2>2, <3>1, <4>1, <4>2 DEF TypeOK
        <3> QED BY <3>2, <3>3
    <2> QED BY <2>3, <2>4
<1>12. CASE UNCHANGED vars
    <2>1. Moved
        BY <1>12 DEF vars, Known
    <2> QED BY <1>12, <2>1, SameCover DEF vars, TypeOK
<1> QED BY <1>1, <1>2, <1>3, <1>4, <1>5, <1>6, <1>7, <1>8, <1>9, <1>10,
           <1>11, <1>12, StepCases

\* Once popped, nothing due stays in the pool for the rest of the round.
LEMMA DueStep ==
    ASSUME Reliable
    PROVE  TypeOK /\ LoopInv /\ RestartInv /\ DueInv /\ [Next]_vars => DueInv'
<1> SUFFICES ASSUME TypeOK, LoopInv, RestartInv, DueInv, [Next]_vars
             PROVE  DueInv'
    OBVIOUS
<1> USE NumbersAssumption DEF TypeOK, DueInv, external, locals
<1>1. CASE Mine
    BY <1>1 DEF Mine
<1>2. CASE Reorg
    BY <1>2, Reliable DEF Reorg, Reliable
<1>3. CASE Boot
    BY <1>3 DEF Boot, RestartInv
<1>4. CASE BeginRound
    BY <1>4 DEF BeginRound, RoundDone, RestartInv
<1>5. CASE EthGetLogs
    BY <1>5 DEF EthGetLogs
<1>6. CASE Add
    BY <1>6 DEF Add
<1>7. CASE PopConfirmed
    <2>1. \A e \in pool' : e.key + ConfirmBlockNum > latestBlock
        BY <1>7 DEF PopConfirmed, Confirmed
    <2> QED BY <1>7, <2>1 DEF PopConfirmed
<1>8. CASE HandleBatch
    BY <1>8 DEF HandleBatch
<1>9. CASE Save
    BY <1>9 DEF Save, NextBatch
<1>10. CASE Shrink
    BY <1>10 DEF Shrink
<1>11. CASE Leave
    BY <1>11 DEF Leave, Exit, Die, ResetLocals
<1>12. CASE UNCHANGED vars
    BY <1>12 DEF vars
<1> QED BY <1>1, <1>2, <1>3, <1>4, <1>5, <1>6, <1>7, <1>8, <1>9, <1>10,
           <1>11, <1>12, StepCases

\* The inductive invariant behind the two theorems that follow.
LEMMA LossInvariant == ASSUME Reliable PROVE Spec => []LossInv
<1>1. Init => LoopInv /\ KeyInv /\ RestartInv /\ CoverInv /\ DueInv
    BY InitLoop, InitLoss
<1>2. TypeOK /\ (LoopInv /\ KeyInv /\ RestartInv /\ CoverInv /\ DueInv)
          /\ [Next]_vars
      => (LoopInv /\ KeyInv /\ RestartInv /\ CoverInv /\ DueInv)'
    BY LoopStep, KeyStep, RestartStep, CoverStep, DueStep
<1>3. LossInv <=> TypeOK /\ LoopInv /\ KeyInv /\ RestartInv /\ CoverInv /\ DueInv
    BY DEF LossInv
<1> QED BY <1>1, <1>2, <1>3, TypeCorrect, PTL DEF Spec

\* RunOnce loses no log below the checkpoint, whatever call fails and however
\* the task is restarted, in every configuration of Reliable.
THEOREM NothingSkipped == ASSUME Reliable PROVE Spec => []NoLogSkipped
<1>1. LossInv => NoLogSkipped
    BY DEF LossInv, CoverInv, CoveredUpTo, NoLogSkipped
<1> QED BY <1>1, LossInvariant, PTL

\* A completed round has delivered everything that was confirmed at its head.
THEOREM RoundComplete == ASSUME Reliable PROVE Spec => []RoundDelivers
<1>1. LossInv => RoundDelivers
    <2> SUFFICES ASSUME LossInv, pc \in {"poll", "done"}, latestBlock # 0,
                        NEW h \in origin .. latestBlock - ConfirmBlockNum,
                        NEW l \in Kept(h), l \notin delivered
                 PROVE  FALSE
        BY DEF RoundDelivers
    <2> USE NumbersAssumption DEF LossInv, TypeOK
    <2>1. origin # 0
        BY DEF RestartInv
    <2>2. h \in origin .. latestBlock /\ origin <= latestBlock
        OBVIOUS
    <2>3. Covered(h) /\ ready = {}
        BY <2>1, <2>2 DEF CoverInv, CoveredUpTo, LoopInv
    <2>4. PICK e \in pool : l = e.log
        BY <2>3 DEF Covered, Known
    <2>5. e.key \in Nat /\ e.key <= h
        BY <2>4, KeptBlock DEF KeyInv
    <2>6. e.key + ConfirmBlockNum > latestBlock
        BY <2>2, <2>4 DEF DueInv
    <2> QED BY <2>5, <2>6
<1> QED BY <1>1, LossInvariant, PTL

-----------------------------------------------------------------------------
(* The checkpoint file. *)

\* No configured start block overrides the checkpoint, no batch is empty.
Resumes == START_BLOCK = 0 /\ BatchNeverEmpty

\* A save never goes below what is stored: chain reorganisations included.
LEMMA OrderStep ==
    ASSUME Resumes
    PROVE  OrderInv /\ [Next]_vars => OrderInv' /\ (store' = 0 \/ store' >= store)
<1> SUFFICES ASSUME OrderInv, [Next]_vars
             PROVE  /\ BatchSize' >= 1
                    /\ pc' # "down" => store' <= Checkpoint'
                    /\ TypeOK' /\ LoopInv'
                    /\ store' = 0 \/ store' >= store
    BY DEF OrderInv
<1>0. TypeOK' /\ LoopInv'
    BY LoopStep, TypeStep DEF OrderInv
<1> USE NumbersAssumption, Resumes
    DEF OrderInv, Resumes, BatchNeverEmpty, external, locals, TypeOK
<1>1. CASE Boot
    BY <1>0, <1>1 DEF Boot, StartBlock
<1>2. CASE Save
    <2>1. Checkpoint <= currentStart /\ currentStart <= end
        BY <1>2 DEF Save, LoopInv, Busy
    <2>2. store' = end /\ Checkpoint' = end /\ BatchSize' = BatchSize
        BY <1>2 DEF Save
    <2>3. store <= Checkpoint
        BY <1>2 DEF Save
    <2> QED BY <1>0, <2>1, <2>2, <2>3
<1>3. CASE Mine \/ Reorg \/ BeginRound \/ EthGetLogs \/ Add \/ PopConfirmed
           \/ HandleBatch
    <2>1. UNCHANGED <<Checkpoint, BatchSize, store>>
        BY <1>3 DEF Mine, Reorg, BeginRound, EthGetLogs, Add, PopConfirmed,
                    HandleBatch
    <2>2. pc' # "down" => pc # "down"
        BY <1>3 DEF Mine, Reorg, BeginRound, EthGetLogs, Add, PopConfirmed,
                    HandleBatch
    <2> QED BY <1>0, <2>1, <2>2
<1>4. CASE Shrink
    BY <1>0, <1>4 DEF Shrink
<1>5. CASE Leave
    BY <1>0, <1>5 DEF Leave, Exit, Die
<1>6. CASE UNCHANGED vars
    BY <1>0, <1>6 DEF vars
<1> QED BY <1>1, <1>2, <1>3, <1>4, <1>5, <1>6, StepCases

\* The saved checkpoint never moves back, through failures, kills, torn writes
\* and chain reorganisations.
THEOREM CheckpointMonotone ==
    ASSUME Resumes
    PROVE  Spec => CheckpointNeverRegresses
<1>1. Init => OrderInv
    BY InitLoop, TypeInit, NumbersAssumption DEF OrderInv, Init
<1>2. OrderInv /\ [Next]_vars => OrderInv' /\ (store' = 0 \/ store' >= store)
    BY OrderStep
<1>3. OrderInv /\ [Next]_vars => OrderInv' /\ [store' = 0 \/ store' >= store]_store
    BY <1>2
<1> QED BY <1>1, <1>3, PTL DEF Spec, CheckpointNeverRegresses
=============================================================================
