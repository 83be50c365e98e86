----------------------------- MODULE TaskRunner -----------------------------
(***************************************************************************)
(* Several log-filter tasks under TaskRunner.RunAll: restarts with backoff, *)
(* the two RPC semaphores every batch takes in turn, the retries of        *)
(* RealRPC, and the shutdown that a signal starts.  What a round does with *)
(* the logs is the subject of LogTask; here a batch is one step.           *)
(*                                                                         *)
(* Every task is a goroutine.  A step of it ends where it blocks (a        *)
(* semaphore, a call, a timer) or reads the context, because the context   *)
(* may be cancelled in between.                                            *)
(***************************************************************************)
EXTENDS Integers, FiniteSets

CONSTANTS
    Tasks,
    LiveTasks,       \* tasks with LiveMode
    RealRPCTasks,    \* tasks that query through RealRPC, others answer at once
    GlobalSlots,     \* capacity of RPCSem, shared by all tasks
    LocalSlots,      \* capacity of each TaskLocalSem
    InitBatchSize,   \* LogTask.BatchSize as configured
    MaxRetries,      \* RealRPC.maxRetries
    RestartBackoff,  \* LogTask.RestartBackoff
    MaxBackoff,      \* LogTask.MaxBackoff
    MaxRestarts      \* bound: failures a task meets while it is wanted

ASSUME TasksAssumption ==
    /\ IsFiniteSet(Tasks)
    /\ LiveTasks \subseteq Tasks
    /\ RealRPCTasks \subseteq Tasks
ASSUME SizesAssumption ==
    /\ GlobalSlots \in Nat \ {0}
    /\ LocalSlots \in Nat \ {0}
    /\ InitBatchSize \in Nat \ {0}
    /\ MaxRetries \in Nat
    /\ RestartBackoff \in Nat
    /\ MaxBackoff \in Nat
    /\ MaxRestarts \in Nat

VARIABLES
    pc,                   \* where each goroutine is
    err,                  \* what TaskLoop returned, until RunAll has read it
    query,                \* the call under way: "head" or "logs"
    attempt,              \* loop variable of RealRPC's retry loop
    BatchSize,            \* LogTask.BatchSize
    backoff,              \* local of RunAll
    localUsed,            \* slots taken of each TaskLocalSem
    globalUsed,           \* slots taken of RPCSem
    metricRPCConcurrent,  \* gauge that both semaphores move
    metricTaskRunning,
    metricTaskRestart,    \* metricTaskRestartTotal per task
    cancelled,            \* the context is done
    sig,                  \* the goroutine of NewShutdownContext
    server                \* the metrics server

call   == <<query, attempt>>
slots  == <<localUsed, globalUsed, metricRPCConcurrent>>
counts == <<metricTaskRunning, metricTaskRestart>>
stop   == <<cancelled, sig, server>>
vars   == <<pc, err, query, attempt, BatchSize, backoff, localUsed, globalUsed,
            metricRPCConcurrent, metricTaskRunning, metricTaskRestart,
            cancelled, sig, server>>

Errors == {"nil", "canceled", "range", "wrapped range", "other"}
PCs == {"start", "loop", "call", "sleep", "check", "local", "global", "batch",
        "poll", "returned", "backoff", "stopped"}

Init ==
    /\ pc = [t \in Tasks |-> "start"]
    /\ err = [t \in Tasks |-> "nil"]
    /\ query = [t \in Tasks |-> "head"]
    /\ attempt = [t \in Tasks |-> 0]
    /\ BatchSize = [t \in Tasks |-> InitBatchSize]
    /\ backoff = [t \in Tasks |-> RestartBackoff]
    /\ localUsed = [t \in Tasks |-> 0]
    /\ globalUsed = 0
    /\ metricRPCConcurrent = 0
    /\ metricTaskRunning = 0
    /\ metricTaskRestart = [t \in Tasks |-> 0]
    /\ cancelled = FALSE
    /\ sig = "waiting"
    /\ server = "serving"

Goto(t, label) == pc' = [pc EXCEPT ![t] = label]

\* ctx.Err()
CtxErr == IF cancelled THEN "canceled" ELSE "nil"

\* RunOnce and with it TaskLoop return e.
Return(t, e) == Goto(t, "returned") /\ err' = [err EXCEPT ![t] = e]

\* What can come out of a call that fails: an error of the other side, as
\* long as the bound allows one, or the context's own.
Failures(t) ==
    (IF metricTaskRestart[t] < MaxRestarts THEN {"range", "other"} ELSE {})
        \cup (IF cancelled THEN {"canceled"} ELSE {})

-----------------------------------------------------------------------------
(* RPCSemaphore.  Acquire also returns when the context is done; when both
   are possible, select takes either. *)

\* Mutant: more slots than the channel has.
AcquireGlobalUnbounded(t) ==
    /\ pc[t] = "global"
    /\ globalUsed' = globalUsed + 1
    /\ metricRPCConcurrent' = metricRPCConcurrent + 1
    /\ Goto(t, "call")
    /\ query' = [query EXCEPT ![t] = "logs"]
    /\ attempt' = [attempt EXCEPT ![t] = 0]
    /\ UNCHANGED <<err, BatchSize, backoff, localUsed, counts, stop>>

AcquireLocal(t) ==
    /\ pc[t] = "local"
    /\ localUsed[t] < LocalSlots
    /\ localUsed' = [localUsed EXCEPT ![t] = @ + 1]
    /\ metricRPCConcurrent' = metricRPCConcurrent + 1
    /\ Goto(t, "global")
    /\ UNCHANGED <<err, call, BatchSize, backoff, globalUsed, counts, stop>>

\* With the global slot the query starts.
AcquireGlobal(t) ==
    /\ pc[t] = "global"
    /\ globalUsed < GlobalSlots
    /\ globalUsed' = globalUsed + 1
    /\ metricRPCConcurrent' = metricRPCConcurrent + 1
    /\ Goto(t, "call")
    /\ query' = [query EXCEPT ![t] = "logs"]
    /\ attempt' = [attempt EXCEPT ![t] = 0]
    /\ UNCHANGED <<err, BatchSize, backoff, localUsed, counts, stop>>

LocalCancelled(t) ==
    /\ pc[t] = "local"
    /\ cancelled
    /\ Return(t, "canceled")
    /\ UNCHANGED <<call, BatchSize, backoff, slots, counts, stop>>

\* Mutant: the local slot is kept.
GlobalCancelledKeeps(t) ==
    /\ pc[t] = "global"
    /\ cancelled
    /\ Return(t, "canceled")
    /\ UNCHANGED <<call, BatchSize, backoff, slots, counts, stop>>

GlobalCancelled(t) ==
    /\ pc[t] = "global"
    /\ cancelled
    /\ localUsed' = [localUsed EXCEPT ![t] = @ - 1]
    /\ metricRPCConcurrent' = metricRPCConcurrent - 1
    /\ Return(t, "canceled")
    /\ UNCHANGED <<call, BatchSize, backoff, globalUsed, counts, stop>>

\* Mutant: the global slot is kept.
ReleaseLocalOnly(t) ==
    /\ localUsed' = [localUsed EXCEPT ![t] = @ - 1]
    /\ metricRPCConcurrent' = metricRPCConcurrent - 1
    /\ UNCHANGED globalUsed

\* A query for logs gives both slots back, whatever its result; the query for
\* the head takes none.
ReleaseBoth(t) ==
    /\ localUsed' = [localUsed EXCEPT ![t] = @ - 1]
    /\ globalUsed' = globalUsed - 1
    /\ metricRPCConcurrent' = metricRPCConcurrent - 2

-----------------------------------------------------------------------------
(* RealRPC and the use RunOnce makes of its answers. *)

\* The whole message is compared.
IsRateLimitOrRangeErr(e) == e = "range"

\* RealRPC wraps the last error of its attempts.
Final(t, e) ==
    IF t \in RealRPCTasks /\ e = "range" THEN "wrapped range" ELSE e

\* The locals of a call are gone when it returns.
EndCall(t) ==
    /\ query' = [query EXCEPT ![t] = "head"]
    /\ attempt' = [attempt EXCEPT ![t] = 0]

\* The query returns error e to RunOnce, which shrinks the batch and goes on,
\* or returns.
QueryFails(t, e) ==
    /\ EndCall(t)
    /\ \/ /\ query[t] = "head"
          /\ Return(t, e)
          /\ UNCHANGED <<BatchSize, slots>>
       \/ /\ query[t] = "logs"
          /\ ReleaseBoth(t)
          /\ \/ /\ ~IsRateLimitOrRangeErr(e)
                /\ Return(t, e)
                /\ UNCHANGED BatchSize
             \/ /\ IsRateLimitOrRangeErr(e)
                /\ BatchSize' = [BatchSize EXCEPT ![t] = @ \div 2]
                /\ \/ BatchSize[t] \div 2 < 1 /\ Return(t, "other")
                   \/ /\ BatchSize[t] \div 2 >= 1
                      /\ Goto(t, "check")
                      /\ UNCHANGED err

\* One attempt fails.
CallError(t) ==
    /\ pc[t] = "call"
    /\ \E e \in Failures(t) :
          \/ /\ t \in RealRPCTasks /\ attempt[t] < MaxRetries
             /\ Goto(t, "sleep")
             /\ UNCHANGED <<err, call, BatchSize, slots>>
          \/ /\ t \notin RealRPCTasks \/ attempt[t] = MaxRetries
             /\ QueryFails(t, Final(t, e))
    /\ UNCHANGED <<backoff, counts, stop>>

\* The wait between two attempts, slots held.
Sleep(t) ==
    /\ pc[t] = "sleep"
    /\ \/ /\ cancelled
          /\ QueryFails(t, "canceled")
       \/ /\ attempt' = [attempt EXCEPT ![t] = @ + 1]
          /\ Goto(t, "call")
          /\ UNCHANGED <<err, query, BatchSize, slots>>
    /\ UNCHANGED <<backoff, counts, stop>>

\* A finished round: a live task polls again, a one-pass task returns nil.
RoundEnd(t) ==
    \/ t \in LiveTasks /\ Goto(t, "poll") /\ UNCHANGED err
    \/ t \notin LiveTasks /\ Return(t, "nil")

HeadOk(t) ==
    /\ pc[t] = "call" /\ query[t] = "head"
    /\ \/ RoundEnd(t)
       \/ Goto(t, "check") /\ UNCHANGED err
    /\ EndCall(t)
    /\ UNCHANGED <<BatchSize, backoff, slots, counts, stop>>

LogsOk(t) ==
    /\ pc[t] = "call" /\ query[t] = "logs"
    /\ ReleaseBoth(t)
    /\ Goto(t, "batch")
    /\ EndCall(t)
    /\ UNCHANGED <<err, BatchSize, backoff, counts, stop>>

-----------------------------------------------------------------------------
(* RunOnce and TaskLoop. *)

\* The select at the head of TaskLoop, then BlockNumber.
LoopTop(t) ==
    /\ pc[t] = "loop"
    /\ \/ /\ cancelled
          /\ Return(t, "canceled")
          /\ UNCHANGED call
       \/ /\ ~cancelled
          /\ Goto(t, "call")
          /\ UNCHANGED <<err, call>>
    /\ UNCHANGED <<BatchSize, backoff, slots, counts, stop>>

\* Mutant: no look at the context between two batches.
BatchTopUnchecked(t) ==
    /\ pc[t] = "check"
    /\ Goto(t, "local")
    /\ UNCHANGED <<err, call, BatchSize, backoff, slots, counts, stop>>

\* The select at the head of every batch.
BatchTop(t) ==
    /\ pc[t] = "check"
    /\ \/ cancelled /\ Return(t, "canceled")
       \/ ~cancelled /\ Goto(t, "local") /\ UNCHANGED err
    /\ UNCHANGED <<call, BatchSize, backoff, slots, counts, stop>>

\* Pool, handler and store; then the next batch or the end of the round.
Batch(t) ==
    /\ pc[t] = "batch"
    /\ \/ Goto(t, "check") /\ UNCHANGED err
       \/ RoundEnd(t)
       \/ \E e \in Failures(t) \ {"range"} : Return(t, e)
    /\ UNCHANGED <<call, BatchSize, backoff, slots, counts, stop>>

\* The wait for LivePollInterval.
Poll(t) ==
    /\ pc[t] = "poll"
    /\ \/ cancelled /\ Return(t, "canceled")
       \/ Goto(t, "loop") /\ UNCHANGED err
    /\ UNCHANGED <<call, BatchSize, backoff, slots, counts, stop>>

-----------------------------------------------------------------------------
(* RunAll. *)

Start(t) ==
    /\ pc[t] = "start"
    /\ \/ /\ cancelled
          /\ Goto(t, "stopped")
          /\ UNCHANGED metricTaskRunning
       \/ /\ ~cancelled
          /\ Goto(t, "loop")
          /\ metricTaskRunning' = metricTaskRunning + 1
    /\ UNCHANGED <<err, call, BatchSize, backoff, slots, metricTaskRestart, stop>>

\* Mutant: a task that has failed is not run again.
IsShutdownAlways(t) == TRUE

\* errors.Is(err, ctx.Err()): cancelled, or nil without cancellation.
IsShutdown(t) == err[t] = CtxErr

Decide(t) ==
    /\ pc[t] = "returned"
    /\ metricTaskRunning' = metricTaskRunning - 1
    /\ \/ /\ IsShutdown(t)
          /\ Goto(t, "stopped")
          /\ UNCHANGED metricTaskRestart
       \/ /\ ~IsShutdown(t)
          /\ Goto(t, "backoff")
          /\ metricTaskRestart' = [metricTaskRestart EXCEPT ![t] = @ + 1]
    /\ err' = [err EXCEPT ![t] = "nil"]
    /\ UNCHANGED <<call, BatchSize, backoff, slots, stop>>

\* Mutant: the backoff starts over after each restart.
DoubledFromStart(b) == RestartBackoff

Doubled(b) == IF 2 * b > MaxBackoff THEN MaxBackoff ELSE 2 * b

Backoff(t) ==
    /\ pc[t] = "backoff"
    /\ \/ /\ cancelled
          /\ Goto(t, "stopped")
          /\ UNCHANGED backoff
       \/ /\ Goto(t, "start")
          /\ backoff' = [backoff EXCEPT ![t] = Doubled(@)]
    /\ UNCHANGED <<err, call, BatchSize, slots, counts, stop>>

-----------------------------------------------------------------------------
(* Shutdown. *)

goroutines == <<pc, err, call, BatchSize, backoff, slots, counts>>

\* SIGINT or SIGTERM; or the parent context is cancelled.
Signal ==
    /\ sig = "waiting"
    /\ sig' = "received"
    /\ UNCHANGED <<goroutines, cancelled, server>>

ParentCancels ==
    /\ ~cancelled
    /\ cancelled' = TRUE
    /\ UNCHANGED <<goroutines, sig, server>>

Cancel ==
    /\ sig = "received"
    /\ sig' = "cancelling"
    /\ cancelled' = TRUE
    /\ UNCHANGED <<goroutines, server>>

CloseStopCh ==
    /\ sig = "cancelling"
    /\ sig' = "closed"
    /\ UNCHANGED <<goroutines, cancelled, server>>

\* The context ends without a signal: stopCh stays open.
ContextDone ==
    /\ sig = "waiting" /\ cancelled
    /\ sig' = "ended"
    /\ UNCHANGED <<goroutines, cancelled, server>>

\* StartMetricsServer: Shutdown once stopCh is closed; ListenAndServe may fail.
ServerShutdown ==
    /\ server = "serving" /\ sig = "closed"
    /\ server' = "stopped"
    /\ UNCHANGED <<goroutines, cancelled, sig>>

ListenFails ==
    /\ server = "serving"
    /\ server' = "failed"
    /\ UNCHANGED <<goroutines, cancelled, sig>>

\* wg.Wait() returns.
RunAllReturned == \A t \in Tasks : pc[t] = "stopped"

\* Nothing is left to do; the server goes on when no signal has come.
Finished ==
    /\ RunAllReturned
    /\ sig = "ended" \/ (sig = "closed" /\ server # "serving")
    /\ UNCHANGED vars

-----------------------------------------------------------------------------
Waiting(t) == LocalCancelled(t) \/ GlobalCancelled(t)
Task(t) == \/ Start(t) \/ LoopTop(t) \/ HeadOk(t) \/ LogsOk(t) \/ CallError(t)
           \/ Sleep(t) \/ BatchTop(t) \/ Batch(t) \/ Poll(t) \/ Decide(t)
           \/ Backoff(t) \/ AcquireLocal(t) \/ AcquireGlobal(t) \/ Waiting(t)
Shutdown == Cancel \/ CloseStopCh \/ ContextDone \/ ServerShutdown

Next ==
    \/ \E t \in Tasks : Task(t)
    \/ Shutdown
    \/ Signal \/ ParentCancels \/ ListenFails \/ Finished

Spec == Init /\ [][Next]_vars

\* Goroutines are scheduled, calls return and timers fire (a call that hangs is
\* ended by its context).  A channel serves its blocked senders in order of
\* arrival, so a slot that becomes free again and again reaches every waiter.
FairSpec ==
    /\ Spec
    /\ WF_vars(Shutdown)
    /\ \A t \in Tasks : WF_vars(Task(t)) /\ SF_vars(AcquireGlobal(t))

-----------------------------------------------------------------------------
(* Properties. *)

\* Every variable stays in its type; the gauges do not go below zero and no
\* semaphore holds more than its capacity.
TypeOK ==
    /\ pc \in [Tasks -> PCs]
    /\ err \in [Tasks -> Errors]
    /\ query \in [Tasks -> {"head", "logs"}]
    /\ attempt \in [Tasks -> 0 .. MaxRetries]
    /\ BatchSize \in [Tasks -> 0 .. InitBatchSize]
    /\ backoff \in [Tasks -> Nat]
    /\ localUsed \in [Tasks -> 0 .. LocalSlots]
    /\ globalUsed \in 0 .. GlobalSlots
    /\ metricRPCConcurrent \in Nat
    /\ metricTaskRunning \in Nat
    /\ metricTaskRestart \in [Tasks -> Nat]
    /\ cancelled \in BOOLEAN
    /\ sig \in {"waiting", "received", "cancelling", "closed", "ended"}
    /\ server \in {"serving", "failed", "stopped"}

\* Tasks with a query for logs under way, and those that hold a local slot.
InFlight == {t \in Tasks : pc[t] \in {"call", "sleep"} /\ query[t] = "logs"}
HoldingLocal == InFlight \cup {t \in Tasks : pc[t] = "global"}

InTaskLoop == {t \in Tasks : pc[t] \notin {"start", "backoff", "stopped"}}

\* Slots are held by tasks with a query under way and by nobody else: no error,
\* retry, shrunk batch or cancellation leaves one behind, and the gauge returns
\* to zero (it moves by two for every request).  The other gauge is the number
\* of tasks in TaskLoop.
SlotsAccounted ==
    /\ globalUsed = Cardinality(InFlight)
    /\ \A t \in Tasks : localUsed[t] = IF t \in HoldingLocal THEN 1 ELSE 0
    /\ metricRPCConcurrent = Cardinality(InFlight) + Cardinality(HoldingLocal)
    /\ metricTaskRunning = Cardinality(InTaskLoop)

\* Behind RealRPC no error is ever recognised as a range error, so the batch
\* keeps its configured size: what LogTask assumes of the daemon.
RealRPCNeverShrinks == \A t \in RealRPCTasks : BatchSize[t] = InitBatchSize

\* A query for logs that fails on the range or the rate limit shrinks the batch
\* ("automatic batch shrink on range/rate-limit errors", README.md).  It does not
\* hold: RealRPC wraps the error, and TaskLoop returns it.
ShrinksOnRangeError ==
    [][\A t \in InFlight :
          err'[t] \in {"range", "wrapped range"} => BatchSize'[t] < BatchSize[t]]_vars

\* A live task stops only because the context is cancelled ("blocks until ctx
\* is cancelled", RunAll), whatever errors it meets.
RunsUntilCancelled == \A t \in LiveTasks : pc[t] = "stopped" => cancelled

\* The wait before the next restart is fixed by the number of restarts in the
\* task's life: a healthy period does not reset it, and only values after the
\* first are capped.
BackoffSchedule ==
    \A t \in Tasks : pc[t] \notin {"backoff", "stopped"} =>
        LET k == metricTaskRestart[t]
        IN  backoff[t] = IF k = 0 \/ RestartBackoff * 2^k <= MaxBackoff
                         THEN RestartBackoff * 2^k ELSE MaxBackoff

\* After a signal all tasks return, RunAll returns, and the metrics server is
\* shut down, however many tasks wait for a slot, a timer or an answer.
ShutdownCompletes == (sig = "received") ~> (RunAllReturned /\ server # "serving")

\* A task that waits for a global slot gets it or gives up.
SlotGranted == \A t \in Tasks : (pc[t] = "global") ~> (pc[t] # "global")
=============================================================================
