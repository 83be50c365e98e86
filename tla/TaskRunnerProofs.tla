-------------------------- MODULE TaskRunnerProofs --------------------------
(***************************************************************************)
(* Theorems about TaskRunner, for any number of tasks, slots, retries and  *)
(* failures.                                                               *)
(***************************************************************************)
EXTENDS TaskRunner, FiniteSetTheorems, TLAPS

\* The variables that are not counts of slots or tasks have their types, and
\* what is true of a goroutine by the place it has reached: between calls the
\* locals of RealRPC are gone, it sleeps only while attempts are left, and a
\* live task leaves TaskLoop with an error.
PlaceInv ==
    /\ pc \in [Tasks -> PCs]
    /\ err \in [Tasks -> Errors]
    /\ query \in [Tasks -> {"head", "logs"}]
    /\ attempt \in [Tasks -> 0 .. MaxRetries]
    /\ BatchSize \in [Tasks -> 0 .. InitBatchSize]
    /\ backoff \in [Tasks -> Nat]
    /\ metricTaskRestart \in [Tasks -> Nat]
    /\ cancelled \in BOOLEAN
    /\ sig \in {"waiting", "received", "cancelling", "closed", "ended"}
    /\ server \in {"serving", "failed", "stopped"}
    /\ \A t \in Tasks :
          /\ pc[t] \notin {"call", "sleep"} => query[t] = "head"
          /\ pc[t] = "sleep" => attempt[t] < MaxRetries
          /\ pc[t] = "returned" /\ t \in LiveTasks => err[t] # "nil"

LEMMA NilIsError == "nil" \in Errors
  BY DEF Errors

LEMMA ReturnPlace ==
    ASSUME PlaceInv, NEW t \in Tasks, NEW e \in Errors, Return(t, e)
    PROVE  /\ pc' \in [Tasks -> PCs]
           /\ err' \in [Tasks -> Errors]
           /\ pc'[t] = "returned" /\ err'[t] = e
           /\ \A u \in Tasks \ {t} : pc'[u] = pc[u] /\ err'[u] = err[u]
  <1>1. "returned" \in PCs
    BY DEF PCs
  <1>2. QED
    BY <1>1 DEF Return, Goto, PlaceInv

\* A step between calls: the goroutine goes on, or returns because the context
\* is done.
LEMMA FreePlace ==
    ASSUME PlaceInv, NEW t \in Tasks, pc[t] \notin {"call", "sleep"},
           UNCHANGED <<query, attempt, BatchSize, backoff, metricTaskRestart,
                       cancelled, sig, server>>,
           \/ Return(t, "canceled")
           \/ (Goto(t, "call") \/ Goto(t, "local") \/ Goto(t, "loop")) /\ UNCHANGED err
    PROVE  PlaceInv'
  <1>1. CASE Return(t, "canceled")
    <2>1. "canceled" \in Errors \ {"nil"}
      BY DEF Errors
    <2>2. QED
      BY <1>1, <2>1, ReturnPlace DEF PlaceInv
  <1>2. ASSUME NEW l \in {"call", "local", "loop"}, Goto(t, l), UNCHANGED err
        PROVE  PlaceInv'
    <2>1. l \in PCs
      BY DEF PCs
    <2>2. QED
      BY <1>2, <2>1 DEF Goto, PlaceInv
  <1>3. QED
    BY <1>1, <1>2

\* What QueryFails does to a goroutine, whatever the error.
LEMMA QueryFailsPlace ==
    ASSUME PlaceInv, NEW t \in Tasks, NEW e \in Errors \ {"nil"}, QueryFails(t, e)
    PROVE  /\ pc' \in [Tasks -> PCs]
           /\ err' \in [Tasks -> Errors]
           /\ query' = [query EXCEPT ![t] = "head"]
           /\ attempt' = [attempt EXCEPT ![t] = 0]
           /\ BatchSize' \in [Tasks -> 0 .. InitBatchSize]
           /\ pc'[t] \in {"returned", "check"}
           /\ pc'[t] = "returned" => err'[t] # "nil"
           /\ \A u \in Tasks \ {t} : pc'[u] = pc[u] /\ err'[u] = err[u]
  <1>1. /\ query' = [query EXCEPT ![t] = "head"]
        /\ attempt' = [attempt EXCEPT ![t] = 0]
    BY DEF QueryFails, EndCall
  <1>2. BatchSize[t] \div 2 \in 0 .. InitBatchSize
    BY SizesAssumption DEF PlaceInv
  <1>3. BatchSize' \in [Tasks -> 0 .. InitBatchSize]
    BY <1>2 DEF QueryFails, PlaceInv
  <1>4. \/ Return(t, e) \/ Return(t, "other")
        \/ Goto(t, "check") /\ UNCHANGED err
    BY DEF QueryFails
  <1>5. CASE Return(t, e) \/ Return(t, "other")
    <2>1. PICK x \in Errors \ {"nil"} : Return(t, x)
      BY <1>5 DEF Errors
    <2>2. QED
      BY <1>1, <1>3, <2>1, ReturnPlace
  <1>6. CASE Goto(t, "check") /\ UNCHANGED err
    BY <1>1, <1>3, <1>6 DEF Goto, PlaceInv, PCs
  <1>7. QED
    BY <1>4, <1>5, <1>6

LEMMA FinalIsError ==
    ASSUME NEW t \in Tasks, NEW e \in Failures(t)
    PROVE  Final(t, e) \in Errors \ {"nil"}
  BY DEF Failures, Final, Errors

LEMMA PlaceInit == Init => PlaceInv
  <1> SUFFICES ASSUME Init PROVE PlaceInv
    OBVIOUS
  <1>1. pc \in [Tasks -> PCs] /\ err \in [Tasks -> Errors]
    BY DEF Init, PCs, Errors
  <1>2. /\ query \in [Tasks -> {"head", "logs"}]
        /\ attempt \in [Tasks -> 0 .. MaxRetries]
        /\ BatchSize \in [Tasks -> 0 .. InitBatchSize]
        /\ backoff \in [Tasks -> Nat]
        /\ metricTaskRestart \in [Tasks -> Nat]
    BY SizesAssumption DEF Init
  <1>3. \A t \in Tasks : pc[t] = "start" /\ query[t] = "head"
    BY DEF Init
  <1>4. QED
    BY <1>1, <1>2, <1>3 DEF Init, PlaceInv

LEMMA PlaceStep ==
    ASSUME PlaceInv, [Next]_vars
    PROVE  PlaceInv'
  <1> USE TasksAssumption, SizesAssumption
  <1>1. ASSUME NEW t \in Tasks, Start(t) PROVE PlaceInv'
    BY <1>1 DEF Start, Goto, PlaceInv, PCs, stop, call, slots
  <1>2. ASSUME NEW t \in Tasks, LoopTop(t) PROVE PlaceInv'
    BY <1>2, FreePlace DEF LoopTop, stop, call, counts
  <1>3. ASSUME NEW t \in Tasks, HeadOk(t) PROVE PlaceInv'
    <2>1. /\ query' = [query EXCEPT ![t] = "head"]
          /\ attempt' = [attempt EXCEPT ![t] = 0]
          /\ UNCHANGED <<BatchSize, backoff, metricTaskRestart, cancelled, sig, server>>
      BY <1>3 DEF HeadOk, EndCall, stop, counts
    <2>2. CASE Goto(t, "poll") /\ UNCHANGED err
      BY <2>1, <2>2 DEF Goto, PlaceInv, PCs
    <2>3. CASE t \notin LiveTasks /\ Return(t, "nil")
      BY <2>1, <2>3, NilIsError, ReturnPlace DEF PlaceInv
    <2>4. CASE Goto(t, "check") /\ UNCHANGED err
      BY <2>1, <2>4 DEF Goto, PlaceInv, PCs
    <2>5. QED
      BY <1>3, <2>2, <2>3, <2>4 DEF HeadOk, RoundEnd
  <1>4. ASSUME NEW t \in Tasks, LogsOk(t) PROVE PlaceInv'
    BY <1>4 DEF LogsOk, EndCall, Goto, PlaceInv, PCs, stop, counts
  <1>5. ASSUME NEW t \in Tasks, CallError(t) PROVE PlaceInv'
    <2>1. CASE /\ t \in RealRPCTasks /\ attempt[t] < MaxRetries
               /\ Goto(t, "sleep")
               /\ UNCHANGED <<err, call, BatchSize, slots>>
      BY <1>5, <2>1 DEF CallError, Goto, PlaceInv, PCs, call, slots, counts, stop
    <2>2. ASSUME NEW e \in Failures(t), QueryFails(t, Final(t, e)) PROVE PlaceInv'
      <3>1. UNCHANGED <<backoff, counts, stop>>
        BY <1>5 DEF CallError
      <3>2. QED
        BY <2>2, <3>1, FinalIsError, QueryFailsPlace DEF PlaceInv, counts, stop
    <2>3. QED
      BY <1>5, <2>1, <2>2 DEF CallError
  <1>6. ASSUME NEW t \in Tasks, Sleep(t) PROVE PlaceInv'
    <2>1. UNCHANGED <<backoff, counts, stop>> /\ pc[t] = "sleep"
      BY <1>6 DEF Sleep
    <2>2. CASE QueryFails(t, "canceled")
      <3>1. "canceled" \in Errors \ {"nil"}
        BY DEF Errors
      <3>2. QED
        BY <2>1, <2>2, <3>1, QueryFailsPlace DEF PlaceInv, counts, stop
    <2>3. CASE /\ attempt' = [attempt EXCEPT ![t] = @ + 1]
               /\ Goto(t, "call")
               /\ UNCHANGED <<err, query, BatchSize, slots>>
      BY <2>1, <2>3 DEF Goto, PlaceInv, PCs, counts, stop
    <2>4. QED
      BY <1>6, <2>2, <2>3 DEF Sleep
  <1>7. ASSUME NEW t \in Tasks, BatchTop(t) PROVE PlaceInv'
    BY <1>7, FreePlace DEF BatchTop, stop, call, counts
  <1>8. ASSUME NEW t \in Tasks, Batch(t) PROVE PlaceInv'
    <2>1. /\ pc[t] = "batch"
          /\ UNCHANGED <<query, attempt, BatchSize, backoff, metricTaskRestart,
                         cancelled, sig, server>>
      BY <1>8 DEF Batch, stop, call, counts
    <2>2. CASE (Goto(t, "check") \/ Goto(t, "poll")) /\ UNCHANGED err
      BY <2>1, <2>2 DEF Goto, PlaceInv, PCs
    <2>3. CASE t \notin LiveTasks /\ Return(t, "nil")
      BY <2>1, <2>3, NilIsError, ReturnPlace DEF PlaceInv
    <2>4. ASSUME NEW e \in Failures(t) \ {"range"}, Return(t, e) PROVE PlaceInv'
      <3>1. e \in Errors \ {"nil"}
        BY <2>4 DEF Failures, Errors
      <3>2. QED
        BY <2>1, <2>4, <3>1, ReturnPlace DEF PlaceInv
    <2>5. QED
      BY <1>8, <2>2, <2>3, <2>4 DEF Batch, RoundEnd
  <1>9. ASSUME NEW t \in Tasks, Poll(t) PROVE PlaceInv'
    BY <1>9, FreePlace DEF Poll, stop, call, counts
  <1>10. ASSUME NEW t \in Tasks, Decide(t) PROVE PlaceInv'
    <2>1. /\ pc[t] = "returned"
          /\ UNCHANGED <<query, attempt, BatchSize, backoff, cancelled, sig, server>>
          /\ err' = [err EXCEPT ![t] = "nil"]
          /\ Goto(t, "stopped") \/ Goto(t, "backoff")
      BY <1>10 DEF Decide, stop, call
    <2>2. metricTaskRestart' \in [Tasks -> Nat]
      BY <1>10 DEF Decide, PlaceInv
    <2>3. "nil" \in Errors /\ "stopped" \in PCs /\ "backoff" \in PCs
      BY DEF Errors, PCs
    <2>4. QED
      BY <2>1, <2>2, <2>3 DEF Goto, PlaceInv
  <1>11. ASSUME NEW t \in Tasks, Backoff(t) PROVE PlaceInv'
    <2>1. Doubled(backoff[t]) \in Nat
      BY DEF Doubled, PlaceInv
    <2>2. QED
      BY <1>11, <2>1 DEF Backoff, Goto, PlaceInv, PCs, stop, call, slots, counts
  <1>12. ASSUME NEW t \in Tasks, AcquireLocal(t) PROVE PlaceInv'
    BY <1>12 DEF AcquireLocal, Goto, PlaceInv, PCs, stop, call, counts
  <1>13. ASSUME NEW t \in Tasks, AcquireGlobal(t) PROVE PlaceInv'
    BY <1>13 DEF AcquireGlobal, Goto, PlaceInv, PCs, stop, counts
  <1>14. ASSUME NEW t \in Tasks, Waiting(t) PROVE PlaceInv'
    BY <1>14, FreePlace DEF Waiting, LocalCancelled, GlobalCancelled, stop, call, counts
  <1>15. CASE Shutdown \/ Signal \/ ParentCancels \/ ListenFails
    BY <1>15 DEF Shutdown, Cancel, CloseStopCh, ContextDone, ServerShutdown, Signal,
                 ParentCancels, ListenFails, goroutines, call, slots, counts, PlaceInv
  <1>16. CASE UNCHANGED vars
    BY <1>16 DEF vars, PlaceInv
  <1>17. QED
    BY <1>1, <1>2, <1>3, <1>4, <1>5, <1>6, <1>7, <1>8, <1>9, <1>10, <1>11, <1>12,
       <1>13, <1>14, <1>15, <1>16 DEF Next, Task, Finished

-----------------------------------------------------------------------------
(* Slots.  A step leaves the sets of holders alone, or moves one task in or
   out of them together with the counters. *)

\* The counters and the slots they count.
CountInv ==
    /\ globalUsed \in 0 .. GlobalSlots
    /\ localUsed \in [Tasks -> 0 .. LocalSlots]
    /\ SlotsAccounted

LEMMA HoldersFinite ==
    /\ IsFiniteSet(InFlight) /\ Cardinality(InFlight) \in Nat
    /\ IsFiniteSet(HoldingLocal) /\ Cardinality(HoldingLocal) \in Nat
    /\ IsFiniteSet(InTaskLoop) /\ Cardinality(InTaskLoop) \in Nat
  <1>1. InFlight \subseteq Tasks /\ HoldingLocal \subseteq Tasks /\ InTaskLoop \subseteq Tasks
    BY DEF InFlight, HoldingLocal, InTaskLoop
  <1>2. IsFiniteSet(InFlight) /\ IsFiniteSet(HoldingLocal) /\ IsFiniteSet(InTaskLoop)
    BY <1>1, TasksAssumption, FS_Subset
  <1>3. QED
    BY <1>2, FS_CardinalityType

\* Adding a task to a set of tasks, and taking one out.
LEMMA OneMore ==
    ASSUME NEW S, IsFiniteSet(S), NEW t, t \notin S
    PROVE  Cardinality(S \cup {t}) = Cardinality(S) + 1
  BY FS_AddElement

LEMMA OneLess ==
    ASSUME NEW S, IsFiniteSet(S), NEW t \in S
    PROVE  Cardinality(S \ {t}) = Cardinality(S) - 1 /\ Cardinality(S) >= 1
  <1>1. Cardinality(S \ {t}) = Cardinality(S) - 1 /\ IsFiniteSet(S \ {t})
    BY FS_RemoveElement
  <1>2. Cardinality(S \ {t}) \in Nat /\ Cardinality(S) \in Nat
    BY <1>1, FS_CardinalityType
  <1>3. QED
    BY <1>1, <1>2

\* The end of a query: both slots are given back.
LEMMA ReleaseCounts ==
    ASSUME CountInv, NEW t \in InFlight, ReleaseBoth(t),
           InFlight' = InFlight \ {t}, HoldingLocal' = HoldingLocal \ {t},
           InTaskLoop' = InTaskLoop, UNCHANGED metricTaskRunning
    PROVE  CountInv'
  <1>1. t \in Tasks /\ t \in HoldingLocal
    BY DEF InFlight, HoldingLocal
  <1>2. /\ Cardinality(InFlight') = Cardinality(InFlight) - 1
        /\ Cardinality(InFlight) >= 1
        /\ Cardinality(HoldingLocal') = Cardinality(HoldingLocal) - 1
    BY <1>1, HoldersFinite, OneLess
  <1>3. localUsed[t] = 1
    BY <1>1 DEF CountInv, SlotsAccounted
  <1>4. globalUsed' = Cardinality(InFlight') /\ globalUsed' \in 0 .. GlobalSlots
    BY <1>2, HoldersFinite, SizesAssumption DEF ReleaseBoth, CountInv, SlotsAccounted
  <1>5. /\ localUsed' \in [Tasks -> 0 .. LocalSlots]
        /\ \A u \in Tasks : localUsed'[u] = IF u \in HoldingLocal' THEN 1 ELSE 0
    BY <1>1, <1>3, SizesAssumption DEF ReleaseBoth, CountInv, SlotsAccounted
  <1>6. metricRPCConcurrent' = Cardinality(InFlight') + Cardinality(HoldingLocal')
    BY <1>2, HoldersFinite DEF ReleaseBoth, CountInv, SlotsAccounted
  <1>7. metricTaskRunning' = Cardinality(InTaskLoop')
    BY DEF CountInv, SlotsAccounted
  <1>8. QED
    BY <1>4, <1>5, <1>6, <1>7 DEF CountInv, SlotsAccounted

\* A step outside of queries and semaphores.
LEMMA SameCounts ==
    ASSUME CountInv, UNCHANGED slots, InFlight' = InFlight,
           HoldingLocal' = HoldingLocal, InTaskLoop' = InTaskLoop,
           UNCHANGED metricTaskRunning
    PROVE  CountInv'
  BY DEF CountInv, SlotsAccounted, slots

\* Only t moves.
OnlyMoves(t) ==
    \A u \in Tasks \ {t} : pc'[u] = pc[u] /\ query'[u] = query[u]

\* A goroutine that moves from one place without slots to another.
LEMMA MoveFree ==
    ASSUME NEW t \in Tasks, OnlyMoves(t), query[t] = "head", query'[t] = "head",
           pc[t] # "global", pc'[t] # "global"
    PROVE  InFlight' = InFlight /\ HoldingLocal' = HoldingLocal
  BY DEF OnlyMoves, InFlight, HoldingLocal

\* A goroutine that ends its query for logs.
LEMMA MoveOut ==
    ASSUME NEW t \in Tasks, OnlyMoves(t), pc'[t] \in {"batch", "returned", "check"}
    PROVE  InFlight' = InFlight \ {t} /\ HoldingLocal' = HoldingLocal \ {t}
  BY DEF OnlyMoves, InFlight, HoldingLocal

\* A goroutine that moves within TaskLoop, or outside of it.
LEMMA SameLoop ==
    ASSUME NEW t \in Tasks, OnlyMoves(t),
           pc[t] \in {"start", "backoff", "stopped"}
               <=> pc'[t] \in {"start", "backoff", "stopped"}
    PROVE  InTaskLoop' = InTaskLoop
  BY DEF OnlyMoves, InTaskLoop

\* A query that fails.
LEMMA QueryFailsCounts ==
    ASSUME PlaceInv, CountInv, NEW t \in Tasks, pc[t] \in {"call", "sleep"},
           NEW e \in Errors \ {"nil"}, QueryFails(t, e), UNCHANGED metricTaskRunning
    PROVE  CountInv'
  <1>1. /\ pc'[t] \in {"returned", "check"}
        /\ query'[t] = "head"
        /\ OnlyMoves(t)
    BY QueryFailsPlace DEF PlaceInv, OnlyMoves
  <1>2. InTaskLoop' = InTaskLoop
    BY <1>1, SameLoop
  <1>3. CASE query[t] = "head"
    <2>1. UNCHANGED slots
      BY <1>3 DEF QueryFails
    <2>2. InFlight' = InFlight /\ HoldingLocal' = HoldingLocal
      BY <1>1, <1>3, MoveFree
    <2>3. QED
      BY <1>2, <2>1, <2>2, SameCounts
  <1>4. CASE query[t] = "logs"
    <2>1. ReleaseBoth(t)
      BY <1>4 DEF QueryFails
    <2>2. t \in InFlight
      BY <1>4 DEF InFlight
    <2>3. InFlight' = InFlight \ {t} /\ HoldingLocal' = HoldingLocal \ {t}
      BY <1>1, MoveOut
    <2>4. QED
      BY <1>2, <2>1, <2>2, <2>3, ReleaseCounts
  <1>5. QED
    BY <1>3, <1>4 DEF PlaceInv

LEMMA CountInit == Init => CountInv
  <1> SUFFICES ASSUME Init PROVE CountInv
    OBVIOUS
  <1>1. InFlight = {} /\ HoldingLocal = {} /\ InTaskLoop = {}
    BY DEF Init, InFlight, HoldingLocal, InTaskLoop
  <1>2. QED
    BY <1>1, FS_EmptySet, SizesAssumption DEF Init, CountInv, SlotsAccounted

LEMMA CountStep ==
    ASSUME PlaceInv, CountInv, [Next]_vars
    PROVE  CountInv'
  <1>1. ASSUME NEW t \in Tasks, Start(t) PROVE CountInv'
    <2>1. /\ OnlyMoves(t) /\ UNCHANGED slots
          /\ pc[t] = "start" /\ query[t] = "head" /\ query'[t] = "head"
          /\ \/ pc'[t] = "stopped" /\ UNCHANGED metricTaskRunning
             \/ pc'[t] = "loop" /\ metricTaskRunning' = metricTaskRunning + 1
      BY <1>1 DEF Start, Goto, PlaceInv, OnlyMoves, call
    <2>2. InFlight' = InFlight /\ HoldingLocal' = HoldingLocal
      BY <2>1, MoveFree
    <2>3. CASE pc'[t] = "stopped"
      BY <2>1, <2>2, <2>3, SameLoop, SameCounts
    <2>4. CASE pc'[t] = "loop"
      <3>1. InTaskLoop' = InTaskLoop \cup {t} /\ t \notin InTaskLoop
        BY <2>1, <2>4 DEF OnlyMoves, InTaskLoop
      <3>2. metricTaskRunning' = Cardinality(InTaskLoop')
        BY <2>1, <2>4, <3>1, OneMore, HoldersFinite DEF CountInv, SlotsAccounted
      <3>3. QED
        BY <2>1, <2>2, <3>2 DEF CountInv, SlotsAccounted, slots
    <2>5. QED
      BY <2>1, <2>3, <2>4
  <1>2. ASSUME NEW t \in Tasks,
               LoopTop(t) \/ HeadOk(t) \/ BatchTop(t) \/ Batch(t) \/ Poll(t)
                   \/ LocalCancelled(t)
        PROVE  CountInv'
    <2>1. UNCHANGED <<slots, metricTaskRunning>>
      BY <1>2 DEF LoopTop, HeadOk, BatchTop, Batch, Poll, LocalCancelled, counts
    <2>2. /\ OnlyMoves(t) /\ query[t] = "head" /\ query'[t] = "head"
          /\ pc[t] \notin {"global", "start", "backoff", "stopped"}
          /\ pc'[t] \notin {"global", "start", "backoff", "stopped"}
      <3>1. /\ pc[t] \in {"loop", "call", "check", "batch", "poll", "local"}
            /\ query[t] = "head"
        BY <1>2 DEF LoopTop, HeadOk, BatchTop, Batch, Poll, LocalCancelled, PlaceInv
      <3>2. query' = query \/ query' = [query EXCEPT ![t] = "head"]
        BY <1>2 DEF LoopTop, HeadOk, BatchTop, Batch, Poll, LocalCancelled, EndCall, call
      <3>3. \E l \in {"returned", "call", "check", "local", "poll", "loop"} : Goto(t, l)
        BY <1>2 DEF LoopTop, HeadOk, BatchTop, Batch, Poll, LocalCancelled, RoundEnd, Return
      <3>4. QED
        BY <3>1, <3>2, <3>3 DEF Goto, PlaceInv, OnlyMoves
    <2>3. QED
      BY <2>1, <2>2, MoveFree, SameLoop, SameCounts
  <1>3. ASSUME NEW t \in Tasks, LogsOk(t) PROVE CountInv'
    <2>1. /\ OnlyMoves(t) /\ t \in InFlight /\ ReleaseBoth(t)
          /\ pc[t] = "call" /\ pc'[t] = "batch" /\ UNCHANGED metricTaskRunning
      BY <1>3 DEF LogsOk, Goto, EndCall, OnlyMoves, InFlight, PlaceInv, counts
    <2>2. QED
      BY <2>1, MoveOut, SameLoop, ReleaseCounts
  <1>4. ASSUME NEW t \in Tasks, CallError(t) PROVE CountInv'
    <2>1. UNCHANGED metricTaskRunning /\ pc[t] = "call"
      BY <1>4 DEF CallError, counts
    <2>2. CASE Goto(t, "sleep") /\ UNCHANGED <<call, slots>>
      <3>1. /\ pc'[t] = "sleep" /\ query' = query
            /\ \A u \in Tasks \ {t} : pc'[u] = pc[u]
        BY <2>2 DEF Goto, PlaceInv, call
      <3>2. /\ InFlight' = InFlight /\ HoldingLocal' = HoldingLocal
            /\ InTaskLoop' = InTaskLoop
        BY <2>1, <3>1 DEF InFlight, HoldingLocal, InTaskLoop
      <3>3. QED
        BY <2>1, <2>2, <3>2, SameCounts
    <2>3. ASSUME NEW e \in Failures(t), QueryFails(t, Final(t, e)) PROVE CountInv'
      BY <2>1, <2>3, FinalIsError, QueryFailsCounts
    <2>4. QED
      BY <1>4, <2>2, <2>3 DEF CallError
  <1>5. ASSUME NEW t \in Tasks, Sleep(t) PROVE CountInv'
    <2>1. UNCHANGED metricTaskRunning /\ pc[t] = "sleep"
      BY <1>5 DEF Sleep, counts
    <2>2. CASE QueryFails(t, "canceled")
      <3>1. "canceled" \in Errors \ {"nil"}
        BY DEF Errors
      <3>2. QED
        BY <2>1, <2>2, <3>1, QueryFailsCounts
    <2>3. CASE Goto(t, "call") /\ UNCHANGED <<query, slots>>
      <3>1. /\ pc'[t] = "call" /\ query' = query
            /\ \A u \in Tasks \ {t} : pc'[u] = pc[u]
        BY <2>3 DEF Goto, PlaceInv
      <3>2. /\ InFlight' = InFlight /\ HoldingLocal' = HoldingLocal
            /\ InTaskLoop' = InTaskLoop
        BY <2>1, <3>1 DEF InFlight, HoldingLocal, InTaskLoop
      <3>3. QED
        BY <2>1, <2>3, <3>2, SameCounts
    <2>4. QED
      BY <1>5, <2>2, <2>3 DEF Sleep
  <1>6. ASSUME NEW t \in Tasks, Decide(t) PROVE CountInv'
    <2>1. /\ OnlyMoves(t) /\ UNCHANGED slots
          /\ pc[t] = "returned" /\ query[t] = "head" /\ query'[t] = "head"
          /\ pc'[t] \in {"stopped", "backoff"}
          /\ metricTaskRunning' = metricTaskRunning - 1
      BY <1>6 DEF Decide, Goto, PlaceInv, OnlyMoves, call
    <2>2. InFlight' = InFlight /\ HoldingLocal' = HoldingLocal
      BY <2>1, MoveFree
    <2>3. InTaskLoop' = InTaskLoop \ {t} /\ t \in InTaskLoop
      BY <2>1 DEF OnlyMoves, InTaskLoop
    <2>4. metricTaskRunning' = Cardinality(InTaskLoop')
      BY <2>1, <2>3, OneLess, HoldersFinite DEF CountInv, SlotsAccounted
    <2>5. QED
      BY <2>1, <2>2, <2>4 DEF CountInv, SlotsAccounted, slots
  <1>7. ASSUME NEW t \in Tasks, Backoff(t) PROVE CountInv'
    <2>1. /\ OnlyMoves(t) /\ UNCHANGED <<slots, metricTaskRunning>>
          /\ pc[t] = "backoff" /\ query[t] = "head" /\ query'[t] = "head"
          /\ pc'[t] \in {"stopped", "start"}
      BY <1>7 DEF Backoff, Goto, PlaceInv, OnlyMoves, call, counts
    <2>2. QED
      BY <2>1, MoveFree, SameLoop, SameCounts
  <1>8. ASSUME NEW t \in Tasks, AcquireLocal(t) PROVE CountInv'
    <2>1. /\ OnlyMoves(t) /\ pc[t] = "local" /\ pc'[t] = "global"
          /\ query[t] = "head" /\ query'[t] = "head"
          /\ UNCHANGED <<globalUsed, metricTaskRunning>>
      BY <1>8 DEF AcquireLocal, Goto, PlaceInv, OnlyMoves, call, counts
    <2>2. /\ InFlight' = InFlight
          /\ HoldingLocal' = HoldingLocal \cup {t} /\ t \notin HoldingLocal
      BY <2>1 DEF OnlyMoves, InFlight, HoldingLocal
    <2>3. Cardinality(HoldingLocal') = Cardinality(HoldingLocal) + 1
      BY <2>2, OneMore, HoldersFinite
    <2>4. InTaskLoop' = InTaskLoop
      BY <2>1, SameLoop
    <2>5. /\ localUsed' \in [Tasks -> 0 .. LocalSlots]
          /\ \A u \in Tasks : localUsed'[u] = IF u \in HoldingLocal' THEN 1 ELSE 0
      BY <1>8, <2>2, SizesAssumption DEF AcquireLocal, CountInv, SlotsAccounted
    <2>6. metricRPCConcurrent' = Cardinality(InFlight') + Cardinality(HoldingLocal')
      BY <1>8, <2>2, <2>3, HoldersFinite DEF AcquireLocal, CountInv, SlotsAccounted
    <2>7. QED
      BY <2>1, <2>2, <2>4, <2>5, <2>6 DEF CountInv, SlotsAccounted
  <1>9. ASSUME NEW t \in Tasks, AcquireGlobal(t) PROVE CountInv'
    <2>1. /\ OnlyMoves(t) /\ pc[t] = "global" /\ pc'[t] = "call"
          /\ query'[t] = "logs"
          /\ UNCHANGED <<localUsed, metricTaskRunning>>
      BY <1>9 DEF AcquireGlobal, Goto, PlaceInv, OnlyMoves, counts
    <2>2. /\ InFlight' = InFlight \cup {t} /\ t \notin InFlight
          /\ HoldingLocal' = HoldingLocal
      BY <2>1 DEF OnlyMoves, InFlight, HoldingLocal
    <2>3. Cardinality(InFlight') = Cardinality(InFlight) + 1
      BY <2>2, OneMore, HoldersFinite
    <2>4. InTaskLoop' = InTaskLoop
      BY <2>1, SameLoop
    <2>5. globalUsed' = Cardinality(InFlight') /\ globalUsed' \in 0 .. GlobalSlots
      BY <1>9, <2>3, SizesAssumption DEF AcquireGlobal, CountInv, SlotsAccounted
    <2>6. metricRPCConcurrent' = Cardinality(InFlight') + Cardinality(HoldingLocal')
      BY <1>9, <2>2, <2>3, HoldersFinite DEF AcquireGlobal, CountInv, SlotsAccounted
    <2>7. QED
      BY <2>1, <2>2, <2>4, <2>5, <2>6 DEF CountInv, SlotsAccounted
  <1>10. ASSUME NEW t \in Tasks, GlobalCancelled(t) PROVE CountInv'
    <2>1. /\ OnlyMoves(t) /\ pc[t] = "global" /\ pc'[t] = "returned"
          /\ UNCHANGED <<globalUsed, metricTaskRunning>>
      BY <1>10 DEF GlobalCancelled, Return, Goto, PlaceInv, OnlyMoves, call, counts
    <2>2. /\ InFlight' = InFlight
          /\ HoldingLocal' = HoldingLocal \ {t} /\ t \in HoldingLocal
      BY <2>1 DEF OnlyMoves, InFlight, HoldingLocal
    <2>3. Cardinality(HoldingLocal') = Cardinality(HoldingLocal) - 1
      BY <2>2, OneLess, HoldersFinite
    <2>4. InTaskLoop' = InTaskLoop
      BY <2>1, SameLoop
    <2>5. /\ localUsed' \in [Tasks -> 0 .. LocalSlots]
          /\ \A u \in Tasks : localUsed'[u] = IF u \in HoldingLocal' THEN 1 ELSE 0
      BY <1>10, <2>2, SizesAssumption DEF GlobalCancelled, CountInv, SlotsAccounted
    <2>6. metricRPCConcurrent' = Cardinality(InFlight') + Cardinality(HoldingLocal')
      BY <1>10, <2>2, <2>3, HoldersFinite DEF GlobalCancelled, CountInv, SlotsAccounted
    <2>7. QED
      BY <2>1, <2>2, <2>4, <2>5, <2>6 DEF CountInv, SlotsAccounted
  <1>11. CASE UNCHANGED goroutines \/ UNCHANGED vars
    <2>1. UNCHANGED <<pc, query, slots, metricTaskRunning>>
      BY <1>11 DEF goroutines, vars, call, slots, counts
    <2>2. /\ InFlight' = InFlight /\ HoldingLocal' = HoldingLocal
          /\ InTaskLoop' = InTaskLoop
      BY <2>1 DEF InFlight, HoldingLocal, InTaskLoop
    <2>3. QED
      BY <2>1, <2>2, SameCounts
  <1>12. CASE Shutdown \/ Signal \/ ParentCancels \/ ListenFails \/ Finished
    BY <1>11, <1>12 DEF Shutdown, Cancel, CloseStopCh, ContextDone, ServerShutdown,
                        Signal, ParentCancels, ListenFails, Finished
  <1>13. QED
    BY <1>1, <1>2, <1>3, <1>4, <1>5, <1>6, <1>7, <1>8, <1>9, <1>10, <1>11, <1>12
       DEF Next, Task, Waiting

-----------------------------------------------------------------------------
(* The theorems. *)

LEMMA Inductive == Spec => [](PlaceInv /\ CountInv)
  BY PlaceInit, PlaceStep, CountInit, CountStep, PTL DEF Spec

\* Every variable of RunAll's goroutines, the semaphores and the gauges keeps
\* its type: no semaphore holds more than its capacity, no gauge is negative.
THEOREM TypeCorrect == Spec => []TypeOK
  <1>1. PlaceInv /\ CountInv => TypeOK
    BY HoldersFinite DEF PlaceInv, CountInv, SlotsAccounted, TypeOK
  <1>2. QED
    BY <1>1, Inductive, PTL

\* RPCSemaphore slots are held by the tasks with a query under way and by
\* nobody else, for any number of tasks and slots.
THEOREM NoSlotLost == Spec => []SlotsAccounted
  <1>1. CountInv => SlotsAccounted
    BY DEF CountInv
  <1>2. QED
    BY <1>1, Inductive, PTL

\* Behind RealRPC the batch keeps its configured size.
THEOREM NeverShrinks == Spec => []RealRPCNeverShrinks
  <1>1. Init => RealRPCNeverShrinks
    BY TasksAssumption DEF Init, RealRPCNeverShrinks
  <1>2. ASSUME NEW t \in Tasks, NEW e, QueryFails(t, e), ~IsRateLimitOrRangeErr(e)
        PROVE  UNCHANGED BatchSize
    BY <1>2 DEF QueryFails
  <1>3. ASSUME PlaceInv, RealRPCNeverShrinks, [Next]_vars
        PROVE  RealRPCNeverShrinks'
    <2>1. ASSUME NEW t \in Tasks, CallError(t) \/ Sleep(t), t \in RealRPCTasks
          PROVE  UNCHANGED BatchSize
      <3>1. \A e \in Failures(t) : ~IsRateLimitOrRangeErr(Final(t, e))
        BY <2>1 DEF Failures, Final, IsRateLimitOrRangeErr
      <3>2. ~IsRateLimitOrRangeErr("canceled")
        BY DEF IsRateLimitOrRangeErr
      <3>3. QED
        BY <1>2, <2>1, <3>1, <3>2 DEF CallError, Sleep
    <2>2. ASSUME NEW t \in Tasks, CallError(t) \/ Sleep(t), t \notin RealRPCTasks
          PROVE  \A u \in RealRPCTasks : BatchSize'[u] = BatchSize[u]
      <3>1. \/ UNCHANGED BatchSize
            \/ BatchSize' = [BatchSize EXCEPT ![t] = @ \div 2]
        BY <2>2 DEF CallError, Sleep, QueryFails
      <3>2. QED
        BY <1>3, <2>2, <3>1, TasksAssumption DEF PlaceInv
    <2>3. CASE UNCHANGED BatchSize
      BY <1>3, <2>3 DEF RealRPCNeverShrinks
    <2>4. ASSUME NEW t \in Tasks, Task(t) PROVE RealRPCNeverShrinks'
      <3>1. CASE CallError(t) \/ Sleep(t)
        BY <1>3, <2>1, <2>2, <3>1 DEF RealRPCNeverShrinks
      <3>2. CASE ~(CallError(t) \/ Sleep(t))
        BY <2>3, <2>4, <3>2 DEF Task, Start, LoopTop, HeadOk, LogsOk, BatchTop, Batch,
           Poll, Decide, Backoff, AcquireLocal, AcquireGlobal, Waiting, LocalCancelled,
           GlobalCancelled
      <3>3. QED
        BY <3>1, <3>2
    <2>5. CASE Shutdown \/ Signal \/ ParentCancels \/ ListenFails \/ Finished
               \/ UNCHANGED vars
      BY <2>3, <2>5 DEF Shutdown, Cancel, CloseStopCh, ContextDone, ServerShutdown,
         Signal, ParentCancels, ListenFails, Finished, goroutines, vars
    <2>6. QED
      BY <1>3, <2>4, <2>5 DEF Next
  <1>4. QED
    BY <1>1, <1>3, Inductive, PTL DEF Spec

\* A live task stops only after its context is cancelled.
THEOREM StopsOnlyWhenCancelled == Spec => []RunsUntilCancelled
  <1>1. Init => RunsUntilCancelled
    BY TasksAssumption DEF Init, RunsUntilCancelled
  <1>2. ASSUME PlaceInv, RunsUntilCancelled, [Next]_vars
        PROVE  RunsUntilCancelled'
    <2>1. cancelled => cancelled'
      BY <1>2 DEF PlaceInv, Next, Task, Start, LoopTop, HeadOk, LogsOk, CallError, Sleep,
         BatchTop, Batch, Poll, Decide, Backoff, AcquireLocal, AcquireGlobal, Waiting,
         LocalCancelled, GlobalCancelled, Shutdown, Cancel, CloseStopCh, ContextDone,
         ServerShutdown, Signal, ParentCancels, ListenFails, Finished, stop, vars
    <2>2. SUFFICES ASSUME NEW u \in LiveTasks, pc'[u] = "stopped", pc[u] # "stopped"
                   PROVE  cancelled'
      BY <1>2, <2>1 DEF RunsUntilCancelled
    <2>3. CASE \E t \in Tasks : Decide(t)
      <3>1. PICK t \in Tasks : Decide(t)
        BY <2>3
      <3>2. u = t /\ pc[t] = "returned" /\ IsShutdown(t)
        BY <1>2, <2>2, <3>1, TasksAssumption DEF Decide, Goto, PlaceInv
      <3>3. err[t] # "nil"
        BY <1>2, <2>2, <3>2 DEF PlaceInv
      <3>4. QED
        BY <2>1, <3>2, <3>3 DEF IsShutdown, CtxErr
    <2>4. CASE \E t \in Tasks : Start(t) \/ Backoff(t)
      BY <1>2, <2>1, <2>2, <2>4, TasksAssumption DEF Start, Backoff, Goto, PlaceInv
    <2>5. ASSUME NEW t \in Tasks, Task(t), ~Decide(t), ~Start(t), ~Backoff(t)
          PROVE  FALSE
      <3>1. \E l \in PCs \ {"stopped"} : Goto(t, l)
        BY <2>5 DEF Task, LoopTop, HeadOk, LogsOk, CallError, Sleep, QueryFails, BatchTop,
           Batch, Poll, AcquireLocal, AcquireGlobal, Waiting, LocalCancelled,
           GlobalCancelled, RoundEnd, Return, PCs
      <3>2. QED
        BY <1>2, <2>2, <3>1, TasksAssumption DEF Goto, PlaceInv
    <2>6. UNCHANGED pc => FALSE
      BY <2>2
    <2>7. QED
      BY <1>2, <2>3, <2>4, <2>5, <2>6 DEF Next, Shutdown, Cancel, CloseStopCh, ContextDone,
         ServerShutdown, Signal, ParentCancels, ListenFails, Finished, goroutines, vars
  <1>3. QED
    BY <1>1, <1>2, Inductive, PTL DEF Spec

\* The wait after k restarts, as BackoffSchedule has it, and what the variable
\* holds on the way: a failure is counted before the wait, the wait is doubled
\* after it.
Schedule(k) == IF k = 0 \/ RestartBackoff * 2^k <= MaxBackoff
               THEN RestartBackoff * 2^k ELSE MaxBackoff
WaitInv ==
    \A t \in Tasks :
        /\ pc[t] \notin {"backoff", "stopped"} =>
              backoff[t] = Schedule(metricTaskRestart[t])
        /\ pc[t] = "backoff" =>
              /\ metricTaskRestart[t] - 1 \in Nat
              /\ backoff[t] = Schedule(metricTaskRestart[t] - 1)

EitherOf(x, y) == x
AnyOf(S) == CHOOSE x \in S : TRUE
Counting == INSTANCE FoldTheorems WITH Op <- EitherOf, Choose <- AnyOf

\* Doubling under the cap is the schedule's next value, the first one, which no
\* cap applies to, included.
LEMMA NextWait ==
    ASSUME NEW k \in Nat
    PROVE  Doubled(Schedule(k)) = Schedule(k + 1)
  <1> DEFINE p == 2^k
             q == 2^(k + 1)
             x == RestartBackoff * p
             y == RestartBackoff * q
  <1>1. p \in Nat \ {0} /\ q = 2 * p
    BY Counting!PowerOfTwo
  <1>2. k + 1 # 0
    OBVIOUS
  <1>3. /\ Schedule(k) = IF k = 0 \/ x <= MaxBackoff THEN x ELSE MaxBackoff
        /\ Schedule(k + 1) = IF y <= MaxBackoff THEN y ELSE MaxBackoff
    BY <1>2, Zenon DEF Schedule
  <1> HIDE DEF p, q
  <1>4. x \in Nat /\ y = 2 * x
    BY <1>1, SizesAssumption, Z3T(30)
  <1> HIDE DEF x, y
  <1>5. QED
    BY <1>3, <1>4, SizesAssumption DEF Doubled

LEMMA WaitInit == Init => WaitInv
  <1> SUFFICES ASSUME Init, NEW t \in Tasks PROVE backoff[t] = Schedule(0) /\ pc[t] = "start"
                                                    /\ metricTaskRestart[t] = 0
    BY DEF WaitInv
  <1>1. 2^0 = 1
    OBVIOUS
  <1>2. RestartBackoff * 2^0 = RestartBackoff
    BY <1>1, SizesAssumption
  <1>3. Schedule(0) = RestartBackoff
    BY <1>2 DEF Schedule
  <1>4. QED
    BY <1>3 DEF Init

LEMMA WaitStep ==
    ASSUME PlaceInv, WaitInv, [Next]_vars
    PROVE  WaitInv'
  <1>1. ASSUME NEW t \in Tasks, Decide(t) PROVE WaitInv'
    <2>1. UNCHANGED backoff /\ pc[t] = "returned"
      BY <1>1 DEF Decide
    <2>2. \A u \in Tasks \ {t} : /\ pc'[u] = pc[u]
                                 /\ metricTaskRestart'[u] = metricTaskRestart[u]
      BY <1>1 DEF Decide, Goto, PlaceInv
    <2>3. \/ pc'[t] = "stopped"
          \/ /\ pc'[t] = "backoff"
             /\ metricTaskRestart'[t] - 1 = metricTaskRestart[t]
             /\ metricTaskRestart[t] \in Nat
      BY <1>1 DEF Decide, Goto, PlaceInv
    <2>4. backoff[t] = Schedule(metricTaskRestart[t])
      BY <2>1 DEF WaitInv
    <2>5. QED
      BY <2>1, <2>2, <2>3, <2>4 DEF WaitInv, Schedule
  <1>2. ASSUME NEW t \in Tasks, Backoff(t) PROVE WaitInv'
    <2>1. UNCHANGED metricTaskRestart /\ pc[t] = "backoff"
      BY <1>2 DEF Backoff, counts
    <2>2. \A u \in Tasks \ {t} : pc'[u] = pc[u] /\ backoff'[u] = backoff[u]
      BY <1>2 DEF Backoff, Goto, PlaceInv
    <2>3. pc'[t] = "stopped" \/ (pc'[t] = "start" /\ backoff'[t] = Doubled(backoff[t]))
      BY <1>2 DEF Backoff, Goto, PlaceInv
    <2>4. /\ metricTaskRestart[t] - 1 \in Nat
          /\ backoff[t] = Schedule(metricTaskRestart[t] - 1)
      BY <2>1 DEF WaitInv
    <2>5. (metricTaskRestart[t] - 1) + 1 = metricTaskRestart[t]
      BY DEF PlaceInv
    <2>6. Doubled(backoff[t]) = Schedule(metricTaskRestart[t])
      BY <2>4, <2>5, NextWait
    <2>7. QED
      BY <2>1, <2>2, <2>3, <2>6 DEF WaitInv, Schedule
  <1>3. ASSUME NEW t \in Tasks, Task(t), ~Decide(t), ~Backoff(t) PROVE WaitInv'
    <2>1. UNCHANGED <<backoff, metricTaskRestart>>
      BY <1>3 DEF Task, Start, LoopTop, HeadOk, LogsOk, CallError, Sleep, BatchTop, Batch,
         Poll, AcquireLocal, AcquireGlobal, Waiting, LocalCancelled, GlobalCancelled, counts
    <2>2. pc[t] \notin {"backoff", "stopped"}
      BY <1>3 DEF Task, Start, LoopTop, HeadOk, LogsOk, CallError, Sleep, BatchTop, Batch,
         Poll, AcquireLocal, AcquireGlobal, Waiting, LocalCancelled, GlobalCancelled
    <2>3. \E l \in PCs \ {"backoff"} : Goto(t, l)
      BY <1>3 DEF Task, Start, LoopTop, HeadOk, LogsOk, CallError, Sleep, QueryFails,
         BatchTop, Batch, Poll, AcquireLocal, AcquireGlobal, Waiting, LocalCancelled,
         GlobalCancelled, RoundEnd, Return, PCs
    <2>4. pc'[t] # "backoff" /\ \A u \in Tasks \ {t} : pc'[u] = pc[u]
      BY <2>3 DEF Goto, PlaceInv
    <2>5. QED
      BY <2>1, <2>2, <2>4 DEF WaitInv, Schedule
  <1>4. CASE Shutdown \/ Signal \/ ParentCancels \/ ListenFails \/ Finished
             \/ UNCHANGED vars
    <2>1. UNCHANGED <<pc, backoff, metricTaskRestart>>
      BY <1>4 DEF Shutdown, Cancel, CloseStopCh, ContextDone, ServerShutdown, Signal,
         ParentCancels, ListenFails, Finished, goroutines, counts, vars
    <2>2. QED
      BY <2>1 DEF WaitInv, Schedule
  <1>5. QED
    BY <1>1, <1>2, <1>3, <1>4 DEF Next

\* RunAll's wait before a restart is fixed by the number of restarts so far, for
\* every first wait and every cap, a cap below the first wait included.
THEOREM WaitsBySchedule == Spec => []BackoffSchedule
  <1>1. WaitInv => BackoffSchedule
    BY DEF WaitInv, Schedule, BackoffSchedule
  <1>2. QED
    BY <1>1, WaitInit, WaitStep, Inductive, PTL DEF Spec
=============================================================================
