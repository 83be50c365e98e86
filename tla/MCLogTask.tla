----------------------------- MODULE MCLogTask -----------------------------
(***************************************************************************)
(* Small instances of LogTask for TLC.                                     *)
(***************************************************************************)
EXTENDS LogTask

Event(tx, idx) == [tx |-> tx, idx |-> idx]

\* A block without matching logs, and one with a single log.
QuietOrOne == {{}, {Event("a", 0)}}

\* Every block has a log.
AlwaysOne == {{Event("a", 0)}}

\* Blocks whose only log tells the two branches of a reorganisation apart.
AorB == {{Event("a", 0)}, {Event("b", 0)}}

\* One transaction that emits two matching events, and another one.
TwoEvents == {{}, {Event("a", 0), Event("a", 1), Event("b", 2)}}

\* Everything that can go wrong for the daemon main builds.
AllFaults == FaultKinds \ {"range"}

\* RPC, Redis and disk calls fail, but none between pop and delivery.
CallFaults == {"blockNumber", "rpc", "add", "pop", "save"}

\* The same under TaskRunner with the in-memory pool, which cannot fail, and a
\* querier whose range errors are recognised.
RunnerFaults == {"blockNumber", "rpc", "save", "range"}

\* The same for a daemon that may also be killed, except inside the handler.
DaemonFaults == CallFaults \cup {"crash"}

HandlerKill == {"crashInHandler"}
RangeOnly == {"range"}
NoFaults == {}
=============================================================================
