---------------------------- MODULE PendingPool ----------------------------
(***************************************************************************)
(* What a PendingPool promises (logfilter.go, interface PendingPool): Add   *)
(* replaces what is filed under a height; PopConfirmed takes out entries   *)
(* that are deep enough and hands over logs that were filed deep enough.   *)
(* The in-memory BlockPendingPool takes all of them and hands over exactly *)
(* those, under its mutex, and LogTask uses the pool in that form; a pool  *)
(* shared by several daemons may leave some for the next call, hand over   *)
(* what another call has taken out, and take out what it fails to return.  *)
(***************************************************************************)
EXTENDS Integers

CONSTANTS Heights, Logs, ConfirmBlockNum, MaxHead

VARIABLES
    entries,  \* pairs of a height and a log filed under it
    filed,    \* every such pair there ever was
    handed    \* every log a PopConfirmed has returned

pool == <<entries, filed, handed>>

Init == entries = {} /\ filed = {} /\ handed = {}

Add(h, logs) ==
    LET new == {[key |-> h, log |-> l] : l \in logs}
    IN  /\ entries' = {e \in entries : e.key # h} \cup new
        /\ filed' = filed \cup new
        /\ UNCHANGED handed

DeepEnough(e, latestBlock) == e.key + ConfirmBlockNum <= latestBlock

PopConfirmed(latestBlock) ==
    /\ \E taken \in SUBSET {e \in entries : DeepEnough(e, latestBlock)} :
          entries' = entries \ taken
    /\ \E given \in SUBSET {e \in filed : DeepEnough(e, latestBlock)} :
          handed' = handed \cup {e.log : e \in given}
    /\ UNCHANGED filed

Next ==
    \/ \E h \in Heights, logs \in SUBSET Logs : Add(h, logs)
    \/ \E latestBlock \in 0 .. MaxHead : PopConfirmed(latestBlock)

Spec == Init /\ [][Next]_pool
=============================================================================
