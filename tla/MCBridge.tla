------------------------------ MODULE MCBridge ------------------------------
(***************************************************************************)
(* Small instances of Bridge for TLC.                                      *)
(***************************************************************************)
EXTENDS Bridge

AllFaults == FaultKinds

\* A call may fail; the streams stay open and the relayer keeps running.
CallsFail == {"callError"}
=============================================================================
