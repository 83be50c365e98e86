------------------------- MODULE MCRedisPendingPool -------------------------
(***************************************************************************)
(* Small instances of RedisPendingPool for TLC.                            *)
(***************************************************************************)
EXTENDS RedisPendingPool, TLC

\* Daemons whose rounds end at different heads file the batch at 0 with one block
\* or with two; block 0 has log a, block 1 log b, block 2 log c.
NestedBatches == 0 :> {{"a"}, {"a", "b"}} @@ 1 :> {{"b"}} @@ 2 :> {{"c"}}
=============================================================================
