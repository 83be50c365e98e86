-------------------------- MODULE RedisPendingPool --------------------------
(***************************************************************************)
(* The Redis-backed pending pool, command by command.  Add is one MULTI    *)
(* transaction.  PopConfirmed reads the index, then one block key after    *)
(* the other, and only then deletes what it has read, in one transaction;  *)
(* between its commands other daemons run theirs.  main gives every daemon *)
(* the key prefix "logfilter", so all daemons on one Redis share the keys. *)
(***************************************************************************)
EXTENDS Integers, FiniteSets, Functions

CONSTANTS
    Daemons,          \* the processes that use the pool
    Heights,          \* heights logs are filed under
    Logs,
    Payloads,         \* Payloads[h]: the batches daemons may file under height h
    ConfirmBlockNum,
    MaxHead           \* bound: the chain's head

ASSUME HeightsAssumption == Heights \subseteq Nat
ASSUME PayloadsAssumption == Payloads \in [Heights -> SUBSET SUBSET Logs]
ASSUME DepthAssumption == ConfirmBlockNum \in Nat /\ MaxHead \in Nat

VARIABLES
    \* Redis
    index,    \* {prefix}:index
    blocks,   \* {prefix}:block:{height}, defined on the keys that exist
    \* PopConfirmed of each daemon
    popping,  \* between SMEMBERS and the return
    latest,   \* its argument latestBlock
    todo,     \* due heights it has still to read
    out,      \* logs it will return
    dels,     \* keys queued for DEL
    rems,     \* index members queued for SREM
    removed,  \* EXEC was applied; the call has not returned
    \* history
    filed,    \* every log some daemon has added, with its height
    handed,   \* every log some PopConfirmed has returned
    lost      \* every log removed by a PopConfirmed that did not return it

redis   == <<index, blocks>>
locals  == <<popping, latest, todo, out, dels, rems, removed>>
history == <<filed, handed, lost>>
vars    == <<redis, locals, history>>

\* Logs filed under a height.
EntriesOf(h, logs) == {[key |-> h, log |-> l] : l \in logs}

Init ==
    /\ index = {}
    /\ blocks = [h \in {} |-> {}]
    /\ popping = [d \in Daemons |-> FALSE]
    /\ latest = [d \in Daemons |-> 0]
    /\ todo = [d \in Daemons |-> {}]
    /\ out = [d \in Daemons |-> {}]
    /\ dels = [d \in Daemons |-> {}]
    /\ rems = [d \in Daemons |-> {}]
    /\ removed = [d \in Daemons |-> FALSE]
    /\ filed = {} /\ handed = {} /\ lost = {}

\* Mutant: the height is not added to the index.
AddUnindexed(d, h, logs) ==
    /\ ~popping[d]
    /\ blocks' = [k \in DOMAIN blocks \cup {h} |-> IF k = h THEN logs ELSE blocks[k]]
    /\ filed' = filed \cup EntriesOf(h, logs)
    /\ UNCHANGED <<index, locals, handed, lost>>

\* Add: SET and SADD in one transaction.  An error before it changes nothing;
\* after it, the entry is there and the daemon will add it again.
Add(d, h, logs) ==
    /\ ~popping[d]
    /\ blocks' = [k \in DOMAIN blocks \cup {h} |-> IF k = h THEN logs ELSE blocks[k]]
    /\ index' = index \cup {h}
    /\ filed' = filed \cup EntriesOf(h, logs)
    /\ UNCHANGED <<locals, handed, lost>>

\* Mutant: the block itself counts as its first confirmation.
DueEarly(h, head) == h + ConfirmBlockNum <= head + 1

Due(h, head) == h + ConfirmBlockNum <= head

\* SMEMBERS, and the test of every member.
SMembers(d, head) ==
    /\ ~popping[d]
    /\ popping' = [popping EXCEPT ![d] = TRUE]
    /\ latest' = [latest EXCEPT ![d] = head]
    /\ todo' = [todo EXCEPT ![d] = {h \in index : Due(h, head)}]
    /\ UNCHANGED <<redis, out, dels, rems, removed, history>>

\* GET of one key: its logs are taken; a key that is gone only leaves the index.
Get(d) ==
    /\ popping[d]
    /\ \E h \in todo[d] :
          /\ todo' = [todo EXCEPT ![d] = @ \ {h}]
          /\ rems' = [rems EXCEPT ![d] = @ \cup {h}]
          /\ \/ /\ h \in DOMAIN blocks
                /\ out' = [out EXCEPT ![d] = @ \cup blocks[h]]
                /\ dels' = [dels EXCEPT ![d] = @ \cup {h}]
             \/ /\ h \notin DOMAIN blocks
                /\ UNCHANGED <<out, dels>>
    /\ UNCHANGED <<redis, popping, latest, removed, history>>

\* The locals of PopConfirmed are gone.
EndPop(d) ==
    /\ popping' = [popping EXCEPT ![d] = FALSE]
    /\ latest' = [latest EXCEPT ![d] = 0]
    /\ todo' = [todo EXCEPT ![d] = {}]
    /\ out' = [out EXCEPT ![d] = {}]
    /\ dels' = [dels EXCEPT ![d] = {}]
    /\ rems' = [rems EXCEPT ![d] = {}]
    /\ removed' = [removed EXCEPT ![d] = FALSE]

\* Mutant: all that was due is removed, also what was filed since it was read.
ExecRemovesDue(d) ==
    /\ popping[d] /\ todo[d] = {} /\ out[d] # {} /\ ~removed[d]
    /\ blocks' = Restrict(blocks, {h \in DOMAIN blocks : ~Due(h, latest[d])})
    /\ index' = {h \in index : ~Due(h, latest[d])}
    /\ removed' = [removed EXCEPT ![d] = TRUE]
    /\ UNCHANGED <<popping, latest, todo, out, dels, rems, history>>

\* EXEC of the queued commands, which are sent when there is something to return.
Exec(d) ==
    /\ popping[d] /\ todo[d] = {} /\ out[d] # {} /\ ~removed[d]
    /\ blocks' = Restrict(blocks, DOMAIN blocks \ dels[d])
    /\ index' = index \ rems[d]
    /\ removed' = [removed EXCEPT ![d] = TRUE]
    /\ UNCHANGED <<popping, latest, todo, out, dels, rems, history>>

\* The return, after EXEC or with nothing in hand.
Return(d) ==
    /\ popping[d] /\ todo[d] = {} /\ (removed[d] \/ out[d] = {})
    /\ handed' = handed \cup out[d]
    /\ EndPop(d)
    /\ UNCHANGED <<redis, filed, lost>>

\* A command fails or the daemon dies.  When that happens to the reply of EXEC,
\* what was removed is in nobody's hands.
PopError(d) ==
    /\ popping[d]
    /\ lost' = IF removed[d] THEN lost \cup out[d] ELSE lost
    /\ EndPop(d)
    /\ UNCHANGED <<redis, filed, handed>>

-----------------------------------------------------------------------------
Pop(d) == Get(d) \/ Exec(d) \/ Return(d)

Next ==
    \E d \in Daemons :
        \/ \E h \in Heights : \E logs \in Payloads[h] : Add(d, h, logs)
        \/ \E head \in 0 .. MaxHead : SMembers(d, head)
        \/ Pop(d)
        \/ PopError(d)

Spec == Init /\ [][Next]_vars

\* Daemons keep running rounds, which see the highest head again and again, and
\* errors stop (a return with nothing in hand looks like one and goes on).
FairSpec ==
    /\ Spec
    /\ \A d \in Daemons : SF_vars(SMembers(d, MaxHead)) /\ WF_vars(Pop(d))
    /\ <>[][\A d \in Daemons : PopError(d) => Pop(d)]_vars

-----------------------------------------------------------------------------
(* Properties. *)

\* Every variable stays in its type.
TypeOK ==
    /\ index \subseteq Heights
    /\ DOMAIN blocks \subseteq Heights
    /\ \A h \in DOMAIN blocks : blocks[h] \subseteq Logs
    /\ popping \in [Daemons -> BOOLEAN]
    /\ latest \in [Daemons -> 0 .. MaxHead]
    /\ todo \in [Daemons -> SUBSET Heights]
    /\ out \in [Daemons -> SUBSET Logs]
    /\ dels \in [Daemons -> SUBSET Heights]
    /\ rems \in [Daemons -> SUBSET Heights]
    /\ removed \in [Daemons -> BOOLEAN]
    /\ filed \subseteq [key : Heights, log : Logs]
    /\ handed \subseteq Logs /\ lost \subseteq Logs

\* The pool's content as the interface has it.
Entries == {[key |-> h, log |-> l] : h \in index \cap DOMAIN blocks, l \in Logs}
Content == {e \in Entries : e.log \in blocks[e.key]}

\* The logs that every batch filed under a height has: those of its first block.
\* Further blocks are in the batch or not, as the batch is long or short.
Core(h) == {l \in Logs : \A batch \in Payloads[h] : l \in batch}

\* What a PopConfirmed holds between EXEC and its return.
InHand == {l \in Logs : \E d \in Daemons : removed[d] /\ l \in out[d]}

\* No log of a batch's first block disappears, however daemons that share the
\* keys read, remove and file over each other: it is still filed under its
\* height, or some PopConfirmed has it or has returned it, or the reply to an
\* EXEC was lost with it.
NothingLost ==
    \A e \in filed :
        e.log \in Core(e.key) =>
            e \in Content \/ e.log \in InHand \cup handed \cup lost

\* Every such log that the chain can confirm is handed over in the end, unless
\* the reply with it was lost.
EventuallyHanded ==
    \A h \in {k \in Heights : Due(k, MaxHead)} : \A l \in Core(h) :
        ([key |-> h, log |-> l] \in filed) ~> (l \in handed \cup lost)

\* The pool keeps the promises of PendingPool: though PopConfirmed reads and
\* deletes in separate commands, and daemons pop what others have read, nothing
\* leaves the pool before it is deep enough, and only what was filed deep enough
\* is handed over.
Atomic == INSTANCE PendingPool WITH entries <- Content

ImplementsPool == Atomic!Spec
=============================================================================
