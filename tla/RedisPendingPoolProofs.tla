----------------------- MODULE RedisPendingPoolProofs -----------------------
(***************************************************************************)
(* Theorems about the Redis pool shared by any number of daemons.          *)
(***************************************************************************)
EXTENDS RedisPendingPool, TLAPS

\* The logs that are no longer the pool's to keep.
Gone == handed \cup lost \cup InHand

\* The keys in Redis.  Every member of the index has its block; a block has the
\* logs every batch has and only logs filed under it; of a block the index has
\* lost, the logs every batch has are gone.
KeyInv ==
    /\ index \subseteq DOMAIN blocks
    /\ \A h \in DOMAIN blocks :
          /\ Core(h) \subseteq blocks[h]
          /\ \A l \in blocks[h] : [key |-> h, log |-> l] \in filed
          /\ h \in index \/ Core(h) \subseteq Gone

\* A PopConfirmed under way: it holds what it has read; what it has still to
\* read or will remove is due, and is in the index or gone; what it will remove
\* without having read it is gone.
PopOf(d) ==
    /\ popping[d] \/ (rems[d] = {} /\ ~removed[d])
    /\ dels[d] \subseteq rems[d]
    /\ \A h \in dels[d] : Core(h) \subseteq out[d]
    /\ \A l \in out[d] : \E h \in dels[d] : [key |-> h, log |-> l] \in filed
    /\ \A h \in todo[d] \cup rems[d] :
          Due(h, latest[d]) /\ (h \in index \/ Core(h) \subseteq Gone)
    /\ \A h \in rems[d] \ dels[d] : Core(h) \subseteq Gone

PopInv == \A d \in Daemons : PopOf(d)

LogInv ==
    \A e \in filed : e.log \in Core(e.key) \ Gone => e.key \in index

Inv == TypeOK /\ KeyInv /\ PopInv /\ LogInv

LEMMA InvInit == Init => Inv
  <1> SUFFICES ASSUME Init PROVE Inv
    OBVIOUS
  <1>1. TypeOK
    BY DepthAssumption DEF Init, TypeOK
  <1>2. KeyInv /\ PopInv /\ LogInv
    BY DEF Init, KeyInv, PopInv, PopOf, LogInv
  <1>3. QED
    BY <1>1, <1>2 DEF Inv

LEMMA AddInv ==
    ASSUME Inv, NEW d \in Daemons, NEW h \in Heights,
           NEW logs \in Payloads[h], Add(d, h, logs)
    PROVE  Inv'
  <1>1. logs \subseteq Logs /\ Core(h) \subseteq logs
    BY PayloadsAssumption DEF Core
  <1>2. /\ DOMAIN blocks' = DOMAIN blocks \cup {h}
        /\ \A k \in DOMAIN blocks' : blocks'[k] = IF k = h THEN logs ELSE blocks[k]
        /\ index' = index \cup {h} /\ filed' = filed \cup EntriesOf(h, logs)
        /\ UNCHANGED <<popping, latest, todo, out, dels, rems, removed, handed, lost>>
    BY DEF Add, locals
  <1>3. /\ EntriesOf(h, logs) \subseteq [key : Heights, log : Logs]
        /\ \A l \in logs : [key |-> h, log |-> l] \in filed'
        /\ \A e \in EntriesOf(h, logs) : e.key = h
    BY <1>1, <1>2 DEF EntriesOf
  <1>4. Gone' = Gone
    BY <1>2 DEF Gone, InHand
  <1>5. TypeOK'
    BY <1>1, <1>2, <1>3 DEF Inv, TypeOK
  <1>6. KeyInv'
    BY <1>1, <1>2, <1>3, <1>4 DEF Inv, KeyInv
  <1>7. PopInv'
    BY <1>2, <1>4 DEF Inv, PopInv, PopOf
  <1>8. LogInv'
    <2>1. ASSUME NEW e \in filed', e.log \in Core(e.key) \ Gone PROVE e.key \in index'
      <3>1. CASE e \in filed
        BY <1>2, <2>1, <3>1 DEF Inv, LogInv
      <3>2. CASE e \in EntriesOf(h, logs)
        BY <1>2, <1>3, <3>2
      <3>3. QED
        BY <1>2, <2>1, <3>1, <3>2
    <2>2. QED
      BY <1>4, <2>1 DEF LogInv
  <1>9. QED
    BY <1>5, <1>6, <1>7, <1>8 DEF Inv

LEMMA SMembersInv ==
    ASSUME Inv, NEW d \in Daemons, NEW head \in 0 .. MaxHead, SMembers(d, head)
    PROVE  Inv'
  <1>1. UNCHANGED <<index, blocks, out, dels, rems, removed, filed, handed, lost>>
    BY DEF SMembers, redis, history
  <1>2. Gone' = Gone
    BY <1>1 DEF Gone, InHand
  <1>3. KeyInv' /\ LogInv'
    BY <1>1, <1>2 DEF Inv, KeyInv, LogInv
  <1>4. /\ popping' \in [Daemons -> BOOLEAN] /\ latest' \in [Daemons -> 0 .. MaxHead]
        /\ todo' \in [Daemons -> SUBSET Heights]
        /\ popping'[d] /\ rems[d] = {}
        /\ latest'[d] = head /\ todo'[d] = {h \in index : Due(h, head)}
        /\ \A c \in Daemons \ {d} : /\ popping'[c] = popping[c] /\ latest'[c] = latest[c]
                                   /\ todo'[c] = todo[c]
    BY DEF SMembers, Inv, TypeOK, PopInv, PopOf
  <1>5. TypeOK'
    BY <1>1, <1>4 DEF Inv, TypeOK
  <1>6. PopInv'
    BY <1>1, <1>2, <1>4 DEF Inv, PopInv, PopOf
  <1>7. QED
    BY <1>3, <1>5, <1>6 DEF Inv

LEMMA GetInv ==
    ASSUME Inv, NEW d \in Daemons, Get(d)
    PROVE  Inv'
  <1>1. popping[d]
        /\ UNCHANGED <<index, blocks, popping, latest, removed, filed, handed, lost>>
    BY DEF Get, redis, history
  <1>2. PICK h \in todo[d] :
          /\ todo' = [todo EXCEPT ![d] = @ \ {h}]
          /\ rems' = [rems EXCEPT ![d] = @ \cup {h}]
          /\ \/ /\ h \in DOMAIN blocks
                /\ out' = [out EXCEPT ![d] = @ \cup blocks[h]]
                /\ dels' = [dels EXCEPT ![d] = @ \cup {h}]
             \/ /\ h \notin DOMAIN blocks
                /\ UNCHANGED <<out, dels>>
    BY DEF Get
  <1>3. h \in Heights /\ Due(h, latest[d]) /\ (h \in index \/ Core(h) \subseteq Gone)
    BY <1>2 DEF Inv, TypeOK, PopInv, PopOf
  <1>4. /\ todo' \in [Daemons -> SUBSET Heights] /\ rems' \in [Daemons -> SUBSET Heights]
        /\ todo'[d] = todo[d] \ {h} /\ rems'[d] = rems[d] \cup {h}
        /\ \A c \in Daemons \ {d} : todo'[c] = todo[c] /\ rems'[c] = rems[c]
    BY <1>2, <1>3 DEF Inv, TypeOK
  <1>5. CASE h \in DOMAIN blocks
    <2>1. blocks[h] \subseteq Logs /\ Core(h) \subseteq blocks[h]
          /\ \A l \in blocks[h] : [key |-> h, log |-> l] \in filed
      BY <1>5 DEF Inv, TypeOK, KeyInv
    <2>2. /\ out' \in [Daemons -> SUBSET Logs] /\ dels' \in [Daemons -> SUBSET Heights]
          /\ out'[d] = out[d] \cup blocks[h] /\ dels'[d] = dels[d] \cup {h}
          /\ \A c \in Daemons \ {d} : out'[c] = out[c] /\ dels'[c] = dels[c]
      BY <1>2, <1>3, <1>5, <2>1 DEF Inv, TypeOK
    <2>3. Gone \subseteq Gone'
      BY <1>1, <2>2 DEF Gone, InHand
    <2>4. TypeOK'
      BY <1>1, <1>4, <2>2 DEF Inv, TypeOK
    <2>5. KeyInv' /\ LogInv'
      BY <1>1, <2>3 DEF Inv, KeyInv, LogInv
    <2>6. \A c \in Daemons \ {d} : PopOf(c)'
      BY <1>1, <1>4, <2>2, <2>3 DEF Inv, PopInv, PopOf
    <2>7. PopOf(d)'
      BY <1>1, <1>3, <1>4, <2>1, <2>2, <2>3 DEF Inv, PopInv, PopOf
    <2>8. QED
      BY <2>4, <2>5, <2>6, <2>7 DEF Inv, PopInv, PopOf
  <1>6. CASE h \notin DOMAIN blocks
    <2>1. Core(h) \subseteq Gone
      BY <1>3, <1>6 DEF Inv, KeyInv
    <2>2. UNCHANGED <<out, dels>>
      BY <1>2, <1>6
    <2>3. Gone' = Gone
      BY <1>1, <2>2 DEF Gone, InHand
    <2>4. TypeOK'
      BY <1>1, <1>4, <2>2 DEF Inv, TypeOK
    <2>5. KeyInv' /\ LogInv'
      BY <1>1, <2>3 DEF Inv, KeyInv, LogInv
    <2>6. PopInv'
      BY <1>1, <1>3, <1>4, <2>1, <2>2, <2>3 DEF Inv, PopInv, PopOf
    <2>7. QED
      BY <2>4, <2>5, <2>6 DEF Inv
  <1>7. QED
    BY <1>5, <1>6

LEMMA ExecInv ==
    ASSUME Inv, NEW d \in Daemons, Exec(d)
    PROVE  Inv'
  <1>1. /\ DOMAIN blocks' = DOMAIN blocks \ dels[d]
        /\ \A h \in DOMAIN blocks' : blocks'[h] = blocks[h]
        /\ index' = index \ rems[d]
        /\ popping[d]
        /\ UNCHANGED <<popping, latest, todo, out, dels, rems, filed, handed, lost>>
    BY DEF Exec, Restrict, history
  <1>2. /\ removed' \in [Daemons -> BOOLEAN] /\ removed'[d]
        /\ \A c \in Daemons \ {d} : removed'[c] = removed[c]
    BY DEF Exec, Inv, TypeOK
  <1>3. Gone \subseteq Gone' /\ out[d] \subseteq Gone'
    BY <1>1, <1>2 DEF Gone, InHand, Inv, TypeOK
  <1>4. \A h \in rems[d] : Core(h) \subseteq Gone'
    BY <1>3 DEF Inv, PopInv, PopOf
  <1>5. TypeOK'
    BY <1>1, <1>2 DEF Inv, TypeOK
  <1>6. KeyInv'
    BY <1>1, <1>3, <1>4 DEF Inv, KeyInv, PopInv, PopOf
  <1>7. PopInv'
    BY <1>1, <1>2, <1>3, <1>4 DEF Inv, PopInv, PopOf
  <1>8. LogInv'
    BY <1>1, <1>3, <1>4 DEF Inv, LogInv
  <1>9. QED
    BY <1>5, <1>6, <1>7, <1>8 DEF Inv

\* What a PopConfirmed held after EXEC is handed over or lost when it ends.
LEMMA EndInv ==
    ASSUME Inv, NEW d \in Daemons, Return(d) \/ PopError(d)
    PROVE  Inv'
  <1>1. /\ EndPop(d) /\ UNCHANGED <<index, blocks, filed>>
        /\ handed \subseteq handed' /\ handed' \subseteq handed \cup out[d]
        /\ lost \subseteq lost' /\ lost' \subseteq lost \cup out[d]
        /\ removed[d] => out[d] \subseteq handed' \cup lost'
    BY DEF Return, PopError, redis
  <1>2. /\ popping' \in [Daemons -> BOOLEAN] /\ latest' \in [Daemons -> 0 .. MaxHead]
        /\ todo' \in [Daemons -> SUBSET Heights] /\ out' \in [Daemons -> SUBSET Logs]
        /\ dels' \in [Daemons -> SUBSET Heights] /\ rems' \in [Daemons -> SUBSET Heights]
        /\ removed' \in [Daemons -> BOOLEAN]
    BY <1>1, DepthAssumption DEF EndPop, Inv, TypeOK
  <1>3. todo'[d] = {} /\ out'[d] = {} /\ dels'[d] = {} /\ rems'[d] = {} /\ ~removed'[d]
    BY <1>1 DEF EndPop, Inv, TypeOK
  <1>4. \A c \in Daemons \ {d} :
          /\ popping'[c] = popping[c] /\ latest'[c] = latest[c]
          /\ todo'[c] = todo[c] /\ out'[c] = out[c]
          /\ dels'[c] = dels[c] /\ rems'[c] = rems[c] /\ removed'[c] = removed[c]
    BY <1>1 DEF EndPop, Inv, TypeOK
  <1>5. Gone \subseteq Gone'
    BY <1>1, <1>4 DEF Gone, InHand
  <1>6. TypeOK'
    BY <1>1, <1>2 DEF Inv, TypeOK
  <1>7. KeyInv' /\ LogInv'
    BY <1>1, <1>5 DEF Inv, KeyInv, LogInv
  <1>8. PopInv'
    BY <1>1, <1>3, <1>4, <1>5 DEF Inv, PopInv, PopOf
  <1>9. QED
    BY <1>6, <1>7, <1>8 DEF Inv

LEMMA InvStep ==
    ASSUME Inv, [Next]_vars
    PROVE  Inv'
  <1>1. CASE UNCHANGED vars
    <2>1. UNCHANGED <<index, blocks, popping, latest, todo, out, dels, rems, removed,
                      filed, handed, lost>>
      BY <1>1 DEF vars, redis, locals, history
    <2>2. Gone' = Gone
      BY <2>1 DEF Gone, InHand
    <2>3. TypeOK'
      BY <2>1 DEF Inv, TypeOK
    <2>4. KeyInv' /\ PopInv' /\ LogInv'
      BY <2>1, <2>2 DEF Inv, KeyInv, PopInv, PopOf, LogInv
    <2>5. QED
      BY <2>3, <2>4 DEF Inv
  <1>2. QED
    BY <1>1, AddInv, SMembersInv, GetInv, ExecInv, EndInv DEF Next, Pop

LEMMA Inductive == Spec => []Inv
  BY InvInit, InvStep, PTL DEF Spec

-----------------------------------------------------------------------------
(* The theorems. *)

\* The entries, member by member.
LEMMA InContent ==
    ASSUME NEW e
    PROVE  e \in Content <=> \E h \in index \cap DOMAIN blocks, l \in Logs :
                               e = [key |-> h, log |-> l] /\ l \in blocks[h]
  BY DEF Content, Entries

\* No log of a batch's first block disappears from the RedisPendingPool of
\* daemons that share the prefix, whatever batches they file over each other and
\* wherever their pops fail, unless the reply to an EXEC was lost with it.
THEOREM NoneLost == Spec => []NothingLost
  <1>1. ASSUME Inv, NEW e \in filed, e.log \in Core(e.key) \ Gone PROVE e \in Content
    <2>1. e = [key |-> e.key, log |-> e.log] /\ e.log \in Logs
      BY <1>1 DEF Inv, TypeOK
    <2>2. e.key \in index \cap DOMAIN blocks /\ e.log \in blocks[e.key]
      BY <1>1 DEF Inv, LogInv, KeyInv
    <2>3. QED
      BY <2>1, <2>2, InContent
  <1>2. Inv => NothingLost
    BY <1>1 DEF NothingLost, Gone
  <1>3. QED
    BY <1>2, Inductive, PTL

LEMMA AtomicAdd ==
    ASSUME Inv, NEW d \in Daemons, NEW h \in Heights,
           NEW logs \in Payloads[h], Add(d, h, logs)
    PROVE  Atomic!Add(h, logs) /\ logs \in SUBSET Logs
  <1> DEFINE new == {e \in Content : e.key # h} \cup {[key |-> h, log |-> l] : l \in logs}
  <1>1. logs \subseteq Logs
    BY PayloadsAssumption
  <1>2. /\ DOMAIN blocks' = DOMAIN blocks \cup {h} /\ blocks'[h] = logs
        /\ \A k \in DOMAIN blocks \ {h} : blocks'[k] = blocks[k]
        /\ index' = index \cup {h} /\ handed' = handed
        /\ filed' = filed \cup {[key |-> h, log |-> l] : l \in logs}
    BY DEF Add, EntriesOf
  <1>3. ASSUME NEW e \in Content' PROVE e \in new
    <2>1. PICK k \in (index \cap DOMAIN blocks)', l \in Logs :
              e = [key |-> k, log |-> l] /\ l \in blocks'[k]
      BY <1>3 DEF Content, Entries
    <2>2. CASE k = h
      BY <1>2, <2>1, <2>2
    <2>3. CASE k # h
      <3>1. k \in index \cap DOMAIN blocks /\ l \in blocks[k]
        BY <1>2, <2>1, <2>3
      <3>2. e \in Content
        BY <2>1, <3>1, InContent
      <3>3. QED
        BY <2>1, <2>3, <3>2
    <2>4. QED
      BY <2>2, <2>3
  <1>4. ASSUME NEW e \in new PROVE e \in Content'
    <2>1. CASE e \in Content /\ e.key # h
      <3>1. PICK k \in index \cap DOMAIN blocks, l \in Logs :
                e = [key |-> k, log |-> l] /\ l \in blocks[k]
        BY <2>1, InContent
      <3>2. k \in index' /\ k \in DOMAIN blocks' /\ l \in blocks'[k]
        BY <1>2, <2>1, <3>1
      <3>3. QED
        BY <3>1, <3>2 DEF Content, Entries
    <2>2. CASE \E l \in logs : e = [key |-> h, log |-> l]
      BY <1>1, <1>2, <2>2 DEF Content, Entries
    <2>3. QED
      BY <1>4, <2>1, <2>2
  <1>5. Content' = new
    BY <1>3, <1>4
  <1>6. QED
    BY <1>1, <1>2, <1>5 DEF Atomic!Add

\* EXEC takes out what is due.
LEMMA AtomicExec ==
    ASSUME Inv, NEW d \in Daemons, Exec(d)
    PROVE  latest[d] \in 0 .. MaxHead /\ Atomic!PopConfirmed(latest[d])
  <1> DEFINE taken == {e \in Content : e.key \in rems[d]}
  <1>1. /\ DOMAIN blocks' = DOMAIN blocks \ dels[d]
        /\ \A h \in DOMAIN blocks' : blocks'[h] = blocks[h]
        /\ index' = index \ rems[d]
        /\ UNCHANGED <<filed, handed>>
    BY DEF Exec, Restrict, history
  <1>2. latest[d] \in 0 .. MaxHead /\ dels[d] \subseteq rems[d]
    BY DEF Inv, TypeOK, PopInv, PopOf
  <1>3. Content' = Content \ taken
    <2>1. ASSUME NEW e \in Content' PROVE e \in Content \ taken
      <3>1. PICK k \in (index \cap DOMAIN blocks)', l \in Logs :
                e = [key |-> k, log |-> l] /\ l \in blocks'[k]
        BY <2>1 DEF Content, Entries
      <3>2. k \in index \cap DOMAIN blocks /\ l \in blocks[k] /\ k \notin rems[d]
        BY <1>1, <3>1
      <3>3. QED
        BY <3>1, <3>2, InContent
    <2>2. ASSUME NEW e \in Content \ taken PROVE e \in Content'
      <3>1. PICK k \in index \cap DOMAIN blocks, l \in Logs :
                e = [key |-> k, log |-> l] /\ l \in blocks[k]
        BY <2>2, InContent
      <3>2. k \notin rems[d]
        BY <2>2, <3>1
      <3>3. k \in index' /\ k \in DOMAIN blocks' /\ l \in blocks'[k]
        BY <1>1, <1>2, <3>1, <3>2
      <3>4. QED
        BY <3>1, <3>3 DEF Content, Entries
    <2>3. QED
      BY <2>1, <2>2
  <1>4. taken \in SUBSET {e \in Content : Atomic!DeepEnough(e, latest[d])}
    BY DEF Inv, PopInv, PopOf, Due, Atomic!DeepEnough
  <1>5. handed' = handed \cup {e.log : e \in {}}
        /\ {} \in SUBSET {e \in filed : Atomic!DeepEnough(e, latest[d])}
    BY <1>1
  <1>6. QED
    BY <1>1, <1>2, <1>3, <1>4, <1>5 DEF Atomic!PopConfirmed

\* The return hands over logs that were filed under heights that were due.
LEMMA AtomicReturn ==
    ASSUME Inv, NEW d \in Daemons, Return(d)
    PROVE  latest[d] \in 0 .. MaxHead /\ Atomic!PopConfirmed(latest[d])
  <1> DEFINE given == {e \in filed : e.key \in dels[d] /\ e.log \in out[d]}
  <1>1. UNCHANGED <<index, blocks, filed>> /\ handed' = handed \cup out[d]
    BY DEF Return, redis
  <1>2. Content' = Content
    BY <1>1 DEF Content, Entries
  <1>3. latest[d] \in 0 .. MaxHead
    BY DEF Inv, TypeOK
  <1>4. given \in SUBSET {e \in filed : Atomic!DeepEnough(e, latest[d])}
    BY DEF Inv, PopInv, PopOf, Due, Atomic!DeepEnough
  <1>5. \A l \in out[d] : \E e \in given : e.log = l
    <2>1. TAKE l \in out[d]
    <2>2. PICK h \in dels[d] : [key |-> h, log |-> l] \in filed
      BY DEF Inv, PopInv, PopOf
    <2>3. [key |-> h, log |-> l] \in given
      BY <2>2
    <2>4. QED
      BY <2>3
  <1>6. handed' = handed \cup {e.log : e \in given}
    BY <1>1, <1>5
  <1>7. Content' = Content \ {} /\ {} \in SUBSET {e \in Content : Atomic!DeepEnough(e, latest[d])}
    BY <1>2
  <1>8. QED
    BY <1>1, <1>3, <1>4, <1>6, <1>7 DEF Atomic!PopConfirmed

\* Every command of RedisPendingPool is a step of PendingPool or changes nothing.
LEMMA AtomicStep ==
    ASSUME Inv, [Next]_vars
    PROVE  [Atomic!Next]_<<Content, filed, handed>>
  <1>1. ASSUME UNCHANGED <<index, blocks, filed, handed>>
        PROVE  UNCHANGED <<Content, filed, handed>>
    BY <1>1 DEF Content, Entries
  <1>2. ASSUME NEW d \in Daemons, NEW h \in Heights, NEW logs \in Payloads[h],
               Add(d, h, logs)
        PROVE  Atomic!Next
    BY <1>2, AtomicAdd DEF Atomic!Next
  <1>3. ASSUME NEW d \in Daemons, Exec(d) PROVE Atomic!Next
    BY <1>3, AtomicExec DEF Atomic!Next
  <1>4. ASSUME NEW d \in Daemons, Return(d) PROVE Atomic!Next
    BY <1>4, AtomicReturn DEF Atomic!Next
  <1>5. ASSUME NEW d \in Daemons, NEW head \in 0 .. MaxHead, SMembers(d, head)
        PROVE  UNCHANGED <<Content, filed, handed>>
    BY <1>1, <1>5 DEF SMembers, redis, history
  <1>6. ASSUME NEW d \in Daemons, Get(d) \/ PopError(d)
        PROVE  UNCHANGED <<Content, filed, handed>>
    BY <1>1, <1>6 DEF Get, PopError, redis, history
  <1>7. CASE UNCHANGED vars
    BY <1>1, <1>7 DEF vars, redis, history
  <1>8. QED
    BY <1>2, <1>3, <1>4, <1>5, <1>6, <1>7 DEF Next, Pop

\* The pool of the daemons that share one Redis implements PendingPool, for any
\* number of daemons, heights and logs, whatever batches they file over each
\* other and wherever a PopConfirmed fails: nothing leaves RedisPendingPool or is
\* handed over before it is deep enough.
THEOREM Implements == Spec => ImplementsPool
  <1>1. Init => Atomic!Init
    BY DEF Init, Atomic!Init, Content, Entries
  <1>2. QED
    BY <1>1, AtomicStep, Inductive, PTL DEF Spec, ImplementsPool, Atomic!Spec, Atomic!pool
=============================================================================
