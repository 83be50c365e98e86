---------------------------- MODULE ScdoTxProofs ----------------------------
(***************************************************************************)
(* Theorems about ScdoTx for any callers, programs, accounts, word size    *)
(* and number of faults.                                                   *)
(*                                                                         *)
(*   NoGapInPool            every pooled transaction can be mined next     *)
(*   ExecutedOnce           a transaction is executed once, unless SendTx  *)
(*                          was not told that the node took it             *)
(*   SupplyAddsUp           the supply is the sum of the balances          *)
(*   HaltedCallsKeepTokens  a failed call of the patched contract only     *)
(*                          lowers an allowance                            *)
(***************************************************************************)
EXTENDS ScdoTx, FiniteSetTheorems, TLAPS

-----------------------------------------------------------------------------
(* Jobs, and how many transactions of an account were mined. *)

LEMMA JobParts ==
    ASSUME NEW job \in Jobs
    PROVE  /\ job[1] \in Callers /\ job[2] \in DOMAIN Program(job[1])
           /\ job = <<job[1], job[2]>> /\ job[2] \in Nat \ {0}
<1>1. PICK c \in Callers : job \in {c} \X DOMAIN Program(c)
    BY DEF Jobs
<1>2. Program(c) \in Seq(Transactions)
    BY ProgramAssumption
<1>3. DOMAIN Program(c) = 1 .. Len(Program(c)) /\ Len(Program(c)) \in Nat
    BY <1>2
<1> QED BY <1>1, <1>3

LEMMA JobExists ==
    ASSUME NEW c \in Callers, NEW k \in DOMAIN Program(c)
    PROVE  <<c, k>> \in Jobs
BY DEF Jobs

Count(ch, a, h) == Cardinality({k \in 1 .. h : Sender(ch[k]) = a})

LEMMA CountMonotone ==
    ASSUME NEW ch, NEW a, NEW h \in Nat, NEW m \in Nat, h <= m
    PROVE  Count(ch, a, h) \in Nat /\ Count(ch, a, h) <= Count(ch, a, m)
<1> DEFINE S == {k \in 1 .. m : Sender(ch[k]) = a}
           T == {k \in 1 .. h : Sender(ch[k]) = a}
<1>1. IsFiniteSet(1 .. m) /\ S \in SUBSET (1 .. m) /\ T \in SUBSET S
    BY FS_Interval
<1>2. IsFiniteSet(S)
    BY <1>1, FS_Subset
<1>3. IsFiniteSet(T) /\ Cardinality(T) <= Cardinality(S)
    BY <1>1, <1>2, FS_Subset
<1>4. Cardinality(T) \in Nat
    BY <1>3, FS_CardinalityType
<1> QED BY <1>3, <1>4 DEF Count

LEMMA CountAppend ==
    ASSUME NEW S, NEW ch \in Seq(S), NEW j, NEW a
    PROVE  Count(Append(ch, j), a, Len(Append(ch, j)))
             = Count(ch, a, Len(ch)) + (IF Sender(j) = a THEN 1 ELSE 0)
<1> DEFINE n == Len(ch)
           new == Append(ch, j)
           K == {k \in 1 .. n : Sender(ch[k]) = a}
           N == {k \in 1 .. n + 1 : Sender(new[k]) = a}
<1>1. n \in Nat /\ Len(new) = n + 1 /\ new[n + 1] = j /\ \A k \in 1 .. n : new[k] = ch[k]
    OBVIOUS
<1>2. IsFiniteSet(1 .. n) /\ K \in SUBSET (1 .. n)
    BY <1>1, FS_Interval
<1>3. IsFiniteSet(K)
    BY <1>2, FS_Subset
<1> HIDE DEF n, new
<1>4. \A k \in 1 .. n + 1 : k \in 1 .. n \/ k = n + 1
    BY <1>1
<1>5. n + 1 \notin K /\ 1 .. n \subseteq 1 .. n + 1 /\ n + 1 \in 1 .. n + 1
    BY <1>1
<1>6. CASE Sender(j) = a
    <2>1. N = K \cup {n + 1}
        BY <1>1, <1>4, <1>5, <1>6
    <2>2. Cardinality(N) = Cardinality(K) + 1
        BY <1>3, <1>5, <2>1, FS_AddElement
    <2> QED BY <1>1, <1>6, <2>2 DEF Count, n, new
<1>7. CASE Sender(j) # a
    <2>1. N = K
        BY <1>1, <1>4, <1>5, <1>7
    <2>2. Cardinality(K) \in Nat
        BY <1>3, FS_CardinalityType
    <2> HIDE DEF K, N
    <2>3. Cardinality(N) = Cardinality(K) + 0
        BY <2>1, <2>2
    <2> QED BY <1>1, <1>7, <2>3 DEF Count, n, new, K, N
<1> QED BY <1>6, <1>7

-----------------------------------------------------------------------------
(* The invariant about nonces. *)

TypeInv ==
    /\ chain \in Seq(Jobs)
    /\ pool \subseteq [job : Jobs, nonce : Nat]
    /\ at \in [Callers -> Nat \ {0}]
    /\ pc \in [Callers -> {"idle", "nonce", "addTx"}]
    /\ height \in [Callers -> Nat]
    /\ nonce \in [Callers -> Nat]
    /\ \A c \in Callers : pc[c] # "idle" => Job(c) \in Jobs

\* A height is never above the chain's, a nonce never above the account's.
NonceInv ==
    /\ \A c \in Callers : pc[c] = "nonce" => height[c] <= Len(chain)
    /\ \A c \in Callers : pc[c] = "addTx" => nonce[c] <= AccountNonce(Sender(Job(c)))
    /\ PoolExecutable

LEMMA AccountNonceIs ==
    /\ \A a : AccountNonce(a) = Count(chain, a, Len(chain))
    /\ \A a, h : NonceAt(a, h) = Count(chain, a, h)
    /\ \A a : AccountNonce(a)' = Count(chain', a, Len(chain'))
BY DEF AccountNonce, NonceAt, Count

LEMMA Steps ==
    [Next]_vars =>
        \/ \E c \in Callers : FetchHeight(c) \/ FetchNonce(c) \/ AddTx(c)
        \/ \E t \in pool : Mine(t)
        \/ UNCHANGED vars
BY DEF Next, Finished

LEMMA TypeStep == TypeInv /\ [Next]_vars => TypeInv'
<1> SUFFICES ASSUME TypeInv, [Next]_vars PROVE TypeInv'
    OBVIOUS
<1> USE DEF TypeInv, node, caller, Job
<1>1. ASSUME NEW c \in Callers, FetchHeight(c) PROVE TypeInv'
    <2>1. Len(chain) \in Nat
        OBVIOUS
    <2>2. height' \in [Callers -> Nat]
        BY <1>1, <2>1 DEF FetchHeight, BlockHeight, callContext
    <2>3. pc' \in [Callers -> {"idle", "nonce", "addTx"}]
        BY <1>1 DEF FetchHeight
    <2>4. Job(c) \in Jobs
        <3>1. Program(c) \in Seq(Transactions)
            BY ProgramAssumption
        <3>2. at[c] \in DOMAIN Program(c)
            BY <1>1, <3>1 DEF FetchHeight, Done
        <3> QED BY <3>2, JobExists
    <2>5. \A d \in Callers : d # c => pc'[d] = pc[d]
        BY <1>1 DEF FetchHeight
    <2>6. UNCHANGED <<chain, pool, at, nonce>>
        BY <1>1 DEF FetchHeight
    <2> QED BY <2>2, <2>3, <2>4, <2>5, <2>6
<1>2. ASSUME NEW c \in Callers, FetchNonce(c) PROVE TypeInv'
    <2>1. NonceAt(Sender(Job(c)), height[c]) \in Nat
        BY AccountNonceIs, CountMonotone
    <2>2. nonce' \in [Callers -> Nat]
        BY <1>2, <2>1 DEF FetchNonce, Nonce, callContext
    <2>3. pc' \in [Callers -> {"idle", "nonce", "addTx"}]
          /\ height' \in [Callers -> Nat]
        BY <1>2 DEF FetchNonce
    <2>4. \A d \in Callers : pc'[d] # "idle" => pc[d] # "idle"
        BY <1>2 DEF FetchNonce
    <2>5. UNCHANGED <<chain, pool, at>>
        BY <1>2 DEF FetchNonce
    <2> QED BY <2>2, <2>3, <2>4, <2>5
<1>3. ASSUME NEW c \in Callers, AddTx(c) PROVE TypeInv'
    <2>1. Job(c) \in Jobs /\ nonce[c] \in Nat
        BY <1>3 DEF AddTx
    <2>2. pool' \subseteq [job : Jobs, nonce : Nat]
        <3>1. pool' = pool \/ pool' = pool \cup {[job |-> Job(c), nonce |-> nonce[c]]}
            BY <1>3 DEF AddTx
        <3>2. [job |-> Job(c), nonce |-> nonce[c]] \in [job : Jobs, nonce : Nat]
            BY <2>1
        <3>3. pool \subseteq [job : Jobs, nonce : Nat]
            OBVIOUS
        <3> QED BY <3>1, <3>2, <3>3
    <2>3. pc' \in [Callers -> {"idle", "nonce", "addTx"}]
        BY <1>3 DEF AddTx
    <2>4. nonce' \in [Callers -> Nat]
        BY <1>3 DEF AddTx
    <2>5. \A d \in Callers : pc'[d] # "idle" => pc[d] # "idle" /\ d # c
        BY <1>3 DEF AddTx
    <2>6. at' \in [Callers -> Nat \ {0}] /\ \A d \in Callers : d # c => at'[d] = at[d]
        BY <1>3 DEF AddTx
    <2>7. UNCHANGED <<chain, height>>
        BY <1>3 DEF AddTx
    <2> QED BY <2>2, <2>3, <2>4, <2>5, <2>6, <2>7
<1>4. ASSUME NEW t \in pool, Mine(t) PROVE TypeInv'
    BY <1>4 DEF Mine
<1>5. CASE UNCHANGED vars
    BY <1>5 DEF vars
<1> QED BY <1>1, <1>2, <1>3, <1>4, <1>5, Steps

LEMMA NonceStep == TypeInv /\ NonceInv /\ [Next]_vars => NonceInv'
<1> SUFFICES ASSUME TypeInv, NonceInv, [Next]_vars PROVE NonceInv'
    OBVIOUS
<1> USE DEF TypeInv, NonceInv, PoolExecutable, node, caller, Job
<1>0. /\ Len(chain) \in Nat
      /\ \A a : AccountNonce(a) \in Nat
      /\ \A a : \A h \in Nat : h <= Len(chain) => NonceAt(a, h) <= AccountNonce(a)
    BY AccountNonceIs, CountMonotone
<1>1. ASSUME chain' = chain PROVE \A a : AccountNonce(a)' = AccountNonce(a)
    BY <1>1, AccountNonceIs
<1>2. ASSUME NEW c \in Callers, FetchHeight(c) PROVE NonceInv'
    <2>1. UNCHANGED <<chain, pool, at, nonce>>
        BY <1>2 DEF FetchHeight
    <2>2. \A d \in Callers : d # c => pc'[d] = pc[d] /\ height'[d] = height[d]
        BY <1>2 DEF FetchHeight
    <2>3. pc'[c] # "addTx" /\ (pc'[c] = "nonce" => height'[c] <= Len(chain))
        BY <1>0, <1>2 DEF FetchHeight, BlockHeight, callContext
    <2> QED BY <1>1, <2>1, <2>2, <2>3
<1>3. ASSUME NEW c \in Callers, FetchNonce(c) PROVE NonceInv'
    <2>1. UNCHANGED <<chain, pool, at>>
        BY <1>3 DEF FetchNonce
    <2>2. \A d \in Callers : d # c => /\ pc'[d] = pc[d] /\ height'[d] = height[d]
                                      /\ nonce'[d] = nonce[d]
        BY <1>3 DEF FetchNonce
    <2>3. pc'[c] # "nonce"
        BY <1>3 DEF FetchNonce
    <2>4. pc'[c] = "addTx" => nonce'[c] <= AccountNonce(Sender(Job(c)))
        <3>1. height[c] <= Len(chain) /\ height[c] \in Nat
            BY <1>3 DEF FetchNonce
        <3>2. NonceAt(Sender(Job(c)), height[c]) <= AccountNonce(Sender(Job(c)))
            BY <1>0, <3>1
        <3>3. nonce'[c] = 0 \/ nonce'[c] = NonceAt(Sender(Job(c)), height[c])
            BY <1>3 DEF FetchNonce, Nonce, callContext
        <3>4. 0 <= AccountNonce(Sender(Job(c)))
            BY <1>0
        <3> QED BY <3>2, <3>3, <3>4
    <2>5. PoolExecutable'
        BY <1>1, <2>1
    <2>6. \A d \in Callers : pc'[d] = "nonce" => height'[d] <= Len(chain')
        BY <2>1, <2>2, <2>3
    <2>7. ASSUME NEW d \in Callers, pc'[d] = "addTx"
          PROVE  nonce'[d] <= AccountNonce(Sender(Job(d)))'
        <3>1. AccountNonce(Sender(Job(d)))' = AccountNonce(Sender(Job(d)))
            BY <1>1, <2>1
        <3>2. CASE d = c
            BY <2>4, <2>7, <3>1, <3>2
        <3>3. CASE d # c
            BY <2>2, <2>7, <3>1, <3>3
        <3> QED BY <3>2, <3>3
    <2> QED BY <2>5, <2>6, <2>7
<1>4. ASSUME NEW c \in Callers, AddTx(c) PROVE NonceInv'
    <2> DEFINE new == [job |-> Job(c), nonce |-> nonce[c]]
    <2>1. UNCHANGED <<chain, height>>
        BY <1>4 DEF AddTx
    <2>2. \A d \in Callers : d # c => /\ pc'[d] = pc[d] /\ nonce'[d] = nonce[d]
                                      /\ at'[d] = at[d]
        BY <1>4 DEF AddTx
    <2>3. pc'[c] = "idle"
        BY <1>4 DEF AddTx
    <2>4. pool' = pool \/ (Fits(c) /\ pool' = pool \cup {new})
        BY <1>4 DEF AddTx
    <2>5. PoolExecutable'
        <3>1. CASE pool' = pool
            BY <1>1, <2>1, <3>1
        <3>2. CASE Fits(c) /\ pool' = pool \cup {new}
            <4>1. nonce[c] = AccountNonce(Sender(Job(c)))
                <5>1. nonce[c] >= AccountNonce(Sender(Job(c)))
                    BY <3>2 DEF Fits
                <5>2. nonce[c] <= AccountNonce(Sender(Job(c)))
                    BY <1>4 DEF AddTx
                <5> QED BY <1>0, <5>1, <5>2
            <4>2. \A t \in pool : Sender(t.job) # Sender(Job(c))
                BY <3>2, <4>1 DEF Fits
            <4>3. new.job = Job(c) /\ new.nonce = nonce[c]
                OBVIOUS
            <4>4. \A t \in pool' : t \in pool \/ t = new
                BY <3>2
            <4> HIDE DEF new
            <4> QED BY <1>1, <2>1, <4>1, <4>2, <4>3, <4>4
        <3> QED BY <2>4, <3>1, <3>2
    <2>6. \A d \in Callers : pc'[d] = "nonce" => height'[d] <= Len(chain')
        BY <2>1, <2>2, <2>3
    <2>7. ASSUME NEW d \in Callers, pc'[d] = "addTx"
          PROVE  nonce'[d] <= AccountNonce(Sender(Job(d)))'
        <3>1. d # c
            BY <2>3, <2>7
        <3>2. Job(d)' = Job(d)
            BY <2>2, <3>1
        <3>3. AccountNonce(Sender(Job(d)))' = AccountNonce(Sender(Job(d)))
            BY <2>1, <3>2 DEF AccountNonce, NonceAt, Sender, Call
        <3> QED BY <2>2, <2>7, <3>1, <3>3
    <2> QED BY <2>5, <2>6, <2>7
<1>5. ASSUME NEW t \in pool, Mine(t) PROVE NonceInv'
    <2> DEFINE a0 == Sender(t.job)
    <2>1. UNCHANGED <<at, pc, height, nonce>> /\ chain' = Append(chain, t.job)
        BY <1>5 DEF Mine
    <2>2. Len(chain') = Len(chain) + 1
        BY <2>1
    <2>3. \A a : AccountNonce(a)' = AccountNonce(a) + (IF a0 = a THEN 1 ELSE 0)
        BY <2>1, AccountNonceIs, CountAppend
    <2>4. \A u \in pool' : u \in pool /\ Sender(u.job) # a0
        <3>1. pool' = {u \in pool : Sender(u.job) = a0 => u.nonce > t.nonce}
            BY <1>5 DEF Mine
        <3>2. ASSUME NEW u \in pool', Sender(u.job) = a0 PROVE FALSE
            <4>1. u \in pool /\ u.nonce > t.nonce
                BY <3>1, <3>2
            <4>2. u = t /\ t.nonce \in Nat
                BY <3>2, <4>1
            <4> QED BY <4>1, <4>2
        <3> QED BY <3>1, <3>2
    <2> HIDE DEF a0
    <2>5. \A a : a # a0 => AccountNonce(a)' = AccountNonce(a)
        <3> SUFFICES ASSUME NEW a, a # a0 PROVE AccountNonce(a)' = AccountNonce(a)
            OBVIOUS
        <3>1. AccountNonce(a)' = AccountNonce(a) + 0 /\ AccountNonce(a) \in Nat
            BY <1>0, <2>3
        <3> QED BY <3>1
    <2>6. \A a : AccountNonce(a)' >= AccountNonce(a) /\ AccountNonce(a)' \in Nat
        <3> SUFFICES ASSUME NEW a
                     PROVE  AccountNonce(a)' >= AccountNonce(a) /\ AccountNonce(a)' \in Nat
            OBVIOUS
        <3>1. \/ AccountNonce(a)' = AccountNonce(a) + 0
              \/ AccountNonce(a)' = AccountNonce(a) + 1
            BY <2>3
        <3> QED BY <1>0, <3>1
    <2>7. PoolExecutable'
        BY <2>4, <2>5
    <2>8. ASSUME NEW c \in Callers, pc[c] = "addTx"
          PROVE  nonce[c] <= AccountNonce(Sender(Job(c)))'
        <3>1. nonce[c] <= AccountNonce(Sender(Job(c))) /\ nonce[c] \in Nat
            BY <2>8
        <3>2. PICK a : a = Sender(Job(c))
            OBVIOUS
        <3>3. Sender(Job(c))' = a
            BY <2>1, <3>2 DEF Sender, Call
        <3>4. AccountNonce(Sender(Job(c)))' = Count(chain', Sender(Job(c))', Len(chain'))
            BY DEF AccountNonce, NonceAt, Count
        <3>5. AccountNonce(Sender(Job(c)))' = AccountNonce(a)'
            BY <3>3, <3>4, AccountNonceIs
        <3>6. /\ AccountNonce(a) \in Nat /\ AccountNonce(a)' \in Nat
              /\ AccountNonce(a)' >= AccountNonce(a)
            BY <1>0, <2>6
        <3> QED BY <3>1, <3>2, <3>5, <3>6
    <2>9. \A c \in Callers : pc[c] = "nonce" => height[c] <= Len(chain')
        BY <1>0, <2>2
    <2> QED BY <2>1, <2>7, <2>8, <2>9
<1>6. CASE UNCHANGED vars
    BY <1>1, <1>6 DEF vars
<1> QED BY <1>2, <1>3, <1>4, <1>5, <1>6, Steps

LEMMA NonceInvariance == Spec => [](TypeInv /\ NonceInv)
<1>1. Init => TypeInv /\ NonceInv
    BY DEF Init, TypeInv, NonceInv, PoolExecutable
<1>2. TypeInv /\ NonceInv /\ [Next]_vars => (TypeInv /\ NonceInv)'
    BY TypeStep, NonceStep
<1> QED BY <1>1, <1>2, PTL DEF Spec

\* No transaction waits in the pool behind a nonce that nobody sends, and an
\* account has one transaction in the pool at most, though SendTx reads the
\* height and the nonce in two calls and takes null for 0.
THEOREM NoGapInPool == Spec => []PoolExecutable
<1>1. NonceInv => PoolExecutable
    BY DEF NonceInv
<1> QED BY <1>1, NonceInvariance, PTL

-----------------------------------------------------------------------------
(* The invariant about jobs. *)

Mined(job) == \E i \in DOMAIN chain : chain[i] = job

\* SendTx has succeeded for the job.
Sent(job) == job[2] < at[job[1]]

\* A job that SendTx gave a true answer about is sent once.
OnceInv ==
    /\ \A job \in Jobs : Sent(job) => Mined(job) \/ Pooled(job)
    /\ \A job \in Jobs \ misled :
          /\ Mined(job) \/ Pooled(job) => Sent(job)
          /\ ~(Mined(job) /\ Pooled(job))
          /\ \A i, k \in DOMAIN chain : chain[i] = job /\ chain[k] = job => i = k

LEMMA OnceStep ==
    TypeInv /\ NonceInv /\ OnceInv /\ [Next]_vars => OnceInv'
<1> SUFFICES ASSUME TypeInv, NonceInv, OnceInv, [Next]_vars PROVE OnceInv'
    OBVIOUS
<1>0. \A job \in Jobs : /\ job[1] \in Callers /\ job[2] \in Nat
                        /\ job = <<job[1], job[2]>> /\ at[job[1]] \in Nat
    BY JobParts DEF TypeInv
<1> USE DEF node, caller
\* Reading the height or the nonce sends nothing.
<1>1. ASSUME UNCHANGED <<chain, pool, at, misled>>
      PROVE  OnceInv'
    BY <1>0, <1>1 DEF OnceInv, Mined, Pooled, Sent
<1>2. ASSUME NEW c \in Callers, FetchHeight(c) \/ FetchNonce(c) PROVE OnceInv'
    BY <1>1, <1>2 DEF FetchHeight, FetchNonce
<1>3. ASSUME NEW c \in Callers, AddTx(c) PROVE OnceInv'
    <2> DEFINE new == [job |-> Job(c), nonce |-> nonce[c]]
    <2>1. chain' = chain /\ misled \subseteq misled'
        BY <1>3 DEF AddTx
    <2>2. at'[c] \in {at[c], at[c] + 1} /\ \A d \in Callers : d # c => at'[d] = at[d]
        BY <1>3 DEF AddTx, TypeInv
    <2>3. \/ pool' = pool /\ at'[c] = at[c]
          \/ /\ pool' = pool \cup {new}
             /\ Job(c) \in misled' \/ at'[c] = at[c] + 1
        <3>1. PICK reply \in Replies, arrives \in BOOLEAN :
                 /\ reply # "error" => arrives
                 /\ pool' = IF arrives /\ Fits(c) THEN pool \cup {new} ELSE pool
                 /\ at' = [at EXCEPT ![c] = IF Ok(reply, Fits(c)) THEN @ + 1 ELSE @]
                 /\ misled' = IF arrives /\ Fits(c) /\ reply # "value"
                              THEN misled \cup {Job(c)} ELSE misled
            BY <1>3 DEF AddTx
        <3>2. Ok(reply, Fits(c)) <=> reply = "value" /\ Fits(c)
            BY <3>1 DEF Ok, callContext, Replies, Fits
        <3>3. CASE arrives /\ Fits(c)
            BY <3>1, <3>2, <3>3 DEF TypeInv
        <3>4. CASE ~(arrives /\ Fits(c))
            BY <3>1, <3>2, <3>4 DEF TypeInv
        <3> QED BY <3>3, <3>4
    <2>4. Job(c) = <<c, at[c]>> /\ new.job = Job(c)
        BY DEF Job
    <2>5. ASSUME NEW job \in Jobs, job # Job(c) PROVE Pooled(job)' = Pooled(job)
        BY <2>3, <2>4, <2>5 DEF Pooled
    <2>6. \A job \in Jobs : Mined(job)' = Mined(job)
        BY <2>1 DEF Mined
    <2>7. ~Sent(Job(c))
        BY <2>4 DEF Sent, TypeInv
    <2>8. ASSUME NEW job \in Jobs, job # Job(c) PROVE Sent(job)' = Sent(job)
        <3>1. CASE job[1] = c
            <4>1. job[2] # at[c] /\ job[2] \in Nat /\ at[c] \in Nat
                BY <1>0, <2>4, <2>8, <3>1
            <4> QED BY <2>2, <3>1, <4>1 DEF Sent
        <3>2. CASE job[1] # c
            BY <1>0, <2>2, <3>2 DEF Sent
        <3> QED BY <3>1, <3>2
    <2>9. ASSUME NEW job \in Jobs \ misled', job = Job(c)
          PROVE  (Pooled(job)' => Sent(job)') /\ ~Mined(job)'
        <3>1. ~Mined(job) /\ ~Pooled(job)
            BY <2>1, <2>7, <2>9 DEF OnceInv
        <3>2. ~Mined(job)'
            BY <2>6, <3>1
        <3>3. ASSUME Pooled(job)' PROVE Sent(job)'
            <4>1. pool' # pool
                BY <3>1, <3>3 DEF Pooled
            <4>2. at'[c] = at[c] + 1
                BY <2>3, <2>9, <4>1
            <4>3. job[1] = c /\ job[2] = at[c] /\ at[c] \in Nat
                BY <2>4, <2>9 DEF TypeInv
            <4> QED BY <4>2, <4>3 DEF Sent
        <3> QED BY <3>2, <3>3
    <2> HIDE DEF new
    <2>10. ASSUME NEW job \in Jobs \ misled'
           PROVE  /\ Mined(job)' \/ Pooled(job)' => Sent(job)'
                  /\ ~(Mined(job)' /\ Pooled(job)')
        <3>1. CASE job = Job(c)
            BY <2>9, <3>1
        <3>2. CASE job # Job(c)
            BY <2>1, <2>5, <2>6, <2>8, <3>2 DEF OnceInv
        <3> QED BY <3>1, <3>2
    <2>11. ASSUME NEW job \in Jobs, Sent(job)' PROVE Mined(job)' \/ Pooled(job)'
        <3>1. CASE job = Job(c)
            <4>1. at'[c] # at[c]
                BY <2>4, <2>7, <2>11, <3>1 DEF Sent
            <4>2. pool' = pool \cup {new}
                BY <2>3, <4>1
            <4> QED BY <2>4, <3>1, <4>2 DEF Pooled
        <3>2. CASE job # Job(c)
            BY <2>5, <2>6, <2>8, <2>11, <3>2 DEF OnceInv
        <3> QED BY <3>1, <3>2
    <2>12. ASSUME NEW job \in Jobs \ misled', NEW i \in DOMAIN chain', NEW k \in DOMAIN chain',
                  chain'[i] = job, chain'[k] = job
           PROVE  i = k
        BY <2>1, <2>12 DEF OnceInv
    <2> QED BY <2>10, <2>11, <2>12 DEF OnceInv
<1>4. ASSUME NEW t \in pool, Mine(t) PROVE OnceInv'
    <2> DEFINE n == Len(chain)
    <2>1. UNCHANGED <<at, pc, misled>> /\ chain' = Append(chain, t.job)
        BY <1>4 DEF Mine
    <2>2. t.job \in Jobs
        BY DEF TypeInv
    <2>3. /\ DOMAIN chain' = 1 .. n + 1 /\ DOMAIN chain = 1 .. n /\ n \in Nat
          /\ chain'[n + 1] = t.job /\ \A i \in 1 .. n : chain'[i] = chain[i]
        BY <2>1 DEF TypeInv
    <2> HIDE DEF n
    <2>4. \A i \in DOMAIN chain' : i \in DOMAIN chain \/ i = n + 1
        BY <2>3
    <2>5. DOMAIN chain \subseteq DOMAIN chain' /\ n + 1 \in DOMAIN chain'
          /\ n + 1 \notin DOMAIN chain
        BY <2>3
    <2>6. \A job \in Jobs : Mined(job)' <=> Mined(job) \/ job = t.job
        BY <2>3, <2>4, <2>5 DEF Mined
    <2>7. /\ \A job \in Jobs : Pooled(job)' => Pooled(job)
          /\ ~Pooled(t.job)' /\ Pooled(t.job)
        <3>1. pool' = {u \in pool : Sender(u.job) = Sender(t.job) => u.nonce > t.nonce}
            BY <1>4 DEF Mine
        <3>2. ASSUME NEW u \in pool, u.job = t.job PROVE ~(u.nonce > t.nonce)
            <4>1. u = t /\ t.nonce \in Nat
                BY <3>2 DEF NonceInv, PoolExecutable, TypeInv
            <4> QED BY <4>1
        <3>3. \A u \in pool' : u.job # t.job
            BY <3>1, <3>2
        <3> QED BY <3>1, <3>3 DEF Pooled
    <2>8. \A job \in Jobs : Sent(job)' = Sent(job)
        BY <2>1 DEF Sent
    <2>9. ASSUME NEW job \in Jobs \ misled'
          PROVE  /\ Mined(job)' \/ Pooled(job)' => Sent(job)'
                 /\ ~(Mined(job)' /\ Pooled(job)')
        BY <2>1, <2>2, <2>6, <2>7, <2>8 DEF OnceInv
    <2>10. ASSUME NEW job \in Jobs, Sent(job)' PROVE Mined(job)' \/ Pooled(job)'
        <3>1. Mined(job) \/ Pooled(job)
            BY <2>8, <2>10 DEF OnceInv
        <3>2. CASE Mined(job)
            BY <2>6, <3>2
        <3>3. CASE Pooled(job)
            <4>1. PICK u \in pool : u.job = job
                BY <3>3 DEF Pooled
            <4>2. CASE u = t
                BY <2>6, <4>1, <4>2
            <4>3. CASE u # t
                <5>1. Sender(u.job) # Sender(t.job)
                    BY <4>3 DEF NonceInv, PoolExecutable
                <5>2. u \in pool'
                    BY <1>4, <5>1 DEF Mine
                <5> QED BY <4>1, <5>2 DEF Pooled
            <4> QED BY <4>2, <4>3
        <3> QED BY <3>1, <3>2, <3>3
    <2>11. ASSUME NEW job \in Jobs \ misled', NEW i \in DOMAIN chain', NEW k \in DOMAIN chain',
                  chain'[i] = job, chain'[k] = job
           PROVE  i = k
        <3>1. CASE job = t.job
            <4>1. ~Mined(job) /\ job \in Jobs \ misled
                BY <2>1, <2>7, <2>11, <3>1 DEF OnceInv
            <4>2. i \notin DOMAIN chain /\ k \notin DOMAIN chain
                BY <2>3, <2>11, <4>1 DEF Mined
            <4> QED BY <2>4, <4>2
        <3>2. CASE job # t.job
            <4>1. i \in DOMAIN chain /\ k \in DOMAIN chain
                BY <2>3, <2>4, <2>11, <3>2
            <4>2. chain[i] = job /\ chain[k] = job /\ job \in Jobs \ misled
                BY <2>1, <2>3, <2>11, <4>1
            <4> QED BY <4>1, <4>2 DEF OnceInv
        <3> QED BY <3>1, <3>2
    <2> QED BY <2>9, <2>10, <2>11 DEF OnceInv
<1>5. CASE UNCHANGED vars
    BY <1>1, <1>5 DEF vars
<1> QED BY <1>2, <1>3, <1>4, <1>5, Steps

\* How often a job was mined, from where it stands in the chain.
LEMMA TimesIs ==
    ASSUME TypeInv, NEW job
    PROVE  /\ Mined(job) => Times(job) >= 1
           /\ (\A i, k \in DOMAIN chain : chain[i] = job /\ chain[k] = job => i = k)
                 => Times(job) <= 1
<1> DEFINE T == {k \in DOMAIN chain : chain[k] = job}
<1>1. DOMAIN chain = 1 .. Len(chain) /\ Len(chain) \in Nat
    BY DEF TypeInv
<1>2. IsFiniteSet(1 .. Len(chain)) /\ T \in SUBSET (1 .. Len(chain))
    BY <1>1, FS_Interval
<1>3. IsFiniteSet(T)
    BY <1>2, FS_Subset
<1>4. Cardinality(T) \in Nat /\ (Cardinality(T) = 0 <=> T = {})
    BY <1>3, FS_CardinalityType, FS_EmptySet
<1>5. Times(job) = Cardinality(T)
    BY DEF Times
<1>6. Mined(job) => T # {}
    BY DEF Mined
<1>7. ASSUME \A i, k \in DOMAIN chain : chain[i] = job /\ chain[k] = job => i = k
      PROVE  Cardinality(T) <= 1
    <2>1. CASE T = {}
        BY <1>4, <2>1
    <2>2. CASE T # {}
        <3>1. \E x : T = {x}
            BY <1>7, <2>2
        <3>2. Cardinality(T) = 1
            BY <1>3, <3>1, FS_Singleton
        <3> QED BY <3>2
    <2> QED BY <2>1, <2>2
<1> HIDE DEF T
<1> QED BY <1>4, <1>5, <1>6, <1>7

\* SendTx, called until it succeeds, has a transaction executed exactly once: it
\* is in the pool until it is mined, and is mined at most once unless an error or
\* null hid that the node had taken it.
THEOREM ExecutedOnce == Spec => []OnceUnlessMisled
<1>1. Init => OnceInv
    <2> SUFFICES ASSUME Init PROVE OnceInv
        OBVIOUS
    <2>1. \A job \in Jobs : ~(job[2] < at[job[1]])
        BY JobParts DEF Init
    <2>2. \A job \in Jobs : ~Mined(job) /\ ~Pooled(job)
        BY DEF Init, Mined, Pooled
    <2>3. DOMAIN chain = {}
        BY DEF Init
    <2> QED BY <2>1, <2>2, <2>3 DEF OnceInv, Sent
<1>2. ASSUME TypeInv, OnceInv PROVE OnceUnlessMisled
    BY <1>2, TimesIs DEF OnceInv, OnceUnlessMisled, Sent
<1> QED BY <1>1, <1>2, NonceInvariance, OnceStep, PTL DEF Spec

-----------------------------------------------------------------------------
(* Arithmetic modulo the word size, and sums of balances and events. *)

Same(x, y) == \E q \in Int : x = y + q * Word

LEMMA Distributes ==
    ASSUME NEW p \in Int, NEW q \in Int
    PROVE  /\ p * Word \in Int /\ q * Word \in Int
           /\ (p + q) * Word = p * Word + q * Word
           /\ (-q) * Word = -(q * Word)
BY WordAssumption

LEMMA SameReflexive == ASSUME NEW x \in Int PROVE Same(x, x)
<1>1. 0 \in Int /\ x = x + 0 * Word
    BY WordAssumption
<1> QED BY <1>1 DEF Same

LEMMA SameSymmetric ==
    ASSUME NEW x \in Int, NEW y \in Int, Same(x, y) PROVE Same(y, x)
<1>1. PICK q \in Int : x = y + q * Word
    BY DEF Same
<1> DEFINE w == q * Word
<1>2. w \in Int /\ (-q) * Word = -w /\ -q \in Int /\ x = y + w
    BY <1>1, Distributes
<1> HIDE DEF w
<1>3. y = x + (-q) * Word
    BY <1>2
<1> QED BY <1>2, <1>3 DEF Same

LEMMA SameTransitive ==
    ASSUME NEW x \in Int, NEW y \in Int, NEW z \in Int, Same(x, y), Same(y, z)
    PROVE  Same(x, z)
<1>1. PICK p \in Int : x = y + p * Word
    BY DEF Same
<1>2. PICK q \in Int : y = z + q * Word
    BY DEF Same
<1> DEFINE v == p * Word
           w == q * Word
<1> DEFINE u == (p + q) * Word
<1>3. v \in Int /\ w \in Int /\ u = v + w
    BY Distributes
<1>4. x = y + v /\ y = z + w
    BY <1>1, <1>2
<1> HIDE DEF u, v, w
<1>5. x = z + u /\ p + q \in Int
    BY <1>3, <1>4
<1> QED BY <1>5 DEF Same, u

LEMMA SameShift ==
    ASSUME NEW x \in Int, NEW y \in Int, NEW z \in Int, Same(x, y)
    PROVE  Same(x + z, y + z)
<1>1. PICK q \in Int : x = y + q * Word
    BY DEF Same
<1> DEFINE w == q * Word
<1>2. w \in Int /\ x = y + w
    BY <1>1, Distributes
<1> HIDE DEF w
<1>3. x + z = y + z + w
    BY <1>2
<1> QED BY <1>3 DEF Same, w

\* Division with remainder.
LEMMA Remainder ==
    ASSUME NEW x \in Int, NEW w \in Int, w > 0
    PROVE  /\ x % w \in Int /\ 0 <= x % w /\ x % w < w
           /\ x \div w \in Int /\ x % w = x - w * (x \div w)
OBVIOUS

\* What a word holds of a number.
LEMMA InAWord == ASSUME NEW x \in Int PROVE x % Word \in Uint256 /\ Same(x % Word, x)
<1>1. Word \in Int /\ Word > 0
    BY WordAssumption
<1> DEFINE d == x \div Word
           m == x % Word
<1>2. m \in Int /\ 0 <= m /\ m < Word /\ d \in Int /\ m = x - Word * d
    BY <1>1, Remainder
<1> HIDE DEF d, m
<1>3. m \in Uint256
    BY <1>1, <1>2 DEF Uint256
<1> DEFINE w == d * Word
<1>4. w \in Int /\ (-d) * Word = -w /\ -d \in Int /\ m = x - w
    BY <1>1, <1>2, Distributes
<1> HIDE DEF w
<1>5. m = x + (-d) * Word
    BY <1>4
<1> QED BY <1>3, <1>4, <1>5 DEF Same, m

\* Two words that differ by words are equal.
LEMMA SameWord ==
    ASSUME NEW x \in Uint256, NEW y \in Uint256, Same(x, y) PROVE x = y
<1>1. PICK q \in Int : x = y + q * Word
    BY DEF Same
<1>2. x \in Int /\ y \in Int /\ x - y < Word /\ y - x < Word
    BY WordAssumption DEF Uint256
<1>3. CASE q >= 1
    <2>1. q * Word >= Word
        BY <1>3, WordAssumption
    <2> QED BY <1>1, <1>2, <2>1, WordAssumption
<1>4. CASE q <= -1
    <2>1. q * Word <= -Word
        BY <1>4, WordAssumption
    <2> QED BY <1>1, <1>2, <2>1, WordAssumption
<1>5. CASE q = 0
    BY <1>1, <1>2, <1>5, WordAssumption
<1> QED BY <1>3, <1>4, <1>5

Add(x, y) == x + y
AnyOf(S) == CHOOSE x \in S : TRUE

\* An event is added to what the events before it say.
AddEvent(e, x) == x + Signed(e)
Largest(S) == Max(S)

Adding == INSTANCE FoldTheorems WITH Op <- Add, Choose <- AnyOf
Issuing == INSTANCE FoldTheorems WITH Op <- AddEvent, Choose <- Largest

Sum(f) == FoldFunction(+, 0, f)

LEMMA SumIsFold == ASSUME NEW f PROVE Sum(f) = Adding!Fold(0, f, DOMAIN f)
BY Zenon DEF Sum, Adding!Fold, Adding!Iterates, FoldFunction, FoldFunctionOnSet,
             MapThenFoldSet, Add, AnyOf

LEMMA AccountsFoldable ==
    /\ Adding!Commutes(Int) /\ Adding!Closed(Int) /\ 0 \in Int
    /\ \A S \in SUBSET Accounts : Adding!Foldable(S)
<1>1. ASSUME NEW S \in SUBSET Accounts PROVE Adding!Foldable(S)
    <2>1. IsFiniteSet(S)
        BY ProgramAssumption, FS_Subset
    <2>2. Adding!IsFiniteSet(S)
        BY <2>1 DEF IsFiniteSet, Adding!IsFiniteSet
    <2> QED BY <2>2 DEF Adding!Foldable, AnyOf
<1>2. Adding!Commutes(Int) /\ Adding!Closed(Int)
    BY DEF Adding!Commutes, Adding!Closed, Add
<1> QED BY <1>1, <1>2

LEMMA SumOfZero == Sum([a \in Accounts |-> 0]) = 0
<1> DEFINE f == [a \in Accounts |-> 0]
<1>1. Adding!Closed({0}) /\ 0 \in {0}
    BY DEF Adding!Closed, Add
<1>2. \A a \in Accounts : f[a] \in {0}
    OBVIOUS
<1>3. DOMAIN f = Accounts
    OBVIOUS
<1> HIDE DEF f
<1>4. Adding!Fold(0, f, Accounts) \in {0}
    BY <1>1, <1>2, AccountsFoldable, Adding!FoldType
<1>5. Sum(f) = Adding!Fold(0, f, Accounts)
    BY <1>3, SumIsFold
<1> QED BY <1>4, <1>5 DEF f

\* One balance and the sum of the others.
LEMMA SumWithout ==
    ASSUME NEW f, DOMAIN f = Accounts, \A x \in Accounts : f[x] \in Int,
           NEW a \in Accounts
    PROVE  /\ Adding!Fold(0, f, Accounts \ {a}) \in Int
           /\ Sum(f) = f[a] + Adding!Fold(0, f, Accounts \ {a})
<1>1. Adding!Fold(0, f, Accounts) = Add(f[a], Adding!Fold(0, f, Accounts \ {a}))
    BY AccountsFoldable, Adding!FoldAny
<1>2. Adding!Fold(0, f, Accounts \ {a}) \in Int
    BY AccountsFoldable, Adding!FoldType
<1> QED BY <1>1, <1>2, SumIsFold DEF Add

\* A balance that changes, in its word, changes the sum by as much.
LEMMA SumUpdate ==
    ASSUME NEW f \in [Accounts -> Uint256], NEW a \in Accounts, NEW z \in Int
    PROVE  /\ [f EXCEPT ![a] = (f[a] + z) % Word] \in [Accounts -> Uint256]
           /\ Sum(f) \in Int
           /\ Sum([f EXCEPT ![a] = (f[a] + z) % Word]) \in Int
           /\ Same(Sum([f EXCEPT ![a] = (f[a] + z) % Word]), Sum(f) + z)
<1> DEFINE v == (f[a] + z) % Word
           h == [f EXCEPT ![a] = v]
           r == Adding!Fold(0, f, Accounts \ {a})
<1>1. f[a] \in Int /\ f[a] + z \in Int /\ Uint256 \subseteq Int
    BY DEF Uint256
<1>2. v \in Uint256 /\ Same(v, f[a] + z)
    BY <1>1, InAWord
<1> HIDE DEF v
<1>3. /\ h \in [Accounts -> Uint256] /\ h[a] = v
      /\ DOMAIN h = Accounts /\ \A x \in Accounts : h[x] \in Int
      /\ DOMAIN f = Accounts /\ \A x \in Accounts : f[x] \in Int
      /\ \A x \in Accounts \ {a} : f[x] = h[x]
    BY <1>1, <1>2
<1> HIDE DEF h
<1>4. Adding!Fold(0, h, Accounts \ {a}) = r
    BY <1>3, AccountsFoldable, Adding!FoldSame
<1>5. r \in Int /\ Sum(f) = f[a] + r
    BY <1>3, SumWithout
<1>6. Sum(h) = h[a] + Adding!Fold(0, h, Accounts \ {a})
    BY <1>3, SumWithout
<1> HIDE DEF r
<1>7. Sum(f) \in Int /\ Sum(h) \in Int /\ Sum(h) = v + r
    BY <1>1, <1>2, <1>3, <1>4, <1>5, <1>6
<1>8. Same(v + r, f[a] + z + r)
    BY <1>1, <1>2, <1>5, SameShift
<1>9. f[a] + z + r = Sum(f) + z
    BY <1>1, <1>5
<1> QED BY <1>3, <1>7, <1>8, <1>9 DEF h, v

\* Events.
Events == [type : {"Minted", "Burned"}, nonce : Uint256, amount : Uint256]

LEMMA IssuedIsFold == ASSUME NEW s PROVE Issued(s) = Issuing!Fold(0, s, DOMAIN s)
BY Zenon DEF Issued, FoldLeft, MapThenFoldSet, Issuing!Fold, Issuing!Iterates,
             AddEvent, Largest

LEMMA PositionsFoldable ==
    ASSUME NEW n \in Nat
    PROVE  Issuing!Foldable(1 .. n) /\ (n # 0 => Largest(1 .. n) = n)
<1>1. IsFiniteSet(1 .. n)
    BY FS_Interval
<1>2. Issuing!IsFiniteSet(1 .. n)
    BY <1>1 DEF IsFiniteSet, Issuing!IsFiniteSet
<1>3. ASSUME NEW T \in SUBSET (1 .. n), T # {} PROVE Largest(T) \in T
    <2>1. IsFiniteSet(T)
        BY <1>1, FS_Subset
    <2>2. Issuing!IsFiniteSet(T)
        BY <2>1 DEF IsFiniteSet, Issuing!IsFiniteSet
    <2>3. \E x \in T : \A y \in T : x >= y
        <3>1. T \subseteq Int
            OBVIOUS
        <3> QED BY <1>3, <2>2, <3>1, Issuing!LargestExists
    <2> QED BY <2>3 DEF Largest, Max
<1>4. ASSUME n # 0 PROVE Largest(1 .. n) = n
    <2>1. n \in 1 .. n /\ \A y \in 1 .. n : n >= y
        BY <1>4
    <2>2. \A x \in 1 .. n : (\A y \in 1 .. n : x >= y) => x = n
        BY <2>1
    <2> QED BY <2>1, <2>2 DEF Largest, Max
<1> QED BY <1>2, <1>3, <1>4 DEF Issuing!Foldable

LEMMA SignedType == ASSUME NEW e \in Events PROVE Signed(e) \in Int
BY DEF Signed, Events, Uint256

LEMMA IssuedEmpty == Issued(<<>>) = 0
<1>1. DOMAIN <<>> = {}
    OBVIOUS
<1> QED BY <1>1, IssuedIsFold, Issuing!FoldEmpty

LEMMA IssuedAppend ==
    ASSUME NEW s \in Seq(Events), NEW e
    PROVE  Issued(Append(s, e)) = Issued(s) + Signed(e)
<1> DEFINE n == Len(s)
           new == Append(s, e)
<1>1. /\ n \in Nat /\ n + 1 \in Nat /\ n + 1 # 0 /\ DOMAIN s = 1 .. n
      /\ DOMAIN new = 1 .. n + 1 /\ new[n + 1] = e /\ \A i \in 1 .. n : new[i] = s[i]
    OBVIOUS
<1> HIDE DEF n, new
<1>2. /\ Issuing!Foldable(1 .. n) /\ Issuing!Foldable(1 .. n + 1)
      /\ Largest(1 .. n + 1) = n + 1
    BY <1>1, PositionsFoldable
<1>3. 1 .. n + 1 # {} /\ (1 .. n + 1) \ {n + 1} = 1 .. n
    <2>1. n + 1 \in 1 .. n + 1 /\ n + 1 \notin 1 .. n /\ 1 .. n \subseteq 1 .. n + 1
        BY <1>1
    <2>2. \A i \in 1 .. n + 1 : i \in 1 .. n \/ i = n + 1
        BY <1>1
    <2> QED BY <2>1, <2>2
<1>4. Issuing!Fold(0, new, 1 .. n + 1)
        = AddEvent(new[n + 1], Issuing!Fold(0, new, 1 .. n))
    BY <1>2, <1>3, Issuing!FoldStep
<1>5. Issuing!Fold(0, new, 1 .. n) = Issuing!Fold(0, s, 1 .. n)
    BY <1>1, <1>2, Issuing!FoldSame
<1>6. Issued(new) = AddEvent(e, Issued(s))
    BY <1>1, <1>4, <1>5, IssuedIsFold
<1> QED BY <1>6 DEF AddEvent, new

-----------------------------------------------------------------------------
(* The contract. *)

States ==
    [totalSupply : Uint256, minter : Accounts, balanceOf : [Accounts -> Uint256],
     allowance : [Accounts -> [Accounts -> Uint256]], usedNonces : SUBSET Uint256,
     events : Seq(Events)]

\* The events name each nonce that was minted once.
NoncesOnce(s) ==
    \A k \in DOMAIN s.events : s.events[k].type = "Minted" =>
        /\ s.events[k].nonce \in s.usedNonces
        /\ \A l \in DOMAIN s.events :
              s.events[l].type = "Minted" /\ s.events[l].nonce = s.events[k].nonce => k = l

Balanced(s) ==
    /\ Sum(s.balanceOf) \in Int /\ Same(s.totalSupply, Sum(s.balanceOf))
    /\ Issued(s.events) \in Int /\ Same(s.totalSupply, Issued(s.events))

Sound(s) == s \in States /\ Balanced(s) /\ NoncesOnce(s)

LEMMA StateFields ==
    ASSUME NEW s \in States
    PROVE  /\ s.totalSupply \in Uint256 /\ s.minter \in Accounts
           /\ s.balanceOf \in [Accounts -> Uint256]
           /\ s.allowance \in [Accounts -> [Accounts -> Uint256]]
           /\ s.usedNonces \in SUBSET Uint256 /\ s.events \in Seq(Events)
           /\ Uint256 \subseteq Int
BY DEF States, Uint256

\* The constructor issues nothing.
LEMMA ConstructorSound == ASSUME NEW m \in Accounts PROVE Sound(constructor(m))
<1> DEFINE s == constructor(m)
<1>1. 0 \in Uint256
    BY WordAssumption DEF Uint256
<1>2. s \in States
    BY <1>1 DEF constructor, States
<1>3. /\ s.totalSupply = 0 /\ s.balanceOf = [a \in Accounts |-> 0]
      /\ s.events = <<>>
    BY DEF constructor
<1> HIDE DEF s
<1>4. Balanced(s)
    BY <1>3, SumOfZero, IssuedEmpty, SameReflexive DEF Balanced
<1>5. NoncesOnce(s)
    BY <1>3 DEF NoncesOnce
<1> QED BY <1>2, <1>4, <1>5 DEF Sound, s

\* Moving tokens changes neither the supply nor, in words, the sum.
LEMMA MoveSound ==
    ASSUME NEW s, Sound(s), NEW from \in Accounts, NEW to \in Accounts,
           NEW amount \in Uint256
    PROVE  Sound(Move(s, from, to, amount))
<1> DEFINE f == s.balanceOf
           g == [f EXCEPT ![from] = (f[from] + (-amount)) % Word]
           h == [g EXCEPT ![to] = (g[to] + amount) % Word]
           t == [s EXCEPT !.balanceOf = h]
<1>1. amount \in Int /\ -amount \in Int /\ f \in [Accounts -> Uint256]
      /\ s \in States /\ Balanced(s) /\ NoncesOnce(s)
    BY StateFields DEF Sound, Uint256
<1>2. Move(s, from, to, amount) = t
    <2>1. f[from] - amount = f[from] + (-amount)
        BY <1>1, StateFields
    <2>2. Minus(f[from], amount) = (f[from] + (-amount)) % Word
        BY <2>1 DEF Minus
    <2> QED BY <2>2, Zenon DEF Move, Plus
<1>3. /\ g \in [Accounts -> Uint256] /\ Sum(f) \in Int /\ Sum(g) \in Int
      /\ Same(Sum(g), Sum(f) + (-amount))
    BY <1>1, SumUpdate
<1> HIDE DEF f, g
<1>4. /\ h \in [Accounts -> Uint256] /\ Sum(h) \in Int /\ Same(Sum(h), Sum(g) + amount)
    BY <1>1, <1>3, SumUpdate
<1> HIDE DEF h
<1>5. Same(Sum(h), Sum(f))
    <2>0. Sum(f) + (-amount) \in Int
        BY <1>1, <1>3
    <2>1. Same(Sum(g) + amount, Sum(f) + (-amount) + amount)
        BY <1>1, <1>3, <2>0, SameShift
    <2>2. Sum(f) + (-amount) + amount = Sum(f) /\ Sum(g) + amount \in Int
        BY <1>1, <1>3
    <2> QED BY <1>3, <1>4, <2>1, <2>2, SameTransitive
<1>6. /\ t \in States /\ t.totalSupply = s.totalSupply /\ t.events = s.events
      /\ t.usedNonces = s.usedNonces /\ t.balanceOf = h
    BY <1>1, <1>4 DEF States
<1> HIDE DEF t
<1>7. Balanced(t)
    <2>1. s.totalSupply \in Int /\ Same(s.totalSupply, Sum(f))
        BY <1>1, StateFields DEF Balanced, f
    <2>2. Same(Sum(f), Sum(h))
        BY <1>3, <1>4, <1>5, SameSymmetric
    <2>3. Same(s.totalSupply, Sum(h))
        BY <1>3, <1>4, <2>1, <2>2, SameTransitive
    <2> QED BY <1>1, <1>4, <1>6, <2>3 DEF Balanced
<1>8. NoncesOnce(t)
    BY <1>1, <1>6 DEF NoncesOnce
<1> QED BY <1>2, <1>6, <1>7, <1>8 DEF Sound

LEMMA TransferSound ==
    ASSUME NEW s, Sound(s), NEW c \in Calls, c.fn = "transfer"
    PROVE  Sound(transfer(s, c))
<1>1. c.sender \in Accounts /\ c.to \in Accounts /\ c.amount \in Uint256
    BY DEF Calls
<1> QED BY <1>1, MoveSound DEF transfer

\* Allowances are not tokens.
LEMMA AllowanceSound ==
    ASSUME NEW s, Sound(s), NEW w \in [Accounts -> [Accounts -> Uint256]]
    PROVE  Sound([s EXCEPT !.allowance = w])
<1> DEFINE t == [s EXCEPT !.allowance = w]
<1>1. /\ t \in States /\ t.totalSupply = s.totalSupply /\ t.events = s.events
      /\ t.usedNonces = s.usedNonces /\ t.balanceOf = s.balanceOf
    BY DEF Sound, States
<1> HIDE DEF t
<1>2. Balanced(t) /\ NoncesOnce(t)
    BY <1>1 DEF Sound, Balanced, NoncesOnce
<1> QED BY <1>1, <1>2 DEF Sound, t

LEMMA ApproveSound ==
    ASSUME NEW s, Sound(s), NEW c \in Calls, c.fn = "approve"
    PROVE  Sound(approve(s, c))
<1>1. c.sender \in Accounts /\ c.to \in Accounts /\ c.amount \in Uint256
    BY DEF Calls
<1> DEFINE w == [s.allowance EXCEPT ![c.sender][c.to] = c.amount]
<1>2. s \in States /\ s.allowance \in [Accounts -> [Accounts -> Uint256]]
    BY StateFields DEF Sound
<1>3. w \in [Accounts -> [Accounts -> Uint256]]
    BY <1>1, <1>2
<1>4. approve(s, c) = [s EXCEPT !.allowance = w]
    BY <1>2 DEF approve, States
<1> HIDE DEF w
<1> QED BY <1>3, <1>4, AllowanceSound

\* What transferFrom has done when it reaches _transfer.
Reduced(s, c) == [s EXCEPT !.allowance[c.from][c.sender] = @ - c.amount]

LEMMA ReducedSound ==
    ASSUME NEW s, Sound(s), NEW c \in Calls, c.fn = "transferFrom",
           s.allowance[c.from][c.sender] >= c.amount
    PROVE  /\ Sound(Reduced(s, c))
           /\ \E w \in [Accounts -> [Accounts -> Uint256]] :
                 /\ Reduced(s, c) = [s EXCEPT !.allowance = w]
                 /\ \A a, b \in Accounts : w[a][b] <= s.allowance[a][b]
<1>1. /\ c.sender \in Accounts /\ c.from \in Accounts /\ c.to \in Accounts
      /\ c.amount \in Uint256
    BY DEF Calls
<1> DEFINE v == s.allowance[c.from][c.sender] - c.amount
           w == [s.allowance EXCEPT ![c.from][c.sender] = v]
<1>2. s \in States /\ s.allowance \in [Accounts -> [Accounts -> Uint256]]
    BY StateFields DEF Sound
<1>3. v \in Uint256 /\ v <= s.allowance[c.from][c.sender]
    <2>1. s.allowance[c.from][c.sender] \in Uint256
        BY <1>1, <1>2
    <2> QED BY <1>1, <2>1, WordAssumption DEF Uint256
<1>4. Reduced(s, c) = [s EXCEPT !.allowance = w]
    BY <1>2 DEF Reduced, States
<1> HIDE DEF v
<1>5. w \in [Accounts -> [Accounts -> Uint256]]
    BY <1>1, <1>2, <1>3
<1>6. \A a, b \in Accounts : w[a][b] <= s.allowance[a][b]
    <2> SUFFICES ASSUME NEW a \in Accounts, NEW b \in Accounts
                 PROVE  w[a][b] <= s.allowance[a][b]
        OBVIOUS
    <2>1. s.allowance[a][b] \in Int
        BY <1>2 DEF Uint256
    <2>2. \/ a = c.from /\ b = c.sender /\ w[a][b] = v
          \/ w[a][b] = s.allowance[a][b]
        BY <1>1, <1>2
    <2> QED BY <1>3, <2>1, <2>2
<1> HIDE DEF w
<1>7. Sound(Reduced(s, c))
    BY <1>4, <1>5, AllowanceSound
<1> QED BY <1>4, <1>5, <1>6, <1>7

LEMMA TransferFromSound ==
    ASSUME NEW s, Sound(s), NEW c \in Calls, c.fn = "transferFrom"
    PROVE  Sound(transferFrom(s, c, "stop"))
<1>1. /\ c.sender \in Accounts /\ c.from \in Accounts /\ c.to \in Accounts
      /\ c.amount \in Uint256
    BY DEF Calls
<1>2. CASE s.allowance[c.from][c.sender] < c.amount
    BY <1>2 DEF transferFrom
<1>3. CASE ~(s.allowance[c.from][c.sender] < c.amount)
    <2>1. s.allowance[c.from][c.sender] >= c.amount
        <3>1. s.allowance[c.from][c.sender] \in Int /\ c.amount \in Int
            BY <1>1, StateFields DEF Sound, Uint256
        <3> QED BY <1>3, <3>1
    <2>2. Sound(Reduced(s, c))
        BY <2>1, ReducedSound
    <2>3. Sound(Move(Reduced(s, c), c.from, c.to, c.amount))
        BY <1>1, <2>2, MoveSound
    <2> QED BY <1>3, <2>2, <2>3 DEF transferFrom, Reduced
<1> QED BY <1>2, <1>3

LEMMA SetMinterSound ==
    ASSUME NEW s, Sound(s), NEW c \in Calls, c.fn = "setMinter"
    PROVE  Sound(setMinter(s, c))
<1>1. c.to \in Accounts
    BY DEF Calls
<1> DEFINE t == [s EXCEPT !.minter = c.to]
<1>2. /\ t \in States /\ t.totalSupply = s.totalSupply /\ t.events = s.events
      /\ t.usedNonces = s.usedNonces /\ t.balanceOf = s.balanceOf
    BY <1>1 DEF Sound, States
<1> HIDE DEF t
<1>3. Balanced(t) /\ NoncesOnce(t)
    BY <1>2 DEF Sound, Balanced, NoncesOnce
<1> QED BY <1>2, <1>3 DEF Sound, t, setMinter

\* Tokens that appear or disappear, with the event that says so.
LEMMA IssueSound ==
    ASSUME NEW s, Sound(s), NEW a \in Accounts, NEW e \in Events, NEW t \in States,
           t.totalSupply = (s.totalSupply + Signed(e)) % Word,
           t.balanceOf = [s.balanceOf EXCEPT ![a] = (s.balanceOf[a] + Signed(e)) % Word],
           t.events = Append(s.events, e)
    PROVE  Balanced(t)
<1> DEFINE z == Signed(e)
           T == s.totalSupply
           f == s.balanceOf
           h == t.balanceOf
<1>1. z \in Int /\ T \in Int /\ f \in [Accounts -> Uint256] /\ s.events \in Seq(Events)
    BY SignedType, StateFields DEF Sound
<1>2. /\ Sum(f) \in Int /\ Same(T, Sum(f))
      /\ Issued(s.events) \in Int /\ Same(T, Issued(s.events))
    BY DEF Sound, Balanced
<1>3. Sum(h) \in Int /\ Same(Sum(h), Sum(f) + z)
    BY <1>1, SumUpdate
<1>4. Issued(t.events) = Issued(s.events) + z
    BY <1>1, IssuedAppend
<1>5. t.totalSupply \in Int /\ Same(t.totalSupply, T + z)
    <2>1. T + z \in Int
        BY <1>1
    <2> QED BY <2>1, InAWord, StateFields
<1> HIDE DEF z, T, f, h
<1>6. Same(T + z, Sum(f) + z) /\ Same(T + z, Issued(s.events) + z)
    BY <1>1, <1>2, SameShift
<1>7. T + z \in Int /\ Sum(f) + z \in Int /\ Issued(s.events) + z \in Int
    BY <1>1, <1>2
<1>8. Same(Sum(f) + z, Sum(h))
    BY <1>3, <1>7, SameSymmetric
<1>9. Same(T + z, Sum(h))
    BY <1>3, <1>6, <1>7, <1>8, SameTransitive
<1>10. Same(t.totalSupply, Sum(h)) /\ Same(t.totalSupply, Issued(s.events) + z)
    BY <1>3, <1>5, <1>6, <1>7, <1>9, SameTransitive
<1> QED BY <1>3, <1>4, <1>7, <1>10 DEF Balanced, h

LEMMA MintSound ==
    ASSUME NEW s, Sound(s), NEW c \in Calls, c.fn = "mint"
    PROVE  Sound(mint(s, c))
<1>1. /\ c.to \in Accounts /\ c.amount \in Uint256 /\ c.nonce \in Uint256
    BY DEF Calls
<1>2. CASE c.sender # s.minter \/ c.nonce \in s.usedNonces
    BY <1>2 DEF mint
<1>3. CASE ~(c.sender # s.minter \/ c.nonce \in s.usedNonces)
    <2> DEFINE t == mint(s, c)
               e == [type |-> "Minted", nonce |-> c.nonce, amount |-> c.amount]
               v == (s.balanceOf[c.to] + c.amount) % Word
               m == (s.totalSupply + c.amount) % Word
    <2>0. s \in States
        BY DEF Sound
    <2>1. v \in Uint256 /\ m \in Uint256
        <3>1. s.balanceOf[c.to] + c.amount \in Int /\ s.totalSupply + c.amount \in Int
            BY <1>1, <2>0, StateFields DEF Uint256
        <3> QED BY <3>1, InAWord
    <2>2. e \in Events /\ Signed(e) = c.amount /\ e.type = "Minted" /\ e.nonce = c.nonce
        BY <1>1 DEF Events, Signed
    <2> HIDE DEF v, m, e
    <2>3. t = [s EXCEPT !.usedNonces = s.usedNonces \cup {c.nonce},
                        !.balanceOf = [s.balanceOf EXCEPT ![c.to] = v],
                        !.totalSupply = m,
                        !.events = Append(s.events, e)]
        BY <1>3, <2>0 DEF mint, Plus, v, m, e, States
    <2>4. /\ t.usedNonces = s.usedNonces \cup {c.nonce}
          /\ t.balanceOf = [s.balanceOf EXCEPT ![c.to] = v]
          /\ t.totalSupply = m /\ t.events = Append(s.events, e)
        BY <2>0, <2>3 DEF States
    <2>5. t \in States
        <3>1. Append(s.events, e) \in Seq(Events)
            BY <2>0, <2>2, StateFields
        <3>2. [s.balanceOf EXCEPT ![c.to] = v] \in [Accounts -> Uint256]
            BY <2>0, <2>1, StateFields
        <3>3. s.usedNonces \cup {c.nonce} \in SUBSET Uint256
            BY <1>1, <2>0, StateFields
        <3> QED BY <2>0, <2>1, <2>3, <3>1, <3>2, <3>3 DEF States
    <2> HIDE DEF t
    <2>6. Balanced(t)
        BY <1>1, <2>2, <2>4, <2>5, IssueSound DEF v, m
    <2>7. NoncesOnce(t)
        <3> DEFINE n == Len(s.events)
        <3>1. s.events \in Seq(Events)
            BY <2>0, StateFields
        <3>2. /\ DOMAIN t.events = 1 .. n + 1 /\ n \in Nat /\ DOMAIN s.events = 1 .. n
              /\ t.events[n + 1] = e /\ \A k \in 1 .. n : t.events[k] = s.events[k]
            BY <2>4, <3>1
        <3> HIDE DEF n
        <3>3. \A k \in DOMAIN t.events : k \in DOMAIN s.events \/ k = n + 1
            BY <3>2
        <3>4. \A k \in DOMAIN s.events :
                 s.events[k].type = "Minted" => s.events[k].nonce # c.nonce
            BY <1>3 DEF Sound, NoncesOnce
        <3>5. NoncesOnce(s)
            BY DEF Sound
        <3> QED BY <2>2, <2>4, <3>2, <3>3, <3>4, <3>5 DEF NoncesOnce
    <2> QED BY <2>5, <2>6, <2>7 DEF Sound, t
<1> QED BY <1>2, <1>3

LEMMA BurnSound ==
    ASSUME NEW s, Sound(s), NEW c \in Calls, c.fn = "burn"
    PROVE  Sound(burn(s, c))
<1>1. /\ c.sender \in Accounts /\ c.amount \in Uint256 /\ c.nonce \in Uint256
    BY DEF Calls
<1>2. CASE s.balanceOf[c.sender] < c.amount
    BY <1>2 DEF burn
<1>3. CASE ~(s.balanceOf[c.sender] < c.amount)
    <2> DEFINE t == burn(s, c)
               e == [type |-> "Burned", nonce |-> c.nonce, amount |-> c.amount]
               v == (s.balanceOf[c.sender] + Signed(e)) % Word
               m == (s.totalSupply + Signed(e)) % Word
    <2>0. s \in States
        BY DEF Sound
    <2>1. e \in Events /\ Signed(e) = -c.amount /\ e.type # "Minted"
        BY <1>1 DEF Events, Signed
    <2>2. /\ v \in Uint256 /\ m \in Uint256
          /\ v = Minus(s.balanceOf[c.sender], c.amount)
          /\ m = Minus(s.totalSupply, c.amount)
        <3> HIDE DEF e
        <3>1. /\ s.balanceOf[c.sender] \in Int /\ s.totalSupply \in Int /\ c.amount \in Int
            BY <1>1, <2>0, StateFields DEF Uint256
        <3>2. /\ s.balanceOf[c.sender] + Signed(e) \in Int /\ s.totalSupply + Signed(e) \in Int
              /\ s.balanceOf[c.sender] + Signed(e) = s.balanceOf[c.sender] - c.amount
              /\ s.totalSupply + Signed(e) = s.totalSupply - c.amount
            BY <2>1, <3>1
        <3> QED BY <3>2, InAWord DEF Minus
    <2> HIDE DEF v, m, e
    <2>3. t = [s EXCEPT !.balanceOf = [s.balanceOf EXCEPT ![c.sender] = v],
                        !.totalSupply = m,
                        !.events = Append(s.events, e)]
        BY <1>3, <2>0, <2>2 DEF burn, e, States
    <2>4. /\ t.usedNonces = s.usedNonces
          /\ t.balanceOf = [s.balanceOf EXCEPT ![c.sender] = v]
          /\ t.totalSupply = m /\ t.events = Append(s.events, e)
        BY <2>0, <2>3 DEF States
    <2>5. t \in States
        <3>1. Append(s.events, e) \in Seq(Events)
            BY <2>0, <2>1, StateFields
        <3>2. [s.balanceOf EXCEPT ![c.sender] = v] \in [Accounts -> Uint256]
            BY <2>0, <2>2, StateFields
        <3> QED BY <2>0, <2>2, <2>3, <3>1, <3>2 DEF States
    <2> HIDE DEF t
    <2>6. Balanced(t)
        BY <1>1, <2>1, <2>4, <2>5, IssueSound DEF v, m
    <2>7. NoncesOnce(t)
        <3> DEFINE n == Len(s.events)
        <3>1. s.events \in Seq(Events)
            BY <2>0, StateFields
        <3>2. /\ DOMAIN t.events = 1 .. n + 1 /\ n \in Nat /\ DOMAIN s.events = 1 .. n
              /\ t.events[n + 1] = e /\ \A k \in 1 .. n : t.events[k] = s.events[k]
            BY <2>4, <3>1
        <3> HIDE DEF n
        <3>3. \A k \in DOMAIN t.events : k \in DOMAIN s.events \/ k = n + 1
            BY <3>2
        <3>4. NoncesOnce(s)
            BY DEF Sound
        <3> QED BY <2>1, <2>4, <3>2, <3>3, <3>4 DEF NoncesOnce
    <2> QED BY <2>5, <2>6, <2>7 DEF Sound, t
<1> QED BY <1>2, <1>3

LEMMA CallNames ==
    ASSUME NEW c \in Calls
    PROVE  c.fn \in {"transfer", "approve", "transferFrom", "mint", "burn", "setMinter"}
BY DEF Calls

LEMMA ExecSound ==
    ASSUME NEW s, Sound(s), NEW c \in Calls
    PROVE  Sound(Exec(s, c, "stop"))
<1>1. CASE c.fn = "transfer"
    BY <1>1, TransferSound DEF Exec
<1>2. CASE c.fn = "approve"
    BY <1>2, ApproveSound DEF Exec
<1>3. CASE c.fn = "transferFrom"
    BY <1>3, TransferFromSound DEF Exec
<1>4. CASE c.fn = "mint"
    BY <1>4, MintSound DEF Exec
<1>5. CASE c.fn = "burn"
    BY <1>5, BurnSound DEF Exec
<1>6. CASE c.fn = "setMinter"
    BY <1>6, SetMinterSound DEF Exec
<1> QED BY <1>1, <1>2, <1>3, <1>4, <1>5, <1>6, CallNames

ContractInv == contract = <<>> \/ Sound(contract)

LEMMA CallType ==
    ASSUME NEW job \in Jobs PROVE Call(job) \in Transactions
<1>1. job[1] \in Callers /\ job[2] \in DOMAIN Program(job[1])
    BY JobParts
<1>2. Program(job[1]) \in Seq(Transactions)
    BY <1>1, ProgramAssumption
<1> QED BY <1>1, <1>2 DEF Call

LEMMA ContractStep == TypeInv /\ ContractInv /\ [Next]_vars => ContractInv'
<1> SUFFICES ASSUME TypeInv, ContractInv, [Next]_vars PROVE ContractInv'
    OBVIOUS
<1>1. ASSUME NEW t \in pool, Mine(t) PROVE ContractInv'
    <2> DEFINE call == Call(t.job)
    <2>1. t.job \in Jobs
        BY DEF TypeInv
    <2>2. call \in Transactions
        BY <2>1, CallType
    <2> HIDE DEF call
    <2>3. call.fn = "deploy" => call.to \in Accounts
        BY <2>2 DEF Transactions, Calls
    <2>4. call.fn # "deploy" => call \in Calls
        BY <2>2 DEF Transactions
    <2>5. contract' = Executed(call)
        BY <1>1 DEF Mine, call
    <2>6. CASE call.fn = "deploy" /\ contract = <<>>
        BY <2>3, <2>5, <2>6, ConstructorSound DEF Executed, ContractInv
    <2>7. CASE call.fn # "deploy" /\ contract # <<>>
        BY <2>4, <2>5, <2>7, ExecSound DEF Executed, ContractInv
    <2>8. CASE ~(call.fn = "deploy" /\ contract = <<>>)
               /\ ~(call.fn # "deploy" /\ contract # <<>>)
        BY <2>5, <2>8 DEF Executed, ContractInv
    <2> QED BY <2>6, <2>7, <2>8
<1>2. ASSUME UNCHANGED contract PROVE ContractInv'
    BY <1>2 DEF ContractInv
<1>3. ASSUME NEW c \in Callers, FetchHeight(c) \/ FetchNonce(c) \/ AddTx(c)
      PROVE  ContractInv'
    BY <1>2, <1>3 DEF FetchHeight, FetchNonce, AddTx, node
<1>4. CASE UNCHANGED vars
    BY <1>2, <1>4 DEF vars, node
<1> QED BY <1>1, <1>3, <1>4, Steps

LEMMA ContractInvariance == Spec => [](TypeInv /\ ContractInv)
<1>1. Init => ContractInv
    BY DEF Init, ContractInv
<1> QED BY <1>1, NonceInvariance, ContractStep, PTL DEF Spec

\* The supply is the sum of the balances and what the events say, modulo the
\* word size, and no source nonce is minted twice, though the patched contract
\* keeps what a failed call did and its arithmetic wraps.
THEOREM SupplyAddsUp == Spec => []SupplyIsSum
<1>1. ASSUME NEW x \in Uint256, NEW y \in Int, Same(x, y) PROVE x = y % Word
    <2>1. y % Word \in Uint256 /\ Same(y % Word, y)
        BY InAWord
    <2>2. x \in Int /\ y % Word \in Int
        BY <2>1 DEF Uint256
    <2>3. Same(y, y % Word)
        BY <2>1, <2>2, SameSymmetric
    <2>4. Same(x, y % Word)
        BY <1>1, <2>2, <2>3, SameTransitive
    <2> QED BY <2>1, <2>4, SameWord
<1>2. ASSUME ContractInv PROVE SupplyIsSum
    <2> SUFFICES ASSUME Deployed PROVE SupplyIsSum
        BY DEF SupplyIsSum
    <2>1. Sound(contract)
        BY <1>2 DEF ContractInv, Deployed
    <2>2. contract.totalSupply \in Uint256
        BY <2>1, StateFields DEF Sound
    <2>3. contract.totalSupply = Sum(contract.balanceOf) % Word
        BY <1>1, <2>1, <2>2 DEF Sound, Balanced
    <2>4. contract.totalSupply = Issued(contract.events) % Word
        BY <1>1, <2>1, <2>2 DEF Sound, Balanced
    <2>5. NoncesOnce(contract)
        BY <2>1 DEF Sound
    <2> QED BY <2>3, <2>4, <2>5 DEF SupplyIsSum, Sum, NoncesOnce
<1> QED BY <1>2, ContractInvariance, PTL

-----------------------------------------------------------------------------
(* A failed call that stops against one that reverts. *)

\* t is r with allowances that are not higher.
LowersAllowance(t, r) ==
    /\ t = [r EXCEPT !.allowance = t.allowance]
    /\ \A a, b \in Accounts : t.allowance[a][b] <= r.allowance[a][b]

LEMMA LowersNothing == ASSUME NEW r \in States PROVE LowersAllowance(r, r)
<1>1. r = [r EXCEPT !.allowance = r.allowance]
    BY DEF States
<1>2. \A a, b \in Accounts : r.allowance[a][b] \in Int
    BY StateFields DEF Uint256
<1> QED BY <1>1, <1>2 DEF LowersAllowance

LEMMA StopOrRevert ==
    ASSUME NEW s, Sound(s), NEW c \in Calls
    PROVE  LowersAllowance(Exec(s, c, "stop"), Exec(s, c, "revert"))
<1> DEFINE t == Exec(s, c, "stop")
           r == Exec(s, c, "revert")
<1>1. t \in States
    BY ExecSound DEF Sound
<1>2. CASE t = r
    BY <1>1, <1>2, LowersNothing
<1>3. CASE t # r
    <2>1. c.fn = "transferFrom"
        BY <1>3, CallNames DEF Exec
    <2>2. t = transferFrom(s, c, "stop") /\ r = transferFrom(s, c, "revert")
        BY <2>1 DEF Exec
    <2>3. /\ ~(s.allowance[c.from][c.sender] < c.amount)
          /\ s.balanceOf[c.from] < c.amount
        BY <1>3, <2>2 DEF transferFrom
    <2>4. t = Reduced(s, c) /\ r = s
        BY <2>2, <2>3 DEF transferFrom, Reduced
    <2>5. s.allowance[c.from][c.sender] >= c.amount
        <3>1. c.sender \in Accounts /\ c.from \in Accounts /\ c.amount \in Uint256
            BY <2>1 DEF Calls
        <3>2. s.allowance[c.from][c.sender] \in Int /\ c.amount \in Int
            BY <3>1, StateFields DEF Sound, Uint256
        <3> QED BY <2>3, <3>2
    <2>6. PICK w \in [Accounts -> [Accounts -> Uint256]] :
             /\ Reduced(s, c) = [s EXCEPT !.allowance = w]
             /\ \A a, b \in Accounts : w[a][b] <= s.allowance[a][b]
        BY <2>1, <2>5, ReducedSound
    <2> HIDE DEF t, r
    <2>7. t.allowance = w
        BY <2>4, <2>6 DEF Sound, States
    <2> QED BY <2>4, <2>6, <2>7 DEF LowersAllowance, t, r
<1> QED BY <1>2, <1>3

\* A call that fails in the patched contract leaves it as a reverted one would,
\* except that an allowance may be lower: no tokens move and none are issued.
THEOREM HaltedCallsKeepTokens == Spec => HaltKeepsTokens
<1> DEFINE Halts ==
        Deployed /\ chain' # chain /\ Call(Last(chain')).fn # "deploy" =>
            LET reverted == Exec(contract, Call(Last(chain')), "revert")
            IN  /\ contract' = [reverted EXCEPT !.allowance = contract'.allowance]
                /\ \A a, b \in Accounts :
                      contract'.allowance[a][b] <= reverted.allowance[a][b]
<1>1. TypeInv /\ ContractInv /\ [Next]_vars => [Halts]_vars
    <2> SUFFICES ASSUME TypeInv, ContractInv, [Next]_vars, Deployed, chain' # chain,
                        Call(Last(chain')).fn # "deploy"
                 PROVE  LowersAllowance(contract', Exec(contract, Call(Last(chain')), "revert"))
        BY DEF LowersAllowance
    <2>1. PICK t \in pool : Mine(t)
        BY Steps DEF FetchHeight, FetchNonce, AddTx, vars, node
    <2>2. Last(chain') = t.job /\ contract' = Executed(Call(t.job)) /\ t.job \in Jobs
        BY <2>1 DEF Mine, Last, TypeInv
    <2>3. Call(t.job) \in Calls
        BY <2>2, CallType DEF Transactions
    <2>4. contract' = Exec(contract, Call(t.job), "stop")
        BY <2>2 DEF Executed, Deployed
    <2>5. Sound(contract)
        BY DEF ContractInv, Deployed
    <2> QED BY <2>2, <2>3, <2>4, <2>5, StopOrRevert
<1> QED BY <1>1, ContractInvariance, PTL DEF Spec, HaltKeepsTokens
=============================================================================
