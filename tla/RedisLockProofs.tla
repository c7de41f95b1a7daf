-------------------------- MODULE RedisLockProofs --------------------------
(***************************************************************************)
(* Proofs about the lease lock of RedisLock, for every value of the        *)
(* constants: the type invariant, and, when renewal calls do not fail, the *)
(* invariant that the lease covers the critical section, from which mutual *)
(* exclusion follows.                                                      *)
(***************************************************************************)
EXTENDS RedisLock, FiniteSetTheorems, TLAPS

\* Facts about the constants used throughout.
LEMMA ConstantFacts ==
    /\ Timeout \in Nat /\ Timeout >= 2
    /\ Period \in Nat /\ Period >= 1 /\ Timeout = 2 * Period
    /\ UnitsPerMs \in Nat \ {0}
    /\ TTLMillis \in Nat /\ LeaseTTL \in 0..Timeout
    /\ MaxGoroutines \in Nat
<1>1. Timeout \in Nat /\ Timeout >= 2 /\ Period \in Nat /\ Period >= 1
      /\ Timeout = 2 * Period
  BY TimeoutAssumption DEF Period
<1>2. TTLMillis \in Nat /\ TTLMillis * UnitsPerMs <= Timeout
  BY <1>1, UnitAssumption DEF TTLMillis
<1>3. LeaseTTL \in 0..Timeout
  BY <1>2, UnitAssumption DEF LeaseTTL
<1>4. QED
  BY <1>1, <1>2, <1>3, UnitAssumption, BoundAssumption

\* The hypothesis on the timeout: at least one millisecond, so that the
\* truncation of line 41 leaves a positive PEXPIRE argument.
MillisecondTimeout == Timeout >= UnitsPerMs

\* A timeout of at least a millisecond gives the key a TTL that PEXPIRE
\* keeps, and that outlasts the ticker period: truncating to whole
\* milliseconds loses less than a millisecond, hence less than half the
\* timeout.
LEMMA TruncationFacts ==
    ASSUME MillisecondTimeout
    PROVE  PexpireKeeps /\ LeaseTTL - Period >= 1
<1>1. TTLMillis >= 1
  BY ConstantFacts DEF MillisecondTimeout, TTLMillis
<1>2. Timeout - LeaseTTL < UnitsPerMs
  BY ConstantFacts DEF TTLMillis, LeaseTTL
<1>3. LeaseTTL >= UnitsPerMs
  BY <1>1, ConstantFacts DEF LeaseTTL
<1>4. QED
  BY <1>1, <1>2, <1>3, ConstantFacts DEF PexpireKeeps

\* A ticker step keeps the ticker in its range.
LEMMA TickerNextType ==
    ASSUME NEW t \in TickerState
    PROVE  TickerNext(t) \in TickerState
  BY ConstantFacts DEF TickerNext, TickerState

-----------------------------------------------------------------------------
(* The type invariant. *)

\* Every step of the lock keeps the types TypeOK gives.
LEMMA TypeInvariance == TypeOK /\ [Next]_vars => TypeOK'
<1> SUFFICES ASSUME TypeOK, [Next]_vars PROVE TypeOK'
  OBVIOUS
<1> USE ConstantFacts
<1>1. ASSUME NEW p \in Procs, Acquire(p) PROVE TypeOK'
  BY <1>1 DEF Acquire, TypeOK
<1>2. ASSUME NEW p \in Procs, Return(p) PROVE TypeOK'
  BY <1>2 DEF Return, TypeOK
<1>3. ASSUME NEW p \in Procs, KeepAliveStart(p) PROVE TypeOK'
  BY <1>3 DEF KeepAliveStart, TypeOK, TickerState
<1>4. ASSUME NEW p \in Procs, KeepAliveRenew(p) PROVE TypeOK'
  <2>1. PICK o \in Outcomes("renew") :
              /\ ttl' = IF RenewExtends(o) THEN LeaseTTL ELSE ttl
              /\ running' = IF o = "ok" THEN running
                                        ELSE [running EXCEPT ![p] = @ - 1]
    BY <1>4 DEF KeepAliveRenew
  <2>2. running' \in [Procs -> 0..MaxGoroutines]
        /\ \A q \in Procs : running'[q] <= running[q]
    BY <1>4, <2>1 DEF KeepAliveRenew, TypeOK
  <2>3. ticker' \in [Procs -> TickerState]
    BY <1>4 DEF KeepAliveRenew, TypeOK, TickerState
  <2>4. QED
    BY <1>4, <2>1, <2>2, <2>3 DEF KeepAliveRenew, TypeOK
<1>5. ASSUME NEW p \in Procs, Crash(p) PROVE TypeOK'
  BY <1>5 DEF Crash, TypeOK, NoTicker, TickerState
<1>6. ASSUME NEW p \in Procs, Restart(p) PROVE TypeOK'
  BY <1>6 DEF Restart, TypeOK
<1>7. CASE Tick
  <2>1. ticker' \in [Procs -> TickerState]
    BY <1>7, TickerNextType DEF Tick, TypeOK
  <2>2. QED
    BY <1>7, <2>1 DEF Tick, TypeOK
<1>8. CASE UNCHANGED vars
  BY <1>8 DEF vars, TypeOK
<1>9. QED
  BY <1>1, <1>2, <1>3, <1>4, <1>5, <1>6, <1>7, <1>8 DEF Next

\* Every reachable state has the types TypeOK gives: in particular no
\* handle ever has more KeepAlive goroutines than the bound.
THEOREM TypeCorrect == Spec => []TypeOK
<1>1. Init => TypeOK
  BY ConstantFacts DEF Init, TypeOK, NoTicker, TickerState
<1>2. QED
  BY <1>1, TypeInvariance, PTL DEF Spec

-----------------------------------------------------------------------------
(* The lease covers the critical section. *)

\* The hypothesis of the exclusion theorems: KeepAlive's renewal calls do
\* not fail (Acquire and Release calls may).
RenewReliable == "renew" \notin FaultyOps

\* The timing argument.  While p runs fn, the key is p's, and either p's
\* KeepAlive goroutine has not yet started (then no time has passed since
\* the key was written, so its TTL is full), or a goroutine of p's handle
\* is looping on a live ticker and the TTL outlasts the ticker's next tick
\* by Timeout - Period: the tick is served before time advances again and
\* puts the TTL back to Timeout.
LeaseInv ==
    \A p \in Procs : pc[p] = "fn" =>
        /\ kv = LockValue
        /\ owner = p
        /\ starting[p] > 0 => ttl = LeaseTTL
        /\ starting[p] = 0 =>
              /\ running[p] >= 1
              /\ ticker[p].cd \in 1..Period
              /\ ttl >= LeaseTTL - Period
                       + (IF ticker[p].pend THEN 0 ELSE ticker[p].cd)

\* The stored value and its ghost writer go together: a key is stored
\* exactly when some process's Acquire wrote it.
StoreInv == (kv = Nil) <=> (owner = NoOwner)

IInv == TypeOK /\ StoreInv /\ LeaseInv

\* The initial state satisfies the strengthened invariant: nobody runs fn.
LEMMA InitIInv == Init => IInv
  BY ConstantFacts DEF Init, IInv, TypeOK, StoreInv, LeaseInv, NoTicker,
                       TickerState

\* Every step writes and deletes the value together with its writer.
LEMMA StoreInvariance == TypeOK /\ StoreInv /\ [Next]_vars => StoreInv'
<1> SUFFICES ASSUME TypeOK, StoreInv, [Next]_vars PROVE StoreInv'
  OBVIOUS
<1>0. LockValue # Nil /\ NoOwner \notin Procs
  BY NoOwnerAssumption DEF LockValue, Nil
<1>1. ASSUME NEW p \in Procs, Acquire(p) PROVE StoreInv'
  BY <1>0, <1>1 DEF Acquire, StoreInv, TypeOK
<1>2. ASSUME NEW p \in Procs, Return(p) PROVE StoreInv'
  BY <1>2 DEF Return, StoreInv
<1>3. ASSUME NEW p \in Procs, KeepAliveRenew(p) PROVE StoreInv'
  BY <1>3 DEF KeepAliveRenew, StoreInv
<1>4. CASE Tick
  BY <1>4 DEF Tick, StoreInv
<1>5. QED
  BY <1>1, <1>2, <1>3, <1>4
     DEF Next, KeepAliveStart, Crash, Restart, StoreInv, vars

\* Every step keeps the lease invariant, when renewals do not fail and
\* the timeout is at least a millisecond.
LEMMA LeaseInvariance ==
    ASSUME RenewReliable, MillisecondTimeout
    PROVE  IInv /\ [Next]_vars => IInv'
<1> SUFFICES ASSUME IInv, [Next]_vars PROVE IInv'
  OBVIOUS
<1>1. TypeOK' /\ StoreInv'
  BY TypeInvariance, StoreInvariance DEF IInv
<1> SUFFICES ASSUME NEW p \in Procs, pc'[p] = "fn"
             PROVE  LeaseInv!(p)'
  BY <1>1 DEF IInv, LeaseInv
<1> USE ConstantFacts
<1>a. PexpireKeeps /\ LeaseTTL - Period >= 1
  BY TruncationFacts
<1> DEFINE Lease(q) == LeaseInv!(q)
<1>0. /\ TypeOK
      /\ \A q \in Procs : Lease(q)
  BY DEF IInv, LeaseInv
<1>2. ASSUME NEW q \in Procs, Acquire(q) PROVE LeaseInv!(p)'
  <2>1. CASE q = p
    <3>1. PICK o \in Outcomes("acquire") :
            LET won == AcquireWins(o)
                entered == won /\ o = "ok"
            IN  /\ kv' = IF won /\ PexpireKeeps THEN LockValue ELSE kv
                /\ ttl' = IF won THEN LeaseTTL ELSE ttl
                /\ owner' = IF won /\ PexpireKeeps THEN q ELSE owner
                /\ pc' = IF entered THEN [pc EXCEPT ![q] = "fn"] ELSE pc
                /\ starting' = IF entered THEN [starting EXCEPT ![q] = @ + 1]
                                          ELSE starting
      BY <1>2 DEF Acquire
    <3>2. AcquireWins(o) /\ o = "ok"
      BY <1>2, <2>1, <3>1, <1>0 DEF Acquire, TypeOK
    <3>3. kv' = LockValue /\ owner' = p /\ ttl' = LeaseTTL /\ starting'[p] > 0
      BY <2>1, <3>1, <3>2, <1>0, <1>a DEF TypeOK
    <3>4. QED
      BY <3>3
  <2>2. CASE q # p
    <3>1. pc[p] = "fn"
      BY <1>2, <2>2, <1>0 DEF Acquire, TypeOK
    <3>2. kv = LockValue
      BY <3>1, <1>0
    <3>3. UNCHANGED <<kv, ttl, owner>> /\ starting'[p] = starting[p]
          /\ running' = running /\ ticker' = ticker
      BY <1>2, <2>2, <3>2, <1>0 DEF Acquire, AcquireWins, TypeOK, Nil, LockValue
    <3>4. QED
      BY <3>1, <3>3, <1>0
  <2>3. QED
    BY <2>1, <2>2
<1>3. ASSUME NEW q \in Procs, Return(q) PROVE LeaseInv!(p)'
  \* q leaves fn, so q # p; both running fn, both would own the key.
  <2>1. q # p /\ pc[p] = "fn" /\ pc[q] = "fn"
    BY <1>3, <1>0 DEF Return, TypeOK
  <2>2. FALSE
    BY <2>1, <1>0
  <2>3. QED
    BY <2>2
<1>4. ASSUME NEW q \in Procs, KeepAliveStart(q) PROVE LeaseInv!(p)'
  <2>1. pc[p] = "fn" /\ UNCHANGED <<kv, ttl, owner>>
    BY <1>4 DEF KeepAliveStart
  <2>2. CASE q = p
    BY <1>4, <2>1, <2>2, <1>0 DEF KeepAliveStart, TypeOK
  <2>3. CASE q # p
    BY <1>4, <2>1, <2>3, <1>0 DEF KeepAliveStart, TypeOK
  <2>4. QED
    BY <2>2, <2>3
<1>5. ASSUME NEW q \in Procs, KeepAliveRenew(q) PROVE LeaseInv!(p)'
  <2>1. pc[p] = "fn" /\ UNCHANGED <<kv, owner, starting>>
    BY <1>5, <1>a DEF KeepAliveRenew
  <2>2. Outcomes("renew") = {"ok"}
    BY DEF Outcomes, RenewReliable
  <2>3. ttl' = LeaseTTL /\ running' = running
    BY <1>5, <2>1, <2>2, <1>0 DEF KeepAliveRenew, RenewExtends, Executed
  <2>4. ticker'[p].cd = ticker[p].cd
    BY <1>5, <1>0 DEF KeepAliveRenew, TypeOK
  <2>5. QED
    BY <2>1, <2>3, <2>4, <1>0 DEF TypeOK, TickerState
<1>6. ASSUME NEW q \in Procs, Crash(q) PROVE LeaseInv!(p)'
  <2>1. q # p
    BY <1>6, <1>0 DEF Crash, TypeOK
  <2>2. QED
    BY <1>6, <2>1, <1>0 DEF Crash, TypeOK
<1>7. ASSUME NEW q \in Procs, Restart(q) PROVE LeaseInv!(p)'
  <2>1. q # p
    BY <1>7, <1>0 DEF Restart, TypeOK
  <2>2. QED
    BY <1>7, <2>1, <1>0 DEF Restart, TypeOK
<1>8. CASE Tick
  <2>1. pc[p] = "fn" /\ UNCHANGED <<pc, starting, running>>
    BY <1>8 DEF Tick
  <2>2. starting[p] = 0 /\ ~ticker[p].pend
    BY <1>8, <2>1, <1>0 DEF Tick, GoroutineDue, TypeOK
  <2>3. /\ ticker[p].cd \in 1..Period
        /\ ttl >= LeaseTTL - Period + ticker[p].cd
        /\ kv = LockValue /\ owner = p /\ running[p] >= 1
    BY <2>1, <2>2, <1>0
  <2>4. UNCHANGED <<kv, owner>> /\ ttl' = ttl - 1
    BY <1>8, <2>3, <1>0, <1>a DEF Tick, TypeOK
  <2>5. ticker'[p] = TickerNext(ticker[p])
    BY <1>8 DEF Tick
  <2>6. CASE ticker[p].cd = 1
    <3>1. ticker'[p] = [cd |-> Period, pend |-> TRUE]
      BY <2>5, <2>6 DEF TickerNext
    <3>2. QED
      BY <2>1, <2>2, <2>3, <2>4, <3>1, <1>0 DEF TypeOK
  <2>7. CASE ticker[p].cd # 1
    <3>1. ticker'[p].cd = ticker[p].cd - 1 /\ ~ticker'[p].pend
      BY <2>2, <2>3, <2>5, <2>7, <1>0 DEF TickerNext, TypeOK, TickerState
    <3>2. QED
      BY <2>1, <2>2, <2>3, <2>4, <2>7, <3>1, <1>0 DEF TypeOK
  <2>8. QED
    BY <2>6, <2>7
<1>9. CASE UNCHANGED vars
  BY <1>9, <1>0 DEF vars
<1>10. QED
  BY <1>2, <1>3, <1>4, <1>5, <1>6, <1>7, <1>8, <1>9 DEF Next

\* Processes that all run fn as the key's owner are at most one.
LEMMA OwnerCoversFn == InFn \subseteq {owner} => MutualExclusion
<1> SUFFICES ASSUME InFn \subseteq {owner} PROVE MutualExclusion
  OBVIOUS
<1>1. IsFiniteSet({owner}) /\ Cardinality({owner}) = 1
  BY FS_Singleton
<1>2. Cardinality(InFn) <= Cardinality({owner})
  BY <1>1, FS_Subset
<1>3. QED
  BY <1>1, <1>2 DEF MutualExclusion

\* The lease invariant gives HolderOwnsKey, and the key has one owner.
LEMMA IInvImpliesExclusion == IInv => HolderOwnsKey /\ MutualExclusion
<1> SUFFICES ASSUME IInv PROVE HolderOwnsKey /\ MutualExclusion
  OBVIOUS
<1>1. HolderOwnsKey
  BY DEF IInv, LeaseInv, HolderOwnsKey, InFn
<1>2. InFn \subseteq {owner}
  BY <1>1 DEF HolderOwnsKey
<1>3. QED
  BY <1>1, <1>2, OwnerCoversFn

\* When KeepAlive's renewal calls do not fail, a process runs fn only while
\* the key in Redis is the one its own Acquire wrote: the renewals of
\* TryLock's KeepAlive goroutine, at half the TTL, always come before the
\* key expires.  Acquire and Release calls may fail and processes may
\* crash at any point.
THEOREM LeaseCoversFn ==
    ASSUME RenewReliable, MillisecondTimeout
    PROVE  Spec => []HolderOwnsKey
<1>1. IInv /\ [Next]_vars => IInv'
  BY LeaseInvariance
<1>2. Spec => []IInv
  BY <1>1, InitIInv, PTL DEF Spec
<1>3. QED
  BY <1>2, IInvImpliesExclusion, PTL

\* Under the same hypothesis, no two processes ever run fn at once.
THEOREM Exclusion ==
    ASSUME RenewReliable, MillisecondTimeout
    PROVE  Spec => []MutualExclusion
<1>1. IInv /\ [Next]_vars => IInv'
  BY LeaseInvariance
<1>2. Spec => []IInv
  BY <1>1, InitIInv, PTL DEF Spec
<1>3. QED
  BY <1>2, IInvImpliesExclusion, PTL

-----------------------------------------------------------------------------
(* The code implements the abstract lease lock. *)

\* One step of the lock, seen through the refinement mapping, is a step of
\* LeaseLock or leaves the mapped state unchanged.
LEMMA StepRefines ==
    ASSUME RenewReliable, MillisecondTimeout
    PROVE  IInv /\ [Next]_vars => [LL!Next]_LL!llvars
<1> SUFFICES ASSUME IInv, [Next]_vars PROVE [LL!Next]_LL!llvars
  OBVIOUS
<1> USE ConstantFacts
<1>a. PexpireKeeps /\ LeaseTTL - Period >= 1
  BY TruncationFacts
<1>0. /\ TypeOK /\ StoreInv /\ LeaseInv
      /\ LockValue # Nil /\ NoOwner \notin Procs
  BY NoOwnerAssumption DEF IInv, LockValue, Nil
\* A step that leaves the key's writer and every pc alone is a stutter.
<1>s. ASSUME owner' = owner, pc' = pc PROVE [LL!Next]_LL!llvars
  BY <1>s DEF InFn, LL!llvars
<1>1. ASSUME NEW q \in Procs, Acquire(q) PROVE [LL!Next]_LL!llvars
  <2>1. PICK o \in Outcomes("acquire") :
          LET won == AcquireWins(o)
              entered == won /\ o = "ok"
          IN  /\ kv' = IF won /\ PexpireKeeps THEN LockValue ELSE kv
              /\ owner' = IF won /\ PexpireKeeps THEN q ELSE owner
              /\ pc' = IF entered THEN [pc EXCEPT ![q] = "fn"] ELSE pc
    BY <1>1 DEF Acquire
  <2>2. CASE AcquireWins(o)
    <3>1. owner = NoOwner /\ owner' = q
      BY <1>0, <1>a, <2>1, <2>2 DEF AcquireWins, StoreInv
    <3>2. InFn' \in {InFn, InFn \cup {q}}
      BY <1>0, <1>1, <2>1 DEF InFn, TypeOK
    <3>3. QED
      BY <3>1, <3>2 DEF LL!Next, LL!Grant
  <2>3. CASE ~AcquireWins(o)
    BY <1>s, <2>1, <2>3
  <2>4. QED
    BY <2>2, <2>3
<1>2. ASSUME NEW q \in Procs, Return(q) PROVE [LL!Next]_LL!llvars
  <2>1. q \in InFn /\ owner = q /\ InFn' = InFn \ {q}
    BY <1>0, <1>2 DEF Return, InFn, LeaseInv, TypeOK
  <2>2. owner' = NoOwner \/ owner' = owner
    BY <1>2 DEF Return
  <2>3. QED
    BY <2>1, <2>2 DEF LL!Next, LL!Release, LL!Abandon
<1>3. ASSUME NEW q \in Procs, KeepAliveStart(q) PROVE [LL!Next]_LL!llvars
  BY <1>s, <1>3 DEF KeepAliveStart
<1>4. ASSUME NEW q \in Procs, KeepAliveRenew(q) PROVE [LL!Next]_LL!llvars
  BY <1>s, <1>4, <1>a DEF KeepAliveRenew
<1>5. ASSUME NEW q \in Procs, Crash(q) PROVE [LL!Next]_LL!llvars
  <2>1. owner' = owner /\ InFn' = InFn \ {q}
    BY <1>0, <1>5 DEF Crash, InFn, TypeOK
  <2>2. CASE q \in InFn
    BY <2>1, <2>2 DEF LL!Next, LL!Abandon
  <2>3. CASE q \notin InFn
    BY <2>1, <2>3 DEF LL!llvars
  <2>4. QED
    BY <2>2, <2>3
<1>6. ASSUME NEW q \in Procs, Restart(q) PROVE [LL!Next]_LL!llvars
  <2>1. owner' = owner /\ InFn' = InFn
    BY <1>0, <1>6 DEF Restart, InFn, TypeOK
  <2>2. QED
    BY <2>1 DEF LL!llvars
<1>7. CASE Tick
  <2>1. pc' = pc
    BY <1>7 DEF Tick
  <2>2. CASE kv = LockValue /\ ttl = 1
    \* No process runs fn: its goroutine would be due, or the TTL >= 2.
    <3>1. ASSUME NEW p \in InFn PROVE FALSE
      <4>0. p \in Procs /\ pc[p] = "fn"
        BY DEF InFn
      <4>n. ~GoroutineDue(p)
        BY <4>0, <1>7 DEF Tick
      <4>1. starting[p] = 0
        BY <4>0, <4>n, <1>0 DEF GoroutineDue, TypeOK
      <4>2. /\ running[p] >= 1
            /\ ticker[p].cd \in 1..Period
            /\ ttl >= LeaseTTL - Period
                     + (IF ticker[p].pend THEN 0 ELSE ticker[p].cd)
        BY <4>0, <4>1, <1>0 DEF LeaseInv
      <4>3. ~ticker[p].pend
        BY <4>0, <4>n, <4>2, <1>0 DEF GoroutineDue, TypeOK, TickerState
      <4>4. QED
        BY <4>2, <4>3, <2>2, <1>a
    <3>2. owner # NoOwner /\ owner \notin InFn /\ owner' = NoOwner
      BY <3>1, <2>2, <1>7, <1>0 DEF Tick, StoreInv
    <3>3. InFn' = InFn
      BY <2>1 DEF InFn
    <3>4. QED
      BY <3>2, <3>3 DEF LL!Next, LL!Expire
  <2>3. CASE ~(kv = LockValue /\ ttl = 1)
    BY <1>s, <1>7, <2>1, <2>3 DEF Tick
  <2>4. QED
    BY <2>2, <2>3
<1>8. CASE UNCHANGED vars
  BY <1>s, <1>8 DEF vars
<1>9. QED
  BY <1>1, <1>2, <1>3, <1>4, <1>5, <1>6, <1>7, <1>8 DEF Next

\* When renewals do not fail and the timeout is at least a millisecond,
\* the code implements the lease lock the spec promises: with the writer
\* of the stored value as the lease holder and the processes running fn
\* as its critical section, every step of TryLock, Release, KeepAlive, a
\* crash or the passing of time is a LeaseLock step or a stutter.
THEOREM Refinement ==
    ASSUME RenewReliable, MillisecondTimeout
    PROVE  Spec => ImplementsLeaseLock
<1>1. Spec => []IInv
  BY InitIInv, LeaseInvariance, PTL DEF Spec
<1>2. Init => LL!Init
  BY DEF Init, LL!Init, InFn
<1>3. QED
  BY <1>1, <1>2, StepRefines, PTL DEF Spec, ImplementsLeaseLock, LL!Spec

\* Exclusion again, this time carried over from the abstract lock through
\* the refinement: the abstract lock keeps its critical section within the
\* lease holder (LeaseLock's AbstractExclusion), and the mapping makes the
\* processes running fn that critical section and the key's writer that
\* holder.
COROLLARY ExclusionByRefinement ==
    ASSUME RenewReliable, MillisecondTimeout
    PROVE  Spec => []MutualExclusion
<1>1. LL!Spec => [](LL!LLTypeOK /\ LL!Exclusive)
  BY NoOwnerAssumption, LL!AbstractExclusion
<1>2. LL!Exclusive => MutualExclusion
  BY OwnerCoversFn DEF LL!Exclusive
<1>3. QED
  BY Refinement, <1>1, <1>2, PTL DEF ImplementsLeaseLock

-----------------------------------------------------------------------------
(* A key expires only when no process has a KeepAlive goroutine. *)

\* The timing argument for every live KeepAlive goroutine, not only the
\* current holder's.  A looping goroutine's ticker is live.  While a key
\* is stored, a spawned goroutine means the TTL is still full (time has
\* not passed since the Acquire that spawned it), and a looping goroutine
\* will renew the key before it expires: whoever wrote the key, the fixed
\* value makes every goroutine's renewal succeed.
RenewInv ==
    \A p \in Procs :
        /\ running[p] >= 1 => ticker[p].cd \in 1..Period
        /\ kv = LockValue =>
              /\ starting[p] > 0 => ttl = LeaseTTL
              /\ running[p] >= 1 =>
                    ttl >= LeaseTTL - Period
                           + (IF ticker[p].pend THEN 0 ELSE ticker[p].cd)

\* Every step keeps RenewInv, when renewals do not fail and the timeout
\* is at least a millisecond.
LEMMA RenewInvariance ==
    ASSUME RenewReliable, MillisecondTimeout
    PROVE  TypeOK /\ RenewInv /\ [Next]_vars => RenewInv'
<1> SUFFICES ASSUME TypeOK, RenewInv, [Next]_vars, NEW p \in Procs
             PROVE  RenewInv!(p)'
  BY DEF RenewInv
<1> USE ConstantFacts
<1>a. PexpireKeeps /\ LeaseTTL - Period >= 1
  BY TruncationFacts
<1>0. /\ \A q \in Procs : RenewInv!(q)
      /\ LockValue # Nil
  BY DEF RenewInv, LockValue, Nil
<1>1. ASSUME NEW q \in Procs, Acquire(q) PROVE RenewInv!(p)'
  <2>1. CASE kv = Nil
    BY <1>1, <2>1, <1>0 DEF Acquire, TypeOK, TickerState
  <2>2. CASE kv = LockValue
    <3>1. UNCHANGED <<kv, ttl, running, ticker>> /\ starting' = starting
      BY <1>1, <2>2, <1>0 DEF Acquire, AcquireWins
    <3>2. QED
      BY <3>1, <1>0
  <2>3. QED
    BY <2>1, <2>2 DEF TypeOK
<1>2. ASSUME NEW q \in Procs, Return(q) PROVE RenewInv!(p)'
  BY <1>2, <1>0 DEF Return
<1>3. ASSUME NEW q \in Procs, KeepAliveStart(q) PROVE RenewInv!(p)'
  <2>1. CASE q = p
    BY <1>3, <2>1, <1>0 DEF KeepAliveStart, TypeOK
  <2>2. CASE q # p
    BY <1>3, <2>2, <1>0 DEF KeepAliveStart, TypeOK
  <2>3. QED
    BY <2>1, <2>2
<1>4. ASSUME NEW q \in Procs, KeepAliveRenew(q) PROVE RenewInv!(p)'
  <2>1. Outcomes("renew") = {"ok"}
    BY DEF Outcomes, RenewReliable
  <2>2. /\ UNCHANGED <<kv, starting, running>>
        /\ ttl' = IF kv = LockValue THEN LeaseTTL ELSE ttl
        /\ ticker'[p].cd = ticker[p].cd
        /\ ticker'[p].pend \in BOOLEAN
    BY <1>4, <2>1, <1>a DEF KeepAliveRenew, RenewExtends, Executed,
                            TypeOK, TickerState
  <2>3. QED
    BY <2>2, <1>0 DEF TypeOK, TickerState
<1>5. ASSUME NEW q \in Procs, Crash(q) PROVE RenewInv!(p)'
  BY <1>5, <1>0 DEF Crash, TypeOK
<1>6. ASSUME NEW q \in Procs, Restart(q) PROVE RenewInv!(p)'
  BY <1>6, <1>0 DEF Restart
<1>7. CASE Tick
  <2>1. starting[p] = 0 /\ (running[p] >= 1 => ~ticker[p].pend)
    BY <1>7 DEF Tick, GoroutineDue, TypeOK
  <2>2. UNCHANGED <<starting, running>> /\ ticker'[p] = TickerNext(ticker[p])
    BY <1>7 DEF Tick
  <2>3. kv' = LockValue => kv = LockValue /\ ttl # 1
    BY <1>7, <1>0 DEF Tick
  <2>4. CASE running[p] >= 1
    <3>1. ~ticker[p].pend /\ ticker[p].cd \in 1..Period
      BY <2>1, <2>4 DEF RenewInv
    <3>2. kv' = LockValue => ttl' = ttl - 1 /\ ttl >= LeaseTTL - Period + ticker[p].cd
      <4>1. kv = LockValue => ttl >= LeaseTTL - Period + ticker[p].cd
        BY <2>4, <3>1 DEF RenewInv
      <4>2. QED
        BY <1>7, <2>3, <3>1, <4>1, <1>a DEF Tick, TypeOK
    <3>3. CASE ticker[p].cd = 1
      <4>1. ticker'[p] = [cd |-> Period, pend |-> TRUE]
        BY <2>2, <3>3 DEF TickerNext
      <4>2. QED
        BY <2>1, <2>2, <2>4, <3>2, <3>3, <4>1, <1>a DEF TypeOK
    <3>4. CASE ticker[p].cd # 1
      <4>1. ticker'[p].cd = ticker[p].cd - 1 /\ ~ticker'[p].pend
        BY <2>2, <3>1, <3>4 DEF TickerNext, TypeOK, TickerState
      <4>2. QED
        BY <2>1, <2>2, <2>4, <3>1, <3>2, <3>4, <4>1, <1>a DEF TypeOK
    <3>5. QED
      BY <3>3, <3>4
  <2>5. CASE ~(running[p] >= 1)
    BY <2>1, <2>2, <2>5
  <2>6. QED
    BY <2>4, <2>5
<1>8. CASE UNCHANGED vars
  BY <1>8, <1>0 DEF vars
<1>9. QED
  BY <1>1, <1>2, <1>3, <1>4, <1>5, <1>6, <1>7, <1>8 DEF Next

\* The expiry step: a stored key disappears while every pc stays as it is
\* only when time runs its TTL out, and then no goroutine is due and no
\* looping goroutine's TTL bound allows a TTL of 1.
LEMMA ExpiryStep ==
    ASSUME RenewReliable, MillisecondTimeout
    PROVE  TypeOK /\ RenewInv /\ [Next]_vars
             => [(kv = LockValue /\ kv' = Nil /\ pc' = pc) => NoRenewer]_vars
<1> SUFFICES ASSUME TypeOK, RenewInv, [Next]_vars,
                    kv = LockValue, kv' = Nil, pc' = pc
             PROVE  NoRenewer
  OBVIOUS
<1> USE ConstantFacts
<1>a. PexpireKeeps /\ LeaseTTL - Period >= 1
  BY TruncationFacts
<1>0. LockValue # Nil
  BY DEF LockValue, Nil
<1>1. Tick /\ ttl = 1
  <2>1. ASSUME NEW q \in Procs, Acquire(q) PROVE FALSE
    BY <2>1, <1>0 DEF Acquire, AcquireWins
  <2>2. ASSUME NEW q \in Procs, Return(q) PROVE FALSE
    BY <2>2 DEF Return, TypeOK
  <2>3. ASSUME NEW q \in Procs, KeepAliveRenew(q) PROVE FALSE
    BY <2>3, <1>a, <1>0 DEF KeepAliveRenew
  <2>4. ASSUME NEW q \in Procs, KeepAliveStart(q) \/ Crash(q) \/ Restart(q)
        PROVE FALSE
    BY <2>4, <1>0 DEF KeepAliveStart, Crash, Restart
  <2>5. CASE Tick
    BY <2>5, <1>0 DEF Tick
  <2>6. QED
    BY <2>1, <2>2, <2>3, <2>4, <2>5, <1>0 DEF Next, vars
<1>2. ASSUME NEW p \in Procs PROVE starting[p] + running[p] = 0
  <2>1. starting[p] = 0 /\ (running[p] > 0 => ~ticker[p].pend)
    BY <1>1 DEF Tick, GoroutineDue, TypeOK
  <2>2. running[p] = 0
    <3>1. SUFFICES ASSUME running[p] >= 1 PROVE FALSE
      BY DEF TypeOK
    <3>2. ticker[p].cd \in 1..Period /\ ttl >= LeaseTTL - Period + ticker[p].cd
      BY <2>1, <3>1 DEF RenewInv, TypeOK
    <3>3. QED
      BY <1>1, <3>2, <1>a
  <2>3. QED
    BY <2>1, <2>2
<1>3. QED
  BY <1>2 DEF NoRenewer

\* When renewals do not fail and the timeout is at least a millisecond,
\* a stored key expires only when no process has a KeepAlive goroutine:
\* with the fixed value, any live goroutine, leaked or current, renews
\* whoever's key is stored in time.
THEOREM ExpiryOnlyWithoutRenewer ==
    ASSUME RenewReliable, MillisecondTimeout
    PROVE  Spec => ExpiryOnlyWhenNoRenewer
<1>1. Init => TypeOK /\ RenewInv
  BY ConstantFacts DEF Init, TypeOK, RenewInv, NoTicker, TickerState
<1>2. TypeOK /\ RenewInv /\ [Next]_vars => (TypeOK /\ RenewInv)'
  BY TypeInvariance, RenewInvariance
<1>3. Spec => [](TypeOK /\ RenewInv)
  BY <1>1, <1>2, PTL DEF Spec
<1>4. QED
  BY <1>3, ExpiryStep, PTL DEF Spec, ExpiryOnlyWhenNoRenewer

=============================================================================
