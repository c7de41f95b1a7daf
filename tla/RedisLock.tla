----------------------------- MODULE RedisLock -----------------------------
(***************************************************************************)
(* The Redis lease lock of src/cache/locker.go, as the code implements it. *)
(*                                                                         *)
(* One lock name in one Redis store is shared by the processes in Procs.   *)
(* Each process owns one RedisLock handle and calls TryLock repeatedly:    *)
(* Acquire (a SETNX + PEXPIRE Lua script), then `go r.KeepAlive()`, then   *)
(* fn(), then the deferred Release (a GET + DEL Lua script).  KeepAlive is *)
(* a goroutine that renews the key (GET + PEXPIRE script) every time the   *)
(* handle's ticker fires; nothing ever stops it, it only returns when a    *)
(* renewal call fails.  Every script compares against the same fixed value *)
(* "locked", so ownership checks cannot tell one holder from another.      *)
(*                                                                         *)
(* Time advances in Tick steps of one unit; the key's TTL and every ticker *)
(* count down in units.  Each Lua script runs atomically in Redis and is   *)
(* one step; a failed call either never reached Redis or ran and lost its  *)
(* reply.                                                                  *)
(***************************************************************************)
EXTENDS Naturals, FiniteSets

CONSTANTS
    Procs,          \* the processes sharing the lock name, one handle each
    Timeout,        \* r.timeout, in time units
    UnitsPerMs,     \* time units per millisecond
    MaxGoroutines,  \* bound on the KeepAlive goroutines a handle has alive
    FaultyOps,      \* the Eval calls that may fail: subset of Ops
    NoOwner         \* ghost: no process wrote the current value

Ops == {"acquire", "renew", "release"}

ASSUME TimeoutAssumption == Timeout \in Nat /\ Timeout >= 2 /\ Timeout % 2 = 0
ASSUME UnitAssumption == UnitsPerMs \in Nat \ {0}
ASSUME BoundAssumption == MaxGoroutines \in Nat \ {0}
ASSUME FaultAssumption == FaultyOps \subseteq Ops
ASSUME NoOwnerAssumption == NoOwner \notin Procs

VARIABLES
    kv,        \* the value stored at r.lockName: Nil or LockValue
    ttl,       \* its remaining time to live (0 when absent)
    owner,     \* ghost: the process whose SETNX wrote the current value
    pc,        \* where each process is: "idle", "fn" (inside TryLock) or "down"
    starting,  \* spawned KeepAlive goroutines that have not run line 79 yet
    running,   \* KeepAlive goroutines inside their for/select loop
    ticker     \* the handle's r.keepAlive ticker: countdown and pending tick

vars == <<kv, ttl, owner, pc, starting, running, ticker>>

-----------------------------------------------------------------------------
(* Constants of the code. *)

\* lockValue := "locked" (the same in Acquire, Release and KeepAlive)
LockValue == "locked"
\* the nil reply of GET on an absent key
Nil == "nil"
\* Mutant: the TTL rounded up by one unit in the conversion to milliseconds.
LeaseTTLRoundedUp == Timeout + 1
\* Mutant: the scripts set no expiry on the key (modelled as ttl = 0).
LeaseTTLNone == 0
\* ttl := int64(r.timeout / time.Millisecond): the PEXPIRE argument, the
\* timeout truncated to whole milliseconds
TTLMillis == Timeout \div UnitsPerMs
\* the TTL, in time units, that PEXPIRE ttl gives the key
LeaseTTL == TTLMillis * UnitsPerMs
\* PEXPIRE with a TTL of 0 ms deletes the key instead of setting a TTL
PexpireKeeps == TTLMillis > 0
\* Mutant: the ticker interval is the whole timeout instead of half of it.
PeriodWholeTimeout == Timeout
\* time.NewTicker(r.timeout / 2)
Period == Timeout \div 2
\* r.keepAlive before the first KeepAlive goroutine sets it
NoTicker == [cd |-> 0, pend |-> FALSE]

\* The results an Eval call of operation op can have.  "lost_request":
\* the call failed before Redis ran the script; "lost_reply": the script
\* ran but the client got an error.
Outcomes(op) ==
    IF op \in FaultyOps THEN {"ok", "lost_request", "lost_reply"} ELSE {"ok"}

Executed(o) == o # "lost_request"

\* Mutant: SET instead of SETNX, the script writes the key even if present.
AcquireWinsBlind(o) == Executed(o)

\* Acquire's script (lines 30-53): SETNX then PEXPIRE, 1 if SETNX set the
\* key (even when PEXPIRE then deleted it).
AcquireWins(o) == Executed(o) /\ kv = Nil

\* Release's script (lines 56-74): DEL if GET returns "locked".
ReleaseDeletes(o) == Executed(o) /\ kv = LockValue

\* KeepAlive's script (lines 84-95): PEXPIRE if GET returns "locked".
RenewExtends(o) == Executed(o) /\ kv = LockValue

TickerState == [cd : 0..Period, pend : BOOLEAN]

TypeOK ==
    /\ kv \in {Nil, LockValue}
    /\ ttl \in 0..Timeout
    /\ owner \in Procs \cup {NoOwner}
    /\ pc \in [Procs -> {"idle", "fn", "down"}]
    /\ starting \in [Procs -> 0..MaxGoroutines]
    /\ running \in [Procs -> 0..MaxGoroutines]
    /\ \A p \in Procs : starting[p] + running[p] <= MaxGoroutines
    /\ ticker \in [Procs -> TickerState]

Init ==
    /\ kv = Nil
    /\ ttl = 0
    /\ owner = NoOwner
    /\ pc = [p \in Procs |-> "idle"]
    /\ starting = [p \in Procs |-> 0]
    /\ running = [p \in Procs |-> 0]
    /\ ticker = [p \in Procs |-> NoTicker]

-----------------------------------------------------------------------------
(* Operations. *)

\* TryLock up to fn (lines 105-117): Acquire's script sets the key and its
\* TTL only if absent; on success TryLock starts a KeepAlive goroutine and
\* enters fn.  An error or a refusal returns from TryLock.
\* A script that ran but lost its reply leaves a key nobody knows it holds.
Acquire(p) ==
    /\ pc[p] = "idle"
    /\ starting[p] + running[p] < MaxGoroutines
    /\ \E o \in Outcomes("acquire") :
        LET won == AcquireWins(o)
            entered == won /\ o = "ok"
        IN  /\ kv' = IF won /\ PexpireKeeps THEN LockValue ELSE kv
            /\ ttl' = IF won THEN LeaseTTL ELSE ttl
            /\ owner' = IF won /\ PexpireKeeps THEN p ELSE owner
            /\ pc' = IF entered THEN [pc EXCEPT ![p] = "fn"] ELSE pc
            /\ starting' = IF entered THEN [starting EXCEPT ![p] = @ + 1]
                                      ELSE starting
    /\ UNCHANGED <<running, ticker>>

\* Mutant: TryLock also stops the ticker on return (r.keepAlive.Stop()),
\* which leaves its KeepAlive goroutine blocked instead of ending it.
ReturnStopsTicker(p) ==
    /\ pc[p] = "fn"
    /\ \E o \in Outcomes("release") :
        IF ReleaseDeletes(o)
        THEN /\ kv' = Nil
             /\ ttl' = 0
             /\ owner' = NoOwner
        ELSE UNCHANGED <<kv, ttl, owner>>
    /\ pc' = [pc EXCEPT ![p] = "idle"]
    /\ ticker' = [ticker EXCEPT ![p] = NoTicker]
    /\ UNCHANGED <<starting, running>>

\* fn returns and the deferred Release runs (lines 119-121, 56-74): the
\* script deletes the key if it holds "locked", whoever wrote it.  Its
\* error is discarded.  The KeepAlive goroutine is left running.
Return(p) ==
    /\ pc[p] = "fn"
    /\ \E o \in Outcomes("release") :
        IF ReleaseDeletes(o)
        THEN /\ kv' = Nil
             /\ ttl' = 0
             /\ owner' = NoOwner
        ELSE UNCHANGED <<kv, ttl, owner>>
    /\ pc' = [pc EXCEPT ![p] = "idle"]
    /\ UNCHANGED <<starting, running, ticker>>

\* A spawned KeepAlive goroutine runs line 79: it replaces the handle's
\* ticker with a fresh one; the old ticker is abandoned, never stopped.
KeepAliveStart(p) ==
    /\ starting[p] > 0
    /\ starting' = [starting EXCEPT ![p] = @ - 1]
    /\ running' = [running EXCEPT ![p] = @ + 1]
    /\ ticker' = [ticker EXCEPT ![p] = [cd |-> Period, pend |-> FALSE]]
    /\ UNCHANGED <<kv, ttl, owner, pc>>

\* A KeepAlive goroutine of the handle receives the tick (lines 81-82) and
\* runs the renewal script (lines 84-95): PEXPIRE if the value is "locked".
\* On an error it returns (lines 96-98).
KeepAliveRenew(p) ==
    /\ running[p] > 0
    /\ ticker[p].pend
    /\ ticker' = [ticker EXCEPT ![p].pend = FALSE]
    /\ \E o \in Outcomes("renew") :
        /\ ttl' = IF RenewExtends(o) THEN LeaseTTL ELSE ttl
        /\ kv' = IF RenewExtends(o) /\ ~PexpireKeeps THEN Nil ELSE kv
        /\ owner' = IF RenewExtends(o) /\ ~PexpireKeeps THEN NoOwner ELSE owner
        /\ running' = IF o = "ok" THEN running
                                  ELSE [running EXCEPT ![p] = @ - 1]
    /\ UNCHANGED <<pc, starting>>

\* The process dies, with its goroutines and its handle; the key stays in
\* Redis until its TTL runs out.
Crash(p) ==
    /\ pc[p] # "down"
    /\ pc' = [pc EXCEPT ![p] = "down"]
    /\ starting' = [starting EXCEPT ![p] = 0]
    /\ running' = [running EXCEPT ![p] = 0]
    /\ ticker' = [ticker EXCEPT ![p] = NoTicker]
    /\ UNCHANGED <<kv, ttl, owner>>

\* The process comes back and builds a fresh handle (NewRedisLock, l. 20-27).
Restart(p) ==
    /\ pc[p] = "down"
    /\ pc' = [pc EXCEPT ![p] = "idle"]
    /\ UNCHANGED <<kv, ttl, owner, starting, running, ticker>>

\* A goroutine step that is due: a spawned goroutine, or a tick waiting
\* for a live goroutine of the handle.
GoroutineDue(p) ==
    starting[p] > 0 \/ (running[p] > 0 /\ ticker[p].pend)

\* A ticker that fires drops the tick if the last one is still pending.
TickerNext(t) ==
    IF t.cd = 0 THEN t
    ELSE IF t.cd = 1 THEN [cd |-> Period, pend |-> TRUE]
    ELSE [t EXCEPT !.cd = @ - 1]

\* One unit of time passes: the key's TTL counts down and the key expires
\* at 0; every ticker counts down.  Timeliness: goroutines are scheduled
\* and Redis answers within a unit, so time does not pass while a
\* goroutine step is due.
Tick ==
    /\ \A p \in Procs : ~GoroutineDue(p)
    /\ IF kv = LockValue /\ ttl = 1
       THEN /\ kv' = Nil
            /\ owner' = NoOwner
       ELSE UNCHANGED <<kv, owner>>
    /\ ttl' = IF ttl > 0 THEN ttl - 1 ELSE 0
    /\ ticker' = [p \in Procs |-> TickerNext(ticker[p])]
    /\ UNCHANGED <<pc, starting, running>>

Next ==
    \/ \E p \in Procs :
        \/ Acquire(p)
        \/ Return(p)
        \/ KeepAliveStart(p)
        \/ KeepAliveRenew(p)
        \/ Crash(p)
        \/ Restart(p)
    \/ Tick

Spec == Init /\ [][Next]_vars

\* Time passes and the goroutines of a live process get scheduled; the
\* callers (Acquire, Return, Restart) and crashes are not forced to happen.
Fairness ==
    /\ WF_vars(Tick)
    /\ \A p \in Procs : WF_vars(KeepAliveStart(p)) /\ WF_vars(KeepAliveRenew(p))

FairSpec == Spec /\ Fairness

-----------------------------------------------------------------------------
(* Properties. *)

InFn == {p \in Procs : pc[p] = "fn"}

\* No process has a KeepAlive goroutine, spawned or looping.
NoRenewer == \A p \in Procs : starting[p] + running[p] = 0

\* Mutual exclusion (spec 8.1): at most one process runs fn at a time.
MutualExclusion == Cardinality(InFn) <= 1

\* The lease covers the critical section (spec 8.3): while a process runs
\* fn, the key is present and was written by that process's Acquire, so
\* KeepAlive's renewals have kept it from expiring.
HolderOwnsKey ==
    \A p \in InFn : kv = LockValue /\ owner = p

\* With the fixed value every live KeepAlive loop renews whoever's key is
\* stored: the key expires only when no process has a live KeepAlive
\* goroutine.
ExpiryOnlyWhenNoRenewer ==
    [][ (kv = LockValue /\ kv' = Nil /\ pc' = pc)
          => NoRenewer ]_vars

\* Release only deletes the releasing process's own lock (spec 8.4/8.5):
\* the deferred Release of TryLock never deletes a key another process's
\* Acquire wrote.
ReleaseOnlyOwn ==
    [][ \A p \in Procs :
          (pc[p] = "fn" /\ pc'[p] = "idle" /\ kv = LockValue /\ kv' = Nil)
            => owner = p ]_vars

\* The TTL is the safety net of a lock nobody renews (spec 8.2, and the
\* reason Acquire sets the key and its TTL in one script): once no process
\* has a KeepAlive goroutine, the stored key eventually expires.
OrphanLockExpires == (kv = LockValue /\ NoRenewer) ~> (kv = Nil)

\* The lock as the spec promises it, seen through the code's state: the
\* lease holder is the process whose Acquire wrote the stored value, and
\* the processes in their critical section are those running fn.
LL == INSTANCE LeaseLock WITH holder <- owner, cs <- InFn

\* TryLock implements a lease lock (spec sections 2 and 8): Acquire takes
\* only a free lock, the deferred Release frees only the caller's own
\* lease, and a key expires only while its writer is outside fn.
ImplementsLeaseLock == LL!Spec

\* Self-expiry (spec 8.2): a lock whose holder crashed becomes free.
SelfExpiry ==
    \A p \in Procs :
        (kv = LockValue /\ owner = p /\ pc[p] = "down") ~> (kv = Nil)

=============================================================================
