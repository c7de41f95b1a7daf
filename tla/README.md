# Verification of the apc Redis lease lock and tracing helpers

TLA+ models of two parts of the repository:

- `src/cache/locker.go`, the only part that coordinates processes;
- `src/tracing/trace.go`, whose `Must` turns panics into errors and whose initialisation runs concurrently with requests.

An abstract lease lock states what the lock promises, and the lock is shown to implement it. The TLC runs check the models. TLAPS proves the main safety results and the refinement for every value of the constants.

## 1. Inventory

| Component | Source | State | Operations | Interacts with |
|---|---|---|---|---|
| Lease lock `RedisLock` | `src/cache/locker.go` | handle: `client`, `lockName`, `timeout`, `ctx`, `keepAlive` (a `*time.Ticker`) | `NewRedisLock`, `Acquire`, `Release`, `KeepAlive`, `TryLock` | Redis through three Lua scripts. A goroutine per `TryLock` (`go r.KeepAlive()`). |
| Redis store (external) | — | key → value, TTL | the scripts run atomically; keys expire | the lock, and any other client of the same Redis |
| `RedisClient` wrapper | `src/unnamed/part_003` | `ctx`, `client` | Get/Set/Del/MGet/MSet/Expire/TTL/Exists/HGet/HSet/HGetAll/Incr/Decr/IncrBy/DecrBy/SAdd/SMembers/SIsMember/SCard | the same Redis; each call is one command |
| Tracing | `src/tracing/trace.go` | global `tracer` | `InitJaegerProvider`, `Start`, `TraceID`, `RecordError`, `Must` (turns a panic into an error) | OpenTelemetry globals |
| Logger | `src/unnamed/part_000` | global `logger` | `LogInit`, `L` (panics if not initialised), log calls | zap |
| Errors | `src/unnamed/part_004`, `part_005` | none | `New` | — |

### How the lock works in the code

- **`Acquire`** runs `SETNX lockName "locked"` and then `PEXPIRE ttl` in one Lua script. `ttl` is `timeout` truncated to whole milliseconds. `PEXPIRE 0` deletes the key. The call returns true if SETNX set the key.
- **`Release`** runs `GET`. If the value is `"locked"`, it runs `DEL`. This is also one script.
- **`KeepAlive`** assigns `r.keepAlive = NewTicker(timeout/2)`. On each tick it runs `GET`, and if the value is `"locked"` it runs `PEXPIRE ttl`. It returns only when an `Eval` call fails. Nothing ever stops it.
- **`TryLock(fn)`** calls `Acquire`. On an error or a refusal it returns. Otherwise it starts `go r.KeepAlive()`, defers `Release` (whose error is discarded), and runs `fn`.

### What makes the lock hard to get right

- Several processes, and within each process the `fn` caller and any number of KeepAlive goroutines, interleave their steps.
- Correctness depends on time: the TTL against the ticker interval.
- An `Eval` call can fail before Redis runs it, or after Redis runs it when the reply is lost.
- A process can crash while it holds the key.
- Every holder writes the same value, `"locked"`, so the ownership checks in Release and KeepAlive cannot tell one holder from another.
- KeepAlive goroutines outlive their `TryLock`. Goroutines of a reused handle race on `r.keepAlive`.

### Properties that make the lock correct

These come from spec §8:

- mutual exclusion;
- the lease covers `fn` (renewal keeps ownership);
- a crashed holder's key expires (self-expiry);
- Release never deletes another holder's key;
- a key nobody renews always expires.

PROJECT.json `hazards` lists where in the code each of these can go wrong.

## 2. Modules

### `RedisLock.tla`: the lock as implemented

| Model | Code |
|---|---|
| `kv`, `ttl` | the value and remaining TTL of `lockName` in Redis |
| `owner` | ghost: the process whose SETNX wrote the value |
| `pc[p]` | `idle`, `fn` (inside `TryLock`, after Acquire) or `down` (crashed) |
| `starting[p]`, `running[p]` | KeepAlive goroutines of `p`'s handle that have been spawned but have not reached line 79, and those in the loop. They are counts because the goroutines of one handle are indistinguishable. |
| `ticker[p]` | the handle's `r.keepAlive`: countdown and a pending tick. All goroutines of a handle read this field (line 82). |

Time is counted in units, with `UnitsPerMs` units per millisecond:

- `TTLMillis == Timeout \div UnitsPerMs` is line 41's `int64(r.timeout / time.Millisecond)`.
- `LeaseTTL` is the TTL in units that `PEXPIRE TTLMillis` gives the key.
- `PexpireKeeps` is false when `TTLMillis = 0`. Then `PEXPIRE` deletes the key, in Acquire's script and in KeepAlive's script alike.

Actions:

| Action | Code |
|---|---|
| `Acquire(p)` | `TryLock` up to `fn` (lines 104–117), through `AcquireWins` (the script) |
| `Return(p)` | `fn` returns and the deferred Release runs (`ReleaseDeletes`) |
| `KeepAliveStart(p)` | line 79 |
| `KeepAliveRenew(p)` | lines 80–102 (`RenewExtends`). On an error the goroutine exits. |
| `Crash(p)` | the process dies with its goroutines |
| `Restart(p)` | a new process with a fresh handle (`NewRedisLock`) |
| `Tick` | one time unit passes. TTL and tickers count down; the key expires at 0. A Go ticker drops a tick if the previous one is still pending. |

Each Lua script is one atomic step. `Outcomes(op)` gives each fallible call three outcomes: `ok`, `lost_request` (the script did not run) and `lost_reply` (it ran, but the caller sees an error).

**Timeliness.** `Tick` is disabled while a goroutine step is due. This means goroutines are scheduled, and Redis answers, within one time unit. The spec calls this "normal scheduling latency" (§4.1). Every lease lock depends on it.

**Fairness (`FairSpec`).** Weak fairness on `Tick` (time passes) and on each process's goroutine steps (the Go scheduler runs a runnable goroutine). Callers, crashes and restarts are not fair: a process need not call again, and a crashed process need not come back.

### `LeaseLock.tla`: the abstract lock

This is what the spec (§2, §8) promises callers. `holder` is the process the lock is leased to, and `cs` is the set of processes in their critical section. The actions are:

- `Grant(p)`: only a free lock is granted. The grantee may not learn of it, since a reply can be lost.
- `Release(p)`: a process in `cs` frees its own lease.
- `Abandon(p)`: a process leaves `cs` without freeing the lock, after a failed release or a crash.
- `Expire`: a lease expires, but only while its holder is outside `cs`.

`Exclusive == cs \subseteq {holder}` follows from these actions. The module's theorem `AbstractExclusion` proves it, with the type `LLTypeOK`, whenever `NoOwner` is not a process.

`RedisLock` instantiates it as `LL == INSTANCE LeaseLock WITH holder <- owner, cs <- InFn`. The property `ImplementsLeaseLock == LL!Spec` says the code implements it.

### `MC_RedisLock.tla`: TLC instances

- Processes are model values `p1`, `p2`, `p3`.
- `Timeout = 4` in millisecond units (`MC_MsUnits`), so the ticker period is 2.
- `Timeout = 6` in quarter milliseconds (`MC_TruncTimeout`, `MC_QuarterMsUnits`): a 1.5 ms timeout. PEXPIRE gets 1 ms (4 units) and the ticker fires every 3 units, so truncation leaves a margin of one unit.
- `Timeout = 2` quarter milliseconds (`MC_SubMsTimeout`): 0.5 ms, so PEXPIRE gets 0.
- `MaxGoroutines = 2` KeepAlive goroutines per handle: one leaked from an earlier `TryLock` plus the current one.
- Symmetry over processes is used only in safety runs.

### `RedisLockProofs.tla`, `TracingProofs.tla`: TLAPS proofs

See §4. Each extends the module it proves things about and `TLAPS`.

### `Tracing.tla`: the tracing helpers

Request goroutines (`Callers`) follow the repository's gRPC interceptor (`trace_test.go`, `TracingUnaryInterceptor`):

1. `Start` a span;
2. run the handler, which calls `Must(ctx, fn)`;
3. `RecordError` on the handler's error and `End` the span (`Finish`).

The main goroutine runs `InitJaegerProvider` concurrently with the requests, as three steps that requests can interleave with:

| Action | Code |
|---|---|
| `InitCheck` | lines 23–27: an empty URL panics and ends the program (`Live`); otherwise `tracer` is renamed |
| `InitProvider` | lines 29–40: the exporter fails and the error is returned, or the SDK provider is installed globally |
| `InitPropagator` | lines 42–48 |
| `Start(c)` | lines 52–54. A span records iff the SDK provider is installed at that moment. Tracers that otel hands out earlier delegate to the provider installed later, so the name held in `tracer` does not matter. |
| `Must(c)` | lines 76–95 |
| `Finish(c)` | `trace_test.go` lines 66–73 |

`Must` is built from three operators:

- `Recover`: what `recover()` returns;
- `AsError`: the type switch;
- `MustErr`: the named result.

`RecordError` drops a nil error. `SpanFromContext` never returns nil, so line 68 is dead code. A non-recording span ignores the record.

Panic values are abstracted to what `Must` tells apart:

- an error;
- another value (formatted with `%v` into a new error);
- `nil`.

The constant `PanicNilIsError` is the build's choice for `panic(nil)`. Go ≥ 1.21 turns it into a `*runtime.PanicNilError`; older Go, or `GODEBUG=panicnil=1`, makes `recover()` return nil. The repository has no `go.mod`, so both builds are possible.

`MC_Tracing.tla` has two requests and the URLs `""` and `"collector"`.

## 3. Runs

| Run | Faults | Checks | Result |
|---|---|---|---|
| `lock_exclusion` | Acquire and Release may fail; crashes | `TypeOK`, `MutualExclusion`, `HolderOwnsKey`, `ExpiryOnlyWhenNoRenewer` | pass |
| `lock_faults` | every call may fail; crashes; `FairSpec` | `OrphanLockExpires` | pass |
| `renew_fault_exclusion` | renewals may fail | `MutualExclusion` | violated |
| `release_steals` | renewals may fail | `ReleaseOnlyOwn` | violated |
| `crash_self_expiry` | none; `FairSpec` | `SelfExpiry` | violated |
| `lock_refinement` | as `lock_exclusion`, with a 1.5 ms timeout | `ImplementsLeaseLock` | pass |
| `submillisecond_exclusion` | none; 0.5 ms timeout | `MutualExclusion` | violated |
| `tracing_must` | Go ≥ 1.21; both URLs; exporter may fail | `TypeOK`, `MustReportsFailure`, `ErrorsReported` | pass |
| `tracing_panic_nil` | Go < 1.21 | `MustReportsFailure` | violated |

`lock_exclusion` and `lock_refinement` use the 1.5 ms timeout, so the truncation of line 41 is exercised in every passing safety run.

The tracing runs do not check deadlock: a panic in `InitJaegerProvider` ends the program, and nothing runs after it. Without the empty URL, TLC finds no deadlock: requests cycle forever.

### Passing runs

- **`ExpiryOnlyWhenNoRenewer`** shows how the fixed value couples holders: with reliable renewals, a key expires only when no process in the system has a KeepAlive goroutine.
- **`ImplementsLeaseLock`** says every step of the code is a step of the abstract lock:
  - Acquire takes only a free lock;
  - the deferred Release frees only the caller's own lease;
  - a key expires only while its writer is outside `fn`.

  Under renew faults the same run fails (see `release_steals`).
- **`MustReportsFailure`**: `Must` returns nil exactly when `fn` returned nil.
- **`ErrorsReported`**: for a request started after `InitJaegerProvider` returned, the error `Must` returns is on its span with status Error before the interceptor sees it. This holds for every interleaving with initialisation. It holds because the provider is installed (line 40) before `InitJaegerProvider` returns, and because `Must` records on both its paths.
- **`OrphanLockExpires`** is the positive half of self-expiry: a key that no loop renews is freed. It depends on SETNX and PEXPIRE being one script.

### Violations (PROJECT.json `findings`)

1. **`renew_fault_exclusion`.** A single failed renewal ends KeepAlive (line 96), and `fn` is never told. The key expires and a second process enters `fn`. The spec says the loop retries up to the lease boundary and reports `LockLost`.
2. **`release_steals`.** The late holder's deferred Release deletes the new holder's key. The cause is the fixed value `"locked"` that the script compares with (line 59). The spec requires a per-acquisition token.
3. **`crash_self_expiry`.** `p2` runs TryLock and returns, but its KeepAlive loop keeps running. `p1` acquires and crashes. `p2`'s leaked loop renews `p1`'s key forever, so the lock is never free again. This needs no fault at all.
4. **`submillisecond_exclusion`.** With a 0.5 ms timeout, line 41 gives `PEXPIRE 0`, which deletes the key Acquire has just set. The script still returns 1, so `p1` and `p2` both enter `fn`. `NewRedisLock` does not check the timeout.
5. **`tracing_panic_nil`.** On Go < 1.21, `fn` calls `panic(nil)`, `recover()` returns nil, and `Must` returns the zero error, as if `fn` had succeeded. Nothing is recorded. Line 75's comment says panics become errors reported to tracing.

### Bounds

- Three processes is the smallest number with a third acquirer after two holders disagree.
- With `Timeout = 4`, expiry, a release and a renewal can all fall between two ticks, and a tick can be dropped.
- Two goroutines per handle show a leaked loop next to the current one.
- Quarter-millisecond units show truncation and the zero-millisecond case.
- Two requests suffice for one to start before and one after the provider is installed. Every outcome of `fn` is enumerated.
- The theorems cover every lease length, unit, number of processes, number of goroutines and number of requests.

## 4. Proofs (checked by tlapm)

### The lock (`RedisLockProofs.tla`)


- **`TypeCorrect`**: `Spec => []TypeOK`. It rests on `TypeInvariance`, a one-step lemma with one step per action.
- **`LeaseCoversFn`**: `Spec => []HolderOwnsKey`, under two hypotheses:
  - `RenewReliable`: renewal calls do not fail; Acquire and Release calls still may;
  - `MillisecondTimeout`: `Timeout >= UnitsPerMs`.

  `TruncationFacts` derives from `MillisecondTimeout` that `PEXPIRE` keeps the key, and that `LeaseTTL - Period >= 1`. Truncation loses less than a millisecond, which is at most half the timeout. The strengthened invariant `IInv` is `TypeOK /\ StoreInv /\ LeaseInv`. `StoreInv` says the key is stored exactly when it has a writer. `LeaseInv` says that while `p` runs `fn`:
  - the key is `p`'s;
  - if `p`'s goroutine has not started yet, the TTL is still full, because time cannot pass while a goroutine is due;
  - otherwise `p`'s handle has a live ticker, and `ttl >= Timeout - Period + cd` (or `>= Timeout - Period` while a tick is pending).

  A Tick keeps this relation, since `LeaseTTL - Period >= 1`. Any renewal restores the full TTL. TLC checked `TypeOK /\ LeaseInv` as an invariant of the `lock_exclusion` instance before it was proved.
- **`Exclusion`**: `Spec => []MutualExclusion` under the same hypothesis. It follows from `HolderOwnsKey`, because `InFn` is a subset of `{owner}` (`FS_Subset`, `FS_Singleton`).
- **`Refinement`**: `Spec => ImplementsLeaseLock`, under the same hypotheses. It follows the usual pattern:
  - `Init => LL!Init`;
  - `StepRefines`: `IInv /\ [Next]_vars => [LL!Next]_<<owner, InFn>>`, with one step per action.

  Each action maps as follows:
  - Acquire maps to `Grant`, or to a stutter when it loses. `StoreInv` shows the lock was free.
  - Return maps to `Release` or `Abandon`. `LeaseInv` shows the returning process owns the key.
  - Crash maps to `Abandon`.
  - An expiring Tick maps to `Expire`. `LeaseInv` shows no process in `fn` can see a TTL of 1.
  - Everything else is a stutter.
- **`ExpiryOnlyWithoutRenewer`**: `Spec => ExpiryOnlyWhenNoRenewer`, an action property, under the same hypotheses. `LeaseInv` only speaks of the process in `fn`. This theorem needs `RenewInv`, which covers every live KeepAlive goroutine, leaked or current, whoever wrote the key:
  - a looping goroutine's ticker has a countdown in `1..Period`;
  - while a key is stored, a spawned goroutine means the TTL is full;
  - while a key is stored, a looping goroutine's TTL bound is the same as in `LeaseInv`.

  `ExpiryStep` shows that the only step deleting a stored key with every `pc` unchanged is a Tick at TTL 1. That Tick is impossible while any goroutine is spawned or looping. TLC checked `RenewInv` on both `lock_exclusion` instances first.

- **`ExclusionByRefinement`** (a corollary): exclusion carried over from the abstract lock. `LeaseLock`'s `AbstractExclusion` gives `[]LL!Exclusive` for any behaviour of `LL!Spec`, and `Refinement` supplies one. The lemma `OwnerCoversFn` (`InFn \subseteq {owner} => MutualExclusion`) is shared with `Exclusion`.

### The abstract lock (`LeaseLock.tla`)

- **`AbstractExclusion`**: `Spec => [](LLTypeOK /\ Exclusive)` when `NoOwner \notin Procs`. The invariant is inductive as it stands, once it carries the type. A grant needs a free lock, and a free lock has nobody in `cs`, since `cs` holds processes only. `Expire` needs the holder outside `cs`.

### The tracing helpers (`TracingProofs.tla`)

- **`TypeCorrect`**: `Spec => []TypeOK`. It uses the operator lemmas `MustErrType` (Must returns an error value or nil) and `RecordErrorFacts` (RecordError keeps a span a span and keeps whether it records; on a recording span it records a non-nil error with status Error).
- **`ErrorsOnSpan`**: `Spec => []ErrorsReported`, for any set of requests. `ErrorsReported` is not inductive alone: `Must` needs the span it records on to be recording. The strengthening `IInv` adds three conjuncts:
  - `ProviderInv`: once `InitJaegerProvider` is past line 40, the SDK provider is installed. So a request started after it returned nil has a recording span.
  - `SpanInv`: such a request's span records until the request finishes.
  - `ResultInv`: after `Must` returned, `result` is `MustErr` of what `fn` did.

  TLC checked `IInv` on the `tracing_must` instance, in both builds, before it was proved.
- **`MustFailuresReported`**: `Spec => []MustReportsFailure` under the hypothesis `PanicNilIsError` (Go ≥ 1.21). It follows from `ResultInv` and the lemma `MustErrNilIffReturnNil`: with that build, `MustErr(out)` is nil exactly for `"return_nil"`. Without the hypothesis the lemma is false for `"panic_nil"`; that is the `tracing_panic_nil` finding.

### Assumptions, and what only TLC checks

The assumptions used are:

- `TimeoutAssumption`: Timeout even and at least 2;
- `UnitAssumption`;
- `BoundAssumption`;
- `NoOwnerAssumption`;
- the hypotheses `RenewReliable` and `MillisecondTimeout`;
- `TracingAssumption`, and the hypothesis `PanicNilIsError` for `MustFailuresReported`.

Only TLC checks the following:

- the liveness properties (`OrphanLockExpires`, `SelfExpiry`): TLAPS does not handle fairness and ENABLED;
- the violated properties, in the configurations where they fail (`MutualExclusion` with renew faults or a sub-millisecond timeout, `ReleaseOnlyOwn` with renew faults, `MustReportsFailure` on Go < 1.21): a theorem can only state that they hold.

## 5. Not modelled, and why

The test `TestRedisLock` (`src/unnamed/part_002`) is not modelled as a property. Its subtest "Lock acquisition failed" expects a second handle's `TryLock` to fail after the first `TryLock` has returned. In the code, that first `TryLock`'s deferred Release has already deleted the key (lines 59-60). So the second `TryLock` acquires, and the test's expectation disagrees with the code. In the model, `Return` followed by a second process's `Acquire` is exactly this behaviour.

The public `Acquire`, `Release` and `KeepAlive` are modelled only as `TryLock` calls them, not as direct calls by a user of the handle.

- The rest of Redis.
- Timeouts under 2 ns, where `NewTicker(timeout/2)` panics inside the goroutine: `TimeoutAssumption` keeps the ticker period positive.
- `tracing.TraceID`: it reads the span context and changes no state.
- The data race between line 27 and line 53 of `trace.go`: only its ordering effects are modelled, not a torn read of the interface value.
- The Jaeger exporter's I/O, span names and attributes.
- Logging and the error type: formatting and I/O only.
- The `RedisClient` wrapper: not modelled yet; see the plan.

## 6. Plan

1. **Done.** `RedisLock` with its runs, the type invariant, `LeaseCoversFn` and `Exclusion`.
2. **Done.** `ExpiryOnlyWithoutRenewer`. The millisecond truncation of line 41 and `PEXPIRE 0`. The abstract `LeaseLock` with the `Refinement` theorem. The `Tracing` module.
3. **Done.** Proofs of every tracing property, the abstract lock's exclusion and its transfer through the refinement.
4. **`RedisStore` + `RedisClient`.** A store module holding many keys with TTL, with one action per `RedisClient` method:
   - Get's nil-as-empty result;
   - the MSet/HSet argument checks;
   - Incr on 64-bit values with overflow.

   It would be composed with `RedisLock` over the same store, so that a plain Set, Del or Expire on the lock key interleaves with holders. This wrapper is outside the files this project counts as the implementation.
5. **Failed releases.** A liveness property that the key of a holder whose Release failed is freed while the process lives. It would fail for the same reason as `crash_self_expiry`: the leaked loop.
