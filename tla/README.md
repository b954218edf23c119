# Verification of the RLQS server

TLA+ modules, TLC configurations and TLAPS proofs for the Rate Limit Quota
Service in this repository. Everything is translated from the Go source; code
outside it (Redis, gRPC, fsnotify, time, signals) is modelled from how the
source uses it and marked `external` in `PROJECT.json`, whose `map` gives the
source lines of each definition.

## 1. The system

| Part | State | Operations | Module |
|---|---|---|---|
| Stream server, `internal/server` | `streams`, `bucketRefs`, per-stream `domain`, `metricDomain`, `subscriptions`; the engine; the active-buckets gauge | `StreamRateLimitQuotas`, `handleMessage`, `cleanupStream`, `SwapEngine`, `pushAssignments` | `RlqsServer` |
| Reference protocol (abstract) | holders, removers and state per bucket | acquire, record, release, remove | `BucketLifecycle` |
| Redis store, `internal/storage/redis.go` | breaker (`tripped`, `lastAttempt`), fallback store, counters and TTLs in Redis | `RecordUsage`, `RemoveBucket`, trip, retry, flush | `RedisStorage` |
| In-memory store, `internal/storage/storage.go` | counters per key | `Update`, `Reset`, `All`, `Len`, `Clear` | in `DataPath`, `RedisStorage` (fallback) and `RlqsServer` (set of keys) |
| Key encoding and `/debug/buckets` | none (pure) | `BucketKeyFromProto`, `DomainScopedKey`, `handleDebugBuckets` | `BucketKeys` |
| Process life, `main.go`, `server.Server` | serving, stopping the metrics server, draining; health, listener, open streams, running handlers | signal, deadline, `GracefulStop`, `Stop`, exit, crash, start | `Shutdown` |
| HA deployment, `docs/ha.md` | reference counts per process, one Redis, one process being rolled | streams on two instances, rolling restart, crash, failed removal, late flush, TTL | `HaCluster` |
| Hot reload, `config/watcher.go`, `diff.go`, `main.go`, `admin.go` | file watch, timer, channel, `currentCfg`, engine, classifier, pending changes | `Watch`, `reload`, the apply loop, shutdown | `HotReload` |
| Domain classifier, `metrics/domain.go` | patterns, cap and `known` of each classifier, goroutines inside `Classify` | `Classify`, `SwapDomainClassifier` | `DomainClassifier` |
| Config loading, `config/config.go` | none (pure) | `Load`, `resolveDeprecated` | `Configuration` |
| Quota engines and their construction, `quota`, `policy`, `main.go` | none (pure) | `buildEngine`, `buildStrategy`, `compilePatterns`, `matches`, `ProcessUsage` | `QuotaEngine` |
| All of these four in one process | environment, file, engine, `keyTTL`, classifier, store | bind, record, remove, reload, restart | `DataPath` |
| Tracing, TLS, gRPC options, Helm chart | none of their own | | not modelled |

How they interact: a stream goroutine records each report in the store, then
consults the engine and sends its answer. A reload swaps the engine, which
starts a push to all streams, and then the classifier. Instances share nothing
but Redis.

What makes it hard: locks are released between the steps of one operation
(subscribe / count / record; release / remove; read / write / clear of a flush);
pushes, handlers and reloads are goroutines that nothing orders; streams may end
at every step; Redis fails and comes back; instances crash; the watched file may
be replaced; the metrics server and the streams share ten seconds to stop.
`PROJECT.json` lists each hazard at its line.

What correct means here: counts, state and gauge agree with the subscriptions;
nothing outlives its last reference; a swapped engine reaches all subscribers;
reports are neither lost nor counted twice; a configuration is applied as a
whole, and the last one wins; what is configured is what clients get; two buckets
never share state and a domain never has two labels; shutdown ends, and a drained
process leaves nothing behind.

## 2. The modules

**RlqsServer.** A step is one critical section (`s.mu`, `ss.mu`, `sendMu`), one
call of the store or the engine, or one atomic load or store. `pc[s]` is the
place of a stream's goroutine: `recv`, then per usage `report` -> `ref` ->
`record`, then `act` with `unref` and `remove` for abandon actions, then
`cleanup` -> `clean` / `cleanRemove`. A message is a domain (possibly left out)
and a sequence of buckets, of which one may be skipped (`NoBucket`) or invalid
(`BadBucket`). An engine is its version number. It may fail or give no answer
(`EngineMayFail`) and abandon buckets (`Abandonable`): the two engines in the
repository do none of this, but `quota.Engine` allows it and `handleMessage`
handles it. The metrics
label is any that `Classify` may give (`Overflowing`). The increment of the gauge
is merged with the critical section before it, and its decrement in cleanup with
the one after it; nothing in the program reads the gauge. A scoped key is the pair of domain and
bucket; `BucketKeys` has its encoding, and theorem `ScopedKeysDistinct` says when
the pair may stand for it. Stores do not fail here: both implementations return
nil, and what a removal that silently failed means is in `HaCluster`. A panic that
`recoveryStreamInterceptor` turns into an error is covered by the failing engine. Engines are assumed to have one concrete type; what
happens otherwise is in `HotReload`. `newest` and `last` record what a client
received.

**BucketLifecycle** says what the server promises about a bucket's state:
recorded only under a reference, removed only by the stream that released the
last one. `RlqsServer` implements it with
`holders <- Holders`, `removers <- Removers`, `state <- store`.

**RedisStorage.** Workers are goroutines inside a call. Counters are numbers of
reports, a report counts one (entries with both counters zero are not told apart from absent
ones). `overlapped` remembers whether a recovery overlapped with another call.
`due` says that `retryInterval` has passed since `lastAttempt`. A command is
refused when Redis is down or the context ends before it is sent, and its reply
may be lost after Redis has applied it (`Refused`, `ReplyLost`; `MaxFaults` bounds
both while Redis is up). The pipelines are no transactions: when the reply is
lost Redis may have applied only the first commands, so that some increments or the
`EXPIRE` of the last key are missing; and go-redis may have sent the commands again on
its own, after which the caller sees a success. `timed` are the keys with a TTL.
`lost` counts reports that ended in a way the code owns
up to: dropped at capacity, failed flush, removed, expired. `doubled` counts those
that Redis applied without the caller's getting to know.

**HotReload.** A configuration has one field per section; `engine` stands for all
that `buildEngine` and `buildDomainClassifier` read. `buildDomainClassifier`
compiles patterns that `buildEngine` has compiled, so it does not fail after it.
A truncated file is a valid configuration of defaults, one of `Configs`. A parked
`select` is woken by the first case that is ready; a `select` reached after the
close may take the send and panic. fsnotify may drop an undelivered event when
the watch is removed. `unseen` remembers that the file was replaced, or written
before the watch was renewed, or that reloads overlapped. A panic ends the process, so `Next` requires `~panicked`.

**Shutdown.** `main` is the place of the main goroutine, `stopper` that of the
goroutine around `GracefulStop`. `open` are the streams with a transport, `running`
those whose handler has not returned: `Stop` empties the first, only returning
handlers or the end of the process the second. New streams are accepted, and the
health status is SERVING, until the metrics server has stopped. The ten
seconds may end at any moment; `starved` remembers that they ended before the
goroutine had called `GracefulStop`. A second signal has no effect.

**DomainClassifier.** A compiled pattern is the set of domains it matches.
Classifiers are numbered, so that a goroutine goes on with the one it loaded while
another is stored. `labels` records every answer.

**BucketKeys.** Strings are sequences of bytes; a bucket id is the sequence of its
pairs in the order of iteration, so that the sort of the code has something to do.
The encoding is one-to-one for domains without `\x1f`, keys without `\x00` and values
without `\x1e` (`PlainDomain`, `PlainKey`, `PlainValue`); the code takes it that
these bytes do not occur in real data and does not check it.

**Configuration** and **QuotaEngine** are operators. Settings that follow one rule
are represented by one of them, and a setting of the file or the environment may
be left out or garbled. A strategy keeps its fields, `% Uint32` where the code
converts. Time units arrive in upper case. `DenyResponse` is left out: the
engines never read it.

**DataPath** composes the last four for one process. Reloads take two steps, engine
and classifier, with streams binding in between. A reload that would change the
type of the engine panics (`HotReload`) and is a restart here. `max_metric_domains`
belongs to a section that needs a restart, but `buildDomainClassifier` applies it on
reload; so does the model. Counters wrap at `Uint64`. `PolicyType`, `FileType` and
`EnvType` say what the decoder and the parsers accept: tokens are unsigned, while
durations and the cap on domains may be negative. Durations are int64: the products
of `buildStore` and `buildEngine` wrap at `Int64`, and the store replaces one that
comes out as zero or less by its default.

**HaCluster** composes two instances of `BucketLifecycle` over one state, and for
one of them the life of its process (`Shutdown`): its handlers hold references
until they return or the process ends. A removal fails when the delete does not
reach Redis. `unflushedA` and `unflushedB` are keys whose reports went to an
instance's fallback; a flush, in whichever call of the instance, writes them to Redis
or loses them, at any later moment, so that a key may come back after its removal.
What processes, failed removals and late flushes leave behind is in `orphans`. That an
instance may be replaced by its abstract protocol is theorem `SharedRefinement`,
which lets anything happen to the store between two steps of the server. The composition checks what one
instance's local counts mean for the state that both use.

## 3. Runs that pass

| Run | Instance | Shows |
|---|---|---|
| `server_refs` | 2 streams, 2 domains, 3 buckets, limits of 2 buckets and 2 reports, abandons, engine errors, invalid usages | `RefCountExact`, `NoOrphanedState`, `GaugeExact`, `SubscriptionLimit`, `ImplementsLifecycle`, `TypeOK` |
| `server_live` | 2 streams on one bucket, 1 swap, stalls | `NoMissedPush`, `CleanupCompletes`, `SwapReachesSubscribers`, `OrphansRemoved` |
| `ha_orphans` | instances of 2 and 1 streams, 1 key, signals, restarts, crashes, failed removals, late flushes, expiry | `NoClusterOrphan`, `DrainedExitClean`, `NoticeBeforeCut`, `ProcessExits` |
| `redis_breaker` | 2 callers, 2 keys, cap 1, 1 outage, 1 refused command, lost reply, partly applied or resent pipeline | `Accounted`, `NoStaleFallback`, `NoImmortalKey`, `BreakerCloses`, `TypeOK` |
| `redis_overrun` | 2 callers, 5 keys, cap 1, 1 outage, 1 fault | `FallbackBounded`: n callers overrun the cap by at most n(n+1)/2 keys |
| `reload` | 2 reloads, replaced files, broken and rejected ones, both engine types | `ReloadAtomic`, `Converges`, `ShutdownCompletes`, `TypeOK` |
| `data_path` | 2 domains (one begins with the other), 3 buckets (one in both orders of iteration), 2 binding goroutines, 9 files, 4 environments, 1 reload, restarts | `CapRespected`, `OneLabelPerDomain`, `LabelsBounded`, `StoreKeepsApart`, `DebugListsDomain`, `SettingsPrecedence`, `UnmatchedUnaffected`, `EarlierPoliciesWin`, `LabelsFollowPolicies`, `TypeOK` |

Some of these properties name the cases that the code does not exclude, and show
that there are no others:

- `Accounted` and `NoStaleFallback`: a report is lost, counted twice or left in
  the fallback only when a recovery overlaps with another call (`overlapped`), or
  twice when a reply was lost (`doubled`). Concurrent calls, trips and failed
  retries do no harm.
- `FallbackBounded`: "one key per caller" is not enough. A recovery may close the
  breaker over a store that is full again, and the callers that then trip it write
  without a check; each such round needs a caller that is still recovering, which
  gives n + (n-1) + ... + 1.
- `NoticeBeforeCut`: streams are cut without notice only when the ten seconds ended
  before `GracefulStop` was called, in practice because the metrics server used them.
- `NoClusterOrphan`: only the end of a process, failed removals and late flushes leave
  state without a reference.
- `NoImmortalKey`: that such state goes away rests on its TTL. A key has one, unless
  Redis applied a pipeline in part; then the next report or the flush gives it one,
  unless the code has given up a report of the key in between, or a recovery
  overlapped with another call.
- `LabelsBounded`: the cap holds once per classifier, so reloads add to the labels.
- `Converges`: the last configuration is not applied only when the file was
  replaced by rename and create (the watch followed the old file, and its events
  are skipped), when it was written after `Load` and before the watch was added
  again, when reloads overlapped and sent in the other order (`unseen`), or after
  a panic.
- `SwapReachesSubscribers`: a subscriber waits for the new engine only while a
  client, perhaps another one, does not read: `pushAssignments` sends to one
  stream after the other.

Bounds. Two streams are the least with a shared bucket, and streams interact only
through counts that do not depend on who holds them; the theorems cover any
number, and any number of swaps with overlapping pushes. Two callers give every race of the
breaker that has two sides, and five keys with a cap of one leave room for one
more than the bound of `FallbackBounded` allows. One key is enough for `ha_orphans`:
keys do not interact, and the theorems cover any number. Two changes of the file
allow a broken or rejected one followed by a good one. In `data_path` a cap of one
makes two domains compete for a place, `Uint64 = 2` makes counters wrap,
`Uint32 = 4` makes tokens wrap, `Int64 = 64` makes six times an interval of 20 wrap to
less than zero where twice the interval does not wrap, and `MaxMessages` = 3 allows two bindings and a
report, or three reports.
`MaxSwaps`, `MaxReports`, `MaxOutages`, `MaxFaults`, `MaxMessages` and `MaxWrites`
only bound the state space.
Symmetry is used in runs without liveness only. `redis_overrun` has a view without
the counters in Redis and the histories, on which no step of a worker depends.

Fairness. The Go runtime runs every runnable goroutine and timer: weak fairness
of each goroutine. `Send` is strongly fair, since a client that reads again and
again grants window that a blocked `Send` keeps. Clients, messages, disconnects and
swaps have none. `RedisStorage` adds that time passes, that an outage ends and
that calls keep coming: the breaker is only retried from a call. `HotReload` adds
that a file moved away is created again. `HaCluster` has weak fairness of main, of
its goroutine and of the ten seconds; nothing is assumed of clients, HTTP requests or handlers, so `ProcessExits` holds
although they may hang. Deadlock is checked except in
`HotReload`, which stops after shutdown or a panic.

## 4. Runs that find a violation

Each checks what a comment of the source says; `findings` has the quote.

| Run | The code |
|---|---|
| `server_stale` | an answer of the old engine may reach the client after the push of the new one |
| `ha_shared` | an instance deletes the Redis state that streams of another instance use |
| `redis_lost` | a report written to the fallback between `All` and `Clear` is lost silently |
| `reload_engine_type` | adding the first policy, or removing the last, makes `engine.Store` panic |
| `reload_pending` | a later reload makes the admin endpoint forget pending restart changes |

Seen in the models while writing them, without a run of their own: a stream that
subscribes between the unlock and the `RemoveBucket` of another loses its state
(`BucketLifecycle` allows it); `RemoveBucket` that recovers, or a call next to it,
may flush the deleted key back (`FlushA`); a pipeline that Redis applied without its
`EXPIRE`, followed by a removal that reaches only the fallback, leaves a key in Redis
without a TTL; a reload changes the interval of the engine and not the TTL of the keys,
and an interval of which six times is no int64 gives the default TTL; only `trip` sets `lastAttempt`, so after the first interval every call
retries; a cancelled stream context trips the breaker; recovery writes the
fallback to Redis, where `docs/ha.md` says it is not synced back; a reload that is
late at shutdown may send on the closed channel; a garbled
`RLQS_DEFAULT_TOKENS_PER_FILL` hides `RLQS_DEFAULT_RPS`; a multiple of 2^32 tokens
becomes none; a policy without tokens gets no default.

## 5. What is proved

For every value of the constants that satisfies the named assumptions.

`RlqsServerProofs`, from `ConstantsAssumption` (finite sets of streams and
buckets, distinct special values):

- `Invariance`: `IInv == TypeOK /\ ControlInv /\ RefCountExact /\ NoOrphanedState`
  is inductive. `RefCountExact` alone is not: that a decrement meets a positive
  count needs `ControlInv`, which says for each `pc` what a stream's locals are
  (the bucket being counted is subscribed, the one being released no longer is, a
  stream at work has a domain). `HandlerKind` and
  `ClientKind` go through the actions one by one and place each in a kind: silent,
  acquire, record, release or remove. The invariants are then shown kind by kind:
  a step moves at most one stream in or out of `Holders(k)` for one key, and the
  cardinality theorems give the count.
- `TypeCorrect`, `RefCountCorrect`, `NoOrphans` follow.
- `GaugeCorrect`: `GaugeExact`, by the same argument over pairs of stream and
  bucket.
- `Refinement`: `Spec => ImplementsLifecycle`. Each action is a step of the
  protocol or a stutter; that the code's test for a count of zero means "the only
  holder" is where `RefCountExact` is used.
- `SharedCounts` and `SharedRefinement`: the same for `SharedSpec`, in which other
  instances may change the store in any way between two steps. `NoOrphanedState` is then
  not an invariant, and the rest, `LocalInv`, is: no decision of the server reads
  the store. Each step is one of the instance's own protocol or leaves its
  references alone, which is what `HaCluster` takes an instance to be.

`RlqsPushProofs`, from the same assumption and on top of `Invariance`:

- `LimitKept`: `SubscriptionLimit`.
- `NoPushIsMissed`: `NoMissedPush`, for engines that return no error (with an error
  the handler skips its answer). The inductive invariant says of each
  subscription of a live stream that it is served: its client has an action of the
  current engine, or its handler will still consult the engine, or has consulted
  the current one and will send, or a push that has not passed the stream will.

`HaClusterProofs`, no assumptions: `ClusterInvariance` is inductive. `Inv` adds to
`NoClusterOrphan` that references and pending removals of the rolled instance belong to
running handlers; `Draining` says for each place of main and of the goroutine what is
known of health, listener and streams. `ClusterCleanup`, `DrainIsClean` and
`NoticeIsGiven` follow.

`RedisStorageProofs`, from `StorageAssumption` (finite sets of callers and keys, a
positive cap, natural bounds):

- `StorageTyped`.
- `FallbackIsBounded`: the bound itself is not inductive. `BoundInv` counts the keys
  in the fallback together with those that callers past the check are about to add
  (`Claimed`), and the callers that may still trip (`Pressing`), against the room
  that the number of callers at work leaves.
- `FallbackIsCleared`: `StaleInv` says that without an overlap a recovery still finds
  what it read, and that under a closed breaker the fallback is empty and nobody is
  on the way to it except through `trip`.
- `ReportsAccounted`: `SumInv` is the balance of a key with the calls in flight:
  reported + doubled + flushed but not yet cleared = redis + fallback + lost + in flight.
- `KeysExpire`: `NoImmortalKey`. Its invariant `TtlInv` follows a key without a TTL
  (`Untimed`) from the lost reply on: it has been doubled, and while no recovery
  overlaps a caller is on its way to the fallback with it, or the fallback holds it,
  or a report of it is lost.

`DomainClassifierProofs`, from `ClassifierAssumption`: `ClassifierInvariance`, and
from it `CapHolds` and `LabelsAreStable`. `OneLabelPerDomain` needs that an overflow
answer is final: the classifier is full, and stays so, or the domain does not match.
`LabelsAreGrounded` says where labels come from, and `LabelsStayBounded` numbers the known
domains of each classifier within its cap, which maps the labels one-to-one into the
places that all caps together allow.

`BucketKeysProofs`, no assumptions, for strings of any length:

- `ScopedKeysDistinct` and `DebugListsExactly`, for all domains without the unit
  separator and all bucket keys.
- `BucketKeyCanonical`: two bucket ids have the same key exactly if they have the same
  pairs. One direction is that sorting forgets the order of the map: an order on
  the keys exists (by induction over finite sets of keys), and only one arrangement
  follows it. The other is that the joined string can be read back: going from left
  to right, the first `\x00` ends a key and the next `\x1e`, or the end, a value, so
  two ids with one string agree on every pair (by a least place where they do not).

`DataPathProofs`, from `DataPathAssumption`, `SettingsAssumption` and
`ConfigurationAssumption` (what the decoder and parsers accept, positive defaults),
`PlainNamesAssumption` (no separators in names), `EngineAssumption` and
`ClassifierAssumption`; any files, environments, domains, bucket ids and numbers of
reloads, restarts and messages:

- `DataPathInvariance`: `DataPathInv` joins the classifier's invariants, `ConfigInv` and
  `StoreInv`. `ConfigInv` says that engine and rules are built from the file in
  use, the rules only outside a reload, and that the key TTL is a positive int64.
  `StoreInv` says that the store's keys are the encoded names of the recorded
  buckets and hold their usage modulo `Uint64`.
- `StoreIsExact` and `DebugIsExact` follow from `StoreInv` and the theorems on keys;
  `ProcessLabels` and `DataPathTypes` from the invariant directly. `DataPathTypes` includes
  that the key TTL is positive for every interval an int64 can hold.
- `SettingsInOrder`, `PoliciesAreLocal`, `PriorityOrder` and
  `LabelsMatchPolicies` follow from `ConfigInv` and lemmas on the operators: what
  `Load` makes of the settings, what a built policy matches, and that the first match
  is the same in two lists that agree up to it.

`HotReloadProofs`, from the assumptions on configurations: `ReloadTyped` and
`ReloadIsAtomic`, any configurations and number of reloads.

## 6. Only model-checked

Liveness (`CleanupCompletes`, `OrphansRemoved`, `SwapReachesSubscribers`,
`BreakerCloses`, `Converges`, `ShutdownCompletes`, `ProcessExits`) is beyond the prover. Every invariant of a passing run is also a
theorem, and so is the refinement. `NoPushIsMissed` is proved for engines that return no
error, the case its run checks. The runs that find a violation have no theorem.

## 7. Not modelled

- Tracing, TLS, gRPC options, log lines and the Helm chart: no state that a property
  could be about.
- `/healthz`, `/readyz`, `/debug/streams`, `/debug/config`, `StreamStats`: constants,
  or a formatted copy of state that is modelled elsewhere.
- The amounts in a usage report: no step depends on them; `DataPath` counts ones.
  The conversion to `int64` for HINCRBY is left out with them.
- The state of the breaker inside `HaCluster`: it would multiply the two state spaces;
  the cluster has its effects, reports kept back, removals that fail or are undone.
