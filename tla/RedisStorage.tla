---------------------------- MODULE RedisStorage ----------------------------
(***************************************************************************)
(* The Redis-backed BucketStore of one instance (internal/storage): its    *)
(* circuit breaker and the in-memory fallback store (MemoryStorage).       *)
(*                                                                         *)
(* Workers are the goroutines that call RecordUsage and RemoveBucket.  A   *)
(* step is one atomic load, one critical section or one Redis round trip.  *)
(* A report counts one; the counters of a key are its number of reports,   *)
(* and 0 is an absent key.  Keys are domain-scoped keys.                   *)
(***************************************************************************)
EXTENDS Integers, FiniteSets

CONSTANTS
  Workers,          \* goroutines that use the store
  Keys,             \* scoped bucket keys
  MaxFallbackKeys,  \* RedisConfig.MaxFallbackKeys after the default
  MaxReports,       \* bound on the reports of each key
  MaxOutages,       \* bound on the outages of Redis
  MaxFaults,        \* bound on the commands that fail while Redis is up
  NoKey             \* the key of a goroutine that is in no call

ASSUME StorageAssumption ==
  /\ IsFiniteSet(Keys) /\ NoKey \notin Keys
  /\ IsFiniteSet(Workers)
  /\ MaxFallbackKeys \in Nat \ {0}
  /\ MaxReports \in [Keys -> Nat]
  /\ MaxOutages \in Nat /\ MaxFaults \in Nat

VARIABLES
  tripped,   \* RedisStorage.tripped
  due,       \* retryInterval has passed since RedisStorage.lastAttempt
  redis,     \* the counters in Redis
  timed,     \* keys with a TTL in Redis
  fallback,  \* the counters in RedisStorage.fallback
  redisUp,   \* Redis can be reached
  outages,   \* outages so far
  faults,    \* commands that failed although Redis was up
  pc, op, key,  \* where a worker is, in which operation, for which key
  entries,   \* flushFallback: the entries it read
  reported,  \* history: reports per key
  lost,      \* history: reports that ended in a way the code owns up to:
             \* dropped at capacity, failed flush, removed or expired
  doubled,   \* history: reports Redis applied without the caller's getting to know
  overlapped \* history: a recovery overlapped with another call

breakerVars == <<tripped, due>>
envVars     == <<redisUp, outages, faults>>
workerVars  == <<pc, op, key, entries>>
historyVars == <<reported, lost, doubled>>

vars == <<breakerVars, redis, timed, fallback, envVars, workerVars, historyVars, overlapped>>

PC == {"idle", "try", "trip", "check", "retry", "local", "exists", "direct",
       "flush", "exec", "clear", "reset"}

None == [k \in Keys |-> 0]

\* storage.Len of the fallback
Len(f) == Cardinality({k \in Keys : f[k] > 0})

Plus(f, g) == [k \in Keys |-> f[k] + g[k]]

\* The counters of the keys in S.
Only(f, S) == [k \in Keys |-> IF k \in S THEN f[k] ELSE 0]

TypeOK ==
  /\ tripped \in BOOLEAN /\ due \in BOOLEAN
  /\ redis \in [Keys -> Nat] /\ timed \subseteq Keys
  /\ fallback \in [Keys -> Nat]
  /\ redisUp \in BOOLEAN /\ outages \in 0 .. MaxOutages /\ faults \in 0 .. MaxFaults
  /\ pc \in [Workers -> PC]
  /\ op \in [Workers -> {"none", "record", "remove"}]
  /\ key \in [Workers -> Keys \cup {NoKey}]
  /\ entries \in [Workers -> [Keys -> Nat]]
  /\ reported \in [Keys -> Nat]
  /\ lost \in [Keys -> Nat]
  /\ doubled \in [Keys -> Nat]
  /\ overlapped \in BOOLEAN

\* lastAttempt is the zero time: a retry would be due at once.
Init ==
  /\ tripped = FALSE /\ due = TRUE
  /\ redis = None /\ timed = {} /\ fallback = None
  /\ redisUp = TRUE /\ outages = 0 /\ faults = 0
  /\ pc = [w \in Workers |-> "idle"]
  /\ op = [w \in Workers |-> "none"]
  /\ key = [w \in Workers |-> NoKey]
  /\ entries = [w \in Workers |-> None]
  /\ reported = None /\ lost = None /\ doubled = None
  /\ overlapped = FALSE

-----------------------------------------------------------------------------
(* RecordUsage and RemoveBucket.                                           *)

Goto(w, l) == pc' = [pc EXCEPT ![w] = l] /\ UNCHANGED <<op, key>>

Return(w) ==
  /\ pc' = [pc EXCEPT ![w] = "idle"]
  /\ op' = [op EXCEPT ![w] = "none"]
  /\ key' = [key EXCEPT ![w] = NoKey]

\* Mutant of Applied: a removal takes one report off the counter.
AppliedDecrement(w, f) ==
  [f EXCEPT ![key[w]] = IF op[w] = "record" THEN @ + 1 ELSE @ - 1]

\* What the call asks of a counter store: one more report, or no state.
Applied(w, f) ==
  [f EXCEPT ![key[w]] = IF op[w] = "record" THEN @ + 1 ELSE 0]

\* Reports the call takes out of a store are accounted for.
Discard(w, f) ==
  lost' = [lost EXCEPT ![key[w]] = IF op[w] = "remove" THEN @ + f[key[w]] ELSE @]

\* A command fails unapplied when Redis is down or the caller's context ends
\* before it is sent.
Refused ==
  \/ ~redisUp /\ UNCHANGED faults
  \/ redisUp /\ faults < MaxFaults /\ faults' = faults + 1

\* Redis applies a command, or the first commands of a pipeline, but the reply is
\* lost or comes too late.
ReplyLost == redisUp /\ faults < MaxFaults /\ faults' = faults + 1

\* The call begins: isTripped.
Call(w, o, k) ==
  /\ pc[w] = "idle"
  /\ op' = [op EXCEPT ![w] = o]
  /\ key' = [key EXCEPT ![w] = k]
  /\ \/ /\ o = "record"
        /\ reported[k] < MaxReports[k]
        /\ reported' = [reported EXCEPT ![k] = @ + 1]
     \/ /\ o = "remove"
        /\ UNCHANGED reported
  /\ pc' = [pc EXCEPT ![w] = IF tripped THEN "check" ELSE "try"]
  /\ UNCHANGED <<breakerVars, redis, timed, fallback, envVars, entries, lost, doubled>>

\* shouldRetry
ShouldRetry(w) ==
  /\ pc[w] = "check"
  /\ Goto(w, IF due THEN "retry" ELSE "local")
  /\ UNCHANGED <<breakerVars, redis, timed, fallback, envVars, entries, historyVars>>

\* The keys with a TTL after the call: EXPIRE follows the increments in the
\* pipeline, and a key that is deleted loses its TTL.
Renewed(w) == IF op[w] = "record" THEN timed \cup {key[w]} ELSE timed \ {key[w]}

Succeed(w) == IF pc[w] = "try" THEN Return(w) ELSE Goto(w, "flush")

Fail(w) == Goto(w, IF pc[w] = "try" THEN "trip" ELSE "local")

\* tryRedisRecordUsage or Del, with the breaker closed ("try") or as a retry.
\* When a reply is lost the caller sees an error, and the EXPIRE may be missing;
\* or go-redis sends the commands again, on its own.
Redis(w) ==
  /\ pc[w] \in {"try", "retry"}
  /\ \/ /\ redisUp
        /\ redis' = Applied(w, redis)
        /\ timed' = Renewed(w)
        /\ Discard(w, redis)
        /\ Succeed(w)
        /\ UNCHANGED <<faults, doubled>>
     \/ /\ Refused
        /\ Fail(w)
        /\ UNCHANGED <<redis, timed, lost, doubled>>
     \/ /\ ReplyLost
        /\ Discard(w, redis)
        /\ doubled' = [doubled EXCEPT ![key[w]] = IF op[w] = "record" THEN @ + 1 ELSE @]
        /\ \/ /\ redis' = Applied(w, redis)
              /\ timed' = Renewed(w) \/ (op[w] = "record" /\ UNCHANGED timed)
              /\ Fail(w)
           \/ /\ redis' = Applied(w, Applied(w, redis))
              /\ timed' = Renewed(w)
              /\ Succeed(w)
  /\ UNCHANGED <<breakerVars, fallback, redisUp, outages, entries, reported>>

\* Mutant of Trip: the report is not written to the fallback.
TripDrop(w) ==
  /\ pc[w] = "trip"
  /\ tripped' = TRUE
  /\ due' = FALSE
  /\ Return(w)
  /\ UNCHANGED <<redis, timed, fallback, envVars, entries, historyVars>>

\* trip is the only place that sets lastAttempt.
Trip(w) ==
  /\ pc[w] = "trip"
  /\ tripped' = TRUE
  /\ due' = FALSE
  /\ Goto(w, "direct")
  /\ UNCHANGED <<redis, timed, fallback, envVars, entries, historyVars>>

\* Mutant of CheckCapacity: it is compared with no limit.
CheckCapacityNever(w) ==
  /\ pc[w] = "local"
  /\ Goto(w, "direct")
  /\ UNCHANGED <<breakerVars, redis, timed, fallback, envVars, entries, historyVars>>

\* The capacity check of RecordUsage; RemoveBucket has none.
CheckCapacity(w) ==
  /\ pc[w] = "local"
  /\ Goto(w, IF op[w] = "record" /\ Len(fallback) >= MaxFallbackKeys
             THEN "exists" ELSE "direct")
  /\ UNCHANGED <<breakerVars, redis, timed, fallback, envVars, entries, historyVars>>

\* At capacity a report for a new key is dropped.
CheckExists(w) ==
  /\ pc[w] = "exists"
  /\ \/ /\ fallback[key[w]] = 0
        /\ lost' = [lost EXCEPT ![key[w]] = @ + 1]
        /\ Return(w)
     \/ /\ fallback[key[w]] > 0
        /\ Goto(w, "direct")
        /\ UNCHANGED lost
  /\ UNCHANGED <<breakerVars, redis, timed, fallback, envVars, entries, reported, doubled>>

\* fallback.RecordUsage or fallback.RemoveBucket
Fallback(w) ==
  /\ pc[w] = "direct"
  /\ fallback' = Applied(w, fallback)
  /\ Discard(w, fallback)
  /\ Return(w)
  /\ UNCHANGED <<breakerVars, redis, timed, envVars, entries, reported, doubled>>

-----------------------------------------------------------------------------
(* recoverFromFallback, after a retry that succeeded.                      *)

\* Mutant of FlushRead: without entries the breaker is not reset either.
FlushReadEarlyReturn(w) ==
  /\ pc[w] = "flush"
  /\ entries' = [entries EXCEPT ![w] = fallback]
  /\ IF fallback = None THEN Return(w) ELSE Goto(w, "exec")
  /\ UNCHANGED <<breakerVars, redis, timed, fallback, envVars, historyVars>>

\* fallback.All; without entries there is nothing to flush or to clear.
FlushRead(w) ==
  /\ pc[w] = "flush"
  /\ entries' = [entries EXCEPT ![w] = fallback]
  /\ Goto(w, IF fallback = None THEN "reset" ELSE "exec")
  /\ UNCHANGED <<breakerVars, redis, timed, fallback, envVars, historyVars>>

\* The keys of the pipeline with the entries.
Pending(w) == {k \in Keys : entries[w][k] > 0}

\* Mutant of FlushExec: a failed flush leaves the fallback as it is.
FlushExecKeep(w) ==
  /\ pc[w] = "exec"
  /\ \/ /\ redisUp
        /\ redis' = Plus(redis, entries[w])
        /\ timed' = timed \cup Pending(w)
        /\ Goto(w, "clear")
        /\ UNCHANGED faults
     \/ /\ Refused
        /\ Goto(w, "reset")
        /\ UNCHANGED <<redis, timed>>
  /\ UNCHANGED <<breakerVars, fallback, redisUp, outages, entries, historyVars>>

\* Mutant of FlushExec: the pipeline has no EXPIRE.
FlushExecNoExpire(w) ==
  /\ pc[w] = "exec"
  /\ redisUp
  /\ redis' = Plus(redis, entries[w])
  /\ Goto(w, "clear")
  /\ UNCHANGED <<breakerVars, timed, fallback, envVars, entries, historyVars>>

\* The pipeline with the entries, each key's increments before its EXPIRE; on
\* failure the loss is logged.  When a reply is lost Redis has applied the part
\* for the keys in S, perhaps without the EXPIRE of the last one; go-redis may
\* then send the whole again.
FlushExec(w) ==
  /\ pc[w] = "exec"
  /\ \/ /\ redisUp
        /\ redis' = Plus(redis, entries[w])
        /\ timed' = timed \cup Pending(w)
        /\ UNCHANGED <<faults, lost, doubled>>
     \/ /\ Refused
        /\ lost' = Plus(lost, entries[w])
        /\ UNCHANGED <<redis, timed, doubled>>
     \/ /\ ReplyLost
        /\ \E S \in SUBSET Pending(w) :
             /\ doubled' = Plus(doubled, Only(entries[w], S))
             /\ \/ /\ redis' = Plus(redis, Only(entries[w], S))
                   /\ \E last \in S \cup {NoKey} : timed' = timed \cup (S \ {last})
                   /\ lost' = Plus(lost, entries[w])
                \/ /\ redis' = Plus(Plus(redis, Only(entries[w], S)), entries[w])
                   /\ timed' = timed \cup Pending(w)
                   /\ UNCHANGED lost
  /\ Goto(w, "clear")
  /\ UNCHANGED <<breakerVars, fallback, redisUp, outages, entries, reported>>

FlushClear(w) ==
  /\ pc[w] = "clear"
  /\ fallback' = None
  /\ entries' = [entries EXCEPT ![w] = None]
  /\ Goto(w, "reset")
  /\ UNCHANGED <<breakerVars, redis, timed, envVars, historyVars>>

Reset(w) ==
  /\ pc[w] = "reset"
  /\ tripped' = FALSE
  /\ Return(w)
  /\ UNCHANGED <<due, redis, timed, fallback, envVars, entries, historyVars>>

-----------------------------------------------------------------------------
(* Redis and time.                                                         *)

RedisDown ==
  /\ redisUp
  /\ outages < MaxOutages
  /\ redisUp' = FALSE
  /\ outages' = outages + 1
  /\ UNCHANGED <<breakerVars, redis, timed, fallback, faults, workerVars, historyVars>>

RedisRestored ==
  /\ ~redisUp
  /\ redisUp' = TRUE
  /\ UNCHANGED <<breakerVars, redis, timed, fallback, outages, faults, workerVars, historyVars>>

\* The TTL of a key passes without a report.
Expire(k) ==
  /\ redis[k] > 0 /\ k \in timed
  /\ redis' = [redis EXCEPT ![k] = 0]
  /\ timed' = timed \ {k}
  /\ lost' = [lost EXCEPT ![k] = @ + redis[k]]
  /\ UNCHANGED <<breakerVars, fallback, envVars, workerVars, reported, doubled>>

\* retryInterval passes.
Tick ==
  /\ ~due
  /\ due' = TRUE
  /\ UNCHANGED <<tripped, redis, timed, fallback, envVars, workerVars, historyVars>>

-----------------------------------------------------------------------------

Work(w) ==
  \/ ShouldRetry(w)
  \/ Redis(w)
  \/ Trip(w)
  \/ CheckCapacity(w)
  \/ CheckExists(w)
  \/ Fallback(w)
  \/ FlushRead(w)
  \/ FlushExec(w)
  \/ FlushClear(w)
  \/ Reset(w)

CallAny(w) == \E o \in {"record", "remove"}, k \in Keys : Call(w, o, k)

\* A worker recovers (recoverFromFallback) while another is in a call.
Overlapping ==
  \E v, w \in Workers :
    /\ v # w
    /\ pc[v] \in {"flush", "exec", "clear", "reset"}
    /\ pc[w] # "idle"

Remember == overlapped' = (overlapped \/ Overlapping')

Next ==
  \/ \E w \in Workers : CallAny(w) /\ Remember
  \/ \E w \in Workers : Work(w) /\ Remember
  \/ RedisDown /\ Remember
  \/ RedisRestored /\ Remember
  \/ \E k \in Keys : Expire(k) /\ Remember
  \/ Tick /\ Remember

Spec == Init /\ [][Next]_vars

\* Goroutines run, time passes, Redis comes back, and the streams of the
\* server keep calling the store.
FairSpec ==
  /\ Spec
  /\ \A w \in Workers : WF_vars(Work(w) /\ Remember) /\ WF_vars(CallAny(w) /\ Remember)
  /\ WF_vars(RedisRestored /\ Remember)
  /\ WF_vars(Tick /\ Remember)

-----------------------------------------------------------------------------
(* Properties.                                                             *)

Quiet == \A w \in Workers : pc[w] = "idle"

\* Between calls every report is in exactly one place: in Redis, in the
\* fallback, or among the losses the code owns up to; one that Redis applied
\* without the caller's getting to know is in two.  Concurrent calls, trips and
\* retries lose or double no other; only a recovery (recoverFromFallback)
\* that overlaps with another call can.
Accounted ==
  Quiet /\ ~overlapped =>
    \A k \in Keys : reported[k] + doubled[k] = redis[k] + fallback[k] + lost[k]

\* Recovery flushes what was accumulated (flushFallback): no report vanishes
\* unless the code says so (dropped, failed flush, removed, expired).
NoSilentLoss ==
  Quiet => \A k \in Keys : reported[k] + doubled[k] <= redis[k] + fallback[k] + lost[k]

\* The fallback is empty while the breaker is closed and no call is running:
\* flushFallback clears it "to prevent stale data on the next outage", which
\* only a call that overlaps with the recovery can defeat.
NoStaleFallback == Quiet /\ ~tripped /\ ~overlapped => fallback = None

\* Concurrent callers overrun MaxFallbackKeys: the check and the write are
\* separate critical sections, a call that trips the breaker skips the check,
\* and a recovery may close the breaker over a full store, so that the next
\* trips come on top.  How far depends on the number of callers alone.
FallbackBounded ==
  2 * Len(fallback) <= 2 * MaxFallbackKeys + Cardinality(Workers) * (Cardinality(Workers) + 1)

\* "EXPIRE for auto-cleanup": a key in Redis has a TTL, so that what nobody removes
\* goes away.  Only a pipeline that Redis applied in part leaves a key without
\* one.  Such a key is still in the fallback, whose flush gives it a TTL, or the
\* code has given up a report of it (dropped, removed, failed flush, expired);
\* only a recovery that overlaps with another call can lose sight of it.
NoImmortalKey ==
  \A k \in Keys : redis[k] > 0 /\ k \notin timed =>
    /\ doubled[k] > 0
    /\ Quiet /\ ~overlapped => fallback[k] > 0 \/ lost[k] > 0

\* Once Redis is reachable again a tripped breaker closes, with every
\* interleaving of retries and flushes.
BreakerCloses == tripped ~> ~tripped

=============================================================================
