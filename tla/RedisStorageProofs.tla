------------------------- MODULE RedisStorageProofs -------------------------
(***************************************************************************)
(* Proofs about RedisStorage, for any finite sets of goroutines and keys   *)
(* and any bounds on reports, outages and faults.                          *)
(***************************************************************************)
EXTENDS RedisStorage, FiniteSetTheorems, TLAPS

\* What the place of a goroutine implies about its call.
CallOK(w) ==
  /\ pc[w] # "idle" => key[w] \in Keys /\ op[w] \in {"record", "remove"}
  /\ pc[w] = "exists" => op[w] = "record"

TypeInv == TypeOK /\ \A w \in Workers : CallOK(w)

-----------------------------------------------------------------------------
(* Type correctness.                                                       *)

\* What a call asks of a counter store, and what it discards, is typed.
LEMMA AppliedType ==
  ASSUME TypeInv, NEW w \in Workers, pc[w] # "idle", NEW f \in [Keys -> Nat]
  PROVE  /\ Applied(w, f) \in [Keys -> Nat]
         /\ Discard(w, f) => lost' \in [Keys -> Nat]
<1>1. key[w] \in Keys /\ lost \in [Keys -> Nat] BY DEF TypeInv, TypeOK, CallOK
<1>2. f[key[w]] \in Nat /\ lost[key[w]] \in Nat BY <1>1
<1>3. Applied(w, f) \in [Keys -> Nat]
  <2>1. (IF op[w] = "record" THEN f[key[w]] + 1 ELSE 0) \in Nat BY <1>2
  <2> QED BY <1>1, <2>1 DEF Applied
<1>4. ASSUME Discard(w, f) PROVE lost' \in [Keys -> Nat]
  <2>1. (IF op[w] = "remove" THEN lost[key[w]] + f[key[w]] ELSE lost[key[w]]) \in Nat BY <1>2
  <2> QED BY <1>1, <1>4, <2>1 DEF Discard
<1> QED BY <1>3, <1>4

\* The sum of two counter stores is typed, and so are the empty one and a part of
\* one.
LEMMA PlusType ==
  /\ None \in [Keys -> Nat]
  /\ \A f, g \in [Keys -> Nat] : Plus(f, g) \in [Keys -> Nat]
  /\ \A f \in [Keys -> Nat], S \in SUBSET Keys : Only(f, S) \in [Keys -> Nat]
BY DEF Plus, None, Only

\* Control: moving on and returning keep the place, operation and key of every
\* goroutine typed.
LEMMA GotoType ==
  ASSUME TypeInv, NEW w \in Workers, pc[w] # "idle",
         \/ Return(w)
         \/ \E l \in PC \ {"exists"} : Goto(w, l)
         \/ op[w] = "record" /\ Goto(w, "exists")
  PROVE  /\ pc' \in [Workers -> PC]
         /\ op' \in [Workers -> {"none", "record", "remove"}]
         /\ key' \in [Workers -> Keys \cup {NoKey}]
         /\ \A v \in Workers : CallOK(v)'
<1>ty. /\ pc \in [Workers -> PC] /\ op \in [Workers -> {"none", "record", "remove"}]
       /\ key \in [Workers -> Keys \cup {NoKey}] /\ \A v \in Workers : CallOK(v)
  BY DEF TypeInv, TypeOK
<1>1. CASE Return(w)
  <2>1. "idle" \in PC /\ NoKey \in Keys \cup {NoKey} BY DEF PC
  <2>2. /\ pc' \in [Workers -> PC] /\ op' \in [Workers -> {"none", "record", "remove"}]
        /\ key' \in [Workers -> Keys \cup {NoKey}]
    BY <1>1, <1>ty, <2>1, ZenonT(60) DEF Return
  <2>3. ASSUME NEW v \in Workers PROVE CallOK(v)'
    <3>1. CASE v = w
      <4>1. pc'[v] = "idle" BY <1>1, <1>ty, <3>1 DEF Return
      <4> QED BY <4>1 DEF CallOK
    <3>2. CASE v # w
      <4>1. pc'[v] = pc[v] /\ op'[v] = op[v] /\ key'[v] = key[v]
        BY <1>1, <1>ty, <3>2, Zenon DEF Return
      <4> QED BY <1>ty, <4>1, Zenon DEF CallOK
    <3> QED BY <3>1, <3>2
  <2> QED BY <2>2, <2>3
<1>2. ASSUME NEW l \in PC, Goto(w, l), l = "exists" => op[w] = "record"
      PROVE  /\ pc' \in [Workers -> PC]
             /\ op' = op /\ key' = key
             /\ \A v \in Workers : CallOK(v)'
  <2>1. pc' \in [Workers -> PC] /\ op' = op /\ key' = key
    BY <1>2, <1>ty, ZenonT(60) DEF Goto
  <2>2. ASSUME NEW v \in Workers PROVE CallOK(v)'
    <3>1. CASE v = w
      <4>1. pc'[v] = l /\ key[w] \in Keys /\ op[w] \in {"record", "remove"}
        BY <1>2, <1>ty, <3>1, Zenon DEF Goto, CallOK
      <4> QED BY <1>2, <2>1, <3>1, <4>1 DEF CallOK
    <3>2. CASE v # w
      <4>1. pc'[v] = pc[v] BY <1>2, <1>ty, <3>2, Zenon DEF Goto
      <4> QED BY <1>ty, <2>1, <4>1, Zenon DEF CallOK
    <3> QED BY <3>1, <3>2
  <2> QED BY <2>1, <2>2
<1>3. "exists" \in PC BY DEF PC
<1> QED BY <1>ty, <1>1, <1>2, <1>3

\* What a step of a goroutine inside a call can do to each variable.
LEMMA WorkEffects ==
  ASSUME NEW w \in Workers, Work(w)
  PROVE  /\ faults' = faults \/ (faults < MaxFaults /\ faults' = faults + 1)
         /\ \/ entries' = entries
            \/ entries' = [entries EXCEPT ![w] = fallback]
            \/ entries' = [entries EXCEPT ![w] = None]
         /\ \/ redis' = redis \/ redis' = Applied(w, redis) \/ redis' = Plus(redis, entries[w])
            \/ redis' = Applied(w, Applied(w, redis))
            \/ \E S \in SUBSET Keys : \/ redis' = Plus(redis, Only(entries[w], S))
                                     \/ redis' = Plus(Plus(redis, Only(entries[w], S)), entries[w])
         /\ fallback' = fallback \/ fallback' = Applied(w, fallback) \/ fallback' = None
         /\ \/ lost' = lost \/ Discard(w, redis) \/ Discard(w, fallback)
            \/ lost' = Plus(lost, entries[w]) \/ lost' = [lost EXCEPT ![key[w]] = @ + 1]
         /\ \/ doubled' = doubled
            \/ \E S \in SUBSET Keys : doubled' = Plus(doubled, Only(entries[w], S))
            \/ doubled' = [doubled EXCEPT ![key[w]] = IF op[w] = "record" THEN @ + 1 ELSE @]
<1> USE DEF breakerVars, envVars, historyVars
<1>1. CASE ShouldRetry(w) BY <1>1, Zenon DEF ShouldRetry
<1>2. CASE Redis(w)
  <2>1. faults' = faults \/ (faults < MaxFaults /\ faults' = faults + 1)
    BY <1>2, Zenon DEF Redis, Refused, ReplyLost
  <2>2. redis' = redis \/ redis' = Applied(w, redis) \/ redis' = Applied(w, Applied(w, redis))
    BY <1>2, Zenon DEF Redis
  <2>3. lost' = lost \/ Discard(w, redis) BY <1>2, Zenon DEF Redis
  <2>4. \/ doubled' = doubled
        \/ doubled' = [doubled EXCEPT ![key[w]] = IF op[w] = "record" THEN @ + 1 ELSE @]
    BY <1>2, Zenon DEF Redis
  <2>5. entries' = entries /\ fallback' = fallback BY <1>2, Zenon DEF Redis
  <2> QED BY <2>1, <2>2, <2>3, <2>4, <2>5, Zenon
<1>3. CASE Trip(w) BY <1>3, Zenon DEF Trip
<1>4. CASE CheckCapacity(w) BY <1>4, Zenon DEF CheckCapacity
<1>5. CASE CheckExists(w) BY <1>5, Zenon DEF CheckExists
<1>6. CASE Fallback(w) BY <1>6, Zenon DEF Fallback
<1>7. CASE FlushRead(w) BY <1>7, Zenon DEF FlushRead
<1>8. CASE FlushExec(w)
  <2>1. faults' = faults \/ (faults < MaxFaults /\ faults' = faults + 1)
    BY <1>8, Zenon DEF FlushExec, Refused, ReplyLost
  <2>p. SUBSET Pending(w) \subseteq SUBSET Keys BY DEF Pending
  <2>2. \/ redis' = redis \/ redis' = Plus(redis, entries[w])
        \/ \E S \in SUBSET Keys : \/ redis' = Plus(redis, Only(entries[w], S))
                                 \/ redis' = Plus(Plus(redis, Only(entries[w], S)), entries[w])
    BY <1>8, <2>p, Zenon DEF FlushExec
  <2>3. lost' = lost \/ lost' = Plus(lost, entries[w]) BY <1>8, Zenon DEF FlushExec
  <2>4. \/ doubled' = doubled
        \/ \E S \in SUBSET Keys : doubled' = Plus(doubled, Only(entries[w], S))
    BY <1>8, <2>p, Zenon DEF FlushExec
  <2>5. entries' = entries /\ fallback' = fallback BY <1>8, Zenon DEF FlushExec
  <2> QED BY <2>1, <2>2, <2>3, <2>4, <2>5, Zenon
<1>9. CASE FlushClear(w) BY <1>9, Zenon DEF FlushClear
<1>10. CASE Reset(w) BY <1>10, Zenon DEF Reset
<1> QED BY <1>1, <1>2, <1>3, <1>4, <1>5, <1>6, <1>7, <1>8, <1>9, <1>10, Zenon DEF Work

\* A step of a goroutine inside a call keeps the types.
LEMMA WorkType ==
  ASSUME TypeInv, NEW w \in Workers, Work(w), Remember
  PROVE  TypeInv'
<1> USE DEF breakerVars, envVars, workerVars, historyVars
<1>ty. TypeOK BY DEF TypeInv
<1>b. pc[w] # "idle"
  BY DEF Work, ShouldRetry, Redis, Trip, CheckCapacity, CheckExists, Fallback, FlushRead,
    FlushExec, FlushClear, Reset
<1>o. overlapped' \in BOOLEAN BY <1>ty, Zenon DEF TypeOK, Remember
<1>l. {"idle", "try", "trip", "check", "retry", "local", "direct", "flush", "exec", "clear", "reset"}
        \subseteq PC \ {"exists"}
  BY DEF PC
<1>c. /\ pc' \in [Workers -> PC] /\ op' \in [Workers -> {"none", "record", "remove"}]
      /\ key' \in [Workers -> Keys \cup {NoKey}] /\ \A v \in Workers : CallOK(v)'
  <2>1. \/ Return(w)
        \/ \E l \in PC \ {"exists"} : Goto(w, l)
        \/ op[w] = "record" /\ Goto(w, "exists")
    BY <1>l, ZenonT(60) DEF Work, ShouldRetry, Redis, Succeed, Fail, Trip, CheckCapacity, CheckExists,
      Fallback, FlushRead, FlushExec, FlushClear, Reset
  <2> QED BY <1>b, <2>1, GotoType
<1>f. faults' \in 0 .. MaxFaults
  <2>1. faults' = faults \/ (faults < MaxFaults /\ faults' = faults + 1)
    BY WorkEffects, Zenon
  <2> QED BY <1>ty, <2>1, StorageAssumption DEF TypeOK
<1>e. entries' \in [Workers -> [Keys -> Nat]]
  <2>1. entries' = entries \/ entries' = [entries EXCEPT ![w] = fallback]
        \/ entries' = [entries EXCEPT ![w] = None]
    BY WorkEffects, Zenon
  <2> QED BY <1>ty, <2>1, PlusType, Zenon DEF TypeOK
<1>t. tripped' \in BOOLEAN /\ due' \in BOOLEAN /\ redisUp' = redisUp /\ outages' = outages
      /\ reported' = reported
  BY <1>ty, ZenonT(60) DEF TypeOK, Work, ShouldRetry, Redis, Trip, CheckCapacity, CheckExists, Fallback,
    FlushRead, FlushExec, FlushClear, Reset
<1>w. /\ redis \in [Keys -> Nat] /\ fallback \in [Keys -> Nat] /\ lost \in [Keys -> Nat]
      /\ doubled \in [Keys -> Nat] /\ entries[w] \in [Keys -> Nat]
  BY <1>ty DEF TypeOK
<1>k. key[w] \in Keys BY <1>b DEF TypeInv, CallOK
<1>a. /\ Applied(w, redis) \in [Keys -> Nat] /\ Applied(w, fallback) \in [Keys -> Nat]
      /\ Discard(w, redis) \/ Discard(w, fallback) => lost' \in [Keys -> Nat]
  BY <1>b, <1>w, AppliedType
<1>aa. Applied(w, Applied(w, redis)) \in [Keys -> Nat] BY <1>b, <1>a, AppliedType
<1>p. /\ Plus(redis, entries[w]) \in [Keys -> Nat] /\ Plus(lost, entries[w]) \in [Keys -> Nat]
      /\ None \in [Keys -> Nat]
  BY <1>w, PlusType
<1>s. ASSUME NEW S \in SUBSET Keys
      PROVE  /\ Plus(redis, Only(entries[w], S)) \in [Keys -> Nat]
             /\ Plus(Plus(redis, Only(entries[w], S)), entries[w]) \in [Keys -> Nat]
             /\ Plus(doubled, Only(entries[w], S)) \in [Keys -> Nat]
  BY <1>w, PlusType, Zenon
<1>1. redis' \in [Keys -> Nat]
  <2>1. \/ redis' = redis \/ redis' = Applied(w, redis) \/ redis' = Plus(redis, entries[w])
        \/ redis' = Applied(w, Applied(w, redis))
        \/ \E S \in SUBSET Keys : \/ redis' = Plus(redis, Only(entries[w], S))
                                 \/ redis' = Plus(Plus(redis, Only(entries[w], S)), entries[w])
    BY WorkEffects, Zenon
  <2> QED BY <1>w, <1>a, <1>aa, <1>p, <1>s, <2>1, Zenon
<1>2. fallback' \in [Keys -> Nat]
  <2>1. fallback' = fallback \/ fallback' = Applied(w, fallback) \/ fallback' = None
    BY WorkEffects, Zenon
  <2> QED BY <1>w, <1>a, <1>p, <2>1, Zenon
<1>3. lost' \in [Keys -> Nat]
  <2>1. \/ lost' = lost \/ Discard(w, redis) \/ Discard(w, fallback)
        \/ lost' = Plus(lost, entries[w]) \/ lost' = [lost EXCEPT ![key[w]] = @ + 1]
    BY WorkEffects, Zenon
  <2>2. CASE lost' = [lost EXCEPT ![key[w]] = @ + 1]
    <3>1. lost[key[w]] + 1 \in Nat BY <1>w, <1>k
    <3> QED BY <1>w, <1>k, <2>2, <3>1
  <2> QED BY <1>w, <1>a, <1>p, <2>1, <2>2, Zenon
<1>4. doubled' \in [Keys -> Nat]
  <2>1. \/ doubled' = doubled
        \/ \E S \in SUBSET Keys : doubled' = Plus(doubled, Only(entries[w], S))
        \/ doubled' = [doubled EXCEPT ![key[w]] = IF op[w] = "record" THEN @ + 1 ELSE @]
    BY WorkEffects, Zenon
  <2>2. CASE doubled' = [doubled EXCEPT ![key[w]] = IF op[w] = "record" THEN @ + 1 ELSE @]
    <3>1. (IF op[w] = "record" THEN doubled[key[w]] + 1 ELSE doubled[key[w]]) \in Nat
      BY <1>w, <1>k
    <3> QED BY <1>w, <1>k, <2>2, <3>1
  <2> QED BY <1>w, <1>s, <2>1, <2>2, Zenon
<1>5. timed' \subseteq Keys
  <2>1. timed \subseteq Keys /\ Renewed(w) \subseteq Keys /\ Pending(w) \subseteq Keys
    BY <1>ty, <1>k DEF TypeOK, Renewed, Pending
  <2>2. \/ timed' = timed \/ timed' = Renewed(w) \/ timed' = timed \cup Pending(w)
        \/ \E S \in SUBSET Pending(w) : \E last : timed' = timed \cup (S \ {last})
    BY ZenonT(60) DEF Work, ShouldRetry, Redis, Trip, CheckCapacity, CheckExists, Fallback, FlushRead,
      FlushExec, FlushClear, Reset
  <2> QED BY <2>1, <2>2
<1> QED
  BY <1>ty, <1>o, <1>c, <1>f, <1>e, <1>t, <1>1, <1>2, <1>3, <1>4, <1>5, Zenon DEF TypeInv, TypeOK

\* A call that begins keeps the types.
LEMMA CallType ==
  ASSUME TypeInv, NEW w \in Workers, CallAny(w), Remember
  PROVE  TypeInv'
<1> USE DEF breakerVars, envVars, historyVars
<1>ty. TypeOK BY DEF TypeInv
<1>o. overlapped' \in BOOLEAN BY <1>ty, Zenon DEF TypeOK, Remember
<1>1. PICK o \in {"record", "remove"}, k \in Keys : Call(w, o, k) BY DEF CallAny
<1>2. reported' \in [Keys -> Nat]
  <2>1. reported \in [Keys -> Nat] /\ reported[k] + 1 \in Nat BY <1>ty DEF TypeOK
  <2>2. reported' = reported \/ reported' = [reported EXCEPT ![k] = @ + 1]
    BY <1>1, Zenon DEF Call
  <2> QED BY <2>1, <2>2
<1>p. (IF tripped THEN "check" ELSE "try") \in PC \ {"idle", "exists"} BY DEF PC
<1>c. /\ pc \in [Workers -> PC] /\ op \in [Workers -> {"none", "record", "remove"}]
      /\ key \in [Workers -> Keys \cup {NoKey}]
  BY <1>ty DEF TypeOK
<1>3. /\ pc' \in [Workers -> PC] /\ op' \in [Workers -> {"none", "record", "remove"}]
      /\ key' \in [Workers -> Keys \cup {NoKey}]
  <2>1. o \in {"none", "record", "remove"} /\ k \in Keys \cup {NoKey} BY Zenon
  <2> QED BY <1>1, <1>p, <1>c, <2>1, ZenonT(60) DEF Call
<1>4. ASSUME NEW v \in Workers PROVE CallOK(v)'
  <2>1. CASE v = w
    <3>1. pc'[v] # "exists" /\ op'[v] = o /\ key'[v] = k BY <1>1, <1>c, <1>p, <2>1 DEF Call
    <3> QED BY <3>1, Zenon DEF CallOK
  <2>2. CASE v # w
    <3>1. pc'[v] = pc[v] /\ op'[v] = op[v] /\ key'[v] = key[v] BY <1>1, <1>c, <2>2, Zenon DEF Call
    <3> QED BY <3>1, Zenon DEF CallOK, TypeInv
  <2> QED BY <2>1, <2>2
<1>5. UNCHANGED <<breakerVars, redis, timed, fallback, envVars, entries, lost, doubled>>
  BY <1>1, Zenon DEF Call
<1> QED BY <1>ty, <1>o, <1>2, <1>3, <1>4, <1>5, Zenon DEF TypeInv, TypeOK

\* Outages, the TTL and the retry interval keep the types.
LEMMA WorldType ==
  ASSUME TypeInv, Remember,
         RedisDown \/ RedisRestored \/ Tick \/ \E k \in Keys : Expire(k)
  PROVE  TypeInv'
<1> USE DEF breakerVars, envVars, workerVars, historyVars
<1>ty. TypeOK BY DEF TypeInv
<1>o. overlapped' \in BOOLEAN BY <1>ty, Zenon DEF TypeOK, Remember
<1>f. /\ UNCHANGED <<fallback, workerVars, reported, doubled, faults, tripped>>
  BY Zenon DEF RedisDown, RedisRestored, Tick, Expire
<1>c. \A v \in Workers : CallOK(v)' BY <1>f DEF TypeInv, CallOK
<1>1. CASE RedisDown
  <2>0. outages \in 0 .. MaxOutages /\ outages < MaxOutages /\ outages' = outages + 1
    BY <1>ty, <1>1, Zenon DEF TypeOK, RedisDown
  <2>1. outages' \in 0 .. MaxOutages /\ redisUp' \in BOOLEAN
    <3>1. outages' \in 0 .. MaxOutages BY <2>0, StorageAssumption
    <3> QED BY <1>1, <3>1, Zenon DEF RedisDown
  <2>2. UNCHANGED <<due, redis, timed, lost>> BY <1>1 DEF RedisDown
  <2> QED BY <1>ty, <1>o, <1>f, <1>c, <2>1, <2>2, Zenon DEF TypeInv, TypeOK
<1>2. CASE RedisRestored
  BY <1>ty, <1>o, <1>f, <1>c, <1>2, Zenon DEF TypeInv, TypeOK, RedisRestored
<1>3. CASE Tick
  BY <1>ty, <1>o, <1>f, <1>c, <1>3, Zenon DEF TypeInv, TypeOK, Tick
<1>4. ASSUME NEW k \in Keys, Expire(k) PROVE TypeInv'
  <2>1. redis[k] \in Nat /\ lost[k] + redis[k] \in Nat BY <1>ty DEF TypeOK
  <2>2. redis' \in [Keys -> Nat] /\ lost' \in [Keys -> Nat] BY <1>ty, <1>4, <2>1 DEF TypeOK, Expire
  <2>3. UNCHANGED <<breakerVars, envVars>> BY <1>4 DEF Expire
  <2>4. timed' \subseteq Keys BY <1>ty, <1>4, Zenon DEF TypeOK, Expire
  <2> QED BY <1>ty, <1>o, <1>f, <1>c, <2>2, <2>3, <2>4, Zenon DEF TypeInv, TypeOK
<1> QED BY <1>1, <1>2, <1>3, <1>4, Zenon

LEMMA TypeStep ==
  TypeInv /\ [Next]_vars => TypeInv'
<1>1. ASSUME TypeInv, UNCHANGED vars PROVE TypeInv'
  BY <1>1, Zenon DEF TypeInv, TypeOK, CallOK, vars, breakerVars, envVars, workerVars, historyVars
<1> QED BY <1>1, CallType, WorkType, WorldType, Zenon DEF Next

LEMMA TypeInit ==
  Init => TypeInv
<1> SUFFICES ASSUME Init PROVE TypeInv OBVIOUS
<1>1. TypeOK
  <2>1. 0 \in 0 .. MaxOutages /\ 0 \in 0 .. MaxFaults BY StorageAssumption
  <2>2. "idle" \in PC BY DEF PC
  <2> QED BY PlusType, <2>1, <2>2, Zenon DEF Init, TypeOK
<1>2. \A w \in Workers : CallOK(w) BY DEF Init, CallOK
<1> QED BY <1>1, <1>2 DEF TypeInv

\* Every variable of the store keeps its type: counters stay natural numbers
\* whatever the order of reports, removals, flushes and faults.
THEOREM StorageTyped == Spec => []TypeOK
<1>1. TypeInv => TypeOK BY DEF TypeInv
<1> QED BY <1>1, TypeInit, TypeStep, PTL DEF Spec

-----------------------------------------------------------------------------
(* How far the fallback can grow.  A key is claimed when it is in the      *)
(* fallback or when a report for it is past the capacity check; a          *)
(* goroutine presses when it can still claim a key without that check, by  *)
(* tripping the breaker.  Each recovery that ends lets every goroutine     *)
(* press once more, but one that waits to reset the breaker cannot press,  *)
(* which is why the room left depends on how many do not.                  *)

Filled == {k \in Keys : fallback[k] > 0}

Committed == {w \in Workers : op[w] = "record" /\ pc[w] \in {"trip", "direct"}}

Claimed == Filled \cup {key[w] : w \in Committed}

Working == {w \in Workers : pc[w] # "reset"}

Pressing == {w \in Workers : IF tripped THEN pc[w] = "try" ELSE pc[w] \notin {"reset", "trip"}}

Room(n) == 2 * MaxFallbackKeys + n * (n + 1)

BoundInv == 2 * (Cardinality(Claimed) + Cardinality(Pressing)) <= Room(Cardinality(Working))

Sizes ==
  /\ IsFiniteSet(Claimed) /\ IsFiniteSet(Pressing) /\ IsFiniteSet(Working)
  /\ Cardinality(Claimed) \in Nat /\ Cardinality(Pressing) \in Nat
  /\ Cardinality(Working) \in Nat /\ Len(fallback) \in Nat
  /\ Len(fallback) <= Cardinality(Claimed)
  /\ Cardinality(Claimed) <= Len(fallback) + Cardinality(Working)
  /\ Cardinality(Pressing) <= Cardinality(Working)
  /\ Cardinality(Working) <= Cardinality(Workers) /\ Cardinality(Workers) \in Nat

\* The arithmetic of the room: 2n + 2n of it is there once one key is.
LEMMA RoomFacts ==
  ASSUME NEW n \in Nat
  PROVE  /\ 4 * n <= 2 + n * (n + 1)
         /\ (n + 1) * (n + 2) = n * (n + 1) + 2 * (n + 1)
         /\ n * (n + 1) \in Nat
         /\ \A m \in Nat : m <= n => m * (m + 1) <= n * (n + 1)
<1>1. n * (n + 1) = n * n + n /\ n * n \in Nat BY SMT
<1>2. 4 * n <= 2 + n * (n + 1)
  <2>1. CASE n <= 2
    <3>1. n = 0 \/ n = 1 \/ n = 2 BY <2>1
    <3> QED BY <3>1
  <2>2. CASE n >= 3
    <3>1. n * n >= 3 * n BY <2>2, SMT
    <3> QED BY <1>1, <3>1
  <2> QED BY <2>1, <2>2
<1>3. (n + 1) * (n + 2) = n * (n + 1) + 2 * (n + 1) BY SMT
<1>4. ASSUME NEW m \in Nat, m <= n PROVE m * (m + 1) <= n * (n + 1) BY <1>4, SMT
<1> QED BY <1>1, <1>2, <1>3, <1>4

LEMMA SizesOK ==
  TypeInv => Sizes
<1> SUFFICES ASSUME TypeInv PROVE Sizes OBVIOUS
<1>w. IsFiniteSet(Workers) /\ IsFiniteSet(Keys) BY StorageAssumption
<1>1. /\ IsFiniteSet(Working) /\ Cardinality(Working) <= Cardinality(Workers)
      /\ Cardinality(Working) \in Nat /\ Cardinality(Workers) \in Nat
  BY <1>w, FS_Subset, FS_CardinalityType DEF Working
<1>2. /\ IsFiniteSet(Pressing) /\ Cardinality(Pressing) <= Cardinality(Working)
      /\ Cardinality(Pressing) \in Nat
  <2>1. Pressing \subseteq Working BY DEF Pressing, Working
  <2> QED BY <1>1, <2>1, FS_Subset, FS_CardinalityType
<1>3. /\ IsFiniteSet(Committed) /\ Cardinality(Committed) <= Cardinality(Working)
      /\ Cardinality(Committed) \in Nat
  <2>1. Committed \subseteq Working BY DEF Committed, Working
  <2> QED BY <1>1, <2>1, FS_Subset, FS_CardinalityType
<1>4. /\ IsFiniteSet(Filled) /\ Cardinality(Filled) \in Nat /\ Cardinality(Filled) = Len(fallback)
  <2>1. Filled \subseteq Keys BY DEF Filled
  <2> QED BY <1>w, <2>1, FS_Subset, FS_CardinalityType DEF Len, Filled
<1> DEFINE T == {key[w] : w \in Committed}
           f == [w \in Committed |-> key[w]]
<1>5. IsFiniteSet(T) /\ Cardinality(T) <= Cardinality(Committed) /\ Cardinality(T) \in Nat
  <2>1. f \in Surjection(Committed, T) BY DEF Surjection
  <2> HIDE DEF f, T
  <2> QED BY <1>3, <2>1, FS_Surjection, FS_CardinalityType
<1>6. /\ IsFiniteSet(Claimed) /\ Cardinality(Claimed) \in Nat
      /\ Cardinality(Claimed) <= Cardinality(Filled) + Cardinality(T)
      /\ Cardinality(Filled) <= Cardinality(Claimed)
  <2>0. Claimed = Filled \cup T BY DEF Claimed
  <2> HIDE DEF T
  <2>1. /\ IsFiniteSet(Claimed)
        /\ Cardinality(Claimed) = Cardinality(Filled) + Cardinality(T) - Cardinality(Filled \cap T)
    BY <1>4, <1>5, <2>0, FS_Union
  <2>2. Cardinality(Filled \cap T) \in Nat
    BY <1>4, FS_Subset, FS_CardinalityType
  <2>3. Cardinality(Claimed) \in Nat BY <2>1, FS_CardinalityType
  <2>4. Filled \in SUBSET Claimed BY <2>0
  <2>5. Cardinality(Filled) <= Cardinality(Claimed) BY <2>1, <2>4, FS_Subset
  <2> QED BY <1>4, <1>5, <2>1, <2>2, <2>3, <2>5
<1> HIDE DEF T, f
<1> QED BY <1>1, <1>2, <1>3, <1>4, <1>5, <1>6 DEF Sizes

\* The four ways a step can change the sets, and that each keeps the bound.
LEMMA BoundQuiet ==
  ASSUME Sizes, Sizes', BoundInv,
         Claimed' \subseteq Claimed, Pressing' \subseteq Pressing, Working' = Working
  PROVE  BoundInv'
<1>1. Cardinality(Claimed') <= Cardinality(Claimed) BY FS_Subset DEF Sizes
<1>2. Cardinality(Pressing') <= Cardinality(Pressing) BY FS_Subset DEF Sizes
<1>3. Room(Cardinality(Working)) \in Nat
  BY RoomFacts, StorageAssumption DEF Sizes, Room
<1> QED BY <1>1, <1>2, <1>3, SMT DEF Sizes, BoundInv, Room

LEMMA BoundTrips ==
  ASSUME Sizes, Sizes', BoundInv, NEW w \in Pressing, NEW k,
         Claimed' \subseteq Claimed \cup {k}, Pressing' \subseteq Pressing \ {w}, Working' = Working
  PROVE  BoundInv'
<1>0. /\ IsFiniteSet(Claimed \cup {k}) /\ Cardinality(Claimed) \in Nat
      /\ Cardinality(Claimed \cup {k}) = IF k \in Claimed THEN Cardinality(Claimed)
                                                        ELSE Cardinality(Claimed) + 1
  BY FS_AddElement, Zenon DEF Sizes
<1>1. /\ IsFiniteSet(Claimed \cup {k}) /\ Cardinality(Claimed \cup {k}) <= Cardinality(Claimed) + 1
      /\ Cardinality(Claimed \cup {k}) \in Nat
  BY <1>0
<1>2. IsFiniteSet(Pressing \ {w}) /\ Cardinality(Pressing \ {w}) = Cardinality(Pressing) - 1
  BY FS_RemoveElement DEF Sizes
<1>3. Cardinality(Claimed') <= Cardinality(Claimed \cup {k}) BY <1>1, FS_Subset
<1>4. Cardinality(Pressing') <= Cardinality(Pressing \ {w}) BY <1>2, FS_Subset
<1>5. Room(Cardinality(Working)) \in Nat
  BY RoomFacts, StorageAssumption DEF Sizes, Room
<1> QED BY <1>1, <1>2, <1>3, <1>4, <1>5, SMT DEF Sizes, BoundInv, Room

LEMMA BoundBelowCapacity ==
  ASSUME Sizes', Len(fallback') < MaxFallbackKeys
  PROVE  BoundInv'
<1> DEFINE n == Cardinality(Working')
<1>1. n \in Nat /\ 4 * n <= 2 + n * (n + 1) /\ n * (n + 1) \in Nat
  BY RoomFacts DEF Sizes
<1>2. /\ Cardinality(Claimed') <= Len(fallback') + n /\ Cardinality(Pressing') <= n
      /\ Cardinality(Claimed') \in Nat /\ Cardinality(Pressing') \in Nat /\ Len(fallback') \in Nat
  BY DEF Sizes
<1>3. BoundInv' <=> 2 * (Cardinality(Claimed') + Cardinality(Pressing'))
                      <= 2 * MaxFallbackKeys + n * (n + 1)
  BY DEF BoundInv, Room
<1> HIDE DEF n
<1> QED BY <1>1, <1>2, <1>3, StorageAssumption, SMT

LEMMA BoundReset ==
  ASSUME Sizes, Sizes', BoundInv, NEW w, w \notin Working,
         Claimed' \subseteq Claimed, Working' = Working \cup {w}
  PROVE  BoundInv'
<1> DEFINE n == Cardinality(Working)
<1>1. Cardinality(Working') = n + 1 BY FS_AddElement DEF Sizes
<1>2. n \in Nat /\ (n + 1) * (n + 2) = n * (n + 1) + 2 * (n + 1) /\ n * (n + 1) \in Nat
  BY RoomFacts DEF Sizes
<1>3. Cardinality(Claimed') <= Cardinality(Claimed) BY FS_Subset DEF Sizes
<1>4. Cardinality(Pressing') <= n + 1 BY <1>1 DEF Sizes
<1>5. /\ Cardinality(Claimed') \in Nat /\ Cardinality(Claimed) \in Nat
      /\ Cardinality(Pressing) \in Nat /\ Cardinality(Pressing') \in Nat
  BY DEF Sizes
<1>6. 2 * (Cardinality(Claimed) + Cardinality(Pressing)) <= 2 * MaxFallbackKeys + n * (n + 1)
  BY DEF BoundInv, Room
<1>7. BoundInv' <=> 2 * (Cardinality(Claimed') + Cardinality(Pressing'))
                      <= 2 * MaxFallbackKeys + (n + 1) * (n + 2)
  <2>1. n + 1 + 1 = n + 2 BY <1>2
  <2> QED BY <1>1, <2>1 DEF BoundInv, Room
<1> HIDE DEF n
<1> QED BY <1>2, <1>3, <1>4, <1>5, <1>6, <1>7, StorageAssumption, SMT

\* The other goroutines are where they were.
Frame(w) ==
  \A v \in Workers \ {w} : pc'[v] = pc[v] /\ op'[v] = op[v] /\ key'[v] = key[v]

LEMMA FrameOK ==
  ASSUME TypeInv, NEW w \in Workers
  PROVE  /\ \A l \in PC : Goto(w, l) => Frame(w) /\ pc'[w] = l /\ op'[w] = op[w] /\ key'[w] = key[w]
         /\ Return(w) => Frame(w) /\ pc'[w] = "idle" /\ op'[w] = "none"
         /\ \A o, k : Call(w, o, k) => /\ Frame(w) /\ op'[w] = o /\ key'[w] = k
                                       /\ pc'[w] = IF tripped THEN "check" ELSE "try"
<1>1. /\ pc \in [Workers -> PC] /\ op \in [Workers -> {"none", "record", "remove"}]
      /\ key \in [Workers -> Keys \cup {NoKey}]
  BY DEF TypeInv, TypeOK
<1>2. ASSUME NEW l \in PC, Goto(w, l)
      PROVE  Frame(w) /\ pc'[w] = l /\ op'[w] = op[w] /\ key'[w] = key[w]
  BY <1>1, <1>2, Zenon DEF Goto, Frame
<1>3. ASSUME Return(w) PROVE Frame(w) /\ pc'[w] = "idle" /\ op'[w] = "none"
  BY <1>1, <1>3, Zenon DEF Return, Frame
<1>4. ASSUME NEW o, NEW k, Call(w, o, k)
      PROVE  /\ Frame(w) /\ op'[w] = o /\ key'[w] = k
             /\ pc'[w] = IF tripped THEN "check" ELSE "try"
  BY <1>1, <1>4, Zenon DEF Call, Frame
<1> QED BY <1>2, <1>3, <1>4, Zenon

LEMMA ClaimStep ==
  ASSUME NEW w \in Workers, Frame(w), NEW X,
         Filled' \subseteq Claimed \cup X, w \in Committed' => key'[w] \in Claimed \cup X
  PROVE  Claimed' \subseteq Claimed \cup X
<1>1. ASSUME NEW v \in Committed' PROVE key'[v] \in Claimed \cup X
  <2>1. CASE v # w
    <3>1. v \in Committed /\ key'[v] = key[v] BY <1>1, <2>1, Zenon DEF Committed, Frame
    <3> QED BY <3>1, Zenon DEF Claimed
  <2> QED BY <1>1, <2>1, Zenon
<1> QED BY <1>1, Zenon DEF Claimed

LEMMA PressStep ==
  ASSUME NEW w \in Workers, Frame(w), tripped => tripped', w \in Pressing' => w \in Pressing
  PROVE  Pressing' \subseteq Pressing
<1>1. ASSUME NEW v \in Pressing', v # w PROVE v \in Pressing
  <2>1. v \in Workers /\ pc'[v] = pc[v] BY <1>1 DEF Pressing, Frame
  <2> QED BY <1>1, <2>1 DEF Pressing
<1> QED BY <1>1, Zenon

LEMMA WorkingStep ==
  ASSUME NEW w \in Workers, Frame(w), pc[w] = "reset" <=> pc'[w] = "reset"
  PROVE  Working' = Working
<1>1. \A v \in Workers : pc[v] = "reset" <=> pc'[v] = "reset" BY Zenon DEF Frame
<1> QED BY <1>1, Zenon DEF Working

LEMMA QuietStep ==
  ASSUME Sizes, Sizes', BoundInv, NEW w \in Workers, Frame(w),
         Filled' \subseteq Claimed, w \in Committed' => key'[w] \in Claimed,
         tripped => tripped', w \in Pressing' => w \in Pressing,
         pc[w] = "reset" <=> pc'[w] = "reset"
  PROVE  BoundInv'
<1>1. Claimed' \subseteq Claimed
  <2>1. Claimed' \subseteq Claimed \cup {} BY ClaimStep, Zenon
  <2> QED BY <2>1, Zenon
<1> QED BY <1>1, PressStep, WorkingStep, BoundQuiet, Zenon

\* A step of a goroutine keeps the bound.
LEMMA BoundWork ==
  ASSUME TypeInv, Sizes, Sizes', BoundInv, NEW w \in Workers, Work(w)
  PROVE  BoundInv'
<1> USE DEF breakerVars
<1>p. /\ pc[w] \in PC /\ tripped \in BOOLEAN /\ fallback \in [Keys -> Nat]
      /\ pc[w] # "idle" => key[w] \in Keys /\ op[w] \in {"record", "remove"}
      /\ pc[w] = "exists" => op[w] = "record"
  BY Zenon DEF TypeInv, TypeOK, CallOK
<1>l. {"idle", "try", "trip", "check", "retry", "local", "exists", "direct", "flush", "exec",
       "clear", "reset"} \subseteq PC
  BY DEF PC
<1>f. Filled \subseteq Claimed BY DEF Claimed
<1>c. w \in Committed => key[w] \in Claimed BY DEF Claimed
<1>s. fallback' = fallback => Filled' = Filled BY Zenon DEF Filled
<1>1. CASE ShouldRetry(w)
  <2>1. fallback' = fallback /\ tripped' = tripped /\ pc[w] = "check" BY <1>1 DEF ShouldRetry
  <2>2. Frame(w) /\ pc'[w] \in {"retry", "local"} BY <1>1, <1>l, FrameOK, Zenon DEF ShouldRetry
  <2>3. w \notin Committed' BY <2>2 DEF Committed
  <2>4. w \in Pressing' => w \in Pressing BY <2>1, <2>2 DEF Pressing
  <2>5. pc[w] # "reset" /\ pc'[w] # "reset" BY <2>1, <2>2
  <2> QED BY <1>f, <1>s, <2>1, <2>2, <2>3, <2>4, <2>5, QuietStep, Zenon
<1>2. CASE Redis(w)
  <2>1. fallback' = fallback /\ tripped' = tripped /\ pc[w] \in {"try", "retry"} BY <1>2 DEF Redis
  <2>2. \/ Return(w)
        \/ Goto(w, "flush") /\ pc[w] = "retry"
        \/ Goto(w, "local")
        \/ Goto(w, "trip") /\ pc[w] = "try"
    <3>1. \/ IF pc[w] = "try" THEN Return(w) ELSE Goto(w, "flush")
          \/ Goto(w, IF pc[w] = "try" THEN "trip" ELSE "local")
      BY <1>2, Zenon DEF Redis, Succeed, Fail
    <3> QED BY <2>1, <3>1
  <2>3. CASE ~ (Goto(w, "trip") /\ pc[w] = "try")
    <3>1. Frame(w) /\ pc'[w] \in {"idle", "flush", "local"}
      BY <2>2, <2>3, <1>l, FrameOK, Zenon
    <3>2. w \notin Committed' BY <3>1 DEF Committed
    <3>3. w \in Pressing' => w \in Pressing BY <2>1, <3>1 DEF Pressing
    <3>4. pc[w] # "reset" /\ pc'[w] # "reset" BY <2>1, <3>1
    <3> QED BY <1>f, <1>s, <2>1, <3>1, <3>2, <3>3, <3>4, QuietStep, Zenon
  <2>4. CASE Goto(w, "trip") /\ pc[w] = "try"
    <3>1. Frame(w) /\ pc'[w] = "trip" /\ key'[w] = key[w] BY <2>4, <1>l, FrameOK, Zenon
    <3>2. Claimed' \subseteq Claimed \cup {key[w]} BY <1>f, <1>s, <2>1, <3>1, ClaimStep, Zenon
    <3>3. w \notin Pressing' /\ w \in Pressing BY <2>1, <2>4, <3>1 DEF Pressing
    <3>4. Pressing' \subseteq Pressing \ {w}
      <4>1. Pressing' \subseteq Pressing BY <2>1, <3>1, <3>3, PressStep, Zenon
      <4> QED BY <3>3, <4>1
    <3>5. Working' = Working
      <4>1. pc[w] # "reset" /\ pc'[w] # "reset" BY <2>4, <3>1
      <4> QED BY <3>1, <4>1, WorkingStep, Zenon
    <3> QED BY <3>2, <3>3, <3>4, <3>5, BoundTrips
  <2> QED BY <2>3, <2>4
<1>3. CASE Trip(w)
  <2>1. fallback' = fallback /\ tripped' = TRUE /\ pc[w] = "trip" BY <1>3 DEF Trip
  <2>2. /\ Frame(w) /\ pc'[w] = "direct" /\ op'[w] = op[w] /\ key'[w] = key[w]
    BY <1>3, <1>l, FrameOK, Zenon DEF Trip
  <2>3. w \in Committed' => key'[w] \in Claimed BY <1>c, <2>1, <2>2 DEF Committed
  <2>4. w \notin Pressing' BY <2>1, <2>2 DEF Pressing
  <2>5. pc[w] # "reset" /\ pc'[w] # "reset" BY <2>1, <2>2
  <2> QED BY <1>f, <1>s, <2>1, <2>2, <2>3, <2>4, <2>5, QuietStep, Zenon
<1>4. CASE CheckCapacity(w)
  <2>1. fallback' = fallback /\ tripped' = tripped /\ pc[w] = "local" BY <1>4 DEF CheckCapacity
  <2>2. CASE op[w] = "record" /\ ~ (Len(fallback) >= MaxFallbackKeys)
    <3>1. Len(fallback') < MaxFallbackKeys
      BY <2>1, <2>2, StorageAssumption DEF Sizes
    <3> QED BY <3>1, BoundBelowCapacity
  <2>3. CASE ~ (op[w] = "record" /\ ~ (Len(fallback) >= MaxFallbackKeys))
    <3>1. Goto(w, "exists") \/ (Goto(w, "direct") /\ op[w] # "record")
      <4>1. Goto(w, IF op[w] = "record" /\ Len(fallback) >= MaxFallbackKeys THEN "exists" ELSE "direct")
        BY <1>4, Zenon DEF CheckCapacity
      <4>2. CASE op[w] = "record" /\ Len(fallback) >= MaxFallbackKeys BY <4>1, <4>2
      <4>3. CASE op[w] # "record" BY <4>1, <4>3
      <4> QED BY <2>3, <4>2, <4>3, Zenon
    <3>2. /\ Frame(w) /\ pc'[w] \in {"exists", "direct"}
          /\ op'[w] = op[w] /\ (pc'[w] = "direct" => op[w] # "record")
      BY <3>1, <1>l, FrameOK
    <3>3. w \notin Committed' BY <3>2 DEF Committed
    <3>4. w \in Pressing' => w \in Pressing BY <2>1, <3>2 DEF Pressing
    <3>5. pc[w] # "reset" /\ pc'[w] # "reset" BY <2>1, <3>2
    <3> QED BY <1>f, <1>s, <2>1, <3>2, <3>3, <3>4, <3>5, QuietStep, Zenon
  <2> QED BY <2>2, <2>3
<1>5. CASE CheckExists(w)
  <2>1. fallback' = fallback /\ tripped' = tripped /\ pc[w] = "exists" BY <1>5 DEF CheckExists
  <2>2. Return(w) \/ (Goto(w, "direct") /\ fallback[key[w]] > 0) BY <1>5, Zenon DEF CheckExists
  <2>3. /\ Frame(w) /\ pc'[w] \in {"idle", "direct"}
        /\ (pc'[w] = "direct" => fallback[key[w]] > 0 /\ key'[w] = key[w])
    BY <2>2, <1>l, FrameOK
  <2>4. w \in Committed' => key'[w] \in Claimed
    <3>1. pc'[w] = "direct" => key'[w] \in Filled BY <1>p, <2>1, <2>3 DEF Filled
    <3>2. w \in Committed' => pc'[w] \in {"trip", "direct"} BY DEF Committed
    <3> QED BY <1>f, <2>3, <3>1, <3>2
  <2>5. w \in Pressing' => w \in Pressing BY <2>1, <2>3 DEF Pressing
  <2>6. pc[w] # "reset" /\ pc'[w] # "reset" BY <2>1, <2>3
  <2> QED BY <1>f, <1>s, <2>1, <2>3, <2>4, <2>5, <2>6, QuietStep, Zenon
<1>6. CASE Fallback(w)
  <2>1. tripped' = tripped /\ pc[w] = "direct" /\ fallback' = Applied(w, fallback)
    BY <1>6 DEF Fallback
  <2>2. Frame(w) /\ pc'[w] = "idle" BY <1>6, <1>l, FrameOK, Zenon DEF Fallback
  <2>3. Filled' \subseteq Claimed
    <3>1. ASSUME NEW k \in Filled', k # key[w] PROVE k \in Filled
      <4>1. k \in Keys /\ fallback'[k] = fallback[k] BY <1>p, <2>1, <3>1 DEF Applied, Filled
      <4>2. fallback'[k] > 0 BY <3>1 DEF Filled
      <4> QED BY <4>1, <4>2 DEF Filled
    <3>2. ASSUME key[w] \in Filled' PROVE key[w] \in Claimed
      <4>1. CASE op[w] = "record"
        <5>1. w \in Committed BY <2>1, <4>1 DEF Committed
        <5> QED BY <1>c, <5>1
      <4>2. CASE op[w] # "record"
        <5>1. fallback'[key[w]] = 0 BY <1>p, <2>1, <4>2 DEF Applied
        <5>2. fallback'[key[w]] > 0 BY <3>2 DEF Filled
        <5> QED BY <5>1, <5>2
      <4> QED BY <4>1, <4>2
    <3> QED BY <1>f, <3>1, <3>2, Zenon
  <2>4. w \notin Committed' BY <2>2 DEF Committed
  <2>5. w \in Pressing' => w \in Pressing BY <2>1, <2>2 DEF Pressing
  <2>6. pc[w] # "reset" /\ pc'[w] # "reset" BY <2>1, <2>2
  <2> QED BY <2>1, <2>2, <2>3, <2>4, <2>5, <2>6, QuietStep, Zenon
<1>e. ASSUME fallback' = None PROVE BoundInv'
  <2>1. {k \in Keys : fallback'[k] > 0} = {} BY <1>e DEF None
  <2>2. Len(fallback') = 0 BY <2>1, FS_EmptySet DEF Len
  <2>3. Len(fallback') < MaxFallbackKeys BY <2>2, StorageAssumption
  <2> QED BY <2>3, BoundBelowCapacity
<1>7. CASE FlushRead(w)
  <2>1. fallback' = fallback /\ tripped' = tripped /\ pc[w] = "flush" BY <1>7 DEF FlushRead
  <2>2. CASE fallback = None BY <1>e, <2>1, <2>2
  <2>3. CASE fallback # None
    <3>1. Frame(w) /\ pc'[w] = "exec" BY <1>7, <2>3, <1>l, FrameOK, Zenon DEF FlushRead
    <3>2. w \notin Committed' BY <3>1 DEF Committed
    <3>3. w \in Pressing' => w \in Pressing BY <2>1, <3>1 DEF Pressing
    <3>4. pc[w] # "reset" /\ pc'[w] # "reset" BY <2>1, <3>1
    <3> QED BY <1>f, <1>s, <2>1, <3>1, <3>2, <3>3, <3>4, QuietStep, Zenon
  <2> QED BY <2>2, <2>3
<1>8. CASE FlushExec(w)
  <2>1. fallback' = fallback /\ tripped' = tripped /\ pc[w] = "exec" BY <1>8 DEF FlushExec
  <2>2. Frame(w) /\ pc'[w] = "clear" BY <1>8, <1>l, FrameOK, Zenon DEF FlushExec
  <2>3. w \notin Committed' BY <2>2 DEF Committed
  <2>4. w \in Pressing' => w \in Pressing BY <2>1, <2>2 DEF Pressing
  <2>5. pc[w] # "reset" /\ pc'[w] # "reset" BY <2>1, <2>2
  <2> QED BY <1>f, <1>s, <2>1, <2>2, <2>3, <2>4, <2>5, QuietStep, Zenon
<1>9. CASE FlushClear(w) BY <1>e, <1>9 DEF FlushClear
<1>10. CASE Reset(w)
  <2>1. fallback' = fallback /\ pc[w] = "reset" BY <1>10 DEF Reset
  <2>2. Frame(w) /\ pc'[w] = "idle" BY <1>10, <1>l, FrameOK, Zenon DEF Reset
  <2>3. Claimed' \subseteq Claimed
    <3>1. w \notin Committed' BY <2>2 DEF Committed
    <3>2. Claimed' \subseteq Claimed \cup {} BY <1>f, <1>s, <2>1, <2>2, <3>1, ClaimStep, Zenon
    <3> QED BY <3>2, Zenon
  <2>4. Working' = Working \cup {w} /\ w \notin Working
    <3>1. \A v \in Workers \ {w} : pc'[v] # "reset" <=> pc[v] # "reset" BY <2>2, Zenon DEF Frame
    <3> QED BY <2>1, <2>2, <3>1 DEF Working
  <2> QED BY <2>3, <2>4, BoundReset
<1> QED BY <1>1, <1>2, <1>3, <1>4, <1>5, <1>6, <1>7, <1>8, <1>9, <1>10, Zenon DEF Work

LEMMA BoundCall ==
  ASSUME TypeInv, Sizes, Sizes', BoundInv, NEW w \in Workers, CallAny(w)
  PROVE  BoundInv'
<1>1. PICK o \in {"record", "remove"}, k \in Keys : Call(w, o, k) BY DEF CallAny
<1>2. fallback' = fallback /\ tripped' = tripped /\ pc[w] = "idle" BY <1>1 DEF Call, breakerVars
<1>3. Frame(w) /\ pc'[w] = IF tripped THEN "check" ELSE "try" BY <1>1, FrameOK, Zenon
<1>4. Filled' \subseteq Claimed BY <1>2, Zenon DEF Filled, Claimed
<1>5. w \notin Committed' BY <1>3 DEF Committed
<1>6. w \in Pressing' => w \in Pressing BY <1>2, <1>3 DEF Pressing
<1>7. pc[w] # "reset" /\ pc'[w] # "reset" BY <1>2, <1>3
<1> QED BY <1>2, <1>3, <1>4, <1>5, <1>6, <1>7, QuietStep, Zenon

LEMMA BoundStep ==
  ASSUME TypeInv, TypeInv', BoundInv, [Next]_vars
  PROVE  BoundInv'
<1>1. Sizes BY SizesOK
<1>2. Sizes'
  <2>1. TypeInv' => Sizes' BY SizesOK, PTL
  <2> QED BY <2>1
<1>3. CASE UNCHANGED <<fallback, pc, op, key, tripped>>
  <2>1. Claimed' = Claimed /\ Pressing' = Pressing /\ Working' = Working
    BY <1>3, Zenon DEF Claimed, Filled, Committed, Pressing, Working
  <2> QED BY <2>1, Zenon DEF BoundInv
<1>4. \/ \E w \in Workers : CallAny(w)
      \/ \E w \in Workers : Work(w)
      \/ UNCHANGED <<fallback, pc, op, key, tripped>>
  BY ZenonT(60) DEF Next, RedisDown, RedisRestored, Tick, Expire, vars, breakerVars, workerVars
<1> QED BY <1>1, <1>2, <1>3, <1>4, BoundCall, BoundWork, Zenon

\* However the check of the capacity, the trips and the flushes of concurrent
\* callers interleave, the fallback of RedisStorage outgrows MaxFallbackKeys
\* by n(n+1)/2 keys at most, n being the number of callers.
THEOREM FallbackIsBounded == Spec => []FallbackBounded
<1>1. Init => BoundInv
  <2> SUFFICES ASSUME Init PROVE BoundInv OBVIOUS
  <2>1. Sizes BY TypeInit, SizesOK
  <2> DEFINE n == Cardinality(Working)
  <2>2. Claimed = {}
    <3>1. Filled = {} BY DEF Init, Filled, None
    <3>2. Committed = {} BY DEF Init, Committed
    <3> QED BY <3>1, <3>2 DEF Claimed
  <2>3. Cardinality(Claimed) = 0 BY <2>2, FS_EmptySet
  <2>4. n \in Nat /\ 4 * n <= 2 + n * (n + 1) /\ n * (n + 1) \in Nat BY <2>1, RoomFacts DEF Sizes
  <2>5. Cardinality(Pressing) <= n /\ Cardinality(Pressing) \in Nat BY <2>1 DEF Sizes
  <2>6. BoundInv <=> 2 * (Cardinality(Claimed) + Cardinality(Pressing))
                       <= 2 * MaxFallbackKeys + n * (n + 1)
    BY DEF BoundInv, Room
  <2> HIDE DEF n
  <2> QED BY <2>3, <2>4, <2>5, <2>6, StorageAssumption, SMT
<1>2. TypeInv /\ BoundInv /\ [Next]_vars => TypeInv' /\ BoundInv'
  BY TypeStep, BoundStep
<1>3. TypeInv /\ BoundInv => FallbackBounded
  <2> SUFFICES ASSUME TypeInv, BoundInv PROVE FallbackBounded OBVIOUS
  <2> DEFINE n == Cardinality(Working)
             m == Cardinality(Workers)
  <2>1. Sizes BY SizesOK
  <2>2. n \in Nat /\ m \in Nat /\ n <= m BY <2>1 DEF Sizes
  <2>3. n * (n + 1) <= m * (m + 1) /\ n * (n + 1) \in Nat /\ m * (m + 1) \in Nat
    BY <2>2, RoomFacts
  <2>4. /\ Len(fallback) <= Cardinality(Claimed) /\ Cardinality(Pressing) \in Nat
        /\ Len(fallback) \in Nat /\ Cardinality(Claimed) \in Nat
    BY <2>1 DEF Sizes
  <2>5. 2 * (Cardinality(Claimed) + Cardinality(Pressing)) <= 2 * MaxFallbackKeys + n * (n + 1)
    BY DEF BoundInv, Room
  <2>6. FallbackBounded <=> 2 * Len(fallback) <= 2 * MaxFallbackKeys + m * (m + 1)
    BY DEF FallbackBounded
  <2> HIDE DEF n, m
  <2> QED BY <2>2, <2>3, <2>4, <2>5, <2>6, StorageAssumption, SMT
<1> QED BY <1>1, <1>2, <1>3, TypeInit, PTL DEF Spec

-----------------------------------------------------------------------------
(* Where the reports are while calls run, as long as no recovery overlaps  *)
(* with another call: on their way in a call, in Redis, in the fallback or *)
(* lost; and twice while a flush has written the entries it has not yet    *)
(* cleared.                                                                *)

Recovering == {"flush", "exec", "clear", "reset"}

Open == Recovering \cup {"check", "retry", "local", "exists", "direct"}

\* A recovery that has the store to itself finds it as it left it, and closes
\* the breaker over an empty fallback.
StaleInv ==
  /\ Overlapping => overlapped
  /\ ~overlapped =>
       /\ ~tripped => fallback = None /\ \A w \in Workers : pc[w] \notin Open
       /\ \A w \in Workers : /\ pc[w] = "reset" => fallback = None
                             /\ pc[w] \in {"exec", "clear"} => entries[w] = fallback

LEMMA Unoverlapped ==
  ASSUME StaleInv, Remember, ~overlapped'
  PROVE  /\ ~overlapped /\ ~Overlapping'
         /\ \A v, w \in Workers : v # w /\ pc[v] \in Recovering => pc[w] = "idle"
BY Zenon DEF StaleInv, Remember, Overlapping, Recovering

\* A step of a goroutine changes its own entries only.
LEMMA EntriesFrame ==
  ASSUME TypeInv, NEW w \in Workers, Work(w)
  PROVE  \A v \in Workers \ {w} : entries'[v] = entries[v]
<1>1. \/ entries' = entries
      \/ \E x : entries' = [entries EXCEPT ![w] = x]
  BY WorkEffects, Zenon
<1>2. entries \in [Workers -> [Keys -> Nat]] BY DEF TypeInv, TypeOK
<1> QED BY <1>1, <1>2, Zenon

\* The place of a goroutine after its step.
LEMMA WorkFrame ==
  ASSUME TypeInv, NEW w \in Workers, Work(w)
  PROVE  Frame(w) /\ pc[w] # "idle"
<1>l. {"idle", "try", "trip", "check", "retry", "local", "exists", "direct", "flush", "exec",
       "clear", "reset"} \subseteq PC
  BY DEF PC
<1>1. Return(w) \/ \E l \in PC : Goto(w, l)
  BY <1>l, ZenonT(60) DEF Work, ShouldRetry, Redis, Succeed, Fail, Trip, CheckCapacity, CheckExists,
    Fallback, FlushRead, FlushExec, FlushClear, Reset
<1>2. Frame(w) BY <1>1, FrameOK, ZenonT(30)
<1>3. pc[w] # "idle"
  BY DEF Work, ShouldRetry, Redis, Trip, CheckCapacity, CheckExists, Fallback, FlushRead,
    FlushExec, FlushClear, Reset
<1> QED BY <1>2, <1>3

\* What the step of a goroutine does to the breaker and to the fallback.
LEMMA BreakerStep ==
  ASSUME TypeInv, NEW w \in Workers, Work(w)
  PROVE  \/ /\ pc[w] \in {"try", "retry", "check", "local", "exists"} /\ tripped' = tripped
            /\ fallback' = fallback /\ pc'[w] \notin {"exec", "clear", "reset"}
            /\ pc[w] = "try" => pc'[w] \in {"idle", "trip"}
         \/ /\ pc[w] = "trip" /\ tripped' /\ fallback' = fallback /\ pc'[w] = "direct"
         \/ /\ pc[w] = "direct" /\ tripped' = tripped /\ pc'[w] = "idle"
         \/ /\ pc[w] = "flush" /\ tripped' = tripped /\ fallback' = fallback
            /\ \/ pc'[w] = "reset" /\ fallback = None
               \/ pc'[w] = "exec" /\ entries'[w] = fallback
         \/ /\ pc[w] = "exec" /\ tripped' = tripped /\ fallback' = fallback
            /\ pc'[w] = "clear" /\ entries'[w] = entries[w]
         \/ /\ pc[w] = "clear" /\ tripped' = tripped /\ fallback' = None /\ pc'[w] = "reset"
         \/ /\ pc[w] = "reset" /\ ~tripped' /\ fallback' = fallback /\ pc'[w] = "idle"
<1> USE DEF breakerVars
<1>l. {"idle", "try", "trip", "check", "retry", "local", "exists", "direct", "flush", "exec",
       "clear", "reset"} \subseteq PC
  BY DEF PC
<1>e. entries \in [Workers -> [Keys -> Nat]] BY DEF TypeInv, TypeOK
<1>1. CASE ShouldRetry(w)
  <2>1. pc'[w] \in {"retry", "local"} BY <1>1, <1>l, FrameOK, Zenon DEF ShouldRetry
  <2>2. pc[w] = "check" /\ tripped' = tripped /\ fallback' = fallback BY <1>1, Zenon DEF ShouldRetry
  <2> QED BY <2>1, <2>2
<1>2. CASE Redis(w)
  <2>1. fallback' = fallback /\ tripped' = tripped /\ pc[w] \in {"try", "retry"} BY <1>2 DEF Redis
  <2>2. CASE pc[w] = "try"
    <3>1. Return(w) \/ Goto(w, IF pc[w] = "try" THEN "trip" ELSE "local")
      BY <1>2, <2>2, Zenon DEF Redis, Succeed, Fail
    <3>2. Return(w) \/ Goto(w, "trip") BY <2>2, <3>1
    <3>3. pc'[w] \in {"idle", "trip"} BY <1>l, <3>2, FrameOK, Zenon
    <3> QED BY <2>1, <2>2, <3>3
  <2>3. CASE pc[w] = "retry"
    <3>1. Goto(w, "flush") \/ Goto(w, IF pc[w] = "try" THEN "trip" ELSE "local")
      <4>1. pc[w] # "try" BY <2>3
      <4> QED BY <1>2, <4>1, Zenon DEF Redis, Succeed, Fail
    <3>2. Goto(w, "flush") \/ Goto(w, "local") BY <2>3, <3>1
    <3>3. pc'[w] \in {"flush", "local"} BY <1>l, <3>2, FrameOK, Zenon
    <3> QED BY <2>1, <2>3, <3>3
  <2> QED BY SMTT(30), <2>1, <2>2, <2>3
<1>3. CASE Trip(w)
  <2>1. pc'[w] = "direct" BY <1>3, <1>l, FrameOK, Zenon DEF Trip
  <2> QED BY <1>3, <2>1, Zenon DEF Trip
<1>4. CASE CheckCapacity(w)
  <2>1. pc'[w] \in {"exists", "direct"} BY <1>4, <1>l, FrameOK, Zenon DEF CheckCapacity
  <2>2. pc[w] = "local" /\ tripped' = tripped /\ fallback' = fallback BY <1>4, Zenon DEF CheckCapacity
  <2> QED BY <2>1, <2>2
<1>5. CASE CheckExists(w)
  <2>1. pc'[w] \in {"idle", "direct"} BY <1>5, <1>l, FrameOK, Zenon DEF CheckExists
  <2>2. pc[w] = "exists" /\ tripped' = tripped /\ fallback' = fallback BY <1>5, Zenon DEF CheckExists
  <2> QED BY <2>1, <2>2
<1>6. CASE Fallback(w)
  <2>1. pc'[w] = "idle" BY <1>6, FrameOK, Zenon DEF Fallback
  <2> QED BY <1>6, <2>1, Zenon DEF Fallback
<1>7. CASE FlushRead(w)
  <2>1. CASE fallback = None
    <3>1. pc'[w] = "reset" BY <1>7, <1>l, <2>1, FrameOK, Zenon DEF FlushRead
    <3> QED BY <1>7, <2>1, <3>1, Zenon DEF FlushRead
  <2>2. CASE fallback # None
    <3>1. pc'[w] = "exec" BY <1>7, <1>l, <2>2, FrameOK, Zenon DEF FlushRead
    <3>2. entries'[w] = fallback BY <1>7, <1>e, Zenon DEF FlushRead
    <3> QED BY <1>7, <3>1, <3>2, Zenon DEF FlushRead
  <2> QED BY <2>1, <2>2
<1>8. CASE FlushExec(w)
  <2>1. pc'[w] = "clear" BY <1>8, <1>l, FrameOK, Zenon DEF FlushExec
  <2> QED BY <1>8, <2>1, Zenon DEF FlushExec
<1>9. CASE FlushClear(w)
  <2>1. pc'[w] = "reset" BY <1>9, <1>l, FrameOK, Zenon DEF FlushClear
  <2> QED BY <1>9, <2>1, Zenon DEF FlushClear
<1>10. CASE Reset(w)
  <2>1. pc'[w] = "idle" BY <1>10, FrameOK, Zenon DEF Reset
  <2> QED BY <1>10, <2>1, Zenon DEF Reset
<1> QED BY <1>1, <1>2, <1>3, <1>4, <1>5, <1>6, <1>7, <1>8, <1>9, <1>10, Zenon DEF Work

LEMMA StaleWork ==
  ASSUME TypeInv, StaleInv, NEW w \in Workers, Work(w), Remember
  PROVE  StaleInv'
<1>1. Overlapping' => overlapped' BY Zenon DEF Remember
<1>2. ASSUME ~overlapped'
      PROVE  /\ ~tripped' => fallback' = None /\ \A v \in Workers : pc'[v] \notin Open
             /\ \A v \in Workers : /\ pc'[v] = "reset" => fallback' = None
                                   /\ pc'[v] \in {"exec", "clear"} => entries'[v] = fallback'
  <2>1. /\ ~overlapped
        /\ \A u, v \in Workers : u # v /\ pc[u] \in Recovering => pc[v] = "idle"
    BY <1>2, Unoverlapped, Zenon
  <2>2. /\ ~tripped => fallback = None /\ \A v \in Workers : pc[v] \notin Open
        /\ \A v \in Workers : /\ pc[v] = "reset" => fallback = None
                              /\ pc[v] \in {"exec", "clear"} => entries[v] = fallback
    BY <2>1, Zenon DEF StaleInv
  <2>3. Frame(w) /\ pc[w] # "idle" BY WorkFrame
  <2>4. \A v \in Workers \ {w} : pc'[v] = pc[v] /\ pc[v] \notin Recovering /\ entries'[v] = entries[v]
    BY <2>1, <2>3, EntriesFrame, Zenon DEF Frame
  <2>o. ASSUME NEW v \in Workers, v # w
        PROVE  pc'[v] \notin {"exec", "clear", "reset"}
    BY <2>4, <2>o DEF Recovering
  <2>5. CASE pc[w] \in {"try", "retry", "check", "local", "exists"}
    <3>1. /\ tripped' = tripped /\ fallback' = fallback /\ pc'[w] \notin {"exec", "clear", "reset"}
          /\ pc[w] = "try" => pc'[w] \in {"idle", "trip"}
      BY <2>5, BreakerStep
    <3>2. ~tripped => pc[w] = "try" BY <2>2, <2>5 DEF Open
    <3>3. ~tripped' => pc'[w] \notin Open BY <3>1, <3>2 DEF Open, Recovering
    <3> QED BY <2>2, <2>4, <2>o, <3>1, <3>3, Zenon
  <2>6. CASE pc[w] = "trip"
    <3>1. tripped' /\ pc'[w] = "direct" BY <2>6, BreakerStep
    <3> QED BY <2>o, <3>1
  <2>7. CASE pc[w] = "direct"
    <3>1. tripped' = tripped /\ pc'[w] = "idle" BY <2>7, BreakerStep
    <3>2. tripped BY <2>2, <2>7 DEF Open
    <3> QED BY <2>o, <3>1, <3>2
  <2>8. CASE pc[w] = "flush"
    <3>1. /\ tripped' = tripped /\ fallback' = fallback
          /\ \/ pc'[w] = "reset" /\ fallback = None
             \/ pc'[w] = "exec" /\ entries'[w] = fallback
      BY <2>8, BreakerStep
    <3>2. tripped BY <2>2, <2>8 DEF Open, Recovering
    <3> QED BY <2>o, <3>1, <3>2
  <2>9. CASE pc[w] = "exec"
    <3>1. /\ tripped' = tripped /\ fallback' = fallback
          /\ pc'[w] = "clear" /\ entries'[w] = entries[w]
      BY <2>9, BreakerStep
    <3>2. tripped BY <2>2, <2>9 DEF Open, Recovering
    <3>3. entries[w] = fallback BY <2>2, <2>9
    <3> QED BY <2>o, <3>1, <3>2, <3>3
  <2>10. CASE pc[w] = "clear"
    <3>1. tripped' = tripped /\ fallback' = None /\ pc'[w] = "reset" BY <2>10, BreakerStep
    <3>2. tripped BY <2>2, <2>10 DEF Open, Recovering
    <3> QED BY <2>o, <3>1, <3>2
  <2>11. CASE pc[w] = "reset"
    <3>1. fallback' = fallback /\ pc'[w] = "idle" BY <2>11, BreakerStep
    <3>2. fallback = None BY <2>2, <2>11
    <3>3. ASSUME NEW v \in Workers PROVE pc'[v] = "idle"
      <4>1. pc[w] \in Recovering BY <2>11 DEF Recovering
      <4>2. CASE v # w BY <2>1, <2>4, <4>1, <4>2, Zenon
      <4> QED BY <3>1, <4>2
    <3>4. "idle" \notin Open BY DEF Open, Recovering
    <3> QED BY <2>o, <3>1, <3>2, <3>3, <3>4
  <2> QED BY <2>5, <2>6, <2>7, <2>8, <2>9, <2>10, <2>11, BreakerStep, Zenon
<1> QED BY <1>1, <1>2, Zenon DEF StaleInv

LEMMA StaleStep ==
  TypeInv /\ StaleInv /\ [Next]_vars => StaleInv'
<1> SUFFICES ASSUME TypeInv, StaleInv, [Next]_vars PROVE StaleInv' OBVIOUS
<1>1. CASE UNCHANGED <<fallback, pc, entries, tripped>> /\ Remember
  <2>1. Overlapping' => overlapped' BY <1>1, Zenon DEF Remember
  <2>2. ~overlapped' => ~overlapped BY <1>1, Zenon DEF Remember
  <2> QED BY <1>1, <2>1, <2>2, Zenon DEF StaleInv
<1>2. CASE UNCHANGED vars
  BY <1>2, Zenon DEF StaleInv, Overlapping, vars, breakerVars, workerVars
<1>3. ASSUME NEW w \in Workers, CallAny(w), Remember PROVE StaleInv'
  <2>1. PICK o \in {"record", "remove"}, k \in Keys : Call(w, o, k) BY <1>3 DEF CallAny
  <2>2. fallback' = fallback /\ tripped' = tripped /\ entries' = entries
    BY <2>1, Zenon DEF Call, breakerVars
  <2>3. Frame(w) /\ pc'[w] = IF tripped THEN "check" ELSE "try" BY <2>1, FrameOK, Zenon
  <2>4. Overlapping' => overlapped' BY <1>3, Zenon DEF Remember
  <2>5. ~overlapped' => ~overlapped BY <1>3, Zenon DEF Remember
  <2>6. /\ pc'[w] \notin {"reset", "exec", "clear"}
        /\ ~tripped => pc'[w] \notin Open
    BY <2>3 DEF Open, Recovering
  <2>7. \A v \in Workers \ {w} : pc'[v] = pc[v] BY <2>3, Zenon DEF Frame
  <2> QED BY <2>2, <2>4, <2>5, <2>6, <2>7, ZenonT(60) DEF StaleInv
<1>4. \/ \E w \in Workers : CallAny(w) /\ Remember
      \/ \E w \in Workers : Work(w) /\ Remember
      \/ UNCHANGED <<fallback, pc, entries, tripped>> /\ Remember
      \/ UNCHANGED vars
  BY ZenonT(60) DEF Next, RedisDown, RedisRestored, Tick, Expire, breakerVars, workerVars
<1> QED BY <1>1, <1>2, <1>3, <1>4, StaleWork, Zenon

LEMMA StaleInit ==
  Init => StaleInv
<1> SUFFICES ASSUME Init PROVE StaleInv OBVIOUS
<1>1. \A w \in Workers : pc[w] = "idle" BY DEF Init
<1>2. "idle" \notin Open BY DEF Open, Recovering
<1>3. fallback = None BY DEF Init
<1> QED BY <1>1, <1>2, <1>3 DEF StaleInv, Overlapping

\* A recovery of RedisStorage that no other call overlaps leaves nothing in
\* the fallback: with the breaker closed, between calls, it is empty.
THEOREM FallbackIsCleared == Spec => []NoStaleFallback
<1>1. StaleInv => NoStaleFallback BY DEF StaleInv, NoStaleFallback
<1> QED BY <1>1, TypeInit, TypeStep, StaleInit, StaleStep, PTL DEF Spec

-----------------------------------------------------------------------------
(* Every report is in one place.                                           *)

OnTheWay == {"try", "trip", "check", "retry", "local", "exists", "direct"}

InFlight(k) == {w \in Workers : op[w] = "record" /\ key[w] = k /\ pc[w] \in OnTheWay}

Flushed(k) == IF \E w \in Workers : pc[w] = "clear" THEN fallback[k] ELSE 0

Balance(k) ==
  reported[k] + doubled[k] + Flushed(k)
    = redis[k] + fallback[k] + lost[k] + Cardinality(InFlight(k))

SumInv == ~overlapped => \A k \in Keys : Balance(k)

\* The counters of a key are numbers.
Counts(k) ==
  /\ reported[k] \in Nat /\ doubled[k] \in Nat /\ redis[k] \in Nat /\ fallback[k] \in Nat
  /\ lost[k] \in Nat /\ Flushed(k) \in Nat /\ Cardinality(InFlight(k)) \in Nat
  /\ IsFiniteSet(InFlight(k))

LEMMA CountsOK ==
  TypeInv => \A k \in Keys : Counts(k)
<1> SUFFICES ASSUME TypeInv, NEW k \in Keys PROVE Counts(k) OBVIOUS
<1>1. /\ reported[k] \in Nat /\ doubled[k] \in Nat /\ redis[k] \in Nat /\ fallback[k] \in Nat
      /\ lost[k] \in Nat
  BY DEF TypeInv, TypeOK
<1>2. Flushed(k) \in Nat BY <1>1 DEF Flushed
<1>3. IsFiniteSet(Workers) BY StorageAssumption
<1>4. IsFiniteSet(InFlight(k)) BY <1>3, FS_Subset DEF InFlight
<1>5. Cardinality(InFlight(k)) \in Nat BY <1>4, FS_CardinalityType
<1> QED BY <1>1, <1>2, <1>4, <1>5 DEF Counts

\* How a step of w changes the number of reports of a key on their way.
LEMMA FlightStep ==
  ASSUME NEW k \in Keys, Counts(k), NEW w \in Workers, Frame(w)
  PROVE  /\ (w \in InFlight(k) <=> w \in InFlight(k)') =>
              Cardinality(InFlight(k)') = Cardinality(InFlight(k))
         /\ w \notin InFlight(k) /\ w \in InFlight(k)' =>
              Cardinality(InFlight(k)') = Cardinality(InFlight(k)) + 1
         /\ w \in InFlight(k) /\ w \notin InFlight(k)' =>
              Cardinality(InFlight(k)') = Cardinality(InFlight(k)) - 1
<1>1. \A v \in Workers \ {w} : v \in InFlight(k) <=> v \in InFlight(k)'
  BY Zenon DEF Frame, InFlight
<1>2. InFlight(k) \subseteq Workers /\ InFlight(k)' \subseteq Workers BY Zenon DEF InFlight
<1>3. ASSUME w \in InFlight(k) <=> w \in InFlight(k)' PROVE InFlight(k)' = InFlight(k)
  <2>1. \A v \in Workers : v \in InFlight(k) <=> v \in InFlight(k)' BY <1>1, <1>3, Zenon
  <2> QED BY <1>2, <2>1
<1>4. ASSUME w \notin InFlight(k), w \in InFlight(k)' PROVE InFlight(k)' = InFlight(k) \cup {w}
  BY <1>1, <1>2, <1>4, Zenon
<1>5. ASSUME w \in InFlight(k), w \notin InFlight(k)' PROVE InFlight(k)' = InFlight(k) \ {w}
  BY <1>1, <1>2, <1>5, Zenon
<1>6. IsFiniteSet(InFlight(k)) BY DEF Counts
<1>7. ASSUME w \notin InFlight(k), w \in InFlight(k)'
      PROVE  Cardinality(InFlight(k)') = Cardinality(InFlight(k)) + 1
  BY <1>4, <1>6, <1>7, FS_AddElement, Zenon
<1>8. ASSUME w \in InFlight(k), w \notin InFlight(k)'
      PROVE  Cardinality(InFlight(k)') = Cardinality(InFlight(k)) - 1
  BY <1>5, <1>6, <1>8, FS_RemoveElement, Zenon
<1> QED BY <1>3, <1>7, <1>8, Zenon

\* A step that neither enters nor leaves the window of a flush.
LEMMA FlushedStep ==
  ASSUME NEW k \in Keys, NEW w \in Workers, Frame(w), pc[w] # "clear", pc'[w] # "clear",
         fallback'[k] = fallback[k] \/ \A v \in Workers : pc[v] # "clear"
  PROVE  Flushed(k)' = Flushed(k)
<1>1. (\E v \in Workers : pc'[v] = "clear") <=> \E v \in Workers : pc[v] = "clear"
  BY Zenon DEF Frame
<1> QED BY <1>1, Zenon DEF Flushed

\* The ways a step can move reports of a key from one place to another.
Moves(rep, dbl, flu, red, fal, los, fli) ==
  /\ (rep + 1) + dbl + flu = red + fal + los + (fli + 1)
  /\ rep + dbl + flu = (red + 1) + fal + los + (fli - 1)
  /\ rep + dbl + flu = 0 + fal + (los + red) + fli
  /\ rep + (dbl + 1) + flu = (red + 1) + fal + los + fli
  /\ rep + (dbl + 1) + flu = (red + 1 + 1) + fal + los + (fli - 1)
  /\ rep + dbl + flu = red + fal + (los + 1) + (fli - 1)
  /\ rep + dbl + flu = red + (fal + 1) + los + (fli - 1)
  /\ rep + dbl + flu = red + 0 + (los + fal) + fli
  /\ flu = 0 => /\ rep + dbl + fal = (red + fal) + fal + los + fli
                /\ rep + dbl + fal = red + fal + (los + fal) + fli
                /\ rep + (dbl + fal) + fal = (red + fal) + fal + (los + fal) + fli
                /\ rep + (dbl + fal) + fal = (red + fal + fal) + fal + los + fli
                /\ rep + (dbl + 0) + fal = (red + 0) + fal + (los + fal) + fli
                /\ rep + (dbl + 0) + fal = (red + 0 + fal) + fal + los + fli
  /\ flu = fal => rep + dbl + 0 = red + 0 + los + fli

LEMMA Tally ==
  ASSUME NEW rep \in Nat, NEW dbl \in Nat, NEW flu \in Nat, NEW red \in Nat, NEW fal \in Nat,
         NEW los \in Nat, NEW fli \in Nat, rep + dbl + flu = red + fal + los + fli
  PROVE  Moves(rep, dbl, flu, red, fal, los, fli)
BY SMT DEF Moves

LEMMA TallyKey ==
  ASSUME NEW k \in Keys, Counts(k), Balance(k)
  PROVE  Moves(reported[k], doubled[k], Flushed(k), redis[k], fallback[k], lost[k],
               Cardinality(InFlight(k)))
BY Tally, Zenon DEF Counts, Balance

\* A step that leaves every counter of a key alone.
LEMMA SameBalance ==
  ASSUME NEW k \in Keys, Counts(k), Balance(k), NEW w \in Workers, Frame(w),
         pc[w] # "clear", pc'[w] # "clear", w \in InFlight(k) <=> w \in InFlight(k)',
         reported'[k] = reported[k], doubled'[k] = doubled[k], redis'[k] = redis[k],
         fallback'[k] = fallback[k], lost'[k] = lost[k]
  PROVE  Balance(k)'
<1>1. Flushed(k)' = Flushed(k) BY FlushedStep, Zenon
<1>2. Cardinality(InFlight(k)') = Cardinality(InFlight(k)) BY FlightStep, Zenon
<1> QED BY <1>1, <1>2, Zenon DEF Balance

\* A step that applies the call of w to a store and accounts for it.
LEMMA AppliedBalance ==
  ASSUME TypeInv, NEW w \in Workers, pc[w] # "idle", NEW f \in [Keys -> Nat], Discard(w, f),
         NEW k \in Keys
  PROVE  /\ k # key[w] => Applied(w, f)[k] = f[k] /\ lost'[k] = lost[k]
         /\ k = key[w] /\ op[w] = "record" => Applied(w, f)[k] = f[k] + 1 /\ lost'[k] = lost[k]
         /\ k = key[w] /\ op[w] = "remove" => Applied(w, f)[k] = 0 /\ lost'[k] = lost[k] + f[k]
<1>1. key[w] \in Keys /\ lost \in [Keys -> Nat] BY DEF TypeInv, TypeOK, CallOK
<1>2. op[w] = "remove" => op[w] # "record" BY Zenon
<1>3. op[w] = "record" => op[w] # "remove" BY Zenon
<1>4. k # key[w] => Applied(w, f)[k] = f[k] /\ lost'[k] = lost[k] BY <1>1 DEF Applied, Discard
<1>5. k = key[w] /\ op[w] = "record" => Applied(w, f)[k] = f[k] + 1 /\ lost'[k] = lost[k]
  BY <1>1, <1>3 DEF Applied, Discard
<1>6. k = key[w] /\ op[w] = "remove" => Applied(w, f)[k] = 0 /\ lost'[k] = lost[k] + f[k]
  BY <1>1, <1>2 DEF Applied, Discard
<1> QED BY <1>4, <1>5, <1>6

\* A step of a goroutine keeps the balance of every key.
LEMMA SumWork ==
  ASSUME TypeInv, TypeInv', StaleInv, SumInv, NEW w \in Workers, Work(w), Remember, ~overlapped',
         NEW k \in Keys
  PROVE  Balance(k)'
<1> USE DEF breakerVars, envVars, historyVars
<1>a. /\ ~overlapped
      /\ \A u, v \in Workers : u # v /\ pc[u] \in Recovering => pc[v] = "idle"
  BY Unoverlapped, Zenon
<1>b. Balance(k) BY <1>a, Zenon DEF SumInv
<1>n. Counts(k) BY CountsOK, Zenon
<1>f. Frame(w) /\ pc[w] # "idle" BY WorkFrame
<1>p. key[w] \in Keys /\ op[w] \in {"record", "remove"} BY <1>f, Zenon DEF TypeInv, CallOK
<1>t. /\ redis \in [Keys -> Nat] /\ fallback \in [Keys -> Nat] /\ lost \in [Keys -> Nat]
      /\ doubled \in [Keys -> Nat] /\ entries[w] \in [Keys -> Nat]
  BY DEF TypeInv, TypeOK
<1>i. /\ w \in InFlight(k) <=> op[w] = "record" /\ key[w] = k /\ pc[w] \in OnTheWay
      /\ w \in InFlight(k)' <=> op'[w] = "record" /\ key'[w] = k /\ pc'[w] \in OnTheWay
  BY Zenon DEF InFlight
<1>l. {"idle", "try", "trip", "check", "retry", "local", "exists", "direct", "flush", "exec",
       "clear", "reset"} \subseteq PC
  BY DEF PC
<1>g. ASSUME Goto(w, "trip") \/ Goto(w, "local") \/ Goto(w, "retry") \/ Goto(w, "direct")
               \/ Goto(w, "exists"),
             pc[w] \in OnTheWay
      PROVE  /\ w \in InFlight(k) <=> w \in InFlight(k)'
             /\ pc[w] # "clear" /\ pc'[w] # "clear"
  <2>1. /\ op'[w] = op[w] /\ key'[w] = key[w]
        /\ pc'[w] \in {"trip", "local", "retry", "direct", "exists"}
    BY <1>g, <1>l, FrameOK, Zenon
  <2>2. pc'[w] \in OnTheWay /\ pc'[w] # "clear" /\ pc[w] # "clear" BY <1>g, <2>1 DEF OnTheWay
  <2> QED BY <1>g, <1>i, <2>1, <2>2, Zenon
<1>h. ASSUME Return(w) \/ Goto(w, "flush") \/ Goto(w, "exec") \/ Goto(w, "clear") \/ Goto(w, "reset")
      PROVE  w \notin InFlight(k)'
  <2>1. pc'[w] \in {"idle", "flush", "exec", "clear", "reset"} BY <1>h, <1>l, FrameOK, Zenon
  <2> QED BY <1>i, <2>1 DEF OnTheWay
<1>1. CASE ShouldRetry(w) \/ Trip(w) \/ CheckCapacity(w)
  <2>1. /\ Goto(w, "trip") \/ Goto(w, "local") \/ Goto(w, "retry") \/ Goto(w, "direct")
             \/ Goto(w, "exists")
        /\ pc[w] \in {"check", "trip", "local"}
    <3>1. CASE ShouldRetry(w)
      <4>1. Goto(w, IF due THEN "retry" ELSE "local") /\ pc[w] = "check"
        BY <3>1, Zenon DEF ShouldRetry
      <4> QED BY <4>1
    <3>2. CASE CheckCapacity(w)
      <4>1. /\ pc[w] = "local"
            /\ Goto(w, IF op[w] = "record" /\ Len(fallback) >= MaxFallbackKeys
                       THEN "exists" ELSE "direct")
        BY <3>2, Zenon DEF CheckCapacity
      <4> QED BY <4>1
    <3>3. CASE Trip(w) BY <3>3, Zenon DEF Trip
    <3> QED BY <1>1, <3>1, <3>2, <3>3
  <2>2. w \in InFlight(k) <=> w \in InFlight(k)' BY <1>g, <2>1 DEF OnTheWay
  <2>3. pc[w] # "clear" /\ pc'[w] # "clear" BY <1>g, <2>1 DEF OnTheWay
  <2>4. UNCHANGED <<reported, doubled, redis, fallback, lost>>
    BY <1>1, Zenon DEF ShouldRetry, Trip, CheckCapacity
  <2> QED BY <1>b, <1>n, <1>f, <2>2, <2>3, <2>4, SameBalance, Zenon
<1>2. CASE FlushRead(w) \/ Reset(w)
  <2>1. /\ Return(w) \/ Goto(w, "reset") \/ Goto(w, "exec")
        /\ pc[w] \in {"flush", "reset"}
    <3>1. CASE FlushRead(w)
      <4>1. Goto(w, IF fallback = None THEN "reset" ELSE "exec") /\ pc[w] = "flush"
        BY <3>1, Zenon DEF FlushRead
      <4> QED BY <4>1
    <3>2. CASE Reset(w) BY <3>2, Zenon DEF Reset
    <3> QED BY <1>2, <3>1, <3>2
  <2>2. w \notin InFlight(k) /\ w \notin InFlight(k)' BY <1>h, <1>i, <2>1 DEF OnTheWay
  <2>3. pc'[w] \in {"idle", "reset", "exec"} BY <2>1, <1>l, FrameOK, Zenon
  <2>4. pc[w] # "clear" /\ pc'[w] # "clear" BY <2>1, <2>3
  <2>5. UNCHANGED <<reported, doubled, redis, fallback, lost>>
    BY <1>2, Zenon DEF FlushRead, Reset
  <2> QED BY <1>b, <1>n, <1>f, <2>2, <2>4, <2>5, SameBalance, Zenon
<1>3. CASE Redis(w)
  <2>1. pc[w] \in {"try", "retry"} /\ reported' = reported /\ fallback' = fallback
    BY <1>3, Zenon DEF Redis
  <2>2. pc[w] \in OnTheWay /\ pc[w] # "clear" BY <2>1 DEF OnTheWay
  <2>s. reported'[k] = reported[k] /\ fallback'[k] = fallback[k] BY <2>1, Zenon
  <2>3. ASSUME redis' = Applied(w, redis), Discard(w, redis), doubled' = doubled,
               Return(w) \/ Goto(w, "flush")
        PROVE  Balance(k)'
    <3>1. w \notin InFlight(k)' BY <1>h, <2>3
    <3>2. pc'[w] # "clear"
      <4>1. pc'[w] \in {"idle", "flush"} BY <2>3, <1>l, FrameOK, Zenon
      <4> QED BY <4>1
    <3>3. CASE k # key[w]
      <4>1. redis'[k] = redis[k] /\ lost'[k] = lost[k] BY <1>f, <1>t, <2>3, <3>3, AppliedBalance, Zenon
      <4>2. w \notin InFlight(k) BY <1>i, <3>3, Zenon
      <4> QED BY <1>b, <1>n, <1>f, <2>1, <2>2, <2>3, <3>1, <3>2, <4>1, <4>2, SameBalance, Zenon
    <3>4. Flushed(k)' = Flushed(k) BY <1>f, <2>1, <2>2, <3>2, FlushedStep, Zenon
    <3>5. CASE k = key[w] /\ op[w] = "record"
      <4>1. redis'[k] = redis[k] + 1 /\ lost'[k] = lost[k] BY <1>f, <1>t, <2>3, <3>5, AppliedBalance, Zenon
      <4>2. Cardinality(InFlight(k)') = Cardinality(InFlight(k)) - 1
        BY <1>f, <1>i, <1>n, <2>2, <3>1, <3>5, FlightStep, Zenon
      <4>3. doubled'[k] = doubled[k] BY <2>3, Zenon
      <4> QED BY <1>b, <1>n, <2>s, <3>4, <4>1, <4>2, <4>3, TallyKey, Zenon DEF Balance, Moves
    <3>6. CASE k = key[w] /\ op[w] = "remove"
      <4>1. redis'[k] = 0 /\ lost'[k] = lost[k] + redis[k]
        BY <1>f, <1>t, <2>3, <3>6, AppliedBalance, Zenon
      <4>2. w \notin InFlight(k) BY <1>i, <3>6, Zenon
      <4>3. Cardinality(InFlight(k)') = Cardinality(InFlight(k))
        BY <1>f, <1>n, <3>1, <4>2, FlightStep, Zenon
      <4>4. doubled'[k] = doubled[k] BY <2>3, Zenon
      <4> QED BY <1>b, <1>n, <2>s, <3>4, <4>1, <4>3, <4>4, TallyKey, Zenon DEF Balance, Moves
    <3> QED BY <1>p, <3>3, <3>5, <3>6, Zenon
  <2>4. ASSUME Goto(w, "trip") \/ Goto(w, "local"), UNCHANGED <<redis, lost, doubled>>
        PROVE  Balance(k)'
    BY <1>b, <1>n, <1>f, <1>g, <2>1, <2>2, <2>4, SameBalance, Zenon
  <2>5. ASSUME Goto(w, "trip") \/ Goto(w, "local"), redis' = Applied(w, redis), Discard(w, redis),
               doubled' = [doubled EXCEPT ![key[w]] = IF op[w] = "record" THEN @ + 1 ELSE @]
        PROVE  Balance(k)'
    <3>1. (w \in InFlight(k) <=> w \in InFlight(k)') /\ pc'[w] # "clear"
      BY <1>g, <2>2, <2>5, Zenon
    <3>2. Flushed(k)' = Flushed(k) BY <1>f, <2>1, <2>2, <3>1, FlushedStep, Zenon
    <3>3. Cardinality(InFlight(k)') = Cardinality(InFlight(k)) BY <1>f, <1>n, <3>1, FlightStep, Zenon
    <3>4. CASE k # key[w]
      <4>1. redis'[k] = redis[k] /\ lost'[k] = lost[k] BY <1>f, <1>t, <2>5, <3>4, AppliedBalance, Zenon
      <4>2. doubled'[k] = doubled[k] BY <1>t, <2>5, <3>4, Zenon
      <4> QED BY <1>b, <2>1, <3>2, <3>3, <4>1, <4>2, Zenon DEF Balance
    <3>5. CASE k = key[w] /\ op[w] = "record"
      <4>1. redis'[k] = redis[k] + 1 /\ lost'[k] = lost[k] BY <1>f, <1>t, <2>5, <3>5, AppliedBalance, Zenon
      <4>2. doubled'[k] = doubled[k] + 1 BY <1>t, <2>5, <3>5
      <4> QED BY <1>b, <1>n, <2>s, <3>2, <3>3, <4>1, <4>2, TallyKey, Zenon DEF Balance, Moves
    <3>6. CASE k = key[w] /\ op[w] = "remove"
      <4>1. redis'[k] = 0 /\ lost'[k] = lost[k] + redis[k]
        BY <1>f, <1>t, <2>5, <3>6, AppliedBalance, Zenon
      <4>2. doubled'[k] = doubled[k] BY <1>t, <2>5, <3>6
      <4> QED BY <1>b, <1>n, <2>s, <3>2, <3>3, <4>1, <4>2, TallyKey, Zenon DEF Balance, Moves
    <3> QED BY <1>p, <3>4, <3>5, <3>6, Zenon
  <2>6. ASSUME Return(w) \/ Goto(w, "flush"), redis' = Applied(w, Applied(w, redis)),
               Discard(w, redis),
               doubled' = [doubled EXCEPT ![key[w]] = IF op[w] = "record" THEN @ + 1 ELSE @]
        PROVE  Balance(k)'
    <3>1. w \notin InFlight(k)' BY <1>h, <2>6
    <3>2. pc'[w] # "clear"
      <4>1. pc'[w] \in {"idle", "flush"} BY <2>6, <1>l, FrameOK, Zenon
      <4> QED BY <4>1
    <3>3. Flushed(k)' = Flushed(k) BY <1>f, <2>1, <2>2, <3>2, FlushedStep, Zenon
    <3>4. CASE k # key[w]
      <4>1. redis'[k] = redis[k]
        <5>1. Applied(w, redis) \in [Keys -> Nat] BY <1>f, <1>t, AppliedType
        <5>2. Applied(w, redis)[k] = redis[k] BY <1>f, <1>t, <2>6, <3>4, AppliedBalance, Zenon
        <5>3. Applied(w, Applied(w, redis))[k] = Applied(w, redis)[k] BY <3>4, <5>1 DEF Applied
        <5> QED BY <2>6, <5>2, <5>3
      <4>2. lost'[k] = lost[k] BY <1>f, <1>t, <2>6, <3>4, AppliedBalance, Zenon
      <4>3. doubled'[k] = doubled[k] BY <1>t, <2>6, <3>4, Zenon
      <4>4. w \notin InFlight(k) BY <1>i, <3>4, Zenon
      <4> QED BY <1>b, <1>n, <1>f, <2>s, <2>2, <3>1, <3>2, <4>1, <4>2, <4>3, <4>4, SameBalance, ZenonT(30)
    <3>5. CASE k = key[w] /\ op[w] = "record"
      <4>1. redis'[k] = redis[k] + 1 + 1 BY <1>p, <1>t, <2>6, <3>5 DEF Applied
      <4>2. lost'[k] = lost[k] BY <1>f, <1>t, <2>6, <3>5, AppliedBalance, ZenonT(30)
      <4>3. doubled'[k] = doubled[k] + 1 BY <1>t, <2>6, <3>5
      <4>4. Cardinality(InFlight(k)') = Cardinality(InFlight(k)) - 1
        BY <1>f, <1>i, <1>n, <2>2, <3>1, <3>5, FlightStep, Zenon
      <4> QED BY <1>b, <1>n, <2>s, <3>3, <4>1, <4>2, <4>3, <4>4, TallyKey, ZenonT(30) DEF Balance, Moves
    <3>6. CASE k = key[w] /\ op[w] = "remove"
      <4>1. redis'[k] = 0 BY <1>p, <1>t, <2>6, <3>6 DEF Applied
      <4>2. lost'[k] = lost[k] + redis[k] BY <1>f, <1>t, <2>6, <3>6, AppliedBalance, Zenon
      <4>3. doubled'[k] = doubled[k] BY SMTT(30), <1>t, <2>6, <3>6
      <4>4. w \notin InFlight(k) BY <1>i, <3>6, Zenon
      <4>5. Cardinality(InFlight(k)') = Cardinality(InFlight(k))
        BY <1>f, <1>n, <3>1, <4>4, FlightStep, Zenon
      <4> QED BY <1>b, <1>n, <2>s, <3>3, <4>1, <4>2, <4>3, <4>5, TallyKey, ZenonT(30) DEF Balance, Moves
    <3> QED BY <1>p, <3>4, <3>5, <3>6, Zenon
  <2>7. Fail(w) => Goto(w, "trip") \/ Goto(w, "local")
    <3>1. CASE pc[w] = "try" BY <3>1 DEF Fail
    <3>2. CASE pc[w] # "try" BY <3>2 DEF Fail
    <3> QED BY <3>1, <3>2
  <2>8. Succeed(w) => Return(w) \/ Goto(w, "flush") BY Zenon DEF Succeed
  <2> QED BY <1>3, <2>3, <2>4, <2>5, <2>6, <2>7, <2>8, ZenonT(60) DEF Redis
<1>4. CASE CheckExists(w)
  <2>1. /\ pc[w] = "exists" /\ op[w] = "record"
        /\ UNCHANGED <<reported, doubled, redis, fallback>>
    BY <1>4, Zenon DEF CheckExists, TypeInv, CallOK
  <2>2. pc[w] \in OnTheWay /\ pc[w] # "clear" BY <2>1 DEF OnTheWay
  <2>3. ASSUME lost' = [lost EXCEPT ![key[w]] = @ + 1], Return(w) PROVE Balance(k)'
    <3>1. w \notin InFlight(k)' BY <1>h, <2>3
    <3>2. pc'[w] # "clear"
      <4>1. pc'[w] = "idle" BY <2>3, FrameOK, Zenon
      <4> QED BY <4>1
    <3>3. CASE k # key[w]
      <4>1. lost'[k] = lost[k] BY <1>t, <2>3, <3>3, Zenon
      <4>2. w \notin InFlight(k) BY <1>i, <3>3, Zenon
      <4> QED BY <1>b, <1>n, <1>f, <2>1, <2>2, <3>1, <3>2, <4>1, <4>2, SameBalance, Zenon
    <3>4. CASE k = key[w]
      <4>1. lost'[k] = lost[k] + 1 BY <1>t, <2>3, <3>4
      <4>2. Cardinality(InFlight(k)') = Cardinality(InFlight(k)) - 1
        BY <1>f, <1>i, <1>n, <2>1, <2>2, <3>1, <3>4, FlightStep, Zenon
      <4>3. Flushed(k)' = Flushed(k) BY <1>f, <2>1, <2>2, <3>2, FlushedStep, Zenon
      <4>4. /\ reported'[k] = reported[k] /\ doubled'[k] = doubled[k] /\ redis'[k] = redis[k]
            /\ fallback'[k] = fallback[k]
        BY <2>1, Zenon
      <4> QED BY <1>b, <1>n, <4>1, <4>2, <4>3, <4>4, TallyKey, Zenon DEF Balance, Moves
    <3> QED BY <3>3, <3>4
  <2>4. ASSUME lost' = lost, Goto(w, "direct") PROVE Balance(k)'
    BY <1>b, <1>n, <1>f, <1>g, <2>1, <2>2, <2>4, SameBalance, Zenon
  <2> QED BY <1>4, <2>3, <2>4, Zenon DEF CheckExists
<1>5. CASE Fallback(w)
  <2>1. /\ pc[w] = "direct" /\ fallback' = Applied(w, fallback) /\ Discard(w, fallback) /\ Return(w)
        /\ UNCHANGED <<reported, doubled, redis>>
    BY <1>5, Zenon DEF Fallback
  <2>2. pc[w] \in OnTheWay /\ pc[w] # "clear" BY <2>1 DEF OnTheWay
  <2>3. w \notin InFlight(k)' BY <1>h, <2>1
  <2>4. \A v \in Workers : pc[v] # "clear"
    <3>1. \A v \in Workers \ {w} : pc[v] \notin Recovering BY <1>a, <1>f, Zenon
    <3> QED BY <2>2, <3>1 DEF Recovering
  <2>5. Flushed(k)' = Flushed(k)
    <3>1. pc'[w] = "idle" BY <2>1, FrameOK, Zenon
    <3>2. pc'[w] # "clear" BY <3>1
    <3> QED BY <1>f, <2>2, <2>4, <3>2, FlushedStep, Zenon
  <2>s. reported'[k] = reported[k] /\ doubled'[k] = doubled[k] /\ redis'[k] = redis[k] BY <2>1, Zenon
  <2>6. CASE k # key[w]
    <3>1. fallback'[k] = fallback[k] /\ lost'[k] = lost[k]
      BY <1>f, <1>t, <2>1, <2>6, AppliedBalance, Zenon
    <3>2. w \notin InFlight(k) BY <1>i, <2>6, Zenon
    <3>3. Cardinality(InFlight(k)') = Cardinality(InFlight(k))
      BY <1>f, <1>n, <2>3, <3>2, FlightStep, Zenon
    <3> QED BY <1>b, <2>1, <2>5, <3>1, <3>3, Zenon DEF Balance
  <2>7. CASE k = key[w] /\ op[w] = "record"
    <3>1. fallback'[k] = fallback[k] + 1 /\ lost'[k] = lost[k]
      BY <1>f, <1>t, <2>1, <2>7, AppliedBalance, Zenon
    <3>2. Cardinality(InFlight(k)') = Cardinality(InFlight(k)) - 1
      BY <1>f, <1>i, <1>n, <2>2, <2>3, <2>7, FlightStep, Zenon
    <3> QED BY <1>b, <1>n, <2>s, <2>5, <3>1, <3>2, TallyKey, Zenon DEF Balance, Moves
  <2>8. CASE k = key[w] /\ op[w] = "remove"
    <3>1. fallback'[k] = 0 /\ lost'[k] = lost[k] + fallback[k]
      BY <1>f, <1>t, <2>1, <2>8, AppliedBalance, Zenon
    <3>2. w \notin InFlight(k) BY <1>i, <2>8, Zenon
    <3>3. Cardinality(InFlight(k)') = Cardinality(InFlight(k))
      BY <1>f, <1>n, <2>3, <3>2, FlightStep, Zenon
    <3> QED BY <1>b, <1>n, <2>s, <2>5, <3>1, <3>3, TallyKey, Zenon DEF Balance, Moves
  <2> QED BY <1>p, <2>6, <2>7, <2>8, Zenon
<1>6. CASE FlushExec(w)
  <2>1. pc[w] = "exec" /\ Goto(w, "clear") /\ reported' = reported /\ fallback' = fallback
    BY <1>6, Zenon DEF FlushExec
  <2>2. pc'[w] = "clear" /\ w \notin InFlight(k)' BY <1>h, <1>l, <2>1, FrameOK, Zenon
  <2>3. w \notin InFlight(k) BY <1>i, <2>1 DEF OnTheWay
  <2>4. Cardinality(InFlight(k)') = Cardinality(InFlight(k))
    BY <1>f, <1>n, <2>2, <2>3, FlightStep, Zenon
  <2>5. entries[w][k] = fallback[k] BY <1>a, <2>1, Zenon DEF StaleInv
  <2>6. Flushed(k) = 0 /\ Flushed(k)' = fallback[k]
    <3>1. pc[w] \in Recovering BY <2>1 DEF Recovering
    <3>2. \A v \in Workers : pc[v] # "clear"
      <4>1. \A v \in Workers \ {w} : pc[v] = "idle" BY <1>a, <3>1, Zenon
      <4> QED BY <2>1, <4>1
    <3>3. Flushed(k) = 0 BY <3>2, Zenon DEF Flushed
    <3>4. Flushed(k)' = fallback'[k] BY <2>2, Zenon DEF Flushed
    <3> QED BY <2>1, <3>3, <3>4
  <2>7. \/ redis'[k] = redis[k] + entries[w][k] /\ lost'[k] = lost[k] /\ doubled'[k] = doubled[k]
        \/ redis'[k] = redis[k] /\ lost'[k] = lost[k] + entries[w][k] /\ doubled'[k] = doubled[k]
        \/ \E n \in {0, entries[w][k]} :
             /\ doubled'[k] = doubled[k] + n
             /\ \/ redis'[k] = redis[k] + n /\ lost'[k] = lost[k] + entries[w][k]
                \/ redis'[k] = redis[k] + n + entries[w][k] /\ lost'[k] = lost[k]
    <3>1. \A f, g : Plus(f, g)[k] = f[k] + g[k] BY DEF Plus
    <3>2. \A S : Only(entries[w], S)[k] \in {0, entries[w][k]} BY DEF Only
    <3>3. ASSUME NEW S \in SUBSET Pending(w), doubled' = Plus(doubled, Only(entries[w], S)),
                 \/ /\ redis' = Plus(redis, Only(entries[w], S))
                    /\ lost' = Plus(lost, entries[w])
                 \/ /\ redis' = Plus(Plus(redis, Only(entries[w], S)), entries[w])
                    /\ lost' = lost
          PROVE  \E n \in {0, entries[w][k]} :
                   /\ doubled'[k] = doubled[k] + n
                   /\ \/ redis'[k] = redis[k] + n /\ lost'[k] = lost[k] + entries[w][k]
                      \/ redis'[k] = redis[k] + n + entries[w][k] /\ lost'[k] = lost[k]
      <4> DEFINE m == Only(entries[w], S)[k]
      <4>1. m \in {0, entries[w][k]} BY <3>2
      <4>2. doubled'[k] = doubled[k] + m BY <3>1, <3>3, Zenon
      <4>3. \/ redis'[k] = redis[k] + m /\ lost'[k] = lost[k] + entries[w][k]
            \/ redis'[k] = redis[k] + m + entries[w][k] /\ lost'[k] = lost[k]
        <5>1. CASE redis' = Plus(redis, Only(entries[w], S)) /\ lost' = Plus(lost, entries[w])
          BY <3>1, <5>1, Zenon
        <5>2. CASE redis' = Plus(Plus(redis, Only(entries[w], S)), entries[w]) /\ lost' = lost
          <6>1. Plus(Plus(redis, Only(entries[w], S)), entries[w])[k]
                  = Plus(redis, Only(entries[w], S))[k] + entries[w][k]
            BY <3>1, Zenon
          <6>2. Plus(redis, Only(entries[w], S))[k] = redis[k] + m BY <3>1, Zenon
          <6> QED BY <5>2, <6>1, <6>2, Zenon
        <5> QED BY <3>3, <5>1, <5>2, Zenon
      <4> HIDE DEF m
      <4> QED BY <4>1, <4>2, <4>3, Zenon
    <3>4. \/ redis' = Plus(redis, entries[w]) /\ UNCHANGED <<lost, doubled>>
          \/ lost' = Plus(lost, entries[w]) /\ UNCHANGED <<redis, doubled>>
          \/ \E S \in SUBSET Pending(w) :
               /\ doubled' = Plus(doubled, Only(entries[w], S))
               /\ \/ redis' = Plus(redis, Only(entries[w], S)) /\ lost' = Plus(lost, entries[w])
                  \/ redis' = Plus(Plus(redis, Only(entries[w], S)), entries[w]) /\ lost' = lost
      BY <1>6, ZenonT(60) DEF FlushExec
    <3> QED BY <3>1, <3>3, <3>4, ZenonT(60)
  <2>8. reported'[k] = reported[k] /\ fallback'[k] = fallback[k] BY <2>1, Zenon
  <2>9. /\ Flushed(k)' = fallback[k] /\ Flushed(k) = 0
        /\ Moves(reported[k], doubled[k], Flushed(k), redis[k], fallback[k], lost[k],
                 Cardinality(InFlight(k)))
    BY <1>b, <1>n, <2>6, TallyKey, Zenon
  <2>10. Balance(k)' <=> reported[k] + doubled'[k] + fallback[k]
                           = redis'[k] + fallback[k] + lost'[k] + Cardinality(InFlight(k))
    BY <2>4, <2>8, <2>9, Zenon DEF Balance
  <2>11. CASE redis'[k] = redis[k] + entries[w][k] /\ lost'[k] = lost[k] /\ doubled'[k] = doubled[k]
    BY <2>5, <2>9, <2>10, <2>11, Zenon DEF Moves
  <2>12. CASE redis'[k] = redis[k] /\ lost'[k] = lost[k] + entries[w][k] /\ doubled'[k] = doubled[k]
    BY <2>5, <2>9, <2>10, <2>12, Zenon DEF Moves
  <2>13. ASSUME NEW n \in {0, entries[w][k]}, doubled'[k] = doubled[k] + n,
                \/ redis'[k] = redis[k] + n /\ lost'[k] = lost[k] + entries[w][k]
                \/ redis'[k] = redis[k] + n + entries[w][k] /\ lost'[k] = lost[k]
         PROVE  Balance(k)'
    <3>1. CASE n = 0 BY <2>5, <2>9, <2>10, <2>13, <3>1, Zenon DEF Moves
    <3>2. CASE n = fallback[k] BY <2>5, <2>9, <2>10, <2>13, <3>2, Zenon DEF Moves
    <3> QED BY <2>5, <3>1, <3>2
  <2> QED BY <2>7, <2>11, <2>12, <2>13, Zenon
<1>7. CASE FlushClear(w)
  <2>1. /\ pc[w] = "clear" /\ Goto(w, "reset") /\ fallback' = None
        /\ UNCHANGED <<reported, doubled, redis, lost>>
    BY <1>7, Zenon DEF FlushClear
  <2>2. w \notin InFlight(k)' BY <1>h, <2>1
  <2>3. w \notin InFlight(k) BY <1>i, <2>1 DEF OnTheWay
  <2>4. Cardinality(InFlight(k)') = Cardinality(InFlight(k))
    BY <1>f, <1>n, <2>2, <2>3, FlightStep, Zenon
  <2>5. fallback'[k] = 0 BY <2>1 DEF None
  <2>6. Flushed(k)' = 0 BY <2>5, Zenon DEF Flushed
  <2>7. Flushed(k) = fallback[k] BY <2>1, Zenon DEF Flushed
  <2>8. /\ reported'[k] = reported[k] /\ doubled'[k] = doubled[k] /\ redis'[k] = redis[k]
        /\ lost'[k] = lost[k]
    BY <2>1, Zenon
  <2> QED BY <1>b, <1>n, <2>4, <2>5, <2>6, <2>7, <2>8, TallyKey, Zenon DEF Balance, Moves
<1> QED BY <1>1, <1>2, <1>3, <1>4, <1>5, <1>6, <1>7, Zenon DEF Work

LEMMA SumCall ==
  ASSUME TypeInv, SumInv, NEW w \in Workers, CallAny(w), Remember, ~overlapped', NEW k \in Keys
  PROVE  Balance(k)'
<1>1. PICK o \in {"record", "remove"}, j \in Keys : Call(w, o, j) BY DEF CallAny
<1>2. Balance(k) BY Zenon DEF SumInv, Remember
<1>3. Counts(k) BY CountsOK, Zenon
<1>4. pc[w] = "idle" BY <1>1 DEF Call
<1>5. Frame(w) /\ op'[w] = o /\ key'[w] = j /\ pc'[w] = IF tripped THEN "check" ELSE "try"
  BY <1>1, FrameOK, Zenon
<1>6. w \notin InFlight(k) BY <1>4 DEF InFlight, OnTheWay
<1>7. w \in InFlight(k)' <=> o = "record" /\ j = k BY <1>5 DEF InFlight, OnTheWay
<1>8. pc[w] # "clear" /\ pc'[w] # "clear" BY <1>4, <1>5
<1>9. UNCHANGED <<redis, fallback, lost, doubled>> BY <1>1, Zenon DEF Call
<1>10. reported \in [Keys -> Nat] BY DEF TypeInv, TypeOK
<1>11. CASE o = "record" /\ j = k
  <2>1. reported'[k] = reported[k] + 1
    <3>1. o # "remove" BY <1>11
    <3>2. reported' = [reported EXCEPT ![j] = @ + 1] BY <1>1, <3>1, Zenon DEF Call
    <3> QED BY <1>10, <1>11, <3>2
  <2>2. Cardinality(InFlight(k)') = Cardinality(InFlight(k)) + 1
    BY <1>3, <1>5, <1>6, <1>7, <1>11, FlightStep, Zenon
  <2>3. Flushed(k)' = Flushed(k) BY <1>5, <1>8, <1>9, FlushedStep, Zenon
  <2>4. /\ redis'[k] = redis[k] /\ fallback'[k] = fallback[k] /\ lost'[k] = lost[k]
        /\ doubled'[k] = doubled[k]
    BY <1>9, Zenon
  <2> QED BY <1>2, <1>3, <2>1, <2>2, <2>3, <2>4, TallyKey, Zenon DEF Balance, Moves
<1>12. CASE ~ (o = "record" /\ j = k)
  <2>1. reported'[k] = reported[k]
    <3>1. reported' = reported \/ (reported' = [reported EXCEPT ![j] = @ + 1] /\ o = "record")
      BY <1>1, Zenon DEF Call
    <3> QED BY <1>10, <1>12, <3>1, Zenon
  <2> QED BY <1>2, <1>3, <1>5, <1>6, <1>7, <1>8, <1>9, <1>12, <2>1, SameBalance, Zenon
<1> QED BY <1>11, <1>12

LEMMA SumStep ==
  TypeInv /\ TypeInv' /\ StaleInv /\ SumInv /\ [Next]_vars => SumInv'
<1> SUFFICES ASSUME TypeInv, TypeInv', StaleInv, SumInv, [Next]_vars PROVE SumInv' OBVIOUS
<1> USE DEF breakerVars, envVars, workerVars, historyVars
<1>1. CASE UNCHANGED <<pc, op, key, redis, fallback, lost, doubled, reported>>
             /\ (overlapped => overlapped')
  <2>1. \A k \in Keys : Balance(k) <=> Balance(k)'
    BY <1>1, Zenon DEF Balance, Flushed, InFlight
  <2> QED BY <1>1, <2>1, Zenon DEF SumInv
<1>2. ASSUME NEW j \in Keys, Expire(j), Remember, ~overlapped', NEW k \in Keys PROVE Balance(k)'
  <2>1. Balance(k) BY <1>2, Zenon DEF SumInv, Remember
  <2>2. Counts(k) BY CountsOK, Zenon
  <2>3. /\ redis \in [Keys -> Nat] /\ lost \in [Keys -> Nat]
    BY DEF TypeInv, TypeOK
  <2>4. UNCHANGED <<fallback, pc, op, key, reported, doubled>> BY <1>2, Zenon DEF Expire
  <2>5. Flushed(k)' = Flushed(k) /\ InFlight(k)' = InFlight(k) BY <2>4, Zenon DEF Flushed, InFlight
  <2>6. /\ reported'[k] = reported[k] /\ fallback'[k] = fallback[k] /\ doubled'[k] = doubled[k]
        /\ Cardinality(InFlight(k)') = Cardinality(InFlight(k))
    BY <2>4, <2>5, Zenon
  <2>7. \/ redis'[k] = redis[k] /\ lost'[k] = lost[k]
        \/ redis'[k] = 0 /\ lost'[k] = lost[k] + redis[k]
    BY <1>2, <2>3 DEF Expire
  <2> QED BY <2>1, <2>2, <2>5, <2>6, <2>7, TallyKey, Zenon DEF Balance, Moves
<1>3. \/ \E w \in Workers : CallAny(w) /\ Remember
      \/ \E w \in Workers : Work(w) /\ Remember
      \/ \E j \in Keys : Expire(j) /\ Remember
      \/ /\ UNCHANGED <<pc, op, key, redis, fallback, lost, doubled, reported>>
         /\ overlapped => overlapped'
  BY ZenonT(60) DEF Next, RedisDown, RedisRestored, Tick, vars, Remember
<1>4. ASSUME NEW w \in Workers, CallAny(w), Remember PROVE SumInv' BY <1>4, SumCall, Zenon DEF SumInv
<1>5. ASSUME NEW w \in Workers, Work(w), Remember PROVE SumInv' BY <1>5, SumWork, Zenon DEF SumInv
<1>6. ASSUME NEW j \in Keys, Expire(j), Remember PROVE SumInv' BY <1>6, <1>2, Zenon DEF SumInv
<1> QED BY <1>1, <1>3, <1>4, <1>5, <1>6, Zenon

LEMMA SumInit ==
  Init => SumInv
<1> SUFFICES ASSUME Init, NEW k \in Keys PROVE Balance(k) BY DEF SumInv
<1>1. InFlight(k) = {} BY DEF Init, InFlight, OnTheWay
<1>2. Cardinality(InFlight(k)) = 0 BY <1>1, FS_EmptySet
<1>3. Flushed(k) = 0
  <2>1. \A w \in Workers : pc[w] # "clear" BY DEF Init
  <2> QED BY <2>1, Zenon DEF Flushed
<1>4. reported[k] = 0 /\ doubled[k] = 0 /\ redis[k] = 0 /\ fallback[k] = 0 /\ lost[k] = 0
  BY DEF Init, None
<1> QED BY <1>2, <1>3, <1>4 DEF Balance

\* Of what RecordUsage was given, RedisStorage loses and doubles nothing but
\* what it owns up to, with any number of concurrent callers, trips, retries,
\* refused commands and lost replies, as long as no recovery overlaps with
\* another call.
THEOREM ReportsAccounted == Spec => []Accounted
<1>1. TypeInv /\ SumInv => Accounted
  <2> SUFFICES ASSUME TypeInv, SumInv, Quiet, ~overlapped, NEW k \in Keys
               PROVE  reported[k] + doubled[k] = redis[k] + fallback[k] + lost[k]
    BY DEF Accounted
  <2>1. Balance(k) /\ Counts(k) BY CountsOK, Zenon DEF SumInv
  <2>2. InFlight(k) = {} BY DEF Quiet, InFlight, OnTheWay
  <2>3. Cardinality(InFlight(k)) = 0 BY <2>2, FS_EmptySet
  <2>4. Flushed(k) = 0
    <3>1. \A w \in Workers : pc[w] # "clear" BY DEF Quiet
    <3> QED BY <3>1, Zenon DEF Flushed
  <2> QED BY <2>1, <2>3, <2>4 DEF Balance, Counts
<1> QED BY <1>1, TypeInit, TypeStep, StaleInit, StaleStep, SumInit, SumStep, PTL DEF Spec

-----------------------------------------------------------------------------
(* Which keys in Redis have no TTL.  A pipeline that Redis applied in part *)
(* leaves one; its call then goes on to the fallback, and the flush of the *)
(* fallback sets the TTL.                                                  *)

Untimed(k) == redis[k] > 0 /\ k \notin timed

\* A report for k on its way to the fallback.
Falling(w, k) ==
  key[w] = k /\ op[w] = "record" /\ pc[w] \in {"trip", "local", "exists", "direct"}

Traced(k) == fallback[k] > 0 \/ lost[k] > 0 \/ \E w \in Workers : Falling(w, k)

DoubledInv == \A k \in Keys : Untimed(k) => doubled[k] > 0

TtlInv ==
  ~overlapped =>
    /\ \A k \in Keys : Untimed(k) => Traced(k)
    /\ \A w \in Workers, k \in Keys :
         pc[w] = "clear" /\ entries[w][k] > 0 /\ Untimed(k) => lost[k] > 0

\* What the code owns up to, and what Redis applied unknown to it, is never
\* taken back.
LEMMA HistoryGrows ==
  ASSUME TypeInv, NEW w \in Workers, Work(w), NEW k \in Keys
  PROVE  /\ lost[k] > 0 => lost'[k] > 0
         /\ doubled[k] > 0 => doubled'[k] > 0
<1>1. /\ redis \in [Keys -> Nat] /\ fallback \in [Keys -> Nat] /\ lost \in [Keys -> Nat]
      /\ doubled \in [Keys -> Nat] /\ entries[w] \in [Keys -> Nat]
  BY DEF TypeInv, TypeOK
<1>2. key[w] \in Keys BY SMTT(30), WorkFrame DEF TypeInv, CallOK
<1>3. \A f, g : Plus(f, g)[k] = f[k] + g[k] BY DEF Plus
<1>4. \A S : Only(entries[w], S)[k] \in Nat BY <1>1 DEF Only
<1>5. lost[k] > 0 => lost'[k] > 0
  <2>1. \/ lost' = lost \/ Discard(w, redis) \/ Discard(w, fallback)
        \/ lost' = Plus(lost, entries[w]) \/ lost' = [lost EXCEPT ![key[w]] = @ + 1]
    BY WorkEffects, Zenon
  <2>2. CASE lost' = Plus(lost, entries[w])
    <3>1. lost'[k] = lost[k] + entries[w][k] BY <1>3, <2>2, Zenon
    <3> QED BY <1>1, <3>1
  <2>3. ASSUME NEW f \in [Keys -> Nat], Discard(w, f) PROVE lost[k] > 0 => lost'[k] > 0
    <3>1. lost'[k] = lost[k] \/ lost'[k] = lost[k] + f[k] BY <1>1, <1>2, <2>3 DEF Discard
    <3> QED BY <1>1, <3>1
  <2>4. CASE lost' = [lost EXCEPT ![key[w]] = @ + 1] BY <1>1, <1>2, <2>4
  <2> QED BY <1>1, <2>1, <2>2, <2>3, <2>4, Zenon
<1>6. doubled[k] > 0 => doubled'[k] > 0
  <2>1. \/ doubled' = doubled
        \/ \E S \in SUBSET Keys : doubled' = Plus(doubled, Only(entries[w], S))
        \/ doubled' = [doubled EXCEPT ![key[w]] = IF op[w] = "record" THEN @ + 1 ELSE @]
    BY WorkEffects, Zenon
  <2>2. ASSUME NEW S \in SUBSET Keys, doubled' = Plus(doubled, Only(entries[w], S))
        PROVE  doubled[k] > 0 => doubled'[k] > 0
    <3>1. doubled'[k] = doubled[k] + Only(entries[w], S)[k] BY <1>3, <2>2, Zenon
    <3> QED BY <1>1, <1>4, <3>1
  <2>3. CASE doubled' = [doubled EXCEPT ![key[w]] = IF op[w] = "record" THEN @ + 1 ELSE @]
    BY <1>1, <1>2, <2>3
  <2> QED BY <2>1, <2>2, <2>3, Zenon
<1> QED BY <1>5, <1>6

\* How a key comes to be without a TTL.
LEMMA TtlEffect ==
  ASSUME TypeInv, NEW w \in Workers, Work(w), NEW k \in Keys, Untimed(k)'
  PROVE  /\ \/ Untimed(k)
            \/ Redis(w) /\ key[w] = k /\ op[w] = "record" /\ Fail(w) /\ doubled'[k] > 0
            \/ FlushExec(w) /\ entries[w][k] > 0 /\ doubled'[k] > 0
         /\ FlushExec(w) /\ entries[w][k] > 0 => lost'[k] > 0
<1> USE DEF breakerVars, envVars, historyVars
<1>t. /\ redis \in [Keys -> Nat] /\ lost \in [Keys -> Nat]
      /\ doubled \in [Keys -> Nat] /\ entries[w] \in [Keys -> Nat]
  BY SMTT(30) DEF TypeInv, TypeOK
<1>k. key[w] \in Keys /\ op[w] \in {"record", "remove"} BY WorkFrame DEF TypeInv, CallOK
<1>u. redis'[k] > 0 /\ k \notin timed' BY DEF Untimed
<1>1. CASE Redis(w)
  <2>0. pc[w] # "exec" BY SMTT(30), <1>1 DEF Redis
  <2>1. ~ FlushExec(w) BY SMTT(30), <2>0 DEF FlushExec
  <2>a. /\ k # key[w] => Applied(w, redis)[k] = redis[k] /\ Applied(w, Applied(w, redis))[k] = redis[k]
        /\ op[w] = "remove" => Applied(w, redis)[key[w]] = 0 /\ Applied(w, Applied(w, redis))[key[w]] = 0
    BY SMTT(30), <1>k, <1>t DEF Applied
  <2>2. ASSUME redis' = Applied(w, redis) \/ redis' = Applied(w, Applied(w, redis)),
               timed' = Renewed(w)
        PROVE  Untimed(k)
    <3>1. CASE k # key[w]
      <4>1. redis'[k] = redis[k] BY <2>2, <2>a, <3>1
      <4>2. k \notin timed BY <1>u, <2>2, <3>1 DEF Renewed
      <4> QED BY <1>u, <4>1, <4>2 DEF Untimed
    <3>2. CASE k = key[w] /\ op[w] = "record" BY <1>u, <2>2, <3>2 DEF Renewed
    <3>3. CASE k = key[w] /\ op[w] = "remove"
      <4>1. redis'[k] = 0 BY <2>2, <2>a, <3>3
      <4> QED BY <1>u, <4>1
    <3> QED BY <1>k, <3>1, <3>2, <3>3
  <2>3. ASSUME redis' = redis, timed' = timed PROVE Untimed(k) BY <1>u, <2>3 DEF Untimed
  <2>4. ASSUME redis' = Applied(w, redis), timed' = timed, op[w] = "record", Fail(w),
               doubled' = [doubled EXCEPT ![key[w]] = IF op[w] = "record" THEN @ + 1 ELSE @]
        PROVE  \/ Untimed(k)
               \/ key[w] = k /\ op[w] = "record" /\ Fail(w) /\ doubled'[k] > 0
    <3>1. CASE k # key[w] BY SMTT(30), <1>u, <2>4, <2>a, <3>1 DEF Untimed
    <3>2. CASE k = key[w]
      <4>1. doubled'[k] = doubled[k] + 1 BY <1>t, <2>4, <3>2
      <4>2. doubled'[k] > 0 BY <1>t, <4>1
      <4> QED BY <2>4, <3>2, <4>2
    <3> QED BY <3>1, <3>2
  <2>5. \/ /\ redis' = Applied(w, redis) \/ redis' = Applied(w, Applied(w, redis))
           /\ timed' = Renewed(w)
        \/ redis' = redis /\ timed' = timed
        \/ /\ redis' = Applied(w, redis) /\ timed' = timed /\ op[w] = "record" /\ Fail(w)
           /\ doubled' = [doubled EXCEPT ![key[w]] = IF op[w] = "record" THEN @ + 1 ELSE @]
    BY <1>1, ZenonT(60) DEF Redis
  <2> QED BY <1>1, <2>1, <2>2, <2>3, <2>4, <2>5, ZenonT(30)
<1>2. CASE FlushExec(w)
  <2>p. \A f, g : Plus(f, g)[k] = f[k] + g[k] BY DEF Plus
  <2>o. \A S : Only(entries[w], S)[k] = IF k \in S THEN entries[w][k] ELSE 0 BY DEF Only
  <2>e. entries[w][k] > 0 <=> k \in Pending(w) BY DEF Pending
  <2>1. ASSUME timed' = timed \cup Pending(w),
               \/ redis' = Plus(redis, entries[w])
               \/ \E S \in SUBSET Pending(w) :
                    redis' = Plus(Plus(redis, Only(entries[w], S)), entries[w])
        PROVE  Untimed(k) /\ ~ (entries[w][k] > 0)
    <3>1. k \notin timed /\ k \notin Pending(w) BY <1>u, <2>1
    <3>2. entries[w][k] = 0 BY <1>t, <2>e, <3>1
    <3>3. CASE redis' = Plus(redis, entries[w])
      <4>1. redis'[k] = redis[k] + entries[w][k] BY <2>p, <3>3, Zenon
      <4> QED BY <1>t, <1>u, <3>1, <3>2, <4>1 DEF Untimed
    <3>4. ASSUME NEW S \in SUBSET Pending(w),
                 redis' = Plus(Plus(redis, Only(entries[w], S)), entries[w])
          PROVE  redis'[k] = redis[k]
      <4>1. redis'[k] = Plus(redis, Only(entries[w], S))[k] + entries[w][k] BY <2>p, <3>4, Zenon
      <4>2. Plus(redis, Only(entries[w], S))[k] = redis[k] + Only(entries[w], S)[k] BY <2>p, Zenon
      <4>3. Only(entries[w], S)[k] = 0 BY <2>o, <3>1
      <4> QED BY <1>t, <3>2, <4>1, <4>2, <4>3
    <3>5. CASE redis'[k] = redis[k] BY <1>u, <3>1, <3>2, <3>5 DEF Untimed
    <3> QED BY <2>1, <3>3, <3>4, <3>5, Zenon
  <2>2. ASSUME lost' = Plus(lost, entries[w]) PROVE entries[w][k] > 0 => lost'[k] > 0
    <3>1. lost'[k] = lost[k] + entries[w][k] BY <2>p, <2>2, Zenon
    <3> QED BY <1>t, <3>1
  <2>3. ASSUME redis' = redis, timed' = timed PROVE Untimed(k) BY <1>u, <2>3 DEF Untimed
  <2>4. ASSUME NEW S \in SUBSET Pending(w), doubled' = Plus(doubled, Only(entries[w], S)),
               redis' = Plus(redis, Only(entries[w], S)),
               NEW last, timed' = timed \cup (S \ {last})
        PROVE  Untimed(k) \/ (entries[w][k] > 0 /\ doubled'[k] > 0)
    <3>1. /\ redis'[k] = redis[k] + Only(entries[w], S)[k]
          /\ doubled'[k] = doubled[k] + Only(entries[w], S)[k]
      BY <2>p, <2>4, Zenon
    <3>2. k \notin timed BY <1>u, <2>4
    <3>3. CASE k \in S
      <4>1. entries[w][k] > 0 BY <2>4, <2>e, <3>3
      <4>2. Only(entries[w], S)[k] = entries[w][k] BY <2>o, <3>3
      <4> QED BY <1>t, <3>1, <4>1, <4>2
    <3>4. CASE k \notin S
      <4>1. Only(entries[w], S)[k] = 0 BY <2>o, <3>4
      <4> QED BY <1>t, <1>u, <3>1, <3>2, <4>1 DEF Untimed
    <3> QED BY <3>3, <3>4
  <2>5. \/ /\ timed' = timed \cup Pending(w)
           /\ \/ redis' = Plus(redis, entries[w])
              \/ \E S \in SUBSET Pending(w) :
                   redis' = Plus(Plus(redis, Only(entries[w], S)), entries[w])
        \/ lost' = Plus(lost, entries[w]) /\ redis' = redis /\ timed' = timed
        \/ /\ lost' = Plus(lost, entries[w])
           /\ \E S \in SUBSET Pending(w) :
                /\ doubled' = Plus(doubled, Only(entries[w], S))
                /\ redis' = Plus(redis, Only(entries[w], S))
                /\ \E last : timed' = timed \cup (S \ {last})
    BY <1>2, ZenonT(60) DEF FlushExec
  <2> QED BY <1>2, <2>1, <2>2, <2>3, <2>4, <2>5, Zenon
<1>3. CASE ~ Redis(w) /\ ~ FlushExec(w)
  <2>1. redis' = redis /\ timed' = timed
    BY <1>3, ZenonT(60) DEF Work, ShouldRetry, Trip, CheckCapacity, CheckExists, Fallback, FlushRead,
      FlushClear, Reset
  <2> QED BY <1>3, <1>u, <2>1 DEF Untimed
<1> QED BY <1>1, <1>2, <1>3, Zenon

\* A key that was without a TTL stays traced when what traces it stays or is
\* replaced.
LEMMA TraceKeeps ==
  ASSUME NEW k \in Keys, NEW w \in Workers, Frame(w), Traced(k), lost[k] > 0 => lost'[k] > 0,
         fallback[k] > 0 => fallback'[k] > 0 \/ lost'[k] > 0,
         Falling(w, k) => Traced(k)'
  PROVE  Traced(k)'
<1>1. CASE fallback[k] > 0 \/ lost[k] > 0 BY <1>1, Zenon DEF Traced
<1>2. ASSUME NEW v \in Workers, Falling(v, k) PROVE Traced(k)'
  <2>1. CASE v # w
    <3>1. Falling(v, k)' BY <1>2, <2>1, Zenon DEF Falling, Frame
    <3> QED BY <3>1, Zenon DEF Traced
  <2> QED BY <1>2, <2>1, Zenon
<1> QED BY <1>1, <1>2, Zenon DEF Traced

\* A step of a goroutine keeps every key without a TTL traced.
LEMMA TracedWork ==
  ASSUME TypeInv, StaleInv, TtlInv, NEW w \in Workers, Work(w), Remember, ~overlapped',
         NEW k \in Keys, Untimed(k)'
  PROVE  Traced(k)'
<1> USE DEF breakerVars, envVars, historyVars
<1>a. /\ ~overlapped
      /\ \A u, v \in Workers : u # v /\ pc[u] \in Recovering => pc[v] = "idle"
  BY Unoverlapped, Zenon
<1>i. /\ Untimed(k) => Traced(k)
      /\ pc[w] = "clear" /\ entries[w][k] > 0 /\ Untimed(k) => lost[k] > 0
  BY <1>a, Zenon DEF TtlInv
<1>f. Frame(w) /\ pc[w] # "idle" BY WorkFrame
<1>g. lost[k] > 0 => lost'[k] > 0 BY HistoryGrows
<1>l. {"idle", "try", "trip", "check", "retry", "local", "exists", "direct", "flush", "exec",
       "clear", "reset"} \subseteq PC
  BY DEF PC
<1>t. /\ fallback \in [Keys -> Nat] /\ lost \in [Keys -> Nat]
  BY DEF TypeInv, TypeOK
<1>k. key[w] \in Keys /\ op[w] \in {"record", "remove"} BY <1>f DEF TypeInv, CallOK
<1>q. ASSUME Untimed(k), fallback' = fallback, Falling(w, k) => Traced(k)' PROVE Traced(k)'
  BY <1>f, <1>g, <1>i, <1>q, TraceKeeps, Zenon
<1>w. ASSUME Falling(w, k)' PROVE Traced(k)' BY <1>w, Zenon DEF Traced
<1>1. CASE Redis(w)
  <2>1. fallback' = fallback /\ pc[w] \in {"try", "retry"} BY <1>1 DEF Redis
  <2>2. ~ FlushExec(w) BY <2>1 DEF FlushExec
  <2>3. ~ Falling(w, k) BY <2>1 DEF Falling
  <2>4. ASSUME key[w] = k, op[w] = "record", Fail(w) PROVE Falling(w, k)'
    <3>1. Goto(w, "trip") \/ Goto(w, "local") BY <2>4 DEF Fail
    <3>2. pc'[w] \in {"trip", "local"} /\ op'[w] = op[w] /\ key'[w] = key[w]
      BY <1>l, <3>1, FrameOK, Zenon
    <3> QED BY <2>4, <3>2 DEF Falling
  <2> QED BY <1>q, <1>w, <2>1, <2>2, <2>3, <2>4, TtlEffect, ZenonT(30)
<1>2. CASE FlushExec(w)
  <2>1. fallback' = fallback /\ pc[w] = "exec" BY <1>2 DEF FlushExec
  <2>2. ~ Falling(w, k) BY <2>1 DEF Falling
  <2>3. CASE entries[w][k] > 0
    <3>1. lost'[k] > 0 BY SMTT(30), <1>2, <2>3, TtlEffect
    <3> QED BY <3>1, Zenon DEF Traced
  <2>4. ~ Redis(w) BY <2>1 DEF Redis
  <2> QED BY <1>q, <2>1, <2>2, <2>3, <2>4, TtlEffect, ZenonT(30)
<1>3. CASE ~ Redis(w) /\ ~ FlushExec(w)
  <2>u. Untimed(k) BY <1>3, TtlEffect, Zenon
  <2>1. CASE ShouldRetry(w) \/ FlushRead(w) \/ Reset(w)
    <3>1. fallback' = fallback /\ pc[w] \in {"check", "flush", "reset"}
      BY <2>1 DEF ShouldRetry, FlushRead, Reset
    <3>2. ~ Falling(w, k) BY <3>1 DEF Falling
    <3> QED BY <1>q, <2>u, <3>1, <3>2
  <2>2. CASE Trip(w) \/ CheckCapacity(w)
    <3>1. fallback' = fallback BY <2>2 DEF Trip, CheckCapacity
    <3>2. Goto(w, "direct") \/ Goto(w, "exists")
      <4>1. CASE Trip(w) BY <4>1 DEF Trip
      <4>2. CASE CheckCapacity(w)
        <5>1. Goto(w, IF op[w] = "record" /\ Len(fallback) >= MaxFallbackKeys
                      THEN "exists" ELSE "direct")
          BY <4>2, Zenon DEF CheckCapacity
        <5> QED BY <5>1
      <4> QED BY <2>2, <4>1, <4>2
    <3>3. pc'[w] \in {"direct", "exists"} /\ op'[w] = op[w] /\ key'[w] = key[w]
      BY <1>l, <3>2, FrameOK, Zenon
    <3>4. Falling(w, k) => Falling(w, k)' BY <3>3 DEF Falling
    <3> QED BY SMTT(30), <1>q, <1>w, <2>u, <3>1, <3>4
  <2>3. CASE CheckExists(w)
    <3>1. fallback' = fallback BY <2>3 DEF CheckExists
    <3>2. ASSUME lost' = [lost EXCEPT ![key[w]] = @ + 1], Falling(w, k) PROVE Traced(k)'
      <4>1. key[w] = k BY <3>2 DEF Falling
      <4>2. lost'[k] = lost[k] + 1 BY <1>t, <3>2, <4>1
      <4>3. lost'[k] > 0 BY <1>t, <4>2
      <4> QED BY <4>3, Zenon DEF Traced
    <3>3. ASSUME Goto(w, "direct"), Falling(w, k) PROVE Traced(k)'
      <4>1. pc'[w] = "direct" /\ op'[w] = op[w] /\ key'[w] = key[w]
        BY <1>l, <3>3, FrameOK, Zenon
      <4>2. Falling(w, k)' BY <3>3, <4>1 DEF Falling
      <4> QED BY <1>w, <4>2
    <3>4. lost' = [lost EXCEPT ![key[w]] = @ + 1] \/ Goto(w, "direct") BY <2>3, Zenon DEF CheckExists
    <3> QED BY <1>q, <2>u, <3>1, <3>2, <3>3, <3>4, Zenon
  <2>4. CASE Fallback(w)
    <3>1. fallback' = Applied(w, fallback) /\ Discard(w, fallback) BY <2>4, Zenon DEF Fallback
    <3>2. CASE k # key[w]
      <4>1. fallback'[k] = fallback[k] BY <1>f, <1>t, <3>1, <3>2, AppliedBalance, Zenon
      <4>2. ~ Falling(w, k) BY <3>2, Zenon DEF Falling
      <4> QED BY <1>f, <1>g, <1>i, <2>u, <4>1, <4>2, TraceKeeps, Zenon
    <3>3. CASE k = key[w] /\ op[w] = "record"
      <4>1. fallback'[k] = fallback[k] + 1 BY <1>f, <1>t, <3>1, <3>3, AppliedBalance, Zenon
      <4>2. fallback'[k] > 0 BY <1>t, <4>1
      <4> QED BY <4>2, Zenon DEF Traced
    <3>4. CASE k = key[w] /\ op[w] = "remove"
      <4>1. lost'[k] = lost[k] + fallback[k] BY <1>f, <1>t, <3>1, <3>4, AppliedBalance, Zenon
      <4>2. fallback[k] > 0 => lost'[k] > 0 BY <1>t, <4>1
      <4>3. ~ Falling(w, k) BY <3>4 DEF Falling
      <4> QED BY <1>f, <1>g, <1>i, <2>u, <4>2, <4>3, TraceKeeps, Zenon
    <3> QED BY <1>k, <3>2, <3>3, <3>4
  <2>5. CASE FlushClear(w)
    <3>1. pc[w] = "clear" BY <2>5 DEF FlushClear
    <3>2. ~ Falling(w, k) BY <3>1 DEF Falling
    <3>3. entries[w] = fallback BY <1>a, <3>1, Zenon DEF StaleInv
    <3>4. fallback[k] > 0 => lost'[k] > 0 BY <1>g, <1>i, <2>u, <3>1, <3>3, Zenon
    <3> QED BY <1>f, <1>g, <1>i, <2>u, <3>2, <3>4, TraceKeeps, Zenon
  <2> QED BY <1>3, <2>1, <2>2, <2>3, <2>4, <2>5, Zenon DEF Work
<1> QED BY <1>1, <1>2, <1>3

\* What a flush has written and not yet cleared has a TTL, or was given up.
LEMMA ClearWork ==
  ASSUME TypeInv, StaleInv, NEW w \in Workers, Work(w), Remember, ~overlapped',
         NEW v \in Workers, pc'[v] = "clear", NEW k \in Keys, entries'[v][k] > 0, Untimed(k)'
  PROVE  lost'[k] > 0
<1>a. \A u \in Workers : u # w => pc[u] \notin Recovering
  BY Unoverlapped, WorkFrame, Zenon
<1>1. v = w
  <2>1. CASE v # w
    <3>1. pc[v] = "clear" BY <2>1, WorkFrame, Zenon DEF Frame
    <3>2. pc[v] \in Recovering BY <3>1 DEF Recovering
    <3> QED BY <1>a, <2>1, <3>2
  <2> QED BY <2>1
<1>2. pc[w] = "exec" /\ entries'[w] = entries[w]
  <2>1. pc'[w] = "clear" BY SMTT(30), <1>1
  <2> QED BY <2>1, BreakerStep
<1>3. FlushExec(w)
  BY <1>2 DEF Work, ShouldRetry, Redis, Trip, CheckCapacity, CheckExists, Fallback, FlushRead,
    FlushClear, Reset
<1>4. entries[w][k] > 0 BY <1>1, <1>2, Zenon
<1> QED BY <1>3, <1>4, TtlEffect

LEMMA TtlWork ==
  ASSUME TypeInv, StaleInv, DoubledInv, TtlInv, NEW w \in Workers, Work(w), Remember
  PROVE  DoubledInv' /\ TtlInv'
<1>1. ASSUME NEW k \in Keys, Untimed(k)' PROVE doubled'[k] > 0
  <2>1. CASE Untimed(k) BY <2>1, HistoryGrows, Zenon DEF DoubledInv
  <2> QED BY <1>1, <2>1, TtlEffect, Zenon
<1>2. DoubledInv' BY <1>1, Zenon DEF DoubledInv
<1>3. TtlInv' BY TracedWork, ClearWork, ZenonT(60) DEF TtlInv
<1> QED BY <1>2, <1>3

LEMMA TtlStep ==
  TypeInv /\ StaleInv /\ DoubledInv /\ TtlInv /\ [Next]_vars => DoubledInv' /\ TtlInv'
<1> SUFFICES ASSUME TypeInv, StaleInv, DoubledInv, TtlInv, [Next]_vars PROVE DoubledInv' /\ TtlInv'
  OBVIOUS
<1> USE DEF breakerVars, envVars, workerVars, historyVars
<1>1. ASSUME UNCHANGED <<pc, op, key, entries, redis, timed, fallback, lost, doubled>>,
             overlapped => overlapped'
      PROVE  DoubledInv' /\ TtlInv'
  <2>1. \A k \in Keys : (Untimed(k)' <=> Untimed(k)) /\ (Traced(k)' <=> Traced(k))
    BY <1>1, Zenon DEF Untimed, Traced, Falling
  <2>2. DoubledInv' BY <1>1, <2>1, Zenon DEF DoubledInv
  <2>3. TtlInv' BY <1>1, <2>1, ZenonT(60) DEF TtlInv
  <2> QED BY <2>2, <2>3
<1>2. ASSUME NEW j \in Keys, Expire(j), Remember PROVE DoubledInv' /\ TtlInv'
  <2>1. /\ redis \in [Keys -> Nat] /\ lost \in [Keys -> Nat] BY DEF TypeInv, TypeOK
  <2>2. UNCHANGED <<fallback, pc, op, key, entries, doubled>> BY <1>2, Zenon DEF Expire
  <2>3. ASSUME NEW k \in Keys
        PROVE  (Untimed(k)' => Untimed(k)) /\ (lost[k] > 0 => lost'[k] > 0)
    <3>1. CASE k = j
      <4>1. redis'[k] = 0 /\ lost'[k] = lost[k] + redis[k] BY <1>2, <2>1, <3>1 DEF Expire
      <4> QED BY <2>1, <4>1 DEF Untimed
    <3>2. CASE k # j
      <4>1. redis'[k] = redis[k] /\ lost'[k] = lost[k] BY <1>2, <2>1, <3>2 DEF Expire
      <4>2. k \in timed => k \in timed' BY <1>2, <3>2 DEF Expire
      <4> QED BY <4>1, <4>2 DEF Untimed
    <3> QED BY <3>1, <3>2
  <2>4. \A k \in Keys : Traced(k) => Traced(k)' BY <2>2, <2>3, Zenon DEF Traced, Falling
  <2>5. DoubledInv' BY <2>2, <2>3, Zenon DEF DoubledInv
  <2>6. ~overlapped' => ~overlapped BY <1>2, Zenon DEF Remember
  <2>7. TtlInv' BY <2>2, <2>3, <2>4, <2>6, ZenonT(60) DEF TtlInv
  <2> QED BY <2>5, <2>7
<1>3. ASSUME NEW w \in Workers, CallAny(w), Remember PROVE DoubledInv' /\ TtlInv'
  <2>1. PICK o \in {"record", "remove"}, j \in Keys : Call(w, o, j) BY <1>3 DEF CallAny
  <2>2. UNCHANGED <<redis, timed, fallback, entries, lost, doubled>> /\ pc[w] = "idle"
    BY <2>1, Zenon DEF Call
  <2>3. Frame(w) /\ pc'[w] = IF tripped THEN "check" ELSE "try" BY <2>1, FrameOK, Zenon
  <2>4. \A k \in Keys : Untimed(k)' <=> Untimed(k) BY <2>2, Zenon DEF Untimed
  <2>5. ASSUME NEW k \in Keys, Traced(k) PROVE Traced(k)'
    <3>1. ~ Falling(w, k) BY <2>2 DEF Falling
    <3> QED BY <2>2, <2>3, <2>5, <3>1, TraceKeeps, Zenon
  <2>6. pc'[w] # "clear" BY <2>3
  <2>7. \A v \in Workers : pc'[v] = "clear" => pc[v] = "clear" BY <2>3, <2>6, Zenon DEF Frame
  <2>8. DoubledInv' BY <2>2, <2>4, Zenon DEF DoubledInv
  <2>9. ~overlapped' => ~overlapped BY <1>3, Zenon DEF Remember
  <2>10. TtlInv' BY <2>2, <2>4, <2>5, <2>7, <2>9, ZenonT(60) DEF TtlInv
  <2> QED BY <2>8, <2>10
<1>4. \/ \E w \in Workers : CallAny(w) /\ Remember
      \/ \E w \in Workers : Work(w) /\ Remember
      \/ \E j \in Keys : Expire(j) /\ Remember
      \/ /\ UNCHANGED <<pc, op, key, entries, redis, timed, fallback, lost, doubled>>
         /\ overlapped => overlapped'
  BY ZenonT(60) DEF Next, RedisDown, RedisRestored, Tick, vars, Remember
<1> QED BY <1>1, <1>2, <1>3, <1>4, TtlWork, Zenon

\* RedisStorage leaves no key in Redis without a TTL but one whose pipeline was
\* applied in part, and keeps track of that one: with any number of concurrent
\* callers, outages, refused, lost and repeated commands.
THEOREM KeysExpire == Spec => []NoImmortalKey
<1>1. Init => DoubledInv /\ TtlInv
  <2> SUFFICES ASSUME Init PROVE DoubledInv /\ TtlInv OBVIOUS
  <2>1. \A k \in Keys : ~ Untimed(k) BY DEF Init, None, Untimed
  <2> QED BY <2>1, Zenon DEF DoubledInv, TtlInv
<1>2. DoubledInv /\ TtlInv => NoImmortalKey
  <2> SUFFICES ASSUME DoubledInv, TtlInv, NEW k \in Keys, Untimed(k)
               PROVE  /\ doubled[k] > 0
                      /\ Quiet /\ ~overlapped => fallback[k] > 0 \/ lost[k] > 0
    BY Zenon DEF NoImmortalKey, Untimed
  <2>1. doubled[k] > 0 BY DEF DoubledInv
  <2>2. ASSUME Quiet, ~overlapped PROVE fallback[k] > 0 \/ lost[k] > 0
    <3>1. Traced(k) BY <2>2, Zenon DEF TtlInv
    <3>2. \A w \in Workers : ~ Falling(w, k) BY <2>2 DEF Quiet, Falling
    <3> QED BY <3>1, <3>2, Zenon DEF Traced
  <2> QED BY <2>1, <2>2
<1> QED BY <1>1, <1>2, TypeInit, TypeStep, StaleInit, StaleStep, TtlStep, PTL DEF Spec

=============================================================================
