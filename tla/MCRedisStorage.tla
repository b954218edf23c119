--------------------------- MODULE MCRedisStorage ---------------------------
(* Small instances of RedisStorage for TLC. *)
EXTENDS RedisStorage, TLC

CONSTANTS w1, w2, k1, k2, k3, k4, k5

TwoWorkers == {w1, w2}
OneKey     == {k1}
TwoKeys    == {k1, k2}
FiveKeys   == {k1, k2, k3, k4, k5}

OneEach    == [k \in FiveKeys |-> 1]
OneOfTwo   == [k \in TwoKeys |-> 1]
ThreeOfOne == [k \in OneKey |-> 3]

Symmetry == Permutations(TwoWorkers) \cup Permutations(FiveKeys)

\* What the fallback's size depends on: neither the counters in Redis nor the
\* histories of losses and overlaps ever decide a step of a worker.
FallbackView == <<breakerVars, fallback, envVars, workerVars, reported>>
=============================================================================
