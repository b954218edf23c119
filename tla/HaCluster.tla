----------------------------- MODULE HaCluster -----------------------------
(***************************************************************************)
(* Two RLQS instances that share the bucket state in Redis (docs/ha.md).   *)
(* Each instance is the reference protocol BucketLifecycle, which          *)
(* RlqsServer implements: its references (RLQSServer.bucketRefs) are local *)
(* to the process, the state is common.  Instance A is a process that is   *)
(* shut down, drained and started again (Shutdown) as in a rolling         *)
(* deployment; both may crash.  While Redis can not be reached an instance *)
(* keeps usage in its fallback (RedisStorage), to be flushed later, and a  *)
(* removal does not take; Redis drops a key whose TTL passes without a     *)
(* report.                                                                 *)
(***************************************************************************)
CONSTANTS
  StreamsA, StreamsB,  \* the streams the load balancer gives to each instance
  Keys                 \* scoped bucket keys

VARIABLES
  holdersA, removersA,  \* references and pending removals of instance A
  holdersB, removersB,  \* and of instance B
  unflushedA, unflushedB, \* keys with usage in the fallback of an instance, or
                        \* read from it by a flush that has not written yet
  redis,                \* keys with state in Redis
  orphans,              \* history: keys of redis that a crash, a forced exit, a
                        \* failed removal or a late flush may have left behind
  \* the process of instance A
  main, late, scraping, stopper, healthy, listening, open, running, told, cut, starved

A == INSTANCE BucketLifecycle WITH
  Streams <- StreamsA, holders <- holdersA, removers <- removersA, state <- redis

B == INSTANCE BucketLifecycle WITH
  Streams <- StreamsB, holders <- holdersB, removers <- removersB, state <- redis

P == INSTANCE Shutdown WITH Streams <- StreamsA

varsA == <<holdersA, removersA, unflushedA>>
varsB == <<holdersB, removersB, unflushedB>>
procA == <<main, late, scraping, stopper, healthy, listening, open, running, told, cut, starved>>
vars  == <<varsA, varsB, redis, orphans, procA>>

Nobody == [k \in Keys |-> {}]

Init ==
  /\ A!LifecycleInit
  /\ B!LifecycleInit
  /\ P!ProcessInit
  /\ unflushedA = {} /\ unflushedB = {}
  /\ orphans = {}

-----------------------------------------------------------------------------

\* A handler of an instance: reports, abandons, cleanup.  Those of A go on after
\* their transport is closed, until they return or the process exits.
StepA ==
  /\ \E s \in running, k \in Keys :
       A!Acquire(s, k) \/ A!Record(s, k) \/ A!Release(s, k) \/ A!Remove(s, k)
  /\ orphans' = orphans \cap redis'
  /\ UNCHANGED <<unflushedA, varsB, procA>>

StepB ==
  /\ B!LifecycleNext
  /\ orphans' = orphans \cap redis'
  /\ UNCHANGED <<unflushedB, varsA, procA>>

\* A removal that does not take: the delete does not reach Redis (the store is
\* down, or on the abandon path the stream's context is cancelled).  Nobody
\* tries again.  What the fallback has of the key is removed, if no flush has
\* read it.
RemovalFailsA(s, k) ==
  /\ s \in removersA[k]
  /\ removersA' = [removersA EXCEPT ![k] = @ \ {s}]
  /\ unflushedA' \in {unflushedA, unflushedA \ {k}}
  /\ orphans' = orphans \cup ({k} \cap redis)
  /\ UNCHANGED <<holdersA, redis, varsB, procA>>

RemovalFailsB(s, k) ==
  /\ s \in removersB[k]
  /\ removersB' = [removersB EXCEPT ![k] = @ \ {s}]
  /\ unflushedB' \in {unflushedB, unflushedB \ {k}}
  /\ orphans' = orphans \cup ({k} \cap redis)
  /\ UNCHANGED <<holdersB, redis, varsA, procA>>

Held(k) == holdersA[k] # {} \/ holdersB[k] # {}

Responsible(k) == Held(k) \/ removersA[k] # {} \/ removersB[k] # {}

\* The breaker is open: a report goes to the fallback of the instance.
BufferA(s, k) ==
  /\ s \in running \cap holdersA[k]
  /\ unflushedA' = unflushedA \cup {k}
  /\ UNCHANGED <<holdersA, removersA, varsB, redis, orphans, procA>>

BufferB(s, k) ==
  /\ s \in holdersB[k]
  /\ unflushedB' = unflushedB \cup {k}
  /\ UNCHANGED <<holdersB, removersB, varsA, redis, orphans, procA>>

\* The recovery in some call of the instance deals with k.  It writes the usage to
\* Redis, perhaps after the bucket was removed, or it loses it.
Flush(k) ==
  \/ /\ redis' = redis \cup {k}
     /\ orphans' = IF Responsible(k) THEN orphans ELSE orphans \cup {k}
  \/ UNCHANGED <<redis, orphans>>

FlushA(k) ==
  /\ k \in unflushedA
  /\ Flush(k)
  /\ unflushedA' = unflushedA \ {k}
  /\ UNCHANGED <<holdersA, removersA, varsB, procA>>

FlushB(k) ==
  /\ k \in unflushedB
  /\ Flush(k)
  /\ unflushedB' = unflushedB \ {k}
  /\ UNCHANGED <<holdersB, removersB, varsA, procA>>

\* Steps of A's clients, of main and of its goroutine that keep the references.
ReturnA(s) ==
  /\ P!Return(s)
  /\ \A k \in Keys : s \notin holdersA[k] \cup removersA[k]

ClientA ==
  /\ P!Scrape \/ \E s \in StreamsA : P!Connect(s) \/ P!Disconnect(s) \/ ReturnA(s)
  /\ UNCHANGED <<varsA, varsB, redis, orphans>>

MainA    == P!Main /\ UNCHANGED <<varsA, varsB, redis, orphans>>
StopperA == P!Stopper /\ UNCHANGED <<varsA, varsB, redis, orphans>>
StartA   == P!Start /\ UNCHANGED <<varsA, varsB, redis, orphans>>

\* The process of A ends, with whatever cleanup is still to be done.
LeftA ==
  /\ holdersA' = Nobody /\ removersA' = Nobody /\ unflushedA' = {}
  /\ orphans' = orphans \cup {k \in redis : holdersA[k] \cup removersA[k] # {}}
  /\ UNCHANGED <<varsB, redis>>

ExitA  == P!Flushed /\ LeftA
CrashA == P!Crash /\ LeftA

CrashB ==
  /\ varsB # <<Nobody, Nobody, {}>>
  /\ holdersB' = Nobody /\ removersB' = Nobody /\ unflushedB' = {}
  /\ orphans' = orphans \cup {k \in redis : holdersB[k] \cup removersB[k] # {}}
  /\ UNCHANGED <<varsA, redis, procA>>

\* keyTTL passes without a report for k.
Expire(k) ==
  /\ k \in redis
  /\ redis' = redis \ {k}
  /\ orphans' = orphans \ {k}
  /\ UNCHANGED <<varsA, varsB, procA>>

Next ==
  \/ StepA \/ StepB
  \/ \E s \in StreamsA, k \in Keys : RemovalFailsA(s, k) \/ BufferA(s, k)
  \/ \E s \in StreamsB, k \in Keys : RemovalFailsB(s, k) \/ BufferB(s, k)
  \/ \E k \in Keys : FlushA(k) \/ FlushB(k)
  \/ ClientA \/ MainA \/ StopperA \/ StartA
  \/ ExitA \/ CrashA \/ CrashB
  \/ \E k \in Keys : Expire(k)

Spec == Init /\ [][Next]_vars

\* main and its goroutine run, the deadline passes, and the deferred calls return.
\* Nothing is assumed of clients, of HTTP requests or of handlers.
FairSpec ==
  /\ Spec
  /\ WF_vars(P!Deadline /\ MainA)
  /\ WF_vars(P!MetricsStopped /\ MainA)
  /\ WF_vars((P!Drained \/ P!ForceStop) /\ MainA)
  /\ WF_vars(StopperA)
  /\ WF_vars(ExitA)

-----------------------------------------------------------------------------
(* Properties.                                                             *)

\* Redis keeps no state that no stream of any instance references or is about to
\* remove, unless a process ended before its cleanup did, a removal failed or a
\* flush came after it: although each instance counts only its own references,
\* the removals of both cover all the state (cleanupStream, the abandon path of
\* handleMessage).
NoClusterOrphan == \A k \in redis : Responsible(k) \/ k \in orphans

\* An exit that main calls graceful leaves nothing behind: once the goroutine has
\* closed its channel every handler has returned from its cleanup, and none
\* can start (the select in main, Server.GracefulStop).
DrainedExitClean ==
  stopper = "stopped" => running = {} /\ holdersA = Nobody /\ removersA = Nobody /\ ~listening

\* "Give active streams time to drain": the health status changes and the clients
\* are told before streams are refused or cut, except when the ten seconds, which
\* the shutdown of the metrics server shares, ended before GracefulStop got there.
NoticeBeforeCut ==
  main # "exited" /\ ~starved => cut = {} /\ (healthy => listening)

\* A process that got the signal exits, whatever its clients, HTTP requests and
\* handlers do (the deadline of shutdownCtx).
ProcessExits == main = "metrics" ~> main = "exited"

\* "Shared bucket storage is only removed when no other streams reference the
\* bucket, preventing HA data loss when multiple RLQS instances share Redis
\* state" (cleanupStream): no step of an instance removes the state of a
\* bucket that streams of the other instance reference.
SharedAcrossInstances ==
  [][\A k \in redis \ redis' :
       /\ StepA => holdersB[k] = {}
       /\ StepB => holdersA[k] = {}]_vars

=============================================================================
