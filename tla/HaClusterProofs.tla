-------------------------- MODULE HaClusterProofs --------------------------
(* Proofs about HaCluster, for any streams and keys. *)
EXTENDS HaCluster, TLAPS

TypeOK ==
  /\ holdersA \in [Keys -> SUBSET StreamsA]
  /\ removersA \in [Keys -> SUBSET StreamsA]
  /\ holdersB \in [Keys -> SUBSET StreamsB]
  /\ removersB \in [Keys -> SUBSET StreamsB]
  /\ unflushedA \subseteq Keys /\ unflushedB \subseteq Keys
  /\ redis \subseteq Keys
  /\ orphans \subseteq redis

\* References of A belong to handlers that have not returned.
Owned == \A k \in Keys : holdersA[k] \cup removersA[k] \subseteq running

\* What main's place and the goroutine's place say about the streams.
Draining ==
  /\ running \subseteq StreamsA /\ open \subseteq running
  /\ healthy \in BOOLEAN /\ listening \in BOOLEAN
  /\ main \in {"serving", "metrics", "drain", "flush", "exited"}
  /\ stopper \in {"none", "health", "stop", "wait", "stopped"}
  /\ stopper = "none" <=> main \in {"serving", "metrics", "exited"}
  /\ stopper \in {"stop", "wait", "stopped"} => ~healthy
  /\ stopper \in {"wait", "stopped"} => ~listening /\ open \subseteq told
  /\ stopper = "stopped" => running = {}
  /\ main \in {"serving", "metrics"} => healthy /\ listening /\ cut = {}
  /\ starved => late
  /\ late /\ ~starved => stopper \in {"wait", "stopped"}
  /\ main = "flush" => late \/ stopper = "stopped"
  /\ main = "exited" => ~listening /\ ~healthy /\ cut = {}
  /\ NoticeBeforeCut

Inv == TypeOK /\ NoClusterOrphan /\ Owned

\* A step of a handler of instance A (report, release, removal) keeps the
\* invariant: the last release of the instance leaves a pending removal.
LEMMA StepAKeeps == Inv /\ running \subseteq StreamsA /\ StepA => Inv'
<1> SUFFICES ASSUME Inv, running \subseteq StreamsA, StepA PROVE Inv' OBVIOUS
<1> USE DEF Inv, TypeOK, NoClusterOrphan, Responsible, Held, varsB, Owned
<1>1. PICK s \in running, k \in Keys :
        A!Acquire(s, k) \/ A!Record(s, k) \/ A!Release(s, k) \/ A!Remove(s, k)
  BY DEF StepA
<1>2. orphans' = orphans \cap redis' /\ UNCHANGED <<holdersB, removersB, running, unflushedA, unflushedB>>
  BY DEF StepA, procA
<1>3. CASE A!Acquire(s, k)
  <2>1. TypeOK' BY <1>2, <1>3 DEF A!Acquire
  <2>2. NoClusterOrphan' BY <1>2, <1>3 DEF A!Acquire
  <2>3. Owned' BY <1>2, <1>3 DEF A!Acquire
  <2> QED BY <2>1, <2>2, <2>3
<1>4. CASE A!Record(s, k) BY <1>2, <1>4 DEF A!Record
<1>5. CASE A!Release(s, k)
  <2>1. TypeOK' BY <1>2, <1>5 DEF A!Release
  <2>2. NoClusterOrphan' BY <1>2, <1>5 DEF A!Release
  <2>3. Owned' BY <1>2, <1>5 DEF A!Release
  <2> QED BY <2>1, <2>2, <2>3
<1>6. CASE A!Remove(s, k)
  <2>1. TypeOK' BY <1>2, <1>6 DEF A!Remove
  <2>2. NoClusterOrphan' BY <1>2, <1>6 DEF A!Remove
  <2>3. Owned' BY <1>2, <1>6 DEF A!Remove
  <2> QED BY <2>1, <2>2, <2>3
<1> QED BY <1>1, <1>3, <1>4, <1>5, <1>6

\* The same for a stream of instance B.
LEMMA StepBKeeps == Inv /\ StepB => Inv'
<1> SUFFICES ASSUME Inv, StepB PROVE Inv' OBVIOUS
<1> USE DEF Inv, TypeOK, NoClusterOrphan, Responsible, Held, varsA, Owned
<1>1. PICK s \in StreamsB, k \in Keys :
        B!Acquire(s, k) \/ B!Record(s, k) \/ B!Release(s, k) \/ B!Remove(s, k)
  BY DEF StepB, B!LifecycleNext
<1>2. orphans' = orphans \cap redis' /\ UNCHANGED <<holdersA, removersA, running, unflushedA, unflushedB>>
  BY DEF StepB, procA
<1>3. CASE B!Acquire(s, k) BY <1>2, <1>3 DEF B!Acquire
<1>4. CASE B!Record(s, k) BY <1>2, <1>4 DEF B!Record
<1>5. CASE B!Release(s, k)
  <2>1. TypeOK' BY <1>2, <1>5 DEF B!Release
  <2>2. NoClusterOrphan' BY <1>2, <1>5 DEF B!Release
  <2> QED BY <1>2, <2>1, <2>2
<1>6. CASE B!Remove(s, k) BY <1>2, <1>6 DEF B!Remove
<1> QED BY <1>1, <1>3, <1>4, <1>5, <1>6

\* A removal that fails leaves the key among the orphans.
LEMMA FailureKeeps ==
  ASSUME Inv,
         \/ \E s \in StreamsA, k \in Keys : RemovalFailsA(s, k)
         \/ \E s \in StreamsB, k \in Keys : RemovalFailsB(s, k)
  PROVE  Inv'
<1> USE DEF Inv, TypeOK, NoClusterOrphan, Responsible, Held, varsA, varsB, procA, Owned
<1>1. CASE \E s \in StreamsA, k \in Keys : RemovalFailsA(s, k)
  <2>1. PICK s \in StreamsA, k \in Keys : RemovalFailsA(s, k) BY <1>1
  <2>2. TypeOK' BY <2>1 DEF RemovalFailsA
  <2>3. NoClusterOrphan' BY <2>1 DEF RemovalFailsA
  <2>4. Owned' BY <2>1 DEF RemovalFailsA
  <2> QED BY <2>2, <2>3, <2>4
<1>2. CASE \E s \in StreamsB, k \in Keys : RemovalFailsB(s, k)
  <2>1. PICK s \in StreamsB, k \in Keys : RemovalFailsB(s, k) BY <1>2
  <2>2. TypeOK' BY <2>1 DEF RemovalFailsB
  <2>3. NoClusterOrphan' BY <2>1 DEF RemovalFailsB
  <2>4. Owned' BY <2>1 DEF RemovalFailsB
  <2> QED BY <2>2, <2>3, <2>4
<1> QED BY <1>1, <1>2

\* Usage that is kept in a fallback and written later: a key that is written when
\* nobody is responsible for it goes to the orphans.
LEMMA FlushKeeps ==
  ASSUME Inv,
         \/ \E s \in StreamsA, k \in Keys : BufferA(s, k)
         \/ \E s \in StreamsB, k \in Keys : BufferB(s, k)
         \/ \E k \in Keys : FlushA(k) \/ FlushB(k)
  PROVE  Inv'
<1>1. UNCHANGED <<holdersA, removersA, holdersB, removersB, running>>
  BY DEF BufferA, BufferB, FlushA, FlushB, varsA, varsB, procA
<1>2. unflushedA' \subseteq Keys /\ unflushedB' \subseteq Keys
  BY DEF BufferA, BufferB, FlushA, FlushB, varsA, varsB, Inv, TypeOK
<1>3. UNCHANGED <<redis, orphans>> \/ \E k \in Keys : Flush(k)
  BY DEF BufferA, BufferB, FlushA, FlushB
<1>4. \A k : Responsible(k)' = Responsible(k)
  BY <1>1 DEF Responsible, Held
<1>5. redis' \subseteq Keys /\ orphans' \subseteq redis' /\ NoClusterOrphan'
  <2>1. CASE UNCHANGED <<redis, orphans>>
    BY <1>4, <2>1 DEF Inv, TypeOK, NoClusterOrphan
  <2>2. CASE \E k \in Keys : Flush(k)
    BY <1>4, <2>2 DEF Inv, TypeOK, NoClusterOrphan, Flush
  <2> QED
    BY <1>3, <2>1, <2>2
<1> QED
  BY <1>1, <1>2, <1>5 DEF Inv, TypeOK, Owned

\* The end of a process leaves what it was responsible for among the orphans.
LEMMA ExitKeeps == Inv /\ (ExitA \/ CrashA \/ CrashB) => Inv'
<1> SUFFICES ASSUME Inv, ExitA \/ CrashA \/ CrashB PROVE Inv' OBVIOUS
<1> USE DEF Inv, TypeOK, NoClusterOrphan, Responsible, Held, varsA, varsB, procA, Nobody, Owned
<1>1. CASE ExitA \/ CrashA
  BY <1>1 DEF ExitA, CrashA, LeftA
<1>2. CASE CrashB BY <1>2 DEF CrashB
<1> QED BY <1>1, <1>2

\* Clients of A, main and its goroutine: a handler returns only when it owns
\* nothing, so references keep their owners.
LEMMA ProcessKeeps ==
  Inv /\ (ClientA \/ MainA \/ StopperA \/ StartA) => Inv'
<1> SUFFICES ASSUME Inv, ClientA \/ MainA \/ StopperA \/ StartA PROVE Inv' OBVIOUS
<1>1. UNCHANGED <<holdersA, removersA, holdersB, removersB, unflushedA, unflushedB, redis, orphans>>
  BY DEF ClientA, MainA, StopperA, StartA, varsA, varsB
<1>2. TypeOK' /\ NoClusterOrphan'
  BY <1>1 DEF Inv, TypeOK, NoClusterOrphan, Responsible, Held
<1>3. Owned'
  <2>1. CASE MainA \/ StopperA \/ StartA
    <3>1. running' = running
      BY <2>1 DEF MainA, StopperA, StartA, P!Main, P!Stopper, P!Start, P!Signal, P!Deadline,
        P!MetricsStopped, P!Drained, P!ForceStop, P!NotServing, P!GoAway, P!Stopped
    <3> QED BY <1>1, <3>1 DEF Inv, Owned
  <2>2. CASE ClientA
    <3>1. CASE P!Scrape \/ \E s \in StreamsA : P!Connect(s) \/ P!Disconnect(s)
      <4>1. running \subseteq running' BY <3>1 DEF P!Scrape, P!Connect, P!Disconnect
      <4> QED BY <1>1, <4>1 DEF Inv, Owned
    <3>2. CASE \E s \in StreamsA : ReturnA(s)
      BY <1>1, <3>2 DEF Inv, Owned, ReturnA, P!Return
    <3> QED BY <2>2, <3>1, <3>2 DEF ClientA
  <2> QED BY <2>1, <2>2
<1> QED BY <1>2, <1>3 DEF Inv

\* Steps of A's process keep what is said about its draining: after GracefulStop
\* has begun no stream is added, and it ends when no handler is left.
LEMMA DrainingKept == Draining /\ [Next]_vars => Draining'
<1> SUFFICES ASSUME Draining, [Next]_vars PROVE Draining' OBVIOUS
<1> USE DEF NoticeBeforeCut
<1>1. CASE UNCHANGED procA BY <1>1 DEF Draining, procA
<1>2. CASE ClientA
  <2>1. CASE P!Scrape BY <2>1 DEF Draining, P!Scrape
  <2>2. CASE \E s \in StreamsA : P!Connect(s) BY <2>2 DEF Draining, P!Connect
  <2>3. CASE \E s \in StreamsA : P!Disconnect(s) BY <2>3 DEF Draining, P!Disconnect
  <2>4. CASE \E s \in StreamsA : ReturnA(s) BY <2>4 DEF Draining, ReturnA, P!Return
  <2> QED BY <1>2, <2>1, <2>2, <2>3, <2>4 DEF ClientA
<1>3. CASE MainA
  <2>1. CASE P!Signal BY <2>1 DEF Draining, P!Signal
  <2>2. CASE P!Deadline
    <3>1. UNCHANGED <<main, stopper, healthy, listening, open, running, told, cut>> /\ late'
      BY <2>2 DEF P!Deadline
    <3>2. starved' \/ stopper \in {"wait", "stopped"}
      BY <2>2 DEF P!Deadline, Draining
    <3>3. main \in {"metrics", "drain"} /\ ~starved
      BY <2>2, Zenon DEF P!Deadline, Draining
    <3> QED BY <3>1, <3>2, <3>3, Zenon DEF Draining
  <2>3. CASE P!MetricsStopped BY <2>3 DEF Draining, P!MetricsStopped
  <2>4. CASE P!Drained BY <2>4 DEF Draining, P!Drained
  <2>5. CASE P!ForceStop BY <2>5, Zenon DEF Draining, P!ForceStop
  <2> QED BY <1>3, <2>1, <2>2, <2>3, <2>4, <2>5 DEF MainA, P!Main
<1>4. CASE StopperA
  <2>1. CASE P!NotServing BY <2>1, Zenon DEF Draining, P!NotServing
  <2>2. CASE P!GoAway BY <2>2, Zenon DEF Draining, P!GoAway
  <2>3. CASE P!Stopped BY <2>3 DEF Draining, P!Stopped
  <2> QED BY <1>4, <2>1, <2>2, <2>3 DEF StopperA, P!Stopper
<1>5. CASE StartA BY <1>5 DEF Draining, StartA, P!Start
<1>6. CASE ExitA \/ CrashA
  BY <1>6, Zenon DEF Draining, ExitA, CrashA, P!Flushed, P!Crash, P!Exit
<1> QED
  BY <1>1, <1>2, <1>3, <1>4, <1>5, <1>6
  DEF Next, vars, StepA, StepB, RemovalFailsA, RemovalFailsB, BufferA, BufferB, FlushA, FlushB,
      CrashB, Expire

\* The inductive invariant of the cluster.
THEOREM ClusterInvariance == Spec => [](Inv /\ Draining)
<1>1. Init => Inv /\ Draining
  BY DEF Init, A!LifecycleInit, B!LifecycleInit, P!ProcessInit, Inv, TypeOK, NoClusterOrphan,
         Responsible, Held, Owned, Draining, NoticeBeforeCut
<1>2. Inv /\ Draining /\ [Next]_vars => (Inv /\ Draining)'
  <2> SUFFICES ASSUME Inv, Draining, [Next]_vars PROVE Inv' BY DrainingKept
  <2>1. CASE StepA BY <2>1, StepAKeeps DEF Draining
  <2>2. CASE StepB BY <2>2, StepBKeeps
  <2>3. CASE ExitA \/ CrashA \/ CrashB BY <2>3, ExitKeeps
  <2>4. CASE ClientA \/ MainA \/ StopperA \/ StartA BY <2>4, ProcessKeeps
  <2>5. CASE \E k \in Keys : Expire(k)
    BY <2>5 DEF Inv, TypeOK, NoClusterOrphan, Responsible, Held, Owned, Expire, varsA, varsB, procA
  <2>6. CASE UNCHANGED vars
    BY <2>6 DEF Inv, TypeOK, NoClusterOrphan, Responsible, Held, Owned, vars, varsA, varsB, procA
  <2> QED BY <2>1, <2>2, <2>3, <2>4, <2>5, <2>6, FailureKeeps, FlushKeeps DEF Next
<1> QED BY <1>1, <1>2, PTL DEF Spec

\* State in Redis always has a stream that references it, a stream that is
\* about to remove it, or a process end or failed removal to blame, for any
\* number of streams and keys (cleanupStream and the abandon path of
\* handleMessage, on two instances).
THEOREM ClusterCleanup == Spec => []NoClusterOrphan
<1>1. Inv /\ Draining => NoClusterOrphan BY DEF Inv
<1> QED BY <1>1, ClusterInvariance, PTL

\* A graceful exit leaves no reference and no removal behind, for any number of
\* streams (main's select on the channel that follows GracefulStop).
THEOREM DrainIsClean == Spec => []DrainedExitClean
<1>1. Inv /\ Draining => DrainedExitClean
  <2> SUFFICES ASSUME Inv, Draining, stopper = "stopped"
               PROVE running = {} /\ holdersA = Nobody /\ removersA = Nobody /\ ~listening
    BY DEF DrainedExitClean
  <2>1. running = {} /\ ~listening BY DEF Draining
  <2>2. \A k \in Keys : holdersA[k] = {} /\ removersA[k] = {} BY <2>1 DEF Inv, Owned
  <2> QED BY <2>1, <2>2 DEF Inv, TypeOK, Nobody
<1> QED BY <1>1, ClusterInvariance, PTL

\* No stream is refused or cut without notice unless the time was used up before
\* GracefulStop gave it, for any number of streams and wherever the deadline falls
\* (shutdownCtx, Server.GracefulStop, Stop).
THEOREM NoticeIsGiven == Spec => []NoticeBeforeCut
<1>1. Inv /\ Draining => NoticeBeforeCut BY DEF Draining
<1> QED BY <1>1, ClusterInvariance, PTL

=============================================================================
