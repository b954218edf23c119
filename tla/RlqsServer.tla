----------------------------- MODULE RlqsServer -----------------------------
(***************************************************************************)
(* The RLQS stream server (internal/server/server.go).                     *)
(*                                                                         *)
(* Every gRPC stream has a goroutine that receives usage reports, keeps    *)
(* the stream's bucket subscriptions, counts the subscribers of a bucket   *)
(* in bucketRefs, records usage in the shared store, asks the quota engine *)
(* for actions and sends them back.  SwapEngine installs a new engine and  *)
(* starts a goroutine that pushes its assignments to every active stream.  *)
(*                                                                         *)
(* One step is one critical section (s.mu, ss.mu, sendMu), one call into   *)
(* the store or the engine, or one atomic load or store: everything the    *)
(* code does without a lock in between can be interleaved with the other   *)
(* goroutines.  Usage amounts, bucket contents, strategies and log lines   *)
(* are left out: a bucket is its canonical key, a usage report is the      *)
(* bucket it is for, an engine is its version, and the store is the set of *)
(* scoped keys it holds state for.                                         *)
(***************************************************************************)
EXTENDS Integers, Sequences, FiniteSets

CONSTANTS
  Streams,              \* identities of streamState objects
  Domains,              \* non-empty domain names
  Buckets,              \* canonical bucket keys (BucketKeyFromProto)
  Messages,             \* the usage-report messages clients may send
  MaxBucketsPerStream,  \* server config, 0 means no limit
  MaxReportsPerMessage, \* server config, 0 means no limit
  Abandonable,          \* buckets the engine may answer with an abandon action
  Overflowing,          \* domains the classifier may give the overflow label
  EngineMayFail,        \* whether the engine may return an error or no actions
  MayStall,             \* streams whose client may stop reading
  MaxSwaps,             \* bound on the number of engine swaps
  NoDomain,             \* the empty domain string
  NoBucket,             \* a report without a bucket id (skipped)
  BadBucket,            \* a report whose bucket id breaks a validation limit
  UnknownDomain,        \* the overflow metrics label
  NoStream              \* no stream

Reports == Buckets \cup {NoBucket, BadBucket}

Message == [domain : Domains \cup {NoDomain}, usages : Seq(Reports)]

ASSUME ConstantsAssumption ==
  /\ IsFiniteSet(Streams)
  /\ IsFiniteSet(Buckets)
  /\ NoStream \notin Streams
  /\ NoDomain \notin Domains
  /\ UnknownDomain \notin Domains
  /\ NoBucket \notin Buckets
  /\ BadBucket \notin Buckets
  /\ NoBucket # BadBucket
  /\ Messages \subseteq Message
  /\ MaxBucketsPerStream \in Nat
  /\ MaxReportsPerMessage \in Nat
  /\ Abandonable \subseteq Buckets
  /\ Overflowing \subseteq Domains
  /\ EngineMayFail \in BOOLEAN
  /\ MayStall \subseteq Streams
  /\ MaxSwaps \in Nat

VARIABLES
  streams,       \* RLQSServer.streams: the registered streams
  bucketRefs,    \* RLQSServer.bucketRefs: scoped key -> subscriber count (0: no entry)
  store,         \* the scoped keys the BucketStore holds state for
  activeBuckets, \* the rlqs_active_buckets gauge, per metrics label
  engine,        \* version of the engine in RLQSServer.engine
  pc,            \* where the goroutine of a stream is
  domain,        \* streamState.domain (NoDomain: not bound)
  metricDomain,  \* streamState.metricDomain
  subs,          \* keys of streamState.subscriptions
  live,          \* whether the stream's context is not cancelled
  stalled,       \* streams whose flow-control window is full
  todo,          \* handleMessage: usages still to be processed
  reports,       \* handleMessage: buckets in the reports slice
  cur,           \* the bucket the current iteration is about
  eng,           \* handleMessage: the engine consulted
  abandoned,     \* handleMessage: abandon actions still to be processed
  cleaning,      \* cleanupStream: subscriptions still to be released
  pushPc,        \* where the push goroutine of a swap is
  pushQueue,     \* pushAssignments: streams still to be visited
  pushCur,       \* pushAssignments: the stream being visited
  pushBatch,     \* pushAssignments: the buckets collected from it
  newest,        \* history: newest engine version a client got for a bucket
  last           \* history: version of the last action it got for a bucket

serverVars == <<streams, bucketRefs, store, activeBuckets, engine>>
streamVars == <<domain, metricDomain, subs>>
netVars    == <<live, stalled>>
localVars  == <<todo, reports, cur, eng, abandoned, cleaning>>
pushVars   == <<pushPc, pushQueue, pushCur, pushBatch>>
clientVars == <<newest, last>>

vars == <<serverVars, pc, streamVars, netVars, localVars, pushVars, clientVars>>

-----------------------------------------------------------------------------
(* State space.                                                            *)

Keys    == Domains \X Buckets
Labels  == Domains \cup {UnknownDomain}
Engines == 0 .. MaxSwaps
Pushes  == 1 .. MaxSwaps
Never   == -1

\* "none" is both a stream not yet opened and one whose handler has returned.
PC == {"none", "recv", "report", "ref", "record", "act", "unref", "remove",
       "cleanup", "clean", "cleanRemove"}

PushPC == {"idle", "snapshot", "collect", "send", "done"}

DomainScopedKey(d, b) == <<d, b>>

\* The scoped key the goroutine of s is working on.
CurKey(s) == DomainScopedKey(domain[s], cur[s])

TypeOK ==
  /\ streams \subseteq Streams
  /\ bucketRefs \in [Keys -> Nat]
  /\ store \subseteq Keys
  /\ activeBuckets \in [Labels -> Int]
  /\ engine \in Engines
  /\ pc \in [Streams -> PC]
  /\ domain \in [Streams -> Domains \cup {NoDomain}]
  /\ metricDomain \in [Streams -> Labels]
  /\ subs \in [Streams -> SUBSET Buckets]
  /\ live \in [Streams -> BOOLEAN]
  /\ stalled \subseteq Streams
  /\ todo \in [Streams -> Seq(Reports)]
  /\ reports \in [Streams -> SUBSET Buckets]
  /\ cur \in [Streams -> Buckets \cup {NoBucket}]
  /\ eng \in [Streams -> Engines]
  /\ abandoned \in [Streams -> SUBSET Buckets]
  /\ cleaning \in [Streams -> SUBSET Buckets]
  /\ pushPc \in [Pushes -> PushPC]
  /\ pushQueue \in [Pushes -> SUBSET Streams]
  /\ pushCur \in [Pushes -> Streams \cup {NoStream}]
  /\ pushBatch \in [Pushes -> SUBSET Buckets]
  /\ newest \in [Streams -> [Buckets -> Engines \cup {Never}]]
  /\ last \in [Streams -> [Buckets -> Engines \cup {Never}]]

Init ==
  /\ streams = {}
  /\ bucketRefs = [k \in Keys |-> 0]
  /\ store = {}
  /\ activeBuckets = [l \in Labels |-> 0]
  /\ engine = 0
  /\ pc = [s \in Streams |-> "none"]
  /\ domain = [s \in Streams |-> NoDomain]
  /\ metricDomain = [s \in Streams |-> UnknownDomain]
  /\ subs = [s \in Streams |-> {}]
  /\ live = [s \in Streams |-> FALSE]
  /\ stalled = {}
  /\ todo = [s \in Streams |-> <<>>]
  /\ reports = [s \in Streams |-> {}]
  /\ cur = [s \in Streams |-> NoBucket]
  /\ eng = [s \in Streams |-> 0]
  /\ abandoned = [s \in Streams |-> {}]
  /\ cleaning = [s \in Streams |-> {}]
  /\ pushPc = [p \in Pushes |-> "idle"]
  /\ pushQueue = [p \in Pushes |-> {}]
  /\ pushCur = [p \in Pushes |-> NoStream]
  /\ pushBatch = [p \in Pushes |-> {}]
  /\ newest = [s \in Streams |-> [b \in Buckets |-> Never]]
  /\ last = [s \in Streams |-> [b \in Buckets |-> Never]]

-----------------------------------------------------------------------------
(* Helpers.                                                                *)

Goto(s, l) == pc' = [pc EXCEPT ![s] = l]

\* handleMessage returns: its locals are gone.
Return(s, l) ==
  /\ Goto(s, l)
  /\ todo' = [todo EXCEPT ![s] = <<>>]
  /\ reports' = [reports EXCEPT ![s] = {}]
  /\ cur' = [cur EXCEPT ![s] = NoBucket]
  /\ eng' = [eng EXCEPT ![s] = 0]
  /\ abandoned' = [abandoned EXCEPT ![s] = {}]

\* Mutant of Classify: an overflowing domain gets the empty label.
ClassifyEmpty(d) == {d} \cup {l \in {NoDomain} : d \in Overflowing}

\* The labels DomainClassifier.Classify may answer for a domain.
Classify(d) == {d} \cup {l \in {UnknownDomain} : d \in Overflowing}

\* Mutant of AtLimit: one subscription too many.
AtLimitLate(s) ==
  /\ MaxBucketsPerStream > 0
  /\ Cardinality(subs[s]) > MaxBucketsPerStream

AtLimit(s) ==
  /\ MaxBucketsPerStream > 0
  /\ Cardinality(subs[s]) >= MaxBucketsPerStream

TooManyReports(m) ==
  /\ MaxReportsPerMessage > 0
  /\ Len(m.usages) > MaxReportsPerMessage

\* Mutant of LastReference: the last reference is not recognised.
LastReferenceLate(k) == bucketRefs[k] - 1 < 0

\* The decrement of bucketRefs under s.mu.  A count that reaches 0 deletes
\* the entry and leaves RemoveBucket to the caller, after the unlock.
LastReference(k) == bucketRefs[k] - 1 <= 0

\* Mutant of DropReference: the entry is deleted whatever its count.
DropAllReferences(k) == bucketRefs' = [bucketRefs EXCEPT ![k] = 0]

DropReference(k) ==
  bucketRefs' = [bucketRefs EXCEPT ![k] = IF LastReference(k) THEN 0 ELSE @ - 1]

\* The client of s receives a response with an action of engine version v
\* for every bucket of B.
Deliver(s, B, v) ==
  /\ newest' = [newest EXCEPT ![s] = [b \in Buckets |->
                  IF b \in B /\ v > newest[s][b] THEN v ELSE newest[s][b]]]
  /\ last' = [last EXCEPT ![s] = [b \in Buckets |->
                  IF b \in B THEN v ELSE last[s][b]]]

-----------------------------------------------------------------------------
(* StreamRateLimitQuotas: the receive loop.                                *)

\* A stream identity is reused only once no push goroutine holds it.
Open(s) ==
  /\ pc[s] = "none"
  /\ \A p \in Pushes : s # pushCur[p] /\ s \notin pushQueue[p]
  /\ Goto(s, "recv")
  /\ streams' = streams \cup {s}
  /\ live' = [live EXCEPT ![s] = TRUE]
  /\ UNCHANGED <<bucketRefs, store, activeBuckets, engine, streamVars, stalled,
                 localVars, pushVars, clientVars>>

\* The client half-closes the stream: Recv returns io.EOF.
RecvEOF(s) ==
  /\ pc[s] = "recv"
  /\ live[s]
  /\ Goto(s, "cleanup")
  /\ UNCHANGED <<serverVars, streamVars, netVars, localVars, pushVars, clientVars>>

\* The context is cancelled: Recv returns an error.
RecvError(s) ==
  /\ pc[s] = "recv"
  /\ ~live[s]
  /\ Goto(s, "cleanup")
  /\ UNCHANGED <<serverVars, streamVars, netVars, localVars, pushVars, clientVars>>

\* The client goes away, or the transport is closed, at any moment.
Disconnect(s) ==
  /\ live[s]
  /\ live' = [live EXCEPT ![s] = FALSE]
  /\ stalled' = stalled \ {s}
  /\ UNCHANGED <<serverVars, pc, streamVars, localVars, pushVars, clientVars>>

\* A client that stops reading fills the flow-control window; Send blocks
\* until it reads again or the context is cancelled.
Stall(s) ==
  /\ s \in MayStall
  /\ live[s]
  /\ stalled' = stalled \cup {s}
  /\ UNCHANGED <<serverVars, pc, streamVars, live, localVars, pushVars, clientVars>>

Resume(s) ==
  /\ s \in stalled
  /\ stalled' = stalled \ {s}
  /\ UNCHANGED <<serverVars, pc, streamVars, live, localVars, pushVars, clientVars>>

-----------------------------------------------------------------------------
(* handleMessage.                                                          *)

\* The domain the stream is bound to once the message is looked at.
BoundDomain(s, m) == IF domain[s] = NoDomain THEN m.domain ELSE domain[s]

\* The message ends the stream with an error: no domain on the first one,
\* another domain on a later one, or too many reports.
Rejected(s, m) ==
  \/ BoundDomain(s, m) = NoDomain
  \/ m.domain \notin {NoDomain, BoundDomain(s, m)}
  \/ TooManyReports(m)

Receive(s, m) ==
  /\ pc[s] = "recv"
  /\ live[s]
  /\ domain' = [domain EXCEPT ![s] = BoundDomain(s, m)]
  /\ \/ /\ domain[s] = NoDomain
        /\ m.domain # NoDomain
        /\ \E l \in Classify(m.domain) :
              metricDomain' = [metricDomain EXCEPT ![s] = l]
     \/ /\ domain[s] # NoDomain \/ m.domain = NoDomain
        /\ UNCHANGED metricDomain
  /\ \/ /\ Rejected(s, m)
        /\ Goto(s, "cleanup")
        /\ UNCHANGED todo
     \/ /\ ~Rejected(s, m)
        /\ Goto(s, IF m.usages = <<>> THEN "recv" ELSE "report")
        /\ todo' = [todo EXCEPT ![s] = m.usages]
  /\ UNCHANGED <<serverVars, subs, netVars, reports, cur, eng, abandoned,
                 cleaning, pushVars, clientVars>>

\* A usage without a bucket id is skipped.
SkipUsage(s) ==
  /\ pc[s] = "report"
  /\ todo[s] # <<>>
  /\ Head(todo[s]) = NoBucket
  /\ todo' = [todo EXCEPT ![s] = Tail(@)]
  /\ UNCHANGED <<serverVars, pc, streamVars, netVars, reports, cur, eng,
                 abandoned, cleaning, pushVars, clientVars>>

\* An invalid bucket id, or a new bucket over the limit, ends the stream.
\* What the message recorded so far stays recorded.
RejectUsage(s) ==
  /\ pc[s] = "report"
  /\ todo[s] # <<>>
  /\ \/ Head(todo[s]) = BadBucket
     \/ Head(todo[s]) \in Buckets \ subs[s] /\ AtLimit(s)
  /\ Return(s, "cleanup")
  /\ UNCHANGED <<serverVars, streamVars, netVars, cleaning, pushVars, clientVars>>

\* The critical section on ss.mu: the first report for a bucket subscribes.
Subscribe(s) ==
  /\ pc[s] = "report"
  /\ todo[s] # <<>>
  /\ Head(todo[s]) \in Buckets
  /\ cur' = [cur EXCEPT ![s] = Head(todo[s])]
  /\ \/ /\ Head(todo[s]) \in subs[s]
        /\ Goto(s, "record")
        /\ UNCHANGED subs
     \/ /\ Head(todo[s]) \notin subs[s]
        /\ ~AtLimit(s)
        /\ subs' = [subs EXCEPT ![s] = @ \cup {Head(todo[s])}]
        /\ Goto(s, "ref")
  /\ UNCHANGED <<serverVars, domain, metricDomain, netVars, todo, reports, eng,
                 abandoned, cleaning, pushVars, clientVars>>

\* The critical section on s.mu.  The gauge is incremented right after it;
\* nothing in the program reads the gauge.
AddReference(s) ==
  /\ pc[s] = "ref"
  /\ bucketRefs' = [bucketRefs EXCEPT ![CurKey(s)] = @ + 1]
  /\ activeBuckets' = [activeBuckets EXCEPT ![metricDomain[s]] = @ + 1]
  /\ Goto(s, "record")
  /\ UNCHANGED <<streams, store, engine, streamVars, netVars, localVars,
                 pushVars, clientVars>>

\* store.RecordUsage creates the bucket's state when there is none.
RecordUsage(s) ==
  /\ pc[s] = "record"
  /\ store' = store \cup {CurKey(s)}
  /\ reports' = [reports EXCEPT ![s] = @ \cup {cur[s]}]
  /\ todo' = [todo EXCEPT ![s] = Tail(@)]
  /\ Goto(s, "report")
  /\ UNCHANGED <<streams, bucketRefs, activeBuckets, engine, streamVars,
                 netVars, cur, eng, abandoned, cleaning, pushVars, clientVars>>

\* Mutant of ConsultEngine: the engine the server started with is consulted.
ConsultFirstEngine(s) ==
  /\ pc[s] = "report"
  /\ todo[s] = <<>>
  /\ \/ /\ reports[s] = {}
        /\ Return(s, "recv")
     \/ /\ reports[s] # {}
        /\ Goto(s, "act")
        /\ UNCHANGED <<todo, reports, cur, eng, abandoned>>
  /\ UNCHANGED <<serverVars, streamVars, netVars, cleaning, pushVars, clientVars>>

\* The engine is loaded and consulted once for the whole message.  It may
\* fail, answer nothing (no reports, or an engine of another kind), or answer
\* with one action per report and abandon actions for any buckets it likes.
ConsultEngine(s) ==
  /\ pc[s] = "report"
  /\ todo[s] = <<>>
  /\ \/ /\ EngineMayFail
        /\ Return(s, "cleanup")
     \/ /\ reports[s] = {} \/ EngineMayFail
        /\ Return(s, "recv")
     \/ /\ reports[s] # {}
        /\ eng' = [eng EXCEPT ![s] = engine]
        /\ \E A \in SUBSET Abandonable :
              abandoned' = [abandoned EXCEPT ![s] = A]
        /\ Goto(s, "act")
        /\ UNCHANGED <<todo, reports, cur>>
  /\ UNCHANGED <<serverVars, streamVars, netVars, cleaning, pushVars, clientVars>>

\* The critical section on ss.mu of the next abandon action.
Abandon(s, b) ==
  /\ pc[s] = "act"
  /\ b \in abandoned[s]
  /\ abandoned' = [abandoned EXCEPT ![s] = @ \ {b}]
  /\ \/ /\ b \in subs[s]
        /\ subs' = [subs EXCEPT ![s] = @ \ {b}]
        /\ cur' = [cur EXCEPT ![s] = b]
        /\ Goto(s, "unref")
     \/ /\ b \notin subs[s]
        /\ UNCHANGED <<subs, cur, pc>>
  /\ UNCHANGED <<serverVars, domain, metricDomain, netVars, todo, reports, eng,
                 cleaning, pushVars, clientVars>>

\* Mutant of Unreference: the state is removed whoever else references it.
UnreferenceRemove(s) ==
  /\ pc[s] = "unref"
  /\ DropReference(CurKey(s))
  /\ Goto(s, "remove")
  /\ UNCHANGED <<streams, store, activeBuckets, engine, streamVars, netVars, localVars,
                 pushVars, clientVars>>

\* The critical section on s.mu of an abandon action.
Unreference(s) ==
  /\ pc[s] = "unref"
  /\ DropReference(CurKey(s))
  /\ \/ /\ LastReference(CurKey(s))
        /\ Goto(s, "remove")
        /\ UNCHANGED activeBuckets
     \/ /\ ~LastReference(CurKey(s))
        /\ Goto(s, "act")
        /\ activeBuckets' = [activeBuckets EXCEPT ![metricDomain[s]] = @ - 1]
  /\ UNCHANGED <<streams, store, engine, streamVars, netVars, localVars,
                 pushVars, clientVars>>

\* Mutant of RemoveAbandoned: the gauge keeps counting the bucket.
RemoveAbandonedCounted(s) ==
  /\ pc[s] = "remove"
  /\ store' = store \ {CurKey(s)}
  /\ Goto(s, "act")
  /\ UNCHANGED <<streams, bucketRefs, activeBuckets, engine, streamVars, netVars,
                 localVars, pushVars, clientVars>>

\* store.RemoveBucket of an abandoned bucket, then the gauge.
RemoveAbandoned(s) ==
  /\ pc[s] = "remove"
  /\ store' = store \ {CurKey(s)}
  /\ activeBuckets' = [activeBuckets EXCEPT ![metricDomain[s]] = @ - 1]
  /\ Goto(s, "act")
  /\ UNCHANGED <<streams, bucketRefs, engine, streamVars, netVars, localVars,
                 pushVars, clientVars>>

\* All actions processed: the response is sent under sendMu.  Send fails on a
\* cancelled context and blocks on a full flow-control window.
Send(s) ==
  /\ pc[s] = "act"
  /\ abandoned[s] = {}
  /\ s \notin stalled
  /\ \/ /\ live[s]
        /\ Deliver(s, reports[s], eng[s])
        /\ Return(s, "recv")
     \/ /\ ~live[s]
        /\ Return(s, "cleanup")
        /\ UNCHANGED clientVars
  /\ UNCHANGED <<serverVars, streamVars, netVars, cleaning, pushVars>>

-----------------------------------------------------------------------------
(* cleanupStream, deferred by StreamRateLimitQuotas.                       *)

\* The handler is over and its context cancelled.  Only a push goroutine may
\* still hold the streamState, and its Send fails.
Returned(s) ==
  /\ Goto(s, "none")
  /\ live' = [live EXCEPT ![s] = FALSE]
  /\ stalled' = stalled \ {s}
  /\ domain' = [domain EXCEPT ![s] = NoDomain]
  /\ metricDomain' = [metricDomain EXCEPT ![s] = UnknownDomain]
  /\ subs' = [subs EXCEPT ![s] = {}]
  /\ cur' = [cur EXCEPT ![s] = NoBucket]
  /\ newest' = [newest EXCEPT ![s] = [b \in Buckets |-> Never]]
  /\ last' = [last EXCEPT ![s] = [b \in Buckets |-> Never]]

\* Mutant of Deregister: the stream stays registered.
DeregisterNot(s) ==
  /\ pc[s] = "cleanup"
  /\ \/ /\ domain[s] = NoDomain
        /\ Returned(s)
        /\ UNCHANGED cleaning
     \/ /\ domain[s] # NoDomain
        /\ Goto(s, "clean")
        /\ cleaning' = [cleaning EXCEPT ![s] = subs[s]]
        /\ UNCHANGED <<streamVars, netVars, cur, clientVars>>
  /\ UNCHANGED <<serverVars, todo, reports, eng, abandoned, pushVars>>

Deregister(s) ==
  /\ pc[s] = "cleanup"
  /\ streams' = streams \ {s}
  /\ \/ /\ domain[s] = NoDomain
        /\ Returned(s)
        /\ UNCHANGED cleaning
     \/ /\ domain[s] # NoDomain
        /\ Goto(s, "clean")
        /\ cleaning' = [cleaning EXCEPT ![s] = subs[s]]
        /\ UNCHANGED <<streamVars, netVars, cur, clientVars>>
  /\ UNCHANGED <<bucketRefs, store, activeBuckets, engine, todo, reports, eng,
                 abandoned, pushVars>>

\* One iteration of the loop: the gauge, then the critical section on s.mu.
Release(s, b) ==
  /\ pc[s] = "clean"
  /\ b \in cleaning[s]
  /\ activeBuckets' = [activeBuckets EXCEPT ![metricDomain[s]] = @ - 1]
  /\ cleaning' = [cleaning EXCEPT ![s] = @ \ {b}]
  /\ cur' = [cur EXCEPT ![s] = b]
  /\ DropReference(DomainScopedKey(domain[s], b))
  /\ Goto(s, IF LastReference(DomainScopedKey(domain[s], b))
             THEN "cleanRemove" ELSE "clean")
  /\ UNCHANGED <<streams, store, engine, streamVars, netVars, todo, reports,
                 eng, abandoned, pushVars, clientVars>>

\* store.RemoveBucket of a bucket nobody else referenced at the unlock.
RemoveReleased(s) ==
  /\ pc[s] = "cleanRemove"
  /\ store' = store \ {CurKey(s)}
  /\ Goto(s, "clean")
  /\ UNCHANGED <<streams, bucketRefs, activeBuckets, engine, streamVars,
                 netVars, localVars, pushVars, clientVars>>

Finish(s) ==
  /\ pc[s] = "clean"
  /\ cleaning[s] = {}
  /\ Returned(s)
  /\ UNCHANGED <<serverVars, todo, reports, eng, abandoned, cleaning, pushVars>>

-----------------------------------------------------------------------------
(* SwapEngine and the goroutine it starts.  Push p carries engine p.       *)

SwapEngine ==
  /\ engine < MaxSwaps
  /\ engine' = engine + 1
  /\ pushPc' = [pushPc EXCEPT ![engine + 1] = "snapshot"]
  /\ UNCHANGED <<streams, bucketRefs, store, activeBuckets, pc, streamVars,
                 netVars, localVars, pushQueue, pushCur, pushBatch, clientVars>>

PushSnapshot(p) ==
  /\ pushPc[p] = "snapshot"
  /\ pushPc' = [pushPc EXCEPT ![p] = "collect"]
  /\ pushQueue' = [pushQueue EXCEPT ![p] = streams]
  /\ UNCHANGED <<serverVars, pc, streamVars, netVars, localVars, pushCur,
                 pushBatch, clientVars>>

\* The critical section on ss.mu; unbound and empty streams are skipped.
PushCollect(p, s) ==
  /\ pushPc[p] = "collect"
  /\ s \in pushQueue[p]
  /\ pushQueue' = [pushQueue EXCEPT ![p] = @ \ {s}]
  /\ \/ /\ domain[s] = NoDomain \/ subs[s] = {}
        /\ UNCHANGED <<pushPc, pushCur, pushBatch>>
     \/ /\ domain[s] # NoDomain /\ subs[s] # {}
        /\ pushPc' = [pushPc EXCEPT ![p] = "send"]
        /\ pushCur' = [pushCur EXCEPT ![p] = s]
        /\ pushBatch' = [pushBatch EXCEPT ![p] = subs[s]]
  /\ UNCHANGED <<serverVars, pc, streamVars, netVars, localVars, clientVars>>

\* Mutant of PushSend: an error on one stream ends the whole push.
PushSendStop(p) ==
  /\ pushPc[p] = "send"
  /\ pushCur' = [pushCur EXCEPT ![p] = NoStream]
  /\ pushBatch' = [pushBatch EXCEPT ![p] = {}]
  /\ \/ /\ live[pushCur[p]]
        /\ pushCur[p] \notin stalled
        /\ Deliver(pushCur[p], pushBatch[p], p)
        /\ pushPc' = [pushPc EXCEPT ![p] = "collect"]
        /\ UNCHANGED pushQueue
     \/ /\ ~live[pushCur[p]]
        /\ pushPc' = [pushPc EXCEPT ![p] = "done"]
        /\ pushQueue' = [pushQueue EXCEPT ![p] = {}]
        /\ UNCHANGED clientVars
  /\ UNCHANGED <<serverVars, pc, streamVars, netVars, localVars>>

\* ProcessUsage and Send; an error of either, or no actions, skips the stream.
\* Abandon actions are sent like any other and change no subscription here.
PushSend(p) ==
  /\ pushPc[p] = "send"
  /\ pushPc' = [pushPc EXCEPT ![p] = "collect"]
  /\ pushCur' = [pushCur EXCEPT ![p] = NoStream]
  /\ pushBatch' = [pushBatch EXCEPT ![p] = {}]
  /\ \/ /\ live[pushCur[p]]
        /\ pushCur[p] \notin stalled
        /\ Deliver(pushCur[p], pushBatch[p], p)
     \/ /\ ~live[pushCur[p]] \/ EngineMayFail
        /\ UNCHANGED clientVars
  /\ UNCHANGED <<serverVars, pc, streamVars, netVars, localVars, pushQueue>>

PushDone(p) ==
  /\ pushPc[p] = "collect"
  /\ pushQueue[p] = {}
  /\ pushPc' = [pushPc EXCEPT ![p] = "done"]
  /\ UNCHANGED <<serverVars, pc, streamVars, netVars, localVars, pushQueue,
                 pushCur, pushBatch, clientVars>>

-----------------------------------------------------------------------------

\* The steps the server's goroutine for s takes by itself.
Handler(s) ==
  \/ RecvError(s)
  \/ SkipUsage(s)
  \/ RejectUsage(s)
  \/ Subscribe(s)
  \/ AddReference(s)
  \/ RecordUsage(s)
  \/ ConsultEngine(s)
  \/ \E b \in Buckets : Abandon(s, b)
  \/ Unreference(s)
  \/ RemoveAbandoned(s)
  \/ Send(s)
  \/ Deregister(s)
  \/ \E b \in Buckets : Release(s, b)
  \/ RemoveReleased(s)
  \/ Finish(s)

\* What the client and the network do.
Client(s) ==
  \/ Open(s)
  \/ RecvEOF(s)
  \/ Disconnect(s)
  \/ Stall(s)
  \/ Resume(s)
  \/ \E m \in Messages : Receive(s, m)

Push(p) ==
  \/ PushSnapshot(p)
  \/ \E s \in Streams : PushCollect(p, s)
  \/ PushSend(p)
  \/ PushDone(p)

Next ==
  \/ \E s \in Streams : Handler(s) \/ Client(s)
  \/ SwapEngine
  \/ \E p \in Pushes : Push(p)

Spec == Init /\ [][Next]_vars

\* The Go scheduler runs every runnable goroutine; clients owe nothing.  A
\* client that reads again and again grants window that a blocked Send keeps,
\* so Send is strongly fair.
FairSpec ==
  /\ Spec
  /\ \A s \in Streams : WF_vars(Handler(s)) /\ SF_vars(Send(s))
  /\ \A p \in Pushes : WF_vars(Push(p)) /\ SF_vars(PushSend(p))

-----------------------------------------------------------------------------
(* Properties.                                                             *)

Cleaning == {"clean", "cleanRemove"}

\* The buckets for which s owns a reference in bucketRefs.
Held(s) ==
  CASE pc[s] = "none"     -> {}
    [] pc[s] = "ref"      -> subs[s] \ {cur[s]}
    [] pc[s] = "unref"    -> subs[s] \cup {cur[s]}
    [] pc[s] \in Cleaning -> cleaning[s]
    [] OTHER              -> subs[s]

Holders(k) == {s \in Streams : domain[s] = k[1] /\ k[2] \in Held(s)}

\* The bucket whose last reference s dropped and whose removal it owes.
Removing(s) == IF pc[s] \in {"remove", "cleanRemove"} THEN {cur[s]} ELSE {}

Removers(k) == {s \in Streams : domain[s] = k[1] /\ k[2] \in Removing(s)}

\* bucketRefs counts, for every scoped key and at every moment, exactly the
\* streams that own a reference to it: no path through handleMessage and
\* cleanupStream (a limit hit half way through a message, an abandon, an
\* engine error, a disconnect) leaks a reference or drops one twice.
RefCountExact == \A k \in Keys : bucketRefs[k] = Cardinality(Holders(k))

\* The store never keeps state of a bucket that nobody references and nobody
\* is about to remove: whatever way streams end, their buckets are deleted.
NoOrphanedState == \A k \in store : Holders(k) # {} \/ Removers(k) # {}

\* The buckets s is counted for in the gauge: an abandoned bucket counts until
\* its removal returned.
Counted(s) == IF pc[s] = "remove" THEN Held(s) \cup {cur[s]} ELSE Held(s)

CountedPairs(l) ==
  {sb \in Streams \X Buckets : metricDomain[sb[1]] = l /\ sb[2] \in Counted(sb[1])}

\* The rlqs_active_buckets gauge of a label is the number of subscriptions of
\* the streams bound under that label; the increment, the abandon and the
\* cleanup of one subscription all use the same label.
GaugeExact == \A l \in Labels : activeBuckets[l] = Cardinality(CountedPairs(l))

\* A stream never holds more subscriptions than the configured limit.
SubscriptionLimit ==
  MaxBucketsPerStream > 0 =>
    \A s \in Streams : Cardinality(subs[s]) <= MaxBucketsPerStream

\* A stream that is waiting for its next message.
Idle(s) == pc[s] = "recv" /\ live[s]

NoPushRunning == \A p \in Pushes : pushPc[p] \in {"idle", "done"}

\* Once the push goroutines are done, every idle stream has received an action
\* of the current engine for every bucket it subscribes to, whatever the order
\* of subscriptions, consultations, swaps and pushes (SwapEngine).
NoMissedPush ==
  NoPushRunning =>
    \A s \in Streams : Idle(s) =>
      \A b \in subs[s] : newest[s][b] = engine

\* The last action such a stream received for a bucket is of the current
\* engine: no older assignment overwrites it.
FreshAssignments ==
  NoPushRunning =>
    \A s \in Streams : Idle(s) =>
      \A b \in subs[s] : last[s][b] = engine

\* RlqsServer implements BucketLifecycle: seen through the references the
\* streams own, every step of the server is a step of the abstract protocol or
\* leaves it alone.
Lifecycle == INSTANCE BucketLifecycle WITH
  holders  <- [k \in Keys |-> Holders(k)],
  removers <- [k \in Keys |-> Removers(k)],
  state    <- store

\* Every behaviour of the server is one of the abstract reference protocol.
ImplementsLifecycle == Lifecycle!LifecycleSpec

\* A disconnected stream's handler returns, its references are released and
\* it leaves the set of registered streams.
CleanupCompletes ==
  \A s \in Streams :
    (pc[s] # "none" /\ ~live[s]) ~> (pc[s] = "none" /\ s \notin streams)

\* State of a bucket that no open stream references does not stay in the store.
OrphansRemoved ==
  \A k \in Keys : (k \in store /\ Holders(k) = {}) ~> (k \notin store \/ Holders(k) # {})

\* After a swap every subscription is answered with the new engine or a later
\* one, unless it ends first or a client does not read: pushAssignments sends to
\* one stream after the other, so a client that stops reading holds up the rest,
\* while an error on a stream does not.
SwapReachesSubscribers ==
  \A s \in Streams, b \in Buckets, v \in Engines :
    (engine = v /\ pc[s] # "none" /\ b \in subs[s])
      ~> (newest[s][b] >= v \/ b \notin subs[s] \/ ~live[s]
          \/ pc[s] = "none" \/ stalled # {})

=============================================================================
