--------------------------- MODULE RlqsPushProofs ---------------------------
(***************************************************************************)
(* Proofs about RlqsServer: a stream keeps to its subscription limit, and  *)
(* an engine swap misses no subscription, for any streams, buckets,        *)
(* messages and number of swaps.                                           *)
(*                                                                         *)
(* The argument for the second: a subscription whose client has not yet    *)
(* got an action of the current engine is either being answered by its     *)
(* handler, which has yet to load the engine or has loaded the current     *)
(* one, or it is still ahead of the push goroutine of the current engine.  *)
(* SwapEngine moves every subscription to the second case, since every     *)
(* active stream is registered.                                            *)
(***************************************************************************)
EXTENDS RlqsServerProofs

-----------------------------------------------------------------------------
(* Subscriptions.                                                          *)

Bounded(s) == MaxBucketsPerStream > 0 => Cardinality(subs[s]) <= MaxBucketsPerStream

\* The three ways a step may change the subscriptions of a stream.
SubsStep(s) ==
  \/ subs'[s] \subseteq subs[s]
  \/ ~AtLimit(s) /\ \E b \in Buckets : subs'[s] = subs[s] \cup {b}

\* A step of a stream changes its subscriptions in one of these ways, and those
\* of no other stream.
LEMMA SubsChange ==
  ASSUME TypeOK, NEW s \in Streams, Handler(s) \/ Client(s)
  PROVE  SubsStep(s)
<1> USE DEF serverVars, streamVars, SubsStep
<1>ty. subs \in [Streams -> SUBSET Buckets] BY DEF TypeOK
<1>1. CASE Subscribe(s)
  <2>1. Head(todo[s]) \in Buckets BY <1>1 DEF Subscribe
  <2>2. CASE subs' = subs BY <2>2
  <2>3. CASE ~AtLimit(s) /\ subs' = [subs EXCEPT ![s] = @ \cup {Head(todo[s])}]
    BY <2>1, <2>3, <1>ty, Zenon
  <2> QED BY <1>1, <2>2, <2>3 DEF Subscribe
<1>2. CASE \E b \in Buckets : Abandon(s, b)
  BY <1>2, <1>ty, ZenonT(60) DEF Abandon
<1>3. CASE Deregister(s) \/ Finish(s)
  <2>1. subs' = subs \/ subs' = [subs EXCEPT ![s] = {}]
    BY <1>3, Zenon DEF Deregister, Finish, Returned
  <2> QED BY <2>1, <1>ty, Zenon
<1>4. CASE \/ RecvError(s) \/ SkipUsage(s) \/ RejectUsage(s) \/ AddReference(s) \/ RecordUsage(s)
           \/ ConsultEngine(s) \/ Unreference(s) \/ RemoveAbandoned(s) \/ Send(s)
           \/ (\E b \in Buckets : Release(s, b)) \/ RemoveReleased(s)
  <2>1. subs' = subs
    BY <1>4, Zenon DEF RecvError, SkipUsage, RejectUsage, AddReference, RecordUsage, ConsultEngine,
      Unreference, RemoveAbandoned, Send, Release, RemoveReleased
  <2> QED BY <2>1
<1>5. CASE Client(s)
  <2>1. subs' = subs
    BY <1>5 DEF Client, Open, RecvEOF, Disconnect, Stall, Resume, Receive
  <2> QED BY <2>1
<1> QED BY <1>1, <1>2, <1>3, <1>4, <1>5, Zenon DEF Handler

\* A subscription is added only below the limit, so the limit is kept.
LEMMA BoundStep ==
  ASSUME TypeOK, NEW s \in Streams, Bounded(s), SubsStep(s)
  PROVE  Bounded(s)'
<1>1. IsFiniteSet(subs[s]) /\ Cardinality(subs[s]) \in Nat
  <2>1. subs[s] \subseteq Buckets /\ IsFiniteSet(Buckets)
    BY ConstantsAssumption DEF TypeOK
  <2> QED BY <2>1, FS_Subset, FS_CardinalityType, Zenon
<1>2. CASE subs'[s] \subseteq subs[s]
  <2>1. Cardinality(subs'[s]) <= Cardinality(subs[s]) /\ Cardinality(subs'[s]) \in Nat
    BY <1>1, <1>2, FS_Subset, FS_CardinalityType, Zenon
  <2> QED BY <1>1, <2>1, ConstantsAssumption DEF Bounded
<1>3. CASE ~AtLimit(s) /\ \E b \in Buckets : subs'[s] = subs[s] \cup {b}
  <2>1. PICK b \in Buckets : subs'[s] = subs[s] \cup {b} BY <1>3
  <2>2. IsFiniteSet(subs'[s])
        /\ \/ Cardinality(subs'[s]) = Cardinality(subs[s])
           \/ Cardinality(subs'[s]) = Cardinality(subs[s]) + 1
    <3>1. /\ IsFiniteSet(subs[s] \cup {b})
          /\ Cardinality(subs[s] \cup {b})
               = IF b \in subs[s] THEN Cardinality(subs[s]) ELSE Cardinality(subs[s]) + 1
      BY <1>1, FS_AddElement, Zenon
    <3> QED BY <2>1, <3>1
  <2> QED BY <1>1, <1>3, <2>2, ConstantsAssumption DEF Bounded, AtLimit
<1> QED BY <1>2, <1>3 DEF SubsStep

\* No stream ever holds more subscriptions than max_buckets_per_stream
\* (the comparison in handleMessage before the insertion).
THEOREM LimitKept == Spec => []SubscriptionLimit
<1>1. Init => SubscriptionLimit
  <2> SUFFICES ASSUME Init, MaxBucketsPerStream > 0, NEW s \in Streams
               PROVE Cardinality(subs[s]) <= MaxBucketsPerStream
    BY DEF SubscriptionLimit
  <2>1. subs[s] = {} BY DEF Init
  <2>2. Cardinality(subs[s]) = 0 BY <2>1, FS_EmptySet, Zenon
  <2> QED BY <2>2, ConstantsAssumption
<1>2. IInv /\ SubscriptionLimit /\ [Next]_vars => SubscriptionLimit'
  <2> SUFFICES ASSUME IInv, SubscriptionLimit, [Next]_vars, NEW t \in Streams
               PROVE  Bounded(t)'
    BY DEF SubscriptionLimit, Bounded
  <2>1. TypeOK /\ Bounded(t) BY DEF IInv, SubscriptionLimit, Bounded
  <2>2. CASE UNCHANGED vars BY <2>1, <2>2, Zenon DEF vars, streamVars, Bounded
  <2>3. CASE SwapEngine \/ \E p \in Pushes : Push(p)
    <3>1. subs' = subs BY <2>3, PushSilent, Zenon DEF streamVars
    <3> QED BY <2>1, <3>1, Zenon DEF Bounded
  <2>4. ASSUME NEW s \in Streams, Handler(s) \/ Client(s) PROVE Bounded(t)'
    <3>1. CASE s = t BY <2>1, <2>4, <3>1, SubsChange, BoundStep
    <3>2. CASE s # t
      <4>1. subs'[t] = subs[t] BY <2>1, <2>4, <3>2, OtherStreams, Zenon DEF SameStream
      <4> QED BY <2>1, <4>1, Zenon DEF Bounded
    <3> QED BY <3>1, <3>2
  <2> QED BY <2>2, <2>3, <2>4, Zenon DEF Next
<1> QED BY <1>1, <1>2, Invariance, PTL DEF Spec

-----------------------------------------------------------------------------
(* Pushes.                                                                 *)

Active == {"recv", "report", "ref", "record", "act", "unref", "remove"}

\* The handler of s will send an action of the current engine for b: it has yet
\* to load the engine, or has loaded the current one.
Answering(s, b) ==
  \/ pc[s] \in {"ref", "record"} /\ b = cur[s]
  \/ pc[s] \in {"report", "ref", "record"} /\ b \in reports[s]
  \/ pc[s] \in {"act", "unref", "remove"} /\ b \in reports[s] /\ eng[s] = engine

\* The push goroutine p has yet to send for b to s.
Ahead(p, s, b) ==
  \/ pushPc[p] = "snapshot" /\ s \in streams
  \/ pushPc[p] \in {"collect", "send"} /\ s \in pushQueue[p]
  \/ pushPc[p] = "send" /\ pushCur[p] = s /\ b \in pushBatch[p]

Pushing(s, b) == engine \in Pushes /\ Ahead(engine, s, b)

Served(s, b) == newest[s][b] = engine \/ Answering(s, b) \/ Pushing(s, b)

ServedOK(s) ==
  pc[s] \in Active =>
    s \in streams /\ (live[s] => \A b \in subs[s] : Served(s, b))

\* Nobody has seen an engine newer than the current one.
VersionOK ==
  /\ \A s \in Streams : eng[s] <= engine /\ \A b \in Buckets : newest[s][b] <= engine
  /\ \A p \in Pushes : pushPc[p] # "idle" => p <= engine

PInv == VersionOK /\ \A s \in Streams : ServedOK(s)

\* What the claims about a stream depend on, besides the engine and the pushes.
SameServed(t) ==
  /\ SameStream(t)
  /\ reports'[t] = reports[t] /\ eng'[t] = eng[t]
  /\ live'[t] = live[t] /\ newest'[t] = newest[t]
  /\ (t \in streams') <=> (t \in streams)

\* A step of one stream leaves the others as they are.
LEMMA OthersServed ==
  ASSUME TypeOK, NEW s \in Streams, Handler(s) \/ Client(s),
         NEW t \in Streams, t # s
  PROVE  SameServed(t)
<1> USE DEF serverVars, netVars, localVars, clientVars
<1>ty. /\ reports \in [Streams -> SUBSET Buckets] /\ eng \in [Streams -> Engines]
       /\ live \in [Streams -> BOOLEAN]
       /\ newest \in [Streams -> [Buckets -> Engines \cup {Never}]]
  BY DEF TypeOK
<1>1. reports'[t] = reports[t]
  <2>1. reports' = reports \/ \E R : reports' = [reports EXCEPT ![s] = R]
    BY ZenonT(60) DEF Handler, Client, Open, RecvEOF, RecvError, Disconnect, Stall, Resume,
       Receive, SkipUsage, RejectUsage, Subscribe, AddReference, RecordUsage, Return,
       ConsultEngine, Abandon, Unreference, RemoveAbandoned, Send, Deregister,
       Release, RemoveReleased, Finish
  <2> QED BY <2>1, <1>ty, Zenon
<1>2. eng'[t] = eng[t]
  <2>1. eng' = eng \/ \E R : eng' = [eng EXCEPT ![s] = R]
    BY ZenonT(60) DEF Handler, Client, Open, RecvEOF, RecvError, Disconnect, Stall, Resume,
       Receive, SkipUsage, RejectUsage, Subscribe, AddReference, RecordUsage, Return,
       ConsultEngine, Abandon, Unreference, RemoveAbandoned, Send, Deregister,
       Release, RemoveReleased, Finish
  <2> QED BY <2>1, <1>ty, Zenon
<1>3. live'[t] = live[t]
  <2>1. live' = live \/ \E R : live' = [live EXCEPT ![s] = R]
    BY ZenonT(60) DEF Handler, Client, Open, RecvEOF, RecvError, Disconnect, Stall, Resume,
       Receive, SkipUsage, RejectUsage, Subscribe, AddReference, RecordUsage, Returned,
       ConsultEngine, Abandon, Unreference, RemoveAbandoned, Send, Deregister,
       Release, RemoveReleased, Finish
  <2> QED BY <2>1, <1>ty, Zenon
<1>4. newest'[t] = newest[t]
  <2>1. newest' = newest \/ \E R : newest' = [newest EXCEPT ![s] = R]
    BY ZenonT(60) DEF Handler, Client, Open, RecvEOF, RecvError, Disconnect, Stall, Resume,
       Receive, SkipUsage, RejectUsage, Subscribe, AddReference, RecordUsage, Returned, Deliver,
       ConsultEngine, Abandon, Unreference, RemoveAbandoned, Send, Deregister,
       Release, RemoveReleased, Finish
  <2> QED BY <2>1, <1>ty, Zenon
<1>5. (t \in streams') <=> (t \in streams)
  <2>1. streams' = streams \/ streams' = streams \cup {s} \/ streams' = streams \ {s}
    BY ZenonT(60) DEF Handler, Client, Open, RecvEOF, RecvError, Disconnect, Stall, Resume,
       Receive, SkipUsage, RejectUsage, Subscribe, AddReference, RecordUsage,
       ConsultEngine, Abandon, Unreference, RemoveAbandoned, Send, Deregister,
       Release, RemoveReleased, Finish
  <2> QED BY <2>1
<1> QED BY <1>1, <1>2, <1>3, <1>4, <1>5, OtherStreams, Zenon DEF SameServed

\* A claim about a stream survives a step that changes neither the stream, nor
\* the engine, nor a push.
LEMMA ServedFrame ==
  ASSUME NEW t \in Streams, ServedOK(t), SameServed(t), UNCHANGED pushVars, engine' = engine
  PROVE  ServedOK(t)'
BY Zenon DEF ServedOK, Served, Answering, Pushing, Ahead, SameServed, SameStream, pushVars

\* A delivery of an engine up to the current one keeps what clients have seen
\* below the current one, and a delivery of the current one serves its buckets.
LEMMA DeliverServes ==
  ASSUME TypeOK, VersionOK, NEW s \in Streams, NEW B \in SUBSET Buckets,
         NEW v \in Engines, v <= engine, Deliver(s, B, v)
  PROVE  \A t \in Streams, b \in Buckets :
           /\ newest'[t][b] <= engine
           /\ newest[t][b] = engine => newest'[t][b] = engine
           /\ t = s /\ b \in B /\ v = engine => newest'[t][b] = engine
<1> SUFFICES ASSUME NEW t \in Streams, NEW b \in Buckets
             PROVE  /\ newest'[t][b] <= engine
                    /\ newest[t][b] = engine => newest'[t][b] = engine
                    /\ t = s /\ b \in B /\ v = engine => newest'[t][b] = engine
  OBVIOUS
<1>1. newest[t][b] \in Int /\ engine \in Int /\ v \in Int /\ newest[t][b] <= engine
  <2>1. newest[t] \in [Buckets -> Engines \cup {Never}] BY DEF TypeOK
  <2>2. newest[t][b] \in Engines \cup {Never} BY <2>1, Zenon
  <2>3. newest[t][b] <= engine BY DEF VersionOK
  <2> QED BY <2>2, <2>3, ConstantsAssumption DEF TypeOK, Engines, Never
<1>2. CASE t # s
  <2>1. newest'[t] = newest[t] BY <1>2 DEF TypeOK, Deliver
  <2> QED BY <1>1, <1>2, <2>1
<1>3. CASE t = s
  <2>1. newest'[t][b] = IF b \in B /\ v > newest[t][b] THEN v ELSE newest[t][b]
    BY <1>3, Zenon DEF TypeOK, Deliver
  <2> QED BY <1>1, <1>3, <2>1
<1> QED BY <1>2, <1>3

\* A step of a handler keeps the versions it has seen below the current one.
LEMMA StreamVersions ==
  ASSUME TypeOK, VersionOK, NEW s \in Streams, Handler(s) \/ Client(s)
  PROVE  VersionOK'
<1>1. UNCHANGED pushVars /\ engine' = engine BY StreamSteps
<1>2. engine \in Nat BY ConstantsAssumption DEF TypeOK, Engines
<1>3. \A t \in Streams : eng'[t] <= engine
  <2>1. eng' = eng \/ eng' = [eng EXCEPT ![s] = 0] \/ eng' = [eng EXCEPT ![s] = engine]
    BY ZenonT(60) DEF Handler, Client, Open, RecvEOF, RecvError, Disconnect, Stall, Resume,
       Receive, SkipUsage, RejectUsage, Subscribe, AddReference, RecordUsage, Return,
       ConsultEngine, Abandon, Unreference, RemoveAbandoned, Send, Deregister,
       Release, RemoveReleased, Finish, localVars
  <2> SUFFICES ASSUME NEW t \in Streams PROVE eng'[t] <= engine OBVIOUS
  <2>2. eng'[t] = 0 \/ eng'[t] = engine \/ eng'[t] = eng[t] BY <2>1, Zenon DEF TypeOK
  <2>3. eng[t] <= engine BY DEF VersionOK
  <2> QED BY SMTT(30), <1>2, <2>2, <2>3
<1>4. \A t \in Streams, b \in Buckets : newest'[t][b] <= engine
  <2>1. \/ newest' = newest
        \/ newest' = [newest EXCEPT ![s] = [b \in Buckets |-> Never]]
        \/ Deliver(s, reports[s], eng[s])
    BY ZenonT(60) DEF Handler, Client, Open, RecvEOF, RecvError, Disconnect, Stall, Resume,
       Receive, SkipUsage, RejectUsage, Subscribe, AddReference, RecordUsage, Returned,
       ConsultEngine, Abandon, Unreference, RemoveAbandoned, Send, Deregister,
       Release, RemoveReleased, Finish, clientVars
  <2>2. CASE newest' = newest BY <2>2 DEF VersionOK
  <2>3. CASE newest' = [newest EXCEPT ![s] = [b \in Buckets |-> Never]]
    <3> SUFFICES ASSUME NEW t \in Streams, NEW b \in Buckets PROVE newest'[t][b] <= engine
      OBVIOUS
    <3>1. newest'[t][b] = Never \/ newest'[t][b] = newest[t][b] BY <2>3, Zenon DEF TypeOK
    <3>2. newest[t][b] <= engine BY DEF VersionOK
    <3> QED BY <1>2, <3>1, <3>2 DEF Never
  <2>4. CASE Deliver(s, reports[s], eng[s])
    <3>1. reports[s] \in SUBSET Buckets /\ eng[s] \in Engines /\ eng[s] <= engine
      BY DEF TypeOK, VersionOK
    <3> QED BY <2>4, <3>1, DeliverServes
  <2> QED BY <2>1, <2>2, <2>3, <2>4
<1> QED BY <1>1, <1>3, <1>4, Zenon DEF VersionOK, pushVars

\* Steps of a stream that keep its subscriptions served: those of the client.
LEMMA ClientServed ==
  ASSUME TypeOK, ControlInv, NEW s \in Streams, ServedOK(s), Client(s)
  PROVE  ServedOK(s)'
<1> USE DEF serverVars, streamVars, netVars, localVars, pushVars, clientVars
<1>ty. /\ pc \in [Streams -> PC] /\ live \in [Streams -> BOOLEAN] BY DEF TypeOK
<1>p. UNCHANGED pushVars /\ engine' = engine BY StreamSteps, Zenon
<1>1. CASE Open(s)
  <2>1. subs'[s] = {} BY <1>1, Zenon DEF ControlInv, ControlOK, Open
  <2>2. s \in streams' BY <1>1 DEF Open
  <2> QED BY <2>1, <2>2, Zenon DEF ServedOK
<1>2. CASE RecvEOF(s)
  <2>1. pc'[s] \notin Active BY <1>2, <1>ty DEF RecvEOF, Goto, Active
  <2> QED BY <2>1, Zenon DEF ServedOK
<1>3. CASE Disconnect(s)
  <2>1. live'[s] = FALSE /\ UNCHANGED <<pc, streams>> BY <1>3, <1>ty DEF Disconnect
  <2> QED BY <2>1, Zenon DEF ServedOK
<1>4. CASE Stall(s) \/ Resume(s)
  <2>1. UNCHANGED <<pc, live, streams, subs, newest, cur, reports, eng>>
    BY <1>4, Zenon DEF Stall, Resume
  <2> QED BY <1>p, <2>1, Zenon DEF ServedOK, Served, Answering, Pushing, Ahead
<1>5. CASE \E m \in Messages : Receive(s, m)
  <2>1. pc[s] = "recv" /\ UNCHANGED <<live, streams, subs, newest>>
    BY <1>5, Zenon DEF Receive
  <2>2. s \in streams /\ (live[s] => \A b \in subs[s] : newest[s][b] = engine \/ Pushing(s, b))
    BY <2>1, Zenon DEF ServedOK, Served, Answering, Active
  <2>3. \A b \in subs[s] : Pushing(s, b) => Pushing(s, b)'
    BY <1>p, <2>1, Zenon DEF Pushing, Ahead
  <2> QED BY <1>p, <2>1, <2>2, <2>3, Zenon DEF ServedOK, Served
<1> QED BY <1>1, <1>2, <1>3, <1>4, <1>5, Zenon DEF Client

\* Steps of a handler: a subscription it has not answered yet stays its to answer
\* until it sends, with the engine it has loaded.
LEMMA HandlerServed ==
  ASSUME TypeOK, ControlInv, VersionOK, EngineMayFail = FALSE,
         NEW s \in Streams, ServedOK(s), Handler(s)
  PROVE  ServedOK(s)'
<1> USE DEF serverVars, streamVars, netVars, localVars, clientVars
<1>ty. /\ pc \in [Streams -> PC] /\ cur \in [Streams -> Buckets \cup {NoBucket}]
       /\ subs \in [Streams -> SUBSET Buckets] /\ reports \in [Streams -> SUBSET Buckets]
       /\ eng \in [Streams -> Engines]
  BY DEF TypeOK
<1>p. UNCHANGED pushVars /\ engine' = engine BY StreamSteps, Zenon
<1>q. streams' = streams => \A b \in Buckets : Pushing(s, b) => Pushing(s, b)'
  BY <1>p, Zenon DEF Pushing, Ahead, pushVars
<1>1. CASE RecvError(s) \/ RejectUsage(s) \/ (\E b \in Buckets : Release(s, b))
           \/ RemoveReleased(s)
  <2>1. pc'[s] \notin Active
    BY <1>1, <1>ty DEF RecvError, RejectUsage, Release, RemoveReleased, Return, Goto, Active
  <2> QED BY <2>1, Zenon DEF ServedOK
<1>2. CASE Deregister(s) \/ Finish(s)
  <2>1. pc'[s] \notin Active
    BY <1>2, <1>ty DEF Deregister, Finish, Returned, Goto, Active
  <2> QED BY <2>1, Zenon DEF ServedOK
<1>3. CASE SkipUsage(s)
  <2>1. UNCHANGED <<pc, live, streams, subs, newest, cur, reports, eng>>
    BY <1>3, Zenon DEF SkipUsage
  <2> QED BY <1>p, <2>1, Zenon DEF ServedOK, Served, Answering, Pushing, Ahead, pushVars
<1>4. CASE Subscribe(s)
  <2>1. /\ pc[s] = "report" /\ pc'[s] \in {"ref", "record"}
        /\ UNCHANGED <<live, streams, newest, reports, eng>>
    BY <1>4, <1>ty, Zenon DEF Subscribe, Goto
  <2>2. subs'[s] \subseteq subs[s] \cup {cur'[s]}
    <3>1. cur'[s] = Head(todo[s]) BY <1>4, <1>ty, Zenon DEF Subscribe
    <3>2. CASE subs' = subs BY <3>2
    <3>3. CASE subs' = [subs EXCEPT ![s] = @ \cup {Head(todo[s])}] BY <1>ty, <3>1, <3>3, Zenon
    <3> QED BY <1>4, <3>2, <3>3, Zenon DEF Subscribe
  <2>3. subs[s] \subseteq Buckets BY <1>ty
  <2>4. s \in streams /\ (live[s] => \A b \in subs[s] :
           newest[s][b] = engine \/ b \in reports[s] \/ Pushing(s, b))
    BY <2>1, Zenon DEF ServedOK, Served, Answering, Active
  <2> SUFFICES ASSUME live[s], NEW b \in subs'[s] PROVE Served(s, b)'
    BY <2>1, <2>4, Zenon DEF ServedOK
  <2>5. CASE b = cur'[s] BY <2>1, <2>5, Zenon DEF Served, Answering
  <2>6. CASE b \in subs[s]
    BY <1>p, <1>q, <2>1, <2>3, <2>4, <2>6, Zenon DEF Served, Answering
  <2> QED BY <2>2, <2>5, <2>6
<1>5. CASE AddReference(s)
  <2>1. /\ pc[s] = "ref" /\ pc'[s] = "record"
        /\ UNCHANGED <<live, streams, subs, newest, cur, reports, eng>>
    BY <1>5, <1>ty, Zenon DEF AddReference, Goto
  <2> QED BY <1>p, <2>1, Zenon DEF ServedOK, Served, Answering, Pushing, Ahead, pushVars, Active
<1>6. CASE RecordUsage(s)
  <2>1. /\ pc[s] = "record" /\ pc'[s] = "report" /\ reports'[s] = reports[s] \cup {cur[s]}
        /\ UNCHANGED <<live, streams, subs, newest, cur, eng>>
    BY <1>6, <1>ty, Zenon DEF RecordUsage, Goto
  <2> QED BY <1>p, <2>1, Zenon DEF ServedOK, Served, Answering, Pushing, Ahead, pushVars, Active
<1>7. CASE ConsultEngine(s)
  <2>1. pc[s] = "report" /\ UNCHANGED <<live, streams, subs, newest>>
    BY <1>7, Zenon DEF ConsultEngine
  <2>2. s \in streams /\ (live[s] => \A b \in subs[s] :
           newest[s][b] = engine \/ b \in reports[s] \/ Pushing(s, b))
    BY <2>1, Zenon DEF ServedOK, Served, Answering, Active
  <2>3. subs[s] \subseteq Buckets BY <1>ty
  <2>4. CASE reports[s] = {}
    BY <1>p, <1>q, <2>1, <2>2, <2>3, <2>4, Zenon DEF ServedOK, Served
  <2>5. CASE reports[s] # {} /\ pc'[s] = "act" /\ eng'[s] = engine /\ reports' = reports
    BY <1>p, <1>q, <2>1, <2>2, <2>3, <2>5, Zenon DEF ServedOK, Served, Answering
  <2> QED BY <1>7, <1>ty, <2>4, <2>5, Zenon DEF ConsultEngine, Goto
<1>8. CASE \E b \in Buckets : Abandon(s, b)
  <2>1. /\ pc[s] = "act" /\ pc'[s] \in {"act", "unref"} /\ subs'[s] \subseteq subs[s]
        /\ UNCHANGED <<live, streams, newest, reports, eng>>
    BY <1>8, <1>ty DEF Abandon, Goto
  <2> QED BY <1>p, <2>1, Zenon DEF ServedOK, Served, Answering, Pushing, Ahead, pushVars, Active
<1>9. CASE Unreference(s) \/ RemoveAbandoned(s)
  <2>1. /\ pc[s] \in {"unref", "remove"} /\ pc'[s] \in {"act", "remove"}
        /\ UNCHANGED <<live, streams, subs, newest, cur, reports, eng>>
    BY <1>9, <1>ty, Zenon DEF Unreference, RemoveAbandoned, Goto
  <2> QED BY <1>p, <2>1, Zenon DEF ServedOK, Served, Answering, Pushing, Ahead, pushVars, Active
<1>10. CASE Send(s)
  <2>1. pc[s] = "act" /\ UNCHANGED <<live, streams, subs>> BY <1>10, Zenon DEF Send
  <2>2. CASE ~live[s] BY <2>1, <2>2, Zenon DEF ServedOK, Active
  <2>3. CASE live[s] /\ Deliver(s, reports[s], eng[s])
    <3>1. reports[s] \in SUBSET Buckets /\ eng[s] \in Engines /\ eng[s] <= engine
      BY <1>ty DEF VersionOK
    <3>2. \A b \in Buckets : /\ newest[s][b] = engine => newest'[s][b] = engine
                             /\ b \in reports[s] /\ eng[s] = engine => newest'[s][b] = engine
      BY <2>3, <3>1, DeliverServes
    <3>3. subs[s] \subseteq Buckets BY <1>ty
    <3>4. s \in streams /\ \A b \in subs[s] :
             newest[s][b] = engine \/ (b \in reports[s] /\ eng[s] = engine) \/ Pushing(s, b)
      BY <2>1, <2>3, Zenon DEF ServedOK, Served, Answering, Active
    <3> QED BY <1>p, <1>q, <2>1, <3>2, <3>3, <3>4, Zenon DEF ServedOK, Served
  <2> QED BY <1>10, <2>2, <2>3, Zenon DEF Send
<1> QED BY <1>1, <1>2, <1>3, <1>4, <1>5, <1>6, <1>7, <1>8, <1>9, <1>10, Zenon DEF Handler

\* A swap puts every subscription of a registered stream ahead of the new push.
LEMMA SwapServed == ASSUME TypeOK, PInv, SwapEngine PROVE PInv'
<1>1. /\ engine \in Nat /\ engine' = engine + 1 /\ engine' \in Pushes
      /\ pushPc' = [pushPc EXCEPT ![engine + 1] = "snapshot"]
  BY ConstantsAssumption DEF SwapEngine, TypeOK, Engines, Pushes
<1>2. UNCHANGED <<streams, pc, subs, live, eng, newest>>
  BY DEF SwapEngine, streamVars, netVars, localVars, clientVars
<1>3. pushPc'[engine'] = "snapshot" BY <1>1 DEF TypeOK
<1>4. \A s \in Streams : ServedOK(s)'
  BY <1>1, <1>2, <1>3, Zenon DEF PInv, ServedOK, Served, Pushing, Ahead
<1>5. VersionOK'
  <2>1. ASSUME NEW s \in Streams
        PROVE  eng'[s] <= engine' /\ \A b \in Buckets : newest'[s][b] <= engine'
    <3>1. eng[s] \in Engines BY DEF TypeOK
    <3>2. eng[s] <= engine + 1 BY <1>1, <3>1, ConstantsAssumption DEF PInv, VersionOK, Engines
    <3>3. ASSUME NEW b \in Buckets PROVE newest[s][b] <= engine + 1
      <4>1. newest[s] \in [Buckets -> Engines \cup {Never}] BY DEF TypeOK
      <4>2. newest[s][b] \in Engines \cup {Never} BY <4>1, Zenon
      <4>3. newest[s][b] <= engine BY DEF PInv, VersionOK
      <4> QED BY <1>1, <4>2, <4>3, ConstantsAssumption DEF Engines, Never
    <3> QED BY <1>1, <1>2, <3>2, <3>3
  <2>2. ASSUME NEW p \in Pushes, pushPc'[p] # "idle" PROVE p <= engine'
    <3>1. p \in Int BY DEF Pushes
    <3>2. p = engine + 1 \/ pushPc'[p] = pushPc[p] BY <1>1, Zenon DEF TypeOK
    <3>3. pushPc[p] # "idle" => p <= engine BY DEF PInv, VersionOK
    <3> QED BY <1>1, <2>2, <3>1, <3>2, <3>3
  <2> QED BY <2>1, <2>2 DEF VersionOK
<1> QED BY <1>4, <1>5 DEF PInv

\* What a push of the current engine takes off its list it collects, and what it
\* has collected it sends; a push of an older engine takes nothing away.
LEMMA PushServed ==
  ASSUME TypeOK, ControlInv, PInv, EngineMayFail = FALSE, NEW p \in Pushes, Push(p)
  PROVE  PInv'
<1> USE DEF serverVars, streamVars, netVars, localVars, clientVars
<1>ty. /\ pushPc \in [Pushes -> PushPC] /\ pushQueue \in [Pushes -> SUBSET Streams]
       /\ pushCur \in [Pushes -> Streams \cup {NoStream}]
       /\ pushBatch \in [Pushes -> SUBSET Buckets]
       /\ subs \in [Streams -> SUBSET Buckets]
  BY DEF TypeOK
<1>u. UNCHANGED <<streams, engine, pc, subs, live, cur, reports, eng>>
  BY Zenon DEF Push, PushSnapshot, PushCollect, PushSend, PushDone
<1>i. pushPc[p] # "idle" /\ p <= engine
  <2>1. pushPc[p] # "idle" BY Zenon DEF Push, PushSnapshot, PushCollect, PushSend, PushDone
  <2> QED BY <2>1 DEF PInv, VersionOK
<1>n. \/ newest' = newest
      \/ /\ pushCur[p] \in Streams /\ Deliver(pushCur[p], pushBatch[p], p)
         /\ pushPc[p] = "send"
  BY Zenon DEF Push, PushSnapshot, PushCollect, PushSend, PushDone, ControlInv, PushOK
<1>dl. ASSUME pushCur[p] \in Streams, Deliver(pushCur[p], pushBatch[p], p)
       PROVE  \A t \in Streams, b \in Buckets :
                /\ newest'[t][b] <= engine
                /\ newest[t][b] = engine => newest'[t][b] = engine
                /\ t = pushCur[p] /\ b \in pushBatch[p] /\ p = engine => newest'[t][b] = engine
  <2>1. p \in Engines /\ pushBatch[p] \in SUBSET Buckets BY <1>ty, ConstantFacts
  <2> QED BY <1>i, <1>dl, <2>1, DeliverServes, Zenon DEF PInv
<1>k. \A s \in Streams : \A b \in subs[s] : newest[s][b] = engine => newest'[s][b] = engine
  BY <1>n, <1>dl, <1>ty, Zenon
<1>v. VersionOK'
  <2>1. \A s \in Streams, b \in Buckets : newest'[s][b] <= engine
    BY <1>n, <1>dl DEF PInv, VersionOK
  <2>2. \A q \in Pushes : q # p => pushPc'[q] = pushPc[q]
    BY <1>ty, Zenon DEF Push, PushSnapshot, PushCollect, PushSend, PushDone
  <2> QED BY <1>u, <1>i, <2>1, <2>2, Zenon DEF PInv, VersionOK
<1>s. ASSUME \A s \in Streams : live[s] => \A b \in subs[s] :
               Pushing(s, b) => newest'[s][b] = engine \/ Pushing(s, b)'
      PROVE  \A s \in Streams : ServedOK(s)'
  BY <1>u, <1>k, <1>s, Zenon DEF PInv, ServedOK, Served, Answering
<1> SUFFICES ASSUME NEW s \in Streams, live[s], NEW b \in subs[s], Pushing(s, b)
             PROVE  newest'[s][b] = engine \/ Pushing(s, b)'
  BY <1>v, <1>s, Zenon DEF PInv
<1>b. b \in Buckets /\ domain[s] # NoDomain /\ subs[s] # {}
  BY <1>ty, Zenon DEF ControlInv, ControlOK
<1>1. CASE p # engine
  <2>1. /\ pushPc'[engine] = pushPc[engine] /\ pushQueue'[engine] = pushQueue[engine]
        /\ pushCur'[engine] = pushCur[engine] /\ pushBatch'[engine] = pushBatch[engine]
    BY <1>1, <1>ty, Zenon DEF Push, PushSnapshot, PushCollect, PushSend, PushDone, Pushing
  <2> QED BY <1>u, <2>1, Zenon DEF Pushing, Ahead
<1>2. CASE p = engine
  <2>a. Ahead(p, s, b) BY <1>2 DEF Pushing
  <2> SUFFICES newest'[s][b] = engine \/ Ahead(p, s, b)' BY <1>u, <1>2, Zenon DEF Pushing
  <2>1. CASE PushSnapshot(p)
    <3>1. s \in streams BY <2>1, <2>a, Zenon DEF PushSnapshot, Ahead
    <3>2. pushPc'[p] = "collect" /\ pushQueue'[p] = streams
      BY <2>1, <1>ty, Zenon DEF PushSnapshot
    <3> QED BY <3>1, <3>2, Zenon DEF Ahead
  <2>2. ASSUME NEW t \in Streams, PushCollect(p, t) PROVE Ahead(p, s, b)'
    <3>1. s \in pushQueue[p] BY <2>2, <2>a, Zenon DEF PushCollect, Ahead
    <3>2. pushQueue'[p] = pushQueue[p] \ {t} /\ pushPc'[p] \in {"collect", "send"}
      BY <2>2, <1>ty, Zenon DEF PushCollect
    <3>3. CASE s # t BY <3>1, <3>2, <3>3 DEF Ahead
    <3>4. CASE s = t
      <4>1. pushPc'[p] = "send" /\ pushCur'[p] = s /\ pushBatch'[p] = subs[s]
        BY <2>2, <3>4, <1>ty, <1>b, Zenon DEF PushCollect
      <4> QED BY <4>1, Zenon DEF Ahead
    <3> QED BY <3>3, <3>4
  <2>3. CASE PushSend(p)
    <3>1. pushPc'[p] = "collect" /\ UNCHANGED pushQueue BY <2>3, <1>ty, Zenon DEF PushSend
    <3>2. CASE s \in pushQueue[p] BY <3>1, <3>2, Zenon DEF Ahead
    <3>3. CASE pushCur[p] = s /\ b \in pushBatch[p]
      <4>1. Deliver(pushCur[p], pushBatch[p], p) BY <2>3, <3>3, Zenon DEF PushSend
      <4> QED BY <1>2, <1>b, <3>3, <4>1, <1>dl, Zenon
    <3> QED BY <2>3, <2>a, <3>2, <3>3, Zenon DEF PushSend, Ahead
  <2>4. CASE PushDone(p) BY <2>4, <2>a, Zenon DEF PushDone, Ahead
  <2> QED BY <2>1, <2>2, <2>3, <2>4, Zenon DEF Push
<1> QED BY <1>1, <1>2

\* Once the pushes are done every idle stream has an action of the current engine
\* for each of its buckets, whatever the order of subscriptions, consultations,
\* swaps and pushes, provided the engine returns no error (SwapEngine,
\* pushAssignments, handleMessage).
THEOREM NoPushIsMissed == EngineMayFail = FALSE => (Spec => []NoMissedPush)
<1> SUFFICES ASSUME EngineMayFail = FALSE PROVE Spec => []NoMissedPush BY Zenon
<1>1. Init => PInv
  <2> SUFFICES ASSUME Init PROVE PInv OBVIOUS
  <2>1. \A s \in Streams : ServedOK(s) BY DEF Init, ServedOK, Active
  <2>2. VersionOK BY ConstantsAssumption DEF Init, VersionOK, Never
  <2> QED BY <2>1, <2>2 DEF PInv
<1>2. IInv /\ PInv /\ [Next]_vars => PInv'
  <2> SUFFICES ASSUME IInv, PInv, [Next]_vars PROVE PInv' OBVIOUS
  <2>1. TypeOK /\ ControlInv BY DEF IInv
  <2>2. CASE UNCHANGED vars
    BY <2>2, ZenonT(60) DEF vars, serverVars, streamVars, netVars, localVars, pushVars, clientVars,
      PInv, VersionOK, ServedOK, Served, Answering, Pushing, Ahead
  <2>3. CASE SwapEngine BY <2>1, <2>3, SwapServed
  <2>4. CASE \E p \in Pushes : Push(p) BY <2>1, <2>4, PushServed, Zenon
  <2>5. ASSUME NEW s \in Streams, Handler(s) \/ Client(s) PROVE PInv'
    <3>1. VersionOK' BY <2>1, <2>5, StreamVersions DEF PInv
    <3>2. ServedOK(s)' BY <2>1, <2>5, HandlerServed, ClientServed, Zenon DEF PInv
    <3>3. ASSUME NEW t \in Streams, t # s PROVE ServedOK(t)'
      <4>1. SameServed(t) BY <2>1, <2>5, <3>3, OthersServed, Zenon
      <4>2. UNCHANGED pushVars /\ engine' = engine BY <2>5, StreamSteps, Zenon
      <4>3. ServedOK(t) BY DEF PInv
      <4> QED BY <4>1, <4>2, <4>3, ServedFrame
    <3> QED BY <3>1, <3>2, <3>3, Zenon DEF PInv
  <2> QED BY <2>2, <2>3, <2>4, <2>5, Zenon DEF Next
<1>3. IInv /\ PInv => NoMissedPush
  <2> SUFFICES ASSUME PInv, NoPushRunning, NEW s \in Streams, Idle(s), NEW b \in subs[s]
               PROVE  newest[s][b] = engine
    BY Zenon DEF NoMissedPush
  <2>1. Served(s, b) BY Zenon DEF PInv, ServedOK, Idle, Active
  <2>2. ~Answering(s, b) BY Zenon DEF Answering, Idle
  <2>3. ~Pushing(s, b) BY Zenon DEF NoPushRunning, Pushing, Ahead
  <2> QED BY <2>1, <2>2, <2>3 DEF Served
<1> QED BY <1>1, <1>2, <1>3, Invariance, PTL DEF Spec

=============================================================================
