-------------------------- MODULE RlqsServerProofs --------------------------
(***************************************************************************)
(* Proofs about RlqsServer, for any finite sets of streams and buckets,    *)
(* any domains, messages, limits and number of engine swaps.               *)
(*                                                                         *)
(* The argument: ControlInv says what a handler's program counter implies  *)
(* about its stream.  From it every step of the server is one of five      *)
(* kinds (StepKinds): it leaves the references alone, or it acquires,      *)
(* records under, releases or removes for one stream and one key.  The     *)
(* count of references, the absence of orphaned state and the refinement   *)
(* of BucketLifecycle all follow from the kinds.                           *)
(***************************************************************************)
EXTENDS RlqsServer, FiniteSetTheorems, TLAPS

\* What the place of a handler implies about its stream.
ControlOK(s) ==
  /\ pc[s] \notin {"none", "recv", "cleanup"} => domain[s] # NoDomain
  /\ domain[s] = NoDomain => subs[s] = {}
  /\ pc[s] = "none" => subs[s] = {}
  /\ pc[s] \in {"ref", "record"} => cur[s] \in subs[s] /\ todo[s] # <<>>
  /\ pc[s] \in {"unref", "remove"} => cur[s] \in Buckets \ subs[s]
  /\ pc[s] = "cleanRemove" => cur[s] \in Buckets \ cleaning[s]

PushOK(p) == pushPc[p] = "send" => pushCur[p] \in Streams

ControlInv ==
  /\ \A s \in Streams : ControlOK(s)
  /\ \A p \in Pushes : PushOK(p)

\* The part of it that says nothing about what is in the store.
LocalInv == TypeOK /\ ControlInv /\ RefCountExact

\* The inductive invariant.
IInv == TypeOK /\ ControlInv /\ RefCountExact /\ NoOrphanedState

-----------------------------------------------------------------------------
(* Type correctness.                                                       *)

\* A delivery (Send to a client) keeps the records of received versions in their
\* type.
LEMMA DeliverType ==
  ASSUME TypeOK, NEW s \in Streams, NEW B \in SUBSET Buckets, NEW v \in Engines,
         Deliver(s, B, v)
  PROVE  /\ newest' \in [Streams -> [Buckets -> Engines \cup {Never}]]
         /\ last' \in [Streams -> [Buckets -> Engines \cup {Never}]]
<1>1. newest[s] \in [Buckets -> Engines \cup {Never}]
      /\ last[s] \in [Buckets -> Engines \cup {Never}]
  BY DEF TypeOK
<1>2. [b \in Buckets |-> IF b \in B /\ v > newest[s][b] THEN v ELSE newest[s][b]]
        \in [Buckets -> Engines \cup {Never}]
  BY <1>1
<1>3. [b \in Buckets |-> IF b \in B THEN v ELSE last[s][b]]
        \in [Buckets -> Engines \cup {Never}]
  BY <1>1
<1> QED
  BY <1>2, <1>3 DEF TypeOK, Deliver

\* Facts about the constants and the current key used by the type proofs.
LEMMA ConstantFacts ==
  /\ 0 \in Engines
  /\ <<>> \in Seq(Reports)
  /\ UnknownDomain \in Labels
  /\ \A d \in Domains : Classify(d) \subseteq Labels
  /\ \A p \in Pushes : p \in Engines
BY ConstantsAssumption DEF Engines, Reports, Labels, Classify, Pushes

\* The rest of a message is a sequence of usages again.
LEMMA TailType ==
  ASSUME NEW q \in Seq(Reports), q # <<>>
  PROVE  Head(q) \in Reports /\ Tail(q) \in Seq(Reports)
OBVIOUS

\* The key a handler is working on is a scoped key once its domain is bound.
LEMMA CurKeyType ==
  ASSUME TypeOK, ControlInv, NEW s \in Streams,
         pc[s] \in {"ref", "record", "unref", "remove", "cleanRemove"}
  PROVE  CurKey(s) \in Keys
<1>1. domain[s] \in Domains /\ cur[s] \in Buckets
  BY ZenonT(60) DEF TypeOK, ControlInv, ControlOK
<1> QED
  BY <1>1 DEF CurKey, DomainScopedKey, Keys

\* Dropping a reference (bucketRefs under s.mu) keeps the counts natural numbers.
LEMMA DropReferenceType ==
  ASSUME TypeOK, NEW k \in Keys, DropReference(k)
  PROVE  bucketRefs' \in [Keys -> Nat]
<1>1. bucketRefs \in [Keys -> Nat] /\ bucketRefs[k] \in Nat
  BY DEF TypeOK
<1>2. (IF LastReference(k) THEN 0 ELSE bucketRefs[k] - 1) \in Nat
  BY <1>1 DEF LastReference
<1> QED
  BY <1>1, <1>2 DEF DropReference

\* A handler step keeps every variable in its type.
LEMMA HandlerType ==
  ASSUME TypeOK, ControlInv, NEW s \in Streams, Handler(s)
  PROVE  TypeOK'
<1> USE DEF serverVars, streamVars, netVars, localVars, pushVars, clientVars
<1>ty. /\ pc \in [Streams -> PC]
       /\ subs \in [Streams -> SUBSET Buckets]
       /\ cur \in [Streams -> Buckets \cup {NoBucket}]
       /\ reports \in [Streams -> SUBSET Buckets]
       /\ abandoned \in [Streams -> SUBSET Buckets]
       /\ cleaning \in [Streams -> SUBSET Buckets]
       /\ todo \in [Streams -> Seq(Reports)]
       /\ eng \in [Streams -> Engines]
       /\ engine \in Engines
       /\ activeBuckets \in [Labels -> Int]
  BY DEF TypeOK
<1>c. pc[s] = "record" => cur[s] \in Buckets /\ todo[s] # <<>>
  BY DEF TypeOK, ControlInv, ControlOK
<1>n. [b \in Buckets |-> Never] \in [Buckets -> Engines \cup {Never}]
  OBVIOUS
<1>t. todo[s] # <<>> => Head(todo[s]) \in Reports /\ Tail(todo[s]) \in Seq(Reports)
  BY TailType DEF TypeOK
<1>1. CASE RecvError(s)
  BY <1>1 DEF TypeOK, RecvError, Goto, PC
<1>2. CASE SkipUsage(s)
  BY <1>2, <1>t DEF TypeOK, SkipUsage
<1>3. CASE RejectUsage(s)
  BY <1>3, ConstantFacts DEF TypeOK, RejectUsage, Return, Goto, PC
<1>4. CASE Subscribe(s)
  <2>1. pc' \in [Streams -> PC]
    BY <1>4, <1>ty, ZenonT(60) DEF Subscribe, Goto, PC
  <2>2. cur' \in [Streams -> Buckets \cup {NoBucket}]
    BY <1>4, <1>ty, <1>t DEF Subscribe
  <2>3. subs' \in [Streams -> SUBSET Buckets]
    <3>1. subs' = subs \/ subs' = [subs EXCEPT ![s] = @ \cup {Head(todo[s])}]
      BY <1>4 DEF Subscribe
    <3>2. subs \in [Streams -> SUBSET Buckets] /\ Head(todo[s]) \in Buckets
      BY <1>4, <1>ty DEF Subscribe
    <3> QED
      BY <3>1, <3>2
  <2> QED
    BY <1>4, <2>1, <2>2, <2>3 DEF TypeOK, Subscribe
<1>5. CASE AddReference(s)
  BY <1>5, CurKeyType DEF TypeOK, AddReference, Goto, PC
<1>6. CASE RecordUsage(s)
  BY <1>6, CurKeyType, <1>t, <1>c DEF TypeOK, RecordUsage, Goto, PC
<1>7. CASE ConsultEngine(s)
  <2>1. pc' \in [Streams -> PC]
    BY <1>7, <1>ty, ZenonT(60) DEF ConsultEngine, Return, Goto, PC
  <2>2. todo' \in [Streams -> Seq(Reports)]
    BY <1>7, <1>ty, ConstantFacts DEF ConsultEngine, Return
  <2>3. reports' \in [Streams -> SUBSET Buckets]
    BY <1>7, <1>ty, ConstantFacts, ZenonT(60) DEF ConsultEngine, Return
  <2>4. cur' \in [Streams -> Buckets \cup {NoBucket}]
    BY <1>7, <1>ty, ConstantFacts, ZenonT(60) DEF ConsultEngine, Return
  <2>5. eng' \in [Streams -> Engines]
    BY <1>7, <1>ty, ConstantFacts, ZenonT(60) DEF ConsultEngine, Return
  <2>6. abandoned' \in [Streams -> SUBSET Buckets]
    BY <1>7, <1>ty, ConstantsAssumption, ZenonT(60) DEF ConsultEngine, Return
  <2> QED
    BY <1>7, <2>1, <2>2, <2>3, <2>4, <2>5, <2>6, ZenonT(60) DEF TypeOK, ConsultEngine
<1>8. ASSUME NEW b \in Buckets, Abandon(s, b)
      PROVE  TypeOK'
  <2>1. pc' \in [Streams -> PC]
    BY <1>8, <1>ty DEF Abandon, Goto, PC
  <2>2. subs' \in [Streams -> SUBSET Buckets]
    BY <1>8, <1>ty DEF Abandon
  <2>3. cur' \in [Streams -> Buckets \cup {NoBucket}]
    BY <1>8, <1>ty DEF Abandon
  <2>4. abandoned' \in [Streams -> SUBSET Buckets]
    BY <1>8, <1>ty DEF Abandon
  <2> QED
    BY <1>8, <2>1, <2>2, <2>3, <2>4 DEF TypeOK, Abandon
<1>9. CASE Unreference(s)
  <2>1. bucketRefs' \in [Keys -> Nat]
    BY <1>9, CurKeyType, DropReferenceType DEF Unreference
  <2>2. pc' \in [Streams -> PC]
    BY <1>9, <1>ty, ZenonT(60) DEF Unreference, Goto, PC
  <2>3. activeBuckets' \in [Labels -> Int]
    BY <1>9, <1>ty DEF Unreference
  <2> QED
    BY <1>9, <2>1, <2>2, <2>3 DEF TypeOK, Unreference
<1>10. CASE RemoveAbandoned(s)
  BY <1>10 DEF TypeOK, RemoveAbandoned, Goto, PC
<1>11. CASE Send(s)
  <2>1. pc' \in [Streams -> PC]
    <3>1. pc' = [pc EXCEPT ![s] = "recv"] \/ pc' = [pc EXCEPT ![s] = "cleanup"]
      BY <1>11 DEF Send, Return, Goto
    <3> QED
      BY <1>ty, <3>1, ZenonT(60) DEF PC
  <2>2. newest' \in [Streams -> [Buckets -> Engines \cup {Never}]]
    BY <1>11, <1>ty, DeliverType, ZenonT(60) DEF Send, TypeOK
  <2>3. last' \in [Streams -> [Buckets -> Engines \cup {Never}]]
    BY <1>11, <1>ty, DeliverType, ZenonT(60) DEF Send, TypeOK
  <2>4. todo' \in [Streams -> Seq(Reports)]
    BY <1>11, <1>ty, ConstantFacts, ZenonT(60) DEF Send, Return
  <2>5. reports' \in [Streams -> SUBSET Buckets]
    BY <1>11, <1>ty, ConstantFacts, ZenonT(60) DEF Send, Return
  <2>6. cur' \in [Streams -> Buckets \cup {NoBucket}]
    BY <1>11, <1>ty, ConstantFacts DEF Send, Return
  <2>7. eng' \in [Streams -> Engines]
    BY <1>11, <1>ty, ConstantFacts, ZenonT(60) DEF Send, Return
  <2>8. abandoned' \in [Streams -> SUBSET Buckets]
    BY <1>11, <1>ty, ConstantFacts, ZenonT(60) DEF Send, Return
  <2> QED
    BY <1>11, <2>1, <2>2, <2>3, <2>4, <2>5, <2>6, <2>7, <2>8 DEF TypeOK, Send
<1>12. CASE Deregister(s)
  <2>1. streams' \subseteq Streams
    BY <1>12 DEF TypeOK, Deregister
  <2>2. CASE domain[s] = NoDomain /\ Returned(s) /\ UNCHANGED cleaning
    <3>1. pc' \in [Streams -> PC] /\ cur' \in [Streams -> Buckets \cup {NoBucket}]
      BY <2>2, <1>ty DEF Returned, Goto, PC
    <3>2. subs' \in [Streams -> SUBSET Buckets]
      BY <2>2, <1>ty DEF Returned
    <3>3. /\ live' \in [Streams -> BOOLEAN]
          /\ stalled' \subseteq Streams
          /\ domain' \in [Streams -> Domains \cup {NoDomain}]
          /\ metricDomain' \in [Streams -> Labels]
      BY <2>2, ConstantFacts DEF TypeOK, Returned
    <3>4. /\ newest' \in [Streams -> [Buckets -> Engines \cup {Never}]]
          /\ last' \in [Streams -> [Buckets -> Engines \cup {Never}]]
      BY <2>2, <1>n, ZenonT(60) DEF TypeOK, Returned
    <3> QED
      BY <1>12, <2>1, <2>2, <3>1, <3>2, <3>3, <3>4 DEF TypeOK, Deregister
  <2>3. CASE /\ Goto(s, "clean")
             /\ cleaning' = [cleaning EXCEPT ![s] = subs[s]]
             /\ UNCHANGED <<streamVars, netVars, cur, clientVars>>
    <3>1. pc' \in [Streams -> PC]
      BY <2>3, <1>ty DEF Goto, PC
    <3>2. cleaning' \in [Streams -> SUBSET Buckets]
      BY <2>3, <1>ty
    <3> QED
      BY <1>12, <2>1, <2>3, <3>1, <3>2 DEF TypeOK, Deregister
  <2> QED
    BY <1>12, <2>2, <2>3 DEF Deregister
<1>13. ASSUME NEW b \in Buckets, Release(s, b)
       PROVE  TypeOK'
  <2>1. DomainScopedKey(domain[s], b) \in Keys
    BY <1>13, ZenonT(60) DEF TypeOK, ControlInv, ControlOK, Release, Keys, DomainScopedKey
  <2>2. bucketRefs' \in [Keys -> Nat]
    BY <1>13, <2>1, DropReferenceType, ZenonT(60) DEF Release
  <2>3. pc' \in [Streams -> PC]
    BY <1>13, <1>ty DEF Release, Goto, PC
  <2>4. activeBuckets' \in [Labels -> Int]
    <3>1. activeBuckets' = [activeBuckets EXCEPT ![metricDomain[s]] = @ - 1]
      BY <1>13 DEF Release
    <3>2. activeBuckets \in [Labels -> Int] /\ metricDomain[s] \in Labels
      BY ZenonT(60) DEF TypeOK
    <3> QED
      BY <3>1, <3>2
  <2>5. cleaning' \in [Streams -> SUBSET Buckets]
    BY <1>13, <1>ty, ZenonT(60) DEF Release
  <2>6. cur' \in [Streams -> Buckets \cup {NoBucket}]
    BY <1>13, <1>ty DEF Release
  <2> QED
    BY <1>13, <2>2, <2>3, <2>4, <2>5, <2>6, ZenonT(60) DEF TypeOK, Release
<1>14. CASE RemoveReleased(s)
  BY <1>14, ZenonT(60) DEF TypeOK, RemoveReleased, Goto, PC
<1>15. CASE Finish(s)
  BY <1>15, ConstantFacts, <1>n DEF TypeOK, Finish, Returned, Goto, PC
<1> QED
  BY <1>1, <1>2, <1>3, <1>4, <1>5, <1>6, <1>7, <1>8, <1>9, <1>10, <1>11, <1>12, <1>13, <1>14, <1>15 DEF Handler

\* So does a step of a client.
LEMMA ClientType ==
  ASSUME TypeOK, NEW s \in Streams, Client(s)
  PROVE  TypeOK'
<1> USE DEF serverVars, streamVars, netVars, localVars, pushVars, clientVars
<1>1. CASE Open(s)
  BY <1>1 DEF TypeOK, Open, Goto, PC
<1>2. CASE RecvEOF(s)
  BY <1>2 DEF TypeOK, RecvEOF, Goto, PC
<1>3. CASE Disconnect(s)
  BY <1>3 DEF TypeOK, Disconnect
<1>4. CASE Stall(s)
  BY <1>4 DEF TypeOK, Stall
<1>5. CASE Resume(s)
  BY <1>5, ZenonT(60) DEF TypeOK, Resume
<1>6. ASSUME NEW m \in Messages, Receive(s, m)
      PROVE  TypeOK'
  <2>1. m.domain \in Domains \cup {NoDomain} /\ m.usages \in Seq(Reports)
    BY ConstantsAssumption DEF Message
  <2>2. BoundDomain(s, m) \in Domains \cup {NoDomain}
    BY <2>1, ZenonT(60) DEF BoundDomain, TypeOK
  <2>3. /\ pc' \in [Streams -> PC]
        /\ todo' \in [Streams -> Seq(Reports)]
    BY <1>6, <2>1, ZenonT(60) DEF TypeOK, Receive, Goto, PC
  <2>4. domain' \in [Streams -> Domains \cup {NoDomain}]
    BY <1>6, <2>2, ZenonT(60) DEF TypeOK, Receive
  <2>5. metricDomain' \in [Streams -> Labels]
    <3>1. metricDomain \in [Streams -> Labels]
      BY DEF TypeOK
    <3>2. CASE UNCHANGED metricDomain
      BY <3>1, <3>2
    <3>3. ASSUME NEW l \in Labels, metricDomain' = [metricDomain EXCEPT ![s] = l]
          PROVE  metricDomain' \in [Streams -> Labels]
      BY <3>1, <3>3
    <3> QED
      BY <1>6, <2>1, <3>2, <3>3, ConstantFacts, ZenonT(60) DEF Receive
  <2> QED
    BY <1>6, <2>3, <2>4, <2>5, ZenonT(60) DEF TypeOK, Receive
<1> QED
  BY <1>1, <1>2, <1>3, <1>4, <1>5, <1>6, ZenonT(60) DEF Client

\* So does a step of a push goroutine, and a swap.
LEMMA PushType ==
  ASSUME TypeOK, ControlInv, NEW p \in Pushes, Push(p)
  PROVE  TypeOK'
<1> USE DEF serverVars, streamVars, netVars, localVars, pushVars, clientVars
<1>1. CASE PushSnapshot(p)
  BY <1>1 DEF TypeOK, PushSnapshot, PushPC
<1>2. ASSUME NEW s \in Streams, PushCollect(p, s)
      PROVE  TypeOK'
  <2>1. /\ pushQueue \in [Pushes -> SUBSET Streams]
        /\ pushCur \in [Pushes -> Streams \cup {NoStream}]
        /\ pushBatch \in [Pushes -> SUBSET Buckets]
        /\ pushPc \in [Pushes -> PushPC]
        /\ subs[s] \in SUBSET Buckets
    BY ZenonT(60) DEF TypeOK
  <2>2. pushQueue' \in [Pushes -> SUBSET Streams]
    BY <1>2, <2>1, ZenonT(60) DEF PushCollect
  <2>3. pushCur' \in [Pushes -> Streams \cup {NoStream}]
    BY <1>2, <2>1, ZenonT(60) DEF PushCollect
  <2>4. pushBatch' \in [Pushes -> SUBSET Buckets]
    BY <1>2, <2>1, ZenonT(60) DEF PushCollect
  <2>5. pushPc' \in [Pushes -> PushPC]
    BY <1>2, <2>1, ZenonT(60) DEF PushCollect, PushPC
  <2> QED
    BY <1>2, <2>2, <2>3, <2>4, <2>5 DEF TypeOK, PushCollect
<1>3. CASE PushSend(p)
  <2>1. pushCur[p] \in Streams /\ pushBatch[p] \in SUBSET Buckets /\ p \in Engines
    BY <1>3, ConstantFacts DEF PushSend, TypeOK, ControlInv, PushOK
  <2> QED
    BY <1>3, <2>1, DeliverType, ZenonT(60) DEF TypeOK, PushSend, PushPC
<1>4. CASE PushDone(p)
  BY <1>4 DEF TypeOK, PushDone, PushPC
<1> QED
  BY <1>1, <1>2, <1>3, <1>4 DEF Push

\* SwapEngine keeps every variable in its type.
LEMMA SwapType == ASSUME TypeOK, SwapEngine PROVE TypeOK'
<1>1. engine' \in Engines
  BY ConstantsAssumption DEF TypeOK, SwapEngine, Engines
<1>2. pushPc' \in [Pushes -> PushPC]
  BY ZenonT(60) DEF TypeOK, SwapEngine, PushPC
<1> QED
  BY <1>1, <1>2
  DEF TypeOK, SwapEngine, streamVars, netVars, localVars, pushVars, clientVars

-----------------------------------------------------------------------------
(* A step of one stream changes nothing of the others.                     *)

SameStream(t) ==
  /\ pc'[t] = pc[t]
  /\ domain'[t] = domain[t]
  /\ metricDomain'[t] = metricDomain[t]
  /\ subs'[t] = subs[t]
  /\ cur'[t] = cur[t]
  /\ todo'[t] = todo[t]
  /\ cleaning'[t] = cleaning[t]

\* A handler step of one stream leaves the other streams alone.
LEMMA OtherStreams ==
  ASSUME TypeOK, NEW s \in Streams, Handler(s) \/ Client(s),
         NEW t \in Streams, t # s
  PROVE  SameStream(t)
<1> USE DEF SameStream, serverVars, streamVars, localVars
<1>ty. /\ pc \in [Streams -> PC]
       /\ domain \in [Streams -> Domains \cup {NoDomain}]
       /\ metricDomain \in [Streams -> Labels]
       /\ subs \in [Streams -> SUBSET Buckets]
       /\ cur \in [Streams -> Buckets \cup {NoBucket}]
       /\ todo \in [Streams -> Seq(Reports)]
       /\ cleaning \in [Streams -> SUBSET Buckets]
  BY DEF TypeOK
<1>1. CASE RecvError(s)
  BY <1>1, <1>ty DEF RecvError, Goto
<1>2. CASE SkipUsage(s)
  BY <1>2, <1>ty DEF SkipUsage
<1>3. CASE RejectUsage(s)
  BY <1>3, <1>ty DEF RejectUsage, Return, Goto
<1>4. CASE Subscribe(s)
  BY <1>4, <1>ty DEF Subscribe, Goto
<1>5. CASE AddReference(s)
  BY <1>5, <1>ty DEF AddReference, Goto
<1>6. CASE RecordUsage(s)
  BY <1>6, <1>ty DEF RecordUsage, Goto
<1>7. CASE ConsultEngine(s)
  BY <1>7, <1>ty DEF ConsultEngine, Return, Goto
<1>8. CASE \E b \in Buckets : Abandon(s, b)
  BY <1>8, <1>ty DEF Abandon, Goto
<1>9. CASE Unreference(s)
  BY <1>9, <1>ty DEF Unreference, Goto
<1>10. CASE RemoveAbandoned(s)
  BY <1>10, <1>ty DEF RemoveAbandoned, Goto
<1>11. CASE Send(s)
  BY <1>11, <1>ty DEF Send, Return, Goto
<1>12. CASE Deregister(s)
  BY <1>12, <1>ty DEF Deregister, Returned, Goto
<1>13. CASE \E b \in Buckets : Release(s, b)
  BY <1>13, <1>ty DEF Release, Goto
<1>14. CASE RemoveReleased(s)
  BY <1>14, <1>ty DEF RemoveReleased, Goto
<1>15. CASE Finish(s)
  BY <1>15, <1>ty, ZenonT(60) DEF Finish, Returned, Goto
<1>16. CASE Open(s)
  BY <1>16, <1>ty DEF Open, Goto
<1>17. CASE RecvEOF(s)
  BY <1>17, <1>ty DEF RecvEOF, Goto
<1>18. CASE Disconnect(s)
  BY <1>18, <1>ty DEF Disconnect
<1>19. CASE Stall(s)
  BY <1>19, <1>ty DEF Stall
<1>20. CASE Resume(s)
  BY <1>20, <1>ty, ZenonT(60) DEF Resume
<1>21. CASE \E m \in Messages : Receive(s, m)
  BY <1>21, <1>ty DEF Receive, Goto
<1> QED
  BY <1>1, <1>2, <1>3, <1>4, <1>5, <1>6, <1>7, <1>8, <1>9, <1>10, <1>11,
     <1>12, <1>13, <1>14, <1>15, <1>16, <1>17, <1>18, <1>19, <1>20, <1>21, ZenonT(60)
  DEF Handler, Client

-----------------------------------------------------------------------------
(* What a step does to the references of its stream.                       *)

\* The references of s and those of the server are left alone.
Silent(s) ==
  /\ Held(s)' = Held(s)
  /\ Removing(s)' = Removing(s)
  /\ domain'[s] = domain[s] \/ (Held(s) = {} /\ Removing(s) = {})
  /\ UNCHANGED <<bucketRefs, store>>

AcquireKind(s, b) ==
  /\ b \notin Held(s)
  /\ Held(s)' = Held(s) \cup {b}
  /\ Removing(s)' = Removing(s)
  /\ domain'[s] = domain[s]
  /\ bucketRefs' = [bucketRefs EXCEPT ![<<domain[s], b>>] = @ + 1]
  /\ store' = store

RecordKind(s, b) ==
  /\ b \in Held(s)
  /\ Held(s)' = Held(s)
  /\ Removing(s)' = Removing(s)
  /\ domain'[s] = domain[s]
  /\ bucketRefs' = bucketRefs
  /\ store' = store \cup {<<domain[s], b>>}

ReleaseKind(s, b) ==
  /\ b \in Held(s)
  /\ Held(s)' = Held(s) \ {b}
  /\ Removing(s) = {}
  /\ Removing(s)' = IF LastReference(<<domain[s], b>>) THEN {b} ELSE {}
  /\ domain'[s] = domain[s]
  /\ DropReference(<<domain[s], b>>)
  /\ store' = store

RemoveKind(s, b) ==
  /\ Removing(s) = {b}
  /\ Removing(s)' = {}
  /\ Held(s)' = Held(s)
  /\ domain'[s] = domain[s]
  /\ bucketRefs' = bucketRefs
  /\ store' = store \ {<<domain[s], b>>}

BucketKind(s) ==
  \E b \in Buckets :
    /\ domain[s] \in Domains
    /\ AcquireKind(s, b) \/ RecordKind(s, b) \/ ReleaseKind(s, b) \/ RemoveKind(s, b)

\* Every step of a handler is of one of the kinds and keeps ControlOK.
LEMMA HandlerKind ==
  ASSUME TypeOK, ControlInv, NEW s \in Streams, Handler(s)
  PROVE  ControlOK(s)' /\ (Silent(s) \/ BucketKind(s))
<1> USE DEF serverVars, streamVars, localVars, Cleaning
<1>ty. /\ pc \in [Streams -> PC]
       /\ domain \in [Streams -> Domains \cup {NoDomain}]
       /\ subs \in [Streams -> SUBSET Buckets]
       /\ cur \in [Streams -> Buckets \cup {NoBucket}]
       /\ todo \in [Streams -> Seq(Reports)]
       /\ cleaning \in [Streams -> SUBSET Buckets]
  BY DEF TypeOK
<1>ok. ControlOK(s)
  BY DEF ControlInv
<1>1. CASE RecvError(s)
  BY <1>1, <1>ty, <1>ok DEF RecvError, Goto, ControlOK, Silent, Held, Removing
<1>2. CASE SkipUsage(s)
  BY <1>2, <1>ty, <1>ok DEF SkipUsage, ControlOK, Silent, Held, Removing
<1>3. CASE RejectUsage(s)
  BY <1>3, <1>ty, <1>ok DEF RejectUsage, Return, Goto, ControlOK, Silent, Held, Removing
<1>4. CASE Subscribe(s)
  <2>1. /\ pc[s] = "report" /\ todo[s] # <<>>
        /\ domain' = domain /\ todo' = todo /\ cleaning' = cleaning
        /\ UNCHANGED <<bucketRefs, store>>
    BY <1>4 DEF Subscribe
  <2>2. \/ pc'[s] = "record" /\ cur'[s] \in subs[s] /\ subs'[s] = subs[s]
        \/ pc'[s] = "ref" /\ cur'[s] \notin subs[s] /\ subs'[s] = subs[s] \cup {cur'[s]}
    BY <1>4, <1>ty DEF Subscribe, Goto
  <2>3. ControlOK(s)'
    BY <2>1, <2>2, <1>ok DEF ControlOK
  <2>4. Silent(s)
    BY <2>1, <2>2, ZenonT(60) DEF Silent, Held, Removing
  <2> QED
    BY <2>3, <2>4
<1>5. CASE AddReference(s)
  <2>1. AcquireKind(s, cur[s]) /\ ControlOK(s)'
    BY <1>5, <1>ty, <1>ok, ZenonT(60)
    DEF AddReference, Goto, ControlOK, AcquireKind, Held, Removing, CurKey, DomainScopedKey
  <2> QED
    BY <1>5, <2>1, <1>ty, <1>ok, ZenonT(60) DEF AddReference, ControlOK, BucketKind
<1>6. CASE RecordUsage(s)
  <2>1. RecordKind(s, cur[s]) /\ ControlOK(s)'
    BY <1>6, <1>ty, <1>ok
    DEF RecordUsage, Goto, ControlOK, RecordKind, Held, Removing, CurKey, DomainScopedKey
  <2> QED
    BY <1>6, <2>1, <1>ty, <1>ok DEF RecordUsage, ControlOK, BucketKind
<1>7. CASE ConsultEngine(s)
  BY <1>7, <1>ty, <1>ok DEF ConsultEngine, Return, Goto, ControlOK, Silent, Held, Removing
<1>8. ASSUME NEW b \in Buckets, Abandon(s, b)
      PROVE  ControlOK(s)' /\ Silent(s)
  <2>1. /\ pc[s] = "act"
        /\ UNCHANGED <<domain, todo, cleaning, bucketRefs, store>>
    BY <1>8 DEF Abandon
  <2>2. \/ UNCHANGED <<pc, subs, cur>>
        \/ /\ pc'[s] = "unref" /\ cur'[s] = b /\ b \in subs[s]
           /\ subs'[s] = subs[s] \ {b}
    BY <1>8, <1>ty DEF Abandon, Goto
  <2>3. ControlOK(s)'
    BY <2>1, <2>2, <1>ok DEF ControlOK
  <2>4. Silent(s)
    BY <2>1, <2>2 DEF Silent, Held, Removing
  <2> QED
    BY <2>3, <2>4
<1>9. CASE Unreference(s)
  <2>1. ReleaseKind(s, cur[s]) /\ ControlOK(s)'
    BY <1>9, <1>ty, <1>ok, ZenonT(60)
    DEF Unreference, Goto, ControlOK, ReleaseKind, Held, Removing, CurKey, DomainScopedKey
  <2> QED
    BY <1>9, <2>1, <1>ty, <1>ok, ZenonT(60) DEF Unreference, ControlOK, BucketKind
<1>10. CASE RemoveAbandoned(s)
  <2>1. RemoveKind(s, cur[s]) /\ ControlOK(s)'
    BY <1>10, <1>ty, <1>ok
    DEF RemoveAbandoned, Goto, ControlOK, RemoveKind, Held, Removing, CurKey, DomainScopedKey
  <2> QED
    BY <1>10, <2>1, <1>ty, <1>ok, ZenonT(60) DEF RemoveAbandoned, ControlOK, BucketKind
<1>11. CASE Send(s)
  BY <1>11, <1>ty, <1>ok DEF Send, Return, Goto, ControlOK, Silent, Held, Removing
<1>12. CASE Deregister(s)
  BY <1>12, <1>ty, <1>ok, ZenonT(60) DEF Deregister, Returned, Goto, ControlOK, Silent, Held, Removing
<1>13. ASSUME NEW b \in Buckets, Release(s, b)
       PROVE  ControlOK(s)' /\ BucketKind(s)
  <2>1. ReleaseKind(s, b) /\ ControlOK(s)'
    BY <1>13, <1>ty, <1>ok, ZenonT(60)
    DEF Release, Goto, ControlOK, ReleaseKind, Held, Removing, DomainScopedKey
  <2> QED
    BY <1>13, <2>1, <1>ty, <1>ok, ZenonT(60) DEF Release, ControlOK, BucketKind
<1>14. CASE RemoveReleased(s)
  <2>1. RemoveKind(s, cur[s]) /\ ControlOK(s)'
    BY <1>14, <1>ty, <1>ok
    DEF RemoveReleased, Goto, ControlOK, RemoveKind, Held, Removing, CurKey, DomainScopedKey
  <2> QED
    BY <1>14, <2>1, <1>ty, <1>ok DEF RemoveReleased, ControlOK, BucketKind
<1>15. CASE Finish(s)
  BY <1>15, <1>ty, <1>ok DEF Finish, Returned, Goto, ControlOK, Silent, Held, Removing
<1> QED
  BY <1>1, <1>2, <1>3, <1>4, <1>5, <1>6, <1>7, <1>8, <1>9, <1>10, <1>11, <1>12,
     <1>13, <1>14, <1>15, ZenonT(60)
  DEF Handler

\* No step of a client touches a reference.
LEMMA ClientKind ==
  ASSUME TypeOK, ControlInv, NEW s \in Streams, Client(s)
  PROVE  ControlOK(s)' /\ Silent(s)
<1> USE DEF serverVars, streamVars, localVars, Cleaning
<1>ty. /\ pc \in [Streams -> PC]
       /\ domain \in [Streams -> Domains \cup {NoDomain}]
       /\ subs \in [Streams -> SUBSET Buckets]
       /\ cur \in [Streams -> Buckets \cup {NoBucket}]
       /\ todo \in [Streams -> Seq(Reports)]
       /\ cleaning \in [Streams -> SUBSET Buckets]
  BY DEF TypeOK
<1>ok. ControlOK(s)
  BY DEF ControlInv
<1>1. CASE Open(s)
  BY <1>1, <1>ty, <1>ok DEF Open, Goto, ControlOK, Silent, Held, Removing
<1>2. CASE RecvEOF(s)
  BY <1>2, <1>ty, <1>ok DEF RecvEOF, Goto, ControlOK, Silent, Held, Removing
<1>3. CASE Disconnect(s)
  BY <1>3, <1>ty, <1>ok DEF Disconnect, ControlOK, Silent, Held, Removing
<1>4. CASE Stall(s)
  BY <1>4, <1>ty, <1>ok DEF Stall, ControlOK, Silent, Held, Removing
<1>5. CASE Resume(s)
  BY <1>5, <1>ty, <1>ok DEF Resume, ControlOK, Silent, Held, Removing
<1>6. CASE \E m \in Messages : Receive(s, m)
  BY <1>6, <1>ty, <1>ok
  DEF Receive, Rejected, BoundDomain, Goto, ControlOK, Silent, Held, Removing
<1> QED
  BY <1>1, <1>2, <1>3, <1>4, <1>5, <1>6 DEF Client

-----------------------------------------------------------------------------
(* From the references of one stream to those of the server.               *)

Frame(s) ==
  \A t \in Streams : t # s =>
    Held(t)' = Held(t) /\ Removing(t)' = Removing(t) /\ domain'[t] = domain[t]

\* What does not change for a stream leaves what it holds and removes unchanged.
LEMMA FrameOther ==
  ASSUME TypeOK, NEW s \in Streams, Handler(s) \/ Client(s)
  PROVE  Frame(s)
<1> SUFFICES ASSUME NEW t \in Streams, t # s
             PROVE  /\ Held(t)' = Held(t)
                    /\ Removing(t)' = Removing(t)
                    /\ domain'[t] = domain[t]
  BY DEF Frame
<1>1. SameStream(t)
  BY OtherStreams
<1> QED
  BY <1>1 DEF SameStream, Held, Removing

\* A silent step changes no holders, removers, counts or state.
LEMMA SilentStep ==
  ASSUME NEW s \in Streams, Frame(s), Silent(s), NEW k \in Keys
  PROVE  Holders(k)' = Holders(k) /\ Removers(k)' = Removers(k)
BY DEF Frame, Silent, Holders, Removers

\* AddReference adds one holder to one key and nothing else.
LEMMA AcquireStep ==
  ASSUME NEW s \in Streams, NEW b \in Buckets, Frame(s), AcquireKind(s, b),
         NEW k \in Keys
  PROVE  /\ k = <<domain[s], b>> =>
              s \notin Holders(k) /\ Holders(k)' = Holders(k) \cup {s}
         /\ k # <<domain[s], b>> => Holders(k)' = Holders(k)
         /\ Removers(k)' = Removers(k)
BY DEF Frame, AcquireKind, Holders, Removers, Keys

\* RecordUsage adds state only for a key the stream holds.
LEMMA RecordStep ==
  ASSUME NEW s \in Streams, NEW b \in Buckets, Frame(s), RecordKind(s, b),
         NEW k \in Keys
  PROVE  /\ k = <<domain[s], b>> => s \in Holders(k)
         /\ Holders(k)' = Holders(k)
         /\ Removers(k)' = Removers(k)
BY DEF Frame, RecordKind, Holders, Removers, Keys

\* A release takes away one holder, who becomes a remover if the count says so.
LEMMA ReleaseStep ==
  ASSUME NEW s \in Streams, NEW b \in Buckets, Frame(s), ReleaseKind(s, b),
         NEW k \in Keys
  PROVE  /\ k = <<domain[s], b>> =>
              /\ s \in Holders(k)
              /\ Holders(k)' = Holders(k) \ {s}
              /\ LastReference(k) => Removers(k)' = Removers(k) \cup {s}
              /\ ~LastReference(k) => Removers(k)' = Removers(k)
         /\ k # <<domain[s], b>> =>
              Holders(k)' = Holders(k) /\ Removers(k)' = Removers(k)
<1>1. CASE k = <<domain[s], b>>
  <2>1. k[1] = domain[s] /\ k[2] = b
    BY <1>1, ZenonT(60)
  <2>2. s \in Holders(k)
    BY <2>1, ZenonT(60) DEF ReleaseKind, Holders
  <2>3. Holders(k)' = Holders(k) \ {s}
    BY <2>1, ZenonT(60) DEF Frame, ReleaseKind, Holders
  <2>4. Removing(s) = {} /\ Removing(s)' = IF LastReference(k) THEN {b} ELSE {}
    BY <1>1, ZenonT(60) DEF ReleaseKind
  <2>5. /\ LastReference(k) => Removers(k)' = Removers(k) \cup {s}
        /\ ~LastReference(k) => Removers(k)' = Removers(k)
    BY <2>1, <2>4 DEF Frame, ReleaseKind, Removers
  <2> QED
    BY <1>1, <2>2, <2>3, <2>5
<1>2. CASE k # <<domain[s], b>>
  <2>1. PICK d \in Domains, c \in Buckets : k = <<d, c>>
    BY DEF Keys
  <2>2. domain[s] # k[1] \/ b # k[2]
    BY <1>2, <2>1
  <2>3. Holders(k)' = Holders(k)
    BY <2>2, ZenonT(60) DEF Frame, ReleaseKind, Holders
  <2>4. Removers(k)' = Removers(k)
    BY <2>2, ZenonT(60) DEF Frame, ReleaseKind, Removers
  <2> QED
    BY <1>2, <2>3, <2>4
<1> QED
  BY <1>1, <1>2

\* RemoveBucket ends one removal and takes away the state.
LEMMA RemoveStep ==
  ASSUME NEW s \in Streams, NEW b \in Buckets, Frame(s), RemoveKind(s, b),
         NEW k \in Keys
  PROVE  /\ k = <<domain[s], b>> =>
              s \in Removers(k) /\ Removers(k)' = Removers(k) \ {s}
         /\ k # <<domain[s], b>> => Removers(k)' = Removers(k)
         /\ Holders(k)' = Holders(k)
BY DEF Frame, RemoveKind, Holders, Removers, Keys

\* Finitely many streams hold a key, so their number is a natural number.
LEMMA HoldersFinite ==
  ASSUME NEW k \in Keys
  PROVE  IsFiniteSet(Holders(k)) /\ Cardinality(Holders(k)) \in Nat
<1>1. Holders(k) \in SUBSET Streams
  BY DEF Holders
<1> QED
  BY <1>1, ConstantsAssumption, FS_Subset, FS_CardinalityType

\* The count that decides about the removal decides it rightly.
LEMMA LastReferenceExact ==
  ASSUME RefCountExact, NEW k \in Keys, NEW s \in Holders(k)
  PROVE  LastReference(k) <=> Holders(k) = {s}
<1>1. bucketRefs[k] = Cardinality(Holders(k)) /\ IsFiniteSet(Holders(k))
      /\ Cardinality(Holders(k)) \in Nat
  BY HoldersFinite DEF RefCountExact
<1>2. Cardinality(Holders(k)) # 0
  BY <1>1, FS_EmptySet
<1>3. Cardinality(Holders(k)) = 1 <=> \E x : Holders(k) = {x}
  BY <1>1, FS_Singleton
<1>4. (\E x : Holders(k) = {x}) <=> Holders(k) = {s}
  OBVIOUS
<1>n. \A n \in Nat : n # 0 => (n - 1 <= 0 <=> n = 1)
  OBVIOUS
<1>5. LastReference(k) <=> Cardinality(Holders(k)) = 1
  BY <1>1, <1>2, <1>n, Zenon DEF LastReference
<1> QED
  BY <1>3, <1>4, <1>5

-----------------------------------------------------------------------------
(* The inductive invariant.                                                *)

\* The steps that belong to no stream: engine swaps and pushes.
LEMMA PushSilent ==
  ASSUME SwapEngine \/ \E p \in Pushes : Push(p)
  PROVE  /\ UNCHANGED <<pc, domain, metricDomain, subs, cur, todo, cleaning>>
         /\ UNCHANGED <<bucketRefs, store, activeBuckets>>
BY ZenonT(60) DEF SwapEngine, Push, PushSnapshot, PushCollect, PushSend, PushDone,
       serverVars, streamVars, localVars

\* A step of the server belongs to a stream, or is a swap or push step.
LEMMA StreamSteps ==
  ASSUME NEW s \in Streams, Handler(s) \/ Client(s)
  PROVE  UNCHANGED pushVars /\ engine' = engine
BY ZenonT(60) DEF Handler, Client, Open, RecvEOF, RecvError, Disconnect, Stall, Resume,
       Receive, SkipUsage, RejectUsage, Subscribe, AddReference, RecordUsage,
       ConsultEngine, Abandon, Unreference, RemoveAbandoned, Send, Deregister,
       Release, RemoveReleased, Finish, serverVars

\* Every step keeps the handlers in the places their locals say.
LEMMA ControlStep ==
  ASSUME TypeOK, ControlInv, Next
  PROVE  ControlInv'
<1>1. ASSUME NEW s \in Streams, Handler(s) \/ Client(s)
      PROVE  ControlInv'
  <2>1. ControlOK(s)'
    BY <1>1, HandlerKind, ClientKind, ZenonT(60)
  <2>2. ASSUME NEW t \in Streams, t # s
        PROVE  ControlOK(t)'
    <3>1. SameStream(t) /\ ControlOK(t)
      BY <1>1, <2>2, OtherStreams, ZenonT(60) DEF ControlInv
    <3> QED
      BY <3>1, ZenonT(60) DEF SameStream, ControlOK
  <2>3. \A p \in Pushes : PushOK(p)'
    BY <1>1, StreamSteps DEF ControlInv, PushOK, pushVars
  <2> QED
    BY <2>1, <2>2, <2>3 DEF ControlInv
<1>2. ASSUME SwapEngine \/ \E p \in Pushes : Push(p)
      PROVE  ControlInv'
  <2>1. \A t \in Streams : ControlOK(t)'
    BY <1>2, PushSilent, ZenonT(60) DEF ControlInv, ControlOK
  <2>2. ASSUME SwapEngine PROVE \A p \in Pushes : PushOK(p)'
    BY <2>2, ZenonT(60) DEF SwapEngine, ControlInv, PushOK, TypeOK
  <2>3. ASSUME NEW p \in Pushes, Push(p) PROVE \A q \in Pushes : PushOK(q)'
    BY <2>3
    DEF Push, PushSnapshot, PushCollect, PushSend, PushDone, ControlInv, PushOK, TypeOK
  <2> QED
    BY <1>2, <2>1, <2>2, <2>3, ZenonT(60) DEF ControlInv
<1> QED
  BY <1>1, <1>2 DEF Next

\* Every step keeps every variable in its type.
LEMMA TypeStep ==
  ASSUME TypeOK, ControlInv, Next
  PROVE  TypeOK'
BY HandlerType, ClientType, PushType, SwapType DEF Next

\* Every step leaves the references alone or is of a kind of BucketKind.
LEMMA StepKinds ==
  ASSUME TypeOK, ControlInv, Next
  PROVE  \/ /\ \A k \in Keys : Holders(k)' = Holders(k) /\ Removers(k)' = Removers(k)
            /\ UNCHANGED <<bucketRefs, store>>
         \/ \E s \in Streams : Frame(s) /\ BucketKind(s)
<1>1. ASSUME NEW s \in Streams, Handler(s) \/ Client(s), Silent(s)
      PROVE  /\ \A k \in Keys : Holders(k)' = Holders(k) /\ Removers(k)' = Removers(k)
             /\ UNCHANGED <<bucketRefs, store>>
  BY <1>1, FrameOther, SilentStep DEF Silent
<1>2. ASSUME NEW s \in Streams, Handler(s), BucketKind(s)
      PROVE  Frame(s) /\ BucketKind(s)
  BY <1>2, FrameOther
<1>3. ASSUME SwapEngine \/ \E p \in Pushes : Push(p)
      PROVE  /\ \A k \in Keys : Holders(k)' = Holders(k) /\ Removers(k)' = Removers(k)
             /\ UNCHANGED <<bucketRefs, store>>
  BY <1>3, PushSilent DEF Holders, Removers, Held, Removing
<1> QED
  BY <1>1, <1>2, <1>3, HandlerKind, ClientKind, ZenonT(60) DEF Next

\* Every step keeps the reference counts exact.
LEMMA RefCountStep ==
  ASSUME LocalInv, Next
  PROVE  RefCountExact'
<1> SUFFICES ASSUME NEW k \in Keys
             PROVE  bucketRefs'[k] = Cardinality(Holders(k)')
  BY DEF RefCountExact
<1>0. bucketRefs \in [Keys -> Nat] /\ bucketRefs[k] = Cardinality(Holders(k))
  BY DEF LocalInv, TypeOK, RefCountExact
<1>1. CASE Holders(k)' = Holders(k) /\ bucketRefs'[k] = bucketRefs[k]
  BY <1>0, <1>1
<1>2. ASSUME NEW s \in Streams, NEW b \in Buckets, Frame(s), domain[s] \in Domains,
             AcquireKind(s, b)
      PROVE  bucketRefs'[k] = Cardinality(Holders(k)')
  <2>1. CASE k = <<domain[s], b>>
    <3>1. s \notin Holders(k) /\ Holders(k)' = Holders(k) \cup {s}
      BY <1>2, <2>1, AcquireStep, ZenonT(60)
    <3>2. bucketRefs'[k] = bucketRefs[k] + 1
      BY <1>0, <1>2, <2>1 DEF AcquireKind
    <3>3. IsFiniteSet(Holders(k))
      BY HoldersFinite
    <3>4. Cardinality(Holders(k)') = Cardinality(Holders(k)) + 1
      BY <3>1, <3>3, FS_AddElement
    <3> QED
      BY <1>0, <3>2, <3>4
  <2>2. CASE k # <<domain[s], b>>
    <3>1. Holders(k)' = Holders(k)
      BY <1>2, <2>2, AcquireStep, ZenonT(60)
    <3>2. bucketRefs'[k] = bucketRefs[k]
      BY <1>0, <1>2, <2>2 DEF AcquireKind
    <3> QED
      BY <1>1, <3>1, <3>2
  <2> QED
    BY <2>1, <2>2
<1>3. ASSUME NEW s \in Streams, NEW b \in Buckets, Frame(s), domain[s] \in Domains,
             ReleaseKind(s, b)
      PROVE  bucketRefs'[k] = Cardinality(Holders(k)')
  <2>1. CASE k = <<domain[s], b>>
    <3>1. s \in Holders(k) /\ Holders(k)' = Holders(k) \ {s}
      BY <1>3, <2>1, ReleaseStep, ZenonT(60)
    <3>2. bucketRefs'[k] = IF LastReference(k) THEN 0 ELSE bucketRefs[k] - 1
      BY <1>0, <1>3, <2>1 DEF ReleaseKind, DropReference
    <3>3. /\ IsFiniteSet(Holders(k))
          /\ Cardinality(Holders(k)) # 0
          /\ Cardinality(Holders(k)) \in Nat
      BY <3>1, HoldersFinite, FS_EmptySet
    <3>4. bucketRefs'[k] = bucketRefs[k] - 1
      BY <1>0, <3>2, <3>3 DEF LastReference
    <3>5. Cardinality(Holders(k)') = Cardinality(Holders(k)) - 1
      BY <3>1, <3>3, FS_RemoveElement, ZenonT(60)
    <3> QED
      BY <1>0, <3>4, <3>5
  <2>2. CASE k # <<domain[s], b>>
    <3>1. Holders(k)' = Holders(k)
      BY <1>3, <2>2, ReleaseStep, ZenonT(60)
    <3>2. bucketRefs'[k] = bucketRefs[k]
      BY <1>0, <1>3, <2>2, ZenonT(60) DEF ReleaseKind, DropReference
    <3> QED
      BY <1>1, <3>1, <3>2
  <2> QED
    BY <2>1, <2>2
<1>4. ASSUME NEW s \in Streams, NEW b \in Buckets, Frame(s),
             RecordKind(s, b) \/ RemoveKind(s, b)
      PROVE  bucketRefs'[k] = Cardinality(Holders(k)')
  <2>1. Holders(k)' = Holders(k)
    BY <1>4, RecordStep, RemoveStep, ZenonT(60)
  <2>2. bucketRefs'[k] = bucketRefs[k]
    BY <1>4 DEF RecordKind, RemoveKind
  <2> QED
    BY <1>1, <2>1, <2>2
<1> QED
  BY <1>1, <1>2, <1>3, <1>4, StepKinds DEF LocalInv, BucketKind

\* Every step keeps state without a holder in the hands of a remover.
LEMMA OrphanStep ==
  ASSUME IInv, Next
  PROVE  NoOrphanedState'
<1> SUFFICES ASSUME NEW k \in store'
             PROVE  Holders(k)' # {} \/ Removers(k)' # {}
  BY DEF NoOrphanedState
<1>0. store \subseteq Keys /\ (k \in store => Holders(k) # {} \/ Removers(k) # {})
  BY ZenonT(60) DEF IInv, TypeOK, NoOrphanedState
<1>1. k \in Keys
  BY TypeStep DEF IInv, TypeOK
<1>2. ASSUME NEW s \in Streams, NEW b \in Buckets, Frame(s), AcquireKind(s, b)
      PROVE  Holders(k)' # {} \/ Removers(k)' # {}
  BY <1>0, <1>1, <1>2, AcquireStep, ZenonT(60) DEF AcquireKind
<1>3. ASSUME NEW s \in Streams, NEW b \in Buckets, Frame(s), RecordKind(s, b)
      PROVE  Holders(k)' # {} \/ Removers(k)' # {}
  BY <1>0, <1>1, <1>3, RecordStep, ZenonT(60) DEF RecordKind
<1>4. ASSUME NEW s \in Streams, NEW b \in Buckets, Frame(s), ReleaseKind(s, b)
      PROVE  Holders(k)' # {} \/ Removers(k)' # {}
  <2>1. CASE k = <<domain[s], b>>
    <3>1. /\ s \in Holders(k)
          /\ Holders(k)' = Holders(k) \ {s}
          /\ LastReference(k) => Removers(k)' = Removers(k) \cup {s}
      BY <1>1, <1>4, <2>1, ReleaseStep, ZenonT(60)
    <3>2. LastReference(k) <=> Holders(k) = {s}
      BY <1>1, <3>1, LastReferenceExact DEF IInv
    <3> QED
      BY <3>1, <3>2
  <2>2. CASE k # <<domain[s], b>>
    BY <1>0, <1>1, <1>4, <2>2, ReleaseStep, ZenonT(60) DEF ReleaseKind
  <2> QED
    BY <2>1, <2>2
<1>5. ASSUME NEW s \in Streams, NEW b \in Buckets, Frame(s), RemoveKind(s, b)
      PROVE  Holders(k)' # {} \/ Removers(k)' # {}
  BY <1>0, <1>1, <1>5, RemoveStep, ZenonT(60) DEF RemoveKind
<1> QED
  BY <1>0, <1>1, <1>2, <1>3, <1>4, <1>5, StepKinds DEF IInv, BucketKind

\* The server starts in the inductive invariant.
LEMMA IInvInit == Init => IInv
<1> SUFFICES ASSUME Init PROVE IInv
  BY Zenon
<1>1. TypeOK
  <2>1. bucketRefs \in [Keys -> Nat] /\ activeBuckets \in [Labels -> Int]
    BY DEF Init
  <2>2. engine \in Engines /\ eng \in [Streams -> Engines]
    BY ConstantFacts DEF Init
  <2>3. pc \in [Streams -> PC] /\ pushPc \in [Pushes -> PushPC]
    BY DEF Init, PC, PushPC
  <2>4. todo \in [Streams -> Seq(Reports)] /\ metricDomain \in [Streams -> Labels]
    BY ConstantFacts DEF Init
  <2>5. /\ newest \in [Streams -> [Buckets -> Engines \cup {Never}]]
        /\ last \in [Streams -> [Buckets -> Engines \cup {Never}]]
    BY DEF Init
  <2>6. /\ streams \subseteq Streams /\ stalled \subseteq Streams /\ store \subseteq Keys
        /\ domain \in [Streams -> Domains \cup {NoDomain}]
        /\ live \in [Streams -> BOOLEAN]
        /\ cur \in [Streams -> Buckets \cup {NoBucket}]
        /\ pushCur \in [Pushes -> Streams \cup {NoStream}]
    BY DEF Init
  <2>7. /\ subs \in [Streams -> SUBSET Buckets]
        /\ reports \in [Streams -> SUBSET Buckets]
        /\ abandoned \in [Streams -> SUBSET Buckets]
        /\ cleaning \in [Streams -> SUBSET Buckets]
        /\ pushQueue \in [Pushes -> SUBSET Streams]
        /\ pushBatch \in [Pushes -> SUBSET Buckets]
    BY DEF Init
  <2> QED
    BY SMTT(30), <2>1, <2>2, <2>3, <2>4, <2>5, <2>6, <2>7 DEF TypeOK
<1>2. ControlInv
  BY DEF Init, ControlInv, ControlOK, PushOK
<1>3. \A k \in Keys : Holders(k) = {}
  BY DEF Init, Holders, Held
<1>4. RefCountExact
  BY <1>3, FS_EmptySet, ZenonT(60) DEF Init, RefCountExact
<1>5. NoOrphanedState
  BY DEF Init, NoOrphanedState
<1> QED
  BY <1>1, <1>2, <1>4, <1>5 DEF IInv

\* A stuttering step keeps the inductive invariant.
LEMMA IInvStutter == IInv /\ UNCHANGED vars => IInv'
<1> SUFFICES ASSUME IInv, UNCHANGED vars PROVE IInv'
  BY Zenon
<1> USE DEF vars, serverVars, streamVars, netVars, localVars, pushVars, clientVars
<1>1. TypeOK'
  BY ZenonT(60) DEF IInv, TypeOK
<1>2. ControlInv'
  BY ZenonT(60) DEF IInv, ControlInv, ControlOK, PushOK
<1>3. \A k \in Keys : Holders(k)' = Holders(k) /\ Removers(k)' = Removers(k)
  BY DEF Holders, Removers, Held, Removing
<1>4. RefCountExact'
  BY <1>3, ZenonT(60) DEF IInv, RefCountExact
<1>5. NoOrphanedState'
  BY <1>3, ZenonT(60) DEF IInv, NoOrphanedState, TypeOK
<1> QED
  BY <1>1, <1>2, <1>4, <1>5 DEF IInv

\* IInv is an invariant of the server.
THEOREM Invariance == Spec => []IInv
<1>1. IInv /\ [Next]_vars => IInv'
  <2>1. ASSUME IInv, Next PROVE IInv'
    BY <2>1, TypeStep, ControlStep, RefCountStep, OrphanStep DEF IInv, LocalInv
  <2> QED
    BY <2>1, IInvStutter
<1> QED
  BY IInvInit, <1>1, PTL DEF Spec

\* The variables of the server keep their types.
THEOREM TypeCorrect == Spec => []TypeOK
<1>1. IInv => TypeOK
  BY DEF IInv
<1> QED
  BY <1>1, Invariance, PTL

\* bucketRefs counts exactly the streams that own a reference, whatever the
\* interleaving of messages, abandons, errors and disconnects.
THEOREM RefCountCorrect == Spec => []RefCountExact
<1>1. IInv => RefCountExact
  BY DEF IInv
<1> QED
  BY <1>1, Invariance, PTL

\* The store keeps no state of a bucket that nobody references or is about to
\* remove.
THEOREM NoOrphans == Spec => []NoOrphanedState
<1>1. IInv => NoOrphanedState
  BY DEF IInv
<1> QED
  BY <1>1, Invariance, PTL

-----------------------------------------------------------------------------
(* Refinement.                                                             *)

\* Every step maps to a step of BucketLifecycle or leaves its variables alone.
LEMMA LifecycleStep ==
  ASSUME LocalInv, Next
  PROVE  Lifecycle!LifecycleNext \/ UNCHANGED Lifecycle!lifecycleVars
<1> DEFINE H == [k \in Keys |-> Holders(k)]
           R == [k \in Keys |-> Removers(k)]
<1>k. ASSUME NEW s \in Streams, NEW b \in Buckets, domain[s] \in Domains
      PROVE  <<domain[s], b>> \in Keys
  BY <1>k DEF Keys
<1>1. ASSUME \A k \in Keys : Holders(k)' = Holders(k) /\ Removers(k)' = Removers(k),
             UNCHANGED <<bucketRefs, store>>
      PROVE  UNCHANGED Lifecycle!lifecycleVars
  BY <1>1 DEF Lifecycle!lifecycleVars
<1>2. ASSUME NEW s \in Streams, NEW b \in Buckets, Frame(s), domain[s] \in Domains,
             AcquireKind(s, b)
      PROVE  Lifecycle!Acquire(s, <<domain[s], b>>)
  <2>1. H' = [H EXCEPT ![<<domain[s], b>>] = @ \cup {s}] /\ R' = R
    BY <1>2, <1>k, AcquireStep, ZenonT(60)
  <2>2. s \notin H[<<domain[s], b>>] /\ store' = store
    BY <1>2, <1>k, AcquireStep, ZenonT(60) DEF AcquireKind
  <2> QED
    BY <2>1, <2>2 DEF Lifecycle!Acquire
<1>3. ASSUME NEW s \in Streams, NEW b \in Buckets, Frame(s), domain[s] \in Domains,
             RecordKind(s, b)
      PROVE  Lifecycle!Record(s, <<domain[s], b>>)
  <2>1. H' = H /\ R' = R /\ s \in H[<<domain[s], b>>]
    BY <1>3, <1>k, RecordStep, ZenonT(60)
  <2> QED
    BY <1>3, <2>1, ZenonT(60) DEF RecordKind, Lifecycle!Record
<1>4. ASSUME NEW s \in Streams, NEW b \in Buckets, Frame(s), domain[s] \in Domains,
             ReleaseKind(s, b)
      PROVE  Lifecycle!Release(s, <<domain[s], b>>)
  <2> DEFINE k == <<domain[s], b>>
  <2>1. k \in Keys /\ s \in H[k]
    BY <1>4, <1>k, ReleaseStep
  <2>2. H' = [H EXCEPT ![k] = @ \ {s}]
    BY <1>4, <1>k, ReleaseStep, ZenonT(60)
  <2>3. LastReference(k) <=> H[k] = {s}
    BY <2>1, LastReferenceExact DEF LocalInv
  <2>4. R' = IF H[k] = {s} THEN [R EXCEPT ![k] = @ \cup {s}] ELSE R
    BY <1>4, <1>k, <2>3, ReleaseStep, ZenonT(60)
  <2>5. store' = store
    BY <1>4, ZenonT(60) DEF ReleaseKind
  <2> QED
    BY <2>1, <2>2, <2>4, <2>5 DEF Lifecycle!Release
<1>5. ASSUME NEW s \in Streams, NEW b \in Buckets, Frame(s), domain[s] \in Domains,
             RemoveKind(s, b)
      PROVE  Lifecycle!Remove(s, <<domain[s], b>>)
  <2>1. H' = H /\ s \in R[<<domain[s], b>>]
    BY <1>5, <1>k, RemoveStep
  <2>2. R' = [R EXCEPT ![<<domain[s], b>>] = @ \ {s}]
    BY <1>5, <1>k, RemoveStep, ZenonT(60)
  <2> QED
    BY <1>5, <2>1, <2>2, ZenonT(60) DEF RemoveKind, Lifecycle!Remove
<1> QED
  BY <1>k, <1>1, <1>2, <1>3, <1>4, <1>5, StepKinds, ZenonT(60)
  DEF LocalInv, BucketKind, Lifecycle!LifecycleNext

\* The server implements the reference protocol of BucketLifecycle.
THEOREM Refinement == Spec => ImplementsLifecycle
<1>1. Init => Lifecycle!LifecycleInit
  BY DEF Init, Holders, Removers, Held, Removing, Lifecycle!LifecycleInit
<1>2. IInv /\ [Next]_vars => [Lifecycle!LifecycleNext]_(Lifecycle!lifecycleVars)
  <2>1. ASSUME UNCHANGED vars PROVE UNCHANGED Lifecycle!lifecycleVars
    BY <2>1 DEF vars, serverVars, streamVars, localVars, Holders, Removers, Held,
                Removing, Lifecycle!lifecycleVars
  <2> QED
    BY <2>1, LifecycleStep DEF IInv, LocalInv
<1> QED
  BY <1>1, <1>2, Invariance, PTL DEF Spec, ImplementsLifecycle, Lifecycle!LifecycleSpec

-----------------------------------------------------------------------------
(* One instance of several on a shared store.                              *)

\* Other instances record and remove, keys expire, a removal is undone: the
\* store changes under the server's hands.
OtherInstances ==
  /\ store' \in SUBSET Keys
  /\ UNCHANGED <<streams, bucketRefs, activeBuckets, engine, pc, streamVars, netVars,
                 localVars, pushVars, clientVars>>

SharedSpec == Init /\ [][Next \/ OtherInstances]_vars

\* What others do to the store keeps LocalInv and every reference.
LEMMA OtherStep ==
  ASSUME LocalInv, OtherInstances
  PROVE  /\ LocalInv'
         /\ \A k \in Keys : Holders(k)' = Holders(k) /\ Removers(k)' = Removers(k)
<1> USE DEF OtherInstances, streamVars, netVars, localVars, pushVars, clientVars
<1>1. TypeOK'
  BY ZenonT(60) DEF LocalInv, TypeOK
<1>2. ControlInv'
  BY ZenonT(60) DEF LocalInv, ControlInv, ControlOK, PushOK
<1>3. \A k \in Keys : Holders(k)' = Holders(k) /\ Removers(k)' = Removers(k)
  BY DEF Holders, Removers, Held, Removing
<1>4. RefCountExact'
  BY <1>3, ZenonT(60) DEF LocalInv, RefCountExact
<1> QED
  BY <1>1, <1>2, <1>3, <1>4 DEF LocalInv

\* LocalInv holds on a shared store.
LEMMA SharedInvariance == SharedSpec => []LocalInv
<1>1. Init => LocalInv
  BY IInvInit DEF IInv, LocalInv
<1>2. LocalInv /\ [Next \/ OtherInstances]_vars => LocalInv'
  <2>1. ASSUME LocalInv, Next PROVE LocalInv'
    BY <2>1, TypeStep, ControlStep, RefCountStep DEF LocalInv
  <2>2. ASSUME LocalInv, UNCHANGED vars PROVE LocalInv'
    <3>1. OtherInstances
      BY <2>2 DEF OtherInstances, vars, serverVars, LocalInv, TypeOK
    <3> QED
      BY <2>2, <3>1, OtherStep
  <2> QED
    BY <2>1, <2>2, OtherStep
<1> QED
  BY <1>1, <1>2, PTL DEF SharedSpec

\* An instance counts its own references exactly whatever the other instances do
\* to the store: bucketRefs is never derived from the store.
THEOREM SharedCounts == SharedSpec => []RefCountExact
<1>1. LocalInv => RefCountExact
  BY DEF LocalInv
<1> QED
  BY <1>1, SharedInvariance, PTL

\* On a shared store every step is one of the instance's own BucketLifecycle or
\* leaves its references and pending removals alone: RLQSServer may stand where
\* HaCluster has an instance of BucketLifecycle.
THEOREM SharedRefinement ==
  SharedSpec =>
    /\ Lifecycle!LifecycleInit
    /\ [][\/ Lifecycle!LifecycleNext
          \/ \A k \in Keys : Holders(k)' = Holders(k) /\ Removers(k)' = Removers(k)
         ]_(Lifecycle!lifecycleVars)
<1>1. Init => Lifecycle!LifecycleInit
  BY DEF Init, Holders, Removers, Held, Removing, Lifecycle!LifecycleInit
<1>2. LocalInv /\ [Next \/ OtherInstances]_vars =>
        [\/ Lifecycle!LifecycleNext
         \/ \A k \in Keys : Holders(k)' = Holders(k) /\ Removers(k)' = Removers(k)
        ]_(Lifecycle!lifecycleVars)
  <2>1. ASSUME UNCHANGED vars PROVE UNCHANGED Lifecycle!lifecycleVars
    BY <2>1 DEF vars, serverVars, streamVars, localVars, Holders, Removers, Held,
                Removing, Lifecycle!lifecycleVars
  <2> QED
    BY <2>1, LifecycleStep, OtherStep
<1> QED
  BY <1>1, <1>2, SharedInvariance, PTL DEF SharedSpec

-----------------------------------------------------------------------------
(* The gauge.                                                              *)

GaugeSilent(s) ==
  /\ Counted(s)' = Counted(s)
  /\ metricDomain'[s] = metricDomain[s] \/ Counted(s) = {}
  /\ activeBuckets' = activeBuckets

GaugeUp(s, b) ==
  /\ b \notin Counted(s)
  /\ Counted(s)' = Counted(s) \cup {b}
  /\ metricDomain'[s] = metricDomain[s]
  /\ activeBuckets' = [activeBuckets EXCEPT ![metricDomain[s]] = @ + 1]

GaugeDown(s, b) ==
  /\ b \in Counted(s)
  /\ Counted(s)' = Counted(s) \ {b}
  /\ metricDomain'[s] = metricDomain[s]
  /\ activeBuckets' = [activeBuckets EXCEPT ![metricDomain[s]] = @ - 1]

GaugeKind(s) ==
  GaugeSilent(s) \/ \E b \in Buckets : GaugeUp(s, b) \/ GaugeDown(s, b)

\* Each step of a stream changes the gauge by the change of its counted pairs.
LEMMA StreamGauge ==
  ASSUME TypeOK, ControlInv, NEW s \in Streams, Handler(s) \/ Client(s)
  PROVE  GaugeKind(s)
<1> USE DEF serverVars, streamVars, localVars, Cleaning
<1>ty. /\ pc \in [Streams -> PC]
       /\ domain \in [Streams -> Domains \cup {NoDomain}]
       /\ metricDomain \in [Streams -> Labels]
       /\ subs \in [Streams -> SUBSET Buckets]
       /\ cur \in [Streams -> Buckets \cup {NoBucket}]
       /\ cleaning \in [Streams -> SUBSET Buckets]
  BY DEF TypeOK
<1>ok. ControlOK(s)
  BY DEF ControlInv
<1>1. CASE RecvError(s)
  BY <1>1, <1>ty, <1>ok DEF RecvError, Goto, ControlOK, GaugeKind, GaugeSilent, Counted, Held
<1>2. CASE SkipUsage(s)
  BY <1>2, <1>ty, <1>ok DEF SkipUsage, ControlOK, GaugeKind, GaugeSilent, Counted, Held
<1>3. CASE RejectUsage(s)
  BY <1>3, <1>ty, <1>ok DEF RejectUsage, Return, Goto, ControlOK, GaugeKind, GaugeSilent, Counted, Held
<1>4. CASE Subscribe(s)
  <2>1. pc[s] = "report" /\ UNCHANGED <<metricDomain, cleaning, activeBuckets>>
    BY SMTT(30), <1>4 DEF Subscribe
  <2>2. \/ pc'[s] = "record" /\ cur'[s] \in subs[s] /\ subs'[s] = subs[s]
        \/ pc'[s] = "ref" /\ cur'[s] \notin subs[s] /\ subs'[s] = subs[s] \cup {cur'[s]}
    BY <1>4, <1>ty DEF Subscribe, Goto
  <2>3. GaugeSilent(s)
    BY <2>1, <2>2, ZenonT(60) DEF GaugeSilent, Counted, Held
  <2> QED
    BY <2>3 DEF GaugeKind
<1>5. CASE AddReference(s)
  <2>1. GaugeUp(s, cur[s])
    BY <1>5, <1>ty, <1>ok DEF AddReference, Goto, ControlOK, GaugeUp, Counted, Held
  <2> QED
    BY <1>5, <2>1, <1>ty, <1>ok, ZenonT(60) DEF AddReference, ControlOK, GaugeKind
<1>6. CASE RecordUsage(s)
  BY <1>6, <1>ty, <1>ok DEF RecordUsage, Goto, ControlOK, GaugeKind, GaugeSilent, Counted, Held
<1>7. CASE ConsultEngine(s)
  BY <1>7, <1>ty, <1>ok DEF ConsultEngine, Return, Goto, ControlOK, GaugeKind, GaugeSilent, Counted, Held
<1>8. ASSUME NEW b \in Buckets, Abandon(s, b)
      PROVE  GaugeKind(s)
  <2>1. /\ pc[s] = "act"
        /\ UNCHANGED <<metricDomain, cleaning, activeBuckets>>
    BY <1>8 DEF Abandon
  <2>2. \/ UNCHANGED <<pc, subs, cur>>
        \/ /\ pc'[s] = "unref" /\ cur'[s] = b /\ b \in subs[s]
           /\ subs'[s] = subs[s] \ {b}
    BY <1>8, <1>ty DEF Abandon, Goto
  <2>3. GaugeSilent(s)
    BY <2>1, <2>2 DEF GaugeSilent, Counted, Held
  <2> QED
    BY <2>3 DEF GaugeKind
<1>9. CASE Unreference(s)
  <2>1. GaugeSilent(s) \/ GaugeDown(s, cur[s])
    BY <1>9, <1>ty, <1>ok, ZenonT(60) DEF Unreference, Goto, ControlOK, GaugeSilent, GaugeDown, Counted, Held
  <2> QED
    BY <1>9, <2>1, <1>ty, <1>ok, ZenonT(60) DEF Unreference, ControlOK, GaugeKind
<1>10. CASE RemoveAbandoned(s)
  <2>1. GaugeDown(s, cur[s])
    BY <1>10, <1>ty, <1>ok DEF RemoveAbandoned, Goto, ControlOK, GaugeDown, Counted, Held
  <2> QED
    BY <1>10, <2>1, <1>ty, <1>ok, ZenonT(60) DEF RemoveAbandoned, ControlOK, GaugeKind
<1>11. CASE Send(s)
  BY <1>11, <1>ty, <1>ok DEF Send, Return, Goto, ControlOK, GaugeKind, GaugeSilent, Counted, Held
<1>12. CASE Deregister(s)
  BY <1>12, <1>ty, <1>ok DEF Deregister, Returned, Goto, ControlOK, GaugeKind, GaugeSilent, Counted, Held
<1>13. ASSUME NEW b \in Buckets, Release(s, b)
       PROVE  GaugeKind(s)
  <2>1. GaugeDown(s, b)
    BY <1>13, <1>ty, <1>ok DEF Release, Goto, ControlOK, GaugeDown, Counted, Held
  <2> QED
    BY <2>1 DEF GaugeKind
<1>14. CASE RemoveReleased(s)
  BY <1>14, <1>ty, <1>ok DEF RemoveReleased, Goto, ControlOK, GaugeKind, GaugeSilent, Counted, Held
<1>15. CASE Finish(s)
  BY <1>15, <1>ty, <1>ok DEF Finish, Returned, Goto, ControlOK, GaugeKind, GaugeSilent, Counted, Held
<1>16. CASE Open(s)
  BY <1>16, <1>ty, <1>ok DEF Open, Goto, ControlOK, GaugeKind, GaugeSilent, Counted, Held
<1>17. CASE RecvEOF(s)
  BY <1>17, <1>ty, <1>ok DEF RecvEOF, Goto, ControlOK, GaugeKind, GaugeSilent, Counted, Held
<1>18. CASE Disconnect(s)
  BY <1>18, <1>ty, <1>ok DEF Disconnect, ControlOK, GaugeKind, GaugeSilent, Counted, Held
<1>19. CASE Stall(s)
  BY <1>19, <1>ty, <1>ok DEF Stall, ControlOK, GaugeKind, GaugeSilent, Counted, Held
<1>20. CASE Resume(s)
  BY <1>20, <1>ty, <1>ok DEF Resume, ControlOK, GaugeKind, GaugeSilent, Counted, Held
<1>21. CASE \E m \in Messages : Receive(s, m)
  BY <1>21, <1>ty, <1>ok DEF Receive, Goto, ControlOK, GaugeKind, GaugeSilent, Counted, Held
<1> QED
  BY <1>1, <1>2, <1>3, <1>4, <1>5, <1>6, <1>7, <1>8, <1>9, <1>10, <1>11,
     <1>12, <1>13, <1>14, <1>15, <1>16, <1>17, <1>18, <1>19, <1>20, <1>21, ZenonT(60)
  DEF Handler, Client

\* Finitely many pairs of stream and bucket are counted under a label.
LEMMA PairsFinite ==
  ASSUME NEW l \in Labels
  PROVE  IsFiniteSet(CountedPairs(l)) /\ Cardinality(CountedPairs(l)) \in Nat
<1>1. IsFiniteSet(Streams \X Buckets)
  BY ConstantsAssumption, FS_Product
<1>2. CountedPairs(l) \in SUBSET (Streams \X Buckets)
  BY DEF CountedPairs
<1> QED
  BY <1>1, <1>2, FS_Subset, FS_CardinalityType

\* Every step keeps the gauge equal to the number of counted pairs.
LEMMA GaugeStep ==
  ASSUME TypeOK, ControlInv, GaugeExact, Next
  PROVE  GaugeExact'
<1> SUFFICES ASSUME NEW l \in Labels
             PROVE  activeBuckets'[l] = Cardinality(CountedPairs(l)')
  BY ZenonT(60) DEF GaugeExact
<1>0. /\ activeBuckets \in [Labels -> Int]
      /\ activeBuckets[l] = Cardinality(CountedPairs(l))
  BY DEF TypeOK, GaugeExact
<1>1. CASE CountedPairs(l)' = CountedPairs(l) /\ activeBuckets'[l] = activeBuckets[l]
  BY <1>0, <1>1
<1>2. ASSUME NEW s \in Streams, Handler(s) \/ Client(s)
      PROVE  activeBuckets'[l] = Cardinality(CountedPairs(l)')
  <2>1. \A t \in Streams : t # s =>
          Counted(t)' = Counted(t) /\ metricDomain'[t] = metricDomain[t]
    <3> SUFFICES ASSUME NEW t \in Streams, t # s
                 PROVE  Counted(t)' = Counted(t) /\ metricDomain'[t] = metricDomain[t]
      OBVIOUS
    <3>1. SameStream(t)
      BY <1>2, OtherStreams, ZenonT(60)
    <3> QED
      BY <3>1 DEF SameStream, Counted, Held
  <2>2. CASE GaugeSilent(s)
    BY <1>1, <2>1, <2>2 DEF GaugeSilent, CountedPairs
  <2>3. ASSUME NEW b \in Buckets, GaugeUp(s, b)
        PROVE  activeBuckets'[l] = Cardinality(CountedPairs(l)')
    <3>1. CASE l = metricDomain[s]
      <4>1. <<s, b>> \notin CountedPairs(l)
        BY <2>3 DEF GaugeUp, CountedPairs
      <4>2. CountedPairs(l)' = CountedPairs(l) \cup {<<s, b>>}
        BY <2>1, <2>3, <3>1 DEF GaugeUp, CountedPairs
      <4>3. activeBuckets'[l] = activeBuckets[l] + 1
        BY <1>0, <2>3, <3>1, ZenonT(60) DEF GaugeUp
      <4> QED
        BY <1>0, <4>1, <4>2, <4>3, PairsFinite, FS_AddElement, ZenonT(60)
    <3>2. CASE l # metricDomain[s]
      BY <1>0, <1>1, <2>1, <2>3, <3>2, ZenonT(60) DEF GaugeUp, CountedPairs
    <3> QED
      BY <3>1, <3>2, ZenonT(60)
  <2>4. ASSUME NEW b \in Buckets, GaugeDown(s, b)
        PROVE  activeBuckets'[l] = Cardinality(CountedPairs(l)')
    <3>1. CASE l = metricDomain[s]
      <4>1. <<s, b>> \in CountedPairs(l)
        BY <2>4, <3>1 DEF GaugeDown, CountedPairs
      <4>2. CountedPairs(l)' = CountedPairs(l) \ {<<s, b>>}
        BY <2>1, <2>4, <3>1 DEF GaugeDown, CountedPairs
      <4>3. activeBuckets'[l] = activeBuckets[l] - 1
        BY <1>0, <2>4, <3>1, ZenonT(60) DEF GaugeDown
      <4> QED
        BY <1>0, <4>1, <4>2, <4>3, PairsFinite, FS_RemoveElement, ZenonT(60)
    <3>2. CASE l # metricDomain[s]
      BY <1>0, <1>1, <2>1, <2>4, <3>2, ZenonT(60) DEF GaugeDown, CountedPairs
    <3> QED
      BY <3>1, <3>2
  <2> QED
    BY <1>2, <2>2, <2>3, <2>4, StreamGauge DEF GaugeKind
<1>3. ASSUME SwapEngine \/ \E p \in Pushes : Push(p)
      PROVE  activeBuckets'[l] = Cardinality(CountedPairs(l)')
  BY <1>1, <1>3, PushSilent DEF CountedPairs, Counted, Held
<1> QED
  BY <1>2, <1>3 DEF Next

\* The gauge of a label is the number of subscriptions counted under it.
THEOREM GaugeCorrect == Spec => []GaugeExact
<1>1. Init => GaugeExact
  <2> SUFFICES ASSUME Init, NEW l \in Labels
               PROVE  activeBuckets[l] = Cardinality(CountedPairs(l))
    BY DEF GaugeExact
  <2>1. CountedPairs(l) = {}
    BY DEF Init, CountedPairs, Counted, Held
  <2> QED
    BY <2>1, FS_EmptySet DEF Init
<1>2. IInv /\ GaugeExact /\ [Next]_vars => GaugeExact'
  <2>1. ASSUME GaugeExact, UNCHANGED vars PROVE GaugeExact'
    BY <2>1, ZenonT(60) DEF GaugeExact, CountedPairs, Counted, Held, vars, serverVars,
                streamVars, localVars
  <2> QED
    BY <2>1, GaugeStep DEF IInv
<1> QED
  BY <1>1, <1>2, Invariance, PTL DEF Spec

=============================================================================
