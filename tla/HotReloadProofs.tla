-------------------------- MODULE HotReloadProofs --------------------------
(* Proofs about HotReload, for any configurations and reload functions. *)
EXTENDS HotReload, TLAPS

\* Outside of the two swaps nothing is half applied; between them the engine
\* is already the one of the received configuration.
Inv ==
  /\ loop \in {"range", "build", "classifier", "exited"}
  /\ loop # "classifier" => engine = currentCfg.engine /\ classifier = currentCfg.engine
  /\ loop = "classifier" => engine = newCfg.engine

\* The environment, the watch goroutine and the reload functions leave what
\* main's goroutine has applied alone.
LEMMA OthersKeepApplied ==
  ASSUME Environment \/ Watch \/ \E r \in Reloads : Fire(r) \/ Reload(r)
  PROVE  UNCHANGED applyVars
<1>1. CASE Environment BY <1>1 DEF Environment, Write, Create, MoveAway, Cancel
<1>2. CASE Watch BY <1>2 DEF Watch, WatchEvent, WatchDone
<1>3. CASE \E r \in Reloads : Fire(r) \/ Reload(r)
  BY <1>3, Zenon DEF Fire, Reload, Load, RemoveWatch, AddWatch, Send
<1> QED BY <1>1, <1>2, <1>3

\* A step of main's goroutine keeps Inv: only SwapDomainClassifier makes the
\* received configuration the current one, after both swaps.
LEMMA ApplyKeeps == Inv /\ Apply => Inv'
<1> SUFFICES ASSUME Inv, Apply PROVE Inv' OBVIOUS
<1>1. CASE Receive BY <1>1 DEF Inv, Receive
<1>2. CASE Reject BY <1>2 DEF Inv, Reject
<1>3. CASE SwapEngine BY <1>3 DEF Inv, SwapEngine
<1>4. CASE SwapDomainClassifier BY <1>4 DEF Inv, SwapDomainClassifier
<1>5. CASE Exit BY <1>5 DEF Inv, Exit
<1> QED BY <1>1, <1>2, <1>3, <1>4, <1>5 DEF Apply

\* Whatever the file, the watcher and the reload functions do, a configuration
\* is applied as a whole or not at all (the goroutine of main).
THEOREM ReloadIsAtomic == Spec => []ReloadAtomic
<1>1. Init => Inv BY DEF Init, Inv
<1>2. Inv /\ [Next]_vars => Inv'
  <2> SUFFICES ASSUME Inv, [Next]_vars PROVE Inv' OBVIOUS
  <2>1. CASE Apply BY <2>1, ApplyKeeps
  <2>2. CASE Environment \/ Watch \/ \E r \in Reloads : Fire(r) \/ Reload(r)
    <3>1. UNCHANGED applyVars BY <2>2, OthersKeepApplied
    <3> QED BY <3>1 DEF Inv, applyVars
  <2>3. CASE UNCHANGED vars BY <2>3 DEF Inv, vars, applyVars
  <2> QED BY <2>1, <2>2, <2>3 DEF Next
<1>3. Inv => ReloadAtomic BY DEF Inv, ReloadAtomic
<1> QED BY <1>1, <1>2, <1>3, PTL DEF Spec

-----------------------------------------------------------------------------
(* Type correctness.                                                       *)

\* A step of the environment or of the watch goroutine keeps the types.
LEMMA WatchType == TypeOK /\ (Environment \/ Watch) => TypeOK'
<1> SUFFICES ASSUME TypeOK, Environment \/ Watch PROVE TypeOK' OBVIOUS
<1> USE DEF TypeOK, fileVars, watchVars, loadVars, chVars, applyVars
<1>1. CASE \E c \in Configs \cup {Broken} : Write(c)
  <2>1. PICK c \in Configs \cup {Broken} : Write(c) BY <1>1
  <2>2. writes' \in 0 .. MaxWrites BY <2>1, ReloadAssumption DEF Write
  <2>3. events' \in BOOLEAN /\ unseen' \in BOOLEAN BY <2>1, Zenon DEF Write
  <2> QED BY <2>1, <2>2, <2>3, Zenon DEF Write
<1>2. CASE \E c \in Configs \cup {Broken} : Create(c) BY <1>2 DEF Create
<1>3. CASE MoveAway
  <2>1. writes' \in 0 .. MaxWrites BY <1>3, ReloadAssumption DEF MoveAway
  <2> QED BY <1>3, <2>1, Zenon DEF MoveAway
<1>4. CASE Cancel BY <1>4, Zenon DEF Cancel
<1>5. CASE WatchEvent BY <1>5, Zenon DEF WatchEvent
<1>6. CASE WatchDone BY <1>6, Zenon DEF WatchDone
<1> QED BY <1>1, <1>2, <1>3, <1>4, <1>5, <1>6 DEF Environment, Watch

\* A step of a reload function keeps the types; the channel takes a configuration
\* only when it is empty.
LEMMA ReloadType ==
  ASSUME TypeOK, NEW r \in Reloads, Fire(r) \/ Reload(r)
  PROVE  TypeOK'
<1> USE DEF TypeOK, fileVars, watchVars, loadVars, chVars, applyVars
<1>1. CASE Fire(r) BY <1>1, ZenonT(60) DEF Fire
<1>2. CASE Load(r)
  <2>1. /\ reload' \in [Reloads -> {"idle", "load", "remove", "add", "send", "parked"}]
        /\ loaded' \in [Reloads -> Configs]
    BY <1>2, ZenonT(60) DEF Load
  <2>2. unseen' \in BOOLEAN BY <1>2, Zenon DEF Load
  <2> QED BY <1>2, <2>1, <2>2, Zenon DEF Load
<1>3. CASE RemoveWatch(r) BY <1>3, ZenonT(60) DEF RemoveWatch
<1>4. CASE AddWatch(r) BY <1>4, ZenonT(60) DEF AddWatch
<1>5. CASE Send(r)
  <2>1. ch' \in Seq(Configs) /\ Len(ch') <= 1
    <3>1. loaded[r] \in Configs OBVIOUS
    <3>2. <<loaded[r]>> \in Seq(Configs) /\ Len(<<loaded[r]>>) = 1 BY <3>1
    <3>3. ch' = ch \/ ch' = <<loaded[r]>> BY <1>5, Zenon DEF Send
    <3>4. CASE ch' = ch BY <3>4, Zenon
    <3>5. CASE ch' = <<loaded[r]>> BY <3>2, <3>5
    <3> QED BY <3>3, <3>4, <3>5
  <2>2. /\ reload' \in [Reloads -> {"idle", "load", "remove", "add", "send", "parked"}]
        /\ panicked' \in BOOLEAN
    BY <1>5, ZenonT(60) DEF Send
  <2> QED BY <1>5, <2>1, <2>2, Zenon DEF Send
<1> QED BY <1>1, <1>2, <1>3, <1>4, <1>5 DEF Reload

\* A step of main's goroutine keeps the types.
LEMMA ApplyType == TypeOK /\ Apply => TypeOK'
<1> SUFFICES ASSUME TypeOK, Apply PROVE TypeOK' OBVIOUS
<1> USE DEF TypeOK, fileVars, watchVars, loadVars, chVars, applyVars
<1>1. CASE Receive
  <2>1. ch' = <<>> /\ Head(ch) \in Configs BY <1>1 DEF Receive
  <2>2. ch' \in Seq(Configs) /\ Len(ch') <= 1 BY <2>1
  <2>3. newCfg' \in Configs /\ pending' \subseteq Sections
        /\ loop' \in {"range", "build", "classifier", "exited"}
    BY <1>1, <2>1 DEF Receive, RestartScoped
  <2> QED BY <1>1, <2>2, <2>3 DEF Receive
<1>2. CASE Reject BY <1>2 DEF Reject
<1>3. CASE SwapEngine BY <1>3, ZenonT(60) DEF SwapEngine
<1>4. CASE SwapDomainClassifier BY <1>4, ZenonT(60) DEF SwapDomainClassifier
<1>5. CASE Exit BY <1>5, Zenon DEF Exit
<1> QED BY <1>1, <1>2, <1>3, <1>4, <1>5 DEF Apply

\* Every variable keeps its type: in particular the channel of Watch never holds
\* more than the one configuration it has room for.
THEOREM ReloadTyped == Spec => []TypeOK
<1>1. Init => TypeOK
  <2> SUFFICES ASSUME Init PROVE TypeOK OBVIOUS
  <2>1. ch \in Seq(Configs) /\ Len(ch) <= 1 BY DEF Init
  <2>2. writes \in 0 .. MaxWrites /\ pending \subseteq Sections BY ReloadAssumption DEF Init
  <2>3. InitialConfig.engine \in {c.engine : c \in Configs} BY ReloadAssumption, Zenon
  <2> QED BY <2>1, <2>2, <2>3, ReloadAssumption, ZenonT(60) DEF Init, TypeOK
<1>2. TypeOK /\ [Next]_vars => TypeOK'
  <2> SUFFICES ASSUME TypeOK, [Next]_vars PROVE TypeOK' OBVIOUS
  <2>1. CASE UNCHANGED vars
    BY <2>1 DEF vars, TypeOK, fileVars, watchVars, loadVars, chVars, applyVars
  <2> QED BY <2>1, WatchType, ReloadType, ApplyType DEF Next
<1> QED BY <1>1, <1>2, PTL DEF Spec

=============================================================================
