----------------------------- MODULE HotReload -----------------------------
(***************************************************************************)
(* Configuration hot reload: config.Watcher (the watch goroutine and the   *)
(* reload functions its debounce timer starts), config.Diff, the goroutine *)
(* of main that applies configurations, and the pending restart changes of *)
(* the admin handler.  The watched file, fsnotify and the signal that      *)
(* cancels the context are the environment.                                *)
(*                                                                         *)
(* A configuration is a record with one field per section; its "engine"    *)
(* field stands for all that buildEngine and buildDomainClassifier read.   *)
(***************************************************************************)
EXTENDS Naturals, Sequences, FiniteSets

CONSTANTS
  Configs,        \* configurations that Load accepts
  InitialConfig,  \* the one the process started with
  BadEngines,     \* engine sections that buildEngine rejects
  WithPolicies,   \* engine sections that list policies
  Broken,         \* content that Load rejects
  Missing,        \* no file at the path
  Reloads,        \* reload functions that may run at the same time
  MayReplace,     \* whether the file may be moved away and created again
  MaxWrites       \* bound on the changes of the file

ASSUME ReloadAssumption ==
  /\ InitialConfig \in Configs
  /\ InitialConfig.engine \notin BadEngines
  /\ Broken \notin Configs /\ Missing \notin Configs
  /\ MayReplace \in BOOLEAN
  /\ MaxWrites \in Nat

VARIABLES
  file, writes,       \* content of the path; changes so far
  watched, events,    \* fsnotify watches the file; it has an event to deliver
  watching, timer,    \* the watch goroutine runs; its timer is armed
  reload, loaded,     \* where a reload function is and what it loaded
  ch, closed,         \* the channel of configurations
  loop, newCfg,       \* where the goroutine of main is; the received one
  currentCfg,         \* its currentCfg
  engine, classifier, \* engine sections the server uses for each
  pending,            \* Handler.pendingRestartChanges
  cancelled,          \* ctx is cancelled
  panicked,           \* a goroutine panicked
  unseen              \* history: since the last reload that loaded the file, the
                      \* file was replaced or written in the gap, or that reload
                      \* overlapped with another

fileVars  == <<file, writes>>
watchVars == <<watched, events, watching, timer>>
loadVars  == <<reload, loaded>>
chVars    == <<ch, closed>>
applyVars == <<loop, newCfg, currentCfg, engine, classifier, pending>>

vars == <<fileVars, watchVars, loadVars, chVars, applyVars, cancelled, panicked, unseen>>

Sections      == {"engine", "server", "storage", "tracing"}
RestartScoped == Sections \ {"engine"}

\* The sections that differ.
Diff(old, new) == {sec \in Sections : old[sec] # new[sec]}

TypeOK ==
  /\ file \in Configs \cup {Broken, Missing} /\ writes \in 0 .. MaxWrites
  /\ watched \in BOOLEAN /\ events \in BOOLEAN
  /\ watching \in BOOLEAN /\ timer \in BOOLEAN
  /\ reload \in [Reloads -> {"idle", "load", "remove", "add", "send", "parked"}]
  /\ loaded \in [Reloads -> Configs]
  /\ ch \in Seq(Configs) /\ Len(ch) <= 1 /\ closed \in BOOLEAN
  /\ loop \in {"range", "build", "classifier", "exited"}
  /\ newCfg \in Configs /\ currentCfg \in Configs
  /\ engine \in {c.engine : c \in Configs}
  /\ classifier \in {c.engine : c \in Configs}
  /\ pending \subseteq Sections
  /\ cancelled \in BOOLEAN /\ panicked \in BOOLEAN /\ unseen \in BOOLEAN

Init ==
  /\ file = InitialConfig /\ writes = 0
  /\ watched = TRUE /\ events = FALSE
  /\ watching = TRUE /\ timer = FALSE
  /\ reload = [r \in Reloads |-> "idle"]
  /\ loaded = [r \in Reloads |-> InitialConfig]
  /\ ch = <<>> /\ closed = FALSE
  /\ loop = "range" /\ newCfg = InitialConfig
  /\ currentCfg = InitialConfig
  /\ engine = InitialConfig.engine /\ classifier = InitialConfig.engine
  /\ pending = {}
  /\ cancelled = FALSE /\ panicked = FALSE /\ unseen = FALSE

-----------------------------------------------------------------------------
(* The file and the signal.                                                *)

\* A reload has read the file and has not renewed the watch yet.
InGap == \E r \in Reloads : reload[r] \in {"remove", "add"}

\* An in-place write: fsnotify has an event for a watched file.
Write(c) ==
  /\ writes < MaxWrites
  /\ file # Missing /\ c # file
  /\ file' = c /\ writes' = writes + 1
  /\ events' = (events \/ watched)
  /\ unseen' = (unseen \/ InGap)
  /\ UNCHANGED <<watched, watching, timer, loadVars, chVars, applyVars, cancelled, panicked>>

\* An editor renames the file and creates a new one.  The watch was on the old
\* file; its Rename event is of no kind the watch goroutine looks at.
MoveAway ==
  /\ MayReplace
  /\ writes < MaxWrites
  /\ file # Missing
  /\ file' = Missing /\ writes' = writes + 1
  /\ watched' = FALSE
  /\ UNCHANGED <<events, watching, timer, loadVars, chVars, applyVars, cancelled, panicked, unseen>>

Create(c) ==
  /\ file = Missing
  /\ file' = c
  /\ unseen' = TRUE
  /\ UNCHANGED <<writes, watchVars, loadVars, chVars, applyVars, cancelled, panicked>>

\* SIGINT or SIGTERM
Cancel ==
  /\ ~cancelled
  /\ cancelled' = TRUE
  /\ UNCHANGED <<fileVars, watchVars, loadVars, chVars, applyVars, panicked, unseen>>

-----------------------------------------------------------------------------
(* Watch.                                                                  *)

\* A Write or Create event restarts the debounce timer.
WatchEvent ==
  /\ watching
  /\ events
  /\ events' = FALSE
  /\ timer' = TRUE
  /\ UNCHANGED <<fileVars, watched, watching, loadVars, chVars, applyVars, cancelled, panicked, unseen>>

\* Mutant of WatchDone: the channel is not closed.
WatchDoneOpen ==
  /\ watching
  /\ cancelled
  /\ watching' = FALSE
  /\ timer' = FALSE
  /\ watched' = FALSE /\ events' = FALSE
  /\ UNCHANGED <<fileVars, loadVars, chVars, applyVars, cancelled, panicked, unseen>>

\* ctx.Done: the timer is stopped, the channel and the watcher are closed.
WatchDone ==
  /\ watching
  /\ cancelled
  /\ watching' = FALSE
  /\ timer' = FALSE
  /\ closed' = TRUE
  /\ watched' = FALSE /\ events' = FALSE
  /\ UNCHANGED <<fileVars, loadVars, ch, applyVars, cancelled, panicked, unseen>>

\* The timer runs reload on a goroutine of its own.
Fire(r) ==
  /\ timer
  /\ reload[r] = "idle"
  /\ timer' = FALSE
  /\ reload' = [reload EXCEPT ![r] = "load"]
  /\ UNCHANGED <<fileVars, watched, events, watching, loaded, chVars, applyVars, cancelled, panicked, unseen>>

\* Load; on an error reload returns.
Load(r) ==
  /\ reload[r] = "load"
  /\ \/ /\ file \in Configs
        /\ loaded' = [loaded EXCEPT ![r] = file]
        /\ reload' = [reload EXCEPT ![r] = "remove"]
        /\ unseen' = \E q \in Reloads \ {r} : reload[q] # "idle"
     \/ /\ file \notin Configs
        /\ reload' = [reload EXCEPT ![r] = "idle"]
        /\ UNCHANGED <<loaded, unseen>>
  /\ UNCHANGED <<fileVars, watchVars, chVars, applyVars, cancelled, panicked>>

\* fsw.Remove; an event that was not delivered yet may go with the watch.
RemoveWatch(r) ==
  /\ reload[r] = "remove"
  /\ watched' = FALSE
  /\ events' \in {events, FALSE}
  /\ reload' = [reload EXCEPT ![r] = "add"]
  /\ UNCHANGED <<fileVars, watching, timer, loaded, chVars, applyVars, cancelled, panicked, unseen>>

\* Mutant of AddWatch: the watch is not added again.
AddWatchNot(r) ==
  /\ reload[r] = "add"
  /\ reload' = [reload EXCEPT ![r] = "send"]
  /\ UNCHANGED <<fileVars, watchVars, loaded, chVars, applyVars, cancelled, panicked, unseen>>

\* fsw.Add fails without a file and after fsw.Close; the error is logged.
AddWatch(r) ==
  /\ reload[r] = "add"
  /\ watched' = (watching /\ file # Missing)
  /\ reload' = [reload EXCEPT ![r] = "send"]
  /\ UNCHANGED <<fileVars, events, watching, timer, loaded, chVars, applyVars, cancelled, panicked, unseen>>

\* Mutant of Send: the channel takes any number of configurations.
SendUnbounded(r) ==
  /\ reload[r] = "send"
  /\ ch' = Append(ch, loaded[r])
  /\ reload' = [reload EXCEPT ![r] = "idle"]
  /\ UNCHANGED <<fileVars, watchVars, loaded, closed, applyVars, cancelled, panicked, unseen>>

\* The select statement that sends the configuration.  A goroutine parks when
\* no case is ready; it is then woken by the first that is.  The send case on
\* a closed channel is ready and panics.
Send(r) ==
  /\ reload[r] \in {"send", "parked"}
  /\ \/ /\ ~closed /\ ch = <<>>
        /\ ch' = <<loaded[r]>>
        /\ reload' = [reload EXCEPT ![r] = "idle"]
        /\ UNCHANGED panicked
     \/ /\ cancelled
        /\ reload' = [reload EXCEPT ![r] = "idle"]
        /\ UNCHANGED <<ch, panicked>>
     \/ /\ reload[r] = "send"
        /\ ~closed /\ ch # <<>> /\ ~cancelled
        /\ reload' = [reload EXCEPT ![r] = "parked"]
        /\ UNCHANGED <<ch, panicked>>
     \/ /\ reload[r] = "send"
        /\ closed
        /\ panicked' = TRUE
        /\ UNCHANGED <<ch, reload>>
  /\ UNCHANGED <<fileVars, watchVars, loaded, closed, applyVars, cancelled, unseen>>

-----------------------------------------------------------------------------
(* The goroutine of main that applies configurations.                      *)

\* The next configuration: without differences it is skipped, else the restart
\* changes are handed to the admin handler before anything is built.
Receive ==
  /\ loop = "range"
  /\ ch # <<>>
  /\ ch' = <<>>
  /\ \/ /\ Diff(currentCfg, Head(ch)) = {}
        /\ UNCHANGED <<loop, newCfg, pending>>
     \/ /\ Diff(currentCfg, Head(ch)) # {}
        /\ newCfg' = Head(ch)
        /\ pending' = Diff(currentCfg, Head(ch)) \cap RestartScoped
        /\ loop' = "build"
  /\ UNCHANGED <<fileVars, watchVars, loadVars, closed, currentCfg, engine, classifier,
                 cancelled, panicked, unseen>>

\* Mutant of Reject: the rejected configuration becomes the current one.
RejectCurrent ==
  /\ loop = "build"
  /\ newCfg.engine \in BadEngines
  /\ loop' = "range"
  /\ currentCfg' = newCfg
  /\ UNCHANGED <<fileVars, watchVars, loadVars, chVars, newCfg, engine, classifier,
                 pending, cancelled, panicked, unseen>>

\* buildEngine fails and the current engine is kept.  buildDomainClassifier
\* compiles patterns that buildEngine has compiled: it fails with it.
Reject ==
  /\ loop = "build"
  /\ newCfg.engine \in BadEngines
  /\ loop' = "range"
  /\ UNCHANGED <<fileVars, watchVars, loadVars, chVars, newCfg, currentCfg, engine,
                 classifier, pending, cancelled, panicked, unseen>>

\* The type of the engine that buildEngine makes of an engine section.
EngineType(e) == IF e \in WithPolicies THEN "policy.Engine" ELSE "quota.DefaultEngine"

\* engine.Store: an atomic.Value panics when it is given a value of another
\* type than the one it holds.
SwapEngine ==
  /\ loop = "build"
  /\ newCfg.engine \notin BadEngines
  /\ \/ /\ EngineType(newCfg.engine) = EngineType(engine)
        /\ engine' = newCfg.engine
        /\ loop' = "classifier"
        /\ UNCHANGED panicked
     \/ /\ EngineType(newCfg.engine) # EngineType(engine)
        /\ panicked' = TRUE
        /\ UNCHANGED <<engine, loop>>
  /\ UNCHANGED <<fileVars, watchVars, loadVars, chVars, newCfg, currentCfg, classifier,
                 pending, cancelled, unseen>>

SwapDomainClassifier ==
  /\ loop = "classifier"
  /\ classifier' = newCfg.engine
  /\ currentCfg' = newCfg
  /\ loop' = "range"
  /\ UNCHANGED <<fileVars, watchVars, loadVars, chVars, newCfg, engine, pending,
                 cancelled, panicked, unseen>>

\* range ends when the channel is closed and drained.
Exit ==
  /\ loop = "range"
  /\ closed /\ ch = <<>>
  /\ loop' = "exited"
  /\ UNCHANGED <<fileVars, watchVars, loadVars, chVars, newCfg, currentCfg, engine,
                 classifier, pending, cancelled, panicked, unseen>>

-----------------------------------------------------------------------------

Reload(r) == Load(r) \/ RemoveWatch(r) \/ AddWatch(r) \/ Send(r)

Watch == WatchEvent \/ WatchDone

Apply == Receive \/ Reject \/ SwapEngine \/ SwapDomainClassifier \/ Exit

Environment ==
  \/ \E c \in Configs \cup {Broken} : Write(c) \/ Create(c)
  \/ MoveAway
  \/ Cancel

Next ==
  /\ ~panicked
  /\ \/ Environment
     \/ Watch
     \/ \E r \in Reloads : Fire(r) \/ Reload(r)
     \/ Apply

Spec == Init /\ [][Next]_vars

\* Goroutines and timers run; a file that was moved away is created again.
FairSpec ==
  /\ Spec
  /\ WF_vars(~panicked /\ WatchEvent)
  /\ WF_vars(~panicked /\ WatchDone)
  /\ \A r \in Reloads : WF_vars(~panicked /\ Fire(r)) /\ WF_vars(~panicked /\ Reload(r))
  /\ WF_vars(~panicked /\ Apply)
  /\ WF_vars(~panicked /\ \E c \in Configs : Create(c))

-----------------------------------------------------------------------------
(* Properties.                                                             *)

\* A reload is applied as a whole or not at all: between reloads the engine
\* and the classifier are those of currentCfg, also after a rejected one.
ReloadAtomic ==
  loop = "range" => engine = currentCfg.engine /\ classifier = currentCfg.engine

\* Between reloads the admin endpoint lists every section in which the last
\* applied configuration differs from the one the process runs with: a section
\* stays pending until the restart.
PendingKept ==
  loop = "range" => Diff(InitialConfig, currentCfg) \cap RestartScoped \subseteq pending

\* A configuration that stays in the file, and that buildEngine accepts, is
\* applied, whatever broken or rejected ones came before it (Watch, reload and
\* the goroutine of main).  Only these can defeat it: a file that is replaced, a
\* write before reload has renewed the watch, reloads that overlap, and a panic.
Converges ==
  \A c \in Configs :
    (file = c /\ c.engine \notin BadEngines)
      ~> (currentCfg = c \/ file # c \/ cancelled \/ panicked \/ unseen)

\* "SwapEngine atomically replaces the quota engine": a configuration that
\* stays in the file, that the watch sees and buildEngine accepts, is applied,
\* with or without policies, and the process goes on.
EngineReplaced ==
  \A c \in Configs :
    (file = c /\ c.engine \notin BadEngines)
      ~> (currentCfg = c \/ file # c \/ cancelled \/ unseen)

\* After the context is cancelled the channel is closed, and the goroutine of
\* main and every reload function return, unless one of them panicked.
ShutdownCompletes ==
  cancelled ~> (panicked \/ (closed /\ loop = "exited"
                             /\ \A r \in Reloads : reload[r] = "idle"))

=============================================================================
