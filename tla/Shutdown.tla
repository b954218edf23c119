------------------------------ MODULE Shutdown ------------------------------
(***************************************************************************)
(* The life of one process: main after SIGTERM, its goroutine that stops   *)
(* the gRPC server gracefully, the ten seconds they have, and the streams  *)
(* the server accepts, drains or cuts.  The gRPC and HTTP servers are      *)
(* modelled from how main and server.Server use them: GracefulStop refuses *)
(* new streams, tells the clients of the open ones to go away and waits    *)
(* for the handlers; Stop closes the transports and waits for nobody; the  *)
(* shutdown of the HTTP server waits for the requests in progress or for   *)
(* its context.                                                            *)
(***************************************************************************)
CONSTANT Streams

VARIABLES
  main,       \* where main is
  late,       \* shutdownCtx has expired
  scraping,   \* an HTTP request is in progress
  stopper,    \* where the goroutine around GracefulStop is
  healthy,    \* the health server says SERVING
  listening,  \* the gRPC server accepts streams
  open,       \* streams with a transport
  running,    \* streams with a handler that has not returned
  told,       \* streams whose client was told to go away
  cut,        \* history: streams cut by Stop without being told
  starved     \* history: the ten seconds ended before GracefulStop told the clients

processVars == <<main, late, scraping, stopper, healthy, listening, open, running, told, cut, starved>>

ProcessTypeOK ==
  /\ main \in {"serving", "metrics", "drain", "flush", "exited"}
  /\ stopper \in {"none", "health", "stop", "wait", "stopped"}
  /\ late \in BOOLEAN /\ scraping \in BOOLEAN /\ healthy \in BOOLEAN
  /\ listening \in BOOLEAN /\ starved \in BOOLEAN
  /\ open \subseteq Streams /\ running \subseteq Streams
  /\ told \subseteq Streams /\ cut \subseteq Streams

ProcessInit ==
  /\ main = "serving" /\ stopper = "none"
  /\ late = FALSE /\ scraping = FALSE
  /\ healthy = TRUE /\ listening = TRUE
  /\ open = {} /\ running = {} /\ told = {}
  /\ cut = {} /\ starved = FALSE

-----------------------------------------------------------------------------
(* Clients.                                                                *)

\* New streams are accepted until GracefulStop or Stop closes the listener, also
\* while main waits for the metrics server.
Connect(s) ==
  /\ listening /\ s \notin running
  /\ open' = open \cup {s}
  /\ running' = running \cup {s}
  /\ UNCHANGED <<main, late, scraping, stopper, healthy, listening, told, cut, starved>>

Disconnect(s) ==
  /\ s \in open
  /\ open' = open \ {s}
  /\ UNCHANGED <<main, late, scraping, stopper, healthy, listening, running, told, cut, starved>>

\* The handler returns, its deferred cleanup done.
Return(s) ==
  /\ s \in running \ open
  /\ running' = running \ {s}
  /\ UNCHANGED <<main, late, scraping, stopper, healthy, listening, open, told, cut, starved>>

\* A request to /metrics or an admin endpoint.  Shutdown closes the listener.
Scrape ==
  /\ \/ main = "serving" /\ ~scraping
     \/ main # "exited" /\ scraping
  /\ scraping' = ~scraping
  /\ UNCHANGED <<main, late, stopper, healthy, listening, open, running, told, cut, starved>>

-----------------------------------------------------------------------------
(* main.                                                                   *)

Signal ==
  /\ main = "serving"
  /\ main' = "metrics"
  /\ UNCHANGED <<late, scraping, stopper, healthy, listening, open, running, told, cut, starved>>

\* The ten seconds count from the signal and may end at every step of main and of
\* the goroutine.
Deadline ==
  /\ main \in {"metrics", "drain"} /\ ~late
  /\ late' = TRUE
  /\ starved' = (stopper \in {"none", "health", "stop"})
  /\ UNCHANGED <<main, scraping, stopper, healthy, listening, open, running, told, cut>>

\* metricsServer.Shutdown returns and the goroutine is started.
MetricsStopped ==
  /\ main = "metrics"
  /\ ~scraping \/ late
  /\ main' = "drain"
  /\ stopper' = "health"
  /\ UNCHANGED <<late, scraping, healthy, listening, open, running, told, cut, starved>>

\* The select, when the goroutine has closed its channel.
Drained ==
  /\ main = "drain" /\ stopper = "stopped"
  /\ main' = "flush"
  /\ UNCHANGED <<late, scraping, stopper, healthy, listening, open, running, told, cut, starved>>

\* Mutant of ForceStop: main waits for the goroutine.
ForceStopNever ==
  /\ main = "drain" /\ late /\ stopper = "stopped"
  /\ main' = "flush"
  /\ UNCHANGED <<late, scraping, stopper, healthy, listening, open, running, told, cut, starved>>

\* The select, when the deadline has passed: Stop cuts the streams.
ForceStop ==
  /\ main = "drain" /\ late
  /\ main' = "flush"
  /\ listening' = FALSE
  /\ cut' = cut \cup (open \ told)
  /\ open' = {}
  /\ UNCHANGED <<late, scraping, stopper, healthy, running, told, starved>>

\* The deferred calls have returned, or the process crashes: handlers that are
\* still running are gone with it.
Exit ==
  /\ main' = "exited"
  /\ stopper' = "none"
  /\ late' = FALSE /\ scraping' = FALSE /\ healthy' = FALSE /\ listening' = FALSE
  /\ open' = {} /\ running' = {} /\ told' = {} /\ cut' = {} /\ starved' = FALSE

Flushed == main = "flush" /\ Exit

Crash == main \notin {"flush", "exited"} /\ Exit

\* A new process: buildStore to Serve.
Start ==
  /\ main = "exited"
  /\ main' = "serving"
  /\ healthy' = TRUE /\ listening' = TRUE
  /\ UNCHANGED <<late, scraping, stopper, open, running, told, cut, starved>>

-----------------------------------------------------------------------------
(* The goroutine: Server.GracefulStop, then close(stopped).                *)

NotServing ==
  /\ stopper = "health"
  /\ stopper' = "stop"
  /\ healthy' = FALSE
  /\ UNCHANGED <<main, late, scraping, listening, open, running, told, cut, starved>>

\* Mutant of GoAway: the clients are not told.
GoAwaySilent ==
  /\ stopper = "stop"
  /\ stopper' = "wait"
  /\ listening' = FALSE
  /\ UNCHANGED <<main, late, scraping, healthy, open, running, told, cut, starved>>

GoAway ==
  /\ stopper = "stop"
  /\ stopper' = "wait"
  /\ listening' = FALSE
  /\ told' = told \cup open
  /\ UNCHANGED <<main, late, scraping, healthy, open, running, cut, starved>>

\* Mutant of Stopped: only the transports are waited for.
StoppedEarly ==
  /\ stopper = "wait" /\ open = {}
  /\ stopper' = "stopped"
  /\ UNCHANGED <<main, late, scraping, healthy, listening, open, running, told, cut, starved>>

Stopped ==
  /\ stopper = "wait" /\ running = {}
  /\ stopper' = "stopped"
  /\ UNCHANGED <<main, late, scraping, healthy, listening, open, running, told, cut, starved>>

Stopper == NotServing \/ GoAway \/ Stopped

Main == Signal \/ Deadline \/ MetricsStopped \/ Drained \/ ForceStop

=============================================================================
