------------------------------ MODULE Lifecycle ------------------------------
(***************************************************************************)
(* How the process stops (App.Start in api/app.go, serveHTTPs and          *)
(* WaitTermSig in api/server.go and server/graceful.go, serveFastHTTPs in  *)
(* api/fasthttp_server.go).  One goroutine accepts connections, one waits  *)
(* for a signal and shuts the server down, and the one that called Start   *)
(* waits for the latter, stops the rest, and returns: then the process     *)
(* ends, whatever still runs.                                              *)
(* A connection is one that has a handler: a request, or the event stream  *)
(* of a client, which lasts until the client leaves or the hub is stopped. *)
(***************************************************************************)
EXTENDS Naturals

CONSTANTS
  Conn,
  Servers   \* among "net/http" and "fasthttp"

VARIABLES
  server,    \* App.useFastHttp, fixed
  conn,      \* "none", "open", "ended", or "cut" when the process ended first
  listening, \* the listener is open
  accepting, \* the goroutine of Serve has not returned
  watcher,   \* the goroutine of WaitTermSig
  draining,  \* the goroutine of Shutdown: "none", "begins", "waits" or "done"
  late,      \* the ten seconds of the shutdown are over
  verdict,   \* what the watcher logs of it: "none", "succeed" or "failed"
  main       \* the goroutine of Start, and of the application's main after it

stopping == <<watcher, draining, late, verdict>>
vars == <<server, conn, listening, accepting, stopping, main>>

Open == {c \in Conn : conn[c] = "open"}
Running == main \notin {"exited", "fatal"}

\* The process ends.
End(how) ==
  /\ main' = how
  /\ conn' = [c \in Conn |-> IF c \in Open THEN "cut" ELSE conn[c]]
  /\ UNCHANGED <<server, listening, accepting, stopping>>

-----------------------------------------------------------------------------
(* Serving *)

Accept(c) ==
  /\ Running /\ listening /\ accepting
  /\ conn[c] = "none"
  /\ conn' = [conn EXCEPT ![c] = "open"]
  /\ UNCHANGED <<server, listening, accepting, stopping, main>>

\* The handler returns; that of a stream when its client leaves, or Stop of the
\* hub ends it, for which it is too late: Shutdown waits for it first.
Answer(c) ==
  /\ Running
  /\ c \in Open
  /\ conn' = [conn EXCEPT ![c] = "ended"]
  /\ UNCHANGED <<server, listening, accepting, stopping, main>>

\* Serve returns ErrServerClosed, or nil for fasthttp, which is expected.
ServeReturns ==
  /\ Running /\ accepting /\ ~listening
  /\ accepting' = FALSE
  /\ UNCHANGED <<server, conn, listening, stopping, main>>

\* It returns any other error: log.Fatal.
ServeFails ==
  /\ Running /\ accepting /\ listening
  /\ End("fatal")

-----------------------------------------------------------------------------
(* WaitTermSig and its handler *)

\* A signal, or the end of the application's context; cancel() lets the
\* handler go on.
Signal ==
  /\ Running /\ watcher = "waiting"
  /\ watcher' = "handling"
  /\ UNCHANGED <<server, conn, listening, accepting, draining, late, verdict, main>>

\* The handler of serveHTTPs starts the time-out and the goroutine of Shutdown.
BeginShutdown ==
  /\ Running /\ watcher = "handling" /\ server = "net/http"
  /\ watcher' = "selecting"
  /\ draining' = "begins"
  /\ UNCHANGED <<server, conn, listening, accepting, late, verdict, main>>

\* Shutdown closes the listener first.
CloseListener ==
  /\ Running /\ draining = "begins"
  /\ draining' = "waits"
  /\ listening' = FALSE
  /\ UNCHANGED <<server, conn, accepting, watcher, late, verdict, main>>

\* It returns when no connection is open, or at the end of its context.
ShutdownReturns ==
  /\ Running /\ draining = "waits"
  /\ Open = {} \/ late
  /\ draining' = "done"
  /\ UNCHANGED <<server, conn, listening, accepting, watcher, late, verdict, main>>

\* Mutant: the shutdown has no deadline.
NeverTooLate == FALSE /\ UNCHANGED vars

TooLate ==
  /\ Running /\ watcher = "selecting" /\ ~late
  /\ late' = TRUE
  /\ UNCHANGED <<server, conn, listening, accepting, watcher, draining, verdict, main>>

\* The select between the deadline and the end of Shutdown; when both are
\* there, either.  Then the channel main waits for is closed.
Select ==
  /\ Running /\ watcher = "selecting"
  /\ \/ late /\ verdict' = "failed"
     \/ draining = "done" /\ verdict' = "succeed"
  /\ watcher' = "closed"
  /\ UNCHANGED <<server, conn, listening, accepting, draining, late, main>>

\* The handler of serveFastHTTPs closes the listener, and that is all.
CloseFastListener ==
  /\ Running /\ watcher = "handling" /\ server = "fasthttp"
  /\ listening' = FALSE
  /\ verdict' = "succeed"
  /\ watcher' = "closed"
  /\ UNCHANGED <<server, conn, accepting, draining, late, main>>

-----------------------------------------------------------------------------
(* Start: what it deferred runs in reverse order. *)

MainGoes(from, to) ==
  /\ main = from
  /\ main' = to
  /\ UNCHANGED <<server, conn, listening, accepting, stopping>>

\* Mutant: main waits for Serve, which returns when Shutdown has begun.
ServerStopsWithServe == ~accepting /\ MainGoes("blocked", "stopTraces")

\* `<-sign'
ServerStopped == watcher = "closed" /\ MainGoes("blocked", "stopTraces")

StopTraces == MainGoes("stopTraces", "stopHub")  \* otelTp.Shutdown, five seconds at most
StopHub == MainGoes("stopHub", "stopCron")       \* sseEvent.Stop
StopCron == MainGoes("stopCron", "returned")     \* cron.Stop, which waits for no job
Exit == main = "returned" /\ End("exited")

Init ==
  /\ server \in Servers
  /\ conn = [c \in Conn |-> "none"]
  /\ listening = TRUE
  /\ accepting = TRUE
  /\ watcher = "waiting"
  /\ draining = "none"
  /\ late = FALSE
  /\ verdict = "none"
  /\ main = "blocked"

Shutdown ==
  \/ BeginShutdown \/ CloseListener \/ ShutdownReturns \/ TooLate \/ Select
  \/ CloseFastListener

Return == ServerStopped \/ StopTraces \/ StopHub \/ StopCron \/ Exit

Next ==
  \/ \E c \in Conn : Accept(c) \/ Answer(c)
  \/ ServeReturns \/ ServeFails \/ Signal
  \/ Shutdown
  \/ Return

Spec == Init /\ [][Next]_vars

-----------------------------------------------------------------------------
(* Properties *)

\* Stopping is graceful: "Start() serves the HTTP server with graceful
\* shutdown" (docs/api.md).  A connection that was accepted has ended before
\* the process ends, and the shutdown is said to have succeeded when all were,
\* unless the ten seconds were over (serveHTTPs, WaitTermSig).
StopsGracefully ==
  /\ \A c \in Conn : conn[c] = "cut" => late \/ main = "fatal"
  /\ verdict = "succeed" /\ main = "blocked" => Open = {} \/ late

\* A process that has got its signal ends, also when a handler never returns
\* or a client never leaves its stream (the deadline of the shutdown).
StopEnds == watcher # "waiting" ~> ~Running
=============================================================================
