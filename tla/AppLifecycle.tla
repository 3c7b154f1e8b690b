---------------------------- MODULE AppLifecycle ----------------------------
(***************************************************************************)
(* The life of the service process (cmd/app, internal/app.RunContext and   *)
(* pkg/httpserver): main loads the configuration, acquires telemetry and   *)
(* the database pool, starts the server and waits for the context or the   *)
(* server's terminal result; on every way out RunContext releases what it  *)
(* acquired, in reverse order.                                             *)
(*                                                                         *)
(* Main, the serving goroutine and the handlers run concurrently.  From    *)
(* net/http: Shutdown closes the listener at once, so that Serve returns   *)
(* ErrServerClosed, and then waits for the active requests, but not longer *)
(* than its context; handlers are never interrupted.  From pgxpool: Close  *)
(* refuses new acquisitions and waits until every connection is back.      *)
(* From the OpenTelemetry SDK: with an exporter, the span of a sampled     *)
(* request is queued when it ends and exported in the background, and      *)
(* provider.Shutdown exports the queue; a span that ends later is dropped. *)
(***************************************************************************)
EXTENDS Configuration, Sequences

CONSTANTS Requests,
          Environments  \* what the process may find in its environment

VARIABLES env,       \* the environment, while startup reads it
          main,      \* where main and RunContext are
          ctxDone,   \* SIGTERM, interrupt or the caller's cancellation
          tracing,   \* the telemetry provider, with or without an exporter
          pool,      \* the database pool
          serve,     \* the serving goroutine
          stopping,  \* Server.Shutdown has been called
          notify,    \* the results in the notify channel
          request,   \* each request's handler
          span,      \* each request's span
          serveErr,  \* the local variable of RunContext
          runErr     \* the errors RunContext returns, joined

vars == <<env, main, ctxDone, tracing, pool, serve, stopping, notify, request, span, serveErr, runErr>>

Handling == {"active", "querying"}

Open == {"quiet", "exporting"}

\* make(chan error, 1).
NotifyUnbuffered == 0
NotifyCapacity == 1

Init ==
  /\ env \in Environments
  /\ main = "load"
  /\ ctxDone = FALSE
  /\ tracing = "none"
  /\ pool = "none"
  /\ serve = "none"
  /\ stopping = FALSE
  /\ notify = <<>>
  /\ request = [r \in Requests |-> "none"]
  /\ span = [r \in Requests |-> "none"]
  /\ serveErr = {}
  /\ runErr = {}

server == <<serve, stopping, notify, request, span, serveErr>>

-----------------------------------------------------------------------------
(***************************************************************************)
(* main.                                                                   *)
(***************************************************************************)
\* config.Load.
Load ==
  /\ main = "load"
  /\ main' = IF load(env) THEN "logger" ELSE "exit"
  /\ runErr' = IF load(env) THEN {} ELSE {"load"}
  /\ UNCHANGED <<env, ctxDone, tracing, pool, server>>

\* logger.Init; RunContext begins with the level accepted.
InitLogger ==
  /\ main = "logger"
  /\ main' = IF KnownLevel(Config(env)) THEN "config" ELSE "exit"
  /\ runErr' = IF KnownLevel(Config(env)) THEN {} ELSE {"logger"}
  /\ UNCHANGED <<env, ctxDone, tracing, pool, server>>

-----------------------------------------------------------------------------
(***************************************************************************)
(* RunContext.  A step of the startup that fails sets the error and leaves *)
(* the rest to the deferred calls.                                         *)
(***************************************************************************)
\* cfg.Validate and the cursor codec.
Configure ==
  LET accepted == Validate(Config(env)) /\ CursorCodec(Config(env))
  IN /\ main = "config"
     /\ main' = IF accepted THEN "telemetry" ELSE "closePool"
     /\ runErr' = IF accepted THEN {} ELSE {"config"}
     /\ UNCHANGED <<env, ctxDone, tracing, pool, server>>

\* telemetry.New, and its shutdown is deferred.
OpenTelemetry ==
  LET accepted == normalizeConfig(Config(env))
  IN /\ main = "telemetry"
     /\ main' = IF accepted THEN "pool" ELSE "closePool"
     /\ tracing' = IF ~accepted THEN "none"
                   ELSE IF ExporterScheme(Config(env)) = "none" THEN "quiet" ELSE "exporting"
     /\ runErr' = IF accepted THEN {} ELSE {"provider"}
     /\ UNCHANGED <<env, ctxDone, pool, server>>

\* pgxpool.New, and pool.Close is deferred.
OpenPool ==
  /\ main = "pool"
  /\ main' = "ping"
  /\ pool' = "open"
  /\ UNCHANGED <<env, ctxDone, tracing, server, runErr>>

Ping ==
  /\ main = "ping"
  /\ ~ctxDone
  /\ main' = "wire"
  /\ UNCHANGED <<env, ctxDone, tracing, pool, server, runErr>>

\* The exporter, the database driver or the database reports an error.
StartupFails ==
  /\ \/ main \in {"pool", "ping"}
     \/ main = "telemetry" /\ ExporterScheme(Config(env)) # "none"
  /\ main' = "closePool"
  /\ runErr' = {"startup"}
  /\ UNCHANGED <<env, ctxDone, tracing, pool, server>>

\* Authentication and limiter are made, and server.Start is called; from here
\* on nobody reads the environment.
StartServer ==
  LET accepted == NewBearerSHA256(Config(env)) /\ NewLimiter(Config(env))
  IN /\ main = "wire"
     /\ main' = IF accepted THEN "select" ELSE "closePool"
     /\ serve' = IF accepted THEN "starting" ELSE serve
     /\ env' = IF accepted THEN <<>> ELSE env
     /\ runErr' = IF accepted THEN {} ELSE {"wire"}
     /\ UNCHANGED <<ctxDone, tracing, pool, stopping, notify, request, span, serveErr>>

\* The select statement: with both cases ready, either is taken.
SelectDone ==
  /\ main = "select"
  /\ ctxDone
  /\ main' = "stop"
  /\ UNCHANGED <<env, ctxDone, tracing, pool, server, runErr>>

SelectNotify ==
  /\ main = "select"
  /\ notify # <<>>
  /\ main' = "stop"
  /\ serveErr' = IF Head(notify) = "failed" THEN {"serve"} ELSE {}
  /\ notify' = Tail(notify)
  /\ UNCHANGED <<env, ctxDone, tracing, pool, serve, stopping, request, span, runErr>>

\* server.Shutdown is called ...
Shutdown ==
  /\ main = "stop"
  /\ main' = "draining"
  /\ stopping' = TRUE
  /\ UNCHANGED <<env, ctxDone, tracing, pool, serve, notify, request, span, serveErr, runErr>>

\* ... and returns once no request is active,
Drained ==
  /\ main = "draining"
  /\ \A r \in Requests : request[r] \notin Handling
  /\ main' = "closePool"
  /\ runErr' = serveErr
  /\ UNCHANGED <<env, ctxDone, tracing, pool, server>>

\* or with an error, after the timeout or because the listener did not close.
\* RunContext returns that error in place of serveErr.
ShutdownFails ==
  /\ main = "draining"
  /\ main' = "closePool"
  /\ runErr' = {"shutdown"}
  /\ UNCHANGED <<env, ctxDone, tracing, pool, server>>

\* The deferred pool.Close, if there is a pool, ...
ClosePoolNotDeferred ==
  /\ main = "closePool"
  /\ main' = "closeTelemetry"
  /\ UNCHANGED <<env, ctxDone, tracing, pool, server, runErr>>
ClosePool ==
  /\ main = "closePool"
  /\ main' = IF pool = "open" THEN "closingPool" ELSE "closeTelemetry"
  /\ pool' = IF pool = "open" THEN "closing" ELSE pool
  /\ UNCHANGED <<env, ctxDone, tracing, server, runErr>>

\* ... which waits for the connections in use.
PoolClosed ==
  /\ main = "closingPool"
  /\ \A r \in Requests : request[r] # "querying"
  /\ main' = "closeTelemetry"
  /\ pool' = "closed"
  /\ UNCHANGED <<env, ctxDone, tracing, server, runErr>>

\* The deferred tracing.Shutdown exports the queue within its timeout, or
\* fails with some of it left; its error is joined to the others.
CloseTelemetryUnflushed ==
  /\ main = "closeTelemetry"
  /\ main' = "exit"
  /\ tracing' = IF tracing \in Open THEN "closed" ELSE tracing
  /\ UNCHANGED <<env, ctxDone, pool, server, runErr>>
CloseTelemetryDropsError ==
  LET queue == {r \in Requests : span[r] = "queued"}
  IN /\ main = "closeTelemetry"
     /\ main' = "exit"
     /\ tracing' = IF tracing \in Open THEN "closed" ELSE tracing
     /\ span' = [r \in Requests |-> IF r \in queue THEN "exported" ELSE span[r]]
     /\ runErr' \in {runErr} \cup (IF tracing \in Open THEN {{"telemetry"}} ELSE {})
     /\ UNCHANGED <<env, ctxDone, pool, serve, stopping, notify, request, serveErr>>
CloseTelemetry ==
  LET queue == {r \in Requests : span[r] = "queued"}
  IN /\ main = "closeTelemetry"
     /\ main' = "exit"
     /\ tracing' = IF tracing \in Open THEN "closed" ELSE tracing
     /\ \E exported \in SUBSET queue :
          /\ span' = [r \in Requests |-> IF r \in exported THEN "exported" ELSE span[r]]
          /\ \/ exported = queue /\ runErr' = runErr
             \/ tracing \in Open /\ runErr' = runErr \cup {"telemetry"}
     /\ UNCHANGED <<env, ctxDone, pool, serve, stopping, notify, request, serveErr>>

Main ==
  \/ Load \/ InitLogger \/ Configure \/ OpenTelemetry \/ OpenPool \/ Ping \/ StartServer \/ StartupFails
  \/ SelectDone \/ SelectNotify \/ Shutdown \/ Drained \/ ShutdownFails
  \/ ClosePool \/ PoolClosed \/ CloseTelemetry

-----------------------------------------------------------------------------
(***************************************************************************)
(* The serving goroutine of Server.Start.                                  *)
(***************************************************************************)
Listen ==
  /\ serve = "starting"
  /\ ~stopping
  /\ serve' = "serving"
  /\ UNCHANGED <<env, main, ctxDone, tracing, pool, stopping, notify, request, span, serveErr, runErr>>

\* The address is taken, or accepting fails for good.
ServeFails ==
  /\ serve \in {"starting", "serving"}
  /\ ~stopping
  /\ serve' = "failed"
  /\ UNCHANGED <<env, main, ctxDone, tracing, pool, stopping, notify, request, span, serveErr, runErr>>

ServeReturns ==
  /\ serve \in {"starting", "serving"}
  /\ stopping
  /\ serve' = "closed"
  /\ UNCHANGED <<env, main, ctxDone, tracing, pool, stopping, notify, request, span, serveErr, runErr>>

\* notify <- err, which needs a free slot or main waiting for it; then the
\* goroutine closes the channel and ends.
Notify ==
  /\ serve \in {"failed", "closed"}
  /\ Len(notify) < NotifyCapacity \/ main = "select"
  /\ notify' = Append(notify, serve)
  /\ serve' = "ended"
  /\ UNCHANGED <<env, main, ctxDone, tracing, pool, stopping, request, span, serveErr, runErr>>

Serving == Listen \/ ServeReturns \/ Notify

-----------------------------------------------------------------------------
(***************************************************************************)
(* Handlers.                                                               *)
(***************************************************************************)
Accept(r) ==
  /\ request[r] = "none"
  /\ serve = "serving"
  /\ ~stopping
  /\ request' = [request EXCEPT ![r] = "active"]
  /\ UNCHANGED <<env, main, ctxDone, tracing, pool, serve, stopping, notify, span, serveErr, runErr>>

\* A store call takes a connection; a closing pool refuses.
Query(r) ==
  /\ request[r] = "active"
  /\ pool = "open"
  /\ request' = [request EXCEPT ![r] = "querying"]
  /\ UNCHANGED <<env, main, ctxDone, tracing, pool, serve, stopping, notify, span, serveErr, runErr>>

Queried(r) ==
  /\ request[r] = "querying"
  /\ request' = [request EXCEPT ![r] = "active"]
  /\ UNCHANGED <<env, main, ctxDone, tracing, pool, serve, stopping, notify, span, serveErr, runErr>>

\* The tracing middleware ends the span when the handlers are done.
Respond(r) ==
  /\ request[r] = "active"
  /\ request' = [request EXCEPT ![r] = "done"]
  /\ \/ UNCHANGED span  \* not sampled
     \/ tracing = "exporting" /\ span' = [span EXCEPT ![r] = "queued"]
     \/ tracing = "closed" /\ span' = [span EXCEPT ![r] = "dropped"]
  /\ UNCHANGED <<env, main, ctxDone, tracing, pool, serve, stopping, notify, serveErr, runErr>>

\* The batch processor's goroutine.
Export(r) ==
  /\ span[r] = "queued"
  /\ tracing = "exporting"
  /\ span' = [span EXCEPT ![r] = "exported"]
  /\ UNCHANGED <<env, main, ctxDone, tracing, pool, serve, stopping, notify, request, serveErr, runErr>>

\* Run has the signals end the context; before it a signal ends the process.
Signal ==
  /\ main \notin {"load", "logger"}
  /\ ~ctxDone
  /\ ctxDone' = TRUE
  /\ UNCHANGED <<env, main, tracing, pool, server, runErr>>

Next ==
  \/ Main \/ Serving \/ ServeFails \/ Signal
  \/ \E r \in Requests : Accept(r) \/ Query(r) \/ Queried(r) \/ Respond(r) \/ Export(r)

Spec == Init /\ [][Next]_vars

\* Goroutines are scheduled, and a query comes back, with a result or an error.
Fairness == WF_vars(Main) /\ WF_vars(Serving) /\ \A r \in Requests : WF_vars(Queried(r))

FairSpec == Spec /\ Fairness

-----------------------------------------------------------------------------
\* RunContext reports success only after every accepted request was answered:
\* a request cut off by the shutdown timeout shows in the result, even when
\* telemetry fails as well.
CutOffReported ==
  main = "exit" /\ (\E r \in Requests : request[r] \in Handling) => "shutdown" \in runErr

\* On every way out what was opened is closed, and no handler still holds a
\* connection of a pool that has been closed.
ResourcesReleased ==
  /\ main = "exit" => pool \in {"none", "closed"} /\ tracing \notin Open
  /\ pool = "closed" => \A r \in Requests : request[r] # "querying"

\* The process stops: once the context ends or serving fails, RunContext
\* returns although handlers may never respond, and the serving goroutine
\* ends after Shutdown even if nobody reads notify.
Stops ==
  /\ (ctxDone \/ serve = "failed") ~> main = "exit"
  /\ stopping ~> serve = "ended"

\* When neither the server's nor the telemetry's shutdown reports an error, the
\* exporter got the span of every sampled request: the provider outlives the
\* handlers and its queue is exported (the order of the deferred calls).
TracesFlushed ==
  main = "exit" /\ runErr \cap {"shutdown", "telemetry"} = {}
    => \A r \in Requests : span[r] \in {"none", "exported"}

\* What Load accepts no later constructor refuses ("settings that would
\* otherwise produce a confusing startup failure", Validate), with two
\* exceptions: the logger knows the levels, and telemetry bounds the length of
\* APP_ENV.  And the probe asks the port the server listens on, unless it has
\* to trim the setting.
ConfigurationAgrees ==
  /\ runErr \cap {"config", "wire"} = {}
  /\ "provider" \in runErr => Config(env).AppEnv = "long"
  /\ main = "wire" => \/ probePort(env) = Number[Config(env).HTTPPort]
                      \/ env["HTTP_PORT"] # TrimSpace(env["HTTP_PORT"])

\* A process that gets as far as the database in production, however APP_ENV is
\* padded, exports no traces over plain HTTP, signs cursors with a key of its
\* own and was told its database (README, "Configuration").
ProductionSafe ==
  main \in {"ping", "wire"} /\ Production(Config(env)) =>
    /\ ExporterScheme(Config(env)) # "http"
    /\ Config(env).CursorKey \notin {"", "placeholder"}
    /\ "DATABASE_URL" \in DOMAIN env

\* "terminal serve errors are not silently swallowed" (ADR 0006): when serving
\* has failed, RunContext does not return nil.
ServeErrorsNotSwallowed ==
  main = "exit" /\ runErr = {} => "failed" \notin {notify[n] : n \in 1..Len(notify)}
=============================================================================
