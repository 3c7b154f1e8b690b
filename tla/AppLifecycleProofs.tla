-------------------------- MODULE AppLifecycleProofs --------------------------
(***************************************************************************)
(* Proofs about AppLifecycle, for any number of requests and for every     *)
(* environment a process can find: on every way out RunContext releases    *)
(* what it acquired, reports the requests it cut off and leaves no span    *)
(* behind unreported; and what config.Load accepts is accepted, and safe,  *)
(* wherever it is used later.                                              *)
(***************************************************************************)
EXTENDS AppLifecycle, TLAPS

\* A leaf that names no prover is one for the SMT solver.
USE SMTT(30)

-----------------------------------------------------------------------------
(***************************************************************************)
(* The inductive invariant.                                                *)
(***************************************************************************)
\* Where main is: before the server, with the server, in the deferred calls.
Starting == {"load", "logger", "config", "telemetry", "pool", "ping", "wire"}

Running == {"select", "stop", "draining"}

Leaving == {"closePool", "closingPool", "closeTelemetry", "exit"}

\* The states of the resources, the handlers, the spans and the errors.
Types ==
  /\ main \in Starting \cup Running \cup Leaving
  /\ tracing \in {"none", "closed"} \cup Open
  /\ pool \in {"none", "open", "closing", "closed"}
  /\ request \in [Requests -> {"none", "active", "querying", "done"}]
  /\ span \in [Requests -> {"none", "queued", "exported", "dropped"}]
  /\ serveErr \in {{}, {"serve"}}

\* After config.Load the environment is one it accepted.
EnvironmentLoaded == main \in Starting \ {"load"} => load(env)

\* Only a way out has an error, and of the constructors only telemetry's.
ErrorsExpected ==
  /\ main \notin Leaving => runErr = {}
  /\ runErr \cap {"config", "wire"} = {}
  /\ "provider" \in runErr => Config(env).AppEnv = "long"

\* Without a server nothing was accepted.
NothingServed ==
  /\ main \in Starting => serve = "none"
  /\ serve = "none" => \A r \in Requests : request[r] = "none" /\ span[r] = "none"

\* How far the pool and the telemetry provider are at each place of main: each
\* is opened once and closed by the deferred call that is run for it.
PoolHeld ==
  /\ main \in {"load", "logger", "config", "telemetry", "pool"} => pool = "none"
  /\ main \in {"ping", "wire"} \cup Running => pool = "open"
  /\ main = "closePool" => pool \in {"none", "open"}
  /\ main \in {"closeTelemetry", "exit"} => pool \in {"none", "closed"}
  /\ pool = "closed" => \A r \in Requests : request[r] # "querying"

TracingHeld ==
  /\ main \in {"load", "logger", "config", "telemetry"} => tracing = "none"
  /\ tracing = "closed" => main = "exit"
  /\ main = "exit" => tracing \notin Open
  /\ \A r \in Requests : span[r] = "dropped" => tracing = "closed"

\* Once the listener is closed for good no request begins: without an error of
\* the shutdown no handler is active any more.
HandlersDone ==
  /\ main = "draining" => stopping
  /\ main \in Leaving /\ "shutdown" \notin runErr =>
       /\ stopping \/ serve = "none"
       /\ \A r \in Requests : request[r] \notin Handling

IInv ==
  /\ Types
  /\ EnvironmentLoaded
  /\ ErrorsExpected
  /\ NothingServed
  /\ PoolHeld
  /\ TracingHeld
  /\ HandlersDone
  /\ TracesFlushed

-----------------------------------------------------------------------------
(***************************************************************************)
(* What config.Load accepts.                                               *)
(***************************************************************************)
\* strconv reads integers, and reads nothing into an empty text.
LEMMA NumbersRead ==
  /\ \A text \in DOMAIN Number : Number[text] \in Int
  /\ "" \notin DOMAIN Number
BY SMT DEF Number, NaN, FloatOnly

\* The default port is one, without white space to trim.
LEMMA DefaultPort == Port("8080") /\ TrimSpace("8080") = "8080"
BY SMT DEF Port, Number, FloatOnly, Within, NaN, MaxPort, TrimSpace, Unpadded

\* The cursor codec, authentication and telemetry accept the settings Validate
\* accepts; of telemetry's limits only the one on APP_ENV is not among them.
LEMMA ValidatedIsUsable ==
  ASSUME NEW c, Validate(c)
  PROVE  /\ CursorCodec(c)
         /\ NewBearerSHA256(c)
         /\ normalizeConfig(c) \/ c.AppEnv = "long"
<1>1. CursorCodec(c) /\ NewBearerSHA256(c)
  BY Zenon DEF Validate, CursorCodec, NewBearerSHA256
<1>2. ASSUME c.AppEnv # "long"
      PROVE  {c.ServiceName, c.AppEnv} \cap {"long", "control"} = {}
  BY Zenon, <1>2 DEF Validate, validateText
<1>3. Within(0, c.SamplerArg, 100)
  BY Zenon DEF Validate
<1>4. ASSUME c.Endpoint # ""
      PROVE  /\ c.Endpoint \in DOMAIN Endpoint
             /\ ExporterScheme(c) \in {"http", "https"}
             /\ Endpoint[c.Endpoint].wellFormed
             /\ Endpoint[c.Endpoint].hasScheme => ((ExporterScheme(c) = "http") <=> c.Insecure)
  BY Zenon, <1>4 DEF Validate, validateOTLPEndpoint, ExporterScheme
<1> QED
  BY Zenon, <1>1, <1>2, <1>3, <1>4 DEF normalizeConfig

\* ratelimit.New accepts the settings Load accepts.
LEMMA LoadedLimits ==
  ASSUME NEW e, load(e)
  PROVE  NewLimiter(Config(e))
<1> DEFINE c == Config(e)
<1>1. c.IdleTTL \in Int
  <2> DEFINE key == "RATE_LIMIT_IDLE_TTL"
  <2>1. c.IdleTTL = Num(e, key, 600)
    BY SMT DEF Config
  <2>2. ASSUME key \in DOMAIN e
        PROVE  TrimSpace(e[key]) \in DOMAIN Number
    <3>1. key \in Integer
      BY Zenon DEF Integer
    <3>2. \A k \in DOMAIN e : k \in Integer => TrimSpace(e[k]) \in DOMAIN Number \ FloatOnly
      BY Zenon DEF load, Parses
    <3> QED
      BY <2>2, <3>1, <3>2, Zenon
  <2>3. Num(e, key, 600) \in Int
    <3>1. CASE key \in DOMAIN e
      BY <2>2, <3>1, NumbersRead, Zenon DEF Num
    <3>2. CASE key \notin DOMAIN e
      BY <3>2 DEF Num
    <3> QED
      BY <3>1, <3>2, Zenon
  <2> QED
    BY <2>1, <2>3, Zenon
<1>2. Validate(c)
  BY Zenon DEF load
<1> HIDE DEF c
<1>3. c.LimitEnabled => /\ Within(1, c.RPS, maxRateLimitRPS)
                        /\ Within(1, c.Burst, maxRateLimitBurst)
                        /\ Within(1, c.MaxClients, maxRateLimitMaxClients)
                        /\ Within(1, c.IdleTTL, maxRateLimitIdleTTL)
  BY <1>2, Zenon DEF Validate
<1>4. /\ maxRateLimitRPS = MaxRefillRate
      /\ maxRateLimitBurst = MaxCapacity
      /\ maxRateLimitMaxClients = MaxClients
      /\ maxRateLimitIdleTTL = MaxIdleTTL /\ MaxIdleTTL \in Int
  BY SMT DEF maxRateLimitRPS, MaxRefillRate, maxRateLimitBurst, MaxCapacity,
             maxRateLimitMaxClients, MaxClients, maxRateLimitIdleTTL, MaxIdleTTL
<1>5. Within(1, c.IdleTTL, MaxIdleTTL) => Within(0, c.IdleTTL, MaxIdleTTL)
  BY <1>1, <1>4 DEF Within
<1>6. NewLimiter(c)
  BY <1>3, <1>4, <1>5, Zenon DEF NewLimiter
<1> QED
  BY <1>6, Zenon DEF c

\* The probe asks the port the server listens on, unless the setting is padded.
LEMMA LoadedPort ==
  ASSUME NEW e, load(e)
  PROVE  \/ probePort(e) = Number[Config(e).HTTPPort]
         \/ e["HTTP_PORT"] # TrimSpace(e["HTTP_PORT"])
<1> DEFINE port == Config(e).HTTPPort
           set == "HTTP_PORT" \in DOMAIN e
<1>1. port = TrimSpace(valueOrDefault(e, "HTTP_PORT", "8080"))
  BY SMT DEF Config, Text
<1>2. Port(port)
  BY Zenon DEF load, Validate
<1> HIDE DEF port
<1>3. port # ""
  BY <1>2, NumbersRead, Zenon DEF Port
<1>4. CASE set /\ e["HTTP_PORT"] = TrimSpace(e["HTTP_PORT"])
  <2>1. valueOrDefault(e, "HTTP_PORT", "") = port
    BY <1>1, <1>4, Zenon DEF valueOrDefault
  <2> QED
    BY <1>2, <1>3, <2>1, Zenon DEF probePort, port
<1>5. CASE ~set
  <2>1. port = "8080"
    BY <1>1, <1>5, DefaultPort, Zenon DEF valueOrDefault
  <2>2. valueOrDefault(e, "HTTP_PORT", "") = ""
    BY <1>5, Zenon DEF valueOrDefault
  <2> QED
    BY <1>2, <2>1, <2>2, Zenon DEF probePort, port
<1> QED
  BY <1>4, <1>5, Zenon

\* In production Load accepts no plain HTTP for traces, no missing or published
\* cursor key and no default database.
LEMMA LoadedProduction ==
  ASSUME NEW e, load(e), Production(Config(e))
  PROVE  /\ ExporterScheme(Config(e)) # "http"
         /\ Config(e).CursorKey \notin {"", "placeholder"}
         /\ "DATABASE_URL" \in DOMAIN e
<1> DEFINE c == Config(e)
<1>1. Validate(c) /\ Production(c)
  BY Zenon DEF load
<1>2. "DATABASE_URL" \in DOMAIN e
  BY Zenon DEF load
<1> HIDE DEF c
<1>3. c.CursorKey \notin {"", "placeholder"}
  BY Zenon, <1>1 DEF Validate
<1>4. ~c.Insecure /\ ~endpointUsesHTTP(c.Endpoint)
  BY Zenon, <1>1 DEF Validate, TracesProtected
<1>5. c.Endpoint # "" => c.Endpoint \in DOMAIN Endpoint
  BY Zenon, <1>1 DEF Validate, validateOTLPEndpoint
<1>6. ExporterScheme(c) # "http"
  BY <1>4, <1>5, Zenon DEF endpointUsesHTTP, ExporterScheme
<1> QED
  BY <1>2, <1>3, <1>6, Zenon DEF c

-----------------------------------------------------------------------------
(***************************************************************************)
(* The invariant holds.                                                    *)
(***************************************************************************)
\* A process begins with nothing acquired and nothing served.
LEMMA InitInv == Init => IInv
BY Zenon DEF Init, IInv, Types, EnvironmentLoaded, ErrorsExpected, NothingServed, PoolHeld, TracingHeld,
             HandlersDone, TracesFlushed, Starting, Running, Leaving, Handling, Open, server

\* The startup: each step opens one resource, or ends in the deferred calls
\* before any request was accepted.
LEMMA StartupInv ==
  ASSUME IInv,
         Load \/ InitLogger \/ Configure \/ OpenTelemetry \/ OpenPool \/ Ping \/ StartServer \/ StartupFails
  PROVE  IInv'
<1> USE DEF IInv, Types, EnvironmentLoaded, ErrorsExpected, NothingServed, PoolHeld, TracingHeld,
             HandlersDone, TracesFlushed, Starting, Running, Leaving, Handling, Open, server
<1>1. CASE Load
  BY <1>1, Zenon DEF Load
<1>2. CASE InitLogger
  BY <1>2, Zenon DEF InitLogger
<1>3. CASE Configure
  <2>1. Validate(Config(env)) /\ CursorCodec(Config(env))
    BY <1>3, ValidatedIsUsable, Zenon DEF Configure, load
  <2> QED
    BY <1>3, <2>1, Zenon DEF Configure
<1>4. CASE OpenTelemetry
  <2>1. normalizeConfig(Config(env)) \/ Config(env).AppEnv = "long"
    BY <1>4, ValidatedIsUsable, Zenon DEF OpenTelemetry, load
  <2> QED
    BY <1>4, <2>1, Zenon DEF OpenTelemetry
<1>5. CASE OpenPool
  BY <1>5, Zenon DEF OpenPool
<1>6. CASE Ping
  BY <1>6, Zenon DEF Ping
<1>7. CASE StartServer
  <2>1. NewBearerSHA256(Config(env)) /\ NewLimiter(Config(env))
    BY <1>7, ValidatedIsUsable, LoadedLimits, Zenon DEF StartServer, load
  <2> QED
    BY <1>7, <2>1, Zenon DEF StartServer
<1>8. CASE StartupFails
  BY <1>8, Zenon DEF StartupFails
<1> QED
  BY <1>1, <1>2, <1>3, <1>4, <1>5, <1>6, <1>7, <1>8, Zenon

\* The server is running, and RunContext waits for its end and stops it.
LEMMA RunningInv ==
  ASSUME IInv, SelectDone \/ SelectNotify \/ Shutdown \/ Drained \/ ShutdownFails
  PROVE  IInv'
<1> USE DEF IInv, Types, EnvironmentLoaded, ErrorsExpected, NothingServed, PoolHeld, TracingHeld,
             HandlersDone, TracesFlushed, Starting, Running, Leaving, Handling, Open, server
<1>1. CASE SelectDone
  BY <1>1, Zenon DEF SelectDone
<1>2. CASE SelectNotify
  BY <1>2, Zenon DEF SelectNotify
<1>3. CASE Shutdown
  BY <1>3, Zenon DEF Shutdown
<1>4. CASE Drained
  BY <1>4, Zenon DEF Drained
<1>5. CASE ShutdownFails
  BY <1>5, Zenon DEF ShutdownFails
<1> QED
  BY <1>1, <1>2, <1>3, <1>4, <1>5, Zenon

\* The deferred calls close the pool and then telemetry.
LEMMA LeavingInv ==
  ASSUME IInv, ClosePool \/ PoolClosed \/ CloseTelemetry
  PROVE  IInv'
<1> USE DEF IInv, Types, EnvironmentLoaded, ErrorsExpected, NothingServed, PoolHeld, TracingHeld,
             HandlersDone, TracesFlushed, Starting, Running, Leaving, Handling, Open, server
<1>1. CASE ClosePool
  BY <1>1, Zenon DEF ClosePool
<1>2. CASE PoolClosed
  BY <1>2, Zenon DEF PoolClosed
<1>3. CASE CloseTelemetry
  BY <1>3 DEF CloseTelemetry
<1> QED
  BY <1>1, <1>2, <1>3, Zenon

\* The serving goroutine, and a signal.
LEMMA ServingInv ==
  ASSUME IInv, Serving \/ ServeFails \/ Signal
  PROVE  IInv'
<1> USE DEF IInv, Types, EnvironmentLoaded, ErrorsExpected, NothingServed, PoolHeld, TracingHeld,
             HandlersDone, TracesFlushed, Starting, Running, Leaving, Handling, Open, server
<1>1. CASE Listen
  BY <1>1 DEF Listen
<1>2. CASE ServeReturns
  BY <1>2 DEF ServeReturns
<1>3. CASE Notify
  BY <1>3 DEF Notify
<1>4. CASE ServeFails
  BY <1>4 DEF ServeFails
<1>5. CASE Signal
  BY <1>5 DEF Signal
<1> QED
  BY <1>1, <1>2, <1>3, <1>4, <1>5, Zenon DEF Serving

\* A handler begins only while the listener is open, takes a connection only
\* from an open pool, and ends its span.
LEMMA HandlerInv ==
  ASSUME IInv, NEW r \in Requests,
         Accept(r) \/ Query(r) \/ Queried(r) \/ Respond(r) \/ Export(r)
  PROVE  IInv'
<1> USE DEF IInv, Types, EnvironmentLoaded, ErrorsExpected, NothingServed, PoolHeld, TracingHeld,
             HandlersDone, TracesFlushed, Starting, Running, Leaving, Handling, Open, server
<1>1. CASE Accept(r)
  BY <1>1 DEF Accept
<1>2. CASE Query(r)
  BY <1>2, Zenon DEF Query
<1>3. CASE Queried(r)
  BY <1>3 DEF Queried
<1>4. CASE Respond(r)
  BY <1>4 DEF Respond
<1>5. CASE Export(r)
  BY <1>5 DEF Export
<1> QED
  BY <1>1, <1>2, <1>3, <1>4, <1>5, Zenon

\* Every step of the process keeps the invariant.
LEMMA NextInv == IInv /\ [Next]_vars => IInv'
<1> SUFFICES ASSUME IInv, [Next]_vars PROVE IInv'
  BY Zenon
<1>1. CASE Main
  BY <1>1, StartupInv, RunningInv, LeavingInv, Zenon DEF Main
<1>2. CASE Serving \/ ServeFails \/ Signal
  BY <1>2, ServingInv, Zenon
<1>3. ASSUME NEW r \in Requests, Accept(r) \/ Query(r) \/ Queried(r) \/ Respond(r) \/ Export(r)
      PROVE  IInv'
  BY <1>3, HandlerInv, Zenon
<1>4. CASE UNCHANGED vars
  BY <1>4 DEF vars, IInv, Types, EnvironmentLoaded, ErrorsExpected, NothingServed, PoolHeld, TracingHeld,
             HandlersDone, TracesFlushed, Starting, Running, Leaving, Handling, Open, server
<1> QED
  BY <1>1, <1>2, <1>3, <1>4, Zenon DEF Next

-----------------------------------------------------------------------------
(***************************************************************************)
(* Theorems.                                                               *)
(***************************************************************************)
\* IInv holds in every state of the process.
THEOREM InductiveInvariant == Spec => []IInv
<1>1. Init => IInv
  BY InitInv, Zenon
<1>2. IInv /\ [Next]_vars => IInv'
  BY NextInv, Zenon
<1> QED
  BY <1>1, <1>2, PTL DEF Spec

\* RunContext returns with a request still in a handler only if its result
\* holds the error of server.Shutdown, whatever else failed on the way.
THEOREM CutOffIsReported == Spec => []CutOffReported
<1>1. IInv => CutOffReported
  BY Zenon DEF IInv, HandlersDone, Leaving, CutOffReported
<1> QED
  BY <1>1, InductiveInvariant, PTL

\* Every way out of RunContext has closed the pool and the telemetry provider
\* if they were opened, and no handler holds a connection of a closed pool.
THEOREM ReleasesResources == Spec => []ResourcesReleased
<1>1. IInv => ResourcesReleased
  BY Zenon DEF IInv, PoolHeld, TracingHeld, ResourcesReleased
<1> QED
  BY <1>1, InductiveInvariant, PTL

\* When RunContext's result holds no error of the two shutdowns, the exporter
\* got the span of every sampled request (the order of the deferred calls).
THEOREM FlushesTraces == Spec => []TracesFlushed
<1>1. IInv => TracesFlushed
  BY Zenon DEF IInv
<1> QED
  BY <1>1, InductiveInvariant, PTL

\* For every environment: what config.Load accepts neither Validate nor the
\* constructors of RunContext refuse, but for the length of APP_ENV, and the
\* probe asks the server's port, but for a padded setting.
THEOREM ConfigurationIsAgreed == Spec => []ConfigurationAgrees
<1>1. IInv => ConfigurationAgrees
  <2> SUFFICES ASSUME IInv PROVE ConfigurationAgrees
    BY Zenon
  <2>1. runErr \cap {"config", "wire"} = {} /\ ("provider" \in runErr => Config(env).AppEnv = "long")
    BY Zenon DEF IInv, ErrorsExpected
  <2>2. main = "wire" => load(env)
    BY Zenon DEF IInv, EnvironmentLoaded, Starting
  <2> QED
    BY <2>1, <2>2, LoadedPort, Zenon DEF ConfigurationAgrees
<1> QED
  BY <1>1, InductiveInvariant, PTL

\* For every environment: a process that reaches the database in production
\* does not export traces over plain HTTP, signs cursors with a key of its own
\* and was told its database.
THEOREM ProductionIsSafe == Spec => []ProductionSafe
<1>1. IInv => ProductionSafe
  <2> SUFFICES ASSUME IInv PROVE ProductionSafe
    BY Zenon
  <2>1. main \in {"ping", "wire"} => load(env)
    BY Zenon DEF IInv, EnvironmentLoaded, Starting
  <2> QED
    BY <2>1, LoadedProduction, Zenon DEF ProductionSafe
<1> QED
  BY <1>1, InductiveInvariant, PTL
=============================================================================
