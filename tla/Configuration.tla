---------------------------- MODULE Configuration ----------------------------
(***************************************************************************)
(* What the process reads from its environment and who accepts it:         *)
(* config.Load with Validate, and the constructors that get the settings   *)
(* afterwards (logger, telemetry, authentication, rate limiter), together  *)
(* with the probe, which reads HTTP_PORT on its own.                       *)
(*                                                                         *)
(* An environment is a function from the names that are set to texts.  The *)
(* texts stand for what the code tells apart: "long" is one beyond every   *)
(* length limit, "control" one with a control character, "odd" one that no *)
(* parser of the setting accepts, "short" hexadecimal of the wrong length. *)
(* A ratio is given in per cent and a duration in seconds, and rates and   *)
(* durations are whole numbers: positive and at least one are the same.    *)
(***************************************************************************)
EXTENDS Integers, TLC

\* Texts with white space around them.
Unpadded ==
  [text \in {" ", " 9090 ", " production "} |->
     CASE text = " "            -> ""
       [] text = " 9090 "       -> "9090"
       [] text = " production " -> "production"]

TrimSpace(value) == IF value \in DOMAIN Unpadded THEN Unpadded[value] ELSE value

\* strings.ToLower, of the keys and digests.
ToLower(value) == IF value = "PLACEHOLDER" THEN "placeholder" ELSE value

\* What strconv and time read.  NaN is in no range.
NaN == -1000

\* Texts that only ParseFloat reads.
FloatOnly == {"NaN", "Inf"}

Number ==
  [text \in {"-1", "0", "1", "100", "101", "8080", "9090", "65536", "86401",
             "100000", "100001", "1000001"} \cup FloatOnly |->
     CASE text = "-1"      -> -1
       [] text = "0"       -> 0
       [] text = "1"       -> 1
       [] text = "100"     -> 100
       [] text = "101"     -> 101
       [] text = "8080"    -> 8080
       [] text = "9090"    -> 9090
       [] text = "65536"   -> 65536
       [] text = "86401"   -> 86401
       [] text = "100000"  -> 100000
       [] text = "100001"  -> 100001
       [] text = "1000001" -> 1000001
       [] text = "NaN"     -> NaN
       [] text = "Inf"     -> 10000000]

Within(low, x, high) == x # NaN /\ low <= x /\ x <= high

\* A text that is the number of a TCP port.
MaxPort == 65535

Port(text) == text \in DOMAIN Number \ FloatOnly /\ Within(1, Number[text], MaxPort)

\* Each URL: whether it has a scheme, which, and whether the rest is a host
\* with at most a port and a path.
Endpoint ==
  "collector"         :> [hasScheme |-> FALSE, scheme |-> "https", wellFormed |-> TRUE] @@
  "http://collector"  :> [hasScheme |-> TRUE, scheme |-> "http", wellFormed |-> TRUE] @@
  "https://collector" :> [hasScheme |-> TRUE, scheme |-> "https", wellFormed |-> TRUE] @@
  "ftp://collector"   :> [hasScheme |-> TRUE, scheme |-> "ftp", wellFormed |-> TRUE] @@
  "https://?query"    :> [hasScheme |-> TRUE, scheme |-> "https", wellFormed |-> FALSE]

-----------------------------------------------------------------------------
(***************************************************************************)
(* config.Load.                                                            *)
(***************************************************************************)
valueOrDefault(env, key, fallback) == IF key \in DOMAIN env THEN env[key] ELSE fallback

Text(env, key, fallback) == TrimSpace(valueOrDefault(env, key, fallback))

validateText(value) == value # "control"

Float == {"OTEL_TRACES_SAMPLER_ARG", "RATE_LIMIT_REQUESTS_PER_SECOND"}

\* Integers, and a duration.
Integer == {"RATE_LIMIT_BURST", "RATE_LIMIT_MAX_CLIENTS", "RATE_LIMIT_IDLE_TTL"}

Boolean == {"METRICS_ENABLED", "OTEL_EXPORTER_OTLP_INSECURE", "AUTH_ENABLED", "RATE_LIMIT_ENABLED"}

Bool(env, key) == Text(env, key, "false") = "true"

Num(env, key, fallback) == IF key \in DOMAIN env THEN Number[TrimSpace(env[key])] ELSE fallback

\* Every setting that is present has to parse.
Parses(env) ==
  \A key \in DOMAIN env :
    /\ validateText(env[key])
    /\ key \in Boolean => TrimSpace(env[key]) \in {"true", "false"}
    /\ key \in Float => TrimSpace(env[key]) \in DOMAIN Number
    /\ key \in Integer => TrimSpace(env[key]) \in DOMAIN Number \ FloatOnly

Config(env) ==
  [AppEnv      |-> Text(env, "APP_ENV", "development"),
   HTTPPort    |-> Text(env, "HTTP_PORT", "8080"),
   LogLevel    |-> Text(env, "LOG_LEVEL", "info"),
   DatabaseURL |-> Text(env, "DATABASE_URL", "postgres://localhost"),
   ServiceName |-> Text(env, "OTEL_SERVICE_NAME", "service"),
   Endpoint    |-> Text(env, "OTEL_EXPORTER_OTLP_ENDPOINT", ""),
   Insecure    |-> Bool(env, "OTEL_EXPORTER_OTLP_INSECURE"),
   Sampler     |-> Text(env, "OTEL_TRACES_SAMPLER", "parentbased_traceidratio"),
   SamplerArg  |-> Num(env, "OTEL_TRACES_SAMPLER_ARG", 10),
   AuthEnabled |-> Bool(env, "AUTH_ENABLED"),
   AuthDigest  |-> ToLower(Text(env, "AUTH_BEARER_TOKEN_SHA256", "")),
   LimitEnabled |-> Bool(env, "RATE_LIMIT_ENABLED"),
   RPS         |-> Num(env, "RATE_LIMIT_REQUESTS_PER_SECOND", 10),
   Burst       |-> Num(env, "RATE_LIMIT_BURST", 20),
   MaxClients  |-> Num(env, "RATE_LIMIT_MAX_CLIENTS", 10000),
   IdleTTL     |-> Num(env, "RATE_LIMIT_IDLE_TTL", 600),
   CursorKey   |-> ToLower(Text(env, "CURSOR_SIGNING_KEY", ""))]

Production(c) == c.AppEnv = "production"

\* A complete URL decides, and must agree with the flag; a host alone follows
\* the flag.
validateOTLPEndpointFlagIgnored(raw, insecure) ==
  raw # "" =>
    /\ raw \in DOMAIN Endpoint
    /\ Endpoint[raw].scheme \in {"http", "https"}
    /\ Endpoint[raw].wellFormed
validateOTLPEndpoint(raw, insecure) ==
  raw # "" =>
    /\ raw \in DOMAIN Endpoint
    /\ Endpoint[raw].scheme \in {"http", "https"}
    /\ Endpoint[raw].wellFormed
    /\ Endpoint[raw].hasScheme => ((Endpoint[raw].scheme = "http") <=> insecure)

endpointUsesHTTP(raw) == raw \in DOMAIN Endpoint /\ Endpoint[raw].hasScheme /\ Endpoint[raw].scheme = "http"

\* A digest or a key: 64 hexadecimal characters.
Hex == {"digest", "placeholder"}

\* Only a complete HTTP URL is refused in production, not the flag.
TracesProtectedURLOnly(c) == Production(c) => ~endpointUsesHTTP(c.Endpoint)
TracesProtected(c) == Production(c) => ~c.Insecure /\ ~endpointUsesHTTP(c.Endpoint)

\* The limits of the package config, ...
maxRateLimitRPS == 100000
maxRateLimitBurst == 100000
maxRateLimitMaxClients == 1000000
maxRateLimitIdleTTL == 86400

Validate(c) ==
  /\ \A text \in {c.AppEnv, c.HTTPPort, c.LogLevel, c.DatabaseURL, c.ServiceName, c.Endpoint,
                  c.Sampler, c.AuthDigest, c.CursorKey} : validateText(text)
  /\ "long" \notin {c.ServiceName, c.Sampler, c.Endpoint}
  /\ c.AuthDigest # "" => c.AuthDigest \in Hex
  /\ c.CursorKey # "" => c.CursorKey \in Hex
  /\ Production(c) => c.CursorKey \notin {"", "placeholder"}
  /\ c.DatabaseURL # ""
  /\ Port(c.HTTPPort)
  /\ c.AppEnv # "" /\ c.LogLevel # ""
  /\ c.Sampler \in {"", "parentbased_traceidratio"}
  /\ Within(0, c.SamplerArg, 100)
  /\ validateOTLPEndpoint(c.Endpoint, c.Insecure)
  /\ TracesProtected(c)
  /\ c.AuthEnabled => c.AuthDigest # ""
  /\ LET least == IF c.LimitEnabled THEN 1 ELSE 0
     IN /\ Within(least, c.RPS, maxRateLimitRPS)
        /\ Within(least, c.Burst, maxRateLimitBurst)
        /\ Within(least, c.MaxClients, maxRateLimitMaxClients)
        /\ Within(least, c.IdleTTL, maxRateLimitIdleTTL)

load(env) ==
  /\ Parses(env)
  /\ Production(Config(env)) => {"DATABASE_URL", "CURSOR_SIGNING_KEY"} \subseteq DOMAIN env
  /\ \A key \in {"CURSOR_SIGNING_KEY", "OTEL_SERVICE_NAME", "OTEL_TRACES_SAMPLER"} \cap DOMAIN env :
       TrimSpace(env[key]) # ""
  /\ Validate(Config(env))

-----------------------------------------------------------------------------
(***************************************************************************)
(* The constructors.                                                       *)
(***************************************************************************)
\* logger.Init.
KnownLevel(c) == c.LogLevel \in {"info", "debug"}

\* CursorSigningKeyBytes and NewCursorCodec.
CursorCodec(c) == c.CursorKey # "" => c.CursorKey \in Hex

\* telemetry.New: normalizeConfig and normalizeEndpoint; a host without a
\* scheme gets the one the flag asks for.
ExporterScheme(c) ==
  IF c.Endpoint = "" THEN "none"
  ELSE IF Endpoint[c.Endpoint].hasScheme THEN Endpoint[c.Endpoint].scheme
  ELSE IF c.Insecure THEN "http" ELSE "https"

normalizeConfig(c) ==
  /\ {c.ServiceName, c.AppEnv} \cap {"long", "control"} = {}
  /\ Within(0, c.SamplerArg, 100)
  /\ c.Endpoint # "" =>
       /\ c.Endpoint \in DOMAIN Endpoint
       /\ ExporterScheme(c) \in {"http", "https"}
       /\ Endpoint[c.Endpoint].wellFormed
       /\ Endpoint[c.Endpoint].hasScheme => ((ExporterScheme(c) = "http") <=> c.Insecure)

\* auth.NewBearerSHA256.
NewBearerSHA256(c) == c.AuthEnabled => c.AuthDigest \in Hex

\* ... and those of the package ratelimit.
MaxCapacity == 100000
MaxRefillRate == 100000
MaxClients == 1000000
MaxIdleTTL == 86400

\* ratelimit.New.
NewLimiter(c) ==
  c.LimitEnabled =>
    /\ Within(1, c.Burst, MaxCapacity)
    /\ Within(1, c.RPS, MaxRefillRate)
    /\ Within(1, c.MaxClients, MaxClients)
    /\ Within(0, c.IdleTTL, MaxIdleTTL)

\* cmd/healthcheck: the port it probes, none if it gives up.  Unlike Load it
\* takes an empty setting for a missing one and does not trim.
probePort(env) ==
  LET set  == valueOrDefault(env, "HTTP_PORT", "")
      port == IF set = "" THEN "8080" ELSE set
  IN IF Port(port) THEN Number[port] ELSE 0
=============================================================================
