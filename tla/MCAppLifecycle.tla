--------------------------- MODULE MCAppLifecycle ---------------------------
(***************************************************************************)
(* A process with few requests for TLC, started in a development and in a  *)
(* production environment with any two settings changed or taken away.     *)
(***************************************************************************)
EXTENDS AppLifecycle

Choices ==
  "APP_ENV" :> {"", "production", " production ", "staging", "long"} @@
  "HTTP_PORT" :> {"", "0", "9090", " 9090 ", "65536", "odd"} @@
  "LOG_LEVEL" :> {" ", "debug", "odd"} @@
  "DATABASE_URL" :> {" ", "postgres://other", "control"} @@
  "METRICS_ENABLED" :> {"true", "odd"} @@
  "OTEL_SERVICE_NAME" :> {" ", "other", "long", "control"} @@
  "OTEL_EXPORTER_OTLP_ENDPOINT" :> DOMAIN Endpoint \cup {" ", "odd", "long"} @@
  "OTEL_EXPORTER_OTLP_INSECURE" :> {"true", "false", "odd"} @@
  "OTEL_TRACES_SAMPLER" :> {"", "always_on", "long"} @@
  "OTEL_TRACES_SAMPLER_ARG" :> {"0", "100", "101", "-1", "NaN", "odd"} @@
  "AUTH_ENABLED" :> {"true", "false"} @@
  "AUTH_BEARER_TOKEN_SHA256" :> {"", "digest", "short", "odd"} @@
  "RATE_LIMIT_ENABLED" :> {"true", "false"} @@
  "RATE_LIMIT_REQUESTS_PER_SECOND" :> {"0", "100000", "100001", "NaN", "Inf"} @@
  "RATE_LIMIT_BURST" :> {"0", "100000", "100001", "NaN"} @@
  "RATE_LIMIT_MAX_CLIENTS" :> {"0", "-1", "1000001"} @@
  "RATE_LIMIT_IDLE_TTL" :> {"0", "-1", "86401"} @@
  "CURSOR_SIGNING_KEY" :> {" ", "placeholder", "PLACEHOLDER", "short", "digest"}

ProductionBase ==
  "APP_ENV" :> "production" @@ "DATABASE_URL" :> "postgres://other" @@
  "CURSOR_SIGNING_KEY" :> "digest" @@ "OTEL_EXPORTER_OTLP_ENDPOINT" :> "collector" @@
  "AUTH_ENABLED" :> "true" @@ "AUTH_BEARER_TOKEN_SHA256" :> "digest" @@ "RATE_LIMIT_ENABLED" :> "true"

MCDevelopment == {<<>>}

Without(e, key) == [k \in DOMAIN e \ {key} |-> e[k]]

Changed(e) == {(key :> value) @@ e : <<key, value>> \in UNION {{key} \X Choices[key] : key \in DOMAIN Choices}}
                \cup {Without(e, key) : key \in DOMAIN e}

MCEnvironments ==
  UNION {{base} \cup UNION {{e} \cup Changed(e) : e \in Changed(base)} : base \in {<<>>, ProductionBase}}
=============================================================================
