--------------------------- MODULE RequestPipeline ---------------------------
(***************************************************************************)
(* Concurrent HTTP requests on their way through the router                *)
(* (internal/controller/http): the observing middlewares, recovery, the    *)
(* security middleware with its limiter, the Item handler                  *)
(* (internal/item/httpapi), Item.Service, and the store, and back out      *)
(* through the middlewares, which a panic unwinds from the inside.         *)
(*                                                                         *)
(* The store is the promise IdempotentCreate, which MemoryStore and        *)
(* PostgresStore implement; replay windows never end here.  The limiter is *)
(* a counter of tokens per key with the RejectNew policy of app.go; its    *)
(* clock is in RateLimiter.                                                *)
(***************************************************************************)
EXTENDS Authentication, Metrics, FiniteSetsExt, Functions

CONSTANTS Requests,    \* one goroutine per request; a retry is another request
          Subjects,    \* principals the authenticator knows
          Peers,       \* addresses of direct peers
          RawKeys,     \* well-formed Idempotency-Key values
          Texts,       \* canonical create inputs
          Traffic,     \* under each load, what may arrive as which request
          Configs,     \* AUTH_ENABLED, RATE_LIMIT_ENABLED, the ID generator, the load
          Burst,       \* RateLimitBurst
          MaxClients,  \* RateLimitMaxClients
          NoID         \* uuid.Nil

(***************************************************************************)
(* A request.  form "malformed" does not parse (body, id or query),        *)
(* "invalid" parses and breaks a domain rule (for a cursor: does not       *)
(* decode).  padded is the edge white space ValidateCreateInput trims.     *)
(***************************************************************************)
Routes == {"create", "get", "list", "listCursor", "probe", "unmatched",
           "unmatchedAPI"}

Request == [route : Routes, form : {"ok", "malformed", "invalid"},
            authorization : Seq(Seq(TokenCharacters \cup {"=", " ", "\t", "%"})),
            peer : Peers \cup {"unparsable"},
            key : RawKeys \cup {"absent", "malformed"},
            text : Texts, padded : BOOLEAN]

\* The ID generator is uuid.NewRandom, or the one of WithIDGenerator.
ASSUME PipelineAssumption ==
  /\ Configs \subseteq [auth : BOOLEAN, limiter : BOOLEAN, generator : {"random", "custom"},
                         load : DOMAIN Traffic]
  /\ \A load \in DOMAIN Traffic : Traffic[load] \in [Requests -> SUBSET Request]
  /\ \A token \in DOMAIN Secrets : Secrets[token] \in Subjects \cup {"invalidPrincipal"}
  /\ {"refused", "invalidPrincipal"} \cap Subjects = {}
  /\ Texts # {}
  /\ Burst \in Nat \ {0}
  /\ MaxClients \in Nat \ {0}
  /\ IsFiniteSet(Subjects)
  /\ NoID \notin Requests

VARIABLES config,     \* one of Configs
          pc,         \* where each request is
          req,        \* the request itself
          rateKey,    \* its limiter key, and the suffix of its idempotency scope
          layer,      \* how many middlewares it has still to return through
          panicking,  \* a panic is unwinding its goroutine
          status,     \* the status written to its response, 0 for none yet
          buckets,    \* the limiter's tokens per known key
          spent,      \* history: tokens each key has ever taken
          accessLog,  \* the statuses of its access events
          observed,   \* the samples metrics.Observe counted for it
          span,       \* its tracing span
          inFlight,   \* the in-flight gauge of each series there is
          items, records, phase, answer    \* the store, as in IdempotentCreate

observers == <<accessLog, observed, span, inFlight>>
store == <<items, records, phase, answer>>
limiter == <<buckets, spent>>
vars == <<config, pc, req, rateKey, layer, panicking, status, limiter,
          observers, store>>

Anonymous == <<"anonymous", "">>

RateKeys == ({"principal"} \X Subjects) \cup ({"address"} \X Peers) \cup {Anonymous}

\* What a goroutine that serves nothing yet holds.
NoRequest == [route |-> "unmatched", form |-> "ok", authorization |-> <<>>, peer |-> "unparsable",
              key |-> "absent", text |-> CHOOSE t \in Texts : TRUE, padded |-> FALSE]

(***************************************************************************)
(* Keys.                                                                   *)
(***************************************************************************)
\* clientRateKey: the direct peer, never a forwarded header.
ClientRateKey(q) == IF q.peer = "unparsable" THEN Anonymous ELSE <<"address", q.peer>>

PrincipalRateKey(q) == <<"principal", Verify(q.authorization)>>

\* Failed credentials share one bucket.
RefusedRateKeyPerPeer(q) == ClientRateKey(q)
RefusedRateKey(q) == Anonymous

\* storageIdempotencyKey: a digest of the scope and the raw key.
StorageKeyUnscoped(r) == <<Anonymous, req[r].key>>
StorageKey(r) == <<rateKey[r], req[r].key>>

\* FingerprintCreateInput digests the canonical input, so padding is gone.
Fingerprint(q) == <<q.text, FALSE>>

\* What CreateIdempotent hands to the store; the generated ID is the request's.
StoreRequests ==
  [r \in Requests |-> [key |-> StorageKey(r), fingerprint |-> Fingerprint(req[r]), ID |-> r]]

Store == INSTANCE IdempotentCreate
           WITH Callers <- Requests, Keys <- RateKeys \X RawKeys,
                Fingerprints <- Texts \X BOOLEAN, IDs <- Requests,
                Retention <- 1, Past <- {}, time <- 0,
                started <- [r \in Requests |-> 0], req <- StoreRequests

(***************************************************************************)
(* writeServiceError: the first row one of whose sentinels the error wraps *)
(* (errors.Is) gives the status, and 500 when there is none.  An error is  *)
(* the set of sentinels it wraps.                                          *)
(***************************************************************************)
ErrorTableCursorFirst ==
  << <<{"InvalidCursor"}, 400>>,
     <<{"CursorUnavailable", "CursorState"}, 503>>,
     <<{"IdempotencyConflict"}, 409>>,
     <<{"IdempotencyInProgress"}, 409>>,
     <<{"IdempotencyUnavailable", "IdempotencyState"}, 503>>,
     <<{"InvalidInput"}, 422>>,
     <<{"NotFound"}, 404>>,
     <<{"Conflict"}, 409>> >>

ErrorTable ==
  << <<{"CursorUnavailable", "CursorState"}, 503>>,
     <<{"InvalidCursor"}, 400>>,
     <<{"IdempotencyConflict"}, 409>>,
     <<{"IdempotencyInProgress"}, 409>>,
     <<{"IdempotencyUnavailable", "IdempotencyState"}, 503>>,
     <<{"InvalidInput"}, 422>>,
     <<{"NotFound"}, 404>>,
     <<{"Conflict"}, 409>> >>

ServiceStatus(error) ==
  LET rows == {i \in DOMAIN ErrorTable : error \cap ErrorTable[i][1] # {}}
  IN  IF rows = {} THEN 500 ELSE ErrorTable[Min(rows)][2]

\* What the reads of Item.Service fail with; {} is a canceled context or a
\* provider's error.  A stored Item from which no position can be made gives
\* an error that wraps both cursor sentinels.
ReadErrors(q) ==
  CASE q.form = "invalid" -> {IF q.route = "listCursor" THEN {"InvalidCursor"} ELSE {"InvalidInput"}}
    [] q.route = "get" -> {{}, {"StoreUnavailable"}, {"NotFound"}}
    [] q.route = "list" -> {{}, {"StoreUnavailable"}, {"CursorState", "InvalidCursor"}}
    [] OTHER -> {{}, {"CursorUnavailable"}, {"CursorState", "InvalidCursor"}}

\* The sentinels of a failed create, from the kind of the store's answer.
CreateErrors(kind, q) ==
  CASE kind = "canceled" -> {{}}
    [] kind = "inProgress" -> {{"IdempotencyInProgress"}}
    [] kind = "conflict" -> {{"IdempotencyConflict"}}
    [] kind = "idConflict" -> {{"Conflict"}}
    [] q.key = "absent" -> {{}, {"StoreUnavailable"}}
    [] OTHER -> {{"IdempotencyUnavailable"}, {"IdempotencyState"}}

Init ==
  /\ config \in Configs
  /\ pc = [r \in Requests |-> "idle"]
  /\ req = [r \in Requests |-> NoRequest]
  /\ rateKey = [r \in Requests |-> Anonymous]
  /\ layer = [r \in Requests |-> 0]
  /\ panicking = [r \in Requests |-> FALSE]
  /\ status = [r \in Requests |-> 0]
  /\ buckets = [k \in {} |-> 0]
  /\ spent = [k \in RateKeys |-> 0]
  /\ accessLog = [r \in Requests |-> <<>>]
  /\ observed = [r \in Requests |-> <<>>]
  /\ span = [r \in Requests |-> "none"]
  /\ inFlight = [series \in {} |-> 0]
  /\ items = {}
  /\ records = {}
  /\ phase = [r \in Requests |-> "start"]
  /\ answer = [r \in Requests |-> Store!NoAnswer]

(***************************************************************************)
(* The way in.                                                             *)
(***************************************************************************)
\* buildRouter's order, outermost first.
StackRecoveryFirst == <<"recovery", "observability", "tracing", "metrics">>
Stack == <<"observability", "tracing", "metrics", "recovery">>

Goto(r, label) == pc' = [pc EXCEPT ![r] = label]

\* Writing a response ends the handler.
Write(r, code) ==
  /\ status' = [status EXCEPT ![r] = code]
  /\ Goto(r, "return")

\* isVersionedAPIPath: only these pass the security middleware.
IsVersionedAPIPath(q) == q.route \notin {"probe", "unmatched"}

\* The method and gin's FullPath, empty where no route matches.
Method(q) == CASE q.route = "create" -> "POST" [] q.route = "unmatched" -> "BREW" [] OTHER -> "GET"

FullPath(q) ==
  CASE q.route \in {"create", "list", "listCursor"} -> <<"api", "v1", "items">>
    [] q.route = "get" -> <<"api", "v1", "items", ":id">>
    [] q.route = "probe" -> <<"api", "healthz">>
    [] OTHER -> <<>>

SeriesOf(q) == Series(Method(q), FullPath(q))

\* metrics.Track: the series is there from its first request on.
Track(q) ==
  inFlight' = [x \in DOMAIN inFlight \cup {SeriesOf(q)} |->
                 (IF x \in DOMAIN inFlight THEN inFlight[x] ELSE 0) + (IF x = SeriesOf(q) THEN 1 ELSE 0)]

Arrive(r) ==
  /\ pc[r] = "idle"
  /\ \E q \in Traffic[config.load][r] :
       /\ req' = [req EXCEPT ![r] = q]
       /\ Track(q)
       /\ Goto(r, IF IsVersionedAPIPath(q) THEN "authenticate" ELSE "dispatch")
  /\ layer' = [layer EXCEPT ![r] = Len(Stack)]
  /\ span' = [span EXCEPT ![r] = "open"]
  /\ UNCHANGED <<config, rateKey, panicking, status, limiter, accessLog, observed, store>>

Identified(r, k, label) ==
  /\ rateKey' = [rateKey EXCEPT ![r] = k]
  /\ Goto(r, label)
  /\ UNCHANGED status

\* The security middleware up to its limiter.  A request whose context has
\* ended fails authentication whatever its credentials.
Authenticate(r) ==
  /\ pc[r] = "authenticate"
  /\ \/ ~config.auth /\ Identified(r, ClientRateKey(req[r]), "limit")
     \/ config.auth /\ Identified(r, RefusedRateKey(req[r]), "limitRefused")
     \/ config.auth /\ Verify(req[r].authorization) \in Subjects
          /\ Identified(r, PrincipalRateKey(req[r]), "limit")
     \/ config.auth /\ Verify(req[r].authorization) = "invalidPrincipal"
          /\ Write(r, 500) /\ UNCHANGED rateKey
  /\ UNCHANGED <<config, req, layer, panicking, limiter, observers, store>>

\* Limiter.Allow: a new key needs a free slot.
Tokens(k) ==
  IF k \in DOMAIN buckets THEN buckets[k]
  ELSE IF Cardinality(DOMAIN buckets) < MaxClients THEN Burst ELSE 0

Take(k) ==
  IF config.limiter
  THEN /\ Tokens(k) > 0
       /\ buckets' = [x \in DOMAIN buckets \cup {k} |->
                        IF x = k THEN Tokens(k) - 1 ELSE buckets[x]]
       /\ spent' = [spent EXCEPT ![k] = @ + 1]
  ELSE UNCHANGED limiter

\* allowSecurityRequest returns true; with refused credentials 401 follows.
AllowGoesOn(r) ==
  /\ pc[r] \in {"limit", "limitRefused"}
  /\ Take(rateKey[r])
  /\ Goto(r, "dispatch")
  /\ status' = [status EXCEPT ![r] = IF pc[r] = "limit" THEN @ ELSE 401]
  /\ UNCHANGED <<config, req, rateKey, layer, panicking, observers, store>>
Allow(r) ==
  /\ pc[r] \in {"limit", "limitRefused"}
  /\ Take(rateKey[r])
  /\ IF pc[r] = "limit" THEN Goto(r, "dispatch") /\ UNCHANGED status ELSE Write(r, 401)
  /\ UNCHANGED <<config, req, rateKey, layer, panicking, observers, store>>

\* Out of tokens, or no slot for a new key: both answer 429.
RateLimited(r) ==
  /\ pc[r] \in {"limit", "limitRefused"}
  /\ config.limiter
  /\ Tokens(rateKey[r]) = 0
  /\ Write(r, 429)
  /\ UNCHANGED <<config, req, rateKey, layer, panicking, limiter, observers, store>>

\* Time passes in the limiter: a token comes back, or an idle bucket expires.
RefillUncapped(k) ==
  /\ k \in DOMAIN buckets
  /\ buckets' = [buckets EXCEPT ![k] = @ + 1]
  /\ UNCHANGED <<config, pc, req, rateKey, layer, panicking, status, spent, observers, store>>
Refill(k) ==
  /\ k \in DOMAIN buckets
  /\ \/ buckets[k] < Burst /\ buckets' = [buckets EXCEPT ![k] = @ + 1]
     \/ buckets' = Restrict(buckets, DOMAIN buckets \ {k})
  /\ UNCHANGED <<config, pc, req, rateKey, layer, panicking, status, spent, observers, store>>

(***************************************************************************)
(* The handlers.                                                           *)
(***************************************************************************)
\* What no handler touches.
Handler(r) == UNCHANGED <<config, req, rateKey, layer, panicking, limiter, observers>>

\* Probes, and gin's answer where no route matches.
Probe(r) ==
  /\ pc[r] = "dispatch"
  /\ \/ req[r].route = "probe" /\ (Write(r, 200) \/ Write(r, 503))
     \/ req[r].route \in {"unmatched", "unmatchedAPI"} /\ Write(r, 404)
  /\ Handler(r) /\ UNCHANGED store

\* parseIdempotencyKey, decodeStrictJSON, uuid.Parse and parseListRequest.
Malformed(q) == q.form = "malformed" \/ (q.route = "create" /\ q.key = "malformed")

Parse(r) ==
  /\ pc[r] = "dispatch"
  /\ req[r].route \in {"create", "get", "list", "listCursor"}
  /\ IF Malformed(req[r]) THEN Write(r, 400) ELSE Goto(r, "service") /\ UNCHANGED status
  /\ Handler(r) /\ UNCHANGED store

\* Get, List and ListCursor change nothing.
Read(r) ==
  /\ pc[r] = "service"
  /\ req[r].route # "create"
  /\ \/ req[r].form = "ok" /\ Write(r, 200)
     \/ \E e \in ReadErrors(req[r]) : Write(r, ServiceStatus(e))
  /\ Handler(r) /\ UNCHANGED store

\* Service.Create and CreateIdempotent before they reach the store: a canceled
\* context, validation, the ID generator failing, and a generated ID that is no
\* UUIDv4, which uuid.NewRandom never returns.
ServiceErrors(q) ==
  {{}} \cup (IF q.form = "invalid" THEN {{"InvalidInput"}} ELSE {{"IDGeneration"}})
       \cup (IF q.form = "ok" /\ config.generator = "custom"
             THEN {{"IDGeneration", "InvalidInput"}} ELSE {})

ServiceFails(r) ==
  /\ pc[r] = "service"
  /\ req[r].route = "create"
  /\ \E e \in ServiceErrors(req[r]) : Write(r, ServiceStatus(e))
  /\ Handler(r) /\ UNCHANGED store

ReachesStore(r) == pc[r] = "service" /\ req[r].route = "create" /\ req[r].form = "ok"

CreatePlain(r) ==
  /\ ReachesStore(r)
  /\ req[r].key = "absent"
  /\ Handler(r) /\ UNCHANGED status
  /\ \/ Store!CreatePlain(r)
     \/ Store!ReplyError(r) /\ answer'[r].kind # "inProgress"
  /\ Goto(r, "respond")

CreateIdempotent(r) ==
  /\ ReachesStore(r)
  /\ req[r].key # "absent"
  /\ Handler(r) /\ UNCHANGED status
  /\ Store!Invoke(r)
  /\ Goto(r, "calling")

StorePerforms(r) ==
  /\ pc[r] = "calling"
  /\ Handler(r) /\ UNCHANGED <<pc, status>>
  /\ Store!Perform(r)

StoreReplies(r) ==
  /\ pc[r] = "calling"
  /\ Handler(r) /\ UNCHANGED status
  /\ \/ Store!ReplyCreated(r)
     \/ Store!ReplyReplayed(r)
     \/ Store!ReplyConflict(r)
     \/ Store!ReplyError(r)
  /\ Goto(r, "respond")

\* Handler.Create's answer.
SuccessStatusAlways201(kind) == 201
SuccessStatus(kind) == IF kind = "replayed" THEN 200 ELSE 201

Respond(r) ==
  /\ pc[r] = "respond"
  /\ IF answer[r].ID # NoID
     THEN Write(r, SuccessStatus(answer[r].kind))
     ELSE \E e \in CreateErrors(answer[r].kind, req[r]) : Write(r, ServiceStatus(e))
  /\ Handler(r) /\ UNCHANGED store

(***************************************************************************)
(* The way out.  A panic skips what follows c.Next() in every middleware   *)
(* up to the recovery; what is deferred runs.                              *)
(***************************************************************************)
Panic(r) ==
  /\ pc[r] \in {"service", "calling", "respond"}
  /\ panicking' = [panicking EXCEPT ![r] = TRUE]
  /\ Goto(r, "return")
  /\ UNCHANGED <<config, req, rateKey, layer, status, limiter, observers, store>>

Returns(r, name) ==
  /\ pc[r] = "return"
  /\ Stack[layer[r]] = name
  /\ layer' = [layer EXCEPT ![r] = @ - 1]
  /\ Goto(r, IF layer[r] = 1 THEN "done" ELSE "return")
  /\ UNCHANGED <<config, req, rateKey, limiter, store>>

\* sanitizedRecovery
Recover(r) ==
  /\ Returns(r, "recovery")
  /\ panicking' = [panicking EXCEPT ![r] = FALSE]
  /\ status' = IF panicking[r] THEN [status EXCEPT ![r] = 500] ELSE status
  /\ UNCHANGED observers

\* metricsMiddleware: done() is deferred, Observe is not.
MetricsReturn(r) ==
  /\ Returns(r, "metrics")
  /\ inFlight' = [inFlight EXCEPT ![SeriesOf(req[r])] = @ - 1]
  /\ observed' = IF panicking[r] THEN observed
                 ELSE [observed EXCEPT ![r] = Append(@, Sample(Method(req[r]), FullPath(req[r]), status[r]))]
  /\ UNCHANGED <<panicking, status, accessLog, span>>

TracingReturn(r) ==
  /\ Returns(r, "tracing")
  /\ span' = IF panicking[r] THEN span ELSE [span EXCEPT ![r] = "ended"]
  /\ UNCHANGED <<panicking, status, accessLog, observed, inFlight>>

ObservabilityReturn(r) ==
  /\ Returns(r, "observability")
  /\ accessLog' = IF panicking[r] THEN accessLog
                  ELSE [accessLog EXCEPT ![r] = Append(@, status[r])]
  /\ UNCHANGED <<panicking, status, observed, span, inFlight>>

\* All requests are served and the service goes on waiting.
Quiet ==
  /\ \A r \in Requests : pc[r] = "done" \/ Traffic[config.load][r] = {}
  /\ UNCHANGED vars

Next ==
  \/ \E r \in Requests :
       \/ Arrive(r) \/ Authenticate(r) \/ Allow(r) \/ RateLimited(r)
       \/ Probe(r) \/ Parse(r) \/ Read(r) \/ ServiceFails(r)
       \/ CreatePlain(r) \/ CreateIdempotent(r) \/ StorePerforms(r) \/ StoreReplies(r)
       \/ Respond(r) \/ Panic(r)
       \/ Recover(r) \/ MetricsReturn(r) \/ TracingReturn(r) \/ ObservabilityReturn(r)
  \/ \E k \in RateKeys : Refill(k)
  \/ Quiet

Spec == Init /\ [][Next]_vars

(***************************************************************************)
(* Properties.                                                             *)
(***************************************************************************)
Patterns == {FullPath([NoRequest EXCEPT !.route = x]) : x \in Routes} \ {<<>>}

Statuses == {0, 200, 201, 400, 401, 404, 409, 422, 429, 500, 503}

\* Every variable keeps its type: at most MaxClients buckets of at most Burst
\* tokens, only the statuses the API documents, and only series of a method and
\* a route pattern, whatever paths are asked for (pkg/metrics).
TypeOK ==
  /\ config \in Configs
  /\ pc \in [Requests -> {"idle", "authenticate", "limit", "limitRefused", "dispatch",
                          "service", "calling", "respond", "return", "done"}]
  /\ req \in [Requests -> Request]
  /\ rateKey \in [Requests -> RateKeys]
  /\ layer \in [Requests -> 0..Len(Stack)]
  /\ panicking \in [Requests -> BOOLEAN]
  /\ status \in [Requests -> Statuses]
  /\ DOMAIN buckets \subseteq RateKeys
  /\ Cardinality(DOMAIN buckets) <= MaxClients
  /\ \A k \in DOMAIN buckets : buckets[k] \in 0..Burst
  /\ spent \in [RateKeys -> Nat]
  /\ \A r \in Requests : Range(accessLog[r]) \subseteq Statuses
  /\ span \in [Requests -> {"none", "open", "ended"}]
  /\ DOMAIN inFlight \subseteq (supportedMethods \cup {"OTHER"}) \X (Patterns \cup {UnknownRoute})
  /\ items \subseteq Store!Item
  /\ \A e \in records : e.key \in RateKeys \X RawKeys /\ e.itemID \in Requests

\* A request that is over, whether its handler answered, refused or panicked,
\* has exactly one access event, one metrics sample and an ended span, all with
\* the status the client got, and no longer counts as in flight (buildRouter's
\* order of middlewares, docs/adr/0007).
AccountedOnce ==
  /\ \A r \in Requests :
       pc[r] = "done" =>
         /\ status[r] # 0
         /\ accessLog[r] = <<status[r]>>
         /\ observed[r] = <<Sample(Method(req[r]), FullPath(req[r]), status[r])>>
         /\ span[r] = "ended"
  /\ LET active == {r \in Requests : pc[r] # "idle" /\ observed[r] = <<>>}
     IN \A x \in DOMAIN inFlight :
          inFlight[x] = Cardinality({r \in active : SeriesOf(req[r]) = x})

\* Who a request acts for: its principal, or its peer when authentication is
\* off.  All peers without a usable address count as one.
Caller(r) == IF config.auth THEN <<"subject", Verify(req[r].authorization)>> ELSE <<"peer", req[r].peer>>

Succeeded(r) == pc[r] = "done" /\ status[r] \in {200, 201} /\ req[r].route = "create"

\* A create that succeeds names an Item made for the same caller, under the
\* same Idempotency-Key, from the same canonical input: no caller is ever
\* answered with another caller's Item (WithIdempotencyScope,
\* storageIdempotencyKey).
AnsweredOwnItem ==
  \A r \in Requests : Succeeded(r) =>
    LET maker == answer[r].ID
    IN  /\ \E i \in items : i.ID = maker /\ i.content = <<req[r].text, FALSE>>
        /\ Caller(maker) = Caller(r)
        /\ req[maker].key = req[r].key
        /\ req[maker].text = req[r].text

\* All successes of one caller under one Idempotency-Key name one Item, and at
\* most one of them says 201 Created: retries after a panic, a lost answer or a
\* 409 never make a second Item (Handler.Create's status and replay header).
CreatedOnce ==
  \A r, s \in Requests :
    /\ r # s /\ Succeeded(r) /\ Succeeded(s)
    /\ Caller(r) = Caller(s) /\ req[r].key = req[s].key /\ req[r].key # "absent"
    => answer[r].ID = answer[s].ID /\ ~(status[r] = 201 /\ status[s] = 201)

\* A client told 400, 401, 404, 422 or 429 may correct its request and send it
\* anew: the refused one left no Item and no replay record behind (the early
\* returns of securityMiddleware and Handler.Create).
RefusedWithoutEffect ==
  \A r \in Requests : status[r] \in {400, 401, 404, 422, 429} =>
    /\ \A i \in items : i.ID # r
    /\ \A e \in records : e.itemID # r

\* With authentication on, a principal is told 429 only after it has spent its
\* own burst: any number of refused credentials, from any peers, take neither
\* its tokens nor its slot in the limiter (the shared anonymous bucket of
\* securityMiddleware), provided that RATE_LIMIT_MAX_CLIENTS exceeds the number
\* of principals.  A value of 1 is accepted as well; then the anonymous bucket
\* may hold the only slot.
LimitedByOwnUse ==
  \A r \in Requests :
    /\ MaxClients > Cardinality(Subjects)
    /\ config.auth /\ status[r] = 429 /\ rateKey[r] # Anonymous
    => spent[rateKey[r]] >= Burst

\* 400 and 422 blame the client: a well-formed, valid request gets one in a
\* single case, not when another server fault wraps a client sentinel (the order
\* of writeServiceError's cases).  The case is a create whose ID a generator of
\* WithIDGenerator made wrong: Create joins ErrInvalidInput to ErrIDGeneration,
\* and the answer is 422.  With uuid.NewRandom there is none.
FaultNotBlamedOnClient ==
  \A r \in Requests :
    status[r] \in {400, 422} =>
      \/ req[r].form # "ok" \/ req[r].key = "malformed"
      \/ status[r] = 422 /\ req[r].route = "create" /\ config.generator = "custom"

\* RFC 6750's b64token, up to the length limit.
B64Tokens ==
  LET characters == UNION {[1..n -> TokenCharacters] : n \in 1..MaxBearerTokenBytes}
      paddings == {[i \in 1..n |-> "="] : n \in 0..MaxBearerTokenBytes}
  IN UNION {{chars \o padding : chars \in characters} : padding \in paddings}

Configured == {token \in DOMAIN Secrets \cap B64Tokens : Len(token) <= MaxBearerTokenBytes}

\* A request acts for a principal exactly if its Authorization header has one
\* value, made of the scheme in any case, one space and a token of RFC 6750
\* within the limit whose digest is configured for that principal; with
\* anything else it reaches no handler ("all other whitespace, duplicate
\* values, delimiters ... are rejected", ParseBearerToken).
AuthenticatedByBearer ==
  \A r \in Requests : config.auth /\ pc[r] # "idle" /\ IsVersionedAPIPath(req[r]) =>
    LET principals == {Secrets[token] : token \in
                         {t \in Configured : \E word \in BearerWords :
                            req[r].authorization = << <<word, " ">> \o t >>}}
    IN /\ pc[r] = "authenticate" => (Verify(req[r].authorization) = "refused" <=> principals = {})
       /\ pc[r] \in {"dispatch", "service", "calling", "respond"} => rateKey[r] \in {"principal"} \X principals
=============================================================================
