----------------------------- MODULE RateLimiter -----------------------------
(***************************************************************************)
(* The token-bucket limiter (pkg/ratelimit): goroutines that call AllowN,  *)
(* Cleanup and Len.  Each reads the clock BEFORE it takes the mutex, so    *)
(* the readings reach the buckets in any order and arbitrarily late; from  *)
(* the mutex on, a call is one step.                                       *)
(*                                                                         *)
(* Tokens are counted in parts: a token is Parts of them, and a tick       *)
(* refills Rate of them, so fractions of a token are exact (the code's     *)
(* float64 rounding is not modelled).                                      *)
(***************************************************************************)
EXTENDS Integers, FiniteSets

CONSTANTS Goroutines,
          Keys,         \* caller keys that validKey accepts, in string order
          BadKey,       \* a key that validKey refuses
          Capacity,     \* Config.Capacity, in tokens
          Parts,        \* parts of a token
          Rate,         \* Config.RefillRate, in parts per tick
          MaxClients,   \* Config.MaxClients
          IdleTTL,      \* Config.IdleTTL, in ticks; zero disables expiry
          MaxRetry,     \* maxRetryDuration, in ticks
          MaxTime       \* bound on the clock

\* Config.Validate.
ASSUME LimiterAssumption ==
  /\ Keys \subseteq Nat
  /\ BadKey \notin Keys
  /\ Capacity \in Nat \ {0}
  /\ Parts \in Nat \ {0}
  /\ Rate \in Nat \ {0}
  /\ MaxClients \in Nat \ {0}
  /\ IdleTTL \in Nat
  /\ MaxRetry \in Nat \ {0}
  /\ MaxTime \in Nat

VARIABLES time,      \* the clock
          overflow,  \* Limiter.overflow, set by New
          buckets,   \* Limiter.buckets: resident keys to their bucket
          call,      \* the call each goroutine is making
          now,       \* its reading of the clock
          reason,    \* Decision.Reason of the last call that returned
          retryAt    \* history: denials whose key has not been served since

vars == <<time, overflow, buckets, call, now, reason, retryAt>>

(***************************************************************************)
(* tokens, lastRefill and lastSeen are the code's fields; born and spent   *)
(* record when the bucket was made and what was taken from it since, used  *)
(* the latest clock reading of a call it served.                           *)
(***************************************************************************)
Bucket == [tokens : Nat, lastRefill : Nat, lastSeen : Nat,
           born : Nat, spent : Nat, used : Nat]

Full == Capacity * Parts

Allow(k, n) == [op |-> "allow", key |-> k, cost |-> n]

Sweep == [op |-> "cleanup", key |-> BadKey, cost |-> 0]

NoCall == [op |-> "none", key |-> BadKey, cost |-> 0]

\* Every cost around the accepted range 1..Capacity, for good and bad keys.
Calls == {Allow(k, n) : k \in Keys \cup {BadKey}, n \in 0..(Capacity + 1)} \cup {Sweep}

Reasons == {"", "rate_limited", "capacity", "invalid_key", "invalid_cost"}

Lower(a, b) == IF a < b THEN a ELSE b

Later(a, b) == IF a < b THEN b ELSE a

-----------------------------------------------------------------------------
(***************************************************************************)
(* The helpers of AllowN, as functions of the map and the clock reading t. *)
(***************************************************************************)
\* isExpired.
Expired(b, t) == IdleTTL > 0 /\ t >= b.lastSeen + IdleTTL

Idle(bs, t) == {k \in DOMAIN bs : Expired(bs[k], t)}

Without(bs, S) == [k \in DOMAIN bs \ S |-> bs[k]]

\* The key evictOldestLocked deletes.
Oldest(bs) ==
  CHOOSE k \in DOMAIN bs : \A j \in DOMAIN bs :
    \/ bs[k].lastSeen < bs[j].lastSeen
    \/ bs[k].lastSeen = bs[j].lastSeen /\ k <= j

AtCapacityOneLate(bs) == Cardinality(DOMAIN bs) > MaxClients
AtCapacity(bs) == Cardinality(DOMAIN bs) >= MaxClients

\* The buckets once an expired bucket of k is gone and, if k needs a slot and
\* none is free, every expired bucket.
Swept(k, t) ==
  LET bs == Without(buckets, {k} \cap Idle(buckets, t))
  IN  IF k \notin DOMAIN bs /\ AtCapacity(bs) THEN Without(bs, Idle(bs, t)) ELSE bs

\* k still finds no slot.
Crowded(k, t) == k \notin DOMAIN Swept(k, t) /\ AtCapacity(Swept(k, t))

Room(k, t) ==
  IF Crowded(k, t) THEN Without(Swept(k, t), {Oldest(Swept(k, t))}) ELSE Swept(k, t)

NewBucket(t) == [tokens |-> Full, lastRefill |-> t, lastSeen |-> t,
                 born |-> t, spent |-> 0, used |-> t]

\* The refill up to t.  A reading before lastRefill leaves the bucket as it is.
RefilledBackwards(b, t) ==
  [b EXCEPT !.tokens = Lower(Full, @ + Rate * (Later(t, b.lastRefill) - b.lastRefill)),
            !.lastRefill = t,
            !.lastSeen = Later(@, t),
            !.used = Later(@, t)]
RefilledUnseen(b, t) ==
  [b EXCEPT !.tokens = Lower(Full, @ + Rate * (Later(t, b.lastRefill) - b.lastRefill)),
            !.lastRefill = Later(@, t),
            !.used = Later(@, t)]
Refilled(b, t) ==
  [b EXCEPT !.tokens = Lower(Full, @ + Rate * (Later(t, b.lastRefill) - b.lastRefill)),
            !.lastRefill = Later(@, t),
            !.lastSeen = Later(@, Later(t, b.lastRefill)),
            !.used = Later(@, t)]

\* The bucket of k as the decision finds it.
Current(k, t) ==
  Refilled(IF k \in DOMAIN Room(k, t) THEN Room(k, t)[k] ELSE NewBucket(t), t)

With(bs, k, b) == [j \in DOMAIN bs \cup {k} |-> IF j = k THEN b ELSE bs[j]]

\* durationForTokens: ticks until n more parts are there, rounded up and capped.
TicksForRoundedDown(n) == n \div Rate
TicksFor(n) == IF n <= 0 THEN 0 ELSE Lower(MaxRetry, (n + Rate - 1) \div Rate)

-----------------------------------------------------------------------------
Init ==
  /\ time = 0
  /\ overflow \in {"RejectNew", "EvictOldest"}
  /\ buckets = [k \in {} |-> NewBucket(0)]
  /\ call = [g \in Goroutines |-> NoCall]
  /\ now = [g \in Goroutines |-> 0]
  /\ reason = ""
  /\ retryAt = {}

Start(g, c) ==
  /\ call' = [call EXCEPT ![g] = c]
  /\ now' = [now EXCEPT ![g] = time]
  /\ UNCHANGED <<time, overflow, buckets, reason, retryAt>>

Return(g, r) ==
  /\ call' = [call EXCEPT ![g] = NoCall]
  /\ now' = [now EXCEPT ![g] = 0]
  /\ reason' = r
  /\ UNCHANGED <<time, overflow>>

\* A call that fails validation returns before it reads the clock.
Refuse(g) ==
  /\ call[g] = NoCall
  /\ \E c \in Calls \ {Sweep} :
       \/ c.key = BadKey /\ Return(g, "invalid_key")
       \/ c.key # BadKey /\ c.cost \notin 1..Capacity /\ Return(g, "invalid_cost")
  /\ UNCHANGED <<buckets, retryAt>>

Enter(g) ==
  /\ call[g] = NoCall
  /\ \E c \in Calls : /\ c = Sweep \/ (c.key # BadKey /\ c.cost \in 1..Capacity)
                      /\ Start(g, c)

\* Denials of keys whose bucket is still the one they were based on.
Standing(bs) == {p \in retryAt : p.key \in DOMAIN bs}

\* AllowN with the mutex, when enough tokens are there.
Admit(g) ==
  LET k == call[g].key
      b == Current(k, now[g])
      n == call[g].cost * Parts
  IN  /\ call[g].op = "allow"
      /\ ~(Crowded(k, now[g]) /\ overflow = "RejectNew")
      /\ b.tokens >= n
      /\ buckets' = With(Room(k, now[g]), k,
                         [b EXCEPT !.tokens = @ - n, !.spent = @ + n])
      /\ retryAt' = {p \in Standing(Room(k, now[g])) : p.key # k}
      /\ Return(g, "")

\* The same with too few: the answer tells when to retry.
RateLimited(g) ==
  LET k == call[g].key
      b == Current(k, now[g])
      n == call[g].cost * Parts
      lack == n - b.tokens
  IN  /\ call[g].op = "allow"
      /\ ~(Crowded(k, now[g]) /\ overflow = "RejectNew")
      /\ b.tokens < n
      /\ buckets' = With(Room(k, now[g]), k, b)
      /\ retryAt' = Standing(Room(k, now[g])) \cup
           {[key |-> k, cost |-> call[g].cost, lack |-> lack,
             at |-> b.lastRefill + TicksFor(lack)]}
      /\ Return(g, "rate_limited")

\* No slot for a new key; the expired buckets are gone all the same.
RejectNew(g) ==
  LET k == call[g].key
  IN  /\ call[g].op = "allow"
      /\ Crowded(k, now[g]) /\ overflow = "RejectNew"
      /\ buckets' = Swept(k, now[g])
      /\ retryAt' = Standing(Swept(k, now[g]))
      /\ Return(g, "capacity")

\* Cleanup and Len.
Cleanup(g) ==
  /\ call[g].op = "cleanup"
  /\ buckets' = Without(buckets, Idle(buckets, now[g]))
  /\ retryAt' = {p \in retryAt : p.key \notin Idle(buckets, now[g])}
  /\ Return(g, "")

Tick ==
  /\ time < MaxTime
  /\ time' = time + 1
  /\ UNCHANGED <<overflow, buckets, call, now, reason, retryAt>>

Next ==
  \/ \E g \in Goroutines :
       \/ Refuse(g) \/ Enter(g) \/ Admit(g) \/ RateLimited(g) \/ RejectNew(g) \/ Cleanup(g)
  \/ Tick

Spec == Init /\ [][Next]_vars

-----------------------------------------------------------------------------
\* Every variable has its type: no bucket holds more than Capacity tokens, and
\* the map of buckets never outgrows MaxClients, under either policy.
TypeOK ==
  /\ time \in Nat
  /\ overflow \in {"RejectNew", "EvictOldest"}
  /\ DOMAIN buckets \subseteq Keys
  /\ Cardinality(DOMAIN buckets) <= MaxClients
  /\ \A k \in DOMAIN buckets : buckets[k] \in Bucket /\ buckets[k].tokens <= Full
  /\ call \in [Goroutines -> Calls \cup {NoCall}]
  /\ now \in [Goroutines -> Nat]
  /\ reason \in Reasons
  /\ retryAt \subseteq [key : Keys, cost : Nat, lack : Nat, at : Nat]

\* However late and out of order clock readings arrive, a bucket never hands out
\* more than a full burst and what its rate allows since it was made.
RateBound ==
  \A k \in DOMAIN buckets : buckets[k].spent <= Full + Rate * (time - buckets[k].born)

\* RetryAfter is the least wait that gets a denied call through: while nobody
\* else is served from the bucket it holds enough then, and not a tick before.
\* Where durationForTokens caps the wait, only the second half is promised.
RetryAfterExact ==
  \A p \in retryAt :
    LET b == buckets[p.key]
        level(t) == b.tokens + Rate * (Later(t, b.lastRefill) - b.lastRefill)
    IN  /\ p.key \in DOMAIN buckets
        /\ p.lack <= Rate * MaxRetry => level(p.at) >= p.cost * Parts
        /\ b.lastRefill < p.at => level(p.at - 1) < p.cost * Parts

\* Under RejectNew a bucket in use is never lost, and so never refilled at once:
\* it goes only when no call of the last IdleTTL ticks was served from it.
ActiveBucketKept ==
  [][overflow = "RejectNew" =>
       \A k \in DOMAIN buckets :
         k \notin DOMAIN buckets' \/ buckets'[k].spent < buckets[k].spent =>
           IdleTTL > 0 /\ time >= buckets[k].used + IdleTTL]_vars
=============================================================================
