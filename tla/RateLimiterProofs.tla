-------------------------- MODULE RateLimiterProofs --------------------------
(***************************************************************************)
(* Proofs about RateLimiter, for any number of goroutines and keys, every  *)
(* configuration Config.Validate accepts, every rate and every fraction of *)
(* a token, and clock readings that arrive in any order.                   *)
(***************************************************************************)
EXTENDS RateLimiter, FiniteSetTheorems, TLAPS

(***************************************************************************)
(* The inductive invariant.                                                *)
(***************************************************************************)
\* What a bucket has handed out and still holds never exceeds its burst and
\* its refills up to lastRefill, which lies between its making and the clock.
SoundBucket(b, t) ==
  /\ b \in Bucket
  /\ b.tokens <= Full
  /\ b.lastSeen = b.lastRefill /\ b.used = b.lastRefill
  /\ b.born <= b.lastRefill /\ b.lastRefill <= t
  /\ b.spent + b.tokens <= Full + Rate * (b.lastRefill - b.born)

SoundBuckets == \A k \in DOMAIN buckets : SoundBucket(buckets[k], time)

\* The map is a function on finitely many keys.
MapOfBuckets ==
  /\ buckets = [k \in DOMAIN buckets |-> buckets[k]]
  /\ IsFiniteSet(DOMAIN buckets)

\* No clock reading is ahead of the clock.
ReadingsBehind == \A g \in Goroutines : now[g] <= time

\* Only a validated call gets as far as the mutex.
CallsValid ==
  \A g \in Goroutines : call[g].op = "allow" =>
    call[g].key \in Keys /\ call[g].cost \in 1..Capacity

\* A denial was for no more than a full bucket.
DenialsWithinCapacity == \A p \in retryAt : p.cost <= Capacity

IInv ==
  /\ TypeOK
  /\ SoundBuckets
  /\ MapOfBuckets
  /\ ReadingsBehind
  /\ CallsValid
  /\ DenialsWithinCapacity
  /\ RetryAfterExact

-----------------------------------------------------------------------------
(***************************************************************************)
(* Arithmetic.                                                             *)
(***************************************************************************)
\* A rate times an interval.
LEMMA Refills ==
  ASSUME NEW r \in Nat, NEW x \in Int, NEW y \in Int
  PROVE  /\ r * x \in Int
         /\ r * (x + y) = r * x + r * y
         /\ r * (x - y) = r * x - r * y
         /\ x <= y => r * x <= r * y
         /\ 0 <= x => 0 <= r * x
  OBVIOUS

\* durationForTokens rounds up: the wait brings n parts, unless the cap cuts it,
\* and one tick less does not.
LEMMA TicksForExact ==
  ASSUME NEW n \in Nat \ {0}
  PROVE  /\ TicksFor(n) \in Nat \ {0}
         /\ n <= Rate * MaxRetry => Rate * TicksFor(n) >= n
         /\ Rate * (TicksFor(n) - 1) < n
<1> DEFINE q == (n + Rate - 1) \div Rate
<1>1. Rate \in Nat \ {0}
  BY LimiterAssumption, Zenon
<1>2. /\ q \in Int
      /\ Rate * q <= n + Rate - 1
      /\ n + Rate - 1 < Rate * (q + 1)
  BY <1>1
<1> HIDE DEF q
<1>3. Rate * (q - 1) = Rate * q - Rate /\ Rate * (q + 1) = Rate * q + Rate
  BY <1>1, <1>2
<1>4. q >= 1
  <2>1. q <= 0 => Rate * q <= Rate * 0
    BY <1>1, <1>2, Refills
  <2>2. QED
    BY <1>1, <1>2, <1>3, <2>1
<1>5. TicksFor(n) = Lower(MaxRetry, q) /\ MaxRetry \in Nat \ {0}
  BY LimiterAssumption DEF TicksFor, q
<1>6. CASE q <= MaxRetry
  <2>1. TicksFor(n) = q
    BY <1>2, <1>5, <1>6 DEF Lower
  <2>2. QED
    BY <1>1, <1>2, <1>3, <1>4, <2>1
<1>7. CASE MaxRetry < q
  <2>1. TicksFor(n) = MaxRetry
    BY <1>5, <1>7, Zenon DEF Lower
  <2>2. Rate * (MaxRetry - 1) <= Rate * (q - 1)
    BY <1>1, <1>2, <1>5, <1>7, Refills
  <2>3. Rate * (MaxRetry - 1) \in Int /\ Rate * (q - 1) \in Int /\ Rate * q \in Int
    BY <1>1, <1>2, <1>5
  <2>4. Rate * (MaxRetry - 1) < n
    BY <1>1, <1>2, <1>3, <2>2, <2>3
  <2>5. QED
    BY <1>5, <2>1, <2>4
<1>8. QED
  BY <1>2, <1>5, <1>6, <1>7

-----------------------------------------------------------------------------
(***************************************************************************)
(* Buckets.                                                                *)
(***************************************************************************)
\* A new bucket is sound.
LEMMA NewBucketSound ==
  ASSUME NEW t \in Nat, NEW latest \in Nat, t <= latest
  PROVE  SoundBucket(NewBucket(t), latest)
<1>1. Full \in Nat
  BY LimiterAssumption DEF Full
<1>2. Rate * (t - t) = 0
  BY LimiterAssumption
<1>3. QED
  BY <1>1, <1>2 DEF SoundBucket, NewBucket, Bucket

\* What a refill does to the fields of a bucket.
LEMMA RefilledFields ==
  ASSUME NEW b \in Bucket, b.tokens <= Full, b.lastSeen = b.lastRefill, b.used = b.lastRefill,
         NEW t \in Nat
  PROVE  LET c == Refilled(b, t)
             gain == Rate * (c.lastRefill - b.lastRefill)
         IN  /\ c \in Bucket
             /\ c.lastRefill = Later(b.lastRefill, t) /\ b.lastRefill <= c.lastRefill
             /\ c.lastSeen = c.lastRefill /\ c.used = c.lastRefill
             /\ c.born = b.born /\ c.spent = b.spent
             /\ gain \in Nat /\ c.tokens = Lower(Full, b.tokens + gain)
<1> DEFINE l == Later(b.lastRefill, t)
           gain == Rate * (l - b.lastRefill)
<1>1. b.lastRefill \in Nat /\ b.tokens \in Nat /\ Full \in Nat
  BY LimiterAssumption DEF Bucket, Full
<1>2. l \in Nat /\ b.lastRefill <= l /\ Later(t, b.lastRefill) = l /\ Later(b.lastRefill, l) = l
  BY <1>1 DEF Later
<1>3. gain \in Nat
  BY <1>1, <1>2, LimiterAssumption, Refills
<1>4. Lower(Full, b.tokens + gain) \in Nat
  BY <1>1, <1>3 DEF Lower
<1> HIDE DEF l, gain
<1>5. Refilled(b, t) = [b EXCEPT !.tokens = Lower(Full, b.tokens + gain), !.lastRefill = l,
                                 !.lastSeen = l, !.used = l]
  BY <1>2, Zenon DEF Refilled, l, gain
<1>6. QED
  BY <1>2, <1>3, <1>4, <1>5, Zenon DEF Bucket, l, gain

\* A refill keeps a bucket sound: nothing is gained that the rate does not give.
LEMMA RefilledSound ==
  ASSUME NEW latest \in Nat, NEW b, SoundBucket(b, latest), NEW t \in Nat, t <= latest
  PROVE  SoundBucket(Refilled(b, t), latest)
<1> DEFINE c == Refilled(b, t)
           gain == Rate * (c.lastRefill - b.lastRefill)
<1>1. /\ c \in Bucket
      /\ c.lastRefill = Later(b.lastRefill, t) /\ b.lastRefill <= c.lastRefill
      /\ c.lastSeen = c.lastRefill /\ c.used = c.lastRefill
      /\ c.born = b.born /\ c.spent = b.spent
      /\ gain \in Nat /\ c.tokens = Lower(Full, b.tokens + gain)
  BY RefilledFields, Zenon DEF SoundBucket
<1> HIDE DEF c
<1>2. /\ b.lastRefill \in Nat /\ b.born \in Nat /\ b.tokens \in Nat /\ b.spent \in Nat
      /\ c.lastRefill \in Nat /\ Full \in Nat
  BY <1>1, LimiterAssumption DEF Bucket, SoundBucket, Full
<1>3. gain + Rate * (b.lastRefill - b.born) = Rate * (c.lastRefill - b.born)
  BY <1>2, LimiterAssumption
<1>4. Rate * (b.lastRefill - b.born) \in Int
  BY <1>2, LimiterAssumption
<1> HIDE DEF gain
<1>5. c.tokens <= Full /\ c.tokens <= b.tokens + gain
  BY <1>1, <1>2 DEF Lower
<1>6. c.lastRefill <= latest /\ c.born <= c.lastRefill
  BY <1>1, <1>2 DEF Later, SoundBucket
<1>7. c.spent + c.tokens <= Full + Rate * (c.lastRefill - c.born)
  <2>1. b.spent + b.tokens <= Full + Rate * (b.lastRefill - b.born)
    BY Zenon DEF SoundBucket
  <2>2. c.tokens \in Nat
    BY <1>1, Zenon DEF Bucket
  <2>3. b.spent + c.tokens <= Full + Rate * (c.lastRefill - b.born)
    BY <1>1, <1>2, <1>3, <1>4, <1>5, <2>1, <2>2
  <2>4. QED
    BY <1>1, <2>3, Zenon
<1>8. SoundBucket(c, latest)
  BY <1>1, <1>5, <1>6, <1>7, Zenon DEF SoundBucket
<1>9. QED
  BY <1>8, Zenon DEF c

\* So does handing out tokens that are there.
LEMMA ServedSound ==
  ASSUME NEW latest \in Nat, NEW b \in Bucket, SoundBucket(b, latest), NEW n \in Nat, n <= b.tokens
  PROVE  LET c == [b EXCEPT !.tokens = @ - n, !.spent = @ + n]
         IN  SoundBucket(c, latest) /\ c.spent >= b.spent
<1> DEFINE left == b.tokens - n
           taken == b.spent + n
           c == [b EXCEPT !.tokens = left, !.spent = taken]
<1>1. b.tokens \in Nat /\ b.spent \in Nat /\ left \in Nat /\ taken \in Nat
  BY DEF Bucket
<1> HIDE DEF left, taken
<1>2. /\ c \in Bucket /\ c.tokens = left /\ c.spent = taken
      /\ c.lastSeen = b.lastSeen /\ c.lastRefill = b.lastRefill /\ c.used = b.used /\ c.born = b.born
  BY <1>1, Zenon DEF Bucket
<1> HIDE DEF c
<1>3. SoundBucket(c, latest) /\ c.spent >= b.spent
  <2>1. Full \in Nat
    BY LimiterAssumption DEF Full
  <2>2. QED
    BY <1>1, <1>2, <2>1 DEF SoundBucket, left, taken
<1>4. QED
  BY <1>3, Zenon DEF c, left, taken

-----------------------------------------------------------------------------
(***************************************************************************)
(* The map of buckets.                                                     *)
(***************************************************************************)
LEMMA LeastNat ==
  ASSUME NEW T \in SUBSET Nat, T # {}
  PROVE  \E m \in T : \A x \in T : m <= x
<1>1. PICK m \in T : \A x \in T : <<x, m>> \notin OpToRel(<, Nat)
  BY NatLessThanWellFounded, WFMin, Zenon
<1>2. \A x \in T : ~(x < m)
  BY <1>1, Zenon DEF OpToRel
<1>3. QED
  BY <1>2

\* evictOldestLocked finds a key: ties on lastSeen are broken by the key.
LEMMA OldestResident ==
  ASSUME NEW bs, DOMAIN bs \subseteq Nat, DOMAIN bs # {}, \A k \in DOMAIN bs : bs[k].lastSeen \in Nat
  PROVE  Oldest(bs) \in DOMAIN bs
<1>1. PICK m \in {bs[k].lastSeen : k \in DOMAIN bs} : \A x \in {bs[k].lastSeen : k \in DOMAIN bs} : m <= x
  BY LeastNat, Zenon
<1>2. \A j \in DOMAIN bs : m <= bs[j].lastSeen
  BY <1>1, Zenon
<1>3. PICK k \in {j \in DOMAIN bs : bs[j].lastSeen = m} :
        \A x \in {j \in DOMAIN bs : bs[j].lastSeen = m} : k <= x
  BY <1>1, LeastNat, Zenon
<1>4. \A j \in DOMAIN bs : \/ bs[k].lastSeen < bs[j].lastSeen
                           \/ bs[k].lastSeen = bs[j].lastSeen /\ k <= j
  BY <1>1, <1>2, <1>3
<1>5. QED
  BY <1>3, <1>4, Zenon DEF Oldest

\* Only expired buckets are swept, and a key without a bucket finds a slot
\* then unless it is Crowded.
LEMMA SweptKept ==
  ASSUME IInv, NEW k \in Keys, NEW t \in Nat
  PROVE  /\ Swept(k, t) = [j \in DOMAIN Swept(k, t) |-> buckets[j]]
         /\ DOMAIN Swept(k, t) \subseteq DOMAIN buckets
         /\ \A j \in DOMAIN buckets \ DOMAIN Swept(k, t) : Expired(buckets[j], t)
<1>1. CASE Swept(k, t) = Without(buckets, {k} \cap Idle(buckets, t))
  BY <1>1, Zenon DEF Without, Idle
<1>2. CASE Swept(k, t) = Without(Without(buckets, {k} \cap Idle(buckets, t)),
                                 Idle(Without(buckets, {k} \cap Idle(buckets, t)), t))
  BY <1>2, Zenon DEF Without, Idle
<1>3. QED
  BY <1>1, <1>2, Zenon DEF Swept

\* AllowN makes room: with k the map stays within MaxClients, and what it drops
\* has expired or was evicted from a full map.
LEMMA RoomKept ==
  ASSUME IInv, NEW k \in Keys, NEW t \in Nat
  PROVE  /\ Room(k, t) = [j \in DOMAIN Room(k, t) |-> buckets[j]]
         /\ DOMAIN Room(k, t) \subseteq DOMAIN buckets
         /\ \A j \in DOMAIN buckets \ DOMAIN Room(k, t) : Expired(buckets[j], t) \/ Crowded(k, t)
         /\ IsFiniteSet(DOMAIN Room(k, t) \cup {k})
         /\ Cardinality(DOMAIN Room(k, t) \cup {k}) <= MaxClients
<1> DEFINE S == Swept(k, t)
<1>1. /\ S = [j \in DOMAIN S |-> buckets[j]] /\ DOMAIN S \subseteq DOMAIN buckets
      /\ \A j \in DOMAIN buckets \ DOMAIN S : Expired(buckets[j], t)
  BY SweptKept, Zenon
<1>2. /\ IsFiniteSet(DOMAIN S) /\ Cardinality(DOMAIN S) \in Nat
      /\ Cardinality(DOMAIN S) <= MaxClients
  BY <1>1, FS_Subset, FS_CardinalityType, LimiterAssumption DEF IInv, TypeOK, MapOfBuckets
<1> HIDE DEF S
<1>3. CASE ~Crowded(k, t)
  <2>1. Room(k, t) = S
    BY <1>3, Zenon DEF Room, S
  <2>2. k \in DOMAIN S \/ ~(Cardinality(DOMAIN S) >= MaxClients)
    BY <1>3, Zenon DEF Crowded, AtCapacity, S
  <2>3. /\ IsFiniteSet(DOMAIN S \cup {k})
        /\ Cardinality(DOMAIN S \cup {k}) <= MaxClients
    <3>1. /\ IsFiniteSet(DOMAIN S \cup {k})
          /\ Cardinality(DOMAIN S \cup {k}) =
               IF k \in DOMAIN S THEN Cardinality(DOMAIN S) ELSE Cardinality(DOMAIN S) + 1
      BY <1>2, FS_AddElement, Zenon
    <3>2. QED
      BY <1>2, <2>2, <3>1, LimiterAssumption
  <2>4. QED
    BY <1>1, <2>1, <2>3, Zenon
<1>4. CASE Crowded(k, t)
  <2>1. Cardinality(DOMAIN S) >= MaxClients
    BY <1>4, Zenon DEF Crowded, AtCapacity, S
  <2>2. DOMAIN S # {}
    BY <2>1, FS_EmptySet, LimiterAssumption
  <2>3. Oldest(S) \in DOMAIN S
    <3>1. DOMAIN S \subseteq Nat
      BY <1>1, LimiterAssumption, Zenon DEF IInv, TypeOK
    <3>2. \A j \in DOMAIN S : S[j].lastSeen \in Nat
      BY <1>1, Zenon DEF IInv, TypeOK, Bucket
    <3>3. QED
      BY <2>2, <3>1, <3>2, OldestResident, Zenon
  <2>4. Room(k, t) = Without(S, {Oldest(S)})
    BY <1>4, Zenon DEF Room, S
  <2>5. DOMAIN Room(k, t) = DOMAIN S \ {Oldest(S)}
    BY <2>4, Zenon DEF Without
  <2>6. /\ IsFiniteSet(DOMAIN Room(k, t)) /\ Cardinality(DOMAIN Room(k, t)) <= MaxClients - 1
        /\ Cardinality(DOMAIN Room(k, t)) \in Nat
    <3>1. /\ IsFiniteSet(DOMAIN S \ {Oldest(S)})
          /\ Cardinality(DOMAIN S \ {Oldest(S)}) = Cardinality(DOMAIN S) - 1
      BY <1>2, <2>3, FS_RemoveElement, Zenon
    <3>2. Cardinality(DOMAIN S \ {Oldest(S)}) \in Nat
      BY <3>1, FS_CardinalityType, Zenon
    <3>3. QED
      BY <1>2, <2>5, <3>1, <3>2, LimiterAssumption
  <2>7. /\ IsFiniteSet(DOMAIN Room(k, t) \cup {k})
        /\ Cardinality(DOMAIN Room(k, t) \cup {k}) <= MaxClients
    <3>1. /\ IsFiniteSet(DOMAIN Room(k, t) \cup {k})
          /\ \/ Cardinality(DOMAIN Room(k, t) \cup {k}) = Cardinality(DOMAIN Room(k, t))
             \/ Cardinality(DOMAIN Room(k, t) \cup {k}) = Cardinality(DOMAIN Room(k, t)) + 1
      BY <2>6, FS_AddElement, Zenon
    <3>2. QED
      BY <2>6, <3>1, LimiterAssumption
  <2>8. Room(k, t) = [j \in DOMAIN Room(k, t) |-> buckets[j]]
    BY <1>1, <2>4, Zenon DEF Without
  <2>9. QED
    BY <1>1, <1>4, <2>5, <2>7, <2>8, Zenon
<1>5. QED
  BY <1>3, <1>4, Zenon

\* What it keeps is kept unchanged.
LEMMA RoomSame ==
  ASSUME IInv, NEW k \in Keys, NEW t \in Nat, NEW j \in DOMAIN Room(k, t)
  PROVE  j \in DOMAIN buckets /\ Room(k, t)[j] = buckets[j]
<1>1. /\ Room(k, t) = [i \in DOMAIN Room(k, t) |-> buckets[i]]
      /\ DOMAIN Room(k, t) \subseteq DOMAIN buckets
  BY RoomKept, Zenon
<1>2. QED
  BY <1>1, Zenon

-----------------------------------------------------------------------------
(***************************************************************************)
(* Denials.                                                                *)
(***************************************************************************)
\* What RetryAfterExact says of one denial and the bucket of its key.
ExactFor(p, b) ==
  /\ p.lack <= Rate * MaxRetry =>
       b.tokens + Rate * (Later(p.at, b.lastRefill) - b.lastRefill) >= p.cost * Parts
  /\ b.lastRefill < p.at =>
       b.tokens + Rate * (Later(p.at - 1, b.lastRefill) - b.lastRefill) < p.cost * Parts

Denial == [key : Keys, cost : 0..Capacity, lack : Nat, at : Nat]

\* A refill in between leaves the promised moment exact: it brings forward only
\* what would have been there anyway, and a full bucket is enough for any call.
LEMMA RefilledExact ==
  ASSUME NEW b \in Bucket, b.tokens <= Full, b.lastSeen = b.lastRefill, b.used = b.lastRefill,
         NEW t \in Nat, NEW p \in Denial, ExactFor(p, b)
  PROVE  ExactFor(p, Refilled(b, t))
<1> DEFINE c == Refilled(b, t)
           need == p.cost * Parts
           gain(x) == Rate * (x - b.lastRefill)
<1>1. /\ c \in Bucket /\ b.lastRefill <= c.lastRefill
      /\ c.tokens = Lower(Full, b.tokens + gain(c.lastRefill))
  BY RefilledFields, Zenon
<1>2. /\ b.lastRefill \in Nat /\ b.tokens \in Nat /\ c.lastRefill \in Nat /\ c.tokens \in Nat
      /\ p.at \in Nat /\ Full \in Nat /\ Rate \in Nat
  BY <1>1, LimiterAssumption DEF Bucket, Denial, Full
<1>3. need \in Nat /\ need <= Full
  <2>1. p.cost \in Nat /\ p.cost <= Capacity
    BY LimiterAssumption DEF Denial
  <2>2. QED
    BY <2>1, LimiterAssumption DEF Full
<1> HIDE DEF c
<1>4. CASE p.at <= c.lastRefill
  <2>1. /\ Later(p.at, b.lastRefill) \in Nat /\ Later(p.at, b.lastRefill) <= c.lastRefill
        /\ Later(p.at, c.lastRefill) = c.lastRefill
    BY <1>1, <1>2, <1>4 DEF Later
  <2>2. /\ gain(Later(p.at, b.lastRefill)) <= gain(c.lastRefill)
        /\ gain(Later(p.at, b.lastRefill)) \in Int /\ gain(c.lastRefill) \in Int
    BY <1>2, <2>1, Refills
  <2>3. p.lack <= Rate * MaxRetry => b.tokens + gain(Later(p.at, b.lastRefill)) >= need
    BY Zenon DEF ExactFor
  <2>4. p.lack <= Rate * MaxRetry => c.tokens >= need
    BY <1>1, <1>2, <1>3, <2>2, <2>3 DEF Lower
  <2>5. c.tokens + Rate * (c.lastRefill - c.lastRefill) = c.tokens
    BY <1>2
  <2>6. QED
    BY <1>2, <1>4, <2>1, <2>4, <2>5 DEF ExactFor, c
<1>5. CASE p.at > c.lastRefill
  <2>1. /\ Later(p.at, b.lastRefill) = p.at /\ Later(p.at - 1, b.lastRefill) = p.at - 1
        /\ Later(p.at, c.lastRefill) = p.at /\ Later(p.at - 1, c.lastRefill) = p.at - 1
    BY <1>1, <1>2, <1>5 DEF Later
  <2>2. /\ p.lack <= Rate * MaxRetry => b.tokens + gain(p.at) >= need
        /\ b.tokens + gain(p.at - 1) < need
    BY <1>1, <1>2, <1>5, <2>1 DEF ExactFor
  <2>3. /\ gain(p.at) \in Int /\ gain(p.at - 1) \in Int /\ gain(c.lastRefill) \in Int
        /\ gain(c.lastRefill) <= gain(p.at - 1)
    BY <1>2, <1>5, Refills
  <2>4. /\ gain(p.at) = gain(c.lastRefill) + Rate * (p.at - c.lastRefill)
        /\ gain(p.at - 1) = gain(c.lastRefill) + Rate * (p.at - 1 - c.lastRefill)
        /\ Rate * (p.at - c.lastRefill) \in Int /\ Rate * (p.at - 1 - c.lastRefill) \in Int
    BY <1>2, SMTT(20)
  <2> HIDE DEF gain
  <2>5. c.tokens = b.tokens + gain(c.lastRefill)
    BY <1>1, <1>2, <1>3, <2>2, <2>3 DEF Lower
  <2>6. /\ p.lack <= Rate * MaxRetry => c.tokens + Rate * (p.at - c.lastRefill) >= need
        /\ c.tokens + Rate * (p.at - 1 - c.lastRefill) < need
    BY <1>2, <1>3, <2>2, <2>3, <2>4, <2>5
  <2>7. QED
    BY <2>1, <2>6, Zenon DEF ExactFor, c
<1>6. QED
  BY <1>2, <1>4, <1>5

\* The moment RateLimited answers is exact.
LEMMA DeniedExact ==
  ASSUME NEW c \in Bucket, NEW k \in Keys, NEW n \in 1..Capacity, c.tokens < n * Parts
  PROVE  LET p == [key |-> k, cost |-> n, lack |-> n * Parts - c.tokens,
                   at |-> c.lastRefill + TicksFor(n * Parts - c.tokens)]
         IN  p \in Denial /\ ExactFor(p, c)
<1> DEFINE lack == n * Parts - c.tokens
           w == TicksFor(lack)
           p == [key |-> k, cost |-> n, lack |-> lack, at |-> c.lastRefill + w]
<1>1. c.tokens \in Nat /\ c.lastRefill \in Nat /\ n * Parts \in Nat /\ Rate \in Nat
  BY LimiterAssumption DEF Bucket
<1>2. lack \in Nat \ {0}
  BY <1>1
<1>3. /\ w \in Nat \ {0} /\ Rate * (w - 1) < lack
      /\ lack <= Rate * MaxRetry => Rate * w >= lack
  BY <1>2, TicksForExact, Zenon
<1>4. Rate * w \in Int /\ Rate * (w - 1) \in Int
  BY <1>1, <1>3
<1> HIDE DEF w
<1>5. /\ Later(c.lastRefill + w, c.lastRefill) - c.lastRefill = w
      /\ Later(c.lastRefill + w - 1, c.lastRefill) - c.lastRefill = w - 1
  BY <1>1, <1>3 DEF Later
<1>6. /\ lack <= Rate * MaxRetry => c.tokens + Rate * w >= n * Parts
      /\ c.tokens + Rate * (w - 1) < n * Parts
  BY <1>1, <1>3, <1>4
<1>7. p \in Denial /\ ExactFor(p, c)
  BY <1>1, <1>2, <1>3, <1>5, <1>6, LimiterAssumption DEF ExactFor, Denial
<1>8. QED
  BY <1>7, Zenon DEF w

\* RetryAfterExact, denial by denial.
LEMMA ExactForAll ==
  /\ RetryAfterExact <=> \A p \in retryAt : p.key \in DOMAIN buckets /\ ExactFor(p, buckets[p.key])
  /\ RetryAfterExact' <=>
       \A p \in retryAt' : p.key \in DOMAIN buckets' /\ ExactFor(p, buckets'[p.key])
  BY Zenon DEF RetryAfterExact, ExactFor

\* The denials of the invariant.
LEMMA DenialsKnown ==
  ASSUME IInv, NEW p \in retryAt
  PROVE  p \in Denial /\ p.key \in DOMAIN buckets /\ ExactFor(p, buckets[p.key])
<1>1. p.key \in DOMAIN buckets /\ ExactFor(p, buckets[p.key])
  BY ExactForAll, Zenon DEF IInv
<1>2. p \in [key : Keys, cost : Nat, lack : Nat, at : Nat] /\ p.cost <= Capacity
  BY Zenon DEF IInv, TypeOK, DenialsWithinCapacity
<1>3. QED
  BY <1>1, <1>2, LimiterAssumption DEF Denial

-----------------------------------------------------------------------------
(***************************************************************************)
(* The steps.                                                              *)
(***************************************************************************)
\* The bucket a decision is based on.
LEMMA CurrentSound ==
  ASSUME IInv, NEW k \in Keys, NEW t \in Nat, t <= time
  PROVE  /\ SoundBucket(Current(k, t), time)
         /\ k \in DOMAIN Room(k, t) => /\ Current(k, t) = Refilled(buckets[k], t)
                                       /\ Current(k, t).spent = buckets[k].spent
<1>1. time \in Nat
  BY Zenon DEF IInv, TypeOK
<1>2. CASE k \in DOMAIN Room(k, t)
  <2>1. k \in DOMAIN buckets /\ Current(k, t) = Refilled(buckets[k], t)
    BY <1>2, RoomSame, Zenon DEF Current
  <2>2. SoundBucket(buckets[k], time)
    BY <2>1, Zenon DEF IInv, SoundBuckets
  <2>3. Refilled(buckets[k], t).spent = buckets[k].spent
    BY <2>2, RefilledFields, Zenon DEF SoundBucket
  <2>4. QED
    BY <1>1, <2>1, <2>2, <2>3, RefilledSound, Zenon
<1>3. CASE k \notin DOMAIN Room(k, t)
  BY <1>1, <1>3, NewBucketSound, RefilledSound, Zenon DEF Current
<1>4. QED
  BY <1>2, <1>3, Zenon

\* The parts of the invariant that no return disturbs.
LEMMA ReturnInv ==
  ASSUME IInv, NEW g \in Goroutines, NEW r \in Reasons, Return(g, r)
  PROVE  /\ time' = time /\ time \in Nat
         /\ overflow' \in {"RejectNew", "EvictOldest"}
         /\ call' \in [Goroutines -> Calls \cup {NoCall}]
         /\ now' \in [Goroutines -> Nat]
         /\ reason' \in Reasons
         /\ ReadingsBehind'
         /\ CallsValid'
<1> USE DEF Return
<1>1. /\ time' = time /\ time \in Nat
      /\ overflow' \in {"RejectNew", "EvictOldest"}
      /\ reason' \in Reasons
  BY Zenon DEF IInv, TypeOK
<1>2. /\ call' \in [Goroutines -> Calls \cup {NoCall}]
      /\ call'[g] = NoCall /\ \A h \in Goroutines \ {g} : call'[h] = call[h]
  BY Zenon DEF IInv, TypeOK
<1>3. /\ now' \in [Goroutines -> Nat]
      /\ now'[g] = 0 /\ \A h \in Goroutines \ {g} : now'[h] = now[h]
  BY Zenon DEF IInv, TypeOK
<1>4. ReadingsBehind'
  BY <1>1, <1>3 DEF IInv, ReadingsBehind
<1>5. CallsValid'
  <2>1. NoCall.op # "allow"
    BY Zenon DEF NoCall
  <2>2. QED
    BY <1>2, <2>1, Zenon DEF IInv, CallsValid
<1>6. QED
  BY <1>1, <1>2, <1>3, <1>4, <1>5, Zenon

\* A call that leaves with buckets taken from the map keeps the invariant.
LEMMA DropInv ==
  ASSUME IInv, NEW g \in Goroutines, NEW r \in Reasons, Return(g, r),
         NEW S \in SUBSET DOMAIN buckets, buckets' = [j \in S |-> buckets[j]],
         retryAt' \subseteq retryAt, \A p \in retryAt' : p.key \in S
  PROVE  IInv'
<1>1. /\ time' = time /\ ReadingsBehind' /\ CallsValid'
      /\ call' \in [Goroutines -> Calls \cup {NoCall}] /\ now' \in [Goroutines -> Nat]
      /\ time' \in Nat /\ overflow' \in {"RejectNew", "EvictOldest"} /\ reason' \in Reasons
  BY ReturnInv, Zenon
<1>2. DOMAIN buckets' = S /\ \A j \in S : buckets'[j] = buckets[j]
  BY Zenon
<1>3. IsFiniteSet(S) /\ Cardinality(S) <= MaxClients
  <2>1. /\ IsFiniteSet(S) /\ Cardinality(S) <= Cardinality(DOMAIN buckets)
        /\ Cardinality(S) \in Nat /\ Cardinality(DOMAIN buckets) \in Nat
    BY FS_Subset, FS_CardinalityType, Zenon DEF IInv, MapOfBuckets
  <2>2. QED
    BY <2>1, LimiterAssumption DEF IInv, TypeOK
<1>4. TypeOK'
  BY <1>1, <1>2, <1>3, Zenon DEF IInv, TypeOK
<1>5. SoundBuckets' /\ MapOfBuckets' /\ DenialsWithinCapacity'
  BY <1>1, <1>2, <1>3, Zenon DEF IInv, SoundBuckets, MapOfBuckets, DenialsWithinCapacity
<1>6. RetryAfterExact'
  BY <1>2, DenialsKnown, ExactForAll, Zenon
<1>7. QED
  BY <1>1, <1>4, <1>5, <1>6, Zenon DEF IInv

\* A decision that stores a sound bucket keeps it, given exact denials.
LEMMA DecideInv ==
  ASSUME IInv, NEW g \in Goroutines, NEW r \in Reasons, Return(g, r),
         NEW k \in Keys, NEW t \in Nat, NEW b, SoundBucket(b, time),
         buckets' = With(Room(k, t), k, b),
         \A p \in retryAt' : /\ p \in Denial /\ p.key \in DOMAIN buckets'
                             /\ ExactFor(p, buckets'[p.key])
  PROVE  IInv'
<1>1. /\ time' = time /\ ReadingsBehind' /\ CallsValid'
      /\ call' \in [Goroutines -> Calls \cup {NoCall}] /\ now' \in [Goroutines -> Nat]
      /\ time' \in Nat /\ overflow' \in {"RejectNew", "EvictOldest"} /\ reason' \in Reasons
  BY ReturnInv, Zenon
<1>2. /\ Room(k, t) = [j \in DOMAIN Room(k, t) |-> buckets[j]]
      /\ DOMAIN Room(k, t) \subseteq DOMAIN buckets
      /\ IsFiniteSet(DOMAIN Room(k, t) \cup {k})
      /\ Cardinality(DOMAIN Room(k, t) \cup {k}) <= MaxClients
  BY RoomKept, Zenon
<1>3. /\ DOMAIN buckets' = DOMAIN Room(k, t) \cup {k}
      /\ buckets'[k] = b
      /\ \A j \in DOMAIN Room(k, t) \ {k} : j \in DOMAIN buckets /\ buckets'[j] = buckets[j]
  BY <1>2, Zenon DEF With
<1>4. \A j \in DOMAIN buckets' : SoundBucket(buckets'[j], time)
  BY <1>3, Zenon DEF IInv, SoundBuckets
<1>5. /\ retryAt' \subseteq [key : Keys, cost : Nat, lack : Nat, at : Nat]
      /\ \A p \in retryAt' : p.cost <= Capacity
  BY LimiterAssumption DEF Denial
<1>6. DOMAIN buckets' \subseteq Keys
  BY <1>2, <1>3, Zenon DEF IInv, TypeOK
<1>7. TypeOK'
  BY <1>1, <1>2, <1>3, <1>4, <1>5, <1>6, Zenon DEF TypeOK, SoundBucket
<1>8. MapOfBuckets'
  BY <1>2, <1>3, Zenon DEF MapOfBuckets, With
<1>9. RetryAfterExact'
  BY ExactForAll, Zenon
<1>10. QED
  BY <1>1, <1>4, <1>5, <1>7, <1>8, <1>9, Zenon DEF IInv, SoundBuckets, DenialsWithinCapacity

\* AllowN hands out tokens; the denials of that key are settled.
LEMMA AdmitInv ==
  ASSUME IInv, NEW g \in Goroutines, Admit(g)
  PROVE  IInv'
<1> DEFINE k == call[g].key
           t == now[g]
           b == Current(k, t)
           n == call[g].cost * Parts
           c == [b EXCEPT !.tokens = @ - n, !.spent = @ + n]
<1>1. /\ b.tokens >= n
      /\ buckets' = With(Room(k, t), k, c)
      /\ retryAt' = {p \in Standing(Room(k, t)) : p.key # k}
      /\ Return(g, "")
  BY Zenon DEF Admit
<1>2. k \in Keys /\ t \in Nat /\ t <= time /\ n \in Nat /\ time \in Nat
  <2>1. k \in Keys /\ call[g].cost \in 1..Capacity
    BY Zenon DEF Admit, IInv, CallsValid
  <2>2. t \in Nat /\ t <= time /\ time \in Nat
    BY Zenon DEF IInv, TypeOK, ReadingsBehind
  <2>3. QED
    BY <2>1, <2>2, LimiterAssumption
<1> HIDE DEF n, t, k
<1>3. SoundBucket(b, time) /\ b \in Bucket
  BY <1>2, CurrentSound, Zenon DEF SoundBucket
<1> HIDE DEF b
<1>4. SoundBucket(c, time)
  <2>1. n <= b.tokens
    BY <1>1, <1>2, <1>3, Zenon DEF Bucket
  <2>2. QED
    BY <1>2, <1>3, <2>1, ServedSound, Zenon
<1> HIDE DEF c
<1>5. \A p \in retryAt' : /\ p \in Denial /\ p.key \in DOMAIN buckets'
                          /\ ExactFor(p, buckets'[p.key])
  <2> SUFFICES ASSUME NEW p \in retryAt'
               PROVE  p \in Denial /\ p.key \in DOMAIN buckets' /\ ExactFor(p, buckets'[p.key])
    BY Zenon
  <2>1. p \in retryAt /\ p.key \in DOMAIN Room(k, t) /\ p.key # k
    BY <1>1, Zenon DEF Standing
  <2>2. Room(k, t)[p.key] = buckets[p.key]
    BY <1>2, <2>1, RoomSame, Zenon
  <2>3. p.key \in DOMAIN buckets' /\ buckets'[p.key] = Room(k, t)[p.key]
    BY <1>1, <2>1, Zenon DEF With
  <2>4. QED
    BY <2>1, <2>2, <2>3, DenialsKnown, Zenon
<1>6. QED
  BY <1>1, <1>2, <1>4, <1>5, DecideInv, Zenon DEF Reasons

\* AllowN denies for want of tokens, and answers when to retry.
LEMMA RateLimitedInv ==
  ASSUME IInv, NEW g \in Goroutines, RateLimited(g)
  PROVE  IInv'
<1> DEFINE k == call[g].key
           t == now[g]
           b == Current(k, t)
           n == call[g].cost
           d == [key |-> k, cost |-> n, lack |-> n * Parts - b.tokens,
                 at |-> b.lastRefill + TicksFor(n * Parts - b.tokens)]
<1>1. /\ b.tokens < n * Parts
      /\ buckets' = With(Room(k, t), k, b)
      /\ retryAt' = Standing(Room(k, t)) \cup {d}
      /\ Return(g, "rate_limited")
  BY Zenon DEF RateLimited
<1>2. k \in Keys /\ t \in Nat /\ t <= time /\ n \in 1..Capacity
  BY Zenon DEF RateLimited, IInv, CallsValid, TypeOK, ReadingsBehind
<1> HIDE DEF n, t, k
<1>3. /\ SoundBucket(b, time) /\ b \in Bucket
      /\ k \in DOMAIN Room(k, t) => b = Refilled(buckets[k], t)
  BY <1>2, CurrentSound, Zenon DEF SoundBucket
<1> HIDE DEF b
<1>4. d \in Denial /\ ExactFor(d, b) /\ d.key = k
  BY <1>1, <1>2, <1>3, DeniedExact, Zenon
<1> HIDE DEF d
<1>5. buckets'[k] = b /\ k \in DOMAIN buckets'
  BY <1>1, Zenon DEF With
<1>6. \A p \in retryAt' : /\ p \in Denial /\ p.key \in DOMAIN buckets'
                          /\ ExactFor(p, buckets'[p.key])
  <2> SUFFICES ASSUME NEW p \in retryAt', p # d
               PROVE  p \in Denial /\ p.key \in DOMAIN buckets' /\ ExactFor(p, buckets'[p.key])
    BY <1>4, <1>5, Zenon
  <2>1. p \in retryAt /\ p.key \in DOMAIN Room(k, t)
    BY <1>1, Zenon DEF Standing
  <2>2. p \in Denial /\ p.key \in DOMAIN buckets /\ ExactFor(p, buckets[p.key])
    BY <2>1, DenialsKnown, Zenon
  <2>3. CASE p.key = k
    <3>1. SoundBucket(buckets[k], time)
      BY <2>2, <2>3, Zenon DEF IInv, SoundBuckets
    <3>2. ExactFor(p, Refilled(buckets[k], t))
      BY <1>2, <2>2, <2>3, <3>1, RefilledExact, Zenon DEF SoundBucket
    <3>3. QED
      BY <1>3, <1>5, <2>1, <2>2, <2>3, <3>2, Zenon
  <2>4. CASE p.key # k
    <3>1. Room(k, t)[p.key] = buckets[p.key]
      BY <1>2, <2>1, RoomSame, Zenon
    <3>2. p.key \in DOMAIN buckets' /\ buckets'[p.key] = Room(k, t)[p.key]
      BY <1>1, <2>1, <2>4, Zenon DEF With
    <3>3. QED
      BY <2>2, <3>1, <3>2, Zenon
  <2>5. QED
    BY <2>3, <2>4, Zenon
<1>7. QED
  BY <1>1, <1>2, <1>3, <1>6, DecideInv, Zenon DEF Reasons

\* AllowN refuses a new key; what it swept is gone.
LEMMA RejectNewInv ==
  ASSUME IInv, NEW g \in Goroutines, RejectNew(g)
  PROVE  IInv'
<1>1. call[g].key \in Keys /\ now[g] \in Nat
  BY Zenon DEF RejectNew, IInv, CallsValid, TypeOK
<1>2. /\ Swept(call[g].key, now[g]) = [j \in DOMAIN Swept(call[g].key, now[g]) |-> buckets[j]]
      /\ DOMAIN Swept(call[g].key, now[g]) \subseteq DOMAIN buckets
  BY <1>1, SweptKept, Zenon
<1>3. QED
  BY <1>2, DropInv, Zenon DEF RejectNew, Standing, Reasons

\* Cleanup and Len drop the expired buckets.
LEMMA CleanupInv ==
  ASSUME IInv, NEW g \in Goroutines, Cleanup(g)
  PROVE  IInv'
<1>1. \A p \in retryAt : p.key \in DOMAIN buckets
  BY DenialsKnown, Zenon
<1>2. QED
  BY <1>1, DropInv, Zenon DEF Cleanup, Without, Reasons

\* A refused call leaves the map as it is.
LEMMA RefuseInv ==
  ASSUME IInv, NEW g \in Goroutines, Refuse(g)
  PROVE  IInv'
<1>1. PICK r \in Reasons : Return(g, r)
  BY Zenon DEF Refuse, Reasons
<1>2. UNCHANGED <<buckets, retryAt>> /\ \A p \in retryAt : p.key \in DOMAIN buckets
  BY DenialsKnown, Zenon DEF Refuse
<1>3. buckets' = [j \in DOMAIN buckets |-> buckets[j]]
  BY <1>2, Zenon DEF IInv, MapOfBuckets
<1>4. QED
  BY <1>1, <1>2, <1>3, DropInv, Zenon

\* A call enters with the clock as it is.
LEMMA EnterInv ==
  ASSUME IInv, NEW g \in Goroutines, Enter(g)
  PROVE  IInv'
<1>1. PICK c \in Calls : /\ c = Sweep \/ (c.key # BadKey /\ c.cost \in 1..Capacity)
                         /\ Start(g, c)
  BY Zenon DEF Enter
<1>2. /\ call' \in [Goroutines -> Calls \cup {NoCall}]
      /\ call'[g] = c /\ \A h \in Goroutines \ {g} : call'[h] = call[h]
  BY <1>1, Zenon DEF IInv, TypeOK, Start
<1>3. /\ now' \in [Goroutines -> Nat] /\ time' = time /\ time \in Nat
      /\ now'[g] = time /\ \A h \in Goroutines \ {g} : now'[h] = now[h]
  BY <1>1, Zenon DEF IInv, TypeOK, Start
<1>4. c.op = "allow" => c.key \in Keys /\ c.cost \in 1..Capacity
  BY <1>1 DEF Calls, Allow, Sweep
<1>5. UNCHANGED <<overflow, buckets, reason, retryAt>>
  BY <1>1, Zenon DEF Start
<1>6. CallsValid'
  BY <1>2, <1>4, Zenon DEF IInv, CallsValid
<1>7. ReadingsBehind'
  BY <1>3 DEF IInv, ReadingsBehind
<1>8. TypeOK' /\ SoundBuckets' /\ MapOfBuckets' /\ DenialsWithinCapacity' /\ RetryAfterExact'
  BY <1>2, <1>3, <1>5, Zenon DEF IInv, TypeOK, SoundBuckets, MapOfBuckets, DenialsWithinCapacity,
     RetryAfterExact
<1>9. QED
  BY <1>6, <1>7, <1>8, Zenon DEF IInv

\* Time passes, or nothing happens.
LEMMA TickInv ==
  ASSUME IInv, Tick \/ UNCHANGED vars
  PROVE  IInv'
<1>1. UNCHANGED <<overflow, buckets, call, now, reason, retryAt>>
  BY Zenon DEF Tick, vars
<1>2. time \in Nat /\ time' \in Nat /\ time <= time'
  BY DEF Tick, vars, IInv, TypeOK
<1>3. SoundBuckets'
  BY <1>1, <1>2 DEF IInv, SoundBuckets, SoundBucket, Bucket
<1>4. ReadingsBehind'
  BY <1>1, <1>2 DEF IInv, ReadingsBehind, TypeOK
<1>5. TypeOK' /\ MapOfBuckets' /\ CallsValid' /\ DenialsWithinCapacity' /\ RetryAfterExact'
  BY <1>1, <1>2, Zenon DEF IInv, TypeOK, MapOfBuckets, CallsValid, DenialsWithinCapacity,
     RetryAfterExact
<1>6. QED
  BY <1>3, <1>4, <1>5, Zenon DEF IInv

\* A limiter starts empty.
LEMMA InitInv == Init => IInv
<1> SUFFICES ASSUME Init PROVE IInv
  BY Zenon
<1>1. DOMAIN buckets = {} /\ retryAt = {}
  BY Zenon DEF Init
<1>2. IsFiniteSet({}) /\ Cardinality({}) = 0
  BY FS_EmptySet, Zenon
<1>3. TypeOK
  <2>1. call \in [Goroutines -> Calls \cup {NoCall}] /\ now \in [Goroutines -> Nat]
    BY Zenon DEF Init
  <2>2. Cardinality(DOMAIN buckets) <= MaxClients
    BY <1>1, <1>2, LimiterAssumption
  <2>3. QED
    BY <1>1, <2>1, <2>2, Zenon DEF Init, TypeOK, Reasons
<1>4. MapOfBuckets
  BY <1>2, Zenon DEF Init, MapOfBuckets
<1>5. ReadingsBehind
  <2>1. time = 0 /\ \A g \in Goroutines : now[g] = 0
    BY Zenon DEF Init
  <2>2. QED
    BY <2>1 DEF ReadingsBehind
<1>6. CallsValid
  BY Zenon DEF Init, CallsValid, NoCall
<1>7. SoundBuckets /\ DenialsWithinCapacity /\ RetryAfterExact
  BY <1>1, Zenon DEF SoundBuckets, DenialsWithinCapacity, RetryAfterExact
<1>8. QED
  BY <1>3, <1>4, <1>5, <1>6, <1>7, Zenon DEF IInv

\* Every step of the limiter keeps the invariant.
LEMMA NextInv == IInv /\ [Next]_vars => IInv'
  BY RefuseInv, EnterInv, AdmitInv, RateLimitedInv, RejectNewInv, CleanupInv, TickInv, Zenon
     DEF Next

-----------------------------------------------------------------------------
\* The invariant holds in every reachable state of the limiter.
THEOREM InductiveInvariant == Spec => []IInv
  BY InitInv, NextInv, PTL DEF Spec

\* Every reachable state is well typed; in particular no bucket overfills, and
\* under either overflow policy the map stays within MaxClients.
THEOREM TypeCorrect == Spec => []TypeOK
<1>1. IInv => TypeOK
  BY Zenon DEF IInv
<1>2. QED
  BY <1>1, InductiveInvariant, PTL

\* A bucket never hands out more than a burst and its rate since it was made,
\* in whatever order AllowN applies the clock readings.
THEOREM BoundsRate == Spec => []RateBound
<1>1. IInv => RateBound
  <2> SUFFICES ASSUME IInv, NEW k \in DOMAIN buckets
               PROVE  buckets[k].spent <= Full + Rate * (time - buckets[k].born)
    BY Zenon DEF RateBound
  <2> DEFINE b == buckets[k]
  <2>1. SoundBucket(b, time) /\ time \in Nat /\ Full \in Nat /\ Rate \in Nat
    BY LimiterAssumption DEF IInv, SoundBuckets, TypeOK, Full
  <2>2. b.tokens \in Nat /\ b.spent \in Nat /\ b.born \in Nat /\ b.lastRefill \in Nat
    BY <2>1, Zenon DEF SoundBucket, Bucket
  <2>3. b.lastRefill <= time /\ b.spent + b.tokens <= Full + Rate * (b.lastRefill - b.born)
    BY <2>1, Zenon DEF SoundBucket
  <2> HIDE DEF b
  <2>4. /\ Rate * (b.lastRefill - b.born) <= Rate * (time - b.born)
        /\ Rate * (b.lastRefill - b.born) \in Int /\ Rate * (time - b.born) \in Int
    BY <2>1, <2>2, <2>3, Refills
  <2>5. QED
    BY <2>1, <2>2, <2>3, <2>4 DEF b
<1>2. QED
  BY <1>1, InductiveInvariant, PTL

\* The RetryAfter that AllowN answers stays the least wait that suffices, until
\* a call is served from the bucket or the bucket goes, unless maxRetryDuration
\* cuts it short of sufficing.
THEOREM RetryIsExact == Spec => []RetryAfterExact
<1>1. IInv => RetryAfterExact
  BY Zenon DEF IInv
<1>2. QED
  BY <1>1, InductiveInvariant, PTL

\* Under RejectNew a bucket goes only when no call of the last IdleTTL was
\* served from it: no caller gets a fresh burst by making the limiter forget.
THEOREM KeepsActiveBucket == Spec => ActiveBucketKept
<1> DEFINE Gone(k) == k \notin DOMAIN buckets' \/ buckets'[k].spent < buckets[k].spent
<1>1. ASSUME IInv, [Next]_vars, overflow = "RejectNew", NEW k \in DOMAIN buckets, Gone(k)
      PROVE  IdleTTL > 0 /\ time >= buckets[k].used + IdleTTL
  <2>1. /\ buckets[k].used = buckets[k].lastSeen /\ buckets[k].lastSeen \in Nat
        /\ buckets[k].spent \in Nat /\ time \in Nat
    BY <1>1, Zenon DEF IInv, SoundBuckets, SoundBucket, Bucket, TypeOK
  <2>2. ASSUME NEW g \in Goroutines, Expired(buckets[k], now[g])
        PROVE  IdleTTL > 0 /\ time >= buckets[k].used + IdleTTL
    <3>1. now[g] \in Nat /\ now[g] <= time
      BY <1>1, Zenon DEF IInv, TypeOK, ReadingsBehind
    <3>2. QED
      BY <2>1, <2>2, <3>1, LimiterAssumption DEF Expired
  <2>3. buckets' # buckets
    BY <1>1, <2>1
  <2>4. ASSUME NEW g \in Goroutines, RejectNew(g) PROVE Expired(buckets[k], now[g])
    <3>1. call[g].key \in Keys /\ now[g] \in Nat
      BY <1>1, <2>4, Zenon DEF RejectNew, IInv, CallsValid, TypeOK
    <3>2. k \in DOMAIN buckets' => buckets'[k] = buckets[k]
      BY <1>1, <2>4, <3>1, SweptKept DEF RejectNew
    <3>3. QED
      BY <1>1, <2>1, <2>4, <3>1, <3>2, SweptKept DEF RejectNew
  <2>5. ASSUME NEW g \in Goroutines, Cleanup(g) PROVE Expired(buckets[k], now[g])
    <3>1. buckets' = [j \in DOMAIN buckets \ Idle(buckets, now[g]) |-> buckets[j]]
      BY <2>5, Zenon DEF Cleanup, Without
    <3>2. k \in DOMAIN buckets' => buckets'[k] = buckets[k]
      BY <3>1, Zenon
    <3>3. k \in Idle(buckets, now[g])
      BY <1>1, <2>1, <3>1, <3>2
    <3>4. QED
      BY <3>3, Zenon DEF Idle
  <2>6. ASSUME NEW g \in Goroutines, NEW c, call[g].op = "allow",
               ~Crowded(call[g].key, now[g]),
               buckets' = With(Room(call[g].key, now[g]), call[g].key, c),
               call[g].key \in DOMAIN Room(call[g].key, now[g]) =>
                 c.spent \in Nat /\ c.spent >= buckets[call[g].key].spent
        PROVE  Expired(buckets[k], now[g])
    <3>1. call[g].key \in Keys /\ now[g] \in Nat
      BY <1>1, <2>6, Zenon DEF IInv, CallsValid, TypeOK
    <3>2. k \in DOMAIN Room(call[g].key, now[g]) => FALSE
      <4> SUFFICES ASSUME k \in DOMAIN Room(call[g].key, now[g]) PROVE FALSE
        BY Zenon
      <4>1. k \in DOMAIN buckets' /\ k # call[g].key => buckets'[k] = buckets[k]
        BY <1>1, <2>6, <3>1, RoomSame, Zenon DEF With
      <4>2. k = call[g].key => buckets'[k] = c
        BY <2>6, Zenon DEF With
      <4>3. k \in DOMAIN buckets'
        BY <2>6, Zenon DEF With
      <4>4. QED
        BY <1>1, <2>1, <2>6, <4>1, <4>2, <4>3
    <3>3. QED
      BY <1>1, <2>6, <3>1, <3>2, RoomKept, Zenon
  <2>7. ASSUME NEW g \in Goroutines, Admit(g) \/ RateLimited(g)
        PROVE  Expired(buckets[k], now[g])
    <3> DEFINE k0 == call[g].key
               b == Current(k0, now[g])
               n == call[g].cost * Parts
    <3>1. k0 \in Keys /\ call[g].cost \in 1..Capacity /\ ~Crowded(k0, now[g]) /\ call[g].op = "allow"
      BY <1>1, <2>7, Zenon DEF Admit, RateLimited, IInv, CallsValid
    <3>2. now[g] \in Nat /\ now[g] <= time /\ n \in Nat
      BY <1>1, <3>1, LimiterAssumption DEF IInv, TypeOK, ReadingsBehind
    <3>3. \/ buckets' = With(Room(k0, now[g]), k0, b)
          \/ /\ b.tokens >= n
             /\ buckets' = With(Room(k0, now[g]), k0, [b EXCEPT !.tokens = @ - n, !.spent = @ + n])
      BY <2>7, Zenon DEF Admit, RateLimited
    <3> HIDE DEF n
    <3>4. /\ SoundBucket(b, time) /\ b \in Bucket
          /\ k0 \in DOMAIN Room(k0, now[g]) => b.spent = buckets[k0].spent
      BY <1>1, <3>1, <3>2, CurrentSound, Zenon DEF SoundBucket
    <3> HIDE DEF b
    <3>5. b.spent \in Nat /\ b.tokens \in Nat
      BY <3>4, Zenon DEF Bucket
    <3>6. PICK c : /\ buckets' = With(Room(k0, now[g]), k0, c)
                   /\ c.spent \in Nat /\ c.spent >= b.spent
      <4>1. CASE buckets' = With(Room(k0, now[g]), k0, b)
        BY <3>5, <4>1
      <4>2. CASE b.tokens >= n
        <5>1. n <= b.tokens
          BY <3>2, <3>5, <4>2, Zenon
        <5>2. LET c == [b EXCEPT !.tokens = @ - n, !.spent = @ + n]
              IN  SoundBucket(c, time) /\ c.spent >= b.spent
          BY <2>1, <3>2, <3>4, <5>1, ServedSound, Zenon
        <5>3. [b EXCEPT !.tokens = @ - n, !.spent = @ + n].spent \in Nat
          BY <5>2, Zenon DEF SoundBucket, Bucket
        <5>4. CASE buckets' = With(Room(k0, now[g]), k0,
                                   [b EXCEPT !.tokens = @ - n, !.spent = @ + n])
          BY <5>2, <5>3, <5>4, Zenon
        <5>5. QED
          BY <3>3, <4>1, <5>4, Zenon
      <4>3. QED
        BY <3>3, <4>1, <4>2, Zenon
    <3>7. QED
      BY <2>6, <3>1, <3>4, <3>6, Zenon
  <2>8. QED
    BY <1>1, <2>2, <2>3, <2>4, <2>5, <2>7, Zenon DEF Next, Refuse, Enter, Start, Tick, vars
<1>2. IInv /\ [Next]_vars =>
        [overflow = "RejectNew" =>
           \A k \in DOMAIN buckets :
             k \notin DOMAIN buckets' \/ buckets'[k].spent < buckets[k].spent =>
               IdleTTL > 0 /\ time >= buckets[k].used + IdleTTL]_vars
  BY <1>1, Zenon
<1>3. QED
  BY <1>2, InductiveInvariant, PTL DEF Spec, ActiveBucketKept
=============================================================================
