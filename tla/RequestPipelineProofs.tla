------------------------ MODULE RequestPipelineProofs ------------------------
(***************************************************************************)
(* Proofs about RequestPipeline, for any requests, principals, peers, keys *)
(* and traffic, and any burst and number of buckets: the steps that call   *)
(* the store, arrive and return keep the invariant, and what follows.      *)
(***************************************************************************)
EXTENDS RequestPipelineInvariant

\* Who calls the store, and with what.
LEMMA Calling ==
  ASSUME IInv, NEW r \in Requests, ReachesStore(r) \/ pc[r] = "calling"
  PROVE  /\ pc[r] \in {"service", "calling"}
         /\ req[r].route = "create" /\ req[r].form = "ok" /\ req[r].key # "malformed" /\ Identity(r)
         /\ OwnItem(r) \in Store!Item
         /\ req[r].key # "absent" => StorageKey(r) \in RateKeys \X RawKeys
         /\ ReachesStore(r) => phase[r] = "start"
<1>1. ASSUME ReachesStore(r)
      PROVE  /\ pc[r] = "service" /\ phase[r] = "start"
             /\ req[r].route = "create" /\ req[r].form = "ok" /\ req[r].key # "malformed" /\ Identity(r)
  <2>1. pc[r] = "service" /\ req[r].route = "create" /\ req[r].form = "ok"
    BY <1>1, Zenon DEF ReachesStore
  <2>2. phase[r] = "start" /\ ~Malformed(req[r]) BY <2>1, Zenon DEF IInv, Phases
  <2>3. IsVersionedAPIPath(req[r]) BY <2>1, Zenon DEF IsVersionedAPIPath
  <2>4. Identity(r) BY <2>1, <2>3, Zenon DEF IInv, Identities
  <2> QED BY <2>1, <2>2, <2>4, Zenon DEF Malformed
<1>2. ASSUME pc[r] = "calling"
      PROVE  req[r].route = "create" /\ req[r].form = "ok" /\ req[r].key # "malformed" /\ Identity(r)
  <2>1. phase[r] # "start" BY <1>2, Zenon DEF IInv, Phases
  <2> QED BY <2>1, Zenon DEF IInv, Phases
<1>3. req[r].text \in Texts /\ req[r].key \in RawKeys \cup {"absent", "malformed"} /\ rateKey[r] \in RateKeys
  BY DEF IInv, TypeOK, Request
<1>4. OwnItem(r) \in Store!Item
  BY <1>3 DEF OwnItem, Fingerprint, Store!Item
<1>5. req[r].key \notin {"absent", "malformed"} => StorageKey(r) \in RateKeys \X RawKeys
  BY <1>3, Zenon DEF StorageKey
<1> QED BY <1>1, <1>2, <1>4, <1>5, Zenon

LEMMA CreateIdempotentInv ==
  ASSUME IInv, NEW r \in Requests, CreateIdempotent(r)
  PROVE  IInv'
<1>1. ReachesStore(r) /\ req[r].key # "absent" /\ Handler(r) /\ UNCHANGED status
        /\ pc' = [pc EXCEPT ![r] = "calling"]
  BY Zenon DEF CreateIdempotent, Goto
<1>2. phase' = [phase EXCEPT ![r] = "called"] /\ UNCHANGED <<items, records, answer>> /\ phase[r] = "start"
  BY Zenon DEF CreateIdempotent, Store!Invoke
<1>3. UNCHANGED <<req, rateKey>> BY <1>1, Zenon DEF Handler
<1>4. TypedStore' BY <1>2, Zenon DEF IInv, TypeOK, TypedStore
<1>5. Made' BY <1>2, <1>3, MadeGrows, Zenon
<1>6. Answers' BY <1>2, <1>3, AnswersGrow, Zenon
<1> QED BY <1>1, <1>2, <1>4, <1>5, <1>6, Calling, CallsInv, Zenon

\* The arguments of a call are the request's.
LEMMA Arguments ==
  ASSUME NEW r \in Requests
  PROVE  /\ StoreRequests[r].key = StorageKey(r) /\ StoreRequests[r].ID = r
         /\ StoreRequests[r].fingerprint = Fingerprint(req[r])
         /\ Store!NewItem(r) = OwnItem(r)
<1>1. /\ StoreRequests[r].key = StorageKey(r) /\ StoreRequests[r].ID = r
      /\ StoreRequests[r].fingerprint = Fingerprint(req[r])
  BY Zenon DEF StoreRequests
<1> QED BY <1>1, Zenon DEF Store!NewItem, OwnItem

LEMMA StorePerformsInv ==
  ASSUME IInv, NEW r \in Requests, StorePerforms(r)
  PROVE  IInv'
<1>1. pc[r] = "calling" /\ Handler(r) /\ UNCHANGED <<pc, status>>
  BY Zenon DEF StorePerforms
<1>2. pc' = [pc EXCEPT ![r] = "calling"]
  BY <1>1, Zenon DEF IInv, TypeOK
<1>3. Store!Perform(r) BY Zenon DEF StorePerforms
<1>4. /\ phase[r] = "called" /\ phase' = [phase EXCEPT ![r] = "performed"] /\ UNCHANGED answer
      /\ items' = items \cup {OwnItem(r)}
  BY <1>3, Arguments, Zenon DEF Store!Perform
<1>5. records' = records \cup {OwnRecord(r)} /\ \A e \in records : e.key # StorageKey(r)
  <2>1. PICK at \in [s \in Requests |-> 0][r]..0, S \in SUBSET Store!Outdated :
          /\ Store!RecordFor(StoreRequests[r].key) \subseteq S
          /\ records' = (records \ S) \cup {[key |-> StoreRequests[r].key,
                                             fingerprint |-> StoreRequests[r].fingerprint,
                                             itemID |-> StoreRequests[r].ID, at |-> at]}
    BY <1>3, Zenon DEF Store!Perform
  <2>2. S = {} BY NothingOutdated, Zenon DEF IInv
  <2>3. at = 0
    <3>1. at \in 0..0 BY Zenon
    <3> QED BY <3>1, SMT
  <2>4. records' = records \cup {OwnRecord(r)} BY <2>1, <2>2, <2>3, Arguments, Zenon DEF OwnRecord
  <2> QED BY <2>1, <2>2, <2>4, Arguments, Zenon DEF Store!RecordFor
<1>6. UNCHANGED <<req, rateKey>> BY <1>1, Zenon DEF Handler
<1>7. req[r].key # "absent" BY <1>4, Zenon DEF IInv, Phases
<1>8. TypedStore'
  <2>1. OwnRecord(r).key = StorageKey(r) /\ OwnRecord(r).itemID = r BY Zenon DEF OwnRecord
  <2>2. OwnItem(r) \in Store!Item /\ StorageKey(r) \in RateKeys \X RawKeys BY <1>1, <1>7, Calling, Zenon
  <2>3. TypedStore BY Zenon DEF IInv, TypeOK, TypedStore
  <2> QED BY <1>4, <1>5, <2>1, <2>2, <2>3, Zenon DEF TypedStore
<1>9. Made' BY <1>4, <1>5, <1>6, <1>7, MadeGrows, Zenon
<1>10. Answers' BY <1>4, <1>5, <1>6, AnswersGrow, Zenon
<1> QED BY <1>1, <1>2, <1>4, <1>7, <1>8, <1>9, <1>10, Calling, CallsInv, Zenon

\* A call that ends.
LEMMA RepliesInv ==
  ASSUME IInv, NEW r \in Requests, ReachesStore(r) \/ pc[r] = "calling", Handler(r), UNCHANGED status,
         pc' = [pc EXCEPT ![r] = "respond"], phase[r] # "done", NEW a, Store!Reply(r, a),
         items' = items \/ items' = items \cup {OwnItem(r)},
         a.ID # NoID => Answered(r)'
  PROVE  IInv'
<1>1. phase' = [phase EXCEPT ![r] = "done"] /\ answer' = [answer EXCEPT ![r] = a] /\ records' = records
  <2>1. PICK S \in SUBSET Store!Outdated : records' = records \ S BY Zenon DEF Store!Reply
  <2>2. S = {} BY NothingOutdated, Zenon DEF IInv
  <2>3. records' = records BY <2>1, <2>2, Zenon
  <2> QED BY <2>3, Zenon DEF Store!Reply
<1>2. UNCHANGED <<req, rateKey>> BY Zenon DEF Handler
<1>3. TypedStore'
  <2>1. OwnItem(r) \in Store!Item BY Calling, Zenon
  <2>2. TypedStore BY Zenon DEF IInv, TypeOK, TypedStore
  <2> QED BY <1>1, <2>1, <2>2, Zenon DEF TypedStore
<1>4. Made' BY <1>1, <1>2, MadeGrows, Zenon
<1>5. Answers' BY <1>1, <1>2, AnswersGrow, Zenon
<1>6. \A s \in Requests : s # r => answer'[s] = answer[s]
  BY <1>1, Zenon DEF IInv, Answers
<1> QED BY <1>1, <1>3, <1>4, <1>5, <1>6, Calling, CallsInv, Zenon

\* What Reply writes down for its call.
LEMMA Replied ==
  ASSUME IInv, NEW r \in Requests, NEW a, Store!Reply(r, a)
  PROVE  answer'[r] = a
<1>1. answer = [s \in Requests |-> answer[s]] BY Zenon DEF IInv, Answers
<1>2. answer' = [answer EXCEPT ![r] = a] BY Zenon DEF Store!Reply
<1> QED BY <1>1, <1>2, Zenon

LEMMA ErrorsInv ==
  ASSUME IInv, NEW r \in Requests, ReachesStore(r) \/ pc[r] = "calling", Handler(r), UNCHANGED status,
         pc' = [pc EXCEPT ![r] = "respond"], phase[r] # "done", NEW kind, Store!Reply(r, Store!Error(kind)),
         UNCHANGED items
  PROVE  IInv'
<1>1. Store!Error(kind).ID = NoID BY Zenon DEF Store!Error
<1> QED BY <1>1, RepliesInv, Zenon

LEMMA CreatePlainInv ==
  ASSUME IInv, NEW r \in Requests, CreatePlain(r)
  PROVE  IInv'
<1>1. ReachesStore(r) /\ Handler(r) /\ UNCHANGED status /\ req[r].key = "absent"
        /\ pc' = [pc EXCEPT ![r] = "respond"]
  BY Zenon DEF CreatePlain, Goto
<1>2. CASE Store!CreatePlain(r)
  <2>1. PICK a : /\ phase[r] = "start" /\ items' = items \cup {OwnItem(r)} /\ Store!Reply(r, a)
                 /\ \/ a = [kind |-> "stored", ID |-> r]
                    \/ a = Store!Error("canceled") \/ a = Store!Error("unavailable")
    BY <1>2, Arguments, Zenon DEF Store!CreatePlain
  <2>2. answer'[r] = a BY <2>1, Replied, Zenon
  <2>3. a.ID # NoID => a.kind = "stored" /\ a.ID = r BY <2>1, SMT DEF Store!Error
  <2>4. OwnItem(r)' = OwnItem(r) /\ req'[r].key = "absent" BY <1>1, Zenon DEF OwnItem, Handler
  <2>5. a.ID # NoID => Answered(r)' BY <2>1, <2>2, <2>3, <2>4, Zenon DEF Answered
  <2> QED BY <1>1, <2>1, <2>5, RepliesInv, Zenon
<1>3. CASE Store!ReplyError(r)
  BY <1>1, <1>3, ErrorsInv, Zenon DEF Store!ReplyError
<1> QED BY <1>2, <1>3, Zenon DEF CreatePlain

LEMMA StoreRepliesInv ==
  ASSUME IInv, NEW r \in Requests, StoreReplies(r)
  PROVE  IInv'
<1>1. pc[r] = "calling" /\ Handler(r) /\ UNCHANGED <<status, req, rateKey>> /\ pc' = [pc EXCEPT ![r] = "respond"]
  BY Zenon DEF StoreReplies, Goto, Handler
<1>2. CASE Store!ReplyCreated(r)
  <2> DEFINE a == [kind |-> "created", ID |-> r]
  <2>1. phase[r] = "performed" /\ items' = items /\ Store!Reply(r, a)
    BY <1>2, Arguments, Zenon DEF Store!ReplyCreated
  <2>2. answer'[r] = a BY <2>1, Replied, Zenon
  <2>3. a.kind = "created" /\ a.ID = r BY Zenon
  <2>4. \E e \in records' : e.itemID = r
    <3>1. PICK S \in SUBSET Store!Outdated : records' = records \ S BY <2>1, Zenon DEF Store!Reply
    <3>2. S = {} BY NothingOutdated, Zenon DEF IInv
    <3> QED BY <2>1, <3>1, <3>2, Zenon DEF IInv, Made
  <2>5. Answered(r)' BY <2>2, <2>3, <2>4, Zenon DEF Answered
  <2> HIDE DEF a
  <2> QED BY <1>1, <2>1, <2>5, RepliesInv, Zenon
<1>3. CASE Store!ReplyReplayed(r)
  <2>1. PICK e \in records : /\ e.key = StorageKey(r) /\ e.fingerprint = Fingerprint(req[r])
                             /\ Store!Reply(r, [kind |-> "replayed", ID |-> e.itemID])
    BY <1>3, Arguments, Zenon DEF Store!ReplyReplayed, Store!RecordFor
  <2> DEFINE a == [kind |-> "replayed", ID |-> e.itemID]
  <2>2. phase[r] = "called" /\ items' = items /\ Store!Reply(r, a)
    BY <1>3, <2>1, Zenon DEF Store!ReplyReplayed
  <2>3. answer'[r] = a BY <2>2, Replied, Zenon
  <2>4. a.kind = "replayed" /\ a.ID = e.itemID BY Zenon
  <2>5. e \in records'
    <3>1. PICK S \in SUBSET Store!Outdated : records' = records \ S BY <2>2, Zenon DEF Store!Reply
    <3>2. S = {} BY NothingOutdated, Zenon DEF IInv
    <3> QED BY <3>1, <3>2, Zenon
  <2>6. StorageKey(r)' = StorageKey(r) BY <1>1, Zenon DEF StorageKey
  <2>7. Answered(r)' BY <1>1, <2>1, <2>3, <2>4, <2>5, <2>6, Zenon DEF Answered
  <2> HIDE DEF a
  <2> QED BY <1>1, <2>2, <2>7, RepliesInv, Zenon
<1>4. CASE Store!ReplyConflict(r)
  BY <1>1, <1>4, ErrorsInv, Zenon DEF Store!ReplyConflict
<1>5. CASE Store!ReplyError(r)
  BY <1>1, <1>5, ErrorsInv, Zenon DEF Store!ReplyError
<1> QED BY <1>2, <1>3, <1>4, <1>5, Zenon DEF StoreReplies

(***************************************************************************)
(* The way in and the way out.                                             *)
(***************************************************************************)
LEMMA PositionKept ==
  ASSUME NEW s \in Requests, Position(s), pc'[s] = pc[s], req'[s] = req[s], layer'[s] = layer[s],
         panicking'[s] = panicking[s], status'[s] = status[s], span'[s] = span[s],
         observed'[s] = observed[s], accessLog'[s] = accessLog[s]
  PROVE  Position(s)'
BY Zenon DEF Position, SampleOf

LEMMA ArriveInv ==
  ASSUME IInv, NEW r \in Requests, Arrive(r)
  PROVE  IInv'
<1>1. PICK q \in Traffic[config.load][r] :
        /\ req' = [req EXCEPT ![r] = q] /\ Track(q)
        /\ pc' = [pc EXCEPT ![r] = IF IsVersionedAPIPath(q) THEN "authenticate" ELSE "dispatch"]
  BY Zenon DEF Arrive, Goto
<1> DEFINE l == IF IsVersionedAPIPath(q) THEN "authenticate" ELSE "dispatch"
           x == SeriesOf(q)
<1>2. /\ pc[r] = "idle"
      /\ layer' = [layer EXCEPT ![r] = 4] /\ span' = [span EXCEPT ![r] = "open"]
      /\ UNCHANGED <<config, rateKey, panicking, status, buckets, spent, accessLog, observed,
                     items, records, phase, answer, limiter, store>>
  <2>1. Len(Stack) = 4 BY DEF Stack
  <2> QED BY <2>1, Zenon DEF Arrive, limiter, store
<1>3. q \in Request
  <2>1. config.load \in DOMAIN Traffic BY PipelineAssumption DEF IInv, TypeOK
  <2> QED BY <2>1, PipelineAssumption
<1>4. phase[r] = "start" /\ status[r] = 0 /\ ~panicking[r] /\ observed[r] = <<>> /\ accessLog[r] = <<>>
  BY <1>2, Zenon DEF IInv, Phases, Positions, Position
<1>5. /\ pc'[r] = l /\ req'[r] = q /\ layer'[r] = 4 /\ span'[r] = "open"
      /\ \A s \in Requests : s # r => /\ pc'[s] = pc[s] /\ req'[s] = req[s] /\ layer'[s] = layer[s]
                                      /\ span'[s] = span[s]
  BY <1>1, <1>2, Zenon DEF IInv, TypeOK
<1>6. l \in {"authenticate", "dispatch"} /\ (l = "authenticate" <=> IsVersionedAPIPath(q))
  BY Zenon
<1>7. /\ DOMAIN inFlight' = DOMAIN inFlight \cup {x}
      /\ inFlight' = [y \in DOMAIN inFlight' |-> inFlight'[y]]
      /\ \A y \in DOMAIN inFlight : y # x => inFlight'[y] = inFlight[y] + 0
      /\ inFlight'[x] = (IF x \in DOMAIN inFlight THEN inFlight[x] ELSE 0) + 1
  BY <1>1, Zenon DEF Track
<1> HIDE DEF l, x
<1>8. TypeOK'
  <2>1. (pc \in [Requests -> {"idle", "authenticate", "limit", "limitRefused", "dispatch",
                            "service", "calling", "respond", "return", "done"}])'
    BY <1>1, <1>6, Zenon DEF IInv, TypeOK, l
  <2>2. (req \in [Requests -> Request])' BY <1>1, <1>3, Zenon DEF IInv, TypeOK
  <2>3. (layer \in [Requests -> 0..Len(Stack)])'
    <3>1. 4 \in 0..Len(Stack) BY DEF Stack
    <3> QED BY <1>2, <3>1, Zenon DEF IInv, TypeOK
  <2>4. (span \in [Requests -> {"none", "open", "ended"}])' BY <1>2, Zenon DEF IInv, TypeOK
  <2>5. DOMAIN inFlight' \subseteq (supportedMethods \cup {"OTHER"}) \X (Patterns \cup {UnknownRoute})
    <3>1. DOMAIN inFlight \subseteq (supportedMethods \cup {"OTHER"}) \X (Patterns \cup {UnknownRoute})
      BY Zenon DEF IInv, TypeOK
    <3>2. x \in (supportedMethods \cup {"OTHER"}) \X (Patterns \cup {UnknownRoute})
      BY <1>3, SeriesKnown, Zenon DEF x
    <3> QED BY <1>7, <3>1, <3>2, Zenon
  <2> QED BY <1>2, <2>1, <2>2, <2>3, <2>4, <2>5, Zenon DEF IInv, TypeOK
<1>9. Positions'
  <2>1. ASSUME NEW s \in Requests PROVE Position(s)'
    <3>1. CASE s = r
      <4>1. pc'[r] \in Inside /\ pc'[r] \notin {"idle", "return", "done"} BY <1>5, <1>6, Zenon DEF Inside
      <4>2. ~panicking'[r] /\ status'[r] = 0 /\ observed'[r] = <<>> /\ accessLog'[r] = <<>>
        BY <1>2, <1>4, Zenon
      <4> QED BY <1>5, <3>1, <4>1, <4>2, Zenon DEF Position
    <3>2. CASE s # r
      <4>1. Position(s) BY Zenon DEF IInv, Positions
      <4>2. UNCHANGED <<panicking, status, observed, accessLog>> BY <1>2, Zenon
      <4> QED BY <1>5, <3>2, <4>1, <4>2, PositionKept, Zenon
    <3> QED BY <3>1, <3>2
  <2> QED BY <1>2, <2>1, Zenon DEF IInv, Positions
<1>10. Gauges'
  <2>1. ASSUME NEW y, y # x PROVE Active(y)' = Active(y)
    <3>1. \A s \in Requests : /\ pc'[s] # "idle" /\ observed'[s] = <<>> /\ SeriesOf(req'[s]) = y
                          <=> /\ pc[s] # "idle" /\ observed[s] = <<>> /\ SeriesOf(req[s]) = y
      BY <1>2, <1>5, <2>1, Zenon DEF x
    <3> QED BY <3>1, Zenon DEF Active
  <2>2. Active(x)' = Active(x) \cup {r} /\ r \notin Active(x)
    <3>1. \A s \in Requests : (pc'[s] # "idle" /\ observed'[s] = <<>> /\ SeriesOf(req'[s]) = x)
            <=> (s = r \/ (pc[s] # "idle" /\ observed[s] = <<>> /\ SeriesOf(req[s]) = x))
      BY <1>2, <1>4, <1>5, <1>6, Zenon DEF x
    <3> QED BY <1>2, <3>1, Zenon DEF Active
  <2>3. IsFiniteSet(Active(x)) /\ Cardinality(Active(x)) = IF x \in DOMAIN inFlight THEN inFlight[x] ELSE 0
    <3>1. CASE x \in DOMAIN inFlight BY <3>1, Zenon DEF IInv, Gauges
    <3>2. CASE x \notin DOMAIN inFlight
      <4>1. Active(x) = {} BY <3>2, Zenon DEF Active, IInv, Gauges
      <4> QED BY <3>2, <4>1, FS_EmptySet, Zenon
    <3> QED BY <3>1, <3>2
  <2>4. IsFiniteSet(Active(x)') /\ inFlight'[x] = Cardinality(Active(x)')
    <3>1. IsFiniteSet(Active(x) \cup {r}) /\ Cardinality(Active(x) \cup {r}) = Cardinality(Active(x)) + 1
      BY <2>2, <2>3, OneMore, Zenon
    <3> QED BY <1>7, <2>2, <2>3, <3>1, Zenon
  <2>5. ASSUME NEW y \in DOMAIN inFlight' PROVE IsFiniteSet(Active(y)') /\ inFlight'[y] = Cardinality(Active(y)')
    <3>1. CASE y = x BY <2>4, <3>1
    <3>2. CASE y # x
      <4>1. y \in DOMAIN inFlight /\ inFlight'[y] = inFlight[y] + 0 BY <1>7, <3>2, Zenon
      <4>2. IsFiniteSet(Active(y)) /\ inFlight[y] = Cardinality(Active(y)) BY <4>1, Zenon DEF IInv, Gauges
      <4>3. Cardinality(Active(y)) \in Nat BY <4>2, FS_CardinalityType, Zenon
      <4>4. inFlight[y] + 0 = inFlight[y] BY <4>2, <4>3, SMT
      <4> QED BY <2>1, <3>2, <4>1, <4>2, <4>4, Zenon
    <3> QED BY <3>1, <3>2
  <2>6. \A s \in Requests : pc'[s] # "idle" /\ observed'[s] = <<>> => SeriesOf(req'[s]) \in DOMAIN inFlight'
    BY <1>2, <1>5, <1>7, Zenon DEF IInv, Gauges, x
  <2> QED BY <1>7, <2>5, <2>6, Zenon DEF Gauges
<1>11. \A s \in Requests : s # r => (Identity(s)' <=> Identity(s))
  BY <1>2, <1>5, Zenon DEF Identity, PrincipalRateKey, ClientRateKey
<1>12. Identities'
  <2>1. ASSUME NEW s \in Requests
        PROVE  /\ pc'[s] \in {"limit", "dispatch", "service", "calling", "respond"} /\ IsVersionedAPIPath(req'[s])
                    => Identity(s)'
               /\ pc'[s] = "limitRefused" => rateKey'[s] = Anonymous
               /\ pc'[s] \in {"authenticate", "limit", "limitRefused"} => IsVersionedAPIPath(req'[s])
               /\ config.auth => rateKey'[s] \in Principals \cup {Anonymous}
    <3>1. CASE s = r BY <1>2, <1>5, <1>6, <3>1, Zenon DEF IInv, Identities
    <3>2. CASE s # r BY <1>2, <1>5, <1>11, <3>2, Zenon DEF IInv, Identities
    <3> QED BY <3>1, <3>2
  <2> QED BY <1>2, <2>1, Zenon DEF Identities
<1>13. Limits' BY <1>2, Zenon DEF IInv, Limits
<1>14. Phases'
  <2>1. ASSUME NEW s \in Requests
        PROVE  /\ pc'[s] \in {"service", "calling", "respond"} => ~Malformed(req'[s])
               /\ pc'[s] \in {"calling", "respond"} => phase'[s] # "start"
               /\ phase'[s] # "start" =>
                    /\ pc'[s] \in {"calling", "respond", "return", "done"}
                    /\ req'[s].route = "create" /\ req'[s].form = "ok" /\ req'[s].key # "malformed"
                    /\ Identity(s)'
               /\ phase'[s] \in {"called", "performed"} => req'[s].key # "absent"
    <3>1. CASE s = r
      <4>1. pc'[r] \notin {"service", "calling", "respond"} BY <1>5, <1>6, Zenon
      <4>2. phase'[r] = "start" BY <1>2, <1>4, Zenon
      <4>3. phase'[r] \notin {"called", "performed"} BY <4>2, Zenon
      <4> QED BY <3>1, <4>1, <4>2, <4>3, Zenon
    <3>2. CASE s # r
      <4>1. pc'[s] = pc[s] /\ req'[s] = req[s] /\ phase'[s] = phase[s] /\ (Identity(s)' <=> Identity(s))
        BY <1>2, <1>5, <1>11, <3>2, Zenon
      <4> QED BY <4>1, Zenon DEF IInv, Phases
    <3> QED BY <3>1, <3>2, Zenon
  <2>2. phase' \in [Requests -> {"start", "called", "performed", "done"}] BY <1>2, Zenon DEF IInv, Phases
  <2> QED BY <2>1, <2>2, Zenon DEF Phases
<1>15. Made' /\ Answers'
  <2>1. \A s \in Requests : phase[s] # "start" => rateKey'[s] = rateKey[s] /\ req'[s] = req[s]
    BY <1>2, <1>4, <1>5, Zenon
  <2> QED BY <1>2, <2>1, MadeKept, Zenon DEF IInv
<1>16. Reasons'
  <2>1. Reason(r)' BY <1>2, <1>4, SMTT(20) DEF Reason, Blaming, Refusing, Succeeding
  <2>2. ASSUME NEW s \in Requests, s # r PROVE Reason(s)'
    <3>1. Reason(s) BY Zenon DEF IInv, Reasons
    <3>2. req'[s] = req[s] /\ UNCHANGED <<config, rateKey, status, spent, phase, answer>>
      BY <1>2, <1>5, <2>2, Zenon
    <3> QED BY <3>1, <3>2, SMT DEF Reason
  <2> QED BY <2>1, <2>2, Zenon DEF Reasons
<1> QED BY <1>8, <1>9, <1>10, <1>12, <1>13, <1>14, <1>15, <1>16, Zenon DEF IInv

\* A step out of the handlers or out of a middleware.
LEMMA LeavesInv ==
  ASSUME IInv, NEW r \in Requests, UNCHANGED <<config, req, rateKey, limiter, store>>,
         pc[r] \in {"service", "calling", "respond", "return"},
         NEW l \in {"return", "done"}, pc' = [pc EXCEPT ![r] = l],
         NEW c \in {status[r]} \cup Failing, status' = [status EXCEPT ![r] = c],
         TypeOK', Positions', Gauges'
  PROVE  IInv'
<1>1. UNCHANGED <<config, req, rateKey, buckets, spent, items, records, phase, answer>>
  BY Zenon DEF limiter, store
<1>2. /\ pc'[r] = l /\ status'[r] = c
      /\ \A s \in Requests : s # r => pc'[s] = pc[s] /\ status'[s] = status[s]
  BY ZenonT(30) DEF IInv, TypeOK
<1>3. \A s \in Requests : Identity(s)' <=> Identity(s)
  BY <1>1, Zenon DEF Identity, PrincipalRateKey, ClientRateKey
<1>4. Identities'
  <2>1. ASSUME NEW s \in Requests
        PROVE  /\ pc'[s] \in {"limit", "dispatch", "service", "calling", "respond"} /\ IsVersionedAPIPath(req[s])
                    => Identity(s)
               /\ pc'[s] = "limitRefused" => rateKey[s] = Anonymous
               /\ pc'[s] \in {"authenticate", "limit", "limitRefused"} => IsVersionedAPIPath(req[s])
               /\ config.auth => rateKey[s] \in Principals \cup {Anonymous}
    <3>1. CASE s = r BY <1>2, <3>1, Zenon DEF IInv, Identities
    <3>2. CASE s # r BY <1>2, <3>2, Zenon DEF IInv, Identities
    <3> QED BY <3>1, <3>2
  <2> QED BY <1>1, <1>3, <2>1, Zenon DEF Identities
<1>5. Limits' BY <1>1, Zenon DEF IInv, Limits
<1>6. Phases'
  <2>1. ASSUME NEW s \in Requests
        PROVE  /\ pc'[s] \in {"service", "calling", "respond"} => ~Malformed(req[s])
               /\ pc'[s] \in {"calling", "respond"} => phase[s] # "start"
               /\ phase[s] # "start" =>
                    /\ pc'[s] \in {"calling", "respond", "return", "done"}
                    /\ req[s].route = "create" /\ req[s].form = "ok" /\ req[s].key # "malformed"
                    /\ Identity(s)
               /\ phase[s] \in {"called", "performed"} => req[s].key # "absent"
    <3>1. CASE s = r BY <1>2, <3>1, Zenon DEF IInv, Phases
    <3>2. CASE s # r BY <1>2, <3>2, Zenon DEF IInv, Phases
    <3> QED BY <3>1, <3>2
  <2>2. phase \in [Requests -> {"start", "called", "performed", "done"}] BY Zenon DEF IInv, Phases
  <2> QED BY <1>1, <1>3, <2>1, <2>2, ZenonT(30) DEF Phases
<1>7. Made' /\ Answers'
  BY <1>1, MadeKept, Zenon DEF IInv
<1>8. Reasons'
  <2>1. ASSUME NEW s \in Requests PROVE Reason(s)'
    <3>1. Reason(s) BY Zenon DEF IInv, Reasons
    <3>2. CASE status'[s] = status[s] BY <1>1, <3>1, <3>2, SMTT(20) DEF Reason
    <3>3. CASE status'[s] \in Failing BY <3>3, SMT DEF Reason, Blaming, Refusing, Succeeding, Failing
    <3> QED BY <1>2, <3>2, <3>3, Zenon
  <2> QED BY <2>1, Zenon DEF Reasons
<1> QED BY <1>4, <1>5, <1>6, <1>7, <1>8, Zenon DEF IInv

\* A step after which the same requests are in flight leaves the gauges right.
LEMMA GaugesKept ==
  ASSUME Gauges, UNCHANGED <<req, inFlight, observed>>,
         \A s \in Requests : pc'[s] # "idle" <=> pc[s] # "idle"
  PROVE  Gauges'
<1>1. ASSUME NEW x PROVE Active(x)' = Active(x) BY Zenon DEF Active
<1> QED BY <1>1, Zenon DEF Gauges

LEMMA PanicInv ==
  ASSUME IInv, NEW r \in Requests, Panic(r)
  PROVE  IInv'
<1>1. /\ pc[r] \in {"service", "calling", "respond"}
      /\ panicking' = [panicking EXCEPT ![r] = TRUE] /\ pc' = [pc EXCEPT ![r] = "return"]
      /\ UNCHANGED <<config, req, rateKey, layer, status, limiter, store, accessLog, observed, span, inFlight>>
  BY Zenon DEF Panic, Goto, observers
<1>2. /\ pc'[r] = "return" /\ panicking'[r]
      /\ \A s \in Requests : s # r => pc'[s] = pc[s] /\ panicking'[s] = panicking[s]
  BY <1>1, Zenon DEF IInv, TypeOK
<1>3. status' = [status EXCEPT ![r] = status[r]]
  BY <1>1, Zenon DEF IInv, TypeOK
<1>4. TypeOK'
  <2>1. (pc \in [Requests -> {"idle", "authenticate", "limit", "limitRefused", "dispatch",
                            "service", "calling", "respond", "return", "done"}])'
    BY <1>1, Zenon DEF IInv, TypeOK
  <2>2. (panicking \in [Requests -> BOOLEAN])' BY <1>1, Zenon DEF IInv, TypeOK
  <2> QED BY <1>1, <2>1, <2>2, Zenon DEF IInv, TypeOK, limiter, store
<1>5. Positions'
  <2>1. ASSUME NEW s \in Requests PROVE Position(s)'
    <3>1. Position(s) BY Zenon DEF IInv, Positions
    <3>2. CASE s # r BY <1>1, <1>2, <3>1, <3>2, PositionKept, Zenon
    <3>3. CASE s = r
      <4>1. layer'[r] = 4 /\ span'[r] = "open" /\ observed'[r] = <<>> /\ accessLog'[r] = <<>>
        BY <1>1, <3>1, <3>3, Zenon DEF Position, Inside
      <4> QED BY <1>2, <3>3, <4>1, SMTT(20) DEF Position, Inside
    <3> QED BY <3>2, <3>3
  <2> QED BY <1>1, <2>1, Zenon DEF IInv, Positions
<1>6. Gauges'
  <2>1. \A s \in Requests : pc'[s] # "idle" <=> pc[s] # "idle" BY <1>1, <1>2, Zenon
  <2> QED BY <1>1, <2>1, GaugesKept, Zenon DEF IInv
<1> QED BY <1>1, <1>3, <1>4, <1>5, <1>6, LeavesInv, Zenon

\* The middleware a request returns through is the one of its layer.
LEMMA ReturnsFrom ==
  ASSUME IInv, NEW r \in Requests, NEW name, Returns(r, name)
  PROVE  /\ layer[r] \in 1..4 /\ name = Stack[layer[r]]
         /\ layer' = [layer EXCEPT ![r] = layer[r] - 1] /\ layer'[r] = layer[r] - 1
         /\ pc[r] = "return" /\ pc' = [pc EXCEPT ![r] = IF layer[r] = 1 THEN "done" ELSE "return"]
         /\ pc'[r] = IF layer[r] = 1 THEN "done" ELSE "return"
         /\ UNCHANGED <<config, req, rateKey, limiter, store>>
         /\ \A s \in Requests : s # r => pc'[s] = pc[s] /\ layer'[s] = layer[s] /\ req'[s] = req[s]
         /\ \A s \in Requests : pc'[s] # "idle" <=> pc[s] # "idle"
<1> DEFINE l == IF layer[r] = 1 THEN "done" ELSE "return"
<1>1. /\ pc[r] = "return" /\ Stack[layer[r]] = name
      /\ layer' = [layer EXCEPT ![r] = layer[r] - 1]
      /\ pc' = [pc EXCEPT ![r] = l]
      /\ UNCHANGED <<config, req, rateKey, limiter, store>>
  <2>1. Goto(r, l) /\ pc[r] = "return" BY Zenon DEF Returns
  <2> QED BY <2>1, Zenon DEF Returns, Goto
<1>2. layer[r] \in 1..4 BY <1>1, Zenon DEF IInv, Positions, Position
<1>3. /\ pc'[r] = IF layer[r] = 1 THEN "done" ELSE "return"
      /\ layer'[r] = layer[r] - 1
      /\ \A s \in Requests : s # r => pc'[s] = pc[s] /\ layer'[s] = layer[s]
  BY <1>1, Zenon DEF IInv, TypeOK
<1>4. \A s \in Requests : pc'[s] # "idle" <=> pc[s] # "idle"
  <2> HIDE DEF l
  <2>0. pc[r] = "return" BY <1>1
  <2>1. pc'[r] # "idle" /\ pc[r] # "idle"
    <3>1. pc'[r] = "done" \/ pc'[r] = "return" BY <1>3, SMT
    <3> QED BY <2>0, <3>1, SMTT(20)
  <2>2. \A s \in Requests : s # r => pc'[s] = pc[s] BY <1>3, Zenon
  <2> QED BY <2>1, <2>2, Zenon
<1> QED BY <1>1, <1>2, <1>3, <1>4, Zenon

\* A middleware that returns, given what it observes.
LEMMA ReturnInv ==
  ASSUME IInv, NEW r \in Requests, NEW name, Returns(r, name),
         NEW c \in {status[r]} \cup Failing, status' = [status EXCEPT ![r] = c],
         panicking' \in [Requests -> BOOLEAN], span' \in [Requests -> {"none", "open", "ended"}],
         DOMAIN inFlight' = DOMAIN inFlight, DOMAIN observed' = Requests, DOMAIN accessLog' = Requests,
         \A s \in Requests : s # r => /\ panicking'[s] = panicking[s] /\ span'[s] = span[s]
                                      /\ observed'[s] = observed[s] /\ accessLog'[s] = accessLog[s],
         Range(accessLog'[r]) \subseteq Statuses, Position(r)', Gauges'
  PROVE  IInv'
<1>1. /\ layer[r] \in 1..4 /\ layer' = [layer EXCEPT ![r] = layer[r] - 1]
      /\ pc[r] = "return" /\ pc' = [pc EXCEPT ![r] = IF layer[r] = 1 THEN "done" ELSE "return"]
      /\ UNCHANGED <<config, req, rateKey, limiter, store>>
      /\ \A s \in Requests : s # r => pc'[s] = pc[s] /\ layer'[s] = layer[s] /\ req'[s] = req[s]
  BY ReturnsFrom, Zenon
<1>2. \A s \in Requests : s # r => status'[s] = status[s]
  BY Zenon DEF IInv, TypeOK
<1>3. Positions'
  <2>1. ASSUME NEW s \in Requests, s # r PROVE Position(s)'
    <3>1. Position(s) BY Zenon DEF IInv, Positions
    <3> QED BY <1>1, <1>2, <2>1, <3>1, PositionKept, Zenon
  <2> QED BY <2>1, Zenon DEF Positions
<1>4. TypeOK'
  <2>1. (pc \in [Requests -> {"idle", "authenticate", "limit", "limitRefused", "dispatch",
                            "service", "calling", "respond", "return", "done"}])'
    BY <1>1, Zenon DEF IInv, TypeOK
  <2>2. (layer \in [Requests -> 0..Len(Stack)])'
    <3>1. Len(Stack) = 4 BY DEF Stack
    <3>2. layer[r] - 1 \in 0..4 BY <1>1, SMT
    <3> QED BY <1>1, <3>1, <3>2, Zenon DEF IInv, TypeOK
  <2>3. (status \in [Requests -> Statuses])'
    <3>1. Failing \subseteq Statuses BY SMT DEF Failing, Statuses
    <3>2. status \in [Requests -> Statuses] BY Zenon DEF IInv, TypeOK
    <3>3. c \in Statuses BY <3>1, <3>2, Zenon
    <3> QED BY <3>2, <3>3, Zenon
  <2>4. \A s \in Requests : Range(accessLog'[s]) \subseteq Statuses
    BY Zenon DEF IInv, TypeOK
  <2> QED BY <1>1, <2>1, <2>2, <2>3, <2>4, Zenon DEF IInv, TypeOK, limiter, store
<1> QED BY <1>1, <1>3, <1>4, LeavesInv, Zenon

LEMMA RecoverInv ==
  ASSUME IInv, NEW r \in Requests, Recover(r)
  PROVE  IInv'
<1>1. /\ Returns(r, "recovery") /\ panicking' = [panicking EXCEPT ![r] = FALSE]
      /\ UNCHANGED <<accessLog, observed, span, inFlight>>
  BY Zenon DEF Recover, observers
<1>2. layer[r] = 4 /\ layer'[r] = 3 /\ pc[r] = "return" /\ pc'[r] = "return"
  <2>1. layer[r] \in 1..4 /\ Stack[layer[r]] = "recovery" /\ layer'[r] = layer[r] - 1
          /\ pc[r] = "return" /\ pc'[r] = IF layer[r] = 1 THEN "done" ELSE "return"
    BY <1>1, ReturnsFrom, Zenon
  <2>2. layer[r] = 4 BY <2>1, SMT DEF Stack
  <2> QED BY <2>1, <2>2, SMT
<1>3. PICK c \in {status[r]} \cup Failing : status' = [status EXCEPT ![r] = c] /\ c # 0
  <2>1. CASE panicking[r]
    <3> DEFINE failure == 500
    <3>1. status' = [status EXCEPT ![r] = failure] BY <2>1, Zenon DEF Recover
    <3>2. failure \in Failing /\ failure # 0 BY SMT DEF Failing
    <3> HIDE DEF failure
    <3> QED BY <3>1, <3>2, Zenon
  <2>2. CASE ~panicking[r]
    <3>1. status' = [status EXCEPT ![r] = status[r]] BY <2>2, Zenon DEF Recover, IInv, TypeOK
    <3>2. status[r] # 0 BY <1>2, <2>2, Zenon DEF IInv, Positions, Position
    <3> QED BY <3>1, <3>2, Zenon
  <2> QED BY <2>1, <2>2
<1>4. /\ panicking' \in [Requests -> BOOLEAN] /\ ~panicking'[r] /\ status'[r] = c
      /\ \A s \in Requests : s # r => panicking'[s] = panicking[s]
  BY <1>1, <1>3, Zenon DEF IInv, TypeOK
<1>5. Position(r)'
  <2>1. span'[r] = "open" /\ observed'[r] = <<>> /\ accessLog'[r] = <<>>
    <3>1. Position(r) BY Zenon DEF IInv, Positions
    <3> QED BY <1>1, <1>2, <3>1, SMTT(20) DEF Position
  <2> QED BY <1>2, <1>3, <1>4, <2>1, SMTT(20) DEF Position, Inside
<1>6. Gauges'
  <2>1. UNCHANGED req /\ \A s \in Requests : pc'[s] # "idle" <=> pc[s] # "idle"
    BY <1>1, ReturnsFrom, Zenon
  <2> QED BY <1>1, <2>1, GaugesKept, Zenon DEF IInv
<1>7. span' \in [Requests -> {"none", "open", "ended"}] /\ Range(accessLog'[r]) \subseteq Statuses
        /\ DOMAIN observed' = Requests /\ DOMAIN accessLog' = Requests
  BY <1>1, Zenon DEF IInv, TypeOK, Positions
<1> QED BY <1>1, <1>3, <1>4, <1>5, <1>6, <1>7, ReturnInv, Zenon

LEMMA MetricsReturnInv ==
  ASSUME IInv, NEW r \in Requests, MetricsReturn(r)
  PROVE  IInv'
<1> DEFINE x == SeriesOf(req[r])
           sample == SampleOf(r)
<1>1. /\ Returns(r, "metrics") /\ UNCHANGED <<panicking, status, accessLog, span>>
      /\ inFlight' = [inFlight EXCEPT ![x] = inFlight[x] - 1]
  BY Zenon DEF MetricsReturn
<1>2. layer[r] = 3 /\ layer'[r] = 2 /\ pc[r] = "return" /\ pc'[r] = "return"
  <2>1. layer[r] \in 1..4 /\ Stack[layer[r]] = "metrics" /\ layer'[r] = layer[r] - 1
          /\ pc[r] = "return" /\ pc'[r] = IF layer[r] = 1 THEN "done" ELSE "return"
    BY <1>1, ReturnsFrom, Zenon
  <2>2. layer[r] = 3 BY <2>1, SMT DEF Stack
  <2> QED BY <2>1, <2>2, SMT
<1>3. ~panicking[r] /\ status[r] # 0 /\ span[r] = "open" /\ observed[r] = <<>> /\ accessLog[r] = <<>>
  <2>1. Position(r) BY Zenon DEF IInv, Positions
  <2> QED BY <1>2, <2>1, SMTT(20) DEF Position
<1>4. /\ observed'[r] = <<sample>> /\ DOMAIN observed' = Requests
      /\ \A s \in Requests : s # r => observed'[s] = observed[s]
  <2>1. observed' = [observed EXCEPT ![r] = Append(observed[r], sample)]
    BY <1>3, Zenon DEF MetricsReturn, SampleOf
  <2> HIDE DEF sample
  <2>2. Append(<<>>, sample) = <<sample>> BY SMT
  <2>3. DOMAIN observed = Requests BY Zenon DEF IInv, Positions
  <2> QED BY <1>3, <2>1, <2>2, <2>3, Zenon
<1>5. UNCHANGED req /\ \A s \in Requests : pc'[s] # "idle" <=> pc[s] # "idle"
  BY <1>1, ReturnsFrom, Zenon
<1>6. Position(r)'
  <2>1. sample = SampleOf(r)' BY <1>1, <1>5, Zenon DEF SampleOf
  <2>2. ~panicking'[r] /\ status'[r] # 0 /\ span'[r] = "open" /\ accessLog'[r] = <<>>
    BY <1>1, <1>3, Zenon
  <2>3. observed'[r] = <<SampleOf(r)'>> BY <1>4, <2>1, Zenon
  <2> HIDE DEF sample
  <2> QED BY <1>2, <2>2, <2>3, SMTT(20) DEF Position, Inside
<1>7. Gauges'
  <2>0. PICK z : z = x BY Zenon
  <2>1. x \in DOMAIN inFlight BY <1>2, <1>3, Zenon DEF IInv, Gauges
  <2>2. /\ DOMAIN inFlight' = DOMAIN inFlight /\ inFlight'[x] = inFlight[x] - 1
        /\ \A y \in DOMAIN inFlight : y # x => inFlight'[y] = inFlight[y]
        /\ inFlight' = [y \in DOMAIN inFlight' |-> inFlight'[y]]
    BY <1>1, <2>1, Zenon
  <2>3. <<sample>> # <<>> BY SMT
  <2>4. ASSUME NEW y, y # x PROVE Active(y)' = Active(y)
    <3>1. \A s \in Requests : (pc'[s] # "idle" /\ observed'[s] = <<>> /\ SeriesOf(req'[s]) = y)
            <=> (pc[s] # "idle" /\ observed[s] = <<>> /\ SeriesOf(req[s]) = y)
      BY <1>4, <1>5, <2>4, Zenon
    <3> QED BY <3>1, Zenon DEF Active
  <2>5. Active(z)' = Active(z) \ {r} /\ r \in Active(z)
    <3>1. \A s \in Requests : (pc'[s] # "idle" /\ observed'[s] = <<>> /\ SeriesOf(req'[s]) = z)
            <=> (s # r /\ pc[s] # "idle" /\ observed[s] = <<>> /\ SeriesOf(req[s]) = z)
      BY <2>0, <1>4, <1>5, <2>3, Zenon
    <3>2. pc[r] # "idle" BY <1>2, Zenon
    <3> QED BY <2>0, <1>3, <3>1, <3>2, Zenon DEF Active
  <2>6. IsFiniteSet(Active(z)') /\ inFlight'[z] = Cardinality(Active(z)')
    <3>1. IsFiniteSet(Active(z)) /\ inFlight[z] = Cardinality(Active(z)) BY <2>0, <2>1, Zenon DEF IInv, Gauges
    <3>2. IsFiniteSet(Active(z) \ {r}) /\ Cardinality(Active(z) \ {r}) = Cardinality(Active(z)) - 1
      BY <2>5, <3>1, OneLess, Zenon
    <3> QED BY <2>0, <2>2, <2>5, <3>1, <3>2, Zenon
  <2>7. ASSUME NEW y \in DOMAIN inFlight' PROVE IsFiniteSet(Active(y)') /\ inFlight'[y] = Cardinality(Active(y)')
    <3>1. CASE y = z BY <2>6, <3>1, Zenon
    <3>2. CASE y # z BY <2>0, <2>2, <2>4, <3>2, Zenon DEF IInv, Gauges
    <3> QED BY <3>1, <3>2
  <2>8. \A s \in Requests : pc'[s] # "idle" /\ observed'[s] = <<>> => SeriesOf(req'[s]) \in DOMAIN inFlight'
    BY <1>4, <1>5, <2>2, <2>3, Zenon DEF IInv, Gauges
  <2> QED BY <2>2, <2>7, <2>8, Zenon DEF Gauges
<1>8. /\ status' = [status EXCEPT ![r] = status[r]]
      /\ panicking' \in [Requests -> BOOLEAN] /\ span' \in [Requests -> {"none", "open", "ended"}]
      /\ DOMAIN inFlight' = DOMAIN inFlight /\ DOMAIN accessLog' = Requests
      /\ Range(accessLog'[r]) \subseteq Statuses
  BY <1>1, Zenon DEF IInv, TypeOK, Positions
<1>9. \A s \in Requests : s # r => /\ panicking'[s] = panicking[s] /\ span'[s] = span[s]
                                   /\ observed'[s] = observed[s] /\ accessLog'[s] = accessLog[s]
  BY <1>1, <1>4, Zenon
<1> QED BY <1>1, <1>4, <1>6, <1>7, <1>8, <1>9, ReturnInv, Zenon

LEMMA TracingReturnInv ==
  ASSUME IInv, NEW r \in Requests, TracingReturn(r)
  PROVE  IInv'
<1>1. Returns(r, "tracing") /\ UNCHANGED <<panicking, status, accessLog, observed, inFlight>>
  BY Zenon DEF TracingReturn
<1>2. layer[r] = 2 /\ layer'[r] = 1 /\ pc[r] = "return" /\ pc'[r] = "return"
  <2>1. layer[r] \in 1..4 /\ Stack[layer[r]] = "tracing" /\ layer'[r] = layer[r] - 1
          /\ pc[r] = "return" /\ pc'[r] = IF layer[r] = 1 THEN "done" ELSE "return"
    BY <1>1, ReturnsFrom, Zenon
  <2>2. layer[r] = 2 BY <2>1, SMT DEF Stack
  <2> QED BY <2>1, <2>2, SMTT(20)
<1>3. ~panicking[r] /\ status[r] # 0 /\ observed[r] = <<SampleOf(r)>> /\ accessLog[r] = <<>>
  <2>1. Position(r) BY Zenon DEF IInv, Positions
  <2> QED BY <1>2, <2>1, SMTT(20) DEF Position
<1>4. span' = [span EXCEPT ![r] = "ended"] BY <1>3, Zenon DEF TracingReturn
<1>5. /\ span' \in [Requests -> {"none", "open", "ended"}] /\ span'[r] = "ended"
      /\ \A s \in Requests : s # r => span'[s] = span[s]
  BY <1>4, Zenon DEF IInv, TypeOK
<1>6. UNCHANGED req /\ \A s \in Requests : pc'[s] # "idle" <=> pc[s] # "idle"
  BY <1>1, ReturnsFrom, Zenon
<1>7. Position(r)'
  <2>1. ~panicking'[r] /\ status'[r] # 0 /\ accessLog'[r] = <<>> BY <1>1, <1>3, Zenon
  <2>2. observed'[r] = <<SampleOf(r)'>> BY <1>1, <1>3, <1>6, Zenon DEF SampleOf
  <2> QED BY <1>2, <1>5, <2>1, <2>2, SMTT(20) DEF Position, Inside
<1>8. Gauges' BY <1>1, <1>6, GaugesKept, Zenon DEF IInv
<1>9. /\ status' = [status EXCEPT ![r] = status[r]] /\ panicking' \in [Requests -> BOOLEAN]
      /\ DOMAIN observed' = Requests /\ DOMAIN accessLog' = Requests
      /\ Range(accessLog'[r]) \subseteq Statuses
  BY <1>1, Zenon DEF IInv, TypeOK, Positions
<1> QED BY <1>1, <1>5, <1>7, <1>8, <1>9, ReturnInv, Zenon

LEMMA ObservabilityReturnInv ==
  ASSUME IInv, NEW r \in Requests, ObservabilityReturn(r)
  PROVE  IInv'
<1> DEFINE c == status[r]
<1>1. Returns(r, "observability") /\ UNCHANGED <<panicking, status, observed, span, inFlight>>
  BY Zenon DEF ObservabilityReturn
<1>2. layer[r] = 1 /\ layer'[r] = 0 /\ pc[r] = "return" /\ pc'[r] = "done"
  <2>1. layer[r] \in 1..4 /\ Stack[layer[r]] = "observability" /\ layer'[r] = layer[r] - 1
          /\ pc[r] = "return" /\ pc'[r] = IF layer[r] = 1 THEN "done" ELSE "return"
    BY <1>1, ReturnsFrom, Zenon
  <2>2. layer[r] = 1 BY <2>1, SMT DEF Stack
  <2> QED BY <2>1, <2>2, SMT
<1>3. ~panicking[r] /\ c # 0 /\ span[r] = "ended" /\ observed[r] = <<SampleOf(r)>> /\ accessLog[r] = <<>>
  <2>1. Position(r) BY Zenon DEF IInv, Positions
  <2> QED BY <1>2, <2>1, SMTT(20) DEF Position
<1>4. /\ accessLog'[r] = <<c>> /\ DOMAIN accessLog' = Requests
      /\ \A s \in Requests : s # r => accessLog'[s] = accessLog[s]
  <2>1. accessLog' = [accessLog EXCEPT ![r] = Append(accessLog[r], c)]
    BY <1>3, Zenon DEF ObservabilityReturn
  <2> HIDE DEF c
  <2>2. Append(<<>>, c) = <<c>> BY SMT
  <2>3. DOMAIN accessLog = Requests BY Zenon DEF IInv, Positions
  <2> QED BY <1>3, <2>1, <2>2, <2>3, Zenon
<1>5. Range(accessLog'[r]) \subseteq Statuses
  <2>1. c \in Statuses BY Zenon DEF IInv, TypeOK
  <2> HIDE DEF c
  <2>2. Range(<<c>>) = {c} BY SMT DEF Range
  <2> QED BY <1>4, <2>1, <2>2, Zenon
<1>6. UNCHANGED req /\ \A s \in Requests : pc'[s] # "idle" <=> pc[s] # "idle"
  BY <1>1, ReturnsFrom, Zenon
<1>7. Position(r)'
  <2>1. ~panicking'[r] /\ status'[r] # 0 /\ span'[r] = "ended" /\ accessLog'[r] = <<status'[r]>>
    BY <1>1, <1>3, <1>4, Zenon
  <2>2. observed'[r] = <<SampleOf(r)'>> BY <1>1, <1>3, <1>6, Zenon DEF SampleOf
  <2> HIDE DEF c
  <2> QED BY <1>2, <2>1, <2>2, SMTT(20) DEF Position, Inside
<1>8. Gauges' BY <1>1, <1>6, GaugesKept, Zenon DEF IInv
<1>9. /\ status' = [status EXCEPT ![r] = c] /\ panicking' \in [Requests -> BOOLEAN]
      /\ span' \in [Requests -> {"none", "open", "ended"}] /\ DOMAIN observed' = Requests
  BY <1>1, Zenon DEF IInv, TypeOK, Positions
<1> QED BY <1>1, <1>4, <1>5, <1>7, <1>8, <1>9, ReturnInv, Zenon

(***************************************************************************)
(* The invariant.                                                          *)
(***************************************************************************)
LEMMA StutterInv ==
  ASSUME IInv, UNCHANGED vars
  PROVE  IInv'
<1>1. UNCHANGED <<config, pc, req, rateKey, layer, panicking, status, buckets, spent,
                  accessLog, observed, span, inFlight, items, records, phase, answer>>
  BY Zenon DEF vars, limiter, observers, store
<1>2. TypeOK' BY <1>1, SMTT(20) DEF IInv, TypeOK
<1>3. Positions' BY <1>1, Zenon DEF IInv, Positions, Position, SampleOf
<1>4. Gauges' BY <1>1, GaugesKept, Zenon DEF IInv
<1>5. \A s \in Requests : Identity(s)' <=> Identity(s)
  BY <1>1, Zenon DEF Identity, PrincipalRateKey, ClientRateKey
<1>6. Identities' /\ Limits' /\ Phases'
  BY <1>1, <1>5, Zenon DEF IInv, Identities, Limits, Phases
<1>7. Made' /\ Answers'
  BY <1>1, MadeKept, Zenon DEF IInv, store
<1>8. Reasons' BY <1>1, ZenonT(30) DEF IInv, Reasons, Reason
<1> QED BY <1>2, <1>3, <1>4, <1>6, <1>7, <1>8, Zenon DEF IInv

\* Before the first request nothing is counted, limited or stored.
LEMMA InitInv == Init => IInv
<1> SUFFICES ASSUME Init PROVE IInv OBVIOUS
<1>1. /\ \A r \in Requests : /\ pc[r] = "idle" /\ req[r] = NoRequest /\ rateKey[r] = Anonymous
                             /\ layer[r] = 0 /\ ~panicking[r] /\ status[r] = 0
                             /\ accessLog[r] = <<>> /\ observed[r] = <<>> /\ span[r] = "none"
                             /\ phase[r] = "start" /\ answer[r] = Store!NoAnswer
      /\ items = {} /\ records = {} /\ DOMAIN buckets = {} /\ DOMAIN inFlight = {}
  BY Zenon DEF Init
<1>2. NoRequest \in Request
  <2>1. (CHOOSE t \in Texts : TRUE) \in Texts BY PipelineAssumption, Zenon
  <2>2. <<>> \in Seq(Seq(TokenCharacters \cup {"=", " ", "\t", "%"})) BY SMT
  <2>3. "unmatched" \in Routes BY Zenon DEF Routes
  <2> QED BY <2>1, <2>2, <2>3, Zenon DEF NoRequest, Request
<1>3. IsFiniteSet({}) /\ Cardinality({}) = 0 BY FS_EmptySet, Zenon
<1>4. TypeOK
  <2>1. req \in [Requests -> Request] BY <1>2, Zenon DEF Init
  <2>2. rateKey \in [Requests -> RateKeys] BY Zenon DEF Init, RateKeys
  <2>3. layer \in [Requests -> 0..Len(Stack)] BY SMT DEF Init, Stack
  <2>4. status \in [Requests -> Statuses] BY SMT DEF Init, Statuses
  <2>5. Cardinality(DOMAIN buckets) <= MaxClients BY <1>1, <1>3, PipelineAssumption, SMTT(20)
  <2>6. spent \in [RateKeys -> Nat] BY SMT DEF Init
  <2>7. \A r \in Requests : Range(accessLog[r]) \subseteq Statuses BY <1>1, SMT DEF Range
  <2>8. /\ config \in Configs
        /\ pc \in [Requests -> {"idle", "authenticate", "limit", "limitRefused", "dispatch",
                                "service", "calling", "respond", "return", "done"}]
        /\ panicking \in [Requests -> BOOLEAN] /\ span \in [Requests -> {"none", "open", "ended"}]
    BY Zenon DEF Init
  <2> QED BY <1>1, <2>1, <2>2, <2>3, <2>4, <2>5, <2>6, <2>7, <2>8, Zenon DEF TypeOK
<1>5. Positions
  <2>1. DOMAIN observed = Requests /\ DOMAIN accessLog = Requests BY Zenon DEF Init
  <2>2. ASSUME NEW r \in Requests PROVE Position(r) BY <1>1, SMT DEF Position, Inside
  <2> QED BY <2>1, <2>2, Zenon DEF Positions
<1>6. Gauges
  <2>1. inFlight = [x \in DOMAIN inFlight |-> inFlight[x]] BY SMT DEF Init
  <2> QED BY <1>1, <2>1, Zenon DEF Gauges
<1>7. Identities BY <1>1, Zenon DEF Identities
<1>8. Limits
  <2>1. buckets = [k \in DOMAIN buckets |-> buckets[k]] BY SMT DEF Init
  <2> QED BY <1>1, <1>3, <2>1, Zenon DEF Limits
<1>9. Phases
  <2>1. phase \in [Requests -> {"start", "called", "performed", "done"}] BY Zenon DEF Init
  <2> QED BY <1>1, <2>1, Zenon DEF Phases
<1>10. Made BY <1>1, Zenon DEF Made
<1>11. Answers
  <2>1. answer = [r \in Requests |-> answer[r]] BY Zenon DEF Init
  <2>2. Store!NoAnswer.ID = NoID BY SMT DEF Store!NoAnswer
  <2>3. \A r \in Requests : answer[r].ID = NoID BY <1>1, <2>2, Zenon
  <2> QED BY <2>1, <2>3, Zenon DEF Answers
<1>12. Reasons
  <2>1. 0 \notin Blaming \cup Refusing \cup Succeeding /\ 0 # 429 BY SMT DEF Blaming, Refusing, Succeeding
  <2> QED BY <1>1, <2>1, SMTT(20) DEF Reasons, Reason
<1> QED BY <1>4, <1>5, <1>6, <1>7, <1>8, <1>9, <1>10, <1>11, <1>12, Zenon DEF IInv

\* Every step of every request keeps the invariant.
LEMMA NextInv ==
  ASSUME IInv, [Next]_vars
  PROVE  IInv'
<1>1. ASSUME NEW r \in Requests, Arrive(r) \/ Authenticate(r) \/ Allow(r) \/ RateLimited(r)
      PROVE  IInv'
  BY <1>1, ArriveInv, AuthenticateInv, AllowInv, RateLimitedInv, Zenon
<1>2. ASSUME NEW r \in Requests, Probe(r) \/ Parse(r) \/ Read(r) \/ ServiceFails(r)
      PROVE  IInv'
  BY <1>2, ProbeInv, ParseInv, ReadInv, ServiceFailsInv, Zenon
<1>3. ASSUME NEW r \in Requests,
             CreatePlain(r) \/ CreateIdempotent(r) \/ StorePerforms(r) \/ StoreReplies(r)
      PROVE  IInv'
  BY <1>3, CreatePlainInv, CreateIdempotentInv, StorePerformsInv, StoreRepliesInv, Zenon
<1>4. ASSUME NEW r \in Requests, Respond(r) \/ Panic(r) \/ Recover(r)
      PROVE  IInv'
  BY <1>4, RespondInv, PanicInv, RecoverInv, Zenon
<1>5. ASSUME NEW r \in Requests, MetricsReturn(r) \/ TracingReturn(r) \/ ObservabilityReturn(r)
      PROVE  IInv'
  BY <1>5, MetricsReturnInv, TracingReturnInv, ObservabilityReturnInv, Zenon
<1>6. ASSUME NEW k \in RateKeys, Refill(k) PROVE IInv' BY <1>6, RefillInv, Zenon
<1>7. CASE Quiet \/ UNCHANGED vars BY <1>7, StutterInv, Zenon DEF Quiet
<1> QED BY <1>1, <1>2, <1>3, <1>4, <1>5, <1>6, <1>7, Zenon DEF Next

\* The invariant holds in every state of every behaviour of the server.
THEOREM InductiveInvariant == Spec => []IInv
<1>1. IInv /\ [Next]_vars => IInv' BY NextInv, Zenon
<1> QED BY InitInv, <1>1, PTL DEF Spec

\* Every variable keeps its type: the limiter holds at most MaxClients buckets,
\* every status is one the API documents, and the metrics have only series of
\* a supported method and a route pattern, for any traffic.
THEOREM TypeCorrect == Spec => []TypeOK
BY InductiveInvariant, PTL DEF IInv

\* A finished request has one access event, one sample and an ended span, all
\* with its status, and each gauge counts the requests in flight, whatever
\* panics and whoever else is being served.
THEOREM AccountsOnce == Spec => []AccountedOnce
<1>1. IInv => AccountedOnce
  <2> SUFFICES ASSUME IInv PROVE AccountedOnce OBVIOUS
  <2>1. ASSUME NEW r \in Requests, pc[r] = "done"
        PROVE  /\ status[r] # 0 /\ accessLog[r] = <<status[r]>>
               /\ observed[r] = <<SampleOf(r)>> /\ span[r] = "ended"
    <3>1. Position(r) BY Zenon DEF IInv, Positions
    <3> QED BY <2>1, <3>1, Zenon DEF Position
  <2>2. \A x \in DOMAIN inFlight : inFlight[x] = Cardinality(Active(x)) BY Zenon DEF IInv, Gauges
  <2> QED BY <2>1, <2>2, Zenon DEF AccountedOnce, SampleOf, Active
<1> QED BY <1>1, InductiveInvariant, PTL

\* Requests that the store knows have the same caller exactly if they have the
\* same limiter key, which is also the scope of their idempotency keys.
LEMMA ScopeIsCaller ==
  ASSUME IInv, NEW r \in Requests, NEW s \in Requests, phase[r] # "start", phase[s] # "start"
  PROVE  rateKey[r] = rateKey[s] <=> Caller(r) = Caller(s)
<1>1. Identity(r) /\ Identity(s) BY Zenon DEF IInv, Phases
<1> DEFINE u == Verify(req[r].authorization)
           v == Verify(req[s].authorization)
           p == req[r].peer
           q == req[s].peer
<1>2. CASE config.auth
  <2>1. rateKey[r] = <<"principal", u>> /\ rateKey[s] = <<"principal", v>>
    BY <1>1, <1>2, Zenon DEF Identity, PrincipalRateKey
  <2>2. Caller(r) = <<"subject", u>> /\ Caller(s) = <<"subject", v>>
    BY <1>2, Zenon DEF Caller
  <2> HIDE DEF u, v
  <2> QED BY <2>1, <2>2, SMT
<1>3. CASE ~config.auth
  <2>1. /\ rateKey[r] = IF p = "unparsable" THEN Anonymous ELSE <<"address", p>>
        /\ rateKey[s] = IF q = "unparsable" THEN Anonymous ELSE <<"address", q>>
    BY <1>1, <1>3, Zenon DEF Identity, ClientRateKey
  <2>2. Caller(r) = <<"peer", p>> /\ Caller(s) = <<"peer", q>>
    BY <1>3, Zenon DEF Caller
  <2> HIDE DEF p, q
  <2>3. \A x : Anonymous # <<"address", x>> BY Zenon DEF Anonymous
  <2>4. /\ <<"address", p>> = <<"address", q>> <=> p = q
        /\ <<"peer", p>> = <<"peer", q>> <=> p = q
    BY SMTT(20)
  <2>5. CASE p = "unparsable"
    <3>1. rateKey[r] = Anonymous BY <2>1, <2>5, Zenon
    <3>2. CASE q = "unparsable"
      <4>1. rateKey[s] = Anonymous BY <2>1, <3>2, Zenon
      <4> QED BY <2>2, <2>5, <3>1, <3>2, <4>1, Zenon
    <3>3. CASE q # "unparsable"
      <4>1. rateKey[s] = <<"address", q>> BY <2>1, <3>3, Zenon
      <4>2. p # q BY <2>5, <3>3, Zenon
      <4>3. rateKey[r] # rateKey[s] BY <2>3, <3>1, <4>1, Zenon
      <4>4. Caller(r) # Caller(s) BY <2>2, <2>4, <4>2, Zenon
      <4> QED BY <4>3, <4>4, Zenon
    <3> QED BY <3>2, <3>3, Zenon
  <2>6. CASE p # "unparsable"
    <3>1. rateKey[r] = <<"address", p>> BY <2>1, <2>6, Zenon
    <3>2. CASE q = "unparsable"
      <4>1. rateKey[s] = Anonymous BY <2>1, <3>2, Zenon
      <4>2. p # q BY <2>6, <3>2, Zenon
      <4>3. rateKey[r] # rateKey[s] BY <2>3, <3>1, <4>1, Zenon
      <4>4. Caller(r) # Caller(s) BY <2>2, <2>4, <4>2, Zenon
      <4> QED BY <4>3, <4>4, Zenon
    <3>3. CASE q # "unparsable"
      <4>1. rateKey[s] = <<"address", q>> BY <2>1, <3>3, Zenon
      <4> QED BY <2>2, <2>4, <3>1, <4>1, Zenon
    <3> QED BY <3>2, <3>3, Zenon
  <2> QED BY <2>5, <2>6, Zenon
<1> QED BY <1>2, <1>3, Zenon

\* What a successful create rests on: an Item of the request's own input, made
\* by a request of the same caller with the same key.
LEMMA Successes ==
  ASSUME IInv, NEW r \in Requests, Succeeded(r)
  PROVE  /\ answer[r].ID \in Requests /\ phase[r] # "start" /\ phase[answer[r].ID] # "start"
         /\ OwnItem(answer[r].ID) \in items
         /\ StorageKey(answer[r].ID) = StorageKey(r)
         /\ Fingerprint(req[answer[r].ID]) = Fingerprint(req[r])
         /\ req[r].key # "absent" => \E e \in records : e.itemID = answer[r].ID /\ e.key = StorageKey(r)
         /\ status[r] = SuccessStatus(answer[r].kind)
         /\ answer[r].kind # "replayed" => answer[r].ID = r
<1>1. status[r] \in Succeeding /\ req[r].route = "create" BY Zenon DEF Succeeded, Succeeding
<1>2. answer[r].ID # NoID /\ status[r] = SuccessStatus(answer[r].kind)
  BY <1>1, Zenon DEF IInv, Reasons, Reason
<1>3. phase[r] = "done" /\ Answered(r) BY <1>2, Zenon DEF IInv, Answers
<1>4. phase[r] # "start" BY <1>3, Zenon
<1>5. ASSUME NEW e \in records
      PROVE  /\ e.itemID \in Requests /\ phase[e.itemID] # "start" /\ OwnItem(e.itemID) \in items
             /\ e.key = StorageKey(e.itemID) /\ e.fingerprint = Fingerprint(req[e.itemID])
  <2>1. /\ e.itemID \in Requests /\ phase[e.itemID] \in {"performed", "done"} /\ OwnItem(e.itemID) \in items
        /\ e = [key |-> StorageKey(e.itemID), fingerprint |-> Fingerprint(req[e.itemID]),
                itemID |-> e.itemID, at |-> 0]
    BY Zenon DEF IInv, Made
  <2>2. ASSUME NEW k, NEW f, NEW i, e = [key |-> k, fingerprint |-> f, itemID |-> i, at |-> 0]
        PROVE  e.key = k /\ e.fingerprint = f
    BY <2>2, Zenon
  <2>3. e.key = StorageKey(e.itemID) /\ e.fingerprint = Fingerprint(req[e.itemID]) BY <2>1, <2>2, Zenon
  <2>4. phase[e.itemID] # "start" BY <2>1, Zenon
  <2> QED BY <2>1, <2>3, <2>4, Zenon
<1>6. CASE answer[r].kind = "stored"
  <2>1. answer[r].ID = r /\ req[r].key = "absent" /\ OwnItem(r) \in items
    BY <1>3, <1>6, Zenon DEF Answered
  <2> QED BY <1>2, <1>4, <2>1, Zenon
<1>7. CASE answer[r].kind = "created"
  <2>1. PICK e \in records : answer[r].ID = r /\ e.itemID = r BY <1>3, <1>7, Zenon DEF Answered
  <2> QED BY <1>2, <1>4, <1>5, <2>1, Zenon
<1>8. CASE answer[r].kind = "replayed"
  <2>1. PICK e \in records : e.itemID = answer[r].ID /\ e.key = StorageKey(r)
                               /\ e.fingerprint = Fingerprint(req[r])
    BY <1>3, <1>8, Zenon DEF Answered
  <2> QED BY <1>2, <1>4, <1>5, <1>8, <2>1, Zenon
<1> QED BY <1>3, <1>6, <1>7, <1>8, Zenon DEF Answered

\* A create that succeeds names an Item of its own caller, key and input, for
\* any number of concurrent callers, retries, panics and lost answers.
THEOREM AnswersOwnItem == Spec => []AnsweredOwnItem
<1>1. IInv => AnsweredOwnItem
  <2> SUFFICES ASSUME IInv PROVE AnsweredOwnItem OBVIOUS
  <2> SUFFICES ASSUME NEW r \in Requests, Succeeded(r)
               PROVE  /\ \E i \in items : i.ID = answer[r].ID /\ i.content = <<req[r].text, FALSE>>
                      /\ Caller(answer[r].ID) = Caller(r) /\ req[answer[r].ID].key = req[r].key
                      /\ req[answer[r].ID].text = req[r].text
    BY Zenon DEF AnsweredOwnItem
  <2> DEFINE m == answer[r].ID
  <2>1. /\ m \in Requests /\ phase[r] # "start" /\ phase[m] # "start" /\ OwnItem(m) \in items
        /\ StorageKey(m) = StorageKey(r) /\ Fingerprint(req[m]) = Fingerprint(req[r])
    BY Successes, Zenon
  <2>2. rateKey[m] = rateKey[r] /\ req[m].key = req[r].key BY <2>1, SMTT(20) DEF StorageKey
  <2>3. req[m].text = req[r].text BY <2>1, SMT DEF Fingerprint
  <2>4. Caller(m) = Caller(r) BY <2>1, <2>2, ScopeIsCaller, Zenon
  <2>5. OwnItem(m).ID = m /\ OwnItem(m).content = <<req[r].text, FALSE>>
    BY <2>3, Zenon DEF OwnItem, Fingerprint
  <2> QED BY <2>1, <2>2, <2>3, <2>4, <2>5, Zenon
<1> QED BY <1>1, InductiveInvariant, PTL

\* All successes of one caller under one key name one Item, and at most one of
\* them says that it was created.
THEOREM CreatesOnce == Spec => []CreatedOnce
<1>1. IInv => CreatedOnce
  <2> SUFFICES ASSUME IInv, NEW r \in Requests, NEW s \in Requests, r # s, Succeeded(r), Succeeded(s),
                      Caller(r) = Caller(s), req[r].key = req[s].key, req[r].key # "absent"
               PROVE  answer[r].ID = answer[s].ID /\ ~(status[r] = 201 /\ status[s] = 201)
    BY SMT DEF CreatedOnce
  <2>1. rateKey[r] = rateKey[s] BY Successes, ScopeIsCaller, Zenon
  <2>2. StorageKey(r) = StorageKey(s) BY <2>1, Zenon DEF StorageKey
  <2>3. PICK e \in records : e.itemID = answer[r].ID /\ e.key = StorageKey(r) BY Successes, Zenon
  <2>4. PICK f \in records : f.itemID = answer[s].ID /\ f.key = StorageKey(s) BY Successes, Zenon
  <2>5. e = f
    <3>1. \A x, y \in records : x.key = y.key => x = y BY Zenon DEF IInv, Made
    <3> QED BY <2>2, <2>3, <2>4, <3>1, Zenon
  <2>6. answer[r].ID = answer[s].ID BY <2>3, <2>4, <2>5, Zenon
  <2>7. ASSUME status[r] = 201, status[s] = 201 PROVE FALSE
    <3>1. /\ status[r] = SuccessStatus(answer[r].kind) /\ status[s] = SuccessStatus(answer[s].kind)
          /\ answer[r].kind # "replayed" => answer[r].ID = r
          /\ answer[s].kind # "replayed" => answer[s].ID = s
      BY Successes, Zenon
    <3>2. answer[r].kind # "replayed" /\ answer[s].kind # "replayed" BY <2>7, <3>1, SMTT(20) DEF SuccessStatus
    <3> QED BY <2>6, <3>1, <3>2, Zenon
  <2> QED BY <2>6, <2>7, SMTT(20)
<1> QED BY <1>1, InductiveInvariant, PTL

\* A request told 400, 401, 404, 422 or 429 has left nothing in the store.
THEOREM RefusesWithoutEffect == Spec => []RefusedWithoutEffect
<1>1. IInv => RefusedWithoutEffect
  <2> SUFFICES ASSUME IInv, NEW r \in Requests, status[r] \in Refusing
               PROVE  (\A i \in items : i.ID # r) /\ (\A e \in records : e.itemID # r)
    BY Zenon DEF RefusedWithoutEffect, Refusing
  <2>1. phase[r] \notin {"performed", "done"}
    <3>1. phase[r] = "start" BY Zenon DEF IInv, Reasons, Reason
    <3> QED BY <3>1, Zenon
  <2>2. ASSUME NEW i \in items PROVE i.ID # r
    <3>1. PICK s \in Requests : phase[s] \in {"performed", "done"} /\ i = OwnItem(s)
      BY Zenon DEF IInv, Made
    <3>2. i.ID = s BY <3>1, Zenon DEF OwnItem
    <3> QED BY <2>1, <3>1, <3>2, Zenon
  <2>3. ASSUME NEW e \in records PROVE e.itemID # r BY <2>1, Zenon DEF IInv, Made
  <2> QED BY <2>2, <2>3, Zenon
<1> QED BY <1>1, InductiveInvariant, PTL

\* With authentication on, a principal told 429 has spent its own burst, if the
\* limiter has more slots than there are principals.
THEOREM LimitsByOwnUse == Spec => []LimitedByOwnUse
<1>1. IInv => LimitedByOwnUse BY Zenon DEF IInv, Reasons, Reason, LimitedByOwnUse
<1> QED BY <1>1, InductiveInvariant, PTL

\* A well-formed, valid request is never told 400 or 422, unless it is a create
\* whose ID a generator of WithIDGenerator made wrong.
THEOREM BlamesNoServerFault == Spec => []FaultNotBlamedOnClient
<1>1. IInv => FaultNotBlamedOnClient
  BY ZenonT(30) DEF IInv, Reasons, Reason, Blaming, Unprocessable, FaultNotBlamedOnClient
<1> QED BY <1>1, InductiveInvariant, PTL

\* A request acts for a principal exactly if its Authorization header is one
\* value of the scheme, one space and a token of RFC 6750 within the limit
\* that is configured for that principal, and with anything else it reaches no
\* handler: for any tokens, any length limit and any header (ParseBearerToken,
\* BearerSHA256.Authenticate, authMiddleware).
THEOREM AuthenticatesByBearer == Spec => []AuthenticatedByBearer
<1>1. \A P : \A v \in P : <<"principal", v>> \in {"principal"} \X P BY Zenon
<1>2. ASSUME IInv PROVE AuthenticatedByBearer
  <2> SUFFICES ASSUME NEW r \in Requests, config.auth, pc[r] # "idle", IsVersionedAPIPath(req[r]),
                      NEW principals,
                      principals = {Secrets[token] : token \in {t \in Configured : \E word \in BearerWords :
                                      req[r].authorization = << <<word, " ">> \o t >>}}
               PROVE  /\ pc[r] = "authenticate" => (Verify(req[r].authorization) = "refused" <=> principals = {})
                      /\ pc[r] \in {"dispatch", "service", "calling", "respond"}
                           => rateKey[r] \in {"principal"} \X principals
    BY Zenon DEF AuthenticatedByBearer
  <2>1. req[r].authorization \in Seq(Seq(Symbols)) BY <1>2 DEF IInv, TypeOK, Request, Symbols
  <2>2. /\ Verify(req[r].authorization) = "refused" <=> principals = {}
        /\ Verify(req[r].authorization) # "refused" => Verify(req[r].authorization) \in principals
    BY <2>1, Verified, Zenon
  <2>3. ASSUME pc[r] \in {"dispatch", "service", "calling", "respond"}
        PROVE  rateKey[r] \in {"principal"} \X principals
    <3>1. Identity(r) BY <1>2, <2>3, Zenon DEF IInv, Identities
    <3>2. rateKey[r] = <<"principal", Verify(req[r].authorization)>> /\ Verify(req[r].authorization) \in Subjects
      BY <3>1, Zenon DEF Identity, PrincipalRateKey
    <3>3. Verify(req[r].authorization) # "refused" BY <3>2, PipelineAssumption, Zenon
    <3>4. Verify(req[r].authorization) \in principals BY <2>2, <3>3, Zenon
    <3> QED BY <1>1, <3>2, <3>4, ZenonT(30)
  <2> QED BY <2>2, <2>3, Zenon
<1> QED BY <1>2, InductiveInvariant, PTL

=============================================================================
