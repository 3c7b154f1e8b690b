-------------------------- MODULE IdempotentCreate --------------------------
(***************************************************************************)
(* What item.IdempotentCreateStore promises its callers                    *)
(* (internal/item/idempotency.go): an Item and its replay record come into *)
(* being in ONE step, a record is never replaced, and it is forgotten only *)
(* once its replay window is over.  MemoryStore and PostgresStore        *)
(* implement this module.                                                  *)
(***************************************************************************)
EXTENDS Naturals, FiniteSets

CONSTANTS Callers,       \* concurrent requests
          Keys,          \* scoped idempotency keys (storageIdempotencyKey)
          Fingerprints,  \* digests of canonical create inputs
          IDs,           \* item UUIDs
          NoID,          \* uuid.Nil, "no item"
          Retention,     \* IdempotencyRecordRetention, in clock ticks
          Past           \* the replay records a durable store starts with

VARIABLES time,     \* the wall clock
          items,    \* the stored Items
          records,  \* the replay records of completed creates
          phase,    \* how far each call has come
          req,      \* the arguments of each call
          started,  \* when each call read the clock
          answer    \* what each call returned

vars == <<time, items, records, phase, req, started, answer>>

Item == [ID : IDs, content : Fingerprints]

Request == [key : Keys, fingerprint : Fingerprints, ID : IDs]

Errors == {"canceled", "inProgress", "unavailable", "idConflict"}

NoAnswer == [kind |-> "none", ID |-> NoID]

Error(kind) == [kind |-> kind, ID |-> NoID]

RecordFor(k) == {e \in records : e.key = k}

Init ==
  /\ time = 0
  /\ items = {[ID |-> e.itemID, content |-> e.fingerprint] : e \in Past}
  /\ records = Past
  /\ phase = [c \in Callers |-> "start"]
  /\ req \in [Callers -> Request]
  /\ started = [c \in Callers |-> 0]
  /\ answer = [c \in Callers |-> NoAnswer]

Stored(id) == \E i \in items : i.ID = id

NewItem(c) == [ID |-> req[c].ID, content |-> req[c].fingerprint]

\* Records are dropped only when their replay window is over.
Outdated == {e \in records : e.at + Retention <= time}

Invoke(c) ==
  /\ phase[c] = "start"
  /\ phase' = [phase EXCEPT ![c] = "called"]
  /\ started' = [started EXCEPT ![c] = time]
  /\ UNCHANGED <<time, items, records, req, answer>>

\* The Item and its replay record appear together.
Perform(c) ==
  /\ phase[c] = "called"
  /\ ~Stored(req[c].ID)
  /\ phase' = [phase EXCEPT ![c] = "performed"]
  /\ items' = items \cup {NewItem(c)}
  /\ \E at \in started[c]..time, S \in SUBSET Outdated :
       /\ RecordFor(req[c].key) \subseteq S
       /\ records' = (records \ S) \cup
            {[key |-> req[c].key, fingerprint |-> req[c].fingerprint,
              itemID |-> req[c].ID, at |-> at]}
  /\ UNCHANGED <<time, req, started, answer>>

Reply(c, a) ==
  /\ phase' = [phase EXCEPT ![c] = "done"]
  /\ answer' = [answer EXCEPT ![c] = a]
  /\ \E S \in SUBSET Outdated : records' = records \ S
  /\ UNCHANGED <<time, req, started>>

ReplyCreated(c) ==
  /\ phase[c] = "performed"
  /\ Reply(c, [kind |-> "created", ID |-> req[c].ID])
  /\ UNCHANGED items

ReplyReplayed(c) ==
  /\ phase[c] = "called"
  /\ \E e \in RecordFor(req[c].key) :
       /\ e.fingerprint = req[c].fingerprint
       /\ Reply(c, [kind |-> "replayed", ID |-> e.itemID])
  /\ UNCHANGED items

ReplyConflict(c) ==
  /\ phase[c] = "called"
  /\ \E e \in RecordFor(req[c].key) : e.fingerprint # req[c].fingerprint
  /\ Reply(c, Error("conflict"))
  /\ UNCHANGED items

\* A call may fail without effect, and a caller whose context or connection
\* ended may see an error although its Item and record exist.
ReplyError(c) ==
  /\ \E kind \in Errors :
       /\ phase[c] \in {"start", "called"} \/ kind \in {"canceled", "unavailable"}
       /\ phase[c] # "done"
       /\ Reply(c, Error(kind))
  /\ UNCHANGED items

\* A create without an Idempotency-Key, whose caller may see an error as well.
CreatePlain(c) ==
  /\ phase[c] = "start"
  /\ ~Stored(req[c].ID)
  /\ items' = items \cup {NewItem(c)}
  /\ \E a \in {[kind |-> "stored", ID |-> req[c].ID], Error("canceled"), Error("unavailable")} : Reply(c, a)

Forget ==
  /\ \E S \in SUBSET Outdated : records' = records \ S
  /\ UNCHANGED <<time, items, phase, req, started, answer>>

Tick ==
  /\ time' = time + 1
  /\ UNCHANGED <<items, records, phase, req, started, answer>>

Next ==
  \/ \E c \in Callers :
       \/ Invoke(c) \/ Perform(c) \/ CreatePlain(c)
       \/ ReplyCreated(c) \/ ReplyReplayed(c) \/ ReplyConflict(c) \/ ReplyError(c)
  \/ Forget
  \/ Tick

Spec == Init /\ [][Next]_vars
=============================================================================
