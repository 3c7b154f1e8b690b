----------------------------- MODULE MemoryStore -----------------------------
(***************************************************************************)
(* The in-memory Item store (internal/item/memory): goroutines that run    *)
(* Create and CreateIdempotent against the items map (guarded by mu) and   *)
(* the idempotency and inflight maps (guarded by idempotencyMu).           *)
(*                                                                         *)
(* A step is the code between two points at which another goroutine can    *)
(* interfere.  Sections under mu never wait inside, so each is one step.   *)
(* idempotencyMu is a variable: the first section of CreateIdempotent      *)
(* unlocks by hand on each of its return paths and takes mu while it holds *)
(* idempotencyMu.                                                          *)
(***************************************************************************)
EXTENDS Naturals, FiniteSets

CONSTANTS Goroutines,    \* one per request; a retry is another request
          Keys,          \* SHA-256 of the scoped idempotency key
          Fingerprints,  \* SHA-256 of the canonical create input
          IDs,           \* candidate item UUIDs; the generator may repeat one
          NoID,          \* uuid.Nil
          Free,          \* the value of an unlocked mutex
          Retention,     \* item.IdempotencyRecordRetention, in clock ticks
          MaxEntries,    \* store.maxIdempotencyEntries()
          MaxTime        \* bound on the clock

ASSUME StoreAssumption ==
  /\ NoID \notin IDs
  /\ Free \notin Goroutines
  /\ Retention \in Nat \ {0}
  /\ MaxEntries \in Nat \ {0}
  /\ MaxTime \in Nat

VARIABLES time,           \* the clock behind store.now()
          items,          \* store.items
          idempotency,    \* store.idempotency, one entry per key
          inflight,       \* store.inflight
          idempotencyMu,  \* the goroutine that holds store.idempotencyMu, or Free
          pc,             \* where each goroutine is
          req,            \* its arguments key, fingerprint and value.ID
          now,            \* its local variable now
          ctxDone,        \* its context is canceled or past its deadline
          answer,         \* its results, or the error it is about to return
          ledger          \* history: the Items made under a key, and when

vars == <<time, items, idempotency, inflight, idempotencyMu, pc, req, now,
          ctxDone, answer, ledger>>

(***************************************************************************)
(* Data.  An Item's content stands for its canonical name and description, *)
(* of which the fingerprint is a digest.                                   *)
(***************************************************************************)
Item == [ID : IDs, content : Fingerprints]

\* What validateRequest lets through.
Request == [key : Keys, fingerprint : Fingerprints, ID : IDs]

Entry == [key : Keys, fingerprint : Fingerprints, itemID : IDs, expiresAt : Nat]

Made == [key : Keys, fingerprint : Fingerprints, itemID : IDs, at : Nat]

Kinds == {"none", "stored", "created", "replayed", "conflict", "inProgress",
          "unavailable", "canceled", "idConflict", "state"}

Answer == [kind : Kinds, ID : IDs \cup {NoID}]

NoAnswer == [kind |-> "none", ID |-> NoID]

Error(kind) == [kind |-> kind, ID |-> NoID]

EntryFor(k) == {e \in idempotency : e.key = k}

Stored(id) == \E i \in items : i.ID = id

\* cleanupIdempotencyLocked drops an entry unless now is before its expiresAt.
ExpiredNever(e, t) == FALSE
Expired(e, t) == t >= e.expiresAt

\* Another request owns the key.
InFlightUnchecked(k) == FALSE
InFlight(k) == k \in inflight

\* Room for one more reservation next to the completed and in-flight ones.
HasRoomForEntry == Cardinality(idempotency) < MaxEntries
HasRoom == Cardinality(idempotency) + Cardinality(inflight) < MaxEntries

\* The replay window opens when the entry is written, not when now was read.
Expiry == time + Retention

\* The entry written for a create that went through, canceled since or not.
NewEntriesUnlessCanceled(g) ==
  {e \in {[key |-> req[g].key, fingerprint |-> req[g].fingerprint,
           itemID |-> req[g].ID, expiresAt |-> Expiry]} : ~ctxDone[g]}
NewEntries(g) ==
  {[key |-> req[g].key, fingerprint |-> req[g].fingerprint,
    itemID |-> req[g].ID, expiresAt |-> Expiry]}

-----------------------------------------------------------------------------
Init ==
  /\ time = 0
  /\ items = {}
  /\ idempotency = {}
  /\ inflight = {}
  /\ idempotencyMu = Free
  /\ pc = [g \in Goroutines |-> "start"]
  /\ req \in [Goroutines -> Request]
  /\ now = [g \in Goroutines |-> 0]
  /\ ctxDone = [g \in Goroutines |-> FALSE]
  /\ answer = [g \in Goroutines |-> NoAnswer]
  /\ ledger = {}

Goto(g, l) == pc' = [pc EXCEPT ![g] = l]

Return(g, a) ==
  /\ Goto(g, "done")
  /\ answer' = [answer EXCEPT ![g] = a]

\* store.Create for a request without a key.
Create(g) ==
  /\ pc[g] = "start"
  /\ Return(g, IF ctxDone[g] THEN Error("canceled")
               ELSE IF Stored(req[g].ID) THEN Error("idConflict")
               ELSE [kind |-> "stored", ID |-> req[g].ID])
  /\ items' = IF ctxDone[g] \/ Stored(req[g].ID) THEN items
              ELSE items \cup {[ID |-> req[g].ID, content |-> req[g].fingerprint]}
  /\ UNCHANGED <<time, idempotency, inflight, idempotencyMu, req, now, ctxDone, ledger>>

\* CreateIdempotent refuses a context that has ended.
Reject(g) ==
  /\ pc[g] = "start"
  /\ ctxDone[g]
  /\ Return(g, Error("canceled"))
  /\ UNCHANGED <<time, items, idempotency, inflight, idempotencyMu, req, now, ctxDone, ledger>>

\* It reads the clock before it takes idempotencyMu.
Enter(g) ==
  /\ pc[g] = "start"
  /\ ~ctxDone[g]
  /\ now' = [now EXCEPT ![g] = time]
  /\ Goto(g, "lock")
  /\ UNCHANGED <<time, items, idempotency, inflight, idempotencyMu, req, ctxDone, answer, ledger>>

\* Take idempotencyMu and drop what has expired at the time read earlier.
Lock(g) ==
  /\ pc[g] = "lock"
  /\ idempotencyMu = Free
  /\ idempotencyMu' = g
  /\ idempotency' = {e \in idempotency : ~Expired(e, now[g])}
  /\ Goto(g, "locked")
  /\ UNCHANGED <<time, items, inflight, req, now, ctxDone, answer, ledger>>

\* The key names a completed create of another input.
Conflict(g) ==
  /\ pc[g] = "locked"
  /\ \E e \in EntryFor(req[g].key) : e.fingerprint # req[g].fingerprint
  /\ idempotencyMu' = Free
  /\ Return(g, Error("conflict"))
  /\ UNCHANGED <<time, items, idempotency, inflight, req, now, ctxDone, ledger>>

\* getItem under idempotencyMu: the replay, a context error, or a dangling entry.
Replay(g) ==
  /\ pc[g] = "locked"
  /\ \E e \in EntryFor(req[g].key) :
       /\ e.fingerprint = req[g].fingerprint
       /\ Return(g, IF ctxDone[g] THEN Error("canceled")
                    ELSE IF Stored(e.itemID) THEN [kind |-> "replayed", ID |-> e.itemID]
                    ELSE Error("state"))
  /\ idempotencyMu' = Free
  /\ UNCHANGED <<time, items, idempotency, inflight, req, now, ctxDone, ledger>>

InProgress(g) ==
  /\ pc[g] = "locked"
  /\ EntryFor(req[g].key) = {}
  /\ InFlight(req[g].key)
  /\ idempotencyMu' = Free
  /\ Return(g, Error("inProgress"))
  /\ UNCHANGED <<time, items, idempotency, inflight, req, now, ctxDone, ledger>>

Full(g) ==
  /\ pc[g] = "locked"
  /\ EntryFor(req[g].key) = {}
  /\ ~InFlight(req[g].key)
  /\ ~HasRoom
  /\ idempotencyMu' = Free
  /\ Return(g, Error("unavailable"))
  /\ UNCHANGED <<time, items, idempotency, inflight, req, now, ctxDone, ledger>>

Reserve(g) ==
  /\ pc[g] = "locked"
  /\ EntryFor(req[g].key) = {}
  /\ ~InFlight(req[g].key)
  /\ HasRoom
  /\ inflight' = inflight \cup {req[g].key}
  /\ idempotencyMu' = Free
  /\ Goto(g, "create")
  /\ UNCHANGED <<time, items, idempotency, req, now, ctxDone, answer, ledger>>

\* store.Create for the reserved key.  A failed insert is answered only after
\* its marker is cleared; answer holds the error until then.
Insert(g) ==
  /\ pc[g] = "create"
  /\ ~ctxDone[g]
  /\ ~Stored(req[g].ID)
  /\ items' = items \cup {[ID |-> req[g].ID, content |-> req[g].fingerprint]}
  /\ ledger' = ledger \cup {[key |-> req[g].key, fingerprint |-> req[g].fingerprint,
                             itemID |-> req[g].ID, at |-> time]}
  /\ Goto(g, "record")
  /\ UNCHANGED <<time, idempotency, inflight, idempotencyMu, req, now, ctxDone, answer>>

InsertFailsUncleared(g) ==
  /\ pc[g] = "create"
  /\ ctxDone[g] \/ Stored(req[g].ID)
  /\ Return(g, Error(IF ctxDone[g] THEN "canceled" ELSE "idConflict"))
  /\ UNCHANGED <<time, items, idempotency, inflight, idempotencyMu, req, now, ctxDone, ledger>>
InsertFailsRecorded(g) ==
  /\ pc[g] = "create"
  /\ ctxDone[g] \/ Stored(req[g].ID)
  /\ Goto(g, "record")
  /\ UNCHANGED <<time, items, idempotency, inflight, idempotencyMu, req, now, ctxDone, answer, ledger>>
InsertFails(g) ==
  /\ pc[g] = "create"
  /\ ctxDone[g] \/ Stored(req[g].ID)
  /\ answer' = [answer EXCEPT ![g] = Error(IF ctxDone[g] THEN "canceled" ELSE "idConflict")]
  /\ Goto(g, "clear")
  /\ UNCHANGED <<time, items, idempotency, inflight, idempotencyMu, req, now, ctxDone, ledger>>

\* clearInFlight, then return the error of store.Create.
ClearInFlight(g) ==
  /\ pc[g] = "clear"
  /\ idempotencyMu = Free
  /\ inflight' = inflight \ {req[g].key}
  /\ Return(g, answer[g])
  /\ UNCHANGED <<time, items, idempotency, idempotencyMu, req, now, ctxDone, ledger>>

\* The second section: the marker becomes an entry, whatever the context says.
Record(g) ==
  /\ pc[g] = "record"
  /\ idempotencyMu = Free
  /\ inflight' = inflight \ {req[g].key}
  /\ idempotency' = (idempotency \ EntryFor(req[g].key)) \cup NewEntries(g)
  /\ Goto(g, "recorded")
  /\ UNCHANGED <<time, items, idempotencyMu, req, now, ctxDone, answer, ledger>>

Reply(g) ==
  /\ pc[g] = "recorded"
  /\ Return(g, IF ctxDone[g] THEN Error("canceled")
               ELSE [kind |-> "created", ID |-> req[g].ID])
  /\ UNCHANGED <<time, items, idempotency, inflight, idempotencyMu, req, now, ctxDone, ledger>>

\* The client goes away or the request deadline passes.
Cancel(g) ==
  /\ pc[g] # "done"
  /\ ~ctxDone[g]
  /\ ctxDone' = [ctxDone EXCEPT ![g] = TRUE]
  /\ UNCHANGED <<time, items, idempotency, inflight, idempotencyMu, pc, req, now, answer, ledger>>

Tick ==
  /\ time < MaxTime
  /\ time' = time + 1
  /\ UNCHANGED <<items, idempotency, inflight, idempotencyMu, pc, req, now, ctxDone, answer, ledger>>

\* The ways out of the first section.
Section(g) == Conflict(g) \/ Replay(g) \/ InProgress(g) \/ Full(g) \/ Reserve(g)

\* What a goroutine does once it is inside CreateIdempotent.
Step(g) ==
  \/ Lock(g) \/ Section(g) \/ Insert(g) \/ InsertFails(g)
  \/ ClearInFlight(g) \/ Record(g) \/ Reply(g)

Next ==
  \/ \E g \in Goroutines :
       Create(g) \/ Reject(g) \/ Enter(g) \/ Step(g) \/ Cancel(g)
  \/ Tick

Spec == Init /\ [][Next]_vars

\* Go runs every runnable goroutine and wakes the waiters of a free mutex.
Fairness == \A g \in Goroutines : WF_vars(Step(g))

FairSpec == Spec /\ Fairness

-----------------------------------------------------------------------------
\* Every variable has its type (the fields of Store, the locals and results of
\* CreateIdempotent).
TypeOK ==
  /\ time \in Nat
  /\ items \subseteq Item
  /\ idempotency \subseteq Entry
  /\ inflight \subseteq Keys
  /\ idempotencyMu \in Goroutines \cup {Free}
  /\ pc \in [Goroutines -> {"start", "lock", "locked", "create", "clear", "record", "recorded", "done"}]
  /\ req \in [Goroutines -> Request]
  /\ now \in [Goroutines -> Nat]
  /\ ctxDone \in [Goroutines -> BOOLEAN]
  /\ answer \in [Goroutines -> Answer]
  /\ ledger \subseteq Made

\* Two Items created under one key lie at least a retention window apart,
\* however retries, cancellations and late readers of the clock interleave.
AtMostOneItemPerWindow ==
  \A m, n \in ledger :
    m.key = n.key /\ m.itemID # n.itemID =>
      m.at + Retention <= n.at \/ n.at + Retention <= m.at

\* CreateIdempotent returns an Item only for the request that made it or for a
\* later one with the same key and the same fingerprint.
AnswersOwnItem ==
  \A g \in Goroutines : answer[g].kind \in {"created", "replayed"} =>
    \E m \in ledger : /\ m.itemID = answer[g].ID
                      /\ m.key = req[g].key
                      /\ m.fingerprint = req[g].fingerprint

\* A retry that read the clock at or after an entry's expiry is a new request:
\* the entry neither replays to it nor refuses it.
RetriesOutsideWindowAreNew ==
  [][\A g \in Goroutines :
       pc[g] = "locked" /\ answer'[g].kind \in {"replayed", "conflict"} =>
         \E e \in EntryFor(req[g].key) : now[g] < e.expiresAt]_vars

\* No caller is told that an entry references an Item that is not there
\* (ErrIdempotencyState): entries are written after their Item and Items stay.
NoDanglingEntry ==
  \A g \in Goroutines : answer[g].kind # "state"

\* Completed and in-flight reservations together never exceed the hard bound
\* on resident entries (MaxIdempotencyEntries).
ResidentBound ==
  Cardinality(idempotency) + Cardinality(inflight) <= MaxEntries

\* Every request returns: each return path of CreateIdempotent unlocks
\* idempotencyMu, and taking mu inside it cannot block for good.  And no
\* in-flight marker outlives its request: a failed create does not lock its
\* key out.
RequestsReturn ==
  /\ \A g \in Goroutines : pc[g] = "lock" ~> pc[g] = "done"
  /\ \A k \in Keys : k \in inflight ~> k \notin inflight

(***************************************************************************)
(* The store implements IdempotentCreate.  The abstract replay records are *)
(* the Items made under a key that are recorded or about to be; an error   *)
(* held back until its marker is cleared has not been returned yet.        *)
(***************************************************************************)
Recording(id) == \E g \in Goroutines : pc[g] = "record" /\ req[g].ID = id

Live == {m \in ledger : Recording(m.itemID) \/ \E e \in idempotency : e.itemID = m.itemID}

Phase == [g \in Goroutines |->
            CASE pc[g] \in {"start", "done"} -> pc[g]
              [] pc[g] \in {"record", "recorded"} -> "performed"
              [] OTHER -> "called"]

Returned == [g \in Goroutines |-> IF pc[g] = "done" THEN answer[g] ELSE NoAnswer]

Abstract == INSTANCE IdempotentCreate
              WITH Callers <- Goroutines, Past <- {}, records <- Live, phase <- Phase,
                   started <- now, answer <- Returned

\* CreateIdempotent behaves as one atomic insert of Item and replay record.
ImplementsIdempotentCreate == Abstract!Spec
=============================================================================
