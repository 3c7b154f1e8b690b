---------------------------- MODULE PostgresStore ----------------------------
(***************************************************************************)
(* The PostgreSQL Item store (internal/item/postgres): requests of any     *)
(* number of replicas, each running Create or CreateIdempotent in a        *)
(* session of its own against one database at READ COMMITTED.              *)
(*                                                                         *)
(* A step is one SQL statement.  The database is modelled from what the    *)
(* statements ask of it: an uncommitted row is invisible to other sessions *)
(* but makes them wait, FOR UPDATE waits for a locked row unless SKIP      *)
(* LOCKED is given, locks last until the transaction ends, COMMIT makes    *)
(* its writes visible and frees its locks together, and one transaction of *)
(* a cycle of waiters is aborted.                                          *)
(*                                                                         *)
(* A call that is answered with an error may leave its session behind: the *)
(* deferred rollback gives up after a second, and a COMMIT whose reply is  *)
(* lost may still be applied.  The session then ends on its own.           *)
(***************************************************************************)
EXTENDS Naturals, FiniteSets

CONSTANTS Sessions,       \* one per request; a retry is another request
          Keys,           \* SHA-256 of the scoped idempotency key
          LockID,         \* advisoryLockID: 63 bits of the hash, may collide
          Fingerprints,   \* SHA-256 of the canonical create input
          IDs,            \* candidate item UUIDs
          NoID,           \* uuid.Nil
          Retention,      \* item.IdempotencyRecordRetention, in clock ticks
          CleanupBatch,   \* LIMIT of the cleanup statement
          Past,           \* creates of earlier requests the database starts with
          MaxTime         \* bound on the clock

Item == [ID : IDs, content : Fingerprints]

\* What validateIdempotentRequest lets through.
Request == [key : Keys, fingerprint : Fingerprints, ID : IDs]

Entry == [key : Keys, fingerprint : Fingerprints, itemID : IDs, expiresAt : Nat]

\* A create under a key, with the time its key row was written.
Made == [key : Keys, fingerprint : Fingerprints, itemID : IDs, at : Nat]

ASSUME PostgresAssumption ==
  /\ NoID \notin IDs
  /\ \A m \in Past : m \in Made /\ m.at = 0
  /\ \A m, n \in Past : m = n \/ (m.key # n.key /\ m.itemID # n.itemID)
  /\ LockID \in [Keys -> Nat]
  /\ Retention \in Nat \ {0}
  /\ CleanupBatch \in Nat \ {0}
  /\ MaxTime \in Nat

VARIABLES time,      \* clock_timestamp()
          items,     \* committed rows of items
          keyRows,   \* committed rows of item_idempotency_keys
          pc,        \* the statement each session is about to run
          req,       \* the arguments key, fingerprint and value.ID
          started,   \* when the transaction began
          advisory,  \* sessions that hold their advisory lock
          rowLocks,  \* keys whose row each session has locked
          deleted,   \* keys whose row each session has deleted, uncommitted
          inserted,  \* sessions with an uncommitted row in items
          written,   \* the uncommitted key row of each session
          stored,    \* what the lookup statement returned
          answer,    \* results of the call
          ledger     \* history: the Items committed under a key, and when

txVars == <<advisory, rowLocks, deleted, inserted, written>>
vars == <<time, items, keyRows, pc, req, started, advisory, rowLocks, deleted,
          inserted, written, stored, answer, ledger>>

Kinds == {"none", "stored", "created", "replayed", "conflict", "inProgress",
          "unavailable", "idConflict", "state"}

NoAnswer == [kind |-> "none", ID |-> NoID]

Error(kind) == [kind |-> kind, ID |-> NoID]

\* The create that wrote a key row.
Creation(e) == [key |-> e.key, fingerprint |-> e.fingerprint, itemID |-> e.itemID,
                at |-> e.expiresAt - Retention]

RowFor(k) == {e \in keyRows : e.key = k}

Stored(id) == \E i \in items : i.ID = id

NewItem(s) == [ID |-> req[s].ID, content |-> req[s].fingerprint]

-----------------------------------------------------------------------------
(***************************************************************************)
(* What a statement sees and waits for.                                    *)
(***************************************************************************)
\* pg_try_advisory_xact_lock fails while another transaction has the same id.
LockTakenIgnored(s) == FALSE
LockTaken(s) ==
  \E t \in advisory \ {s} : LockID[req[t].key] = LockID[req[s].key]

\* expires_at <= clock_timestamp(), not locked by another session.
ExpiredOneEarly(e) == e.expiresAt <= time + 1
ExpiredRow(e) == e.expiresAt <= time

\* clock_timestamp() + retention, as the INSERT of the key row evaluates it.
RowExpiryInThePast == time - Retention
RowExpiry == time + Retention

\* subtle.ConstantTimeCompare(storedHash, requestHash) = 1.
SameRequestAssumed(s, e) == TRUE
SameRequest(s, e) == e.fingerprint = req[s].fingerprint

\* The Item a replay reads: the row's item_id, not the ID just generated.
ReplayedIDGenerated(s, e) == req[s].ID
ReplayedID(s, e) == e.itemID

Removable(s) ==
  {e \in keyRows : ExpiredRow(e) /\ \A t \in Sessions \ {s} : e.key \notin rowLocks[t]}

\* ORDER BY expires_at LIMIT CleanupBatch: as many as allowed, oldest first.
Batches(s) ==
  {S \in SUBSET Removable(s) :
     /\ \A e \in S, f \in Removable(s) \ S : e.expiresAt <= f.expiresAt
     /\ \/ S = Removable(s) /\ Cardinality(S) <= CleanupBatch
        \/ Cardinality(S) = CleanupBatch}

\* The row the lookup is after: not one this transaction has deleted.
Visible(s) == {e \in RowFor(req[s].key) : e.key \notin deleted[s]}

\* Session s cannot go on before session t ends: its lookup needs a row t has
\* locked, or it inserts an id or a key that t has inserted.
WaitsFor(s, t) ==
  /\ s # t
  /\ \/ pc[s] = "lookup" /\ Visible(s) # {} /\ req[s].key \in rowLocks[t]
     \/ pc[s] = "create" /\ t \in inserted /\ req[t].ID = req[s].ID
     \/ pc[s] = "insert" /\ \E e \in written[t] : e.key = req[s].key

Waiting(s) == \E t \in Sessions : WaitsFor(s, t)

\* s is on a cycle of waiters: each waits for one of them, each is waited for.
Deadlocked(s) ==
  \E C \in SUBSET Sessions :
    /\ s \in C
    /\ \A t \in C : (\E u \in C : WaitsFor(t, u)) /\ (\E u \in C : WaitsFor(u, t))

-----------------------------------------------------------------------------
Init ==
  /\ time = 0
  /\ items = {[ID |-> m.itemID, content |-> m.fingerprint] : m \in Past}
  /\ keyRows = {[key |-> m.key, fingerprint |-> m.fingerprint, itemID |-> m.itemID,
                 expiresAt |-> m.at + Retention] : m \in Past}
  /\ pc = [s \in Sessions |-> "start"]
  /\ req \in [Sessions -> Request]
  /\ started = [s \in Sessions |-> 0]
  /\ advisory = {}
  /\ rowLocks = [s \in Sessions |-> {}]
  /\ deleted = [s \in Sessions |-> {}]
  /\ inserted = {}
  /\ written = [s \in Sessions |-> {}]
  /\ stored = [s \in Sessions |-> {}]
  /\ answer = [s \in Sessions |-> NoAnswer]
  /\ ledger = Past

Goto(s, l) == pc' = [pc EXCEPT ![s] = l]

Answer(s, a) == answer' = [answer EXCEPT ![s] = a]

\* An error return: the answer is known and the deferred rollback is next.
Fail(s, kind) ==
  /\ Goto(s, "rollback")
  /\ Answer(s, Error(kind))

\* The transaction of s holds nothing any more.
Release(s) ==
  /\ advisory' = advisory \ {s}
  /\ rowLocks' = [rowLocks EXCEPT ![s] = {}]
  /\ deleted' = [deleted EXCEPT ![s] = {}]
  /\ inserted' = inserted \ {s}
  /\ written' = [written EXCEPT ![s] = {}]

\* Create without a key: one INSERT outside any explicit transaction.  It
\* waits while another session has inserted the same id without committing.
\* The row may be there although the reply is lost.
Create(s) ==
  /\ pc[s] = "start"
  /\ \A t \in inserted : req[t].ID # req[s].ID
  /\ Goto(s, "done")
  /\ IF Stored(req[s].ID)
     THEN Answer(s, Error("idConflict")) /\ UNCHANGED items
     ELSE /\ items' = items \cup {NewItem(s)}
          /\ \E a \in {[kind |-> "stored", ID |-> req[s].ID], Error("unavailable")} : Answer(s, a)
  /\ UNCHANGED <<time, keyRows, req, started, txVars, stored, ledger>>

\* The context has ended, or no transaction can be begun.
BeginFails(s) ==
  /\ pc[s] = "start"
  /\ Goto(s, "done")
  /\ Answer(s, Error("unavailable"))
  /\ UNCHANGED <<time, items, keyRows, req, started, txVars, stored, ledger>>

Begin(s) ==
  /\ pc[s] = "start"
  /\ Goto(s, "lock")
  /\ started' = [started EXCEPT ![s] = time]
  /\ UNCHANGED <<time, items, keyRows, req, txVars, stored, answer, ledger>>

TryLock(s) ==
  /\ pc[s] = "lock"
  /\ \/ /\ LockTaken(s)
        /\ Fail(s, "inProgress")
        /\ UNCHANGED advisory
     \/ /\ ~LockTaken(s)
        /\ advisory' = advisory \cup {s}
        /\ Goto(s, "cleanup")
        /\ UNCHANGED answer
  /\ UNCHANGED <<time, items, keyRows, req, started, rowLocks, deleted, inserted,
                 written, stored, ledger>>

Cleanup(s) ==
  /\ pc[s] = "cleanup"
  /\ \E S \in Batches(s) :
       /\ rowLocks' = [rowLocks EXCEPT ![s] = {e.key : e \in S}]
       /\ deleted' = [deleted EXCEPT ![s] = {e.key : e \in S}]
  /\ Goto(s, "lookup")
  /\ UNCHANGED <<time, items, keyRows, req, started, advisory, inserted, written,
                 stored, answer, ledger>>

\* SELECT ... FOR UPDATE of the key's row, and what the switch makes of it.
\* The row's expires_at is not looked at.
LookupMiss(s) ==
  /\ pc[s] = "lookup"
  /\ Visible(s) = {}
  /\ Goto(s, "create")
  /\ UNCHANGED <<time, items, keyRows, req, started, txVars, stored, answer, ledger>>

LookupHit(s) ==
  /\ pc[s] = "lookup"
  /\ ~Waiting(s)
  /\ \E e \in Visible(s) :
       /\ stored' = [stored EXCEPT ![s] = {e}]
       /\ rowLocks' = [rowLocks EXCEPT ![s] = @ \cup {e.key}]
       /\ \/ /\ ~SameRequest(s, e)
             /\ Fail(s, "conflict")
          \/ /\ SameRequest(s, e)
             /\ IF Stored(ReplayedID(s, e))
                THEN Goto(s, "commit") /\ UNCHANGED answer
                ELSE Fail(s, "state")
  /\ UNCHANGED <<time, items, keyRows, req, started, advisory, deleted, inserted,
                 written, ledger>>

CreateItem(s) ==
  /\ pc[s] = "create"
  /\ ~Waiting(s)
  /\ \/ /\ Stored(req[s].ID)
        /\ Fail(s, "idConflict")
        /\ UNCHANGED inserted
     \/ /\ ~Stored(req[s].ID)
        /\ inserted' = inserted \cup {s}
        /\ Goto(s, "insert")
        /\ UNCHANGED answer
  /\ UNCHANGED <<time, items, keyRows, req, started, advisory, rowLocks, deleted,
                 written, stored, ledger>>

InsertKey(s) ==
  /\ pc[s] = "insert"
  /\ ~Waiting(s)
  /\ IF Visible(s) # {}
     THEN Fail(s, "idConflict") /\ UNCHANGED written
     ELSE /\ written' = [written EXCEPT ![s] =
               {[key |-> req[s].key, fingerprint |-> req[s].fingerprint,
                 itemID |-> req[s].ID, expiresAt |-> RowExpiry]}]
          /\ Goto(s, "commit")
          /\ UNCHANGED answer
  /\ UNCHANGED <<time, items, keyRows, req, started, advisory, rowLocks, deleted,
                 inserted, stored, ledger>>

\* The server applies COMMIT, whether or not the caller still waits for it.
Commit(s) ==
  /\ pc[s] \in {"commit", "inDoubt"}
  /\ items' = IF s \in inserted THEN items \cup {NewItem(s)} ELSE items
  /\ keyRows' = {e \in keyRows : e.key \notin deleted[s]} \cup written[s]
  /\ ledger' = ledger \cup {Creation(e) : e \in written[s]}
  /\ Goto(s, "committed")
  /\ Release(s)
  /\ UNCHANGED <<time, req, started, stored, answer>>

\* The reply to COMMIT arrives, at a caller that may have been answered already.
ReplyCreatedAlways(s) ==
  /\ pc[s] = "committed"
  /\ Goto(s, "done")
  /\ IF answer[s] # NoAnswer THEN UNCHANGED answer
     ELSE Answer(s, [kind |-> "created", ID |-> req[s].ID])
  /\ UNCHANGED <<time, items, keyRows, req, started, txVars, stored, ledger>>
Reply(s) ==
  /\ pc[s] = "committed"
  /\ Goto(s, "done")
  /\ IF answer[s] # NoAnswer THEN UNCHANGED answer
     ELSE IF stored[s] = {} THEN Answer(s, [kind |-> "created", ID |-> req[s].ID])
     ELSE \E e \in stored[s] : Answer(s, [kind |-> "replayed", ID |-> e.itemID])
  /\ UNCHANGED <<time, items, keyRows, req, started, txVars, stored, ledger>>

\* A statement fails: context, connection, server, or an abort by the server.
StatementFails(s) ==
  /\ pc[s] \in {"lock", "cleanup", "lookup", "create", "insert"}
  /\ Fail(s, "unavailable")
  /\ UNCHANGED <<time, items, keyRows, req, started, txVars, stored, ledger>>

DeadlockDetected(s) ==
  /\ Deadlocked(s)
  /\ Fail(s, "unavailable")
  /\ UNCHANGED <<time, items, keyRows, req, started, txVars, stored, ledger>>

\* COMMIT was sent and the call gives up on its reply, or its replica dies.
CommitReplyLost(s) ==
  /\ pc[s] = "commit"
  /\ Goto(s, "inDoubt")
  /\ Answer(s, Error("unavailable"))
  /\ UNCHANGED <<time, items, keyRows, req, started, txVars, stored, ledger>>

\* The deferred rollback, or the server dropping a session it has lost.
RollbackForgotten(s) ==
  /\ pc[s] \in {"rollback", "inDoubt"}
  /\ Goto(s, "done")
  /\ UNCHANGED <<time, items, keyRows, req, started, txVars, stored, answer, ledger>>
Rollback(s) ==
  /\ pc[s] \in {"rollback", "inDoubt"}
  /\ Goto(s, "done")
  /\ Release(s)
  /\ UNCHANGED <<time, items, keyRows, req, started, stored, answer, ledger>>

Tick ==
  /\ time < MaxTime
  /\ time' = time + 1
  /\ UNCHANGED <<items, keyRows, pc, req, started, txVars, stored, answer, ledger>>

\* The statements of CreateIdempotent in the order the code issues them.
Statement(s) ==
  \/ TryLock(s) \/ Cleanup(s) \/ LookupMiss(s) \/ LookupHit(s) \/ CreateItem(s)
  \/ InsertKey(s) \/ Commit(s) \/ Reply(s) \/ Rollback(s)

Fault(s) == StatementFails(s) \/ CommitReplyLost(s)

Next ==
  \/ \E s \in Sessions :
       \/ Create(s) \/ BeginFails(s) \/ Begin(s) \/ Statement(s)
       \/ DeadlockDetected(s) \/ Fault(s)
  \/ Tick

Spec == Init /\ [][Next]_vars

\* A session's next statement runs once nothing blocks it, the server breaks
\* deadlocks, and a lost session is ended one way or the other.
Fairness == \A s \in Sessions : WF_vars(Statement(s)) /\ WF_vars(DeadlockDetected(s))

FairSpec == Spec /\ Fairness

-----------------------------------------------------------------------------
\* Every variable has its type (the columns of db/migrations, the locals and
\* results of CreateIdempotent).
TypeOK ==
  /\ time \in Nat
  /\ items \subseteq Item
  /\ keyRows \subseteq Entry
  /\ pc \in [Sessions -> {"start", "lock", "cleanup", "lookup", "create", "insert",
                          "commit", "inDoubt", "committed", "rollback", "done"}]
  /\ req \in [Sessions -> Request]
  /\ started \in [Sessions -> Nat]
  /\ advisory \subseteq Sessions
  /\ rowLocks \in [Sessions -> SUBSET Keys]
  /\ deleted \in [Sessions -> SUBSET Keys]
  /\ inserted \subseteq Sessions
  /\ written \in [Sessions -> SUBSET Entry]
  /\ stored \in [Sessions -> SUBSET Entry]
  /\ answer \in [Sessions -> [kind : Kinds, ID : IDs \cup {NoID}]]
  /\ ledger \subseteq Made

\* Two Items committed under one key were recorded at least a retention window
\* apart: no retry after an error, a lost COMMIT reply or a dead replica makes
\* a second one (CreateIdempotent's one transaction for Item and key row).
AtMostOneItemPerWindow ==
  \A m, n \in ledger :
    m.key = n.key /\ m.itemID # n.itemID =>
      m.at + Retention <= n.at \/ n.at + Retention <= m.at

\* An Item is returned only to the request that made it or to one with the same
\* key and fingerprint (the lookup switch of CreateIdempotent).
AnswersOwnItem ==
  \A s \in Sessions : answer[s].kind \in {"created", "replayed"} =>
    \E m \in ledger : /\ m.itemID = answer[s].ID
                      /\ m.key = req[s].key
                      /\ m.fingerprint = req[s].fingerprint

\* A key row never names an Item that is missing, so ErrIdempotencyState is
\* never answered: both rows commit together and Items are not deleted.
NoDanglingRow ==
  /\ \A e \in keyRows : Stored(e.itemID)
  /\ \A s \in Sessions : answer[s].kind # "state"

\* "A transaction-scoped advisory lock serializes the same opaque key": past the
\* lock, no two transactions work on one key, so inserting a key row never
\* meets another one and the caller is not told its Item id is taken.
OneTransactionPerKey ==
  \A s, t \in Sessions :
    /\ s # t
    /\ pc[s] \in {"cleanup", "lookup", "create", "insert", "commit", "inDoubt"}
    /\ pc[t] \in {"cleanup", "lookup", "create", "insert", "commit", "inDoubt"}
    => req[s].key # req[t].key

\* Every transaction ends, and frees its locks, although lookups wait for rows
\* that other transactions' cleanups have locked.
TransactionsEnd ==
  \A s \in Sessions : pc[s] = "lock" ~> pc[s] = "done"

\* "retries outside the window are treated as a new request"
\* (item.IdempotencyRecordRetention): a transaction begun when a row had expired
\* is not answered from that row.
RetriesOutsideWindowAreNew ==
  \A s \in Sessions : \A e \in stored[s] : started[s] < e.expiresAt

(***************************************************************************)
(* The store implements IdempotentCreate.  A replay happens when its       *)
(* transaction commits, any other call returns when its session ends: an   *)
(* error answered while the outcome of COMMIT is open counts from then on. *)
(***************************************************************************)
Records == {Creation(e) : e \in keyRows}

Replayed(s) == pc[s] = "committed" /\ stored[s] # {}

Phase == [s \in Sessions |->
            CASE Replayed(s) -> "done"
              [] pc[s] = "committed" /\ stored[s] = {} -> "performed"
              [] pc[s] \in {"start", "done"} -> pc[s]
              [] OTHER -> "called"]

Returned == [s \in Sessions |->
               IF pc[s] = "done" \/ (Replayed(s) /\ answer[s] # NoAnswer) THEN answer[s]
               ELSE IF Replayed(s)
               THEN [kind |-> "replayed", ID |-> (CHOOSE e \in stored[s] : TRUE).itemID]
               ELSE NoAnswer]

Abstract == INSTANCE IdempotentCreate
              WITH Callers <- Sessions, records <- Records, phase <- Phase, answer <- Returned

\* CreateIdempotent behaves as one atomic insert of Item and replay record.
ImplementsIdempotentCreate == Abstract!Spec
=============================================================================
