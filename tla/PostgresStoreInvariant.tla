------------------------ MODULE PostgresStoreInvariant -----------------------
(***************************************************************************)
(* The inductive invariant of PostgresStore, its type correctness, and the *)
(* statements that leave committed rows alone, for every number of         *)
(* sessions, keys and Items, every retention window and cleanup batch, and *)
(* every assignment of advisory lock ids, colliding ones included.         *)
(***************************************************************************)
EXTENDS PostgresStore, TLAPS

\* A leaf that names no prover is one for the SMT solver.
USE SMTT(30)

\* Past pg_try_advisory_xact_lock, up to the end of the transaction.
InTransaction(s) == pc[s] \in {"cleanup", "lookup", "create", "insert", "commit", "inDoubt"}

\* The advisory lock is held throughout, and by one session per lock id.
LocksHeld ==
  /\ \A s \in Sessions : InTransaction(s) => s \in advisory
  /\ \A s, t \in advisory : LockID[req[s].key] = LockID[req[t].key] => s = t

\* A row has one locker, is locked before it is deleted, and stays while locked.
RowsLocked ==
  /\ \A s, t \in Sessions : \A k \in rowLocks[s] : k \in rowLocks[t] => s = t
  /\ \A s \in Sessions : deleted[s] \subseteq rowLocks[s]
  /\ \A s \in Sessions : \A k \in rowLocks[s] : \E e \in keyRows : e.key = k

\* Only expired rows are deleted.
DeletedExpired ==
  \A s \in Sessions : \A e \in keyRows : e.key \in deleted[s] => e.expiresAt <= time

\* The primary key of item_idempotency_keys.
KeysUnique == \A e, f \in keyRows : e.key = f.key => e = f

\* After a lookup that found nothing, the key has no row but one the
\* transaction itself has deleted.
NothingVisible ==
  \A s \in Sessions : pc[s] \in {"create", "insert"} \/ written[s] # {} =>
    \A e \in keyRows : e.key = req[s].key => e.key \in deleted[s]

\* What a transaction has done by each statement: a row was found, or an Item
\* and a key row were written, never both and never one of the two.
Progress ==
  \A s \in Sessions :
    /\ pc[s] \in {"start", "lock", "cleanup", "lookup", "create", "insert"} => stored[s] = {}
    /\ written[s] # {} => pc[s] \in {"commit", "inDoubt"}
    /\ s \in inserted => pc[s] \in {"insert", "commit", "inDoubt", "rollback"}
    /\ pc[s] = "insert" => s \in inserted
    /\ pc[s] \in {"commit", "inDoubt"} => /\ s \in inserted <=> stored[s] = {}
                                          /\ written[s] # {} <=> stored[s] = {}

\* An uncommitted Item has an id that no other Item has, committed or not.
InsertedNew ==
  /\ \A s \in inserted : ~Stored(req[s].ID)
  /\ \A s, t \in inserted : req[s].ID = req[t].ID => s = t

\* An uncommitted key row is the request's, and dates from a time at which the
\* windows of all earlier Items of its key were over.
WrittenRow ==
  \A s \in Sessions : \A e \in written[s] :
    /\ e.key = req[s].key /\ e.fingerprint = req[s].fingerprint /\ e.itemID = req[s].ID
    /\ started[s] + Retention <= e.expiresAt /\ e.expiresAt <= time + Retention
    /\ \A m \in ledger : m.key = e.key => m.at + Retention + Retention <= e.expiresAt
    /\ \A f \in written[s] : f = e

\* A line of the ledger for this key, fingerprint and Item.
InLedger(k, f, id) == \E m \in ledger : m.key = k /\ m.fingerprint = f /\ m.itemID = id

\* The row about to be replayed is the request's and stays until COMMIT.
StoredRow ==
  \A s \in Sessions : \A e \in stored[s] :
    /\ \A f \in stored[s] : f = e
    /\ pc[s] \in {"commit", "inDoubt"} => e \in keyRows /\ e.key \in rowLocks[s] \ deleted[s]
    /\ pc[s] \in {"commit", "inDoubt", "committed"} =>
         /\ e.key = req[s].key /\ e.fingerprint = req[s].fingerprint
         /\ InLedger(e.key, e.fingerprint, e.itemID)

\* What is answered when; a conflict is answered with the row still locked.
Answering ==
  \A s \in Sessions :
    /\ pc[s] \in {"start", "lock", "cleanup", "lookup", "create", "insert", "commit"}
         => answer[s] = NoAnswer
    /\ pc[s] = "inDoubt" => answer[s] = Error("unavailable")
    /\ pc[s] = "committed" => answer[s] \in {NoAnswer, Error("unavailable")}
    /\ pc[s] = "rollback" =>
         \/ answer[s] \in {Error("inProgress"), Error("unavailable"), Error("idConflict")}
         \/ /\ answer[s] = Error("conflict")
            /\ \E e \in keyRows : /\ e.key = req[s].key /\ e.fingerprint # req[s].fingerprint
                                  /\ e.key \in rowLocks[s] \ deleted[s]

\* A committed key row is recorded in the ledger.
RowsRecorded ==
  \A e \in keyRows : Retention <= e.expiresAt /\ InLedger(e.key, e.fingerprint, e.itemID)

\* So is the create of a session whose COMMIT was applied.
CommittedInLedger ==
  \A s \in Sessions : pc[s] = "committed" /\ stored[s] = {} =>
    InLedger(req[s].key, req[s].fingerprint, req[s].ID)

\* The ledger lists stored Items, and nothing is ahead of the clock.
LedgerStored ==
  /\ \A m \in ledger : Stored(m.itemID) /\ m.at <= time
  /\ \A s \in Sessions : started[s] <= time

\* Until an Item's window is over, a row guards its key at least that long.
WindowGuarded ==
  \A m \in ledger :
    \/ m.at + Retention <= time
    \/ \E e \in keyRows : e.key = m.key /\ m.at + Retention <= e.expiresAt

\* The inductive invariant: what sessions hold, what they have written, what
\* they may answer, and what is committed.
Held == LocksHeld /\ RowsLocked /\ DeletedExpired
Pending == NothingVisible /\ Progress /\ InsertedNew /\ WrittenRow /\ StoredRow
Committed == KeysUnique /\ RowsRecorded /\ LedgerStored /\ WindowGuarded /\ AtMostOneItemPerWindow
Answered == Answering /\ CommittedInLedger /\ AnswersOwnItem /\ NoDanglingRow

IInv == TypeOK /\ Held /\ Pending /\ Committed /\ Answered

-----------------------------------------------------------------------------
(***************************************************************************)
(* Type correctness.                                                       *)
(***************************************************************************)
\* The rows earlier requests left have the types of their columns.
LEMMA InitType == Init => TypeOK
<1> SUFFICES ASSUME Init PROVE TypeOK
  BY Zenon
<1>1. items \subseteq Item
  BY PostgresAssumption DEF Init, Item, Made
<1>2. keyRows \subseteq Entry
  BY PostgresAssumption DEF Init, Entry, Made
<1>3. ledger \subseteq Made
  BY PostgresAssumption, Zenon DEF Init
<1>4. answer \in [Sessions -> [kind : Kinds, ID : IDs \cup {NoID}]]
  BY Zenon DEF Init, NoAnswer, Kinds
<1>5. QED
  BY <1>1, <1>2, <1>3, <1>4, Zenon DEF Init, TypeOK

\* An error return records a session and an answer of the right types.
LEMMA FailType ==
  ASSUME TypeOK, NEW s \in Sessions, NEW kind \in Kinds, Fail(s, kind)
  PROVE  /\ pc' \in [Sessions -> {"start", "lock", "cleanup", "lookup", "create", "insert",
                                 "commit", "inDoubt", "committed", "rollback", "done"}]
         /\ answer' \in [Sessions -> [kind : Kinds, ID : IDs \cup {NoID}]]
<1>1. Error(kind) \in [kind : Kinds, ID : IDs \cup {NoID}]
  BY Zenon DEF Error
<1>2. QED
  BY <1>1, Zenon DEF TypeOK, Fail, Goto, Answer

\* No statement of CreateIdempotent leaves the types: a row expires at least a
\* retention window after the clock's zero, so the time it was written is known.
LEMMA StatementType ==
  ASSUME IInv, NEW s \in Sessions, Statement(s)
  PROVE  TypeOK'
<1> TypeOK
  BY Zenon DEF IInv
<1>1. req[s] \in Request /\ time + Retention \in Nat
  BY PostgresAssumption DEF TypeOK
<1>2. CASE TryLock(s)
  <2>1. CASE Fail(s, "inProgress") /\ UNCHANGED advisory
    BY <1>2, <2>1, FailType, Zenon DEF Kinds, TryLock, TypeOK
  <2>2. CASE advisory' = advisory \cup {s} /\ Goto(s, "cleanup") /\ UNCHANGED answer
    BY <1>2, <2>2, Zenon DEF TryLock, Goto, TypeOK
  <2>3. QED
    BY <1>2, <2>1, <2>2, Zenon DEF TryLock
<1>3. CASE Cleanup(s)
  BY <1>3 DEF Cleanup, Batches, Removable, TypeOK, Entry, Goto
<1>4. CASE LookupMiss(s)
  BY <1>4, Zenon DEF LookupMiss, Goto, TypeOK, txVars
<1>5. CASE LookupHit(s)
  BY <1>5, FailType DEF LookupHit, Visible, RowFor, TypeOK, Entry, Kinds, Goto
<1>6. CASE CreateItem(s)
  BY <1>6, FailType, Zenon DEF Kinds, CreateItem, TypeOK, Goto
<1>7. CASE InsertKey(s)
  <2> DEFINE row == [key |-> req[s].key, fingerprint |-> req[s].fingerprint,
                     itemID |-> req[s].ID, expiresAt |-> RowExpiry]
  <2>1. row \in Entry
    BY <1>1, Zenon DEF Request, Entry, RowExpiry
  <2>2. CASE Visible(s) # {}
    BY <1>7, <2>2, FailType, Zenon DEF Kinds, InsertKey, TypeOK
  <2>3. CASE Visible(s) = {}
    <3>1. written' = [written EXCEPT ![s] = {row}]
      BY <1>7, <2>3, Zenon DEF InsertKey
    <3>2. /\ Goto(s, "commit")
          /\ UNCHANGED <<time, items, keyRows, req, started, advisory, rowLocks, deleted,
                         inserted, stored, answer, ledger>>
      BY <1>7, <2>3, Zenon DEF InsertKey
    <3> HIDE DEF row
    <3>3. written' \in [Sessions -> SUBSET Entry]
      BY <2>1, <3>1, Zenon DEF TypeOK
    <3>4. QED
      BY <3>2, <3>3, Zenon DEF Goto, TypeOK
  <2>4. QED
    BY <2>2, <2>3, Zenon
<1>8. CASE Commit(s)
  BY <1>1, <1>8, PostgresAssumption DEF Commit, NewItem, Request, Item, TypeOK, IInv, Pending,
     WrittenRow, Entry, Creation, Made, Goto, Release
<1>9. CASE Reply(s)
  <2>1. \A e \in stored[s] : e.itemID \in IDs
    BY DEF TypeOK, Entry
  <2>2. answer' \in [Sessions -> [kind : Kinds, ID : IDs \cup {NoID}]]
    BY <1>1, <1>9, <2>1 DEF Reply, Answer, Kinds, Request, TypeOK
  <2>3. QED
    BY <1>9, <2>2, Zenon DEF Reply, Goto, TypeOK, txVars
<1>10. CASE Rollback(s)
  BY <1>10, Zenon DEF Rollback, Goto, Release, TypeOK
<1>11. QED
  BY <1>2, <1>3, <1>4, <1>5, <1>6, <1>7, <1>8, <1>9, <1>10, Zenon DEF Statement

\* Nor does any other step: plain creates, failures, the clock.
LEMMA NextType == IInv /\ [Next]_vars => TypeOK'
<1> SUFFICES ASSUME IInv, [Next]_vars PROVE TypeOK'
  BY Zenon
<1> TypeOK
  BY Zenon DEF IInv
<1> "unavailable" \in Kinds /\ "idConflict" \in Kinds /\ "stored" \in Kinds
  BY Zenon DEF Kinds
<1>1. ASSUME NEW s \in Sessions, Create(s) PROVE TypeOK'
  BY <1>1 DEF TypeOK, Request, Item, NewItem, Create, Answer, Error, Goto, txVars
<1>2. ASSUME NEW s \in Sessions, BeginFails(s) \/ CommitReplyLost(s) PROVE TypeOK'
  BY <1>2 DEF Error, BeginFails, CommitReplyLost, Answer, TypeOK, Goto, txVars
<1>3. ASSUME NEW s \in Sessions, Begin(s) PROVE TypeOK'
  BY <1>3, Zenon DEF Begin, Goto, TypeOK, txVars
<1>4. ASSUME NEW s \in Sessions, DeadlockDetected(s) \/ StatementFails(s) PROVE TypeOK'
  BY <1>4, FailType, Zenon DEF DeadlockDetected, StatementFails, TypeOK, txVars
<1>5. CASE Tick
  BY <1>5 DEF Tick, TypeOK, txVars
<1>6. CASE UNCHANGED vars
  BY <1>6, Zenon DEF vars, TypeOK
<1>7. QED
  BY <1>1, <1>2, <1>3, <1>4, <1>5, <1>6, StatementType, Zenon DEF Next, Fault

-----------------------------------------------------------------------------
(***************************************************************************)
(* The inductive invariant.  Most statements move one session and touch    *)
(* one piece of it; Commit is the step that changes the shared tables.     *)
(***************************************************************************)
\* The database earlier requests left satisfies the invariant.
LEMMA InitInv == Init => IInv
<1> SUFFICES ASSUME Init PROVE IInv
  BY Zenon
<1>1. TypeOK
  BY InitType, Zenon
<1>2. Held
  BY Zenon DEF Init, Held, LocksHeld, RowsLocked, DeletedExpired, InTransaction
<1>3. Pending
  BY Zenon DEF Init, Pending, NothingVisible, Progress, InsertedNew, WrittenRow, StoredRow
<1>4. ASSUME NEW e \in keyRows
      PROVE  \E m \in Past : /\ m \in ledger /\ m.at = 0 /\ e.expiresAt = Retention
                             /\ m.key = e.key /\ m.fingerprint = e.fingerprint
                             /\ m.itemID = e.itemID
  BY PostgresAssumption DEF Init
<1>5. ASSUME NEW m \in ledger
      PROVE  /\ m \in Past /\ m.at = 0 /\ Stored(m.itemID)
             /\ \E e \in keyRows : e.key = m.key /\ e.expiresAt = Retention
  <2>1. m \in Past /\ m.at = 0
    BY PostgresAssumption, Zenon DEF Init
  <2>2. [ID |-> m.itemID, content |-> m.fingerprint] \in items
    BY <2>1, Zenon DEF Init
  <2>3. [key |-> m.key, fingerprint |-> m.fingerprint, itemID |-> m.itemID,
         expiresAt |-> m.at + Retention] \in keyRows
    BY <2>1, Zenon DEF Init
  <2>4. m.at + Retention = Retention
    BY <2>1, PostgresAssumption
  <2>5. Stored(m.itemID)
    BY <2>2, Zenon DEF Stored
  <2>6. \E e \in keyRows : e.key = m.key /\ e.expiresAt = Retention
    BY <2>3, <2>4, Zenon
  <2>7. QED
    BY <2>1, <2>5, <2>6, Zenon
<1>6. Committed
  <2>1. KeysUnique
    BY PostgresAssumption DEF Init, KeysUnique
  <2>2. RowsRecorded
    BY <1>4, PostgresAssumption DEF RowsRecorded, InLedger
  <2>3. LedgerStored
    BY <1>5 DEF LedgerStored, Init
  <2>4. WindowGuarded
    BY <1>5, PostgresAssumption DEF WindowGuarded
  <2>5. AtMostOneItemPerWindow
    BY <1>5, PostgresAssumption, Zenon DEF AtMostOneItemPerWindow
  <2>6. QED
    BY <2>1, <2>2, <2>3, <2>4, <2>5, Zenon DEF Committed
<1>7. Answered
  BY <1>4, <1>5, Zenon DEF Init, Answering, CommittedInLedger, AnswersOwnItem, NoAnswer, NoDanglingRow,
     Answered
<1>8. QED
  BY <1>1, <1>2, <1>3, <1>6, <1>7, Zenon DEF IInv

\* A step that leaves the locks alone and lets no session past the lock.
LEMMA HeldFrame ==
  ASSUME IInv, TypeOK',
         UNCHANGED <<keyRows, req, advisory, rowLocks, deleted>>, time' >= time,
         \A t \in Sessions : InTransaction(t)' => InTransaction(t)
  PROVE  Held'
<1>1. LocksHeld'
  BY Zenon DEF IInv, Held, LocksHeld
<1>2. RowsLocked'
  BY Zenon DEF IInv, Held, RowsLocked
<1>3. DeletedExpired'
  BY DEF DeletedExpired, IInv, Held, TypeOK, Entry
<1>4. QED
  BY <1>1, <1>2, <1>3, Zenon DEF Held

\* A step that leaves the committed rows alone, but for a plain create's Item.
LEMMA CommittedFrame ==
  ASSUME IInv, TypeOK', items \subseteq items', UNCHANGED <<keyRows, ledger>>, time' >= time,
         \A t \in Sessions : started'[t] <= time'
  PROVE  Committed'
<1>1. KeysUnique' /\ RowsRecorded' /\ AtMostOneItemPerWindow'
  BY Zenon DEF IInv, Committed, KeysUnique, RowsRecorded, InLedger, AtMostOneItemPerWindow
<1>2. ASSUME NEW m \in ledger
      PROVE  m.at <= time' /\ (m.at + Retention <= time => m.at + Retention <= time')
  BY PostgresAssumption DEF IInv, TypeOK, Made, Committed, LedgerStored
<1>3. LedgerStored' /\ WindowGuarded'
  BY <1>2, Zenon DEF IInv, Committed, LedgerStored, Stored, WindowGuarded
<1>4. QED
  BY <1>1, <1>3, Zenon DEF Committed

\* A step of one session that writes and finds no row.
LEMMA RowsFrame ==
  ASSUME IInv, TypeOK', NEW s \in Sessions, NEW l, Goto(s, l),
         UNCHANGED <<keyRows, ledger, req, rowLocks, deleted, written, stored>>,
         time' >= time,
         \A t \in Sessions : started'[t] = started[t] \/ written[t] = {},
         l \in {"commit", "inDoubt"} => pc[s] \in {"commit", "inDoubt"},
         l # "committed"
  PROVE  WrittenRow' /\ StoredRow'
<1>1. WrittenRow'
  <2> SUFFICES ASSUME NEW t \in Sessions, NEW e \in written[t]
               PROVE  /\ e.key = req[t].key /\ e.fingerprint = req[t].fingerprint
                      /\ e.itemID = req[t].ID
                      /\ started'[t] + Retention <= e.expiresAt /\ e.expiresAt <= time' + Retention
                      /\ \A m \in ledger : m.key = e.key => m.at + Retention + Retention <= e.expiresAt
                      /\ \A f \in written[t] : f = e
    BY Zenon DEF WrittenRow
  <2>1. /\ e.key = req[t].key /\ e.fingerprint = req[t].fingerprint /\ e.itemID = req[t].ID
        /\ started[t] + Retention <= e.expiresAt /\ e.expiresAt <= time + Retention
        /\ \A m \in ledger : m.key = e.key => m.at + Retention + Retention <= e.expiresAt
        /\ \A f \in written[t] : f = e
    BY Zenon DEF IInv, Pending, WrittenRow
  <2>2. e.expiresAt \in Nat /\ time \in Nat /\ time' \in Nat /\ Retention \in Nat
    BY PostgresAssumption DEF IInv, TypeOK, Entry
  <2>3. e.expiresAt <= time' + Retention
    BY <2>1, <2>2
  <2>4. QED
    BY <2>1, <2>3, Zenon
<1>2. StoredRow'
  BY DEF IInv, TypeOK, Goto, Pending, StoredRow, InLedger
<1>3. QED
  BY <1>1, <1>2, Zenon

\* Every error return before COMMIT keeps the invariant: the session holds what
\* it held, and the deferred rollback is still to come.
LEMMA FailInv ==
  ASSUME IInv, TypeOK', NEW s \in Sessions,
         NEW kind \in {"inProgress", "unavailable", "idConflict"}, Fail(s, kind),
         pc[s] \in {"lock", "cleanup", "lookup", "create", "insert"},
         UNCHANGED <<time, items, keyRows, req, started, txVars, stored, ledger>>
  PROVE  IInv'
<1>1. /\ pc'[s] = "rollback" /\ answer'[s] = Error(kind)
      /\ \A t \in Sessions \ {s} : pc'[t] = pc[t] /\ answer'[t] = answer[t]
  BY Zenon DEF IInv, TypeOK, Fail, Goto, Answer
<1>2. time' >= time /\ \A t \in Sessions : started'[t] <= time'
  BY DEF IInv, TypeOK, Committed, LedgerStored
<1>3. Held'
  BY <1>1, <1>2, HeldFrame, Zenon DEF InTransaction, txVars
<1>4. Committed'
  BY <1>2, CommittedFrame, Zenon
<1>5. Pending'
  BY <1>1, <1>2, RowsFrame, Zenon DEF IInv, Pending, NothingVisible, txVars, Progress, InsertedNew, Stored,
     Fail
<1>6. Answered'
  <2>1. Answering'
    BY <1>1, ZenonT(30) DEF IInv, Answered, Answering, txVars, Error
  <2>2. CommittedInLedger' /\ AnswersOwnItem' /\ NoDanglingRow'
    BY <1>1 DEF IInv, Answered, CommittedInLedger, InLedger, AnswersOwnItem,
       NoDanglingRow, Stored, txVars, Error
  <2>3. QED
    BY <2>1, <2>2, Zenon DEF Answered
<1>7. QED
  BY <1>3, <1>4, <1>5, <1>6, Zenon DEF IInv

\* A transaction begins.
LEMMA BeginInv ==
  ASSUME IInv, TypeOK', NEW s \in Sessions, Begin(s)
  PROVE  IInv'
<1> USE DEF Begin, txVars
<1>1. /\ pc[s] = "start" /\ pc'[s] = "lock" /\ started'[s] = time
      /\ \A t \in Sessions \ {s} : pc'[t] = pc[t] /\ started'[t] = started[t]
  BY Zenon DEF IInv, TypeOK, Goto
<1>2. time' >= time /\ \A t \in Sessions : started'[t] <= time'
  BY <1>1 DEF IInv, TypeOK, Committed, LedgerStored
<1>3. Held'
  BY <1>1, <1>2, HeldFrame, Zenon DEF InTransaction
<1>4. Committed'
  BY <1>2, CommittedFrame, Zenon
<1>5. Pending'
  BY <1>1, <1>2, RowsFrame, ZenonT(30) DEF IInv, Pending, Progress, NothingVisible, InsertedNew, Stored
<1>6. Answered'
  <2>1. Answering'
    BY <1>1, Zenon DEF IInv, Answered, Answering
  <2>2. CommittedInLedger' /\ AnswersOwnItem' /\ NoDanglingRow'
    BY <1>1, Zenon DEF IInv, Answered, CommittedInLedger, InLedger, AnswersOwnItem,
       NoDanglingRow, Stored
  <2>3. QED
    BY <2>1, <2>2, Zenon DEF Answered
<1>7. QED
  BY <1>3, <1>4, <1>5, <1>6, Zenon DEF IInv

\* The lookup found nothing but what the transaction's own cleanup deleted.
LEMMA LookupMissInv ==
  ASSUME IInv, TypeOK', NEW s \in Sessions, LookupMiss(s)
  PROVE  IInv'
<1> USE DEF LookupMiss, txVars
<1>1. /\ pc[s] = "lookup" /\ pc'[s] = "create"
      /\ \A t \in Sessions \ {s} : pc'[t] = pc[t]
  BY Zenon DEF IInv, TypeOK, Goto
<1>2. time' >= time /\ \A t \in Sessions : started'[t] <= time'
  BY DEF IInv, TypeOK, Committed, LedgerStored
<1>3. Held'
  BY <1>1, <1>2, HeldFrame, Zenon DEF InTransaction
<1>4. Committed'
  BY <1>2, CommittedFrame, Zenon
<1>5. Pending'
  BY <1>1, <1>2, RowsFrame, Zenon DEF Visible, RowFor, IInv, Pending, NothingVisible, Progress,
     InsertedNew, Stored
<1>6. Answered'
  <2>1. Answering'
    BY <1>1, Zenon DEF IInv, Answered, Answering
  <2>2. CommittedInLedger' /\ AnswersOwnItem' /\ NoDanglingRow'
    BY <1>1, Zenon DEF IInv, Answered, CommittedInLedger, InLedger, AnswersOwnItem,
       NoDanglingRow, Stored
  <2>3. QED
    BY <2>1, <2>2, Zenon DEF Answered
<1>7. QED
  BY <1>3, <1>4, <1>5, <1>6, Zenon DEF IInv

\* A call gives up on the reply to its COMMIT; its transaction stays open.
LEMMA CommitReplyLostInv ==
  ASSUME IInv, TypeOK', NEW s \in Sessions, CommitReplyLost(s)
  PROVE  IInv'
<1> USE DEF CommitReplyLost, txVars
<1>1. /\ pc[s] = "commit" /\ pc'[s] = "inDoubt" /\ answer'[s] = Error("unavailable")
      /\ \A t \in Sessions \ {s} : pc'[t] = pc[t] /\ answer'[t] = answer[t]
  BY Zenon DEF IInv, TypeOK, Goto, Answer
<1>2. time' >= time /\ \A t \in Sessions : started'[t] <= time'
  BY DEF IInv, TypeOK, Committed, LedgerStored
<1>3. Held'
  BY <1>1, <1>2, HeldFrame, Zenon DEF InTransaction
<1>4. Committed'
  BY <1>2, CommittedFrame, Zenon
<1>5. Pending'
  BY <1>1, <1>2, RowsFrame, Zenon DEF IInv, Pending, NothingVisible, Progress, InsertedNew, Stored
<1>6. Answered'
  <2>1. Answering'
    BY <1>1, Zenon DEF IInv, Answered, Answering, Error
  <2>2. CommittedInLedger' /\ AnswersOwnItem' /\ NoDanglingRow'
    BY <1>1 DEF IInv, Answered, CommittedInLedger, InLedger, AnswersOwnItem,
       NoDanglingRow, Stored, Error
  <2>3. QED
    BY <2>1, <2>2, Zenon DEF Answered
<1>7. QED
  BY <1>3, <1>4, <1>5, <1>6, Zenon DEF IInv

\* The last step of a call that holds nothing: it never began, or is committed.
LEMMA DoneInv ==
  ASSUME IInv, TypeOK', NEW s \in Sessions, pc[s] \in {"start", "committed"}, Goto(s, "done"),
         items \subseteq items', InsertedNew',
         UNCHANGED <<time, keyRows, req, started, txVars, stored, ledger>>,
         \A t \in Sessions \ {s} : answer'[t] = answer[t],
         answer'[s].kind # "state",
         answer'[s].kind \in {"created", "replayed"} =>
           InLedger(req[s].key, req[s].fingerprint, answer'[s].ID)
  PROVE  IInv'
<1>1. pc'[s] = "done" /\ \A t \in Sessions \ {s} : pc'[t] = pc[t]
  BY Zenon DEF IInv, TypeOK, Goto
<1>2. time' >= time /\ \A t \in Sessions : started'[t] <= time'
  BY DEF IInv, TypeOK, Committed, LedgerStored
<1>3. Held'
  BY <1>1, <1>2, HeldFrame, Zenon DEF InTransaction, txVars
<1>4. Committed'
  BY <1>2, CommittedFrame, Zenon
<1>5. Pending'
  BY <1>1, <1>2, RowsFrame, Zenon DEF IInv, Pending, NothingVisible, txVars, Progress
<1>6. Answered'
  <2>1. Answering'
    BY <1>1, Zenon DEF IInv, Answered, Answering, txVars
  <2>2. CommittedInLedger' /\ AnswersOwnItem' /\ NoDanglingRow'
    BY <1>1 DEF IInv, Answered, CommittedInLedger, InLedger, AnswersOwnItem,
       NoDanglingRow, Stored, txVars
  <2>3. QED
    BY <2>1, <2>2, Zenon DEF Answered
<1>7. QED
  BY <1>3, <1>4, <1>5, <1>6, Zenon DEF IInv

\* BeginTx failed, or the context had ended.
LEMMA BeginFailsInv ==
  ASSUME IInv, TypeOK', NEW s \in Sessions, BeginFails(s)
  PROVE  IInv'
<1>1. InsertedNew'
  BY Zenon DEF BeginFails, IInv, Pending, InsertedNew, Stored, txVars
<1>2. answer'[s].kind = "unavailable" /\ \A t \in Sessions \ {s} : answer'[t] = answer[t]
  BY Zenon DEF BeginFails, Answer, Error, IInv, TypeOK
<1>3. QED
  BY <1>1, <1>2, DoneInv, Zenon DEF BeginFails

\* A plain create adds an Item whose id no transaction has inserted.
LEMMA CreateInv ==
  ASSUME IInv, TypeOK', NEW s \in Sessions, Create(s)
  PROVE  IInv'
<1> USE DEF Create, txVars
<1>1. InsertedNew'
  BY DEF IInv, Pending, InsertedNew, Stored, NewItem
<1>2. answer'[s].kind \in {"idConflict", "stored", "unavailable"} /\ \A t \in Sessions \ {s} : answer'[t] = answer[t]
  <2>1. PICK a : /\ Answer(s, a)
                 /\ a \in {Error("idConflict"), [kind |-> "stored", ID |-> req[s].ID], Error("unavailable")}
    BY Zenon
  <2>2. a.kind \in {"idConflict", "stored", "unavailable"}
    BY <2>1, SMT DEF Error
  <2>3. QED
    BY <2>1, <2>2, Zenon DEF Answer, IInv, TypeOK
<1>3. QED
  BY <1>1, <1>2, DoneInv, Zenon

\* The answer after COMMIT names the Item created, or the one replayed.
LEMMA ReplyInv ==
  ASSUME IInv, TypeOK', NEW s \in Sessions, Reply(s)
  PROVE  IInv'
<1> USE DEF Reply, txVars
<1>1. InsertedNew'
  BY Zenon DEF IInv, Pending, InsertedNew, Stored
<1>2. \A t \in Sessions \ {s} : answer'[t] = answer[t]
  BY Zenon DEF Answer, IInv, TypeOK
<1>3. CASE answer[s] # NoAnswer
  BY <1>1, <1>2, <1>3, DoneInv DEF IInv, Answered, Answering, Error
<1>4. CASE answer[s] = NoAnswer /\ stored[s] = {}
  <2>1. answer'[s].kind = "created" /\ answer'[s].ID = req[s].ID
    BY <1>4 DEF Answer, IInv, TypeOK
  <2>2. InLedger(req[s].key, req[s].fingerprint, req[s].ID)
    BY <1>4, Zenon DEF IInv, Answered, CommittedInLedger
  <2>3. QED
    BY <1>1, <1>2, <2>1, <2>2, DoneInv, Zenon
<1>5. CASE answer[s] = NoAnswer /\ stored[s] # {}
  <2>1. PICK e \in stored[s] : Answer(s, [kind |-> "replayed", ID |-> e.itemID])
    BY <1>5, Zenon
  <2>2. answer'[s].kind = "replayed" /\ answer'[s].ID = e.itemID
    BY <2>1, Zenon DEF Answer, IInv, TypeOK
  <2>3. InLedger(req[s].key, req[s].fingerprint, e.itemID)
    BY Zenon DEF IInv, Pending, StoredRow
  <2>4. QED
    BY <1>1, <1>2, <2>2, <2>3, DoneInv, Zenon
<1>6. QED
  BY <1>3, <1>4, <1>5, Zenon

\* The advisory lock admits one transaction per lock id.
LEMMA TryLockInv ==
  ASSUME IInv, TypeOK', NEW s \in Sessions, TryLock(s)
  PROVE  IInv'
<1>1. CASE Fail(s, "inProgress") /\ UNCHANGED advisory
  BY <1>1, FailInv, Zenon DEF TryLock, txVars
<1>2. CASE /\ ~LockTaken(s) /\ advisory' = advisory \cup {s}
           /\ Goto(s, "cleanup") /\ UNCHANGED answer
  <2> USE <1>2 DEF TryLock
  <2>1. /\ pc[s] = "lock" /\ pc'[s] = "cleanup"
        /\ \A t \in Sessions \ {s} : pc'[t] = pc[t]
    BY Zenon DEF IInv, TypeOK, Goto
  <2>2. time' >= time /\ \A t \in Sessions : started'[t] <= time'
    BY DEF IInv, TypeOK, Committed, LedgerStored
  <2>3. Held'
    <3>1. LocksHeld'
      BY <2>1 DEF IInv, Held, LocksHeld, LockTaken, InTransaction
    <3>2. RowsLocked' /\ DeletedExpired'
      BY Zenon DEF IInv, Held, RowsLocked, DeletedExpired
    <3>3. QED
      BY <3>1, <3>2, Zenon DEF Held
  <2>4. Committed'
    BY <2>2, CommittedFrame, Zenon
  <2>5. Pending'
    BY <2>1, <2>2, RowsFrame, Zenon DEF IInv, Pending, NothingVisible, Progress, InsertedNew, Stored
  <2>6. Answered'
    <3>1. Answering'
      BY <2>1, Zenon DEF IInv, Answered, Answering
    <3>2. CommittedInLedger' /\ AnswersOwnItem' /\ NoDanglingRow'
      BY <2>1, Zenon DEF IInv, Answered, CommittedInLedger, InLedger, AnswersOwnItem,
         NoDanglingRow, Stored
    <3>3. QED
      BY <3>1, <3>2, Zenon DEF Answered
  <2>7. QED
    BY <2>3, <2>4, <2>5, <2>6, Zenon DEF IInv
<1>3. QED
  BY <1>1, <1>2, Zenon DEF TryLock
=============================================================================
