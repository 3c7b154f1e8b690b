------------------------- MODULE PostgresStoreProofs -------------------------
(***************************************************************************)
(* The statements of PostgresStore that lock, read and write rows keep the *)
(* invariant, what follows from it, and the refinement of IdempotentCreate.*)
(***************************************************************************)
EXTENDS PostgresStoreInvariant

\* A leaf that names no prover is one for the SMT solver.
USE SMTT(30)

\* Cleanup locks and deletes expired rows that no other session has locked.
LEMMA CleanupInv ==
  ASSUME IInv, TypeOK', NEW s \in Sessions, Cleanup(s)
  PROVE  IInv'
<1> USE DEF Cleanup
<1>1. /\ pc[s] = "cleanup" /\ pc'[s] = "lookup"
      /\ \A t \in Sessions \ {s} : pc'[t] = pc[t]
  BY Zenon DEF IInv, TypeOK, Goto
<1>2. PICK S \in SUBSET Removable(s) :
        /\ rowLocks' = [rowLocks EXCEPT ![s] = {e.key : e \in S}]
        /\ deleted' = [deleted EXCEPT ![s] = {e.key : e \in S}]
  BY Zenon DEF Batches
<1>3. /\ rowLocks'[s] = {e.key : e \in S} /\ deleted'[s] = {e.key : e \in S}
      /\ \A t \in Sessions \ {s} : rowLocks'[t] = rowLocks[t] /\ deleted'[t] = deleted[t]
  BY <1>2, Zenon DEF IInv, TypeOK
<1>4. \A k \in rowLocks'[s] : \E e \in keyRows :
        e.key = k /\ e.expiresAt <= time /\ \A t \in Sessions \ {s} : k \notin rowLocks[t]
  BY <1>3 DEF Removable, ExpiredRow
<1>5. time' >= time /\ \A t \in Sessions : started'[t] <= time'
  BY DEF IInv, TypeOK, Committed, LedgerStored
<1>6. Held'
  <2>1. LocksHeld'
    BY <1>1 DEF IInv, Held, InTransaction, LocksHeld
  <2>2. RowsLocked'
    <3>1. \A t, u \in Sessions : \A k \in rowLocks'[t] : k \in rowLocks'[u] => t = u
      BY <1>3, <1>4, Zenon DEF IInv, Held, RowsLocked
    <3>2. \A t \in Sessions : deleted'[t] \subseteq rowLocks'[t]
      BY <1>3, Zenon DEF IInv, Held, RowsLocked
    <3>3. \A t \in Sessions : \A k \in rowLocks'[t] : \E e \in keyRows : e.key = k
      BY <1>3, <1>4, Zenon DEF IInv, Held, RowsLocked
    <3>4. QED
      BY <3>1, <3>2, <3>3, Zenon DEF RowsLocked
  <2>3. DeletedExpired'
    BY <1>3, <1>4 DEF IInv, Committed, KeysUnique, Held, DeletedExpired
  <2>4. QED
    BY <2>1, <2>2, <2>3, Zenon DEF Held
<1>7. Committed'
  BY <1>5, CommittedFrame, Zenon
<1>8. Pending'
  BY <1>1, <1>3 DEF IInv, Pending, NothingVisible, Progress, InsertedNew, Stored, WrittenRow,
     StoredRow, InLedger
<1>9. Answered'
  <2>1. Answering'
    BY <1>1, <1>3 DEF IInv, Answered, Answering
  <2>2. CommittedInLedger' /\ AnswersOwnItem' /\ NoDanglingRow'
    BY <1>1, <1>3 DEF IInv, Answered, CommittedInLedger, InLedger, AnswersOwnItem,
       NoDanglingRow, Stored
  <2>3. QED
    BY <2>1, <2>2, Zenon DEF Answered
<1>10. QED
  BY <1>6, <1>7, <1>8, <1>9, Zenon DEF IInv

\* A lookup that finds the key's row locks it, and replays it or refuses the
\* request; the row's Item is never missing.
LEMMA LookupHitInv ==
  ASSUME IInv, TypeOK', NEW s \in Sessions, LookupHit(s)
  PROVE  IInv'
<1> USE DEF LookupHit
<1>1. PICK e \in keyRows :
        /\ e.key = req[s].key /\ e.key \notin deleted[s]
        /\ stored' = [stored EXCEPT ![s] = {e}]
        /\ rowLocks' = [rowLocks EXCEPT ![s] = @ \cup {e.key}]
        /\ \/ e.fingerprint # req[s].fingerprint /\ Fail(s, "conflict")
           \/ /\ e.fingerprint = req[s].fingerprint
              /\ IF Stored(e.itemID) THEN Goto(s, "commit") /\ UNCHANGED answer
                 ELSE Fail(s, "state")
  BY Zenon DEF Visible, RowFor, SameRequest, ReplayedID
<1>2. Stored(e.itemID) /\ InLedger(e.key, e.fingerprint, e.itemID)
  BY Zenon DEF IInv, Answered, NoDanglingRow, Committed, RowsRecorded
<1>3. \A t \in Sessions \ {s} : e.key \notin rowLocks[t]
  BY <1>1, Zenon DEF Visible, RowFor, Waiting, WaitsFor
<1>4. /\ \/ /\ pc'[s] = "rollback" /\ answer'[s] = Error("conflict")
            /\ e.fingerprint # req[s].fingerprint
         \/ pc'[s] = "commit" /\ answer'[s] = answer[s] /\ e.fingerprint = req[s].fingerprint
      /\ \A t \in Sessions \ {s} : pc'[t] = pc[t] /\ answer'[t] = answer[t]
  BY <1>1, <1>2 DEF IInv, TypeOK, Fail, Goto, Answer
<1>5. /\ rowLocks'[s] = rowLocks[s] \cup {e.key} /\ stored'[s] = {e}
      /\ \A t \in Sessions \ {s} : rowLocks'[t] = rowLocks[t] /\ stored'[t] = stored[t]
  BY <1>1, Zenon DEF IInv, TypeOK
<1>6. time' >= time /\ \A t \in Sessions : started'[t] <= time'
  BY DEF IInv, TypeOK, Committed, LedgerStored
<1> HIDE DEF LookupHit
<1>7. pc[s] = "lookup" /\ UNCHANGED <<time, items, keyRows, req, started, advisory, deleted,
                                      inserted, written, ledger>>
  BY Zenon DEF LookupHit
<1>8. Held'
  BY <1>3, <1>4, <1>5, <1>7 DEF IInv, Held, LocksHeld, InTransaction, RowsLocked, DeletedExpired
<1>9. Committed'
  BY <1>6, <1>7, CommittedFrame, Zenon
<1>10. Pending'
  BY <1>1, <1>2, <1>4, <1>5, <1>7 DEF IInv, Pending, NothingVisible, Progress, InsertedNew, Stored,
     WrittenRow, StoredRow, InLedger
<1>11. Answered'
  <2>1. Answering'
    BY <1>1, <1>4, <1>5, <1>7 DEF IInv, Answered, Answering, Error, NoAnswer
  <2>2. CommittedInLedger' /\ AnswersOwnItem' /\ NoDanglingRow'
    BY <1>1, <1>4, <1>5, <1>7 DEF IInv, Answered, CommittedInLedger, InLedger,
       AnswersOwnItem, NoDanglingRow, Stored, Error, NoAnswer
  <2>3. QED
    BY <2>1, <2>2, Zenon DEF Answered
<1>12. QED
  BY <1>8, <1>9, <1>10, <1>11, Zenon DEF IInv

\* The INSERT into items takes an id that neither a row nor a session has.
LEMMA CreateItemInv ==
  ASSUME IInv, TypeOK', NEW s \in Sessions, CreateItem(s)
  PROVE  IInv'
<1>1. CASE Fail(s, "idConflict") /\ UNCHANGED inserted
  BY <1>1, FailInv, Zenon DEF CreateItem, txVars
<1>2. CASE /\ ~Stored(req[s].ID) /\ inserted' = inserted \cup {s}
           /\ Goto(s, "insert") /\ UNCHANGED answer
  <2> USE <1>2 DEF CreateItem
  <2>1. /\ pc[s] = "create" /\ pc'[s] = "insert"
        /\ \A t \in Sessions \ {s} : pc'[t] = pc[t]
    BY Zenon DEF IInv, TypeOK, Goto
  <2>2. time' >= time /\ \A t \in Sessions : started'[t] <= time'
    BY DEF IInv, TypeOK, Committed, LedgerStored
  <2>3. Held'
    BY <2>1, <2>2, HeldFrame, Zenon DEF InTransaction
  <2>4. Committed'
    BY <2>2, CommittedFrame, Zenon
  <2>5. Pending'
    <3>1. NothingVisible'
      BY <2>1, Zenon DEF IInv, Pending, NothingVisible
    <3>2. Progress'
      BY <2>1, Zenon DEF IInv, Pending, Progress
    <3>3. InsertedNew'
      BY <2>1 DEF Waiting, WaitsFor, IInv, TypeOK, Pending, InsertedNew, Stored
    <3>4. WrittenRow' /\ StoredRow'
      BY <2>2, RowsFrame, Zenon
    <3>5. QED
      BY <3>1, <3>2, <3>3, <3>4, Zenon DEF Pending
  <2>6. Answered'
    <3>1. Answering'
      BY <2>1, Zenon DEF IInv, Answered, Answering
    <3>2. CommittedInLedger' /\ AnswersOwnItem' /\ NoDanglingRow'
      BY <2>1, Zenon DEF IInv, Answered, CommittedInLedger, InLedger, AnswersOwnItem,
         NoDanglingRow, Stored
    <3>3. QED
      BY <3>1, <3>2, Zenon DEF Answered
  <2>7. QED
    BY <2>3, <2>4, <2>5, <2>6, Zenon DEF IInv
<1>3. QED
  BY <1>1, <1>2, Zenon DEF CreateItem

\* When the key row is inserted the windows of the key's earlier Items are over:
\* the one row that could guard them is one the transaction found expired.
LEMMA WindowsOver ==
  ASSUME IInv, NEW s \in Sessions, pc[s] = "insert",
         NEW m \in ledger, m.key = req[s].key
  PROVE  m.at + Retention <= time
<1>1. \A e \in keyRows : e.key = req[s].key => e.expiresAt <= time
  BY Zenon DEF IInv, Pending, NothingVisible, Held, DeletedExpired
<1>2. m.at \in Nat /\ time \in Nat /\ Retention \in Nat /\ \A e \in keyRows : e.expiresAt \in Nat
  BY PostgresAssumption, Zenon DEF IInv, TypeOK, Made, Entry
<1>3. QED
  BY <1>1, <1>2 DEF IInv, Committed, WindowGuarded

\* The INSERT of the key row never meets another one.
LEMMA InsertKeyInv ==
  ASSUME IInv, TypeOK', NEW s \in Sessions, InsertKey(s)
  PROVE  IInv'
<1> DEFINE row == [key |-> req[s].key, fingerprint |-> req[s].fingerprint,
                   itemID |-> req[s].ID, expiresAt |-> RowExpiry]
<1>1. pc[s] = "insert" /\ Visible(s) = {}
  BY Zenon DEF InsertKey, IInv, Pending, NothingVisible, Visible, RowFor
<1>2. /\ written' = [written EXCEPT ![s] = {row}] /\ Goto(s, "commit")
      /\ UNCHANGED <<time, items, keyRows, req, started, advisory, rowLocks, deleted,
                     inserted, stored, answer, ledger>>
  BY <1>1, Zenon DEF InsertKey
<1>3. /\ row.key = req[s].key /\ row.fingerprint = req[s].fingerprint
      /\ row.itemID = req[s].ID /\ row.expiresAt = time + Retention
  BY Zenon DEF RowExpiry
<1> HIDE DEF row
<1>4. /\ pc'[s] = "commit" /\ written'[s] = {row}
      /\ \A t \in Sessions \ {s} : pc'[t] = pc[t] /\ written'[t] = written[t]
  BY <1>2, Zenon DEF IInv, TypeOK, Goto
<1>5. time' >= time /\ \A t \in Sessions : started'[t] <= time'
  BY <1>2 DEF IInv, TypeOK, Committed, LedgerStored
<1>6. Held'
  BY <1>1, <1>2, <1>4, <1>5, HeldFrame, Zenon DEF InTransaction
<1>7. Committed'
  BY <1>2, <1>5, CommittedFrame, Zenon
<1>8. Pending'
  <2>1. NothingVisible'
    BY <1>1, <1>2, <1>4, Zenon DEF IInv, Pending, NothingVisible
  <2>2. Progress'
    BY <1>1, <1>2, <1>4, Zenon DEF IInv, Pending, Progress
  <2>3. InsertedNew'
    BY <1>2, Zenon DEF IInv, Pending, InsertedNew, Stored
  <2>4. WrittenRow'
    <3>1. started[s] + Retention <= row.expiresAt /\ row.expiresAt <= time + Retention
      BY <1>3, PostgresAssumption DEF IInv, TypeOK, Committed, LedgerStored
    <3>2. \A m \in ledger : m.key = row.key => m.at + Retention + Retention <= row.expiresAt
      BY <1>1, <1>3, WindowsOver, PostgresAssumption DEF IInv, TypeOK, Made
    <3>3. QED
      BY <1>2, <1>3, <1>4, <3>1, <3>2 DEF IInv, Pending, WrittenRow
  <2>5. StoredRow'
    BY <1>1, <1>2, <1>4 DEF IInv, Pending, Progress, StoredRow, InLedger
  <2>6. QED
    BY <2>1, <2>2, <2>3, <2>4, <2>5, Zenon DEF Pending
<1>9. Answered'
  <2>1. Answering'
    BY <1>1, <1>2, <1>4, Zenon DEF IInv, Answered, Answering
  <2>2. CommittedInLedger' /\ AnswersOwnItem' /\ NoDanglingRow'
    BY <1>1, <1>2, <1>4, Zenon DEF IInv, Answered, CommittedInLedger, InLedger,
       AnswersOwnItem, NoDanglingRow, Stored
  <2>3. QED
    BY <2>1, <2>2, Zenon DEF Answered
<1>10. QED
  BY <1>6, <1>7, <1>8, <1>9, Zenon DEF IInv

\* The end of a transaction frees what its session holds, and only that.
LEMMA ReleaseFrees ==
  ASSUME TypeOK, NEW s \in Sessions, Release(s)
  PROVE  /\ advisory' = advisory \ {s} /\ inserted' = inserted \ {s}
         /\ rowLocks'[s] = {} /\ deleted'[s] = {} /\ written'[s] = {}
         /\ \A t \in Sessions \ {s} : /\ rowLocks'[t] = rowLocks[t] /\ deleted'[t] = deleted[t]
                                      /\ written'[t] = written[t]
BY Zenon DEF Release, TypeOK

\* COMMIT makes the Item, the key row and the deletions visible together, while
\* no other transaction works on the key.
LEMMA CommitInv ==
  ASSUME IInv, TypeOK', NEW s \in Sessions, Commit(s)
  PROVE  IInv'
<1>1. /\ pc[s] \in {"commit", "inDoubt"} /\ pc'[s] = "committed"
      /\ \A t \in Sessions \ {s} : pc'[t] = pc[t]
      /\ UNCHANGED <<time, req, started, stored, answer>>
  BY Zenon DEF Commit, IInv, TypeOK, Goto
<1>2. /\ advisory' = advisory \ {s} /\ inserted' = inserted \ {s}
      /\ rowLocks'[s] = {} /\ deleted'[s] = {} /\ written'[s] = {}
      /\ \A t \in Sessions \ {s} : /\ rowLocks'[t] = rowLocks[t] /\ deleted'[t] = deleted[t]
                                   /\ written'[t] = written[t]
  BY ReleaseFrees, Zenon DEF Commit, IInv
<1>3. \A t \in Sessions \ {s} : InTransaction(t) => req[t].key # req[s].key
  BY <1>1, Zenon DEF IInv, Held, LocksHeld, InTransaction
<1>4. ASSUME NEW e \in written[s]
      PROVE  /\ e.key = req[s].key /\ e.fingerprint = req[s].fingerprint /\ e.itemID = req[s].ID
             /\ s \in inserted /\ e.expiresAt \in Nat
             /\ Retention <= e.expiresAt /\ e.expiresAt <= time + Retention
             /\ \A m \in ledger : m.key = e.key => m.at + Retention + Retention <= e.expiresAt
             /\ \A f \in written[s] : f = e
             /\ \A f \in keyRows : f.key = e.key => f.key \in deleted[s]
  <2>1. /\ e.key = req[s].key /\ e.fingerprint = req[s].fingerprint /\ e.itemID = req[s].ID
        /\ started[s] + Retention <= e.expiresAt /\ e.expiresAt <= time + Retention
        /\ \A m \in ledger : m.key = e.key => m.at + Retention + Retention <= e.expiresAt
        /\ \A f \in written[s] : f = e
    BY Zenon DEF IInv, Pending, WrittenRow
  <2>2. started[s] \in Nat /\ e.expiresAt \in Nat /\ Retention \in Nat
    BY PostgresAssumption DEF IInv, TypeOK, Entry
  <2>3. Retention <= e.expiresAt
    BY <2>1, <2>2
  <2>4. s \in inserted /\ \A f \in keyRows : f.key = e.key => f.key \in deleted[s]
    BY <1>1, <2>1, Zenon DEF IInv, Pending, Progress, NothingVisible
  <2>5. QED
    BY <2>1, <2>2, <2>3, <2>4, Zenon
<1>5. /\ keyRows' = {e \in keyRows : e.key \notin deleted[s]} \cup written[s]
      /\ items' = IF s \in inserted THEN items \cup {NewItem(s)} ELSE items
      /\ ledger' = ledger \cup {Creation(e) : e \in written[s]}
  BY Zenon DEF Commit
<1>6. ASSUME NEW e \in written[s]
      PROVE  /\ Creation(e) \in ledger'
             /\ Creation(e).key = e.key /\ Creation(e).fingerprint = e.fingerprint
             /\ Creation(e).itemID = e.itemID
             /\ Creation(e).at = e.expiresAt - Retention
  BY <1>5, Zenon DEF Creation
<1>7. \A t \in Sessions \ {s} : \A k \in rowLocks[t] : k \notin deleted[s]
  BY Zenon DEF IInv, Held, RowsLocked
<1>8. s \in inserted => NewItem(s) \in items' /\ NewItem(s).ID = req[s].ID
  BY <1>5, Zenon DEF NewItem
<1>9. LocksHeld' /\ RowsLocked'
  BY <1>1, <1>2, <1>5, <1>7 DEF IInv, Held, LocksHeld, InTransaction, RowsLocked
<1>10. DeletedExpired'
  BY <1>1, <1>2, <1>4, <1>5, <1>7 DEF DeletedExpired, IInv, Held, RowsLocked
<1>11. Pending'
  BY <1>1, <1>2, <1>3, <1>4, <1>5, <1>6, <1>7, <1>8 DEF NothingVisible, IInv, Pending, Progress,
     InTransaction, InsertedNew, Stored, WrittenRow, StoredRow, InLedger
<1>12. Committed'
  <2>1. KeysUnique'
    BY <1>4, <1>5, Zenon DEF IInv, Committed, KeysUnique
  <2>2. RowsRecorded'
    BY <1>4, <1>5, <1>6 DEF RowsRecorded, IInv, Committed, InLedger
  <2>3. LedgerStored'
    <3>1. ASSUME NEW m \in ledger' PROVE Stored(m.itemID)' /\ m.at <= time
      <4>1. CASE m \in ledger
        BY <1>5, <4>1, Zenon DEF IInv, Committed, LedgerStored, Stored
      <4>2. CASE m \notin ledger
        <5>1. PICK e \in written[s] : m = Creation(e)
          BY <1>5, <4>2, Zenon
        <5>2. m.itemID = req[s].ID /\ m.at = e.expiresAt - Retention
          BY <1>4, <1>6, <5>1, Zenon
        <5>3. Stored(m.itemID)'
          BY <1>4, <1>8, <5>2, Zenon DEF Stored
        <5>4. m.at <= time
          BY <1>4, <5>2, PostgresAssumption DEF IInv, TypeOK
        <5>5. QED
          BY <5>3, <5>4, Zenon
      <4>3. QED
        BY <4>1, <4>2, Zenon
    <3>2. QED
      BY <1>1, <3>1, Zenon DEF IInv, Committed, LedgerStored
  <2>4. WindowGuarded'
    BY <1>1, <1>4, <1>5, <1>6, PostgresAssumption DEF WindowGuarded, IInv, Committed, TypeOK, Made,
       Entry, Held, DeletedExpired
  <2>5. AtMostOneItemPerWindow'
    <3>1. ASSUME NEW m \in ledger, NEW n \in ledger', n \notin ledger, m.key = n.key
          PROVE  m.at + Retention <= n.at
      <4>1. PICK e \in written[s] : n = Creation(e)
        BY <1>5, <3>1, Zenon
      <4>2. n.key = e.key /\ n.at = e.expiresAt - Retention
        BY <1>6, <4>1, Zenon
      <4>3. m.at + Retention + Retention <= e.expiresAt
        BY <1>4, <3>1, <4>2, Zenon
      <4>4. m.at \in Nat /\ e.expiresAt \in Nat /\ Retention \in Nat
        BY <1>4, PostgresAssumption, Zenon DEF IInv, TypeOK, Made
      <4>5. QED
        BY <4>2, <4>3, <4>4
    <3>2. ASSUME NEW m \in ledger', NEW n \in ledger', m \notin ledger, n \notin ledger
          PROVE  m = n
      BY <1>4, <1>5, <3>2, Zenon
    <3>3. QED
      BY <3>1, <3>2, Zenon DEF IInv, Committed, AtMostOneItemPerWindow
  <2>6. QED
    BY <2>1, <2>2, <2>3, <2>4, <2>5, Zenon DEF Committed
<1>13. Answered'
  <2>1. Answering'
    BY <1>1, <1>2, <1>4, <1>5, <1>6, <1>7, <1>12 DEF IInv, Answered, Answering, Pending,
       Progress, Committed, RowsRecorded, LedgerStored
  <2>2. CommittedInLedger' /\ AnswersOwnItem' /\ NoDanglingRow'
    BY <1>1, <1>2, <1>4, <1>5, <1>6, <1>7, <1>12 DEF IInv, Answered, CommittedInLedger, InLedger, AnswersOwnItem, NoDanglingRow, Stored, Pending, Progress,
       Committed, RowsRecorded, LedgerStored
  <2>3. QED
    BY <2>1, <2>2, Zenon DEF Answered
<1>14. QED
  BY <1>9, <1>10, <1>11, <1>12, <1>13, Zenon DEF IInv, Held

\* A rollback undoes everything its transaction did, and frees its locks.
LEMMA RollbackInv ==
  ASSUME IInv, TypeOK', NEW s \in Sessions, Rollback(s)
  PROVE  IInv'
<1>1. /\ pc'[s] = "done" /\ \A t \in Sessions \ {s} : pc'[t] = pc[t]
      /\ UNCHANGED <<time, items, keyRows, req, started, stored, answer, ledger>>
  BY Zenon DEF Rollback, IInv, TypeOK, Goto
<1>2. /\ advisory' = advisory \ {s} /\ inserted' = inserted \ {s}
      /\ rowLocks'[s] = {} /\ deleted'[s] = {} /\ written'[s] = {}
      /\ \A t \in Sessions \ {s} : /\ rowLocks'[t] = rowLocks[t] /\ deleted'[t] = deleted[t]
                                   /\ written'[t] = written[t]
  BY ReleaseFrees, Zenon DEF Rollback, IInv
<1>3. time' >= time /\ \A t \in Sessions : started'[t] <= time'
  BY <1>1 DEF IInv, TypeOK, Committed, LedgerStored
<1>4. Held'
  BY <1>1, <1>2 DEF IInv, Held, LocksHeld, InTransaction, RowsLocked, DeletedExpired
<1>5. Committed'
  BY <1>1, <1>3, CommittedFrame, Zenon
<1>6. Pending'
  BY <1>1, <1>2 DEF IInv, Pending, NothingVisible, Progress, InsertedNew, Stored, WrittenRow,
     StoredRow, InLedger
<1>7. Answered'
  <2>1. Answering'
    BY <1>1, <1>2 DEF IInv, Answered, Answering
  <2>2. CommittedInLedger' /\ AnswersOwnItem' /\ NoDanglingRow'
    BY <1>1, <1>2, Zenon DEF IInv, Answered, CommittedInLedger, InLedger, AnswersOwnItem,
       NoDanglingRow, Stored
  <2>3. QED
    BY <2>1, <2>2, Zenon DEF Answered
<1>8. QED
  BY <1>4, <1>5, <1>6, <1>7, Zenon DEF IInv

\* The invariant does not mind time passing.
LEMMA TickInv ==
  ASSUME IInv, TypeOK', time' >= time,
         UNCHANGED <<items, keyRows, pc, req, started, txVars, stored, answer, ledger>>
  PROVE  IInv'
<1>1. \A t \in Sessions : started'[t] <= time'
  BY DEF IInv, TypeOK, Committed, LedgerStored
<1>2. Held'
  BY HeldFrame, Zenon DEF InTransaction, txVars
<1>3. Committed'
  BY <1>1, CommittedFrame, Zenon
<1>4. Pending'
  <2>1. NothingVisible' /\ Progress' /\ InsertedNew'
    BY Zenon DEF IInv, Pending, NothingVisible, Progress, InsertedNew, Stored, txVars
  <2>2. StoredRow'
    BY Zenon DEF IInv, Pending, StoredRow, InLedger, txVars
  <2>3. WrittenRow'
    BY PostgresAssumption DEF IInv, Pending, WrittenRow, TypeOK, Entry, txVars
  <2>4. QED
    BY <2>1, <2>2, <2>3, Zenon DEF Pending
<1>5. Answered'
  BY Zenon DEF IInv, Answered, Answering, txVars, CommittedInLedger, InLedger, AnswersOwnItem,
     NoDanglingRow, Stored
<1>6. QED
  BY <1>2, <1>3, <1>4, <1>5, Zenon DEF IInv

\* The server aborts a waiter: a statement before COMMIT.
LEMMA DeadlockDetectedInv ==
  ASSUME IInv, TypeOK', NEW s \in Sessions, DeadlockDetected(s)
  PROVE  IInv'
<1>1. PICK u : WaitsFor(s, u)
  BY Zenon DEF DeadlockDetected, Deadlocked
<1>2. pc[s] \in {"lookup", "create", "insert"}
  BY <1>1, Zenon DEF WaitsFor
<1>3. QED
  BY <1>2, FailInv, Zenon DEF DeadlockDetected

\* Every step of the store keeps the invariant.
LEMMA NextInv == IInv /\ [Next]_vars => IInv'
<1> SUFFICES ASSUME IInv, [Next]_vars PROVE IInv'
  BY Zenon
<1>1. TypeOK'
  BY NextType, Zenon
<1>2. ASSUME NEW s \in Sessions, Statement(s) PROVE IInv'
  BY <1>1, <1>2, TryLockInv, CleanupInv, LookupMissInv, LookupHitInv, CreateItemInv,
     InsertKeyInv, CommitInv, ReplyInv, RollbackInv, Zenon DEF Statement
<1>3. ASSUME NEW s \in Sessions, StatementFails(s) PROVE IInv'
  BY <1>1, <1>3, FailInv, Zenon DEF StatementFails
<1>4. CASE Tick \/ UNCHANGED vars
  BY <1>1, <1>4, TickInv DEF Tick, vars, txVars, IInv, TypeOK
<1>5. QED
  BY <1>1, <1>2, <1>3, <1>4, CreateInv, BeginFailsInv, BeginInv, DeadlockDetectedInv,
     CommitReplyLostInv, Zenon DEF Next, Fault

\* The invariant holds in every reachable state of the database.
THEOREM InductiveInvariant == Spec => []IInv
BY InitInv, NextInv, PTL DEF Spec

\* Every reachable state is well typed.
THEOREM TypeCorrect == Spec => []TypeOK
<1>1. IInv => TypeOK
  BY Zenon DEF IInv
<1>2. QED
  BY <1>1, InductiveInvariant, PTL

\* CreateIdempotent never commits two Items under one key inside a retention
\* window, whatever statements fail, replies are lost or replicas die.
THEOREM OneItemPerWindow == Spec => []AtMostOneItemPerWindow
<1>1. IInv => AtMostOneItemPerWindow
  BY Zenon DEF IInv, Committed
<1>2. QED
  BY <1>1, InductiveInvariant, PTL

\* An Item is answered only to the request that made it or to a later one with
\* the same key and fingerprint.
THEOREM OwnItemAnswered == Spec => []AnswersOwnItem
<1>1. IInv => AnswersOwnItem
  BY Zenon DEF IInv, Answered
<1>2. QED
  BY <1>1, InductiveInvariant, PTL

\* No key row references a missing Item, and no caller is told that one does.
THEOREM NoDangling == Spec => []NoDanglingRow
<1>1. IInv => NoDanglingRow
  BY Zenon DEF IInv, Answered
<1>2. QED
  BY <1>1, InductiveInvariant, PTL

\* Past the advisory lock one transaction works on a key, even when the lock
\* ids of other keys collide with its own.
THEOREM KeySerialized == Spec => []OneTransactionPerKey
<1>1. IInv => OneTransactionPerKey
  BY Zenon DEF IInv, Held, LocksHeld, InTransaction, OneTransactionPerKey
<1>2. QED
  BY <1>1, InductiveInvariant, PTL

(***************************************************************************)
(* PostgresStore implements IdempotentCreate: every statement is a stutter *)
(* of the abstract store, except the ones that begin, commit and end a     *)
(* call.                                                                   *)
(***************************************************************************)
\* A session at a statement of its transaction has been called, not answered.
LEMMA CalledMapped ==
  ASSUME NEW s \in Sessions,
         pc[s] \in {"lock", "cleanup", "lookup", "create", "insert", "commit", "inDoubt", "rollback"}
  PROVE  Phase[s] = "called" /\ Returned[s] = NoAnswer
BY Zenon DEF Phase, Returned, Replayed

\* A session that has not begun, or is done, is where the caller sees it.
LEMMA EndsMapped ==
  ASSUME NEW s \in Sessions, pc[s] \in {"start", "done"}
  PROVE  /\ Phase[s] = pc[s]
         /\ Returned[s] = IF pc[s] = "done" THEN answer[s] ELSE NoAnswer
BY Zenon DEF Phase, Returned, Replayed

\* A committed create has been performed; a committed replay has returned.
LEMMA CommittedMapped ==
  ASSUME NEW s \in Sessions, pc[s] = "committed"
  PROVE  /\ stored[s] = {} => Phase[s] = "performed" /\ Returned[s] = NoAnswer
         /\ \A e \in stored[s] : (\A f \in stored[s] : f = e) =>
              /\ Phase[s] = "done"
              /\ Returned[s] = IF answer[s] # NoAnswer THEN answer[s]
                               ELSE [kind |-> "replayed", ID |-> e.itemID]
<1>1. CASE stored[s] = {}
  BY <1>1, Zenon DEF Phase, Returned, Replayed
<1>2. ASSUME NEW e \in stored[s], \A f \in stored[s] : f = e
      PROVE  /\ Phase[s] = "done"
             /\ Returned[s] = IF answer[s] # NoAnswer THEN answer[s]
                              ELSE [kind |-> "replayed", ID |-> e.itemID]
  <2>1. (CHOOSE f \in stored[s] : TRUE) \in stored[s]
    BY Zenon
  <2>2. (CHOOSE f \in stored[s] : TRUE) = e
    BY <1>2, <2>1, Zenon
  <2>3. Replayed(s) /\ stored[s] # {}
    BY Zenon DEF Replayed
  <2>4. QED
    BY <2>2, <2>3, Zenon DEF Phase, Returned
<1>3. QED
  BY <1>1, <1>2, Zenon

\* A step of one session is a step of its caller only.
LEMMA OthersMapped ==
  ASSUME NEW s \in Sessions,
         \A t \in Sessions \ {s} : /\ pc'[t] = pc[t] /\ answer'[t] = answer[t]
                                   /\ stored'[t] = stored[t]
  PROVE  /\ Phase' = [Phase EXCEPT ![s] = Phase'[s]]
         /\ Returned' = [Returned EXCEPT ![s] = Returned'[s]]
<1>1. \A t \in Sessions \ {s} : Replayed(t)' <=> Replayed(t)
  BY Zenon DEF Replayed
<1>2. \A t \in Sessions \ {s} : Phase'[t] = Phase[t]
  BY <1>1 DEF Phase
<1>3. \A t \in Sessions \ {s} : Returned'[t] = Returned[t]
  BY <1>1, Zenon DEF Returned
<1>4. /\ Phase = [t \in Sessions |-> Phase[t]] /\ Phase' = [t \in Sessions |-> Phase'[t]]
      /\ Returned = [t \in Sessions |-> Returned[t]]
      /\ Returned' = [t \in Sessions |-> Returned'[t]]
  BY DEF Phase, Returned
<1>5. QED
  BY <1>2, <1>3, <1>4, Zenon

\* The rows earlier requests left are the replay records to start with.
LEMMA RefineInit == Init => Abstract!Init
<1> SUFFICES ASSUME Init PROVE Abstract!Init
  BY Zenon
<1>1. \A m \in Past : m.at \in Nat
  BY PostgresAssumption, Zenon DEF Made
<1>2. Records = Past
  <2>1. ASSUME NEW e, NEW m \in Past,
               e = [key |-> m.key, fingerprint |-> m.fingerprint, itemID |-> m.itemID,
                    expiresAt |-> m.at + Retention]
        PROVE  Creation(e) = m
    <3>1. e.expiresAt - Retention = m.at
      <4>1. e.expiresAt = m.at + Retention
        BY <2>1, Zenon
      <4>2. QED
        BY <1>1, <4>1, PostgresAssumption
    <3>2. m \in Made
      BY PostgresAssumption, Zenon
    <3>3. QED
      BY <2>1, <3>1, <3>2, SMT DEF Creation, Made
  <2>2. \A e \in keyRows : \E m \in Past : Creation(e) = m
    BY <2>1, Zenon DEF Init
  <2>3. \A m \in Past : \E e \in keyRows : Creation(e) = m
    BY <2>1, Zenon DEF Init
  <2>4. QED
    BY <2>2, <2>3 DEF Records
<1>3. items = {[ID |-> r.itemID, content |-> r.fingerprint] : r \in Past}
  BY DEF Init
<1>4. Phase = [s \in Sessions |-> "start"]
  BY Zenon DEF Init, Phase, Replayed
<1>5. Returned = [s \in Sessions |-> Abstract!NoAnswer]
  BY Zenon DEF Init, Returned, Replayed, NoAnswer, Abstract!NoAnswer
<1>6. QED
  BY <1>2, <1>3, <1>4, <1>5, Zenon DEF Init, Abstract!Init, Request, Abstract!Request

\* The statements before COMMIT, and giving up on its reply, are not visible.
LEMMA RefineInside ==
  ASSUME IInv, NEW s \in Sessions,
         \/ TryLock(s) \/ Cleanup(s) \/ LookupMiss(s) \/ LookupHit(s) \/ CreateItem(s)
         \/ InsertKey(s) \/ StatementFails(s) \/ DeadlockDetected(s) \/ CommitReplyLost(s)
  PROVE  UNCHANGED Abstract!vars
<1> DEFINE Inside == {"lock", "cleanup", "lookup", "create", "insert", "commit", "inDoubt", "rollback"}
<1>1. pc[s] \in Inside
  <2>1. CASE DeadlockDetected(s)
    <3>1. PICK u : WaitsFor(s, u)
      BY <2>1, Zenon DEF DeadlockDetected, Deadlocked
    <3>2. QED
      BY <3>1, Zenon DEF WaitsFor
  <2>2. QED
    BY <2>1, Zenon DEF TryLock, Cleanup, LookupMiss, LookupHit, CreateItem, InsertKey,
       StatementFails, CommitReplyLost
<1>2. \E l \in Inside : Goto(s, l)
  BY Zenon DEF TryLock, Cleanup, LookupMiss, LookupHit, CreateItem, InsertKey, StatementFails,
     DeadlockDetected, CommitReplyLost, Fail
<1>3. UNCHANGED <<time, items, keyRows, req, started>>
  BY Zenon DEF TryLock, Cleanup, LookupMiss, LookupHit, CreateItem, InsertKey, StatementFails,
     DeadlockDetected, CommitReplyLost
<1>4. answer' = answer \/ \E a : answer' = [answer EXCEPT ![s] = a]
  BY Zenon DEF TryLock, Cleanup, LookupMiss, LookupHit, CreateItem, InsertKey, StatementFails,
     DeadlockDetected, CommitReplyLost, Fail, Answer
<1>5. stored' = stored \/ \E r : stored' = [stored EXCEPT ![s] = r]
  BY Zenon DEF TryLock, Cleanup, LookupMiss, LookupHit, CreateItem, InsertKey, StatementFails,
     DeadlockDetected, CommitReplyLost
<1>6. /\ pc'[s] \in Inside
      /\ \A t \in Sessions \ {s} : /\ pc'[t] = pc[t] /\ answer'[t] = answer[t]
                                   /\ stored'[t] = stored[t]
  BY <1>2, <1>4, <1>5, Zenon DEF IInv, TypeOK, Goto
<1>7. Phase[s] = "called" /\ Returned[s] = NoAnswer
  BY <1>1, CalledMapped, Zenon
<1>8. Phase'[s] = "called" /\ Returned'[s] = NoAnswer
  BY <1>6, Zenon DEF Phase, Returned, Replayed, NoAnswer
<1>9. Phase' = Phase /\ Returned' = Returned
  <2>1. /\ Phase' = [Phase EXCEPT ![s] = Phase'[s]]
        /\ Returned' = [Returned EXCEPT ![s] = Returned'[s]]
    BY <1>6, OthersMapped, Zenon
  <2>2. Phase = [t \in Sessions |-> Phase[t]] /\ Returned = [t \in Sessions |-> Returned[t]]
    BY DEF Phase, Returned
  <2>3. QED
    BY <1>7, <1>8, <2>1, <2>2, Zenon
<1>10. QED
  BY <1>3, <1>9, Zenon DEF Abstract!vars, Records, Creation

\* A call begins, fails to begin, or creates an Item without a key.
LEMMA RefineBegin ==
  ASSUME IInv, NEW s \in Sessions, Begin(s) \/ BeginFails(s) \/ Create(s)
  PROVE  Abstract!Next
<1>1. /\ pc[s] = "start" /\ UNCHANGED <<time, keyRows, req, stored>>
      /\ \A t \in Sessions \ {s} : pc'[t] = pc[t] /\ answer'[t] = answer[t]
  BY Zenon DEF Begin, BeginFails, Create, IInv, TypeOK, Goto, Answer
<1>2. /\ Phase' = [Phase EXCEPT ![s] = Phase'[s]]
      /\ Returned' = [Returned EXCEPT ![s] = Returned'[s]]
  BY <1>1, OthersMapped, Zenon
<1>3. Phase[s] = "start" /\ Returned[s] = NoAnswer
  BY <1>1, EndsMapped, Zenon
<1>4. Records' = Records /\ Records = Records \ {}
  BY <1>1, Zenon DEF Records, Creation
<1>5. CASE Begin(s)
  <2>1. pc'[s] = "lock"
    BY <1>5, Zenon DEF Begin, IInv, TypeOK, Goto
  <2>2. Phase'[s] = "called" /\ Returned'[s] = NoAnswer
    BY <2>1, Zenon DEF Phase, Returned, Replayed, NoAnswer
  <2>3. Returned' = Returned
    <3>1. Returned = [t \in Sessions |-> Returned[t]]
      BY Zenon DEF Returned
    <3>2. QED
      BY <1>2, <1>3, <2>2, <3>1, Zenon
  <2>4. Abstract!Invoke(s)
    BY <1>1, <1>2, <1>3, <1>4, <1>5, <2>2, <2>3, Zenon DEF Begin, Abstract!Invoke
  <2>5. QED
    BY <2>4, Zenon DEF Abstract!Next
<1>6. CASE BeginFails(s) \/ Create(s)
  <2>1. pc'[s] = "done" /\ started' = started
    BY <1>6, Zenon DEF BeginFails, Create, IInv, TypeOK, Goto
  <2>2. Phase'[s] = "done" /\ Returned'[s] = answer'[s]
    BY <2>1, Zenon DEF Phase, Returned, Replayed
  <2>3. Abstract!Reply(s, answer'[s])
    <3>1. \E S \in SUBSET Abstract!Outdated : Records' = Records \ S
      BY <1>4, Zenon
    <3>2. QED
      BY <1>1, <1>2, <2>1, <2>2, <3>1, Zenon DEF Abstract!Reply
  <2>4. CASE items' = items /\ answer'[s] \in {Error("unavailable"), Error("idConflict")}
    <3>1. Abstract!ReplyError(s)
      BY <1>3, <2>3, <2>4, Zenon DEF Abstract!ReplyError, Abstract!Errors, Abstract!Error, Error
    <3>2. QED
      BY <3>1, Zenon DEF Abstract!Next
  <2>5. CASE /\ ~Stored(req[s].ID) /\ items' = items \cup {NewItem(s)}
             /\ answer'[s] \in {[kind |-> "stored", ID |-> req[s].ID], Error("unavailable")}
    <3>1. Abstract!CreatePlain(s)
      BY <1>3, <2>3, <2>5, Zenon DEF Abstract!CreatePlain, Abstract!Stored, Stored,
         Abstract!NewItem, NewItem, Abstract!Error, Error
    <3>2. QED
      BY <3>1, Zenon DEF Abstract!Next
  <2>6. QED
    BY <1>6, <2>4, <2>5, Zenon DEF BeginFails, Create, Answer, IInv, TypeOK
<1>7. QED
  BY <1>5, <1>6, Zenon

\* What replacing the deleted rows by the written one does to the records.
LEMMA CommitRecords ==
  ASSUME IInv, NEW s \in Sessions, Commit(s)
  PROVE  \E S \in SUBSET Abstract!Outdated :
           /\ \A r \in Records : r \in S <=> r.key \in deleted[s]
           /\ Records' = (Records \ S) \cup {Creation(e) : e \in written[s]}
<1> DEFINE S == {r \in Records : r.key \in deleted[s]}
<1>1. \A e : Creation(e).key = e.key /\ Creation(e).at = e.expiresAt - Retention
  BY Zenon DEF Creation
<1>2. S \in SUBSET Abstract!Outdated
  <2> SUFFICES ASSUME NEW r \in S PROVE r.at + Retention <= time
    BY Zenon DEF Abstract!Outdated
  <2>1. PICK e \in keyRows : r = Creation(e)
    BY Zenon DEF Records
  <2>2. e.key \in deleted[s] /\ r.at = e.expiresAt - Retention
    BY <1>1, <2>1, Zenon
  <2>3. e.expiresAt <= time /\ e.expiresAt \in Nat /\ Retention \in Nat /\ time \in Nat
    BY <2>2, PostgresAssumption, Zenon DEF IInv, Held, DeletedExpired, TypeOK, Entry
  <2>4. QED
    BY <2>2, <2>3
<1>3. Records' = {Creation(e) : e \in keyRows'}
  BY Zenon DEF Records, Creation
<1>4. keyRows' = {e \in keyRows : e.key \notin deleted[s]} \cup written[s]
  BY Zenon DEF Commit
<1>5. Records' = (Records \ S) \cup {Creation(e) : e \in written[s]}
  <2> HIDE DEF S
  <2>1. \A e \in keyRows : Creation(e) \in S <=> e.key \in deleted[s]
    BY <1>1, Zenon DEF S, Records
  <2>2. \A r \in Records' : r \in (Records \ S) \cup {Creation(e) : e \in written[s]}
    BY <1>3, <1>4, <2>1, Zenon DEF Records
  <2>3. \A r \in Records \ S : r \in Records'
    BY <1>3, <1>4, <2>1, Zenon DEF Records
  <2>4. \A e \in written[s] : Creation(e) \in Records'
    BY <1>3, <1>4, Zenon
  <2>5. QED
    BY <2>2, <2>3, <2>4, Zenon
<1>6. QED
  BY <1>2, <1>5, Zenon

\* COMMIT performs the create or returns the replay, and drops what cleanup
\* deleted; the reply that arrives late is no longer visible then.
LEMMA RefineCommit ==
  ASSUME IInv, NEW s \in Sessions, Commit(s)
  PROVE  Abstract!Next
<1>1. /\ pc[s] \in {"commit", "inDoubt"} /\ pc'[s] = "committed"
      /\ \A t \in Sessions \ {s} : pc'[t] = pc[t]
      /\ UNCHANGED <<time, req, started, stored, answer>>
      /\ items' = IF s \in inserted THEN items \cup {NewItem(s)} ELSE items
  BY Zenon DEF Commit, IInv, TypeOK, Goto
<1>2. /\ Phase' = [Phase EXCEPT ![s] = Phase'[s]]
      /\ Returned' = [Returned EXCEPT ![s] = Returned'[s]]
  BY <1>1, OthersMapped, Zenon
<1>3. Phase[s] = "called" /\ Returned[s] = NoAnswer
  BY <1>1, CalledMapped, Zenon
<1>4. PICK S \in SUBSET Abstract!Outdated :
        /\ \A r \in Records : r \in S <=> r.key \in deleted[s]
        /\ Records' = (Records \ S) \cup {Creation(e) : e \in written[s]}
  BY CommitRecords, Zenon
<1>5. CASE stored[s] = {}
  <2>1. s \in inserted /\ written[s] # {} /\ ~Stored(req[s].ID)
    BY <1>1, <1>5, Zenon DEF IInv, Pending, Progress, InsertedNew
  <2>2. PICK e \in written[s] : written[s] = {e}
    BY <2>1 DEF IInv, Pending, WrittenRow
  <2>3. /\ e.key = req[s].key /\ e.fingerprint = req[s].fingerprint /\ e.itemID = req[s].ID
        /\ started[s] + Retention <= e.expiresAt /\ e.expiresAt <= time + Retention
    BY Zenon DEF IInv, Pending, WrittenRow
  <2>4. e.expiresAt - Retention \in started[s] .. time
    BY <2>3, PostgresAssumption DEF IInv, TypeOK, Entry
  <2>5. Creation(e) = [key |-> req[s].key, fingerprint |-> req[s].fingerprint,
                                  itemID |-> req[s].ID, at |-> e.expiresAt - Retention]
    BY <2>3, Zenon DEF Creation
  <2>6. Abstract!RecordFor(req[s].key) \subseteq S
    <3> SUFFICES ASSUME NEW r \in Records, r.key = req[s].key PROVE r.key \in deleted[s]
      BY <1>4, Zenon DEF Abstract!RecordFor
    <3>1. PICK f \in keyRows : r = Creation(f)
      BY Zenon DEF Records
    <3>2. f.key = req[s].key
      BY <3>1, Zenon DEF Creation
    <3>3. QED
      BY <2>1, <3>2, Zenon DEF IInv, Pending, NothingVisible
  <2>7. Phase'[s] = "performed" /\ Returned'[s] = NoAnswer
    BY <1>1, <1>5, Zenon DEF Phase, Returned, Replayed, NoAnswer
  <2>8. Returned' = Returned
    <3>1. Returned = [t \in Sessions |-> Returned[t]]
      BY Zenon DEF Returned
    <3>2. QED
      BY <1>2, <1>3, <2>7, <3>1, Zenon
  <2>9. Records' = (Records \ S) \cup
          {[key |-> req[s].key, fingerprint |-> req[s].fingerprint,
            itemID |-> req[s].ID, at |-> e.expiresAt - Retention]}
    BY <1>4, <2>2, <2>5, Zenon
  <2>10. Abstract!Perform(s)
    BY <1>1, <1>2, <1>3, <2>1, <2>4, <2>6, <2>7, <2>8, <2>9, Zenon
       DEF Abstract!Perform, Abstract!Stored, Stored, Abstract!NewItem, NewItem
  <2>11. QED
    BY <2>10, Zenon DEF Abstract!Next
<1>6. CASE stored[s] # {}
  <2>1. s \notin inserted /\ written[s] = {}
    BY <1>1, <1>6, Zenon DEF IInv, Pending, Progress
  <2>2. PICK e \in stored[s] : \A f \in stored[s] : f = e
    BY <1>6, Zenon DEF IInv, Pending, StoredRow
  <2>3. e \in keyRows /\ e.key = req[s].key /\ e.fingerprint = req[s].fingerprint
    BY <1>1, Zenon DEF IInv, Pending, StoredRow
  <2>4. /\ Phase'[s] = "done"
        /\ Returned'[s] = IF answer[s] # NoAnswer THEN answer[s]
                          ELSE [kind |-> "replayed", ID |-> e.itemID]
    <3>1. (CHOOSE f \in stored[s] : TRUE) \in stored[s]
      BY <1>6, Zenon
    <3>2. (CHOOSE f \in stored[s] : TRUE) = e
      BY <2>2, <3>1, Zenon
    <3>3. Replayed(s)'
      BY <1>1, <1>6, Zenon DEF Replayed
    <3>4. QED
      BY <1>1, <3>2, <3>3, Zenon DEF Phase, Returned, NoAnswer
  <2>5. Abstract!Reply(s, Returned'[s])
    <3>1. Records' = Records \ S
      BY <1>4, <2>1, Zenon
    <3>2. QED
      BY <1>1, <1>2, <2>4, <3>1, Zenon DEF Abstract!Reply
  <2>6. items' = items
    BY <1>1, <2>1, Zenon
  <2>7. CASE answer[s] = NoAnswer
    <3>1. Creation(e) \in Abstract!RecordFor(req[s].key)
      BY <2>3, Zenon DEF Abstract!RecordFor, Records, Creation
    <3>2. /\ Creation(e).fingerprint = req[s].fingerprint
          /\ Creation(e).itemID = e.itemID
      BY <2>3, Zenon DEF Creation
    <3>3. Returned'[s] = [kind |-> "replayed", ID |-> e.itemID]
      BY <2>4, <2>7, Zenon
    <3>4. Abstract!ReplyReplayed(s)
      BY <1>3, <2>5, <2>6, <3>1, <3>2, <3>3, Zenon DEF Abstract!ReplyReplayed
    <3>5. QED
      BY <3>4, Zenon DEF Abstract!Next
  <2>8. CASE answer[s] # NoAnswer
    <3>1. Returned'[s] = Error("unavailable")
      BY <1>1, <2>4, <2>8, Zenon DEF IInv, Answered, Answering
    <3>2. Abstract!ReplyError(s)
      BY <1>3, <2>5, <2>6, <3>1, Zenon DEF Abstract!ReplyError, Abstract!Errors, Abstract!Error, Error
    <3>3. QED
      BY <3>2, Zenon DEF Abstract!Next
  <2>9. QED
    BY <2>7, <2>8, Zenon
<1>7. QED
  BY <1>5, <1>6, Zenon

\* The reply to COMMIT returns what was created; a replay has returned already.
LEMMA RefineReply ==
  ASSUME IInv, NEW s \in Sessions, Reply(s)
  PROVE  Abstract!Next \/ UNCHANGED Abstract!vars
<1>1. /\ pc[s] = "committed" /\ pc'[s] = "done"
      /\ UNCHANGED <<time, items, keyRows, req, started, stored>>
      /\ \A t \in Sessions \ {s} : pc'[t] = pc[t] /\ answer'[t] = answer[t]
  BY Zenon DEF Reply, Answer, IInv, TypeOK, Goto
<1>2. /\ Phase' = [Phase EXCEPT ![s] = Phase'[s]]
      /\ Returned' = [Returned EXCEPT ![s] = Returned'[s]]
  BY <1>1, OthersMapped, Zenon
<1>3. Phase'[s] = "done" /\ Returned'[s] = answer'[s]
  BY <1>1, Zenon DEF Phase, Returned, Replayed
<1>4. Records' = Records /\ Records = Records \ {}
  BY <1>1, Zenon DEF Records, Creation
<1>5. CASE stored[s] = {}
  <2>1. Phase[s] = "performed"
    BY <1>1, <1>5, CommittedMapped, Zenon
  <2>2. Abstract!Reply(s, answer'[s])
    <3>1. \E S \in SUBSET Abstract!Outdated : Records' = Records \ S
      BY <1>4, Zenon
    <3>2. QED
      BY <1>1, <1>2, <1>3, <3>1, Zenon DEF Abstract!Reply
  <2>3. CASE answer[s] = NoAnswer
    <3>1. answer'[s] = [kind |-> "created", ID |-> req[s].ID]
      BY <1>5, <2>3, Zenon DEF Reply, Answer, IInv, TypeOK
    <3>2. Abstract!ReplyCreated(s)
      BY <1>1, <2>1, <2>2, <3>1, Zenon DEF Abstract!ReplyCreated
    <3>3. QED
      BY <3>2, Zenon DEF Abstract!Next
  <2>4. CASE answer[s] # NoAnswer
    <3>1. answer'[s] = Error("unavailable")
      BY <1>1, <2>4, Zenon DEF Reply, IInv, Answered, Answering
    <3>2. Abstract!ReplyError(s)
      BY <1>1, <2>1, <2>2, <3>1, Zenon DEF Abstract!ReplyError, Abstract!Errors, Abstract!Error, Error
    <3>3. QED
      BY <3>2, Zenon DEF Abstract!Next
  <2>5. QED
    BY <2>3, <2>4, Zenon
<1>6. CASE stored[s] # {}
  <2>1. PICK e \in stored[s] : \A f \in stored[s] : f = e
    BY <1>6, Zenon DEF IInv, Pending, StoredRow
  <2>2. /\ Phase[s] = "done"
        /\ Returned[s] = IF answer[s] # NoAnswer THEN answer[s]
                         ELSE [kind |-> "replayed", ID |-> e.itemID]
    BY <1>1, <2>1, CommittedMapped, Zenon
  <2>3. answer'[s] = IF answer[s] # NoAnswer THEN answer[s]
                     ELSE [kind |-> "replayed", ID |-> e.itemID]
    BY <1>6, <2>1, Zenon DEF Reply, Answer, IInv, TypeOK
  <2>4. Phase = [t \in Sessions |-> Phase[t]] /\ Returned = [t \in Sessions |-> Returned[t]]
    BY DEF Phase, Returned
  <2>5. Phase' = Phase /\ Returned' = Returned
    BY <1>2, <1>3, <2>2, <2>3, <2>4, Zenon
  <2>6. QED
    BY <1>1, <1>4, <2>5, Zenon DEF Abstract!vars
<1>7. QED
  BY <1>5, <1>6, Zenon

\* A session that ends without committing has failed without effect, or was
\* refused by a row that is still there.
LEMMA RefineRollback ==
  ASSUME IInv, NEW s \in Sessions, Rollback(s)
  PROVE  Abstract!Next
<1>1. /\ pc[s] \in {"rollback", "inDoubt"} /\ pc'[s] = "done"
      /\ UNCHANGED <<time, items, keyRows, req, started, stored, answer>>
      /\ \A t \in Sessions \ {s} : pc'[t] = pc[t]
  BY Zenon DEF Rollback, IInv, TypeOK, Goto
<1>2. /\ Phase' = [Phase EXCEPT ![s] = Phase'[s]]
      /\ Returned' = [Returned EXCEPT ![s] = Returned'[s]]
  BY <1>1, OthersMapped, Zenon
<1>3. Phase[s] = "called" /\ Phase'[s] = "done" /\ Returned'[s] = answer[s]
  <2>1. Phase'[s] = "done" /\ Returned'[s] = answer[s]
    BY <1>1, Zenon DEF Phase, Returned, Replayed
  <2>2. QED
    BY <1>1, <2>1, CalledMapped, Zenon
<1>4. Records' = Records /\ Records = Records \ {}
  BY <1>1, Zenon DEF Records, Creation
<1>5. Abstract!Reply(s, answer[s])
  <2>1. \E S \in SUBSET Abstract!Outdated : Records' = Records \ S
    BY <1>4, Zenon
  <2>2. QED
    BY <1>1, <1>2, <1>3, <2>1, Zenon DEF Abstract!Reply
<1>6. CASE answer[s] \in {Error("inProgress"), Error("unavailable"), Error("idConflict")}
  <2>1. Abstract!ReplyError(s)
    BY <1>1, <1>3, <1>5, <1>6, Zenon DEF Abstract!ReplyError, Abstract!Errors, Abstract!Error, Error
  <2>2. QED
    BY <2>1, Zenon DEF Abstract!Next
<1>7. CASE /\ answer[s] = Error("conflict")
           /\ \E e \in keyRows : e.key = req[s].key /\ e.fingerprint # req[s].fingerprint
  <2>1. PICK e \in keyRows : e.key = req[s].key /\ e.fingerprint # req[s].fingerprint
    BY <1>7, Zenon
  <2>2. Creation(e) \in Abstract!RecordFor(req[s].key)
    BY <2>1, Zenon DEF Abstract!RecordFor, Records, Creation
  <2>3. Creation(e).fingerprint # req[s].fingerprint
    BY <2>1, Zenon DEF Creation
  <2>4. Abstract!ReplyConflict(s)
    BY <1>1, <1>3, <1>5, <1>7, <2>2, <2>3, Zenon DEF Abstract!ReplyConflict, Abstract!Error, Error
  <2>5. QED
    BY <2>4, Zenon DEF Abstract!Next
<1>8. QED
  BY <1>1, <1>6, <1>7, Zenon DEF IInv, Answered, Answering

\* CreateIdempotent over PostgreSQL behaves as one atomic insert of an Item and
\* its replay record, for any number of replicas.
THEOREM Refinement == Spec => ImplementsIdempotentCreate
<1>1. IInv /\ [Next]_vars => [Abstract!Next]_(Abstract!vars)
  <2> SUFFICES ASSUME IInv, [Next]_vars PROVE Abstract!Next \/ UNCHANGED Abstract!vars
    BY Zenon
  <2>1. ASSUME NEW s \in Sessions, Statement(s) PROVE Abstract!Next \/ UNCHANGED Abstract!vars
    BY <2>1, RefineInside, RefineCommit, RefineReply, RefineRollback, Zenon DEF Statement
  <2>2. CASE Tick
    <3>1. /\ time' = time + 1
          /\ UNCHANGED <<items, keyRows, pc, req, started, stored, answer>>
      BY <2>2, Zenon DEF Tick
    <3>2. Records' = Records /\ Phase' = Phase /\ Returned' = Returned
      BY <3>1, Zenon DEF Records, Creation, Phase, Returned, Replayed, NoAnswer
    <3>3. Abstract!Tick
      BY <3>1, <3>2, Zenon DEF Abstract!Tick
    <3>4. QED
      BY <3>3, Zenon DEF Abstract!Next
  <2>3. CASE UNCHANGED vars
    BY <2>3, Zenon DEF vars, Abstract!vars, Records, Creation, Phase, Returned, Replayed, NoAnswer
  <2>4. QED
    BY <2>1, <2>2, <2>3, RefineBegin, RefineInside, Zenon DEF Next, Fault
<1>2. QED
  BY <1>1, RefineInit, InductiveInvariant, PTL DEF Spec, ImplementsIdempotentCreate, Abstract!Spec
=============================================================================
