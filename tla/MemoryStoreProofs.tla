-------------------------- MODULE MemoryStoreProofs --------------------------
(***************************************************************************)
(* Proofs about MemoryStore, for every number of requests, keys, Items and *)
(* entries, and every retention window.                                    *)
(***************************************************************************)
EXTENDS MemoryStore, FiniteSetTheorems, TLAPS

\* A leaf that names no prover is one for the SMT solver.
USE SMTT(30)

\* A goroutine owns its key from its reservation until the marker goes.
Owns(g) == pc[g] \in {"create", "clear", "record"}

\* idempotencyMu is held exactly by the goroutine in the first section.
MutexHeld == \A g \in Goroutines : pc[g] = "locked" <=> idempotencyMu = g

\* Each owned key is marked, and has one owner.
OneOwner ==
  /\ \A g \in Goroutines : Owns(g) => req[g].key \in inflight
  /\ \A g, h \in Goroutines : Owns(g) /\ Owns(h) /\ req[g].key = req[h].key => g = h

\* A key is marked or recorded, never both.
MarkedOrRecorded == \A e \in idempotency : e.key \notin inflight

\* No clock reading is ahead of the clock, and no Item of the ledger is.
ClocksBehind ==
  /\ \A g \in Goroutines : now[g] <= time
  /\ \A m \in ledger : m.at <= time

\* The ledger lists stored Items, one line each.
LedgerStored ==
  /\ \A m \in ledger : Stored(m.itemID)
  /\ \A m, n \in ledger : m.itemID = n.itemID => m = n

\* A goroutine past its insert has its Item in the ledger.
InsertedInLedger ==
  \A g \in Goroutines : pc[g] \in {"record", "recorded"} =>
    \E m \in ledger : /\ m.itemID = req[g].ID
                      /\ m.key = req[g].key
                      /\ m.fingerprint = req[g].fingerprint

\* An entry replays an Item of the ledger made under its key and fingerprint.
EntriesInLedger ==
  \A e \in idempotency :
    \E m \in ledger : /\ m.itemID = e.itemID
                      /\ m.key = e.key
                      /\ m.fingerprint = e.fingerprint

\* Until an Item's window is over, its key is owned by the goroutine about to
\* record it, or an entry guards the key at least that long.
WindowGuarded ==
  \A m \in ledger :
    \/ m.at + Retention <= time
    \/ \E g \in Goroutines : pc[g] = "record" /\ req[g].key = m.key
    \/ \E e \in idempotency : e.key = m.key /\ m.at + Retention <= e.expiresAt

\* The inductive invariant.
IInv ==
  /\ TypeOK
  /\ MutexHeld
  /\ OneOwner
  /\ MarkedOrRecorded
  /\ ClocksBehind
  /\ LedgerStored
  /\ InsertedInLedger
  /\ EntriesInLedger
  /\ WindowGuarded
  /\ AtMostOneItemPerWindow
  /\ AnswersOwnItem
  /\ NoDanglingEntry

-----------------------------------------------------------------------------
(***************************************************************************)
(* Type correctness.                                                       *)
(***************************************************************************)
\* Before the first request every variable of Store has its type.
LEMMA InitType == Init => TypeOK
BY StoreAssumption DEF Init, TypeOK, Answer, Kinds, NoAnswer

\* No step of CreateIdempotent leaves the types.
LEMMA StepType ==
  ASSUME TypeOK, NEW g \in Goroutines, Step(g)
  PROVE  TypeOK'
<1>1. req[g] \in Request /\ time + Retention \in Nat
  BY StoreAssumption DEF TypeOK
<1>2. CASE Lock(g)
  BY <1>2, Zenon DEF Lock, Goto, TypeOK
<1>3. CASE Conflict(g)
  BY <1>3, Zenon DEF Conflict, Return, Goto, TypeOK, Answer, Kinds, Error
<1>4. CASE Replay(g)
  BY <1>4 DEF Replay, EntryFor, TypeOK, Entry, Answer, Kinds, Error, Return, Goto
<1>5. CASE InProgress(g)
  BY <1>5, Zenon DEF InProgress, Return, Goto, TypeOK, Answer, Kinds, Error
<1>6. CASE Full(g)
  BY <1>6, Zenon DEF Full, Return, Goto, TypeOK, Answer, Kinds, Error
<1>7. CASE Reserve(g)
  BY <1>1, <1>7, Zenon DEF Reserve, Goto, TypeOK, Request
<1>8. CASE Insert(g)
  BY <1>1, <1>8 DEF Insert, Goto, TypeOK, Request, Item, Made
<1>9. CASE InsertFails(g)
  BY <1>9, Zenon DEF InsertFails, Goto, TypeOK, Answer, Kinds, Error
<1>10. CASE ClearInFlight(g)
  BY <1>10, Zenon DEF ClearInFlight, Return, Goto, TypeOK
<1>11. CASE Record(g)
  BY <1>1, <1>11 DEF Record, Goto, TypeOK, Request, Entry, NewEntries, Expiry, EntryFor
<1>12. CASE Reply(g)
  BY <1>1, <1>12, Zenon DEF Reply, Return, Goto, TypeOK, Answer, Kinds, Error, Request
<1>13. QED
  BY <1>2, <1>3, <1>4, <1>5, <1>6, <1>7, <1>8, <1>9, <1>10, <1>11, <1>12, Zenon DEF Step, Section

\* Nor does any other step: plain creates, cancellations, the clock.
LEMMA NextType == TypeOK /\ [Next]_vars => TypeOK'
<1> SUFFICES ASSUME TypeOK, [Next]_vars PROVE TypeOK'
  BY Zenon
<1>1. ASSUME NEW g \in Goroutines, Create(g) PROVE TypeOK'
  BY <1>1 DEF TypeOK, Create, Return, Goto, Answer, Kinds, Error, Request, Item
<1>2. ASSUME NEW g \in Goroutines, Reject(g) PROVE TypeOK'
  BY <1>2, Zenon DEF Reject, Return, Goto, TypeOK, Answer, Kinds, Error
<1>3. ASSUME NEW g \in Goroutines, Enter(g) PROVE TypeOK'
  BY <1>3, Zenon DEF Enter, Goto, TypeOK
<1>4. ASSUME NEW g \in Goroutines, Cancel(g) PROVE TypeOK'
  BY <1>4, Zenon DEF Cancel, TypeOK
<1>5. CASE Tick
  BY <1>5 DEF Tick, TypeOK
<1>6. CASE UNCHANGED vars
  BY <1>6, Zenon DEF vars, TypeOK
<1>7. QED
  BY <1>1, <1>2, <1>3, <1>4, <1>5, <1>6, StepType, Zenon DEF Next

\* Every reachable state of the store is well typed.
THEOREM TypeCorrect == Spec => []TypeOK
BY InitType, NextType, PTL DEF Spec

-----------------------------------------------------------------------------
(***************************************************************************)
(* The inductive invariant.  Only a few actions disturb more than one or   *)
(* two of its conjuncts: Lock drops entries, Reserve marks a key, Insert   *)
(* extends the ledger, Record turns a marker into an entry.                *)
(***************************************************************************)
\* An empty store satisfies the invariant.
LEMMA InitInv == Init => IInv
<1> SUFFICES ASSUME Init PROVE IInv
  BY Zenon
<1>1. TypeOK
  BY InitType, Zenon
<1>2. MutexHeld /\ OneOwner
  BY StoreAssumption, Zenon DEF Init, MutexHeld, OneOwner, Owns
<1>3. AnswersOwnItem /\ NoDanglingEntry
  BY Zenon DEF Init, AnswersOwnItem, NoDanglingEntry, NoAnswer
<1>4. QED
  BY <1>1, <1>2, <1>3 DEF Init, IInv, MarkedOrRecorded, ClocksBehind, LedgerStored,
     InsertedInLedger, EntriesInLedger, WindowGuarded, AtMostOneItemPerWindow

\* An action that leaves the shared maps and the ledger alone, moves one
\* goroutine and answers at most an error.
LEMMA LocalStep ==
  ASSUME IInv, TypeOK', NEW g \in Goroutines, NEW l,
         UNCHANGED <<items, idempotency, inflight, req, ledger>>,
         time' >= time,
         \A h \in Goroutines : now'[h] <= time',
         Goto(g, l), l \notin {"create", "clear", "record", "recorded"},
         ~Owns(g),
         MutexHeld',
         AnswersOwnItem', NoDanglingEntry'
  PROVE  IInv'
<1> USE DEF IInv
<1>1. \A h \in Goroutines : Owns(h)' => Owns(h)
  BY Zenon DEF Owns, Goto, TypeOK
<1>2. OneOwner'
  BY <1>1, Zenon DEF OneOwner
<1>3. MarkedOrRecorded' /\ LedgerStored' /\ EntriesInLedger' /\ AtMostOneItemPerWindow'
  BY Zenon DEF MarkedOrRecorded, LedgerStored, EntriesInLedger, AtMostOneItemPerWindow, Stored
<1>4. ClocksBehind'
  BY DEF ClocksBehind, TypeOK, Made
<1>5. InsertedInLedger'
  BY Zenon DEF InsertedInLedger, Goto, TypeOK
<1>6. WindowGuarded'
  BY StoreAssumption DEF Owns, Goto, TypeOK, Made, WindowGuarded
<1>7. QED
  BY <1>2, <1>3, <1>4, <1>5, <1>6, Zenon

\* What the returns of the first section and the last return have in common.
LEMMA ErrorReturn ==
  ASSUME IInv, TypeOK', NEW g \in Goroutines, NEW kind,
         kind \notin {"created", "replayed", "state"},
         Return(g, Error(kind)),
         UNCHANGED <<time, items, idempotency, inflight, req, now, ledger>>,
         ~Owns(g), MutexHeld'
  PROVE  IInv'
<1>1. AnswersOwnItem' /\ NoDanglingEntry'
  BY Zenon DEF IInv, TypeOK, Return, Error, AnswersOwnItem, NoDanglingEntry
<1>2. /\ time' >= time
      /\ \A h \in Goroutines : now'[h] <= time'
  BY DEF IInv, TypeOK, ClocksBehind
<1>3. QED
  BY <1>1, <1>2, LocalStep, Zenon DEF Return

\* The error returns of the first section only unlock and answer.
LEMMA SectionReturnInv ==
  ASSUME IInv, TypeOK', NEW g \in Goroutines,
         Conflict(g) \/ InProgress(g) \/ Full(g)
  PROVE  IInv'
<1>1. ~Owns(g)
  BY Zenon DEF Owns, Conflict, InProgress, Full
<1>2. MutexHeld'
  BY StoreAssumption, Zenon DEF IInv, TypeOK, MutexHeld, Conflict, InProgress, Full, Return, Goto
<1>3. QED
  BY <1>1, <1>2, ErrorReturn, Zenon DEF Conflict, InProgress, Full

\* A replay answers the Item its entry names, which the ledger has.
LEMMA ReplayInv ==
  ASSUME IInv, TypeOK', NEW g \in Goroutines, Replay(g)
  PROVE  IInv'
<1>1. ~Owns(g)
  BY Zenon DEF Owns, Replay
<1>2. MutexHeld'
  BY StoreAssumption DEF IInv, TypeOK, MutexHeld, Replay, Return, Goto
<1>3. PICK e \in idempotency :
        /\ e.key = req[g].key
        /\ e.fingerprint = req[g].fingerprint
        /\ Return(g, IF ctxDone[g] THEN Error("canceled")
                     ELSE IF Stored(e.itemID) THEN [kind |-> "replayed", ID |-> e.itemID]
                     ELSE Error("state"))
  BY Zenon DEF Replay, EntryFor
<1>4. PICK m \in ledger : /\ m.itemID = e.itemID
                          /\ m.key = req[g].key
                          /\ m.fingerprint = req[g].fingerprint
  BY <1>3 DEF IInv, EntriesInLedger
<1>5. Stored(e.itemID)
  BY <1>4, Zenon DEF IInv, LedgerStored
<1>6. CASE ctxDone[g]
  BY <1>1, <1>2, <1>3, <1>6, ErrorReturn, Zenon DEF Replay
<1>7. CASE ~ctxDone[g]
  <2>1. Return(g, [kind |-> "replayed", ID |-> e.itemID])
    BY <1>3, <1>5, <1>7, Zenon
  <2>2. AnswersOwnItem' /\ NoDanglingEntry'
    BY <1>4, <2>1 DEF IInv, TypeOK, Return, AnswersOwnItem, NoDanglingEntry, Replay
  <2>3. /\ time' >= time
        /\ \A h \in Goroutines : now'[h] <= time'
    BY DEF IInv, TypeOK, ClocksBehind, Replay
  <2>4. QED
    BY <1>1, <1>2, <2>1, <2>2, <2>3, LocalStep, Zenon DEF Return, Replay
<1>8. QED
  BY <1>6, <1>7, Zenon

\* The last return answers the Item the goroutine has recorded.
LEMMA ReplyInv ==
  ASSUME IInv, TypeOK', NEW g \in Goroutines, Reply(g)
  PROVE  IInv'
<1>1. ~Owns(g) /\ MutexHeld'
  BY Zenon DEF Owns, Reply, IInv, TypeOK, MutexHeld, Return, Goto
<1>2. CASE ctxDone[g]
  BY <1>1, <1>2, ErrorReturn, Zenon DEF Reply
<1>3. CASE ~ctxDone[g]
  <2>1. Return(g, [kind |-> "created", ID |-> req[g].ID])
    BY <1>3, Zenon DEF Reply
  <2>2. AnswersOwnItem' /\ NoDanglingEntry'
    BY <2>1 DEF IInv, TypeOK, Return, AnswersOwnItem, InsertedInLedger, Reply, NoDanglingEntry
  <2>3. /\ time' >= time
        /\ \A h \in Goroutines : now'[h] <= time'
    BY DEF IInv, TypeOK, ClocksBehind, Reply
  <2>4. QED
    BY <1>1, <2>1, <2>2, <2>3, LocalStep, Zenon DEF Return, Reply
<1>4. QED
  BY <1>2, <1>3, Zenon

\* Cleanup drops only entries whose window is over by an earlier reading.
LEMMA LockInv ==
  ASSUME IInv, TypeOK', NEW g \in Goroutines, Lock(g)
  PROVE  IInv'
<1> USE DEF IInv, Lock
<1>1. \A h \in Goroutines : (Owns(h)' <=> Owns(h)) /\ (pc'[h] = "record" <=> pc[h] = "record")
  BY Zenon DEF Owns, Goto, TypeOK
<1>2. MutexHeld'
  BY StoreAssumption, Zenon DEF MutexHeld, Goto, TypeOK
<1>3. OneOwner' /\ MarkedOrRecorded' /\ ClocksBehind'
  BY <1>1, Zenon DEF OneOwner, MarkedOrRecorded, ClocksBehind
<1>4. LedgerStored' /\ EntriesInLedger' /\ AtMostOneItemPerWindow'
  BY Zenon DEF LedgerStored, Stored, EntriesInLedger, AtMostOneItemPerWindow
<1>5. InsertedInLedger' /\ AnswersOwnItem' /\ NoDanglingEntry'
  BY DEF InsertedInLedger, Goto, TypeOK, AnswersOwnItem, NoDanglingEntry
<1>6. WindowGuarded'
  BY <1>1, StoreAssumption DEF WindowGuarded, ClocksBehind, TypeOK, Made, Entry, Expired
<1>7. QED
  BY <1>2, <1>3, <1>4, <1>5, <1>6, Zenon

\* Setting the marker makes the goroutine the one owner of its key.
LEMMA ReserveInv ==
  ASSUME IInv, TypeOK', NEW g \in Goroutines, Reserve(g)
  PROVE  IInv'
<1> USE DEF IInv, Reserve
<1>1. \A h \in Goroutines : /\ pc'[h] \in {"record", "recorded"} <=> pc[h] \in {"record", "recorded"}
                            /\ pc'[h] = "record" <=> pc[h] = "record"
                            /\ h # g => (Owns(h)' <=> Owns(h))
  BY Zenon DEF Owns, Goto, TypeOK
<1>2. MutexHeld'
  BY StoreAssumption, Zenon DEF MutexHeld, Goto, TypeOK
<1>3. OneOwner'
  BY <1>1, Zenon DEF OneOwner, InFlight
<1>4. MarkedOrRecorded'
  BY Zenon DEF MarkedOrRecorded, EntryFor
<1>5. ClocksBehind' /\ LedgerStored' /\ EntriesInLedger' /\ AtMostOneItemPerWindow'
  BY Zenon DEF ClocksBehind, LedgerStored, Stored, EntriesInLedger, AtMostOneItemPerWindow
<1>6. InsertedInLedger' /\ WindowGuarded'
  BY <1>1, Zenon DEF InsertedInLedger, WindowGuarded
<1>7. AnswersOwnItem' /\ NoDanglingEntry'
  BY Zenon DEF AnswersOwnItem, NoDanglingEntry
<1>8. QED
  BY <1>2, <1>3, <1>4, <1>5, <1>6, <1>7, Zenon

\* The heart of the argument: the owner of a key inserts, and neither another
\* owner nor an entry can be guarding an earlier Item of that key.
LEMMA InsertInv ==
  ASSUME IInv, TypeOK', NEW g \in Goroutines, Insert(g)
  PROVE  IInv'
<1> USE DEF IInv, Insert
<1> DEFINE new == [key |-> req[g].key, fingerprint |-> req[g].fingerprint,
                   itemID |-> req[g].ID, at |-> time]
<1>1. /\ \A h \in Goroutines : Owns(h)' <=> Owns(h)
      /\ \A h \in Goroutines : pc[h] = "record" => pc'[h] = "record"
      /\ \A h \in Goroutines \ {g} : pc'[h] = pc[h]
      /\ pc'[g] = "record"
  BY Zenon DEF Owns, Goto, TypeOK
<1>2. ledger' = ledger \cup {new}
  BY Zenon
<1>3. \A n \in ledger : n.key = req[g].key => n.at + Retention <= time
  BY DEF Owns, OneOwner, MarkedOrRecorded, WindowGuarded
<1>4. MutexHeld' /\ OneOwner' /\ MarkedOrRecorded'
  BY <1>1, Zenon DEF MutexHeld, OneOwner, MarkedOrRecorded
<1>5. ClocksBehind'
  BY DEF ClocksBehind, TypeOK
<1>6. LedgerStored'
  <2>1. \A n \in ledger : n.itemID # new.itemID
    BY Zenon DEF LedgerStored
  <2>2. \A m, n \in ledger' : m.itemID = n.itemID => m = n
    BY <1>2, <2>1, Zenon DEF LedgerStored
  <2>3. \A m \in ledger : \E i \in items' : i.ID = m.itemID
    BY Zenon DEF LedgerStored, Stored
  <2>4. \E i \in items' : i.ID = new.itemID
    <3>1. [ID |-> req[g].ID, content |-> req[g].fingerprint] \in items'
      BY Zenon
    <3>2. QED
      BY <3>1, Zenon
  <2>5. QED
    BY <1>2, <2>2, <2>3, <2>4, Zenon DEF LedgerStored, Stored
<1>7. InsertedInLedger' /\ EntriesInLedger'
  <2>1. /\ new \in ledger' /\ new.itemID = req'[g].ID
        /\ new.key = req'[g].key /\ new.fingerprint = req'[g].fingerprint
    BY <1>2, Zenon
  <2>2. InsertedInLedger'
    BY <1>1, <1>2, <2>1, Zenon DEF InsertedInLedger
  <2>3. EntriesInLedger'
    BY <1>2, Zenon DEF EntriesInLedger
  <2>4. QED
    BY <2>2, <2>3, Zenon
<1>8. WindowGuarded'
  BY <1>1, <1>2 DEF WindowGuarded
<1>9. AtMostOneItemPerWindow'
  BY <1>2, <1>3 DEF IInv, AtMostOneItemPerWindow
<1>10. AnswersOwnItem' /\ NoDanglingEntry'
  BY Zenon DEF AnswersOwnItem, NoDanglingEntry
<1>11. QED
  BY <1>4, <1>5, <1>6, <1>7, <1>8, <1>9, <1>10, Zenon

\* A failed insert keeps the marker until clearInFlight.
LEMMA InsertFailsInv ==
  ASSUME IInv, TypeOK', NEW g \in Goroutines, InsertFails(g)
  PROVE  IInv'
<1> USE DEF IInv, InsertFails
<1>1. /\ \A h \in Goroutines : Owns(h)' <=> Owns(h)
      /\ \A h \in Goroutines : pc'[h] = "record" <=> pc[h] = "record"
      /\ \A h \in Goroutines : pc'[h] = "recorded" <=> pc[h] = "recorded"
      /\ \A h \in Goroutines : pc'[h] = "locked" <=> pc[h] = "locked"
  BY Zenon DEF Owns, Goto, TypeOK
<1>2. MutexHeld' /\ OneOwner' /\ MarkedOrRecorded' /\ ClocksBehind'
  BY <1>1, Zenon DEF MutexHeld, OneOwner, MarkedOrRecorded, ClocksBehind
<1>3. LedgerStored' /\ EntriesInLedger' /\ AtMostOneItemPerWindow'
  BY Zenon DEF LedgerStored, Stored, EntriesInLedger, AtMostOneItemPerWindow
<1>4. InsertedInLedger' /\ WindowGuarded'
  BY <1>1, Zenon DEF InsertedInLedger, WindowGuarded
<1>5. AnswersOwnItem' /\ NoDanglingEntry'
  BY Zenon DEF AnswersOwnItem, NoDanglingEntry, Error, TypeOK
<1>6. QED
  BY <1>2, <1>3, <1>4, <1>5, Zenon

\* clearInFlight removes the marker of a goroutine that stored nothing.
LEMMA ClearInFlightInv ==
  ASSUME IInv, TypeOK', NEW g \in Goroutines, ClearInFlight(g)
  PROVE  IInv'
<1> USE DEF IInv, ClearInFlight
<1>1. /\ ~Owns(g)' /\ Owns(g)
      /\ \A h \in Goroutines \ {g} : pc'[h] = pc[h]
      /\ pc[g] = "clear" /\ pc'[g] = "done"
      /\ answer' = answer
  BY Zenon DEF Owns, Return, Goto, TypeOK
<1>2. MutexHeld'
  BY <1>1, StoreAssumption, Zenon DEF MutexHeld
<1>3. OneOwner'
  BY <1>1, Zenon DEF OneOwner, Owns
<1>4. MarkedOrRecorded' /\ ClocksBehind'
  BY Zenon DEF MarkedOrRecorded, ClocksBehind
<1>5. LedgerStored' /\ EntriesInLedger' /\ AtMostOneItemPerWindow'
  BY Zenon DEF LedgerStored, Stored, EntriesInLedger, AtMostOneItemPerWindow
<1>6. InsertedInLedger' /\ WindowGuarded'
  BY <1>1 DEF InsertedInLedger, WindowGuarded
<1>7. AnswersOwnItem' /\ NoDanglingEntry'
  BY <1>1, Zenon DEF AnswersOwnItem, NoDanglingEntry
<1>8. QED
  BY <1>2, <1>3, <1>4, <1>5, <1>6, <1>7, Zenon

\* The entry takes over from the marker as the guard of the key.
LEMMA RecordInv ==
  ASSUME IInv, TypeOK', NEW g \in Goroutines, Record(g)
  PROVE  IInv'
<1> USE DEF IInv, Record
<1> DEFINE k == req[g].key
           new == [key |-> k, fingerprint |-> req[g].fingerprint,
                   itemID |-> req[g].ID, expiresAt |-> time + Retention]
<1>1. /\ ~Owns(g)' /\ Owns(g)
      /\ \A h \in Goroutines \ {g} : pc'[h] = pc[h]
      /\ pc[g] = "record" /\ pc'[g] = "recorded"
  BY Zenon DEF Owns, Goto, TypeOK
<1>2. EntryFor(k) = {}
  BY <1>1, Zenon DEF EntryFor, OneOwner, MarkedOrRecorded
<1>3. idempotency' = idempotency \cup {new}
  BY <1>2, Zenon DEF NewEntries, Expiry
<1>4. MutexHeld' /\ OneOwner'
  BY <1>1, StoreAssumption, Zenon DEF MutexHeld, OneOwner, Owns
<1>5. MarkedOrRecorded'
  BY <1>3 DEF MarkedOrRecorded
<1>6. ClocksBehind' /\ LedgerStored' /\ AtMostOneItemPerWindow'
  BY Zenon DEF ClocksBehind, LedgerStored, Stored, AtMostOneItemPerWindow
<1>7. InsertedInLedger'
  BY <1>1, Zenon DEF InsertedInLedger
<1>8. EntriesInLedger'
  BY <1>1, <1>3 DEF InsertedInLedger, EntriesInLedger
<1>9. WindowGuarded'
  <2> SUFFICES ASSUME NEW m \in ledger
               PROVE  \/ m.at + Retention <= time
                      \/ \E h \in Goroutines : pc'[h] = "record" /\ req[h].key = m.key
                      \/ \E e \in idempotency' : e.key = m.key /\ m.at + Retention <= e.expiresAt
    BY Zenon DEF WindowGuarded
  <2>1. m.at + Retention <= new.expiresAt
    BY StoreAssumption DEF ClocksBehind, TypeOK, Made
  <2>2. CASE k = m.key
    <3>1. new \in idempotency' /\ new.key = m.key
      BY <1>3, <2>2, Zenon
    <3>2. QED
      BY <2>1, <3>1, Zenon
  <2>3. CASE k # m.key
    BY <1>1, <1>3, <2>3 DEF WindowGuarded
  <2>4. QED
    BY <2>2, <2>3, Zenon
<1>10. AnswersOwnItem' /\ NoDanglingEntry'
  BY Zenon DEF AnswersOwnItem, NoDanglingEntry
<1>11. QED
  BY <1>4, <1>5, <1>6, <1>7, <1>8, <1>9, <1>10, Zenon

\* Every step of CreateIdempotent keeps the invariant.
LEMMA StepInv ==
  ASSUME IInv, NEW g \in Goroutines, Step(g)
  PROVE  IInv'
<1>1. TypeOK'
  BY StepType, Zenon DEF IInv
<1>2. QED
  BY <1>1, LockInv, SectionReturnInv, ReplayInv, ReserveInv, InsertInv, InsertFailsInv,
     ClearInFlightInv, RecordInv, ReplyInv, Zenon DEF Step, Section

\* A create without a key adds an Item that no ledger line names.
LEMMA CreateInv ==
  ASSUME IInv, TypeOK', NEW g \in Goroutines, Create(g)
  PROVE  IInv'
<1> USE DEF IInv, Create
<1>1. /\ \A h \in Goroutines \ {g} : pc'[h] = pc[h]
      /\ pc[g] = "start" /\ pc'[g] = "done"
  BY Zenon DEF Return, Goto, TypeOK
<1>2. MutexHeld' /\ OneOwner' /\ MarkedOrRecorded' /\ ClocksBehind'
  BY <1>1, Zenon DEF MutexHeld, OneOwner, Owns, MarkedOrRecorded, ClocksBehind
<1>3. LedgerStored'
  BY Zenon DEF LedgerStored, Stored
<1>4. EntriesInLedger' /\ AtMostOneItemPerWindow'
  BY Zenon DEF EntriesInLedger, AtMostOneItemPerWindow
<1>5. InsertedInLedger' /\ WindowGuarded'
  BY <1>1 DEF InsertedInLedger, WindowGuarded
<1>6. AnswersOwnItem' /\ NoDanglingEntry'
  BY Zenon DEF AnswersOwnItem, NoDanglingEntry, Return, Error, TypeOK
<1>7. QED
  BY <1>2, <1>3, <1>4, <1>5, <1>6, Zenon

\* The invariant does not depend on which contexts have ended.
LEMMA FrameInv ==
  ASSUME IInv, TypeOK',
         UNCHANGED <<time, items, idempotency, inflight, idempotencyMu, pc, req, now,
                     answer, ledger>>
  PROVE  IInv'
<1>1. MutexHeld' /\ OneOwner' /\ MarkedOrRecorded'
  BY Zenon DEF IInv, MutexHeld, OneOwner, Owns, MarkedOrRecorded
<1>2. ClocksBehind' /\ WindowGuarded'
  BY Zenon DEF IInv, ClocksBehind, WindowGuarded
<1>3. LedgerStored' /\ InsertedInLedger' /\ EntriesInLedger'
  BY Zenon DEF IInv, LedgerStored, Stored, InsertedInLedger, EntriesInLedger
<1>4. AtMostOneItemPerWindow' /\ AnswersOwnItem' /\ NoDanglingEntry'
  BY Zenon DEF IInv, AtMostOneItemPerWindow, AnswersOwnItem, NoDanglingEntry
<1>5. QED
  BY <1>1, <1>2, <1>3, <1>4, Zenon DEF IInv

\* Every step of the store keeps the invariant.
LEMMA NextInv == IInv /\ [Next]_vars => IInv'
<1> SUFFICES ASSUME IInv, [Next]_vars PROVE IInv'
  BY Zenon
<1>1. TypeOK'
  BY NextType, Zenon DEF IInv
<1>2. ASSUME NEW g \in Goroutines, Create(g) PROVE IInv'
  BY <1>1, <1>2, CreateInv, Zenon
<1>3. ASSUME NEW g \in Goroutines, Reject(g) PROVE IInv'
  <2>1. ~Owns(g) /\ MutexHeld'
    BY <1>3, Zenon DEF Reject, Owns, IInv, TypeOK, MutexHeld, Return, Goto
  <2>2. QED
    BY <1>1, <1>3, <2>1, ErrorReturn, Zenon DEF Reject
<1>4. ASSUME NEW g \in Goroutines, Enter(g) PROVE IInv'
  <2>1. ~Owns(g) /\ MutexHeld'
    BY <1>4, Zenon DEF Enter, Owns, IInv, TypeOK, MutexHeld, Goto
  <2>2. AnswersOwnItem' /\ NoDanglingEntry'
    BY <1>4, Zenon DEF Enter, IInv, AnswersOwnItem, NoDanglingEntry
  <2>3. /\ time' >= time
        /\ \A h \in Goroutines : now'[h] <= time'
    BY <1>4 DEF Enter, IInv, TypeOK, ClocksBehind
  <2>4. QED
    BY <1>1, <1>4, <2>1, <2>2, <2>3, LocalStep, Zenon DEF Enter
<1>5. ASSUME NEW g \in Goroutines, Cancel(g) PROVE IInv'
  BY <1>1, <1>5, FrameInv, Zenon DEF Cancel
<1>6. CASE Tick
  <2> USE <1>6 DEF Tick, IInv
  <2>1. MutexHeld' /\ OneOwner' /\ MarkedOrRecorded' /\ LedgerStored'
    BY Zenon DEF MutexHeld, OneOwner, Owns, MarkedOrRecorded, LedgerStored, Stored
  <2>2. InsertedInLedger' /\ EntriesInLedger' /\ AtMostOneItemPerWindow'
    BY Zenon DEF InsertedInLedger, EntriesInLedger, AtMostOneItemPerWindow
  <2>3. AnswersOwnItem' /\ NoDanglingEntry'
    BY Zenon DEF AnswersOwnItem, NoDanglingEntry
  <2>4. ClocksBehind'
    BY DEF ClocksBehind, TypeOK, Made
  <2>5. WindowGuarded'
    BY StoreAssumption DEF TypeOK, Made, WindowGuarded
  <2>6. QED
    BY <1>1, <2>1, <2>2, <2>3, <2>4, <2>5, Zenon
<1>7. CASE UNCHANGED vars
  BY <1>1, <1>7, FrameInv, Zenon DEF vars
<1>8. QED
  BY <1>2, <1>3, <1>4, <1>5, <1>6, <1>7, StepInv, Zenon DEF Next

\* The invariant holds in every reachable state of the store.
THEOREM InductiveInvariant == Spec => []IInv
BY InitInv, NextInv, PTL DEF Spec

\* CreateIdempotent never makes two Items under one key inside a retention
\* window, whatever the retries, cancellations and delays.
THEOREM OneItemPerWindow == Spec => []AtMostOneItemPerWindow
<1>1. IInv => AtMostOneItemPerWindow
  BY Zenon DEF IInv
<1>2. QED
  BY <1>1, InductiveInvariant, PTL

\* An Item is answered only to the request that made it or to a later one with
\* the same key and fingerprint.
THEOREM OwnItemAnswered == Spec => []AnswersOwnItem
<1>1. IInv => AnswersOwnItem
  BY Zenon DEF IInv
<1>2. QED
  BY <1>1, InductiveInvariant, PTL

\* No replay finds its Item missing.
THEOREM NoDangling == Spec => []NoDanglingEntry
<1>1. IInv => NoDanglingEntry
  BY Zenon DEF IInv
<1>2. QED
  BY <1>1, InductiveInvariant, PTL

-----------------------------------------------------------------------------
(***************************************************************************)
(* The resident bound and the replay window.                               *)
(***************************************************************************)
BoundInv ==
  /\ IsFiniteSet(idempotency)
  /\ IsFiniteSet(inflight)
  /\ ResidentBound

\* An empty store is within its bound.
LEMMA InitBound == Init => BoundInv
<1>1. IsFiniteSet({}) /\ Cardinality({}) = 0
  BY FS_EmptySet, Zenon
<1>2. QED
  BY <1>1, StoreAssumption DEF Init, BoundInv, ResidentBound

\* Only Lock, Reserve, ClearInFlight and Record touch the two maps.  Record
\* trades the marker of its key for an entry.
LEMMA StepBound ==
  ASSUME IInv, BoundInv, NEW g \in Goroutines, Step(g)
  PROVE  BoundInv'
<1> USE DEF BoundInv, ResidentBound
<1>1. Cardinality(idempotency) \in Nat /\ Cardinality(inflight) \in Nat
  BY FS_CardinalityType, Zenon
<1>2. CASE Lock(g)
  BY <1>1, <1>2, FS_Subset, FS_CardinalityType, StoreAssumption DEF Lock
<1>3. CASE Reserve(g)
  <2>1. inflight' = inflight \cup {req[g].key} /\ idempotency' = idempotency /\ HasRoom
    BY <1>3, Zenon DEF Reserve
  <2>2. /\ IsFiniteSet(inflight')
        /\ Cardinality(inflight') \in {Cardinality(inflight), Cardinality(inflight) + 1}
    BY <1>1, <2>1, FS_AddElement, Zenon
  <2>3. QED
    BY <1>1, <2>1, <2>2, StoreAssumption DEF HasRoom
<1>4. CASE ClearInFlight(g)
  BY <1>1, <1>4, FS_Subset, FS_CardinalityType, StoreAssumption DEF ClearInFlight
<1>5. CASE Record(g)
  <2> DEFINE new == [key |-> req[g].key, fingerprint |-> req[g].fingerprint,
                     itemID |-> req[g].ID, expiresAt |-> time + Retention]
  <2>1. req[g].key \in inflight /\ inflight' = inflight \ {req[g].key}
    BY <1>5, Zenon DEF Record, IInv, OneOwner, Owns
  <2>2. IsFiniteSet(inflight') /\ Cardinality(inflight') = Cardinality(inflight) - 1
    BY <2>1, FS_RemoveElement, Zenon
  <2>3. EntryFor(req[g].key) = {}
    BY <2>1, Zenon DEF EntryFor, IInv, MarkedOrRecorded
  <2>4. idempotency' = idempotency \cup {new}
    BY <1>5, <2>3, Zenon DEF Record, NewEntries, Expiry
  <2>5. /\ IsFiniteSet(idempotency')
        /\ Cardinality(idempotency') \in {Cardinality(idempotency), Cardinality(idempotency) + 1}
    BY <1>1, <2>4, FS_AddElement, Zenon
  <2>6. QED
    BY <1>1, <2>2, <2>5, StoreAssumption
<1>6. CASE Conflict(g) \/ Replay(g) \/ InProgress(g) \/ Full(g) \/ Insert(g)
           \/ InsertFails(g) \/ Reply(g)
  BY <1>6, Zenon DEF Conflict, Replay, InProgress, Full, Insert, InsertFails, Reply
<1>7. QED
  BY <1>2, <1>3, <1>4, <1>5, <1>6, Zenon DEF Step, Section

\* No step of the store exceeds the bound on resident entries.
LEMMA NextBound == IInv /\ BoundInv /\ [Next]_vars => BoundInv'
<1> SUFFICES ASSUME IInv, BoundInv, [Next]_vars PROVE BoundInv'
  BY Zenon
<1>1. CASE \E g \in Goroutines : Step(g)
  BY <1>1, StepBound, Zenon
<1>2. CASE ~\E g \in Goroutines : Step(g)
  <2>1. UNCHANGED <<idempotency, inflight>>
    BY <1>2, Zenon DEF Next, Create, Reject, Enter, Cancel, Tick, vars
  <2>2. QED
    BY <2>1, Zenon DEF BoundInv, ResidentBound
<1>3. QED
  BY <1>1, <1>2, Zenon

\* Completed and in-flight reservations never exceed MaxEntries together, for
\* any number of concurrent requests with distinct keys.
THEOREM Bounded == Spec => []ResidentBound
<1>1. BoundInv => ResidentBound
  BY Zenon DEF BoundInv
<1>2. QED
  BY <1>1, InitBound, NextBound, InductiveInvariant, PTL DEF Spec

\* Inside the first section nothing expired is left, and nothing is answered.
SectionInv ==
  /\ \A g \in Goroutines : pc[g] = "locked" => \A e \in idempotency : now[g] < e.expiresAt
  /\ \A g \in Goroutines : pc[g] \in {"start", "lock", "locked"} => answer[g] = NoAnswer

\* A goroutine has answered nothing before it leaves the first section.
LEMMA NextSection == IInv /\ SectionInv /\ [Next]_vars => SectionInv'
<1> SUFFICES ASSUME IInv, SectionInv, [Next]_vars PROVE SectionInv'
  BY Zenon
<1> USE DEF SectionInv, Goto, Return
<1>1. ASSUME NEW g \in Goroutines, Lock(g) PROVE SectionInv'
  BY <1>1, StoreAssumption DEF Lock, IInv, TypeOK, MutexHeld, Entry, Expired
<1>2. ASSUME NEW g \in Goroutines, Record(g) PROVE SectionInv'
  BY <1>2, StoreAssumption, Zenon DEF Record, IInv, TypeOK, MutexHeld
<1>3. ASSUME NEW g \in Goroutines, Enter(g) PROVE SectionInv'
  BY <1>3, Zenon DEF Enter, IInv, TypeOK
<1>4. ASSUME NEW g \in Goroutines, Section(g) PROVE SectionInv'
  BY <1>4, Zenon DEF Section, Conflict, Replay, InProgress, Full, Reserve, IInv, TypeOK
<1>5. ASSUME NEW g \in Goroutines,
             \/ Create(g) \/ Reject(g) \/ Insert(g) \/ InsertFails(g)
             \/ ClearInFlight(g) \/ Reply(g) \/ Cancel(g)
      PROVE  SectionInv'
  BY <1>5, Zenon DEF Create, Reject, Insert, InsertFails, ClearInFlight, Reply, Cancel, IInv, TypeOK
<1>6. CASE Tick \/ UNCHANGED vars
  BY <1>6, Zenon DEF Tick, vars
<1>7. QED
  BY <1>1, <1>2, <1>3, <1>4, <1>5, <1>6, Zenon DEF Next, Step

\* An entry answers only requests that read the clock before it expired; any
\* other retry is a new request.
THEOREM OutsideWindowIsNew == Spec => RetriesOutsideWindowAreNew
<1>1. Init => SectionInv
  BY Zenon DEF Init, SectionInv
<1>2. ASSUME IInv, SectionInv, [Next]_vars,
             NEW g \in Goroutines, pc[g] = "locked", answer'[g].kind \in {"replayed", "conflict"}
      PROVE  \E e \in EntryFor(req[g].key) : now[g] < e.expiresAt
  <2>1. answer[g].kind = "none"
    BY <1>2 DEF SectionInv, NoAnswer
  <2>2. answer'[g] # answer[g]
    BY <1>2, <2>1, Zenon
  <2>3. ASSUME NEW h \in Goroutines, h # g, Create(h) \/ Reject(h) \/ Enter(h) \/ Step(h) \/ Cancel(h)
        PROVE  FALSE
    <3>1. answer' = answer \/ \E a : answer' = [answer EXCEPT ![h] = a]
      BY <2>3, Zenon DEF Create, Reject, Enter, Step, Lock, Section, Conflict, Replay, InProgress,
         Full, Reserve, Insert, InsertFails, ClearInFlight, Record, Reply, Cancel, Return
    <3>2. g \in DOMAIN answer
      BY <1>2, Zenon DEF IInv, TypeOK
    <3>3. QED
      BY <2>2, <2>3, <3>1, <3>2, Zenon
  <2>4. CASE Conflict(g) \/ Replay(g)
    <3>1. EntryFor(req[g].key) # {}
      BY <2>4, Zenon DEF Conflict, Replay
    <3>2. QED
      BY <1>2, <3>1, Zenon DEF SectionInv, EntryFor
  <2>5. CASE InProgress(g) \/ Full(g)
    BY <1>2, <2>5 DEF IInv, TypeOK, InProgress, Full, Return, Error
  <2>6. CASE \/ Create(g) \/ Reject(g) \/ Enter(g) \/ Lock(g) \/ Reserve(g) \/ Insert(g)
             \/ InsertFails(g) \/ ClearInFlight(g) \/ Record(g) \/ Reply(g) \/ Cancel(g)
             \/ Tick \/ UNCHANGED vars
    BY <1>2, <2>2, <2>6, Zenon DEF Create, Reject, Enter, Lock, Reserve, Insert, InsertFails,
       ClearInFlight, Record, Reply, Cancel, Tick, vars
  <2>7. QED
    BY <1>2, <2>3, <2>4, <2>5, <2>6, Zenon DEF Next, Step, Section
<1>3. IInv /\ SectionInv /\ [Next]_vars =>
        [\A g \in Goroutines :
           pc[g] = "locked" /\ answer'[g].kind \in {"replayed", "conflict"} =>
             \E e \in EntryFor(req[g].key) : now[g] < e.expiresAt]_vars
  BY <1>2, Zenon
<1>4. QED
  BY <1>1, <1>3, NextSection, InductiveInvariant, PTL DEF Spec, RetriesOutsideWindowAreNew

-----------------------------------------------------------------------------
(***************************************************************************)
(* The store implements IdempotentCreate, although the Item and the entry  *)
(* are written under two mutexes: the abstract create happens at Insert,   *)
(* and the marker stands for the record until Record writes the entry.     *)
(***************************************************************************)
\* An entry outlives the window of its Item, and clearInFlight answers the
\* error of the failed insert.
MappedInv ==
  /\ \A e \in idempotency, m \in ledger : e.itemID = m.itemID => m.at + Retention <= e.expiresAt
  /\ \A g \in Goroutines : pc[g] = "clear" => answer[g] \in {Error("canceled"), Error("idConflict")}

\* Every step keeps it.
LEMMA NextMapped == IInv /\ MappedInv /\ [Next]_vars => MappedInv'
<1> SUFFICES ASSUME IInv, MappedInv, [Next]_vars PROVE MappedInv'
  BY Zenon
<1> USE DEF MappedInv, Goto, Return
<1>1. ASSUME NEW g \in Goroutines, Insert(g) PROVE MappedInv'
  BY <1>1 DEF Insert, IInv, EntriesInLedger, LedgerStored, TypeOK
<1>2. ASSUME NEW g \in Goroutines, InsertFails(g) PROVE MappedInv'
  BY <1>2, Zenon DEF InsertFails, IInv, TypeOK
<1>3. ASSUME NEW g \in Goroutines, Record(g) PROVE MappedInv'
  BY <1>3, StoreAssumption DEF Record, NewEntries, Expiry, IInv, ClocksBehind, TypeOK, Made
<1>4. ASSUME NEW g \in Goroutines, Lock(g) \/ Section(g) \/ Enter(g) PROVE MappedInv'
  BY <1>4, Zenon DEF Lock, Section, Conflict, Replay, InProgress, Full, Reserve, Enter, IInv, TypeOK
<1>5. ASSUME NEW g \in Goroutines,
             Create(g) \/ Reject(g) \/ ClearInFlight(g) \/ Reply(g) \/ Cancel(g)
      PROVE  MappedInv'
  BY <1>5, Zenon DEF Create, Reject, ClearInFlight, Reply, Cancel, IInv, TypeOK
<1>6. CASE Tick \/ UNCHANGED vars
  BY <1>6, Zenon DEF Tick, vars
<1>7. QED
  BY <1>1, <1>2, <1>3, <1>4, <1>5, <1>6, Zenon DEF Next, Step

\* A step of one goroutine is a step of its caller only.
LEMMA OthersMapped ==
  ASSUME NEW g \in Goroutines,
         \A h \in Goroutines \ {g} : pc'[h] = pc[h] /\ answer'[h] = answer[h]
  PROVE  /\ Phase' = [Phase EXCEPT ![g] = Phase'[g]]
         /\ Returned' = [Returned EXCEPT ![g] = Returned'[g]]
<1>1. \A h \in Goroutines \ {g} : Phase'[h] = Phase[h] /\ Returned'[h] = Returned[h]
  BY Zenon DEF Phase, Returned, NoAnswer
<1>2. /\ Phase = [h \in Goroutines |-> Phase[h]] /\ Phase' = [h \in Goroutines |-> Phase'[h]]
      /\ Returned = [h \in Goroutines |-> Returned[h]]
      /\ Returned' = [h \in Goroutines |-> Returned'[h]]
  BY Zenon DEF Phase, Returned
<1>3. QED
  BY <1>1, <1>2, Zenon

\* What a caller sees of each place in CreateIdempotent.
LEMMA PlaceMapped ==
  ASSUME NEW g \in Goroutines
  PROVE  /\ pc[g] \in {"start", "done"} => Phase[g] = pc[g]
         /\ pc[g] \in {"lock", "locked", "create", "clear"} => Phase[g] = "called"
         /\ pc[g] \in {"record", "recorded"} => Phase[g] = "performed"
         /\ pc[g] # "done" => Returned[g] = NoAnswer
         /\ pc[g] = "done" => Returned[g] = answer[g]
         /\ Phase = [h \in Goroutines |-> Phase[h]]
         /\ Returned = [h \in Goroutines |-> Returned[h]]
BY Zenon DEF Phase, Returned

\* A completed create's entry is a live record of the same key and input.
LEMMA EntryLive ==
  ASSUME IInv, NEW e \in idempotency
  PROVE  \E m \in Live : m.key = e.key /\ m.fingerprint = e.fingerprint /\ m.itemID = e.itemID
BY Zenon DEF IInv, EntriesInLedger, Live

\* A live record's key is owned or has an entry.
LEMMA LiveGuarded ==
  ASSUME IInv, NEW m \in Live
  PROVE  \/ \E g \in Goroutines : pc[g] = "record" /\ req[g].key = m.key
         \/ \E e \in idempotency : e.key = m.key
<1>1. m \in ledger
  BY Zenon DEF Live
<1>2. CASE Recording(m.itemID)
  BY <1>1, <1>2 DEF Recording, IInv, InsertedInLedger, LedgerStored
<1>3. CASE \E e \in idempotency : e.itemID = m.itemID
  BY <1>1, <1>3 DEF IInv, EntriesInLedger, LedgerStored
<1>4. QED
  BY <1>2, <1>3, Zenon DEF Live

\* A step that leaves the markers' owners, the entries and the ledger alone
\* leaves the records alone.
LEMMA LiveFrame ==
  ASSUME UNCHANGED <<idempotency, ledger, req>>,
         \A h \in Goroutines : pc'[h] = "record" <=> pc[h] = "record"
  PROVE  Live' = Live /\ Live = Live \ {}
BY Zenon DEF Live, Recording

\* Steps inside CreateIdempotent that a caller cannot see.
LEMMA RefineInside ==
  ASSUME IInv, NEW g \in Goroutines, Reserve(g) \/ InsertFails(g) \/ Cancel(g)
  PROVE  UNCHANGED Abstract!vars
<1>1. /\ UNCHANGED <<time, items, idempotency, ledger, req, now>>
      /\ pc' = pc \/ (pc[g] \in {"locked", "create"} /\ pc'[g] \in {"create", "clear"})
      /\ \A h \in Goroutines \ {g} : pc'[h] = pc[h] /\ answer'[h] = answer[h]
      /\ pc' = pc => answer' = answer
  BY Zenon DEF Reserve, InsertFails, Cancel, Goto, IInv, TypeOK
<1>2. \A h \in Goroutines : pc'[h] = "record" <=> pc[h] = "record"
  BY <1>1, Zenon
<1>3. Live' = Live
  BY <1>1, <1>2, LiveFrame, Zenon
<1>4. Phase' = Phase /\ Returned' = Returned
  <2>1. CASE pc' = pc /\ answer' = answer
    BY <2>1, Zenon DEF Phase, Returned, NoAnswer
  <2>2. CASE pc[g] \in {"locked", "create"} /\ pc'[g] \in {"create", "clear"}
    BY <1>1, <2>2, PlaceMapped, OthersMapped DEF Phase, Returned, NoAnswer
  <2>3. QED
    BY <1>1, <2>1, <2>2, Zenon
<1>5. QED
  BY <1>1, <1>3, <1>4, Zenon DEF Abstract!vars

\* Cleanup forgets records whose window is over.
LEMMA RefineLock ==
  ASSUME IInv, MappedInv, NEW g \in Goroutines, Lock(g)
  PROVE  Abstract!Next
<1>1. /\ UNCHANGED <<time, items, req, now, ledger, answer>>
      /\ idempotency' = {e \in idempotency : ~Expired(e, now[g])}
      /\ pc[g] = "lock" /\ pc'[g] = "locked" /\ \A h \in Goroutines \ {g} : pc'[h] = pc[h]
  BY Zenon DEF Lock, Goto, IInv, TypeOK
<1>2. Phase' = Phase /\ Returned' = Returned
  BY <1>1, PlaceMapped, OthersMapped DEF Phase, Returned, NoAnswer
<1>3. Live' \subseteq Live /\ Live \ Live' \subseteq Abstract!Outdated
  BY <1>1, StoreAssumption DEF Recording, Live, MappedInv, IInv, TypeOK, Made, Entry, ClocksBehind,
     Expired, Abstract!Outdated
<1>4. Abstract!Forget
  <2>1. Live' = Live \ (Live \ Live')
    BY <1>3, Zenon
  <2>2. \E S \in SUBSET Abstract!Outdated : Live' = Live \ S
    BY <1>3, <2>1, Zenon
  <2>3. QED
    BY <1>1, <1>2, <2>2, Zenon DEF Abstract!Forget
<1>5. QED
  BY <1>4, Zenon DEF Abstract!Next

\* The abstract create happens when the owner of the key inserts the Item: no
\* live record has the key.
LEMMA RefineInsert ==
  ASSUME IInv, NEW g \in Goroutines, Insert(g)
  PROVE  Abstract!Next
<1> DEFINE new == [key |-> req[g].key, fingerprint |-> req[g].fingerprint,
                   itemID |-> req[g].ID, at |-> time]
<1>1. /\ UNCHANGED <<time, idempotency, req, now, answer>> /\ ~Stored(req[g].ID)
      /\ items' = items \cup {[ID |-> req[g].ID, content |-> req[g].fingerprint]}
      /\ ledger' = ledger \cup {new}
      /\ pc[g] = "create" /\ pc'[g] = "record" /\ \A h \in Goroutines \ {g} : pc'[h] = pc[h]
  BY Zenon DEF Insert, Goto, IInv, TypeOK
<1>2. new.key = req[g].key /\ new.itemID = req[g].ID
  BY Zenon
<1> HIDE DEF new
<1>3. Phase[g] = "called" /\ Phase'[g] = "performed" /\ Returned' = Returned
  BY <1>1, PlaceMapped, OthersMapped DEF Phase, Returned, NoAnswer
<1>4. Abstract!RecordFor(req[g].key) = {}
  <2> SUFFICES ASSUME NEW m \in Live, m.key = req[g].key PROVE FALSE
    BY Zenon DEF Abstract!RecordFor
  <2>1. Owns(g) /\ req[g].key \in inflight
    BY <1>1, Zenon DEF Owns, IInv, OneOwner
  <2>2. PICK h \in Goroutines : pc[h] = "record" /\ req[h].key = m.key
    BY <2>1, LiveGuarded, Zenon DEF IInv, MarkedOrRecorded
  <2>3. QED
    BY <1>1, <2>1, <2>2, Zenon DEF IInv, OneOwner, Owns
<1>5. Live' = Live \cup {new}
  BY <1>1, <1>2, Zenon DEF IInv, LedgerStored, Recording, Live
<1>6. Abstract!Perform(g)
  <2>1. time \in now[g] .. time
    BY DEF IInv, TypeOK, ClocksBehind
  <2>2. Live' = (Live \ {}) \cup {[key |-> req[g].key, fingerprint |-> req[g].fingerprint,
                                   itemID |-> req[g].ID, at |-> time]}
    BY <1>5, Zenon DEF new
  <2>3. Phase' = [Phase EXCEPT ![g] = "performed"]
    BY <1>1, <1>3, OthersMapped, Zenon
  <2>4. \E at \in now[g] .. time, S \in SUBSET Abstract!Outdated :
          /\ Abstract!RecordFor(req[g].key) \subseteq S
          /\ Live' = (Live \ S) \cup {[key |-> req[g].key, fingerprint |-> req[g].fingerprint,
                                       itemID |-> req[g].ID, at |-> at]}
    BY <1>4, <2>1, <2>2, Zenon
  <2>5. QED
    BY <1>1, <1>3, <2>3, <2>4, Zenon DEF Abstract!Perform, Abstract!Stored, Stored, Abstract!NewItem
<1>7. QED
  BY <1>6, Zenon DEF Abstract!Next

\* Writing the entry is not visible: it replaces the marker as the record.
LEMMA RefineRecord ==
  ASSUME IInv, NEW g \in Goroutines, Record(g)
  PROVE  UNCHANGED Abstract!vars
<1> DEFINE new == [key |-> req[g].key, fingerprint |-> req[g].fingerprint,
                   itemID |-> req[g].ID, expiresAt |-> time + Retention]
<1>1. /\ UNCHANGED <<time, items, req, now, ledger, answer>>
      /\ pc[g] = "record" /\ pc'[g] = "recorded" /\ \A h \in Goroutines \ {g} : pc'[h] = pc[h]
  BY Zenon DEF Record, Goto, IInv, TypeOK
<1>2. idempotency' = idempotency \cup {new} /\ new.itemID = req[g].ID
  BY <1>1, Zenon DEF EntryFor, IInv, OneOwner, Owns, MarkedOrRecorded, Record, NewEntries, Expiry
<1> HIDE DEF new
<1>3. Live' = Live
  BY <1>1, <1>2, Zenon DEF Recording, Live
<1>4. Phase' = Phase /\ Returned' = Returned
  BY <1>1, PlaceMapped, OthersMapped DEF Phase, Returned, NoAnswer
<1>5. QED
  BY <1>1, <1>3, <1>4, Zenon DEF Abstract!vars

\* Every return of Create and CreateIdempotent is a reply of the abstract store.
LEMMA RefineReturn ==
  ASSUME IInv, NEW g \in Goroutines, NEW a, Return(g, a),
         pc[g] \notin {"record", "done"},
         UNCHANGED <<time, idempotency, req, now, ledger>>
  PROVE  /\ Abstract!Reply(g, a)
         /\ pc[g] = "start" => Phase[g] = "start"
         /\ pc[g] \in {"locked", "clear"} => Phase[g] = "called"
         /\ pc[g] = "recorded" => Phase[g] = "performed"
<1>1. /\ pc'[g] = "done" /\ answer'[g] = a
      /\ \A h \in Goroutines \ {g} : pc'[h] = pc[h] /\ answer'[h] = answer[h]
  BY Zenon DEF Return, Goto, IInv, TypeOK
<1>2. \A h \in Goroutines : pc'[h] = "record" <=> pc[h] = "record"
  BY <1>1, Zenon
<1>3. Live' = Live /\ Live = Live \ {}
  BY <1>2, LiveFrame, Zenon
<1>4. Phase'[g] = "done" /\ Returned'[g] = a
  BY <1>1, Zenon DEF Phase, Returned
<1>5. Phase' = [Phase EXCEPT ![g] = "done"] /\ Returned' = [Returned EXCEPT ![g] = a]
  BY <1>1, <1>4, OthersMapped, Zenon
<1>6. Abstract!Reply(g, a)
  <2>1. \E S \in SUBSET Abstract!Outdated : Live' = Live \ S
    BY <1>3, Zenon
  <2>2. QED
    BY <1>5, <2>1, Zenon DEF Abstract!Reply
<1>7. QED
  BY <1>6, PlaceMapped, Zenon

\* Error returns that leave the Items alone.
LEMMA RefineError ==
  ASSUME IInv, NEW g \in Goroutines, NEW kind \in {"canceled", "inProgress", "unavailable", "idConflict"},
         Return(g, Error(kind)),
         pc[g] \in {"start", "locked", "clear"} \/ (pc[g] = "recorded" /\ kind = "canceled"),
         UNCHANGED <<time, items, idempotency, req, now, ledger>>
  PROVE  Abstract!Next
<1>1. /\ Abstract!Reply(g, Error(kind))
      /\ pc[g] = "start" => Phase[g] = "start"
      /\ pc[g] \in {"locked", "clear"} => Phase[g] = "called"
      /\ pc[g] = "recorded" => Phase[g] = "performed"
  BY RefineReturn, Zenon
<1>2. Abstract!ReplyError(g)
  BY <1>1, Zenon DEF Abstract!ReplyError, Abstract!Errors, Abstract!Error, Error
<1>3. QED
  BY <1>2, Zenon DEF Abstract!Next

\* A replay and a conflict are answered from a live record of the key.
LEMMA RefineFound ==
  ASSUME IInv, NEW g \in Goroutines, Conflict(g) \/ Replay(g)
  PROVE  Abstract!Next
<1>1. CASE Conflict(g)
  BY <1>1, EntryLive, RefineReturn DEF Conflict, EntryFor, Abstract!ReplyConflict,
     Abstract!RecordFor, Abstract!Error, Error, Abstract!Next
<1>2. CASE Replay(g)
  <2>1. PICK e \in idempotency :
          /\ e.key = req[g].key /\ e.fingerprint = req[g].fingerprint
          /\ Return(g, IF ctxDone[g] THEN Error("canceled")
                       ELSE IF Stored(e.itemID) THEN [kind |-> "replayed", ID |-> e.itemID]
                       ELSE Error("state"))
    BY <1>2, Zenon DEF Replay, EntryFor
  <2>2. PICK m \in Live : m.key = e.key /\ m.fingerprint = e.fingerprint /\ m.itemID = e.itemID
    BY EntryLive, Zenon
  <2>3. Stored(e.itemID)
    BY <2>2, Zenon DEF Live, IInv, LedgerStored
  <2>4. CASE ctxDone[g]
    BY <1>2, <2>1, <2>4, RefineError, Zenon DEF Replay
  <2>5. CASE ~ctxDone[g]
    <3>1. Return(g, [kind |-> "replayed", ID |-> e.itemID])
      BY <2>1, <2>3, <2>5, Zenon
    <3>2. /\ Abstract!Reply(g, [kind |-> "replayed", ID |-> e.itemID])
          /\ Phase[g] = "called" /\ items' = items
      BY <1>2, <3>1, RefineReturn DEF Replay
    <3>3. QED
      BY <2>1, <2>2, <3>2, Zenon DEF Abstract!ReplyReplayed, Abstract!RecordFor, Abstract!Next
  <2>6. QED
    BY <2>4, <2>5, Zenon
<1>3. QED
  BY <1>1, <1>2, Zenon

\* The last return, after the entry is written.
LEMMA RefineReply ==
  ASSUME IInv, NEW g \in Goroutines, Reply(g)
  PROVE  Abstract!Next
<1>1. CASE ctxDone[g]
  BY <1>1, RefineError, Zenon DEF Reply
<1>2. CASE ~ctxDone[g]
  BY <1>2, RefineReturn, Zenon DEF Reply, Abstract!ReplyCreated, Abstract!Next
<1>3. QED
  BY <1>1, <1>2, Zenon

\* A create without a key.
LEMMA RefineCreate ==
  ASSUME IInv, NEW g \in Goroutines, Create(g)
  PROVE  Abstract!Next
<1>1. CASE ctxDone[g] \/ Stored(req[g].ID)
  BY <1>1, RefineError, Zenon DEF Create
<1>2. CASE ~(ctxDone[g] \/ Stored(req[g].ID))
  BY <1>2, RefineReturn, Zenon DEF Create, Abstract!CreatePlain, Abstract!Stored, Stored, Abstract!NewItem,
     Abstract!Next
<1>3. QED
  BY <1>1, <1>2, Zenon

\* A call reads the clock and goes for the mutex.
LEMMA RefineEnter ==
  ASSUME IInv, NEW g \in Goroutines, Enter(g)
  PROVE  Abstract!Next
<1>1. /\ UNCHANGED <<time, items, idempotency, req, ledger, answer>>
      /\ pc[g] = "start" /\ pc'[g] = "lock" /\ \A h \in Goroutines \ {g} : pc'[h] = pc[h]
  BY Zenon DEF Enter, Goto, IInv, TypeOK
<1>2. \A h \in Goroutines : pc'[h] = "record" <=> pc[h] = "record"
  BY <1>1, Zenon
<1>3. Live' = Live
  BY <1>1, <1>2, LiveFrame, Zenon
<1>4. Phase'[g] = "called" /\ Returned'[g] = NoAnswer
  BY <1>1, Zenon DEF Phase, Returned, NoAnswer
<1>5. /\ Phase[g] = "start" /\ Returned[g] = NoAnswer
      /\ Returned = [h \in Goroutines |-> Returned[h]]
  BY <1>1, PlaceMapped, Zenon
<1>6. Phase' = [Phase EXCEPT ![g] = "called"] /\ Returned' = Returned
  BY <1>1, <1>4, <1>5, OthersMapped
<1>7. Abstract!Invoke(g)
  BY <1>1, <1>3, <1>5, <1>6, Zenon DEF Abstract!Invoke, Enter
<1>8. QED
  BY <1>7, Zenon DEF Abstract!Next

\* CreateIdempotent in memory behaves as one atomic insert of an Item and its
\* replay record, though it writes them under two different mutexes.
THEOREM Refinement == Spec => ImplementsIdempotentCreate
<1>1. Init => Abstract!Init
  BY Zenon DEF Init, Live, Phase, Returned, NoAnswer, Abstract!NoAnswer, Abstract!Init, Request,
     Abstract!Request
<1>2. Init => MappedInv
  BY Zenon DEF Init, MappedInv
<1>3. IInv /\ MappedInv /\ [Next]_vars => [Abstract!Next]_(Abstract!vars)
  <2> SUFFICES ASSUME IInv, MappedInv, [Next]_vars
               PROVE  Abstract!Next \/ UNCHANGED Abstract!vars
    BY Zenon
  <2>1. ASSUME NEW g \in Goroutines, Reject(g) \/ InProgress(g) \/ Full(g) PROVE Abstract!Next
    BY <2>1, RefineError, Zenon DEF Reject, InProgress, Full
  <2>2. ASSUME NEW g \in Goroutines, ClearInFlight(g) PROVE Abstract!Next
    BY <2>2, RefineError, Zenon DEF ClearInFlight, MappedInv
  <2>3. ASSUME NEW g \in Goroutines, Step(g) PROVE Abstract!Next \/ UNCHANGED Abstract!vars
    BY <2>1, <2>2, <2>3, RefineLock, RefineInside, RefineFound, RefineInsert, RefineRecord,
       RefineReply, Zenon DEF Step, Section
  <2>4. CASE Tick
    BY <2>4, Zenon DEF Tick, Live, Recording, Phase, Returned, NoAnswer, Abstract!Tick, Abstract!Next
  <2>5. CASE UNCHANGED vars
    BY <2>5, Zenon DEF vars, Abstract!vars, Live, Recording, Phase, Returned, NoAnswer
  <2>6. QED
    BY <2>1, <2>3, <2>4, <2>5, RefineCreate, RefineEnter, RefineInside, Zenon DEF Next
<1>4. QED
  BY <1>1, <1>2, <1>3, NextMapped, InductiveInvariant, PTL
     DEF Spec, ImplementsIdempotentCreate, Abstract!Spec
=============================================================================
