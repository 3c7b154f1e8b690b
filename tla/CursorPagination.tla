-------------------------- MODULE CursorPagination --------------------------
(***************************************************************************)
(* Walking the Item list (internal/item: Service.List, Service.ListCursor, *)
(* the signed cursor codec, and ListAfter of both stores) while Items are  *)
(* created.                                                                *)
(*                                                                         *)
(* A replica's clock is up to MaxSkew ticks ahead.  Service.Create stamps  *)
(* an Item and stores it later, so Items appear in the list out of         *)
(* creation order and at any place of it.  A page is one step: the store   *)
(* answers from one snapshot (a copy under mu, one SQL statement), and the *)
(* cursor is made from a row of it, whose fields never change.  A call     *)
(* whose context ends, or that cannot reach the store, leaves the walk     *)
(* where it was.                                                           *)
(***************************************************************************)
EXTENDS Integers, FiniteSets, Sequences

CONSTANTS Clients,          \* each walks the list once
          IDs,              \* item UUIDs in byte order
          DefaultPageSize,
          MaxPageSize,
          TTL,              \* the codec's ttl in ticks; zero means no expiry
          MaxSkew,          \* how far a replica's clock may be ahead
          MaxKey,           \* bound on signing-key rotations
          MaxTime           \* bound on the clock

ASSUME CursorAssumption ==
  /\ IDs \subseteq Nat
  /\ MaxPageSize \in Nat \ {0}
  /\ DefaultPageSize \in 1..MaxPageSize
  /\ TTL \in Nat
  /\ MaxSkew \in Nat
  /\ MaxKey \in Nat
  /\ MaxTime \in Nat

VARIABLES time,     \* true time
          key,      \* the signing key of all replicas
          items,    \* the stored Items
          stamped,  \* Items with an ID and CreatedAt, not stored yet
          state,    \* how far each client's walk has come
          token,    \* the cursor it holds: at most one
          pages,    \* the Items of the pages it got
          due       \* history: Items stored when its walk had yet to reach them

vars == <<time, key, items, stamped, state, token, pages, due>>

Item == [ID : IDs, CreatedAt : Nat]

\* A cursor: its position, the expiry in it (if any), the key of its MAC, and
\* the true time it was issued at, which no code sees.
Token == [position : Item, expires : SUBSET Nat, key : Nat, issued : Nat]

\* i is listed before j: CreatedAt descending, then ID descending.
Before(i, j) ==
  \/ i.CreatedAt > j.CreatedAt
  \/ i.CreatedAt = j.CreatedAt /\ i.ID > j.ID

\* How many of S are listed before i.
Rank(S, i) == Cardinality({j \in S : Before(j, i)})

\* At most limit rows of S after the first offset ones.
Rows(S, limit, offset) == {i \in S : Rank(S, i) >= offset /\ Rank(S, i) < offset + limit}

Last(S) == CHOOSE i \in S : \A j \in S : i = j \/ Before(j, i)

\* The Items strictly after a position.
AfterInclusive(S, p) == {i \in S : ~Before(i, p)}
After(S, p) == {i \in S : Before(p, i)}

-----------------------------------------------------------------------------
\* NormalizeListParams and ListCursor: zero asks for the default size.
Limits == {l \in -1..(MaxPageSize + 1) : l >= 0 /\ l <= MaxPageSize}

Normalized(l) == IF l = 0 THEN DefaultPageSize ELSE l

\* The limit the service passes to the store: one row of look-ahead.
LookAheadMissing(l) == l
LookAhead(l) == l + 1

\* Encode on a replica whose clock reads now: nothing if the expiry does not
\* lie after the position.
ExpiresUnextended(now) == now
Expires(now) == now + TTL

Encode(p, now) ==
  IF TTL = 0 THEN {[position |-> p, expires |-> {}, key |-> key, issued |-> time]}
  ELSE {t \in {[position |-> p, expires |-> {Expires(now)}, key |-> key, issued |-> time]} :
          Expires(now) > p.CreatedAt}

\* Decode accepts the token: authentic, and not expired by the replica's clock.
DecodesUnexpired(t, now) == t.key = key
Decodes(t, now) == t.key = key /\ \A e \in t.expires : now < e

Clocks == time..(time + MaxSkew)

-----------------------------------------------------------------------------
Init ==
  /\ time = 0
  /\ key = 0
  /\ items = {}
  /\ stamped = {}
  /\ state = [c \in Clients |-> "start"]
  /\ token = [c \in Clients |-> {}]
  /\ pages = [c \in Clients |-> <<>>]
  /\ due = [c \in Clients |-> {}]

\* Service.Create takes an ID and reads the clock.
Stamp ==
  /\ \E id \in IDs, now \in Clocks :
       /\ \A i \in items \cup stamped : i.ID # id
       /\ stamped' = stamped \cup {[ID |-> id, CreatedAt |-> now]}
  /\ UNCHANGED <<time, key, items, state, token, pages, due>>

\* store.Create: every walk that has not passed the Item's place yet owes it.
Insert ==
  /\ \E i \in stamped :
       /\ stamped' = stamped \ {i}
       /\ items' = items \cup {i}
       /\ due' = [c \in Clients |->
                    IF \E t \in token[c] : Before(t.position, i) THEN due[c] \cup {i}
                    ELSE due[c]]
  /\ UNCHANGED <<time, key, state, token, pages>>

InsertFails ==
  /\ \E i \in stamped : stamped' = stamped \ {i}
  /\ UNCHANGED <<time, key, items, state, token, pages, due>>

\* A page made of the rows the store returned, with a cursor if there is more.
Page(c, rows, limit) ==
  LET shown == Rows(rows, limit, 0)
      more  == Cardinality(rows) > limit
  IN  \E now \in Clocks :
        LET next == IF more THEN Encode(Last(shown), now) ELSE {}
        IN  /\ token' = [token EXCEPT ![c] = next]
            /\ IF more /\ next = {}
               THEN /\ state' = [state EXCEPT ![c] = "cursorState"]
                    /\ UNCHANGED pages
               ELSE /\ state' = [state EXCEPT ![c] = IF more THEN "walking" ELSE "end"]
                    /\ pages' = [pages EXCEPT ![c] = Append(@, shown)]

\* The first page: List at an offset, which also hands out a cursor, or
\* ListCursor without one (as offset zero).
First(c) ==
  /\ state[c] = "start"
  /\ \E l \in Limits, offset \in 0..1 :
       /\ Page(c, Rows(items, LookAhead(Normalized(l)), offset), Normalized(l))
       /\ due' = [due EXCEPT ![c] = {i \in items : Rank(items, i) >= offset}]
  /\ UNCHANGED <<time, key, items, stamped>>

\* ListCursor with the cursor of the page before.
Follow(c) ==
  /\ state[c] = "walking"
  /\ \E t \in token[c], now \in Clocks, l \in Limits :
       /\ Decodes(t, now)
       /\ Page(c, Rows(After(items, t.position), LookAhead(Normalized(l)), 0), Normalized(l))
  /\ UNCHANGED <<time, key, items, stamped, due>>

\* ListCursor with a cursor that has expired or was signed with another key.
Refused(c) ==
  /\ state[c] = "walking"
  /\ \E t \in token[c], now \in Clocks : ~Decodes(t, now)
  /\ state' = [state EXCEPT ![c] = "invalidCursor"]
  /\ UNCHANGED <<time, key, items, stamped, token, pages, due>>

\* The replicas restart with another CURSOR_SIGNING_KEY.
Rotate ==
  /\ key < MaxKey
  /\ key' = key + 1
  /\ UNCHANGED <<time, items, stamped, state, token, pages, due>>

Tick ==
  /\ time < MaxTime
  /\ time' = time + 1
  /\ UNCHANGED <<key, items, stamped, state, token, pages, due>>

Next ==
  \/ Stamp \/ Insert \/ InsertFails \/ Rotate \/ Tick
  \/ \E c \in Clients : First(c) \/ Follow(c) \/ Refused(c)

Spec == Init /\ [][Next]_vars

-----------------------------------------------------------------------------
Shown(c) == UNION {pages[c][n] : n \in 1..Len(pages[c])}

\* Pages never repeat or reorder an Item, whatever is created between them:
\* all of an earlier page is listed before all of a later one, and none is
\* longer than MaxPageSize.
PagesInOrder ==
  \A c \in Clients : \A m, n \in 1..Len(pages[c]) :
    /\ Cardinality(pages[c][n]) <= MaxPageSize
    /\ m < n => \A i \in pages[c][m], j \in pages[c][n] : Before(i, j)

\* A walk that reaches the end has shown every Item that was stored before the
\* walk passed its place, Items with equal timestamps included.
WalkComplete ==
  \A c \in Clients : state[c] = "end" => due[c] \subseteq Shown(c)

\* As long as clocks differ by less than the cursor lifetime, listing never
\* fails because an Item's timestamp lies after its cursor's expiry.
AlwaysContinues ==
  MaxSkew < TTL => \A c \in Clients : state[c] # "cursorState"

\* A cursor is followed only while its lifetime and the clocks' skew allow, and
\* refused before that only if the signing key has changed.
CursorLifetime ==
  [][\A c \in Clients : \A t \in token[c] :
       /\ pages'[c] # pages[c] /\ TTL > 0 => time < t.issued + TTL + MaxSkew
       /\ state[c] = "walking" /\ state'[c] = "invalidCursor" /\ t.key = key =>
            TTL > 0 /\ t.issued + TTL <= time + MaxSkew]_vars
=============================================================================
