----------------------- MODULE CursorPaginationProofs -----------------------
(***************************************************************************)
(* Proofs about CursorPagination, for any number of clients and Items, all *)
(* page sizes, lifetimes, skews and key rotations, and Items stored        *)
(* between two pages at any place of the list.                             *)
(***************************************************************************)
EXTENDS CursorPagination, FiniteSetTheorems, TLAPS

(***************************************************************************)
(* The order of the list.                                                  *)
(***************************************************************************)
\* CreatedAt and ID together order all Items strictly, ties included.
LEMMA ListOrder ==
  /\ \A i \in Item : ~Before(i, i)
  /\ \A i, j \in Item : i = j \/ Before(i, j) \/ Before(j, i)
  /\ \A i, j, k \in Item : Before(i, j) /\ Before(j, k) => Before(i, k)
<1>1. \A i \in Item : i.CreatedAt \in Nat /\ i.ID \in Nat
  BY CursorAssumption, Zenon DEF Item
<1>2. ASSUME NEW i \in Item, NEW j \in Item, i.CreatedAt = j.CreatedAt, i.ID = j.ID PROVE i = j
  BY <1>2, SMT DEF Item
<1>3. \A i, j \in Item : i = j \/ Before(i, j) \/ Before(j, i)
  BY <1>1, <1>2, SMT DEF Before
<1>4. \A i, j, k \in Item : Before(i, j) /\ Before(j, k) => Before(i, k)
  BY <1>1, SMT DEF Before
<1>5. \A i \in Item : ~Before(i, i) BY <1>1, SMT DEF Before
<1> QED BY <1>3, <1>4, <1>5, Zenon

\* An Item's rank counts those before it, fewer than there are.
LEMMA RankType ==
  ASSUME NEW S \in SUBSET Item, IsFiniteSet(S)
  PROVE  /\ Cardinality(S) \in Nat
         /\ \A i : Rank(S, i) \in Nat
         /\ \A i \in S : Rank(S, i) < Cardinality(S)
<1>1. Cardinality(S) \in Nat BY FS_CardinalityType, Zenon
<1>2. ASSUME NEW i PROVE Rank(S, i) \in Nat
  <2> DEFINE T == {j \in S : Before(j, i)}
  <2>1. IsFiniteSet(T) BY FS_Subset, Zenon
  <2> QED BY <2>1, FS_CardinalityType, Zenon DEF Rank
<1>3. ASSUME NEW i \in S PROVE Rank(S, i) < Cardinality(S)
  <2> DEFINE T == {j \in S : Before(j, i)}
  <2>1. T \in SUBSET S /\ i \notin T BY ListOrder, Zenon
  <2> HIDE DEF T
  <2>2. Cardinality(T) <= Cardinality(S) /\ Cardinality(T) # Cardinality(S) BY <2>1, FS_Subset, Zenon
  <2>3. Rank(S, i) = Cardinality(T) BY Zenon DEF Rank, T
  <2> QED BY <1>1, <1>2, <2>2, <2>3, SMT
<1> QED BY <1>1, <1>2, <1>3, Zenon

\* Ranks agree with the order of the list.
LEMMA RankOrder ==
  ASSUME NEW S \in SUBSET Item, IsFiniteSet(S), NEW i \in S, NEW j \in S
  PROVE  /\ Before(i, j) <=> Rank(S, i) < Rank(S, j)
         /\ Rank(S, i) = Rank(S, j) => i = j
<1>1. ASSUME NEW k \in S, NEW l \in S, Before(k, l) PROVE Rank(S, k) < Rank(S, l)
  <2> DEFINE T == {h \in S : Before(h, k)}
             U == {h \in S : Before(h, l)}
  <2>1. T \in SUBSET U /\ k \in U /\ k \notin T BY <1>1, ListOrder, Zenon
  <2>2. IsFiniteSet(U) BY FS_Subset, Zenon
  <2>3. Rank(S, k) = Cardinality(T) /\ Rank(S, l) = Cardinality(U) BY Zenon DEF Rank
  <2> HIDE DEF T, U
  <2>4. Cardinality(T) <= Cardinality(U) /\ Cardinality(T) # Cardinality(U) BY <2>1, <2>2, FS_Subset, Zenon
  <2>5. Rank(S, k) \in Nat /\ Rank(S, l) \in Nat BY RankType, Zenon
  <2> QED BY <2>3, <2>4, <2>5, SMT
<1>2. Rank(S, i) \in Nat /\ Rank(S, j) \in Nat BY RankType, Zenon
<1>3. i = j \/ Before(i, j) \/ Before(j, i) BY ListOrder, Zenon
<1>4. CASE i = j
  <2>1. ~Before(i, j) BY <1>4, ListOrder, Zenon
  <2> QED BY <1>2, <1>4, <2>1, SMT
<1>5. CASE Before(i, j)
  <2>1. Rank(S, i) < Rank(S, j) BY <1>1, <1>5, Zenon
  <2> QED BY <1>2, <1>5, <2>1, SMT
<1>6. CASE Before(j, i)
  <2>1. Rank(S, j) < Rank(S, i) BY <1>1, <1>6, Zenon
  <2>2. ~Before(i, j) BY <1>6, ListOrder, Zenon
  <2> QED BY <1>2, <2>1, <2>2, SMT
<1> QED BY <1>3, <1>4, <1>5, <1>6, Zenon

\* There are as many places from o on as are counted.
LEMMA Places ==
  ASSUME NEW o \in Nat, NEW n \in Nat
  PROVE  IsFiniteSet(o..(o + n - 1)) /\ Cardinality(o..(o + n - 1)) = n
<1> DEFINE T == o..(o + n - 1)
<1>1. o \in Int /\ o + n - 1 \in Int BY SMT
<1>2. IsFiniteSet(T) /\ Cardinality(T) = IF o > o + n - 1 THEN 0 ELSE (o + n - 1) - o + 1
  BY <1>1, FS_Interval, Zenon
<1> HIDE DEF T
<1>3. Cardinality(T) = n BY <1>2, SMT
<1> QED BY <1>2, <1>3, Zenon DEF T

\* Every place of the list is some Item's.
LEMMA RankOnto ==
  ASSUME NEW S \in SUBSET Item, IsFiniteSet(S), NEW n \in Nat, n < Cardinality(S)
  PROVE  \E i \in S : Rank(S, i) = n
<1> DEFINE T == 0..(0 + Cardinality(S) - 1)
           f == [i \in S |-> Rank(S, i)]
<1>1. Cardinality(S) \in Nat BY RankType, Zenon
<1>2. f \in [S -> T]
  <2>1. \A i \in S : Rank(S, i) \in Nat /\ Rank(S, i) < Cardinality(S) BY RankType, Zenon
  <2>2. \A i \in S : Rank(S, i) \in T BY <1>1, <2>1, SMT
  <2> QED BY <2>2, Zenon
<1>3. f \in Injection(S, T)
  <2>1. \A i, j \in S : f[i] = f[j] => i = j BY RankOrder, Zenon
  <2>2. DOMAIN f = S BY Zenon
  <2> HIDE DEF f, T
  <2> QED BY <1>2, <2>1, <2>2, Zenon DEF Injection, IsInjective
<1>4. IsFiniteSet(T) /\ Cardinality(T) = Cardinality(S) BY <1>1, Places, Zenon
<1>5. n \in T BY <1>1, SMT
<1>6. f \in Surjection(S, T)
  <2> HIDE DEF f, T
  <2> QED BY <1>3, <1>4, FS_Injection, Zenon
<1>7. PICK i \in S : f[i] = n BY <1>5, <1>6, Zenon DEF Surjection
<1> QED BY <1>7, Zenon

(***************************************************************************)
(* Rows and pages.                                                         *)
(***************************************************************************)
\* A query returns no more rows than its limit.
LEMMA RowsBounded ==
  ASSUME NEW S \in SUBSET Item, IsFiniteSet(S), NEW n \in Nat, NEW o \in Nat
  PROVE  /\ Rows(S, n, o) \in SUBSET S /\ IsFiniteSet(Rows(S, n, o))
         /\ Cardinality(Rows(S, n, o)) \in Nat /\ Cardinality(Rows(S, n, o)) <= n
<1> DEFINE R == Rows(S, n, o)
           T == o..(o + n - 1)
           f == [i \in R |-> Rank(S, i)]
<1>1. R \in SUBSET S /\ \A i \in R : Rank(S, i) >= o /\ Rank(S, i) < o + n BY Zenon DEF Rows
<1>2. IsFiniteSet(R) BY <1>1, FS_Subset, Zenon
<1>3. Cardinality(R) \in Nat BY <1>2, FS_CardinalityType, Zenon
<1> HIDE DEF R
<1>4. f \in [R -> T]
  <2>1. \A i \in R : Rank(S, i) \in Nat BY RankType, Zenon
  <2>2. \A i \in R : Rank(S, i) \in T BY <1>1, <2>1, SMT
  <2> QED BY <2>2, Zenon
<1>5. f \in Injection(R, T)
  <2>1. \A i, j \in R : f[i] = f[j] => i = j BY <1>1, RankOrder, Zenon
  <2>2. DOMAIN f = R BY Zenon
  <2> HIDE DEF f, T
  <2> QED BY <1>4, <2>1, <2>2, Zenon DEF Injection, IsInjective
<1>6. IsFiniteSet(T) /\ Cardinality(T) = n BY Places, Zenon
<1>7. Cardinality(R) <= n
  <2> HIDE DEF f, T
  <2>1. Cardinality(R) <= Cardinality(T) BY <1>5, <1>6, FS_Injection, Zenon
  <2> QED BY <1>6, <2>1, Zenon
<1> QED BY <1>1, <1>2, <1>3, <1>7, Zenon DEF R

\* A query that leaves a row out at the end has returned as many as its limit.
LEMMA RowsFull ==
  ASSUME NEW S \in SUBSET Item, IsFiniteSet(S), NEW n \in Nat, NEW o \in Nat,
         NEW i \in S, Rank(S, i) >= o + n
  PROVE  Cardinality(Rows(S, n, o)) >= n
<1> DEFINE R == Rows(S, n, o)
           T == o..(o + n - 1)
           f == [j \in R |-> Rank(S, j)]
<1>1. IsFiniteSet(R) /\ Cardinality(R) \in Nat BY RowsBounded, Zenon
<1>2. \A j : j \in R <=> j \in S /\ Rank(S, j) >= o /\ Rank(S, j) < o + n BY Zenon DEF Rows
<1> HIDE DEF R
<1>3. f \in [R -> T]
  <2>1. \A j \in R : Rank(S, j) \in Nat BY RankType, Zenon
  <2>2. \A j \in R : Rank(S, j) \in T BY <1>2, <2>1, SMT
  <2> QED BY <2>2, Zenon
<1>4. ASSUME NEW m \in T PROVE \E j \in R : f[j] = m
  <2>1. Rank(S, i) \in Nat /\ Rank(S, i) < Cardinality(S) /\ Cardinality(S) \in Nat BY RankType, Zenon
  <2>2. m \in Nat /\ m < Cardinality(S) /\ m >= o /\ m < o + n BY <2>1, SMT
  <2>3. PICK j \in S : Rank(S, j) = m BY <2>2, RankOnto, Zenon
  <2>4. j \in R BY <1>2, <2>2, <2>3, Zenon
  <2> QED BY <2>3, <2>4, Zenon
<1>5. f \in Surjection(R, T)
  <2> HIDE DEF f, T
  <2> QED BY <1>3, <1>4, Zenon DEF Surjection
<1>6. IsFiniteSet(T) /\ Cardinality(T) = n BY Places, Zenon
<1>7. n <= Cardinality(R)
  <2> HIDE DEF f, T
  <2>1. Cardinality(T) <= Cardinality(R) BY <1>1, <1>5, FS_Surjection, Zenon
  <2> QED BY <1>6, <2>1, Zenon
<1> QED BY <1>1, <1>7, SMT DEF R

\* A page that is not empty has a last Item.
LEMMA LastShown ==
  ASSUME NEW S \in SUBSET Item, IsFiniteSet(S), S # {}
  PROVE  Last(S) \in S /\ \A j \in S : j = Last(S) \/ Before(j, Last(S))
<1>1. Cardinality(S) \in Nat /\ Cardinality(S) # 0 BY RankType, FS_EmptySet, Zenon
<1>2. Cardinality(S) - 1 \in Nat /\ Cardinality(S) - 1 < Cardinality(S) BY <1>1, SMT
<1>3. PICK i \in S : Rank(S, i) = Cardinality(S) - 1 BY <1>2, RankOnto, Zenon
<1>4. ASSUME NEW j \in S PROVE i = j \/ Before(j, i)
  <2>1. Rank(S, j) \in Nat /\ Rank(S, j) < Cardinality(S) BY RankType, Zenon
  <2>2. Rank(S, j) = Rank(S, i) \/ Rank(S, j) < Rank(S, i) BY <1>1, <1>3, <2>1, SMT
  <2> QED BY <2>2, RankOrder, Zenon
<1>5. \E k \in S : \A j \in S : k = j \/ Before(j, k) BY <1>4, Zenon
<1> QED BY <1>5, Zenon DEF Last

\* What List and ListCursor make of a list whose first o Items are skipped:
\* without more rows the page shows all the rest, with more it shows at least
\* one, and all that it leaves out comes after the last one shown.
LEMMA PageShows ==
  ASSUME NEW S \in SUBSET Item, IsFiniteSet(S), NEW l \in Nat \ {0}, NEW o \in Nat,
         NEW rows, rows = Rows(S, l + 1, o), NEW shown, shown = Rows(rows, l, 0),
         NEW D, D = {i \in S : Rank(S, i) >= o}
  PROVE  /\ shown \in SUBSET D /\ IsFiniteSet(shown) /\ Cardinality(shown) <= l
         /\ ~(Cardinality(rows) > l) => shown = D
         /\ Cardinality(rows) > l =>
              /\ Last(shown) \in shown
              /\ \A j \in shown : j = Last(shown) \/ Before(j, Last(shown))
              /\ \A i \in D \ shown : Before(Last(shown), i)
<1>1. l \in Nat /\ l + 1 \in Nat /\ 0 \in Nat /\ 0 < l BY SMT
<1>2. /\ rows \in SUBSET S /\ rows \in SUBSET Item /\ IsFiniteSet(rows) /\ Cardinality(rows) \in Nat
  BY <1>1, RowsBounded, Zenon
<1>3. shown \in SUBSET rows /\ IsFiniteSet(shown) /\ Cardinality(shown) <= l
  BY <1>1, <1>2, RowsBounded, Zenon
<1>4. \A i : Rank(S, i) \in Nat /\ Rank(rows, i) \in Nat BY <1>2, RankType, Zenon
<1>5. ASSUME NEW i \in rows PROVE i \in D /\ Rank(S, i) < o + (l + 1) BY Zenon DEF Rows
<1>6. ASSUME NEW i \in rows PROVE i \in shown <=> Rank(rows, i) < l
  <2>1. i \in shown <=> Rank(rows, i) >= 0 /\ Rank(rows, i) < 0 + l BY Zenon DEF Rows
  <2> QED BY <1>1, <1>4, <2>1, SMT
<1>7. ASSUME NEW i \in D, i \notin rows PROVE Rank(S, i) >= o + (l + 1) /\ Cardinality(rows) > l
  <2>1. i \in S /\ ~(Rank(S, i) < o + (l + 1)) BY <1>7, Zenon DEF Rows
  <2>2. Rank(S, i) >= o + (l + 1) BY <1>1, <1>4, <2>1, SMT
  <2>3. Cardinality(rows) >= l + 1 BY <1>1, <2>1, <2>2, RowsFull, Zenon
  <2>4. Cardinality(rows) > l BY <1>1, <1>2, <2>3, SMT
  <2> QED BY <2>2, <2>4, Zenon
<1>8. ASSUME ~(Cardinality(rows) > l) PROVE shown = D
  <2>1. rows = D BY <1>5, <1>7, <1>8, Zenon
  <2>2. ASSUME NEW i \in rows PROVE Rank(rows, i) < l
    <3>1. Rank(rows, i) < Cardinality(rows) BY <1>2, RankType, Zenon
    <3> QED BY <1>1, <1>2, <1>4, <1>8, <3>1, SMT
  <2> QED BY <1>3, <1>6, <2>1, <2>2, Zenon
<1>9. ASSUME Cardinality(rows) > l
      PROVE  /\ Last(shown) \in shown
             /\ \A j \in shown : j = Last(shown) \/ Before(j, Last(shown))
             /\ \A i \in D \ shown : Before(Last(shown), i)
  <2>1. shown # {}
    <3>1. 0 < Cardinality(rows) BY <1>1, <1>2, <1>9, SMT
    <3>2. PICK i \in rows : Rank(rows, i) = 0 BY <1>1, <1>2, <3>1, RankOnto, Zenon
    <3> QED BY <1>1, <1>6, <3>2, Zenon
  <2>2. shown \in SUBSET Item BY <1>2, <1>3, Zenon
  <2>3. Last(shown) \in shown /\ \A j \in shown : j = Last(shown) \/ Before(j, Last(shown))
    BY <1>3, <2>1, <2>2, LastShown, Zenon
  <2>4. Last(shown) \in rows /\ Last(shown) \in S BY <1>2, <1>3, <2>3, Zenon
  <2>5. ASSUME NEW i \in D, i \notin shown PROVE Before(Last(shown), i)
    <3>1. CASE i \in rows
      <4>1. Rank(rows, Last(shown)) < l /\ ~(Rank(rows, i) < l) BY <1>6, <2>3, <2>4, <2>5, <3>1, Zenon
      <4>2. Rank(rows, Last(shown)) < Rank(rows, i) BY <1>1, <1>4, <4>1, SMT
      <4> QED BY <1>2, <2>4, <3>1, <4>2, RankOrder, Zenon
    <3>2. CASE i \notin rows
      <4>1. Rank(S, Last(shown)) < o + (l + 1) /\ Rank(S, i) >= o + (l + 1)
        BY <1>5, <1>7, <2>4, <3>2, Zenon
      <4>2. Rank(S, Last(shown)) < Rank(S, i) BY <1>1, <1>4, <4>1, SMT
      <4> QED BY <2>4, <4>2, RankOrder, Zenon
    <3> QED BY <3>1, <3>2, Zenon
  <2> QED BY <2>3, <2>5, Zenon
<1> QED BY <1>3, <1>5, <1>8, <1>9, Zenon

(***************************************************************************)
(* The inductive invariant.                                                *)
(***************************************************************************)
\* No Item is stamped later than a clock may read.
Types ==
  /\ time \in Nat /\ key \in Nat
  /\ items \in SUBSET Item /\ stamped \in SUBSET Item /\ IsFiniteSet(items)
  /\ \A i \in items \cup stamped : i.CreatedAt <= time + MaxSkew
  /\ state \in [Clients -> {"start", "walking", "end", "invalidCursor", "cursorState"}]
  /\ token \in [Clients -> SUBSET Token]
  /\ pages \in [Clients -> Seq(SUBSET Item)]
  /\ due \in [Clients -> SUBSET Item]

\* The expiry of a cursor was read off a clock when it was issued.
Dated(t) ==
  /\ t.issued <= time
  /\ TTL = 0 => t.expires = {}
  /\ TTL # 0 => \E e \in (t.issued + TTL)..(t.issued + TTL + MaxSkew) : t.expires = {e}

\* A cursor separates what its walk has shown from what it still owes.
Separates(c, p) ==
  /\ \A i \in Shown(c) : i = p \/ Before(i, p)
  /\ due[c] \subseteq Shown(c) \cup After(items, p)

Ordered(c) ==
  \A m, n \in 1..Len(pages[c]) :
    /\ Cardinality(pages[c][n]) <= MaxPageSize
    /\ m < n => \A i \in pages[c][m], j \in pages[c][n] : Before(i, j)

Walk(c) ==
  /\ \A t, u \in token[c] : t = u
  /\ \A t \in token[c] : t.position \in items /\ Dated(t) /\ Separates(c, t.position)
  /\ state[c] = "start" => token[c] = {} /\ pages[c] = <<>>
  /\ state[c] = "end" => token[c] = {} /\ due[c] \subseteq Shown(c)
  /\ state[c] = "cursorState" => ~(MaxSkew < TTL)
  /\ Ordered(c)

IInv ==
  /\ Types
  /\ \A c \in Clients : Walk(c)

\* A cursor of Encode names its Item and lives for TTL from a clock reading;
\* one is refused only where clocks may be TTL apart.
LEMMA Encoded ==
  ASSUME Types, NEW p \in items, NEW now \in Clocks
  PROVE  /\ \A t, u \in Encode(p, now) : t = u
         /\ \A t \in Encode(p, now) : t \in Token /\ t.position = p /\ Dated(t)
         /\ Encode(p, now) = {} => ~(MaxSkew < TTL)
<1>1. /\ p \in Item /\ p.CreatedAt \in Nat /\ p.CreatedAt <= time + MaxSkew
      /\ time \in Nat /\ key \in Nat /\ TTL \in Nat /\ MaxSkew \in Nat
  BY CursorAssumption, Zenon DEF Types, Item
<1>2. now \in Nat /\ time <= now /\ now <= time + MaxSkew BY <1>1, SMT DEF Clocks
<1>3. CASE TTL = 0
  <2> DEFINE t == [position |-> p, expires |-> {}, key |-> key, issued |-> time]
  <2>1. Encode(p, now) = {t} BY <1>3, Zenon DEF Encode
  <2>2. t \in Token BY <1>1, Zenon DEF Token
  <2>3. t.position = p /\ t.issued = time /\ t.expires = {} BY Zenon
  <2> HIDE DEF t
  <2>4. Dated(t) BY <1>1, <1>3, <2>3, SMT DEF Dated
  <2> QED BY <2>1, <2>2, <2>3, <2>4, Zenon
<1>4. CASE TTL # 0
  <2> DEFINE e == now + TTL
             t == [position |-> p, expires |-> {e}, key |-> key, issued |-> time]
  <2>1. Encode(p, now) = {x \in {t} : e > p.CreatedAt} BY <1>4, Zenon DEF Encode, Expires
  <2>2. e \in Nat /\ e \in (time + TTL)..(time + TTL + MaxSkew) BY <1>1, <1>2, SMT
  <2>3. ~(e > p.CreatedAt) => ~(MaxSkew < TTL) BY <1>1, <1>2, SMT
  <2> HIDE DEF e
  <2>4. t \in Token BY <1>1, <2>2, Zenon DEF Token
  <2>5. t.position = p /\ t.issued = time /\ t.expires = {e} BY Zenon
  <2> HIDE DEF t
  <2>6. Dated(t)
    <3>1. t.issued <= time BY <1>1, <2>5, SMT
    <3> QED BY <1>4, <2>2, <2>5, <3>1, Zenon DEF Dated
  <2> QED BY <2>1, <2>3, <2>4, <2>5, <2>6, Zenon
<1> QED BY <1>3, <1>4, Zenon

\* A walk that a step neither moves nor ends keeps its promises, if what the
\* step makes it owe lies after its cursor.
LEMMA WalkKept ==
  ASSUME Types, NEW c \in Clients, Walk(c), items \subseteq items', time' \in Nat, time' >= time,
         token'[c] = token[c], pages'[c] = pages[c],
         state'[c] = state[c] \/ state'[c] = "invalidCursor",
         token[c] = {} => due'[c] = due[c],
         \A t \in token[c] : due'[c] \subseteq due[c] \cup After(items', t.position)
  PROVE  Walk(c)'
<1>1. Shown(c)' = Shown(c) BY Zenon DEF Shown
<1>2. Ordered(c)' BY Zenon DEF Ordered, Walk
<1>3. ASSUME NEW t \in token[c] PROVE (t.position \in items /\ Dated(t) /\ Separates(c, t.position))'
  <2>1. t.position \in items /\ Dated(t) /\ Separates(c, t.position) BY Zenon DEF Walk
  <2>2. t \in Token BY Zenon DEF Types
  <2>3. t.issued \in Nat /\ time \in Nat BY <2>2, Zenon DEF Token, Types
  <2>4. t.issued <= time' BY <2>1, <2>3, SMT DEF Dated
  <2>5. Dated(t)' BY <2>1, <2>4, Zenon DEF Dated
  <2>6. After(items, t.position) \subseteq After(items', t.position) BY Zenon DEF After
  <2>7. \A i \in Shown(c)' : i = t.position \/ Before(i, t.position) BY <1>1, <2>1, Zenon DEF Separates
  <2>8. due'[c] \subseteq Shown(c)' \cup After(items', t.position) BY <1>1, <2>1, <2>6, Zenon DEF Separates
  <2> QED BY <2>1, <2>5, <2>7, <2>8, Zenon DEF Separates
<1>4. "invalidCursor" \notin {"start", "end", "cursorState"} BY Zenon
<1>5. state'[c] \in {"start", "end", "cursorState"} => state'[c] = state[c] BY <1>4, Zenon
<1>6. /\ state'[c] = "start" => token'[c] = {} /\ pages'[c] = <<>>
      /\ state'[c] = "end" => token'[c] = {} /\ due'[c] \subseteq Shown(c)'
      /\ state'[c] = "cursorState" => ~(MaxSkew < TTL)
  BY <1>1, <1>5, Zenon DEF Walk
<1>7. \A t, u \in token'[c] : t = u BY Zenon DEF Walk
<1> QED BY <1>2, <1>3, <1>6, <1>7, Zenon DEF Walk

\* The Items of all pages of a walk.
All(p) == UNION {p[n] : n \in 1..Len(p)}

\* One more page.
LEMMA PageAdded ==
  ASSUME NEW p \in Seq(SUBSET Item), NEW s \in SUBSET Item, NEW q, q = Append(p, s)
  PROVE  /\ q \in Seq(SUBSET Item)
         /\ Len(p) \in Nat /\ Len(q) = Len(p) + 1 /\ q[Len(q)] = s
         /\ \A n \in 1..Len(p) : q[n] = p[n]
         /\ All(q) = All(p) \cup s
<1>1. /\ q \in Seq(SUBSET Item)
      /\ Len(p) \in Nat /\ Len(q) = Len(p) + 1 /\ q[Len(q)] = s
      /\ \A n \in 1..Len(p) : q[n] = p[n]
  BY SMT
<1>2. \A n : n \in 1..Len(q) <=> n \in 1..Len(p) \/ n = Len(q) BY <1>1, SMT
<1>3. \A x : x \in All(q) <=> x \in All(p) \cup s BY <1>1, <1>2, Zenon DEF All
<1>4. All(q) = All(p) \cup s BY <1>3, SMT
<1> QED BY <1>1, <1>4, Zenon

\* A page of Items that all come after those shown keeps the order.
LEMMA OrderKept ==
  ASSUME Types, NEW c \in Clients, Ordered(c), NEW s \in SUBSET Item, Cardinality(s) <= MaxPageSize,
         pages'[c] = Append(pages[c], s), \A i \in Shown(c), j \in s : Before(i, j)
  PROVE  Ordered(c)' /\ Shown(c)' = Shown(c) \cup s
<1>1. pages[c] \in Seq(SUBSET Item) BY Zenon DEF Types
<1>2. /\ Len(pages[c]) \in Nat /\ Len(pages'[c]) = Len(pages[c]) + 1 /\ pages'[c][Len(pages'[c])] = s
      /\ \A n \in 1..Len(pages[c]) : pages'[c][n] = pages[c][n]
  BY <1>1, SMT
<1>3. Shown(c)' = Shown(c) \cup s
  <2>1. All(pages'[c]) = All(pages[c]) \cup s BY <1>1, PageAdded, Zenon
  <2> QED BY <2>1, Zenon DEF All, Shown
<1>4. ASSUME NEW m \in 1..Len(pages'[c]), NEW n \in 1..Len(pages'[c])
      PROVE  /\ Cardinality(pages'[c][n]) <= MaxPageSize
             /\ m < n => \A i \in pages'[c][m], j \in pages'[c][n] : Before(i, j)
  <2>1. CASE n \in 1..Len(pages[c])
    <3>1. m < n => m \in 1..Len(pages[c]) BY <1>2, <2>1, SMT
    <3>2. n \in 1..Len(pages[c]) /\ n \in 1..Len(pages[c]) BY <2>1
    <3> QED BY <1>2, <2>1, <3>1, <3>2, Zenon DEF Ordered
  <2>2. CASE n = Len(pages'[c])
    <3>1. m < n => m \in 1..Len(pages[c]) BY <1>2, <2>2, SMT
    <3>2. ASSUME m \in 1..Len(pages[c]) PROVE pages'[c][m] \subseteq Shown(c)
      BY <1>2, <3>2, Zenon DEF Shown
    <3> QED BY <1>2, <2>2, <3>1, <3>2, Zenon
  <2> QED BY <1>2, <2>1, <2>2, SMT
<1> QED BY <1>3, <1>4, Zenon DEF Ordered

(***************************************************************************)
(* The steps.                                                              *)
(***************************************************************************)
\* A page of the Items S, all of which come after those shown, settles what
\* the walk owes: its rest is shown, or comes after the new cursor.
LEMMA PageInv ==
  ASSUME IInv, NEW c \in Clients, NEW S \in SUBSET items, NEW o \in Nat, NEW l \in 1..MaxPageSize,
         Page(c, Rows(S, LookAhead(l), o), l), UNCHANGED <<time, key, items, stamped>>,
         \A i \in Shown(c), j \in S : Before(i, j),
         due' \in [Clients -> SUBSET Item], \A d \in Clients : d # c => due'[d] = due[d],
         due'[c] \subseteq Shown(c) \cup {i \in S : Rank(S, i) >= o}
  PROVE  IInv'
<1>1. Types /\ \A d \in Clients : Walk(d) BY Zenon DEF IInv
<1> DEFINE rows == Rows(S, l + 1, o)
           shown == Rows(rows, l, 0)
           D == {i \in S : Rank(S, i) >= o}
           more == Cardinality(rows) > l
<1>2. l \in Nat \ {0} /\ l \in Nat /\ MaxPageSize \in Nat /\ l <= MaxPageSize BY CursorAssumption, SMT
<1>3. S \in SUBSET Item /\ IsFiniteSet(S) BY <1>1, FS_Subset, Zenon DEF Types
<1>4. /\ shown \in SUBSET D /\ IsFiniteSet(shown) /\ Cardinality(shown) <= l
      /\ ~more => shown = D
      /\ more => /\ Last(shown) \in shown
                 /\ \A j \in shown : j = Last(shown) \/ Before(j, Last(shown))
                 /\ \A i \in D \ shown : Before(Last(shown), i)
  <2>1. /\ rows = Rows(S, l + 1, o) /\ shown = Rows(rows, l, 0) /\ D = {i \in S : Rank(S, i) >= o}
        /\ more <=> Cardinality(rows) > l
    BY Zenon
  <2> HIDE DEF rows, shown, D, more
  <2> QED BY <1>2, <1>3, <2>1, PageShows, SMT
<1>5. PICK now \in Clocks :
        LET next == IF more THEN Encode(Last(shown), now) ELSE {}
        IN  /\ token' = [token EXCEPT ![c] = next]
            /\ IF more /\ next = {}
               THEN /\ state' = [state EXCEPT ![c] = "cursorState"]
                    /\ UNCHANGED pages
               ELSE /\ state' = [state EXCEPT ![c] = IF more THEN "walking" ELSE "end"]
                    /\ pages' = [pages EXCEPT ![c] = Append(pages[c], shown)]
  BY Zenon DEF Page, LookAhead
<1>6. D \subseteq S BY Zenon
<1>7. due'[c] \subseteq Shown(c) \cup D BY Zenon
<1> HIDE DEF rows, shown, D, more
<1> DEFINE next == IF more THEN Encode(Last(shown), now) ELSE {}
<1>8. token'[c] = next /\ \A d \in Clients : d # c => token'[d] = token[d] BY <1>1, <1>5, Zenon DEF Types
<1>9. shown \in SUBSET Item /\ Cardinality(shown) <= MaxPageSize
  <2>1. Cardinality(shown) \in Nat BY <1>4, FS_CardinalityType, Zenon
  <2>2. Cardinality(shown) <= MaxPageSize BY <1>2, <1>4, <2>1, SMT
  <2> QED BY <1>3, <1>4, <1>6, <2>2, Zenon
<1>10. more => Last(shown) \in items BY <1>4, <1>6, Zenon
<1>11. /\ next \in SUBSET Token /\ \A t, u \in next : t = u
       /\ \A t \in next : more /\ t.position = Last(shown) /\ Dated(t)
       /\ more /\ next = {} => ~(MaxSkew < TTL)
  BY <1>1, <1>10, Encoded, Zenon
<1>12. \A t : Dated(t)' <=> Dated(t) BY Zenon DEF Dated
<1>13. ASSUME NEW d \in Clients, d # c, state'[d] = state[d], pages'[d] = pages[d] PROVE Walk(d)'
  <2>1. time' \in Nat /\ time' >= time BY <1>1, SMT DEF Types
  <2> QED BY <1>1, <1>8, <1>13, <2>1, WalkKept, Zenon
<1>14. CASE more /\ next = {}
  <2>1. state' = [state EXCEPT ![c] = "cursorState"] /\ pages' = pages BY <1>5, <1>14, Zenon
  <2>2. /\ state' \in [Clients -> {"start", "walking", "end", "invalidCursor", "cursorState"}]
        /\ state'[c] = "cursorState" /\ \A d \in Clients : d # c => state'[d] = state[d]
    BY <1>1, <2>1, Zenon DEF Types
  <2>3. token' \in [Clients -> SUBSET Token] BY <1>1, <1>5, <1>11, Zenon DEF Types
  <2>4. Types' BY <1>1, <2>1, <2>2, <2>3, Zenon DEF Types
  <2>5. Ordered(c)' BY <1>1, <2>1, Zenon DEF Walk, Ordered
  <2>6. state'[c] # "start" /\ state'[c] # "end" BY <2>2, Zenon
  <2>7. token'[c] = {} BY <1>8, <1>14, Zenon
  <2>8. Walk(c)' BY <1>11, <1>14, <2>5, <2>6, <2>7, Zenon DEF Walk
  <2> QED BY <1>13, <2>1, <2>2, <2>4, <2>8, Zenon DEF IInv
<1>15. CASE ~(more /\ next = {})
  <2> DEFINE label == IF more THEN "walking" ELSE "end"
  <2>1. state' = [state EXCEPT ![c] = label] /\ pages' = [pages EXCEPT ![c] = Append(pages[c], shown)]
    BY <1>5, <1>15, Zenon
  <2>2. label \in {"walking", "end"} /\ label # "start" /\ label # "cursorState" /\ (label = "end" => ~more)
    BY SMT
  <2> HIDE DEF label
  <2>3. /\ state' \in [Clients -> {"start", "walking", "end", "invalidCursor", "cursorState"}]
        /\ state'[c] = label /\ \A d \in Clients : d # c => state'[d] = state[d]
    BY <1>1, <2>1, <2>2, Zenon DEF Types
  <2>4. token' \in [Clients -> SUBSET Token] BY <1>1, <1>5, <1>11, Zenon DEF Types
  <2>5. /\ pages' \in [Clients -> Seq(SUBSET Item)] /\ pages'[c] = Append(pages[c], shown)
        /\ \A d \in Clients : d # c => pages'[d] = pages[d]
    <3>1. pages[c] \in Seq(SUBSET Item) BY <1>1, Zenon DEF Types
    <3>2. Append(pages[c], shown) \in Seq(SUBSET Item) BY <1>9, <3>1, PageAdded, Zenon
    <3> QED BY <1>1, <2>1, <3>2, Zenon DEF Types
  <2>6. Types' BY <1>1, <2>3, <2>4, <2>5, Zenon DEF Types
  <2>7. Ordered(c)' /\ Shown(c)' = Shown(c) \cup shown
    <3>1. \A i \in Shown(c), j \in shown : Before(i, j) BY <1>4, <1>6, Zenon
    <3>2. Ordered(c) BY <1>1, Zenon DEF Walk
    <3> QED BY <1>1, <1>9, <2>5, <3>1, <3>2, OrderKept, Zenon
  <2>8. ASSUME NEW t \in next PROVE (t.position \in items /\ Dated(t) /\ Separates(c, t.position))'
    <3>1. more /\ t.position = Last(shown) /\ Dated(t)' BY <1>11, <1>12, Zenon
    <3>2. Last(shown) \in shown /\ Last(shown) \in S BY <1>4, <1>6, <3>1, Zenon
    <3>3. \A i \in Shown(c)' : i = Last(shown) \/ Before(i, Last(shown)) BY <1>4, <2>7, <3>1, <3>2, Zenon
    <3>4. due'[c] \subseteq Shown(c)' \cup After(items', Last(shown))
      BY <1>4, <1>6, <1>7, <2>7, <3>1, Zenon DEF After
    <3> QED BY <3>1, <3>2, <3>3, <3>4, Zenon DEF Separates
  <2>9. label = "end" => next = {} /\ due'[c] \subseteq Shown(c)' BY <1>4, <1>7, <2>2, <2>7, Zenon
  <2> HIDE DEF next
  <2>10. Walk(c)' BY <1>8, <1>11, <2>2, <2>3, <2>7, <2>8, <2>9, Zenon DEF Walk
  <2> QED BY <1>13, <2>3, <2>5, <2>6, <2>10, Zenon DEF IInv
<1> QED BY <1>14, <1>15, Zenon

\* The sizes a page may have.
LEMMA PageSizes ==
  ASSUME NEW l \in Limits
  PROVE  Normalized(l) \in 1..MaxPageSize
BY CursorAssumption, SMT DEF Limits, Normalized

LEMMA FirstInv ==
  ASSUME IInv, NEW c \in Clients, First(c)
  PROVE  IInv'
<1>1. PICK l \in Limits, o \in 0..1 :
        /\ Page(c, Rows(items, LookAhead(Normalized(l)), o), Normalized(l))
        /\ due' = [due EXCEPT ![c] = {i \in items : Rank(items, i) >= o}]
  BY Zenon DEF First
<1>2. state[c] = "start" /\ UNCHANGED <<time, key, items, stamped>> BY Zenon DEF First
<1>3. Types /\ Walk(c) BY Zenon DEF IInv
<1>4. Shown(c) = {}
  <2>1. pages[c] = <<>> BY <1>2, <1>3, Zenon DEF Walk
  <2>2. 1..Len(<<>>) = {} BY SMT
  <2> QED BY <2>1, <2>2, Zenon DEF Shown
<1> DEFINE D == {i \in items : Rank(items, i) >= o}
<1>5. D \subseteq items /\ D \in SUBSET Item BY <1>3, Zenon DEF Types
<1>6. o \in Nat /\ Normalized(l) \in 1..MaxPageSize BY PageSizes, SMT
<1>7. due' \in [Clients -> SUBSET Item] /\ due'[c] = D /\ \A d \in Clients : d # c => due'[d] = due[d]
  BY <1>1, <1>3, <1>5, Zenon DEF Types
<1> QED BY <1>1, <1>2, <1>4, <1>6, <1>7, PageInv, Zenon

LEMMA FollowInv ==
  ASSUME IInv, NEW c \in Clients, Follow(c)
  PROVE  IInv'
<1>1. PICK t \in token[c], l \in Limits :
        Page(c, Rows(After(items, t.position), LookAhead(Normalized(l)), 0), Normalized(l))
  BY Zenon DEF Follow
<1>2. UNCHANGED <<time, key, items, stamped, due>> BY Zenon DEF Follow
<1>3. Types /\ Walk(c) BY Zenon DEF IInv
<1> DEFINE S == After(items, t.position)
<1>4. S \in SUBSET items /\ S \in SUBSET Item BY <1>3, Zenon DEF After, Types
<1>5. t.position \in items /\ Separates(c, t.position) BY <1>3, Zenon DEF Walk
<1>6. ASSUME NEW i \in Shown(c), NEW j \in S PROVE Before(i, j)
  <2>1. Before(t.position, j) /\ j \in Item /\ t.position \in Item BY <1>3, <1>4, <1>5, Zenon DEF After, Types
  <2>2. i = t.position \/ Before(i, t.position) BY <1>5, Zenon DEF Separates
  <2>3. i \in Item
    <3>1. pages[c] \in Seq(SUBSET Item) BY <1>3, Zenon DEF Types
    <3>2. PICK n \in 1..Len(pages[c]) : i \in pages[c][n] BY Zenon DEF Shown
    <3>3. pages[c][n] \in SUBSET Item BY <3>1, SMT
    <3> QED BY <3>2, <3>3, Zenon
  <2> QED BY <2>1, <2>2, <2>3, ListOrder, Zenon
<1>7. \A i \in S : Rank(S, i) >= 0
  <2>1. IsFiniteSet(S) BY <1>3, <1>4, FS_Subset, Zenon DEF Types
  <2>2. \A i : Rank(S, i) \in Nat BY <1>4, <2>1, RankType, Zenon
  <2> QED BY <2>2, SMT
<1>8. due'[c] \subseteq Shown(c) \cup {i \in S : Rank(S, i) >= 0}
  BY <1>2, <1>5, <1>7, Zenon DEF Separates
<1>9. 0 \in Nat /\ Normalized(l) \in 1..MaxPageSize BY PageSizes, SMT
<1>10. due' \in [Clients -> SUBSET Item] /\ \A d \in Clients : d # c => due'[d] = due[d]
  BY <1>2, <1>3, Zenon DEF Types
<1> HIDE DEF S
<1> QED BY <1>1, <1>2, <1>4, <1>6, <1>8, <1>9, <1>10, PageInv, Zenon DEF S

\* A step that leaves the walks alone.
LEMMA ListKept ==
  ASSUME IInv, Types', items \subseteq items', time' >= time, UNCHANGED <<state, token, pages, due>>
  PROVE  IInv'
<1>1. Types /\ \A c \in Clients : Walk(c) BY Zenon DEF IInv
<1>2. time' \in Nat BY Zenon DEF Types
<1>3. ASSUME NEW c \in Clients PROVE Walk(c)' BY <1>1, <1>2, WalkKept, Zenon
<1> QED BY <1>3, Zenon DEF IInv

\* An Item that is stored is owed by the walks that have yet to reach its place.
LEMMA InsertInv ==
  ASSUME IInv, Insert
  PROVE  IInv'
<1>1. Types /\ \A c \in Clients : Walk(c) BY Zenon DEF IInv
<1>2. PICK i \in stamped :
        /\ stamped' = stamped \ {i} /\ items' = items \cup {i}
        /\ due' = [c \in Clients |-> IF \E t \in token[c] : Before(t.position, i) THEN due[c] \cup {i} ELSE due[c]]
  BY Zenon DEF Insert
<1>3. UNCHANGED <<time, key, state, token, pages>> BY Zenon DEF Insert
<1>4. i \in Item BY <1>1, Zenon DEF Types
<1>5. ASSUME NEW c \in Clients
      PROVE  /\ due'[c] \in {due[c], due[c] \cup {i}} /\ due'[c] \in SUBSET Item
             /\ (\E t \in token[c] : Before(t.position, i)) \/ due'[c] = due[c]
  <2>1. due'[c] = IF \E t \in token[c] : Before(t.position, i) THEN due[c] \cup {i} ELSE due[c] BY <1>2, Zenon
  <2>2. due[c] \in SUBSET Item BY <1>1, Zenon DEF Types
  <2>3. due[c] \cup {i} \in SUBSET Item BY <1>4, <2>2, Zenon
  <2>4. CASE \E t \in token[c] : Before(t.position, i) BY <2>1, <2>3, <2>4, Zenon
  <2>5. CASE ~\E t \in token[c] : Before(t.position, i) BY <2>1, <2>2, <2>5, Zenon
  <2> QED BY <2>4, <2>5, Zenon
<1>6. Types'
  <2>1. IsFiniteSet(items') BY <1>1, <1>2, FS_AddElement, Zenon DEF Types
  <2>2. items' \in SUBSET Item /\ stamped' \in SUBSET Item /\ items' \cup stamped' \subseteq items \cup stamped
    BY <1>1, <1>2, <1>4, Zenon DEF Types
  <2>3. due' \in [Clients -> SUBSET Item]
    <3>1. due' = [c \in Clients |-> due'[c]] BY <1>2, Zenon
    <3> QED BY <1>5, <3>1, Zenon
  <2> QED BY <1>1, <1>3, <2>1, <2>2, <2>3, Zenon DEF Types
<1>7. ASSUME NEW c \in Clients PROVE Walk(c)'
  <2>1. items \subseteq items' /\ i \in items' BY <1>2, Zenon
  <2>2. time' \in Nat /\ time' >= time BY <1>1, <1>3, SMT DEF Types
  <2>3. token[c] = {} => due'[c] = due[c] BY <1>5, Zenon
  <2>4. ASSUME NEW t \in token[c] PROVE due'[c] \subseteq due[c] \cup After(items', t.position)
    <3>1. ASSUME NEW u \in token[c], Before(u.position, i) PROVE i \in After(items', t.position)
      <4>1. u = t BY <1>1, Zenon DEF Walk
      <4> QED BY <2>1, <3>1, <4>1, Zenon DEF After
    <3>2. CASE due'[c] = due[c] BY <3>2, Zenon
    <3>3. CASE due'[c] # due[c]
      <4>1. due'[c] = due[c] \cup {i} BY <1>5, <3>3, Zenon
      <4>2. i \in After(items', t.position) BY <1>5, <3>1, <3>3, Zenon
      <4> QED BY <4>1, <4>2, Zenon
    <3> QED BY <3>2, <3>3, Zenon
  <2> QED BY <1>1, <1>3, <2>1, <2>2, <2>3, <2>4, WalkKept, Zenon
<1> QED BY <1>6, <1>7, Zenon DEF IInv

LEMMA StampInv ==
  ASSUME IInv, Stamp
  PROVE  IInv'
<1>1. Types BY Zenon DEF IInv
<1>2. PICK id \in IDs, now \in Clocks : stamped' = stamped \cup {[ID |-> id, CreatedAt |-> now]}
  BY Zenon DEF Stamp
<1>3. UNCHANGED <<time, key, items, state, token, pages, due>> BY Zenon DEF Stamp
<1>4. time \in Nat /\ MaxSkew \in Nat BY <1>1, CursorAssumption, Zenon DEF Types
<1>5. now \in Nat /\ now <= time + MaxSkew /\ time >= time BY <1>4, SMT DEF Clocks
<1>6. [ID |-> id, CreatedAt |-> now] \in Item /\ [ID |-> id, CreatedAt |-> now].CreatedAt = now
  BY <1>5, Zenon DEF Item
<1>7. Types'
  <2>1. stamped' \in SUBSET Item BY <1>1, <1>2, <1>6, Zenon DEF Types
  <2>2. \A i \in items' \cup stamped' : i.CreatedAt <= time' + MaxSkew
    BY <1>1, <1>2, <1>3, <1>5, <1>6, Zenon DEF Types
  <2> QED BY <1>1, <1>3, <2>1, <2>2, Zenon DEF Types
<1> QED BY <1>3, <1>5, <1>7, ListKept, Zenon

LEMMA RefusedInv ==
  ASSUME IInv, NEW c \in Clients, Refused(c)
  PROVE  IInv'
<1>1. Types /\ \A d \in Clients : Walk(d) BY Zenon DEF IInv
<1>2. /\ state' = [state EXCEPT ![c] = "invalidCursor"]
      /\ UNCHANGED <<time, key, items, stamped, token, pages, due>>
  BY Zenon DEF Refused
<1>3. /\ state' \in [Clients -> {"start", "walking", "end", "invalidCursor", "cursorState"}]
      /\ \A d \in Clients : state'[d] = state[d] \/ state'[d] = "invalidCursor"
  BY <1>1, <1>2, Zenon DEF Types
<1>4. Types' BY <1>1, <1>2, <1>3, Zenon DEF Types
<1>5. time' \in Nat /\ time' >= time BY <1>1, <1>2, SMT DEF Types
<1>6. ASSUME NEW d \in Clients PROVE Walk(d)' BY <1>1, <1>2, <1>3, <1>5, WalkKept, Zenon
<1> QED BY <1>4, <1>6, Zenon DEF IInv

\* A failed insert, a rotated key and a tick of the clock change no walk.
LEMMA QuietInv ==
  ASSUME IInv, InsertFails \/ Rotate \/ Tick \/ UNCHANGED vars
  PROVE  IInv'
<1>1. Types /\ time \in Nat /\ key \in Nat /\ MaxSkew \in Nat BY CursorAssumption, Zenon DEF IInv, Types
<1>2. /\ UNCHANGED <<items, state, token, pages, due>> /\ stamped' \subseteq stamped
      /\ time' \in {time, time + 1} /\ key' \in {key, key + 1}
  BY Zenon DEF InsertFails, Rotate, Tick, vars
<1>3. time' \in Nat /\ time' >= time /\ key' \in Nat BY <1>1, <1>2, SMT
<1>4. \A i \in items' \cup stamped' : i.CreatedAt <= time' + MaxSkew
  <2>1. ASSUME NEW i \in items \cup stamped PROVE i.CreatedAt \in Nat /\ i.CreatedAt <= time + MaxSkew
    BY <1>1, Zenon DEF Types, Item
  <2>2. ASSUME NEW i \in items \cup stamped PROVE i.CreatedAt <= time' + MaxSkew
    BY <1>1, <1>3, <2>1, SMT
  <2> QED BY <1>2, <2>2, Zenon
<1>5. Types' BY <1>1, <1>2, <1>3, <1>4, Zenon DEF Types
<1> QED BY <1>2, <1>3, <1>5, ListKept, Zenon

LEMMA InitInv == Init => IInv
<1> SUFFICES ASSUME Init PROVE IInv OBVIOUS
<1>1. time \in Nat /\ key \in Nat BY SMT DEF Init
<1>2. <<>> \in Seq(SUBSET Item) /\ Len(<<>>) = 0 /\ 1..0 = {} BY SMT
<1>3. IsFiniteSet({}) BY FS_EmptySet, Zenon
<1>4. Types BY <1>1, <1>2, <1>3, Zenon DEF Init, Types
<1>5. ASSUME NEW c \in Clients PROVE Walk(c)
  <2>1. state[c] = "start" /\ token[c] = {} /\ pages[c] = <<>> BY Zenon DEF Init
  <2>2. Ordered(c) BY <1>2, <2>1, Zenon DEF Ordered
  <2>3. state[c] # "end" /\ state[c] # "cursorState" BY <2>1, Zenon
  <2> QED BY <2>1, <2>2, <2>3, Zenon DEF Walk
<1> QED BY <1>4, <1>5, Zenon DEF IInv

(***************************************************************************)
(* The theorems.                                                           *)
(***************************************************************************)
\* A cursor always separates what its walk has shown from what it owes, in
\* every state of every behaviour.
THEOREM InductiveInvariant == Spec => []IInv
<1>1. IInv /\ [Next]_vars => IInv'
  BY FirstInv, FollowInv, RefusedInv, InsertInv, StampInv, QuietInv, Zenon DEF Next
<1> QED BY InitInv, <1>1, PTL DEF Spec

\* However many Items are stored between two pages, and wherever, pages never
\* repeat or reorder an Item or exceed MaxPageSize.
THEOREM PagesStayInOrder == Spec => []PagesInOrder
<1>1. IInv => PagesInOrder BY Zenon DEF IInv, Walk, Ordered, PagesInOrder
<1> QED BY <1>1, InductiveInvariant, PTL

\* A walk that ends has shown every Item stored before it passed its place.
THEOREM WalksComplete == Spec => []WalkComplete
<1>1. IInv => WalkComplete BY Zenon DEF IInv, Walk, WalkComplete
<1> QED BY <1>1, InductiveInvariant, PTL

\* With clocks that differ by less than the lifetime, a page that has a
\* successor always gets its cursor.
THEOREM ContinuesAlways == Spec => []AlwaysContinues
<1>1. IInv => AlwaysContinues BY Zenon DEF IInv, Walk, AlwaysContinues
<1> QED BY <1>1, InductiveInvariant, PTL

\* A cursor is followed only within its lifetime and the clocks' skew, and an
\* unrotated one is refused only after its lifetime, less the skew.
THEOREM CursorsExpire == Spec => CursorLifetime
<1>1. ASSUME IInv, [Next]_vars, NEW c \in Clients, NEW t \in token[c]
      PROVE  /\ pages'[c] # pages[c] /\ TTL > 0 => time < t.issued + TTL + MaxSkew
             /\ state[c] = "walking" /\ state'[c] = "invalidCursor" /\ t.key = key =>
                  TTL > 0 /\ t.issued + TTL <= time + MaxSkew
  <2>1. Types /\ Walk(c) /\ Dated(t) /\ t \in Token BY <1>1, Zenon DEF IInv, Walk, Types
  <2>2. /\ time \in Nat /\ TTL \in Nat /\ MaxSkew \in Nat /\ t.issued \in Nat
        /\ \A now \in Clocks : now \in Nat /\ time <= now /\ now <= time + MaxSkew
    <3>1. time \in Nat /\ TTL \in Nat /\ MaxSkew \in Nat /\ t.issued \in Nat
      BY <2>1, CursorAssumption, Zenon DEF Types, Token
    <3> QED BY <3>1, SMT DEF Clocks
  <2>3. state[c] # "start" /\ \A u \in token[c] : u = t BY <1>1, <2>1, Zenon DEF Walk
  <2>4. CASE pages'[c] = pages[c] /\ state'[c] = state[c]
    <3>1. ~(state[c] = "walking" /\ state'[c] = "invalidCursor") BY <2>4, Zenon
    <3> QED BY <2>4, <3>1, Zenon
  <2>5. CASE Follow(c)
    <3>1. PICK now \in Clocks, l \in Limits :
            /\ Decodes(t, now)
            /\ Page(c, Rows(After(items, t.position), LookAhead(Normalized(l)), 0), Normalized(l))
      BY <2>3, <2>5, Zenon DEF Follow
    <3>2. ASSUME TTL > 0 PROVE time < t.issued + TTL + MaxSkew
      <4>1. PICK e \in (t.issued + TTL)..(t.issued + TTL + MaxSkew) : t.expires = {e}
        BY <2>1, <2>2, <3>2, SMT DEF Dated
      <4>2. now < e BY <3>1, <4>1, Zenon DEF Decodes
      <4> QED BY <2>2, <4>1, <4>2, SMT
    <3>3. PICK x \in {"cursorState", "walking", "end"} : state' = [state EXCEPT ![c] = x]
      BY <3>1, Zenon DEF Page
    <3>4. state'[c] # "invalidCursor"
      <4>1. state'[c] = x BY <2>1, <3>3, Zenon DEF Types
      <4> QED BY <3>3, <4>1, Zenon
    <3> QED BY <3>2, <3>4, Zenon
  <2>6. CASE Refused(c)
    <3>1. PICK now \in Clocks : ~Decodes(t, now) BY <2>3, <2>6, Zenon DEF Refused
    <3>2. pages' = pages BY <2>6, Zenon DEF Refused
    <3>3. ASSUME t.key = key PROVE TTL > 0 /\ t.issued + TTL <= time + MaxSkew
      <4>1. PICK e \in t.expires : ~(now < e) BY <3>1, <3>3, Zenon DEF Decodes
      <4>2. TTL # 0 BY <2>1, <4>1, Zenon DEF Dated
      <4>3. e \in (t.issued + TTL)..(t.issued + TTL + MaxSkew) BY <2>1, <4>1, <4>2, Zenon DEF Dated
      <4> QED BY <2>2, <4>1, <4>2, <4>3, SMT
    <3> QED BY <3>2, <3>3, Zenon
  <2>7. ASSUME NEW d \in Clients, First(d) \/ Follow(d) \/ Refused(d), d # c
        PROVE  pages'[c] = pages[c] /\ state'[c] = state[c]
    <3>1. \/ pages' = pages
          \/ \E x : pages' = [pages EXCEPT ![d] = x]
      BY <2>7, Zenon DEF First, Follow, Refused, Page
    <3>2. \E x : state' = [state EXCEPT ![d] = x] BY <2>7, Zenon DEF First, Follow, Refused, Page
    <3> QED BY <2>1, <2>7, <3>1, <3>2, Zenon DEF Types
  <2>8. CASE Stamp \/ Insert \/ InsertFails \/ Rotate \/ Tick \/ UNCHANGED vars
    <3>1. UNCHANGED <<pages, state>>
      BY <2>8, Zenon DEF Stamp, Insert, InsertFails, Rotate, Tick, vars
    <3> QED BY <2>4, <3>1, Zenon
  <2>9. ~First(c) BY <2>3, Zenon DEF First
  <2> QED BY <1>1, <2>4, <2>5, <2>6, <2>7, <2>8, <2>9, Zenon DEF Next
<1>2. IInv /\ [Next]_vars =>
        [\A c \in Clients : \A t \in token[c] :
           /\ pages'[c] # pages[c] /\ TTL > 0 => time < t.issued + TTL + MaxSkew
           /\ state[c] = "walking" /\ state'[c] = "invalidCursor" /\ t.key = key =>
                TTL > 0 /\ t.issued + TTL <= time + MaxSkew]_vars
  BY <1>1, Zenon
<1> QED BY <1>2, InductiveInvariant, PTL DEF Spec, CursorLifetime
=============================================================================
