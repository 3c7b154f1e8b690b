---------------------- MODULE RequestPipelineInvariant ----------------------
(***************************************************************************)
(* The inductive invariant of RequestPipeline, and the steps of a request  *)
(* between the middlewares that keep it: authentication, the limiter, the  *)
(* handlers and their answers.                                             *)
(***************************************************************************)
EXTENDS RequestPipeline, FiniteSetTheorems, TLAPS

\* The labels between the middlewares and the response.
Inside == {"authenticate", "limit", "limitRefused", "dispatch", "service", "calling", "respond"}

(***************************************************************************)
(* What each request has been through.                                     *)
(***************************************************************************)
SampleOf(r) == Sample(Method(req[r]), FullPath(req[r]), status[r])

\* What a request's layer says of its response, its panic and its observers.
Position(r) ==
  /\ pc[r] = "idle" =>
       layer[r] = 0 /\ ~panicking[r] /\ status[r] = 0 /\ span[r] = "none"
  /\ pc[r] \in Inside =>
       layer[r] = 4 /\ ~panicking[r] /\ status[r] = 0 /\ span[r] = "open"
  /\ pc[r] = "return" =>
       /\ layer[r] \in 1..4
       /\ panicking[r] => layer[r] = 4
       /\ ~panicking[r] => status[r] # 0
       /\ span[r] = IF layer[r] = 1 THEN "ended" ELSE "open"
  /\ pc[r] = "done" =>
       layer[r] = 0 /\ ~panicking[r] /\ status[r] # 0 /\ span[r] = "ended"
  /\ observed[r] = IF pc[r] = "done" \/ (pc[r] = "return" /\ layer[r] < 3)
                   THEN <<SampleOf(r)>> ELSE <<>>
  /\ accessLog[r] = IF pc[r] = "done" THEN <<status[r]>> ELSE <<>>

Positions ==
  /\ DOMAIN observed = Requests /\ DOMAIN accessLog = Requests
  /\ \A r \in Requests : Position(r)

\* The requests that a series counts as in flight.
Active(x) ==
  {r \in {s \in Requests : pc[s] # "idle" /\ observed[s] = <<>>} : SeriesOf(req[r]) = x}

Gauges ==
  /\ inFlight = [x \in DOMAIN inFlight |-> inFlight[x]]
  /\ \A r \in Requests : pc[r] # "idle" /\ observed[r] = <<>> => SeriesOf(req[r]) \in DOMAIN inFlight
  /\ \A x \in DOMAIN inFlight :
       IsFiniteSet(Active(x)) /\ inFlight[x] = Cardinality(Active(x))

(***************************************************************************)
(* Who each request acts for.                                              *)
(***************************************************************************)
Identity(r) ==
  IF config.auth
  THEN rateKey[r] = PrincipalRateKey(req[r]) /\ Verify(req[r].authorization) \in Subjects
  ELSE rateKey[r] = ClientRateKey(req[r])

Principals == {"principal"} \X Subjects

Identities ==
  \A r \in Requests :
    /\ pc[r] \in {"limit", "dispatch", "service", "calling", "respond"} /\ IsVersionedAPIPath(req[r])
         => Identity(r)
    /\ pc[r] = "limitRefused" => rateKey[r] = Anonymous
    /\ pc[r] \in {"authenticate", "limit", "limitRefused"} => IsVersionedAPIPath(req[r])
    /\ config.auth => rateKey[r] \in Principals \cup {Anonymous}

\* A bucket lacks no more tokens than were taken, and with authentication on
\* only principals and the refused have one.
Limits ==
  /\ buckets = [k \in DOMAIN buckets |-> buckets[k]]
  /\ IsFiniteSet(DOMAIN buckets)
  /\ \A k \in DOMAIN buckets : buckets[k] + spent[k] >= Burst
  /\ config.auth => DOMAIN buckets \subseteq Principals \cup {Anonymous}

(***************************************************************************)
(* The store.                                                              *)
(***************************************************************************)
OwnItem(r) == [ID |-> r, content |-> Fingerprint(req[r])]

\* A request is known to the store only once its service has called it.
Phases ==
  /\ phase \in [Requests -> {"start", "called", "performed", "done"}]
  /\ \A r \in Requests :
       /\ pc[r] \in {"service", "calling", "respond"} => ~Malformed(req[r])
       /\ pc[r] \in {"calling", "respond"} => phase[r] # "start"
       /\ phase[r] # "start" =>
            /\ pc[r] \in {"calling", "respond", "return", "done"}
            /\ req[r].route = "create" /\ req[r].form = "ok" /\ req[r].key # "malformed"
            /\ Identity(r)
       /\ phase[r] \in {"called", "performed"} => req[r].key # "absent"

\* Items and records belong to the requests that made them.
Made ==
  /\ \A i \in items : \E r \in Requests : phase[r] \in {"performed", "done"} /\ i = OwnItem(r)
  /\ \A e \in records :
       /\ e.itemID \in Requests
       /\ phase[e.itemID] \in {"performed", "done"}
       /\ req[e.itemID].key # "absent"
       /\ e = [key |-> StorageKey(e.itemID), fingerprint |-> Fingerprint(req[e.itemID]),
               itemID |-> e.itemID, at |-> 0]
       /\ OwnItem(e.itemID) \in items
  /\ \A e, f \in records : e.key = f.key => e = f
  /\ \A r \in Requests : phase[r] = "performed" => \E e \in records : e.itemID = r

\* What an answer with an Item rests on.
Answered(r) ==
  \/ /\ answer[r].kind = "stored" /\ answer[r].ID = r
     /\ req[r].key = "absent" /\ OwnItem(r) \in items
  \/ /\ answer[r].kind = "created" /\ answer[r].ID = r
     /\ \E e \in records : e.itemID = r
  \/ /\ answer[r].kind = "replayed"
     /\ \E e \in records : e.itemID = answer[r].ID /\ e.key = StorageKey(r)
                             /\ e.fingerprint = Fingerprint(req[r])

Answers ==
  /\ answer = [r \in Requests |-> answer[r]]
  /\ \A r \in Requests : answer[r].ID # NoID => phase[r] = "done" /\ Answered(r)

\* The statuses that blame a client, refuse a request, report success, report a
\* panic and report an invalid Item.
Blaming == {400, 422}
Refusing == {400, 401, 404, 422, 429}
Succeeding == {200, 201}
Failing == {500}
Unprocessable == 422

\* What a status says.
Reason(r) ==
  /\ status[r] \in Blaming =>
       \/ req[r].form # "ok" \/ req[r].key = "malformed"
       \/ status[r] = Unprocessable /\ req[r].route = "create" /\ config.generator = "custom"
  /\ status[r] \in Refusing => phase[r] = "start"
  /\ status[r] \in Succeeding /\ req[r].route = "create" =>
       answer[r].ID # NoID /\ status[r] = SuccessStatus(answer[r].kind)
  /\ MaxClients > Cardinality(Subjects) /\ config.auth /\ status[r] = 429 /\ rateKey[r] # Anonymous =>
       spent[rateKey[r]] >= Burst

Reasons == \A r \in Requests : Reason(r)

IInv ==
  /\ TypeOK
  /\ Positions
  /\ Gauges
  /\ Identities
  /\ Limits
  /\ Phases
  /\ Made
  /\ Answers
  /\ Reasons

(***************************************************************************)
(* Credentials: from the symbols of a header to its token.                 *)
(***************************************************************************)
Symbols == TokenCharacters \cup {"=", " ", "\t", "%"}

\* A nonempty set of naturals has a least element.
LEMMA LeastNat ==
  ASSUME NEW T \in SUBSET Nat, T # {}
  PROVE  \E m \in T : \A x \in T : m <= x
<1>1. PICK m \in T : \A x \in T : <<x, m>> \notin OpToRel(<, Nat)
  BY NatLessThanWellFounded, WFMin, Zenon
<1>2. \A x \in T : ~(x < m)
  BY <1>1, Zenon DEF OpToRel
<1>3. QED
  BY <1>2

\* Sequences are functions on an interval ...
LEMMA LenProperties ==
  ASSUME NEW S, NEW seq \in Seq(S)
  PROVE  Len(seq) \in Nat /\ seq \in [1..Len(seq) -> S] /\ DOMAIN seq = 1..Len(seq)
OBVIOUS

\* ... and functions on an interval are sequences,
LEMMA FunctionsAreSeqs ==
  ASSUME NEW S, NEW n \in Nat, NEW f \in [1..n -> S]
  PROVE  f \in Seq(S)
OBVIOUS

\* equal if they agree there.
LEMMA SeqEqual ==
  ASSUME NEW S, NEW s \in Seq(S), NEW t \in Seq(S), Len(s) = Len(t), \A i \in 1..Len(s) : s[i] = t[i]
  PROVE  s = t
OBVIOUS

\* Two sequences, one after the other.
LEMMA Concatenated ==
  ASSUME NEW S, NEW s \in Seq(S), NEW t \in Seq(S)
  PROVE  /\ s \o t \in Seq(S) /\ Len(s \o t) = Len(s) + Len(t)
         /\ \A i \in 1..(Len(s) + Len(t)) : (s \o t)[i] = IF i <= Len(s) THEN s[i] ELSE t[i - Len(s)]
OBVIOUS

\* A sequence is its elements before a position and the rest.
LEMMA Cut ==
  ASSUME NEW S, NEW s \in Seq(S), NEW m \in 1..(Len(s) + 1)
  PROVE  s = SubSeq(s, 1, m - 1) \o SubSeq(s, m, Len(s))
<1> DEFINE t == SubSeq(s, 1, m - 1)
           u == SubSeq(s, m, Len(s))
<1>1. /\ t \in Seq(S) /\ Len(t) = m - 1
      /\ \A i \in 1..(m - 1) : t[i] = s[i]
  OBVIOUS
<1>2. /\ u \in Seq(S) /\ Len(u) = Len(s) - m + 1
      /\ \A i \in 1..(Len(s) - m + 1) : u[i] = s[m + i - 1]
  OBVIOUS
<1> HIDE DEF t, u
<1>3. /\ t \o u \in Seq(S) /\ Len(t \o u) = Len(s)
      /\ \A i \in 1..Len(s) : (t \o u)[i] = s[i]
  <2>1. /\ t \o u \in Seq(S) /\ Len(t \o u) = Len(s)
        /\ \A i \in 1..Len(s) : (t \o u)[i] = IF i <= m - 1 THEN t[i] ELSE u[i - (m - 1)]
    BY <1>1, <1>2, Concatenated
  <2>2. \A i \in 1..Len(s) : i > m - 1 => u[i - (m - 1)] = s[i]
    BY <1>2
  <2> QED BY <1>1, <2>1, <2>2
<1>4. s = t \o u BY <1>3, SeqEqual, Zenon
<1> QED BY <1>4, Zenon DEF t, u

\* The padding of a token.
LEMMA Padding ==
  ASSUME NEW n \in Nat
  PROVE  /\ [i \in 1..n |-> "="] \in Seq(Symbols)
         /\ Len([i \in 1..n |-> "="]) = n
         /\ \A i \in 1..n : [j \in 1..n |-> "="][i] = "="
<1>1. [i \in 1..n |-> "="] \in [1..n -> Symbols] BY Zenon DEF Symbols
<1>2. [i \in 1..n |-> "="] \in Seq(Symbols) BY <1>1, FunctionsAreSeqs, Zenon
<1>3. Len([i \in 1..n |-> "="]) = n BY <1>1, <1>2, LenProperties
<1> QED BY <1>2, <1>3

\* What validBearerToken accepts is characters, then padding: the characters
\* end where the first "=" is.
LEMMA ValidIsB64 ==
  ASSUME NEW token \in Seq(Symbols), Len(token) <= MaxBearerTokenBytes, validBearerToken(token)
  PROVE  token \in B64Tokens
<1> DEFINE T == {i \in 1..(Len(token) + 1) : i = Len(token) + 1 \/ token[i] = "="}
<1>1. PICK m \in T : \A x \in T : m <= x
  <2>1. Len(token) + 1 \in T OBVIOUS
  <2> HIDE DEF T
  <2>2. T \subseteq Nat BY DEF T
  <2> QED BY <2>1, <2>2, LeastNat, Zenon
<1>2. m \in 2..(Len(token) + 1) /\ \A i \in 1..(m - 1) : token[i] \in TokenCharacters
  <2>1. m # 1 BY <1>1 DEF validBearerToken
  <2>2. \A i \in 1..(m - 1) : token[i] # "=" BY <1>1
  <2>3. ASSUME NEW i \in 1..(m - 1) PROVE token[i] \in TokenCharacters
    <3>1. i \in i..Len(token) /\ i \in DOMAIN token BY <1>1, <2>3
    <3> QED BY <2>2, <3>1, Zenon DEF validBearerToken
  <2> QED BY <1>1, <2>1, <2>3
<1>3. \A i \in m..Len(token) : token[i] = "="
  BY <1>1 DEF validBearerToken, TokenCharacters, BearerWords
<1> DEFINE chars == SubSeq(token, 1, m - 1)
           rest == SubSeq(token, m, Len(token))
           padding == Len(token) + 1 - m
<1>4. chars \in [1..(m - 1) -> TokenCharacters] /\ m - 1 \in 1..MaxBearerTokenBytes
  <2>1. m - 1 \in 1..MaxBearerTokenBytes BY <1>2, BearerAssumption
  <2>2. /\ chars \in Seq(Symbols) /\ Len(chars) = m - 1
        /\ \A i \in 1..(m - 1) : chars[i] = token[i]
    BY <1>2
  <2> HIDE DEF chars
  <2>3. chars \in [1..(m - 1) -> Symbols] BY <2>2, LenProperties
  <2>4. \A i \in 1..(m - 1) : chars[i] \in TokenCharacters BY <1>2, <2>2
  <2> QED BY <2>1, <2>3, <2>4
<1>5. padding \in 0..MaxBearerTokenBytes /\ padding \in Nat
  BY <1>2, BearerAssumption
<1>6. rest = [i \in 1..padding |-> "="]
  <2>1. /\ rest \in Seq(Symbols) /\ Len(rest) = padding
        /\ \A i \in 1..padding : rest[i] = token[m + i - 1]
    BY <1>2
  <2>2. \A i \in 1..padding : m + i - 1 \in m..Len(token)
    BY <1>2
  <2> HIDE DEF rest, padding
  <2>3. \A i \in 1..padding : rest[i] = "=" BY <1>3, <2>1, <2>2, Zenon
  <2> QED BY <1>5, <2>1, <2>3, Padding, SeqEqual
<1>7. token = chars \o rest
  BY <1>2, Cut
<1> HIDE DEF chars, padding, rest
<1>8. chars \in UNION {[1..n -> TokenCharacters] : n \in 1..MaxBearerTokenBytes}
  BY <1>4, Zenon
<1>9. rest \in {[i \in 1..n |-> "="] : n \in 0..MaxBearerTokenBytes}
  BY <1>5, <1>6, Zenon
<1>10. chars \o rest \in B64Tokens
  <2> DEFINE characters == UNION {[1..n -> TokenCharacters] : n \in 1..MaxBearerTokenBytes}
             paddings == {[i \in 1..n |-> "="] : n \in 0..MaxBearerTokenBytes}
  <2>1. chars \in characters /\ rest \in paddings BY <1>8, <1>9
  <2>2. B64Tokens = UNION {{c \o p : c \in characters} : p \in paddings} BY Zenon DEF B64Tokens
  <2> HIDE DEF characters, paddings
  <2>3. chars \o rest \in {c \o rest : c \in characters} BY <2>1, Zenon
  <2> QED BY <2>1, <2>2, <2>3, Zenon
<1> QED BY <1>7, <1>10

\* And it accepts all such tokens, which have no white space.
LEMMA B64IsValid ==
  ASSUME NEW token \in B64Tokens
  PROVE  /\ token \in Seq(Symbols) /\ Len(token) >= 1 /\ validBearerToken(token)
         /\ \A i \in 1..Len(token) : token[i] \notin {" ", "\t"}
<1>1. PICK chars \in UNION {[1..n -> TokenCharacters] : n \in 1..MaxBearerTokenBytes},
           padding \in 0..MaxBearerTokenBytes : token = chars \o [i \in 1..padding |-> "="]
  BY Zenon DEF B64Tokens
<1>2. PICK n \in 1..MaxBearerTokenBytes : chars \in [1..n -> TokenCharacters]
  BY <1>1, Zenon
<1>3. n \in Nat /\ padding \in Nat /\ n >= 1
  BY BearerAssumption
<1> DEFINE pad == [i \in 1..padding |-> "="]
<1>4. chars \in Seq(Symbols) /\ Len(chars) = n
  <2>1. chars \in [1..n -> Symbols] BY <1>2 DEF Symbols
  <2>2. chars \in Seq(Symbols) BY <1>3, <2>1, FunctionsAreSeqs, Zenon
  <2> QED BY <1>3, <2>1, <2>2, LenProperties
<1>5. pad \in Seq(Symbols) /\ Len(pad) = padding /\ \A i \in 1..padding : pad[i] = "="
  BY <1>3, Padding, Zenon
<1>6. token = chars \o pad BY <1>1
<1> HIDE DEF pad
<1>7. /\ token \in Seq(Symbols) /\ Len(token) = n + padding
      /\ \A i \in 1..(n + padding) : token[i] = IF i <= n THEN chars[i] ELSE pad[i - n]
  <2>1. /\ token \in Seq(Symbols) /\ Len(token) = Len(chars) + Len(pad)
        /\ \A i \in 1..(Len(chars) + Len(pad)) :
             token[i] = IF i <= Len(chars) THEN chars[i] ELSE pad[i - Len(chars)]
    BY <1>4, <1>5, <1>6, Concatenated, Zenon
  <2> QED BY <1>4, <1>5, <2>1, Zenon
<1>8. /\ \A i \in 1..n : token[i] \in TokenCharacters
      /\ \A i \in 1..(n + padding) : i > n => token[i] = "="
  <2>1. \A i \in 1..n : token[i] = chars[i] BY <1>3, <1>7
  <2>2. \A i \in 1..(n + padding) : i > n => i - n \in 1..padding /\ token[i] = pad[i - n] BY <1>3, <1>7
  <2> QED BY <1>2, <1>5, <2>1, <2>2
<1>9. DOMAIN token = 1..(n + padding) BY <1>7
<1>10. token # <<>> /\ token[1] # "=" BY <1>3, <1>7, <1>8 DEF TokenCharacters, BearerWords
<1>11. \A i \in DOMAIN token : token[i] \in TokenCharacters \/ \A j \in i..Len(token) : token[j] = "="
  <2> SUFFICES ASSUME NEW i \in 1..(n + padding), token[i] \notin TokenCharacters, NEW j \in i..Len(token)
               PROVE  token[j] = "="
    BY <1>9
  <2>1. i > n BY <1>3, <1>8
  <2> QED BY <1>3, <1>7, <1>8, <2>1
<1>12. ASSUME NEW i \in 1..Len(token) PROVE token[i] \notin {" ", "\t"}
  <2>1. token[i] \in TokenCharacters \cup {"="} BY <1>3, <1>7, <1>8
  <2> QED BY <2>1, Zenon DEF TokenCharacters, BearerWords
<1>13. Len(token) >= 1 BY <1>3, <1>7
<1> QED BY <1>7, <1>10, <1>11, <1>12, <1>13, Zenon DEF validBearerToken

\* Sequences of one and of two elements.
LEMMA Short ==
  ASSUME NEW S
  PROVE  /\ \A x \in S : <<x>> \in Seq(S) /\ Len(<<x>>) = 1 /\ <<x>>[1] = x
         /\ \A x \in S, y \in S : /\ <<x, y>> \in Seq(S) /\ Len(<<x, y>>) = 2
                                  /\ <<x, y>>[1] = x /\ <<x, y>>[2] = y
OBVIOUS

\* A sequence around one of its positions.
LEMMA Parts ==
  ASSUME NEW S, NEW s \in Seq(S), NEW k \in 1..Len(s)
  PROVE  /\ SubSeq(s, 1, k - 1) \in Seq(S) /\ Len(SubSeq(s, 1, k - 1)) = k - 1
         /\ \A i \in 1..(k - 1) : SubSeq(s, 1, k - 1)[i] = s[i]
         /\ SubSeq(s, k + 1, Len(s)) \in Seq(S) /\ Len(SubSeq(s, k + 1, Len(s))) = Len(s) - k
         /\ \A i \in 1..(Len(s) - k) : SubSeq(s, k + 1, Len(s))[i] = s[k + i]
OBVIOUS

\* A sequence that starts with two elements.
LEMMA Prefixed ==
  ASSUME NEW h \in Seq(Symbols), Len(h) = 2, NEW t \in Seq(Symbols)
  PROVE  /\ h \o t \in Seq(Symbols) /\ Len(h \o t) = 2 + Len(t)
         /\ (h \o t)[1] = h[1] /\ (h \o t)[2] = h[2]
         /\ \A i \in 3..Len(h \o t) : i - 2 \in 1..Len(t) /\ (h \o t)[i] = t[i - 2]
<1>1. PICK s : s = h \o t BY Zenon
<1>2. /\ s \in Seq(Symbols) /\ Len(s) = Len(h) + Len(t)
      /\ \A i \in 1..(Len(h) + Len(t)) : s[i] = IF i <= Len(h) THEN h[i] ELSE t[i - Len(h)]
  BY <1>1, Concatenated, Zenon
<1>3. Len(t) \in Nat BY LenProperties, Zenon
<1>4. s[1] = h[1] /\ s[2] = h[2] BY <1>2, <1>3
<1>5. ASSUME NEW i \in 3..Len(s) PROVE i - 2 \in 1..Len(t) /\ s[i] = t[i - 2]
  <2>1. i \in 1..(Len(h) + Len(t)) /\ ~(i <= Len(h)) /\ i - Len(h) = i - 2 BY <1>2, <1>3
  <2> QED BY <1>2, <1>3, <2>1
<1> QED BY <1>1, <1>2, <1>4, <1>5, Zenon

\* One word before a space.
LEMMA AfterWord ==
  ASSUME NEW raw \in Seq(Symbols), NEW k \in 1..Len(raw),
         NEW h \in Seq(Symbols), Len(h) = 2, h[1] = SubSeq(raw, 1, k - 1)[1], h[2] = raw[k],
         Len(SubSeq(raw, 1, k - 1)) = 1
  PROVE  raw = h \o SubSeq(raw, k + 1, Len(raw))
<1> DEFINE t == SubSeq(raw, k + 1, Len(raw))
<1>1. k = 2 BY Parts
<1>2. raw[1] = h[1] /\ raw[2] = h[2]
  <2>1. 1 \in 1..(k - 1) BY <1>1
  <2> QED BY <1>1, <2>1, Parts, Zenon
<1>3. t \in Seq(Symbols) /\ Len(t) = Len(raw) - 2 /\ \A i \in 1..(Len(raw) - 2) : t[i] = raw[2 + i]
  BY <1>1, Parts, Zenon
<1> HIDE DEF t
<1>4. PICK s : s = h \o t BY Zenon
<1>5. /\ s \in Seq(Symbols) /\ Len(s) = 2 + Len(t) /\ s[1] = h[1] /\ s[2] = h[2]
      /\ \A i \in 3..Len(s) : i - 2 \in 1..Len(t) /\ s[i] = t[i - 2]
  <2>1. t \in Seq(Symbols) BY <1>3
  <2> QED BY <1>4, <2>1, Prefixed, Zenon
<1>6. Len(s) = Len(raw) BY <1>1, <1>3, <1>5
<1>7. ASSUME NEW i \in 1..Len(s) PROVE s[i] = raw[i]
  <2>1. CASE i \in 1..2 BY <1>2, <1>5, <2>1
  <2>2. CASE i \in 3..Len(s)
    <3>1. i - 2 \in 1..(Len(raw) - 2) /\ 2 + (i - 2) = i BY <1>1, <1>6, <2>2
    <3>2. t[i - 2] = raw[i] BY <1>3, <3>1, SMTT(20)
    <3> QED BY <1>5, <2>2, <3>2, Zenon
  <2> QED BY <1>5, <1>6, <2>1, <2>2
<1>8. s = raw BY <1>5, <1>6, <1>7, SeqEqual, Zenon
<1> QED BY <1>4, <1>8, Zenon DEF t

\* Only one value of the scheme, a space and a token passes ParseBearerToken,
\* which returns that token.
LEMMA HeaderOfToken ==
  ASSUME NEW values \in Seq(Seq(Symbols)), ParseBearerHeader(values) # Refused
  PROVE  /\ ParseBearerHeader(values) \in B64Tokens /\ Len(ParseBearerHeader(values)) <= MaxBearerTokenBytes
         /\ \E word \in BearerWords : values = << <<word, " ">> \o ParseBearerHeader(values) >>
<1>1. PICK raw : raw = values[1] BY Zenon
<1>2. PICK spaces : spaces = {i \in DOMAIN raw : raw[i] = " "} BY Zenon
<1>3. PICK separator : separator = CHOOSE i \in spaces : TRUE BY Zenon
<1>4. PICK token : token = SubSeq(raw, separator + 1, Len(raw)) BY Zenon
<1>5. /\ Len(values) = 1
      /\ Cardinality(spaces) = 1
      /\ SubSeq(raw, 1, separator - 1) \in {<<word>> : word \in BearerWords}
      /\ ParseBearerHeader(values) = token
      /\ Len(token) <= MaxBearerTokenBytes
      /\ validBearerToken(token)
  BY <1>1, <1>2, <1>3, <1>4, Zenon DEF ParseBearerHeader
<1>6. raw \in Seq(Symbols) /\ DOMAIN raw = 1..Len(raw) /\ Len(raw) \in Nat
  <2>1. 1 \in 1..Len(values) BY <1>5
  <2>2. raw \in Seq(Symbols) BY <1>1, <2>1, LenProperties, Zenon
  <2> QED BY <2>2, LenProperties, Zenon
<1>7. values = <<raw>>
  <2>1. <<raw>> \in Seq(Seq(Symbols)) /\ Len(<<raw>>) = 1 /\ <<raw>>[1] = raw BY <1>6, Short, Zenon
  <2>2. \A i \in 1..Len(values) : values[i] = <<raw>>[i] BY <1>1, <1>5, <2>1
  <2> QED BY <1>5, <2>1, <2>2, SeqEqual
<1>8. separator \in 1..Len(raw) /\ raw[separator] = " "
  <2>1. IsFiniteSet(spaces)
    <3>1. IsFiniteSet(1..Len(raw)) BY <1>6, FS_Interval
    <3>2. spaces \subseteq 1..Len(raw) BY <1>2, <1>6, Zenon
    <3> QED BY <3>1, <3>2, FS_Subset, Zenon
  <2>2. PICK x : spaces = {x} BY <1>5, <2>1, FS_Singleton, Zenon
  <2>3. separator \in spaces BY <1>3, <2>2, Zenon
  <2> QED BY <1>2, <1>6, <2>3, Zenon
<1>9. PICK word \in BearerWords : SubSeq(raw, 1, separator - 1) = <<word>> BY <1>5, Zenon
<1>10. word \in Symbols BY Zenon DEF Symbols, TokenCharacters
<1>11. raw = <<word, " ">> \o token
  <2>1. " " \in Symbols BY Zenon DEF Symbols
  <2>2. Len(<<word>>) = 1 /\ <<word>>[1] = word BY <1>10, Short, Zenon
  <2>3. PICK h : h = <<word, " ">> BY Zenon
  <2>4. h \in Seq(Symbols) /\ Len(h) = 2 /\ h[1] = word /\ h[2] = " " BY <1>10, <2>1, <2>3, Short, Zenon
  <2>5. /\ Len(SubSeq(raw, 1, separator - 1)) = 1 /\ h[1] = SubSeq(raw, 1, separator - 1)[1]
        /\ h[2] = raw[separator]
    BY <1>8, <1>9, <2>2, <2>4, Zenon
  <2>6. raw \in Seq(Symbols) /\ separator \in 1..Len(raw) /\ h \in Seq(Symbols) /\ Len(h) = 2
    BY <1>6, <1>8, <2>4, Zenon
  <2>7. raw = h \o SubSeq(raw, separator + 1, Len(raw)) BY <2>5, <2>6, AfterWord, Zenon
  <2> QED BY <1>4, <2>3, <2>7, Zenon
<1>12. token \in Seq(Symbols) BY <1>4, <1>6, <1>8, Parts, Zenon
<1>13. token \in B64Tokens BY <1>5, <1>12, ValidIsB64, Zenon
<1> QED BY <1>5, <1>7, <1>11, <1>13, Zenon

\* A value made of a word, a space and a token, around the space.
LEMMA AroundSpace ==
  ASSUME NEW h \in Seq(Symbols), Len(h) = 2, NEW token \in Seq(Symbols), Len(token) >= 1
  PROVE  /\ Len(h \o token) = 2 + Len(token) /\ DOMAIN (h \o token) = 1..Len(h \o token) /\ 2 \in DOMAIN (h \o token) /\ (h \o token)[2] = h[2]
         /\ \A i \in DOMAIN (h \o token) : i = 2 \/ (h \o token)[i] = h[1] \/ \E j \in 1..Len(token) : (h \o token)[i] = token[j]
         /\ SubSeq(h \o token, 1, 1) \in Seq(Symbols) /\ Len(SubSeq(h \o token, 1, 1)) = 1
         /\ SubSeq(h \o token, 1, 1)[1] = h[1]
         /\ SubSeq(h \o token, 3, Len(h \o token)) = token
<1>0. PICK raw : raw = h \o token BY Zenon
<1>1. Len(token) \in Nat BY LenProperties, Zenon
<1>2. /\ raw \in Seq(Symbols) /\ Len(raw) = 2 + Len(token) /\ raw[1] = h[1] /\ raw[2] = h[2]
      /\ \A i \in 3..Len(raw) : i - 2 \in 1..Len(token) /\ raw[i] = token[i - 2]
  BY <1>0, Prefixed, Zenon
<1>3. DOMAIN raw = 1..Len(raw) BY <1>2, LenProperties, Zenon
<1>4. 2 \in 1..Len(raw) /\ raw[2] = h[2] BY <1>1, <1>2
<1>5. ASSUME NEW i \in DOMAIN raw
      PROVE  i = 2 \/ raw[i] = h[1] \/ \E j \in 1..Len(token) : raw[i] = token[j]
  <2>1. i \in {1, 2} \/ i \in 3..Len(raw) BY <1>3
  <2> QED BY <1>2, <2>1, Zenon
<1>6. /\ SubSeq(raw, 1, 1) \in Seq(Symbols) /\ Len(SubSeq(raw, 1, 1)) = 1
      /\ SubSeq(raw, 1, 1)[1] = h[1]
  BY <1>2, <1>4, Parts
<1>7. SubSeq(raw, 3, Len(raw)) = token
  <2>1. PICK t : t = SubSeq(raw, 3, Len(raw)) BY Zenon
  <2>2. t \in Seq(Symbols) /\ Len(t) = Len(raw) - 2 /\ \A i \in 1..(Len(raw) - 2) : t[i] = raw[2 + i]
    BY <1>2, <1>4, <2>1, Parts
  <2>3. Len(t) = Len(token) BY <1>1, <1>2, <2>2
  <2>4. ASSUME NEW i \in 1..Len(t) PROVE t[i] = token[i]
    <3>1. 2 + i \in 3..Len(raw) /\ (2 + i) - 2 = i BY <1>1, <1>2, <2>2
    <3>2. raw[2 + i] = token[i] BY <1>2, <3>1
    <3> QED BY <2>2, <2>3, <3>2, <1>1, <1>2
  <2>5. t = token BY <2>2, <2>3, <2>4, SeqEqual, Zenon
  <2> QED BY <2>1, <2>5
<1> QED BY <1>0, <1>2, <1>3, <1>4, <1>5, <1>6, <1>7, Zenon

\* And every such value passes, with the token it was made of.
LEMMA TokenOfHeader ==
  ASSUME NEW token \in B64Tokens, Len(token) <= MaxBearerTokenBytes, NEW word \in BearerWords
  PROVE  ParseBearerHeader(<< <<word, " ">> \o token >>) = token
<1>1. PICK h, raw, values : h = <<word, " ">> /\ raw = h \o token /\ values = <<raw>> BY Zenon
<1>2. PICK spaces : spaces = {i \in DOMAIN raw : raw[i] = " "} BY Zenon
<1>3. PICK separator : separator = CHOOSE i \in spaces : TRUE BY Zenon
<1>5. /\ token \in Seq(Symbols) /\ Len(token) >= 1 /\ validBearerToken(token)
      /\ \A i \in 1..Len(token) : token[i] \notin {" ", "\t"}
  BY B64IsValid, Zenon
<1>6. word \in Symbols /\ " " \in Symbols /\ word \notin {" ", "\t"} /\ " " # "\t"
  BY Zenon DEF Symbols, TokenCharacters, BearerWords
<1>7. h \in Seq(Symbols) /\ Len(h) = 2 /\ h[1] = word /\ h[2] = " "
  BY <1>1, <1>6, Short, Zenon
<1>8. /\ Len(raw) = 2 + Len(token) /\ DOMAIN raw = 1..Len(raw) /\ 2 \in DOMAIN raw /\ raw[2] = h[2]
      /\ \A i \in DOMAIN raw : i = 2 \/ raw[i] = h[1] \/ \E j \in 1..Len(token) : raw[i] = token[j]
      /\ SubSeq(raw, 1, 1) \in Seq(Symbols) /\ Len(SubSeq(raw, 1, 1)) = 1
      /\ SubSeq(raw, 1, 1)[1] = h[1]
      /\ SubSeq(raw, 3, Len(raw)) = token
  <2>1. raw = h \o token BY <1>1
  <2>2. token \in Seq(Symbols) /\ Len(token) >= 1 BY <1>5
  <2>3. h \in Seq(Symbols) /\ Len(h) = 2 BY <1>7
  <2> QED BY <2>1, <2>2, <2>3, AroundSpace, ZenonT(30)
<1>9. ASSUME NEW i \in DOMAIN raw PROVE (raw[i] = " " <=> i = 2) /\ raw[i] # "\t"
  <2>1. CASE i = 2 BY <1>6, <1>7, <1>8, <2>1, Zenon
  <2>2. CASE i # 2 /\ raw[i] = h[1] BY <1>6, <1>7, <2>2, Zenon
  <2>3. CASE i # 2 /\ \E j \in 1..Len(token) : raw[i] = token[j] BY <1>5, <2>3, Zenon
  <2> QED BY <1>8, <2>1, <2>2, <2>3, Zenon
<1>10. spaces = {2} BY <1>2, <1>8, <1>9, Zenon
<1>11. separator = 2 /\ Cardinality(spaces) = 1 BY <1>3, <1>10, FS_Singleton, Zenon
<1>12. SubSeq(raw, 1, separator - 1) \in {<<x>> : x \in BearerWords}
  <2>1. <<word>> \in Seq(Symbols) /\ Len(<<word>>) = 1 /\ <<word>>[1] = word BY <1>6, Short, Zenon
  <2>2. PICK first, w : first = SubSeq(raw, 1, 1) /\ w = <<word>> BY Zenon
  <2>3. first \in Seq(Symbols) /\ w \in Seq(Symbols) /\ Len(first) = 1 /\ Len(w) = 1 /\ first[1] = w[1]
    BY <1>7, <1>8, <2>1, <2>2, Zenon
  <2>4. first = w
    <3>1. Len(first) = Len(w) /\ \A i \in 1..Len(first) : first[i] = w[i] BY <2>3
    <3> QED BY <2>3, <3>1, SeqEqual, Zenon
  <2>5. separator - 1 = 1 BY <1>11
  <2> QED BY <2>2, <2>4, <2>5, Zenon
<1>13. Len(values) = 1 /\ values[1] = raw BY <1>1
<1>14. Len(raw) <= MaxBearerTokenBytes + 2 /\ separator \notin {1, Len(raw)}
  <2>1. Len(raw) = 2 + Len(token) /\ separator = 2 BY <1>8, <1>11, Zenon
  <2>2. Len(token) \in Nat /\ Len(token) >= 1 BY <1>5, LenProperties, Zenon
  <2> QED BY <2>1, <2>2, BearerAssumption
<1>15. SubSeq(raw, separator + 1, Len(raw)) = token
  <2>1. separator + 1 = 3 BY <1>11
  <2> QED BY <1>8, <2>1, Zenon
<1>16. ParseBearerHeader(values) = token
  BY <1>2, <1>3, <1>5, <1>9, <1>11, <1>12, <1>13, <1>14, <1>15, ZenonT(30) DEF ParseBearerHeader
<1> QED BY <1>1, <1>16, Zenon

\* The principals of a header: at most the one its token is configured for.
LEMMA Verified ==
  ASSUME NEW values \in Seq(Seq(Symbols)), NEW principals,
         principals = {Secrets[token] : token \in {t \in Configured : \E word \in BearerWords :
                                                    values = << <<word, " ">> \o t >>}}
  PROVE  /\ Verify(values) = "refused" <=> principals = {}
         /\ Verify(values) # "refused" => Verify(values) \in principals
<1>1. PICK token : token = ParseBearerHeader(values) OBVIOUS
<1>2. CASE token # Refused /\ token \in DOMAIN Secrets
  <2>1. Verify(values) = Secrets[token] BY <1>1, <1>2, Zenon DEF Verify
  <2>2. Secrets[token] # "refused" BY <1>2, PipelineAssumption, Zenon
  <2>3. token \in Configured /\ \E word \in BearerWords : values = << <<word, " ">> \o token >>
    BY <1>1, <1>2, HeaderOfToken, Zenon DEF Configured
  <2>4. Secrets[token] \in principals BY <2>3, Zenon
  <2> QED BY <2>1, <2>2, <2>4, Zenon
<1>3. CASE ~(token # Refused /\ token \in DOMAIN Secrets)
  <2>1. Verify(values) = "refused" BY <1>1, <1>3, Zenon DEF Verify
  <2>2. ASSUME NEW t \in Configured, NEW word \in BearerWords, values = << <<word, " ">> \o t >>
        PROVE  FALSE
    <3>1. t \in B64Tokens /\ t \in DOMAIN Secrets /\ Len(t) <= MaxBearerTokenBytes BY Zenon DEF Configured
    <3>2. token = t BY <1>1, <2>2, <3>1, TokenOfHeader, Zenon
    <3>3. t # Refused BY <3>1, B64IsValid, Zenon DEF validBearerToken, Refused
    <3> QED BY <1>3, <3>1, <3>2, <3>3, Zenon
  <2> QED BY <2>1, <2>2, Zenon
<1> QED BY <1>2, <1>3, Zenon

(***************************************************************************)
(* Operators.                                                              *)
(***************************************************************************)
\* The first matching row of a service error's table decides.
LEMMA FirstRow ==
  ASSUME NEW rows \in SUBSET (1..8), rows # {}
  PROVE  Min(rows) \in rows /\ \A y \in rows : Min(rows) <= y
<1>1. \E x \in rows : \A y \in rows : x <= y
  <2>1. CASE 1 \in rows BY <2>1, SMT
  <2>2. CASE 1 \notin rows /\ 2 \in rows BY <2>2, SMT
  <2>3. CASE rows \cap {1, 2} = {} /\ 3 \in rows BY <2>3, SMT
  <2>4. CASE rows \cap {1, 2, 3} = {} /\ 4 \in rows BY <2>4, SMT
  <2>5. CASE rows \cap {1, 2, 3, 4} = {} /\ 5 \in rows BY <2>5, SMT
  <2>6. CASE rows \cap {1, 2, 3, 4, 5} = {} /\ 6 \in rows BY <2>6, SMT
  <2>7. CASE rows \cap {1, 2, 3, 4, 5, 6} = {} /\ 7 \in rows BY <2>7, SMT
  <2>8. CASE rows \cap {1, 2, 3, 4, 5, 6, 7} = {}
    <3>1. PICK z \in rows : TRUE OBVIOUS
    <3>2. \A x \in rows : x = 8 BY <2>8, SMT
    <3> QED BY <3>1, <3>2, SMT
  <2> QED BY <2>1, <2>2, <2>3, <2>4, <2>5, <2>6, <2>7, <2>8, SMTT(20)
<1> QED BY <1>1, Zenon DEF Min

\* writeServiceError answers an error status, and blames the client only for
\* an error that wraps a client sentinel and no cursor fault.
LEMMA ErrorStatuses ==
  ASSUME NEW e
  PROVE  /\ ServiceStatus(e) \in {400, 404, 409, 422, 500, 503}
         /\ ServiceStatus(e) = 400 => "InvalidCursor" \in e /\ "CursorState" \notin e
         /\ ServiceStatus(e) = 404 => "NotFound" \in e
         /\ ServiceStatus(e) = 422 => "InvalidInput" \in e
<1> DEFINE rows == {i \in DOMAIN ErrorTable : e \cap ErrorTable[i][1] # {}}
<1>1. DOMAIN ErrorTable = 1..8
  BY SMT DEF ErrorTable
<1>2. CASE rows = {}
  BY <1>2, SMT DEF ServiceStatus
<1>3. CASE rows # {}
  <2> DEFINE first == Min(rows)
  <2>1. first \in 1..8 /\ e \cap ErrorTable[first][1] # {} /\ (1 \in rows => first <= 1)
    BY <1>1, <1>3, FirstRow, SMTT(20)
  <2>2. ServiceStatus(e) = ErrorTable[first][2]
    BY <1>3, Zenon DEF ServiceStatus
  <2>3. 1 \in rows <=> "CursorUnavailable" \in e \/ "CursorState" \in e
    BY <1>1, SMT DEF ErrorTable
  <2> HIDE DEF first, rows
  <2>4. first = 1 \/ first = 2 \/ first = 3 \/ first = 4 \/ first = 5 \/ first = 6 \/ first = 7 \/ first = 8
    BY <2>1, SMT
  <2>5. CASE first = 1 BY <2>2, <2>5, SMT DEF ErrorTable
  <2>6. CASE first = 2
    <3>1. "InvalidCursor" \in e BY <2>1, <2>6, SMT DEF ErrorTable
    <3>2. "CursorState" \notin e BY <2>1, <2>3, <2>6, SMT
    <3>3. ServiceStatus(e) = 400 BY <2>2, <2>6, SMT DEF ErrorTable
    <3> QED BY <3>1, <3>2, <3>3, SMT
  <2>7. CASE first = 3 BY <2>2, <2>7, SMT DEF ErrorTable
  <2>8. CASE first = 4 BY <2>2, <2>8, SMT DEF ErrorTable
  <2>9. CASE first = 5 BY <2>2, <2>9, SMT DEF ErrorTable
  <2>10. CASE first = 6 BY <2>1, <2>2, <2>10, SMT DEF ErrorTable
  <2>11. CASE first = 7 BY <2>1, <2>2, <2>11, SMT DEF ErrorTable
  <2>12. CASE first = 8 BY <2>2, <2>12, SMT DEF ErrorTable
  <2> QED BY <2>4, <2>5, <2>6, <2>7, <2>8, <2>9, <2>10, <2>11, <2>12, Zenon
<1> QED BY <1>2, <1>3, Zenon

\* Every series has a method and a route pattern of its own.
LEMMA SeriesKnown ==
  ASSUME NEW q \in Request
  PROVE  SeriesOf(q) \in (supportedMethods \cup {"OTHER"}) \X (Patterns \cup {UnknownRoute})
<1>1. normalizeMethod(Method(q)) \in supportedMethods \cup {"OTHER"}
  BY Zenon DEF normalizeMethod
<1>2. FullPath(q) \in Patterns \cup {<<>>}
  <2>1. q.route \in Routes BY DEF Request
  <2>2. [NoRequest EXCEPT !.route = q.route].route = q.route BY Zenon DEF NoRequest
  <2>3. FullPath(q) = FullPath([NoRequest EXCEPT !.route = q.route]) BY <2>2, Zenon DEF FullPath
  <2> QED BY <2>1, <2>3, Zenon DEF Patterns
<1>3. NormalizeRoute(FullPath(q)) \in {FullPath(q), UnknownRoute}
  <2>1. \/ FullPath(q) = <<"api", "v1", "items">> \/ FullPath(q) = <<"api", "v1", "items", ":id">>
        \/ FullPath(q) = <<"api", "healthz">> \/ FullPath(q) = <<>>
    BY Zenon DEF FullPath
  <2>2. ASSUME NEW p, \A i \in DOMAIN p : p[i] # "{id}", p = [i \in DOMAIN p |-> p[i]]
        PROVE  NormalizeRoute(p) \in {p, UnknownRoute}
    BY <2>2 DEF NormalizeRoute
  <2>3. NormalizeRoute(<<"api", "v1", "items">>) \in {<<"api", "v1", "items">>, UnknownRoute}
    <3> DEFINE p == <<"api", "v1", "items">>
    <3>0. \A i \in DOMAIN p : p[i] \in {"api", "v1", "items", ":id", "healthz"} BY SMT
    <3>1. \A i \in DOMAIN p : p[i] # "{id}" BY <3>0, Zenon
    <3>2. p = [i \in DOMAIN p |-> p[i]] BY SMT
    <3> QED BY <2>2, <3>1, <3>2, Zenon
  <2>4. NormalizeRoute(<<"api", "v1", "items", ":id">>) \in {<<"api", "v1", "items", ":id">>, UnknownRoute}
    <3> DEFINE p == <<"api", "v1", "items", ":id">>
    <3>0. \A i \in DOMAIN p : p[i] \in {"api", "v1", "items", ":id", "healthz"} BY SMT
    <3>1. \A i \in DOMAIN p : p[i] # "{id}" BY <3>0, Zenon
    <3>2. p = [i \in DOMAIN p |-> p[i]] BY SMT
    <3> QED BY <2>2, <3>1, <3>2, Zenon
  <2>5. NormalizeRoute(<<"api", "healthz">>) \in {<<"api", "healthz">>, UnknownRoute}
    <3> DEFINE p == <<"api", "healthz">>
    <3>0. \A i \in DOMAIN p : p[i] \in {"api", "v1", "items", ":id", "healthz"} BY SMT
    <3>1. \A i \in DOMAIN p : p[i] # "{id}" BY <3>0, Zenon
    <3>2. p = [i \in DOMAIN p |-> p[i]] BY SMT
    <3> QED BY <2>2, <3>1, <3>2, Zenon
  <2>6. NormalizeRoute(<<>>) = UnknownRoute
    BY Zenon DEF NormalizeRoute
  <2> QED BY <2>1, <2>3, <2>4, <2>5, <2>6, Zenon
<1>4. FullPath(q) = <<>> => NormalizeRoute(FullPath(q)) = UnknownRoute
  BY Zenon DEF NormalizeRoute
<1> QED BY <1>1, <1>2, <1>3, <1>4, Zenon DEF SeriesOf, Series

(***************************************************************************)
(* Steps between the middlewares.                                          *)
(***************************************************************************)
\* A step of one request that its middlewares see nothing of.
Moves(r) ==
  /\ pc[r] \in Inside
  /\ UNCHANGED <<config, req, layer, panicking, observers>>
  /\ \/ \E l \in Inside : pc' = [pc EXCEPT ![r] = l] /\ UNCHANGED status
     \/ \E c \in Statuses \ {0} : Write(r, c)

TypedLimiter ==
  /\ DOMAIN buckets \subseteq RateKeys
  /\ Cardinality(DOMAIN buckets) <= MaxClients
  /\ \A k \in DOMAIN buckets : buckets[k] \in 0..Burst
  /\ spent \in [RateKeys -> Nat]

TypedStore ==
  /\ items \subseteq Store!Item
  /\ \A e \in records : e.key \in RateKeys \X RawKeys /\ e.itemID \in Requests

LEMMA MovesTyped ==
  ASSUME TypeOK, NEW r \in Requests, Moves(r),
         (rateKey \in [Requests -> RateKeys])', TypedLimiter', TypedStore'
  PROVE  TypeOK'
<1>1. (pc \in [Requests -> {"idle", "authenticate", "limit", "limitRefused", "dispatch",
                          "service", "calling", "respond", "return", "done"}])'
  BY Zenon DEF TypeOK, Moves, Inside, Write, Goto
<1>2. (status \in [Requests -> Statuses])'
  BY Zenon DEF TypeOK, Moves, Write
<1> QED
  BY <1>1, <1>2, Zenon DEF TypeOK, Moves, TypedLimiter, TypedStore, observers

LEMMA MovesObserved ==
  ASSUME TypeOK, Positions, Gauges, NEW r \in Requests, Moves(r)
  PROVE  Positions' /\ Gauges'
<1>1. ASSUME NEW s \in Requests, s # r
      PROVE  pc'[s] = pc[s] /\ status'[s] = status[s]
  BY <1>1, Zenon DEF TypeOK, Moves, Write, Goto
<1>2. \/ pc'[r] \in Inside /\ status'[r] = status[r]
      \/ pc'[r] = "return" /\ status'[r] # 0
  BY Zenon DEF TypeOK, Moves, Write, Goto
<1>3. ASSUME NEW s \in Requests PROVE Position(s)'
  <2>1. CASE s # r
    BY <1>1, <2>1, Zenon DEF Positions, Position, Moves, observers, SampleOf
  <2>2. CASE s = r
    <3>1. layer[r] = 4 /\ ~panicking[r] /\ span[r] = "open" /\ observed[r] = <<>> /\ accessLog[r] = <<>>
            /\ status[r] = 0
      BY DEF Moves, Positions, Position, Inside
    <3>2. layer'[r] = 4 /\ ~panicking'[r] /\ span'[r] = "open" /\ observed'[r] = <<>> /\ accessLog'[r] = <<>>
      BY <3>1, Zenon DEF Moves, observers
    <3> QED BY <1>2, <2>2, <3>1, <3>2, SMTT(20) DEF Position, Inside
  <2> QED BY <2>1, <2>2
<1>4. ASSUME NEW x PROVE Active(x)' = Active(x)
  <2>1. \A s \in Requests : pc'[s] # "idle" <=> pc[s] # "idle"
    BY <1>1, <1>2, Zenon DEF Moves, Inside
  <2> QED BY <2>1, Zenon DEF Active, Moves, observers
<1>5. Gauges'
  BY <1>1, <1>2, <1>4, Zenon DEF Gauges, Moves, observers, Inside
<1>6. UNCHANGED <<observed, accessLog>> BY Zenon DEF Moves, observers
<1> QED BY <1>3, <1>5, <1>6, Zenon DEF Positions

\* Items, records and answers stand while the requests they belong to do.
LEMMA MadeKept ==
  ASSUME Phases, Made, Answers, UNCHANGED store,
         \A r \in Requests : phase[r] # "start" => rateKey'[r] = rateKey[r] /\ req'[r] = req[r]
  PROVE  Made' /\ Answers'
<1>1. UNCHANGED <<items, records, phase, answer>>
  BY Zenon DEF store
<1>2. \A r \in Requests : phase[r] # "start" =>
        OwnItem(r)' = OwnItem(r) /\ StorageKey(r)' = StorageKey(r) /\ Fingerprint(req'[r]) = Fingerprint(req[r])
  BY Zenon DEF OwnItem, StorageKey
<1>3. ASSUME NEW i \in items
      PROVE  \E r \in Requests : phase[r] \in {"performed", "done"} /\ i = OwnItem(r)'
  <2>1. PICK r \in Requests : phase[r] \in {"performed", "done"} /\ i = OwnItem(r)
    BY Zenon DEF Made
  <2>2. phase[r] # "start" BY <2>1, Zenon
  <2> QED BY <1>2, <2>1, <2>2, Zenon
<1>4. ASSUME NEW e \in records
      PROVE  /\ e.itemID \in Requests
             /\ phase[e.itemID] \in {"performed", "done"}
             /\ req'[e.itemID].key # "absent"
             /\ e = [key |-> StorageKey(e.itemID)', fingerprint |-> Fingerprint(req'[e.itemID]),
                     itemID |-> e.itemID, at |-> 0]
             /\ OwnItem(e.itemID)' \in items
  <2>1. e.itemID \in Requests /\ phase[e.itemID] \in {"performed", "done"}
    BY Zenon DEF Made
  <2>2. phase[e.itemID] # "start" BY <2>1, Zenon
  <2>3. req'[e.itemID] = req[e.itemID] /\ OwnItem(e.itemID)' = OwnItem(e.itemID)
          /\ StorageKey(e.itemID)' = StorageKey(e.itemID)
    BY <1>2, <2>1, <2>2, Zenon
  <2> QED BY <2>1, <2>3, Zenon DEF Made
<1>5. Made'
  BY <1>1, <1>3, <1>4, Zenon DEF Made
<1>6. Answers'
  <2>1. ASSUME NEW r \in Requests, answer'[r].ID # NoID PROVE phase'[r] = "done" /\ Answered(r)'
    <3>1. phase[r] = "done" /\ Answered(r) BY <1>1, <2>1, Zenon DEF Answers
    <3>2. OwnItem(r)' = OwnItem(r) /\ StorageKey(r)' = StorageKey(r) /\ req'[r] = req[r]
      BY <1>2, <3>1, Zenon
    <3> QED BY <1>1, <3>1, <3>2, Zenon DEF Answered
  <2> QED BY <1>1, <2>1, Zenon DEF Answers
<1> QED BY <1>5, <1>6

\* The reason for a status stands while its request does.
LEMMA ReasonKept ==
  ASSUME NEW s \in Requests, Reason(s), UNCHANGED config, TypedLimiter, TypedLimiter',
         rateKey[s] \in RateKeys, \A k \in RateKeys : spent'[k] >= spent[k],
         req'[s] = req[s], rateKey'[s] = rateKey[s], status'[s] = status[s],
         phase'[s] = phase[s], answer'[s] = answer[s]
  PROVE  Reason(s)'
<1>1. spent[rateKey[s]] >= Burst => spent'[rateKey[s]] >= Burst
  BY PipelineAssumption, SMT DEF TypedLimiter
<1> QED BY <1>1, SMTT(20) DEF Reason, Blaming, Refusing, Succeeding

\* A step of one request that the store and the keys see nothing of.
Passes(r) ==
  /\ Moves(r)
  /\ UNCHANGED <<rateKey, store>>
  /\ \/ pc'[r] = "return"
     \/ pc[r] = "dispatch" /\ pc'[r] = "service" /\ ~Malformed(req[r])
     \/ pc[r] = "limit" /\ pc'[r] = "dispatch"

LEMMA PassesInv ==
  ASSUME IInv, NEW r \in Requests, Passes(r), Reason(r)',
         Limits', TypedLimiter', \A k \in RateKeys : spent'[k] >= spent[k]
  PROVE  IInv'
<1> USE DEF IInv
<1>1. UNCHANGED <<config, req, rateKey, items, records, phase, answer>>
  BY Zenon DEF Passes, Moves, store
<1>2. ASSUME NEW s \in Requests, s # r
      PROVE  pc'[s] = pc[s] /\ status'[s] = status[s]
  BY <1>2, Zenon DEF TypeOK, Passes, Moves, Write, Goto
<1>3. TypeOK'
  <2>1. TypedStore' BY <1>1, Zenon DEF TypeOK, TypedStore
  <2>2. (rateKey \in [Requests -> RateKeys])' BY <1>1, Zenon DEF TypeOK
  <2> QED BY <2>1, <2>2, MovesTyped, Zenon DEF Passes
<1>4. Positions' /\ Gauges'
  BY MovesObserved, Zenon DEF Passes
<1>5. Identities'
  <2>1. \A s \in Requests : Identity(s)' <=> Identity(s)
    BY <1>1, Zenon DEF Identity, PrincipalRateKey, ClientRateKey
  <2>2. ASSUME NEW s \in Requests, s # r
        PROVE  /\ pc'[s] \in {"limit", "dispatch", "service", "calling", "respond"} /\ IsVersionedAPIPath(req[s])
                    => Identity(s)
               /\ pc'[s] = "limitRefused" => rateKey[s] = Anonymous
               /\ pc'[s] \in {"authenticate", "limit", "limitRefused"} => IsVersionedAPIPath(req[s])
    BY <1>2, <2>2, Zenon DEF Identities
  <2>3. /\ pc'[r] \in {"limit", "dispatch", "service", "calling", "respond"} /\ IsVersionedAPIPath(req[r])
                    => Identity(r)
        /\ pc'[r] \notin {"authenticate", "limit", "limitRefused"}
    BY Zenon DEF Identities, Passes
  <2> QED BY <1>1, <2>1, <2>2, <2>3, Zenon DEF Identities
<1>6. Phases'
  <2>1. \A s \in Requests : Identity(s)' <=> Identity(s)
    BY <1>1, Zenon DEF Identity, PrincipalRateKey, ClientRateKey
  <2>2. \A s \in Requests : s # r => pc'[s] = pc[s] BY <1>2
  <2>3. pc'[r] \in {"service", "calling", "respond"} => pc'[r] = "service" /\ ~Malformed(req[r])
    BY Zenon DEF Passes
  <2>4. phase[r] # "start" => pc'[r] = "return"
    BY Zenon DEF Passes, Phases
  <2>5. ASSUME NEW s \in Requests
        PROVE  /\ pc'[s] \in {"service", "calling", "respond"} => ~Malformed(req[s])
               /\ pc'[s] \in {"calling", "respond"} => phase[s] # "start"
               /\ phase[s] # "start" => pc'[s] \in {"calling", "respond", "return", "done"}
    <3>1. CASE s = r BY <2>3, <2>4, <3>1, Zenon
    <3>2. CASE s # r BY <2>2, <3>2, Zenon DEF Phases
    <3> QED BY <3>1, <3>2
  <2> QED BY <1>1, <2>1, <2>5, Zenon DEF Phases
<1>7. Made' /\ Answers'
  BY <1>1, MadeKept, Zenon DEF store
<1>8. Reasons'
  <2>1. ASSUME NEW s \in Requests, s # r PROVE Reason(s)'
    <3>1. rateKey[s] \in RateKeys /\ TypedLimiter BY Zenon DEF TypeOK, TypedLimiter
    <3> QED BY <1>1, <1>2, <2>1, <3>1, ReasonKept, Zenon DEF Reasons
  <2> QED BY <2>1, Zenon DEF Reasons
<1> QED BY <1>3, <1>4, <1>5, <1>6, <1>7, <1>8, SMTT(20)

\* ... of which the limiter sees nothing either.
LEMMA HandlesInv ==
  ASSUME IInv, NEW r \in Requests, Passes(r), UNCHANGED limiter, Reason(r)'
  PROVE  IInv'
<1>1. UNCHANGED <<buckets, spent, config>>
  BY Zenon DEF limiter, Passes, Moves
<1>2. TypedLimiter'
  BY <1>1, Zenon DEF IInv, TypeOK, TypedLimiter
<1>3. Limits'
  BY <1>1, Zenon DEF IInv, Limits
<1>4. \A k \in RateKeys : spent'[k] >= spent[k]
  BY <1>1, SMT DEF IInv, TypeOK
<1> QED BY <1>2, <1>3, <1>4, PassesInv, Zenon

LEMMA Writes ==
  ASSUME IInv, NEW r \in Requests, NEW c, Write(r, c)
  PROVE  status'[r] = c /\ pc'[r] = "return"
BY Zenon DEF Write, Goto, IInv, TypeOK

LEMMA WritesPass ==
  ASSUME IInv, NEW r \in Requests, pc[r] \in Inside, NEW c \in Statuses \ {0}, Write(r, c),
         UNCHANGED <<config, req, rateKey, layer, panicking, observers, store>>
  PROVE  Passes(r)
<1>1. pc'[r] = "return" BY Writes
<1> QED BY <1>1, Zenon DEF Passes, Moves

LEMMA ProbeInv ==
  ASSUME IInv, NEW r \in Requests, Probe(r)
  PROVE  IInv'
<1>1. UNCHANGED <<config, req, rateKey, layer, panicking, limiter, observers, store>> /\ pc[r] = "dispatch"
  BY Zenon DEF Probe, Handler
<1>2. PICK c \in {200, 404, 503} : Write(r, c) /\ req[r].route # "create"
  BY SMT DEF Probe
<1>3. status'[r] = c /\ pc'[r] = "return"
  BY <1>2, Writes
<1>4. Passes(r)
  <2>1. c \in Statuses \ {0} BY SMT DEF Statuses
  <2> QED BY <1>1, <1>2, <1>3, <2>1, Zenon DEF Passes, Moves, Inside
<1>5. phase'[r] = "start"
  BY <1>1, ZenonT(30) DEF IInv, Phases, store
<1>6. Reason(r)'
  BY <1>1, <1>2, <1>3, <1>5, SMT DEF Reason, Blaming, Refusing, Succeeding
<1> QED BY <1>1, <1>4, <1>6, HandlesInv, Zenon

LEMMA ParseInv ==
  ASSUME IInv, NEW r \in Requests, Parse(r)
  PROVE  IInv'
<1>1. UNCHANGED <<config, req, rateKey, layer, panicking, limiter, observers, store>> /\ pc[r] = "dispatch"
  BY Zenon DEF Parse, Handler
<1>2. phase'[r] = "start" /\ status[r] = 0
  BY <1>1, Zenon DEF IInv, Phases, store, Positions, Position, Inside
<1>3. CASE Malformed(req[r])
  <2>1. Write(r, 400) BY <1>3, Zenon DEF Parse
  <2>2. status'[r] = 400 /\ pc'[r] = "return"
    BY <2>1, Writes
  <2>3. Passes(r)
    <3>1. 400 \in Statuses \ {0} BY SMT DEF Statuses
    <3> QED BY <1>1, <2>1, <2>2, <3>1, Zenon DEF Passes, Moves, Inside
  <2>4. Reason(r)'
    <3>1. req[r].form # "ok" \/ req[r].key = "malformed" BY <1>3, Zenon DEF Malformed
    <3> QED BY <1>1, <1>2, <2>2, <3>1, SMTT(20) DEF Reason, Blaming, Refusing, Succeeding
  <2> QED BY <1>1, <2>3, <2>4, HandlesInv, Zenon
<1>4. CASE ~Malformed(req[r])
  <2>1. pc' = [pc EXCEPT ![r] = "service"] /\ UNCHANGED status
    BY <1>4, Zenon DEF Parse, Goto
  <2>2. Passes(r)
    BY <1>1, <1>4, <2>1, Zenon DEF Passes, Moves, Inside, IInv, TypeOK
  <2>3. Reason(r)'
    BY <1>2, <2>1, SMT DEF Reason, Blaming, Refusing, Succeeding
  <2> QED BY <1>1, <2>2, <2>3, HandlesInv, Zenon
<1> QED BY <1>3, <1>4


\* A handler that answers and leaves.
LEMMA RespondsInv ==
  ASSUME IInv, NEW r \in Requests, pc[r] \in Inside, Handler(r), UNCHANGED store,
         NEW c \in Statuses \ {0, 429}, Write(r, c),
         c \in Blaming =>
           \/ req[r].form # "ok" \/ req[r].key = "malformed"
           \/ c = Unprocessable /\ req[r].route = "create" /\ config.generator = "custom",
         c \in Refusing => phase[r] = "start",
         c \in Succeeding /\ req[r].route = "create" =>
           answer[r].ID # NoID /\ c = SuccessStatus(answer[r].kind)
  PROVE  IInv'
<1>1. status'[r] = c /\ pc'[r] = "return"
  BY Writes
<1>2. Passes(r)
  BY <1>1, ZenonT(30) DEF Passes, Moves, Handler
<1>3. UNCHANGED <<config, req, phase, answer>>
  BY Zenon DEF Handler, store
<1>4. Reason(r)'
  BY <1>1, <1>3, SMT DEF Reason
<1>5. UNCHANGED limiter
  BY Zenon DEF Handler
<1> QED BY <1>2, <1>4, <1>5, HandlesInv, Zenon

LEMMA ReadInv ==
  ASSUME IInv, NEW r \in Requests, Read(r)
  PROVE  IInv'
<1>1. pc[r] \in Inside /\ Handler(r) /\ UNCHANGED store /\ req[r].route # "create" /\ phase[r] = "start"
  BY Zenon DEF Read, Inside, IInv, Phases
<1>2. CASE Write(r, 200)
  <2>1. 200 \in Statuses \ {0, 429} /\ 200 \notin Blaming BY SMT DEF Statuses, Blaming
  <2> QED BY <1>1, <1>2, <2>1, RespondsInv, SMT
<1>3. ASSUME NEW e \in ReadErrors(req[r]), Write(r, ServiceStatus(e)) PROVE IInv'
  <2> DEFINE c == ServiceStatus(e)
  <2>1. req[r].form = "invalid" \/ ("InvalidInput" \notin e /\ ("InvalidCursor" \in e => "CursorState" \in e))
    BY SMT DEF ReadErrors
  <2>2. c \in Blaming => req[r].form # "ok"
    BY <2>1, ErrorStatuses, SMT DEF Blaming
  <2> HIDE DEF c
  <2>3. Write(r, c) BY <1>3, Zenon DEF c
  <2>4. c \in Statuses \ {0, 429} /\ c \notin Succeeding
    BY ErrorStatuses, SMT DEF Statuses, Succeeding, c
  <2> QED BY <1>1, <2>2, <2>3, <2>4, RespondsInv, Zenon
<1> QED BY <1>2, <1>3, Zenon DEF Read

LEMMA ServiceFailsInv ==
  ASSUME IInv, NEW r \in Requests, ServiceFails(r)
  PROVE  IInv'
<1>1. pc[r] \in Inside /\ Handler(r) /\ UNCHANGED store /\ phase[r] = "start" /\ req[r].route = "create"
  BY Zenon DEF ServiceFails, Inside, IInv, Phases
<1>2. PICK e \in ServiceErrors(req[r]) : Write(r, ServiceStatus(e))
  BY Zenon DEF ServiceFails
<1> DEFINE c == ServiceStatus(e)
<1>3. /\ "InvalidCursor" \notin e
      /\ "InvalidInput" \in e => req[r].form = "invalid" \/ config.generator = "custom"
  BY SMT DEF ServiceErrors
<1>4. c \in Blaming => req[r].form # "ok" \/ (c = Unprocessable /\ config.generator = "custom")
  BY <1>3, ErrorStatuses, SMT DEF Blaming, Unprocessable
<1> HIDE DEF c
<1>5. Write(r, c) BY <1>2, Zenon DEF c
<1>6. c \in Statuses \ {0, 429} /\ c \notin Succeeding
  BY ErrorStatuses, SMT DEF Statuses, Succeeding, c
<1> QED BY <1>1, <1>4, <1>5, <1>6, RespondsInv, Zenon

LEMMA RespondInv ==
  ASSUME IInv, NEW r \in Requests, Respond(r)
  PROVE  IInv'
<1>1. pc[r] \in Inside /\ Handler(r) /\ UNCHANGED store
  BY Zenon DEF Respond, Inside
<1>2. CASE answer[r].ID # NoID
  <2> DEFINE c == SuccessStatus(answer[r].kind)
  <2>1. c \in {200, 201} BY SMT DEF SuccessStatus
  <2>2. Write(r, c) BY <1>2, Zenon DEF Respond
  <2> HIDE DEF c
  <2>3. c \in Statuses \ {0, 429} /\ c \notin Blaming /\ c \notin Refusing
    BY <2>1, SMT DEF Statuses, Blaming, Refusing
  <2>4. c = SuccessStatus(answer[r].kind) BY DEF c
  <2> QED BY <1>1, <1>2, <2>2, <2>3, <2>4, RespondsInv, Zenon
<1>3. CASE answer[r].ID = NoID
  <2>1. PICK e \in CreateErrors(answer[r].kind, req[r]) : Write(r, ServiceStatus(e))
    BY <1>3, Zenon DEF Respond
  <2> DEFINE c == ServiceStatus(e)
  <2>2. "InvalidCursor" \notin e /\ "InvalidInput" \notin e /\ "NotFound" \notin e
    BY SMT DEF CreateErrors
  <2>3. c \in {409, 500, 503} BY <2>2, ErrorStatuses, SMT DEF Blaming
  <2>4. Write(r, c) BY <2>1, Zenon
  <2> HIDE DEF c
  <2>5. c \in Statuses \ {0, 429} /\ c \notin Succeeding /\ c \notin Refusing /\ c \notin Blaming
    BY <2>3, SMT DEF Statuses, Blaming, Refusing, Succeeding
  <2> QED BY <1>1, <2>4, <2>5, RespondsInv, Zenon
<1> QED BY <1>2, <1>3

(***************************************************************************)
(* The limiter.                                                            *)
(***************************************************************************)
LEMMA OneMore ==
  ASSUME NEW S, IsFiniteSet(S), NEW x, x \notin S
  PROVE  /\ IsFiniteSet(S \cup {x}) /\ Cardinality(S) \in Nat
         /\ Cardinality(S \cup {x}) = Cardinality(S) + 1
<1>1. Cardinality(S) \in Nat BY FS_CardinalityType, Zenon
<1>2. IsFiniteSet(S \cup {x}) /\ Cardinality(S \cup {x}) = IF x \in S THEN Cardinality(S) ELSE Cardinality(S) + 1
  BY FS_AddElement
<1> QED BY <1>1, <1>2, Zenon

LEMMA OneLess ==
  ASSUME NEW S, IsFiniteSet(S), NEW x \in S
  PROVE  /\ IsFiniteSet(S \ {x}) /\ Cardinality(S) \in Nat
         /\ Cardinality(S \ {x}) = Cardinality(S) - 1
<1>1. Cardinality(S) \in Nat BY FS_CardinalityType, Zenon
<1>2. IsFiniteSet(S \ {x}) /\ Cardinality(S \ {x}) = IF x \in S THEN Cardinality(S) - 1 ELSE Cardinality(S)
  BY FS_RemoveElement
<1> QED BY <1>1, <1>2, Zenon

LEMMA TakesInv ==
  ASSUME IInv, UNCHANGED config, NEW k \in RateKeys, Take(k),
         config.auth => k \in Principals \cup {Anonymous}
  PROVE  Limits' /\ TypedLimiter' /\ \A x \in RateKeys : spent'[x] >= spent[x]
<1>1. CASE ~config.limiter
  <2>1. UNCHANGED <<buckets, spent>> BY <1>1, Zenon DEF Take, limiter
  <2>2. Limits' /\ TypedLimiter' BY <2>1, Zenon DEF IInv, TypeOK, TypedLimiter, Limits
  <2>3. \A x \in RateKeys : spent'[x] >= spent[x] BY <2>1, SMT DEF IInv, TypeOK
  <2> QED BY <2>2, <2>3
<1>2. CASE config.limiter
  <2> DEFINE t == Tokens(k)
  <2>1. /\ t > 0
        /\ buckets' = [x \in DOMAIN buckets \cup {k} |-> IF x = k THEN t - 1 ELSE buckets[x]]
        /\ spent' = [spent EXCEPT ![k] = @ + 1]
    BY <1>2, Zenon DEF Take
  <2>2. TypedLimiter /\ Limits BY Zenon DEF IInv, TypeOK, TypedLimiter
  <2>3. t \in 0..Burst /\ (k \notin DOMAIN buckets => t = Burst /\ Cardinality(DOMAIN buckets) < MaxClients)
          /\ (k \in DOMAIN buckets => t = buckets[k])
    BY <2>1, <2>2, PipelineAssumption, SMT DEF Tokens, TypedLimiter
  <2> HIDE DEF t
  <2>4. spent' \in [RateKeys -> Nat] /\ spent'[k] = spent[k] + 1
          /\ \A x \in RateKeys : spent'[x] >= spent[x]
    BY <2>1, <2>2, SMT DEF TypedLimiter
  <2>5. DOMAIN buckets' = DOMAIN buckets \cup {k} /\ buckets' = [x \in DOMAIN buckets' |-> buckets'[x]]
    BY <2>1, Zenon
  <2>6. IsFiniteSet(DOMAIN buckets') /\ Cardinality(DOMAIN buckets') <= MaxClients
    <3>1. CASE k \in DOMAIN buckets
      <4>1. DOMAIN buckets' = DOMAIN buckets BY <2>5, <3>1, Zenon
      <4> QED BY <2>2, <4>1, Zenon DEF TypedLimiter, Limits
    <3>2. CASE k \notin DOMAIN buckets
      <4> DEFINE n == Cardinality(DOMAIN buckets)
      <4>1. IsFiniteSet(DOMAIN buckets') /\ Cardinality(DOMAIN buckets') = n + 1 /\ n \in Nat
        <5>1. IsFiniteSet(DOMAIN buckets) BY <2>2, Zenon DEF Limits
        <5>2. /\ IsFiniteSet(DOMAIN buckets \cup {k}) /\ n \in Nat
              /\ Cardinality(DOMAIN buckets \cup {k}) = n + 1
          BY <3>2, <5>1, OneMore, Zenon
        <5> QED BY <2>5, <5>2, Zenon
      <4>2. n < MaxClients BY <2>3, <3>2, Zenon
      <4> HIDE DEF n
      <4> QED BY <4>1, <4>2, PipelineAssumption, SMT
    <3> QED BY <3>1, <3>2
  <2>7. ASSUME NEW x \in DOMAIN buckets'
        PROVE  buckets'[x] \in 0..Burst /\ buckets'[x] + spent'[x] >= Burst
    <3>1. CASE x = k
      <4>1. buckets'[k] = t - 1 BY <2>1, <2>5, Zenon
      <4>2. spent[k] \in Nat BY <2>2, Zenon DEF TypedLimiter
      <4>3. k \in DOMAIN buckets => t + spent[k] >= Burst BY <2>2, <2>3, Zenon DEF Limits
      <4> QED BY <2>1, <2>3, <2>4, <3>1, <4>1, <4>2, <4>3, PipelineAssumption, SMTT(20)
    <3>2. CASE x # k
      <4>1. x \in DOMAIN buckets /\ buckets'[x] = buckets[x] BY <2>1, <2>5, <3>2, Zenon
      <4>2. x \in RateKeys /\ spent'[x] = spent[x] BY <2>1, <2>2, <3>2, <4>1, Zenon DEF TypedLimiter
      <4> QED BY <2>2, <4>1, <4>2, Zenon DEF TypedLimiter, Limits
    <3> QED BY <3>1, <3>2, SMTT(20)
  <2>8. TypedLimiter'
    BY <2>2, <2>4, <2>5, <2>6, <2>7, Zenon DEF TypedLimiter
  <2>9. Limits'
    BY <2>2, <2>5, <2>6, <2>7, Zenon DEF Limits
  <2> QED BY <2>4, <2>8, <2>9
<1> QED BY <1>1, <1>2

\* Refused credentials share one bucket, so with a slot for it and for every
\* principal none of them ever lacks one.
LEMMA OwnSlot ==
  ASSUME IInv, config.auth, NEW k \in Principals, Tokens(k) = 0,
         MaxClients > Cardinality(Subjects)
  PROVE  spent[k] >= Burst
<1> DEFINE D == DOMAIN buckets
           n == Cardinality(Subjects)
<1>1. spent[k] \in Nat
  BY Zenon DEF IInv, TypeOK, Principals, RateKeys
<1>2. CASE k \in D
  <2>1. buckets[k] = 0 BY <1>2, Zenon DEF Tokens
  <2>2. buckets[k] + spent[k] >= Burst BY <1>2, Zenon DEF IInv, Limits
  <2> QED BY <1>1, <2>1, <2>2, SMT
<1>3. CASE k \notin D
  <2>1. IsFiniteSet(Principals) /\ Cardinality(Principals) = n
    <3>1. IsFiniteSet({"principal"}) /\ Cardinality({"principal"}) = 1 BY FS_Singleton, Zenon
    <3>2. IsFiniteSet(Principals) /\ Cardinality(Principals) = Cardinality({"principal"}) * n
      BY <3>1, FS_Product, PipelineAssumption DEF Principals
    <3>3. n \in Nat BY FS_CardinalityType, PipelineAssumption, Zenon
    <3>4. Cardinality(Principals) = 1 * n BY <3>1, <3>2, Zenon
    <3> HIDE DEF n
    <3> QED BY <3>2, <3>3, <3>4, SMT
  <2> DEFINE others == Principals \ {k}
             slots == others \cup {Anonymous}
  <2>2. IsFiniteSet(others) /\ Cardinality(others) = n - 1
    BY <2>1, OneLess, Zenon
  <2>3. Anonymous \notin others BY Zenon DEF Anonymous, Principals
  <2>4. IsFiniteSet(slots) /\ Cardinality(slots) = (n - 1) + 1
    BY <2>2, <2>3, OneMore, Zenon
  <2>5. D \subseteq slots BY <1>3, Zenon DEF IInv, Limits
  <2>6. Cardinality(D) <= Cardinality(slots) /\ Cardinality(D) \in Nat
    BY <2>4, <2>5, FS_Subset, FS_CardinalityType, Zenon
  <2>7. n \in Nat BY FS_CardinalityType, PipelineAssumption, Zenon
  <2> HIDE DEF n, D, slots, others
  <2>8. Cardinality(D) < MaxClients BY <2>4, <2>6, <2>7, PipelineAssumption, SMTT(20) DEF n
  <2>9. Tokens(k) = Burst BY <1>3, <2>8, Zenon DEF Tokens, D
  <2> QED BY <2>9, PipelineAssumption, SMT
<1> QED BY <1>2, <1>3

LEMMA AllowInv ==
  ASSUME IInv, NEW r \in Requests, Allow(r)
  PROVE  IInv'
<1>1. UNCHANGED <<config, req, rateKey, layer, panicking, observers, store>>
      /\ pc[r] \in {"limit", "limitRefused"} /\ Take(rateKey[r])
  BY Zenon DEF Allow
<1>2. Limits' /\ TypedLimiter' /\ \A x \in RateKeys : spent'[x] >= spent[x]
  <2>1. rateKey[r] \in RateKeys /\ (config.auth => rateKey[r] \in Principals \cup {Anonymous})
    BY Zenon DEF IInv, TypeOK, Identities
  <2> QED BY <1>1, <2>1, TakesInv, Zenon
<1>3. phase'[r] = "start" /\ status[r] = 0
  BY <1>1, Zenon DEF IInv, Phases, store, Positions, Position, Inside
<1>4. CASE pc[r] = "limit"
  <2>1. pc' = [pc EXCEPT ![r] = "dispatch"] /\ UNCHANGED status
    BY <1>4, Zenon DEF Allow, Goto
  <2>2. Passes(r)
    BY <1>1, <1>4, <2>1, Zenon DEF Passes, Moves, Inside, IInv, TypeOK
  <2>3. Reason(r)'
    BY <1>3, <2>1, SMTT(20) DEF Reason, Blaming, Refusing, Succeeding
  <2> QED BY <1>2, <2>2, <2>3, PassesInv, Zenon
<1>5. CASE pc[r] # "limit"
  <2>1. Write(r, 401) BY <1>5, Zenon DEF Allow
  <2>2. status'[r] = 401 /\ pc'[r] = "return" BY <2>1, Writes
  <2>3. Passes(r)
    <3>1. PICK c \in Statuses \ {0} : Write(r, c)
      <4>1. 401 \in Statuses \ {0} BY SMT DEF Statuses
      <4> QED BY <2>1, <4>1
    <3>2. pc[r] \in Inside BY <1>1, Zenon DEF Inside
    <3> QED BY <1>1, <3>1, <3>2, WritesPass, Zenon
  <2>4. Reason(r)'
    BY <1>3, <2>2, SMT DEF Reason, Blaming, Refusing, Succeeding
  <2> QED BY <1>2, <2>3, <2>4, PassesInv, Zenon
<1> QED BY <1>4, <1>5

LEMMA RateLimitedInv ==
  ASSUME IInv, NEW r \in Requests, RateLimited(r)
  PROVE  IInv'
<1>1. UNCHANGED <<config, req, rateKey, layer, panicking, limiter, observers, store>>
      /\ pc[r] \in {"limit", "limitRefused"} /\ Tokens(rateKey[r]) = 0 /\ Write(r, 429)
  BY Zenon DEF RateLimited
<1>2. status'[r] = 429 /\ pc'[r] = "return" BY <1>1, Writes
<1>3. Passes(r)
  <2>1. 429 \in Statuses \ {0} BY SMT DEF Statuses
  <2>2. pc[r] \in Inside BY <1>1, Zenon DEF Inside
  <2> QED BY <1>1, <2>1, <2>2, WritesPass, SMTT(20)
<1>4. phase'[r] = "start"
  BY <1>1, Zenon DEF IInv, Phases, store
<1>5. MaxClients > Cardinality(Subjects) /\ config.auth /\ rateKey[r] # Anonymous => spent[rateKey[r]] >= Burst
  BY <1>1, OwnSlot, Zenon DEF IInv, Identities
<1>6. Reason(r)'
  <2>1. UNCHANGED <<config, rateKey, spent>> BY <1>1, Zenon DEF limiter
  <2> QED BY <1>2, <1>4, <1>5, <2>1, SMT DEF Reason, Blaming, Refusing, Succeeding
<1> QED BY <1>1, <1>3, <1>6, HandlesInv, Zenon

LEMMA RefillInv ==
  ASSUME IInv, NEW k \in RateKeys, Refill(k)
  PROVE  IInv'
<1>1. UNCHANGED <<config, pc, req, rateKey, layer, panicking, status, spent, observers, store>>
        /\ k \in DOMAIN buckets
  BY Zenon DEF Refill
<1>2. TypedLimiter /\ Limits BY Zenon DEF IInv, TypeOK, TypedLimiter
<1>3. TypedLimiter' /\ Limits'
  <2>1. CASE buckets[k] < Burst /\ buckets' = [buckets EXCEPT ![k] = @ + 1]
    <3>1. DOMAIN buckets' = DOMAIN buckets /\ buckets' = [x \in DOMAIN buckets |-> buckets'[x]]
      BY <2>1, Zenon
    <3>2. buckets'[k] = buckets[k] + 1 /\ \A x \in DOMAIN buckets : x # k => buckets'[x] = buckets[x]
      BY <1>1, <2>1, Zenon
    <3>3. buckets'[k] \in 0..Burst /\ buckets'[k] + spent[k] >= Burst
      <4>1. buckets[k] \in 0..Burst /\ spent[k] \in Nat /\ buckets[k] + spent[k] >= Burst
        BY <1>1, <1>2, Zenon DEF TypedLimiter, Limits
      <4> QED BY <2>1, <3>2, <4>1, PipelineAssumption, SMTT(20)
    <3>4. \A x \in DOMAIN buckets : buckets'[x] \in 0..Burst /\ buckets'[x] + spent[x] >= Burst
      BY <1>2, <3>2, <3>3, Zenon DEF TypedLimiter, Limits
    <3> QED BY <1>1, <1>2, <3>1, <3>4, Zenon DEF TypedLimiter, Limits
  <2>2. CASE buckets' = Restrict(buckets, DOMAIN buckets \ {k})
    <3>1. DOMAIN buckets' = DOMAIN buckets \ {k} /\ buckets' = [x \in DOMAIN buckets' |-> buckets'[x]]
      BY <2>2, Zenon DEF Restrict
    <3>2. \A x \in DOMAIN buckets' : x \in DOMAIN buckets /\ buckets'[x] = buckets[x]
      BY <2>2, Zenon DEF Restrict
    <3>3. IsFiniteSet(DOMAIN buckets') /\ Cardinality(DOMAIN buckets') <= MaxClients
      <4>1. DOMAIN buckets' \in SUBSET DOMAIN buckets BY <3>2, Zenon
      <4>2. /\ IsFiniteSet(DOMAIN buckets')
            /\ Cardinality(DOMAIN buckets') <= Cardinality(DOMAIN buckets)
            /\ Cardinality(DOMAIN buckets') \in Nat /\ Cardinality(DOMAIN buckets) \in Nat
        BY <1>2, <4>1, FS_Subset, FS_CardinalityType, Zenon DEF Limits
      <4> DEFINE m == Cardinality(DOMAIN buckets')
                 n == Cardinality(DOMAIN buckets)
      <4>3. n <= MaxClients BY <1>2, Zenon DEF TypedLimiter
      <4>4. m <= n /\ m \in Nat /\ n \in Nat BY <4>2, Zenon
      <4> HIDE DEF m, n
      <4>5. m <= MaxClients BY <4>3, <4>4, PipelineAssumption, SMTT(20)
      <4> QED BY <4>2, <4>5, Zenon DEF m
    <3> QED BY <1>1, <1>2, <3>1, <3>2, <3>3, Zenon DEF TypedLimiter, Limits
  <2> QED BY <2>1, <2>2, Zenon DEF Refill
<1>4. TypeOK'
  BY <1>1, <1>3, Zenon DEF IInv, TypeOK, TypedLimiter, observers, store
<1>5. Positions' /\ Gauges'
  <2>1. Positions' BY <1>1, Zenon DEF IInv, Positions, Position, observers, SampleOf
  <2>2. \A x : Active(x)' = Active(x) BY <1>1, Zenon DEF Active, observers
  <2>3. Gauges' BY <1>1, <2>2, Zenon DEF IInv, Gauges, observers
  <2> QED BY <2>1, <2>3
<1>6. Identities' /\ Phases'
  <2>1. \A s \in Requests : Identity(s)' <=> Identity(s)
    BY <1>1, Zenon DEF Identity, PrincipalRateKey, ClientRateKey
  <2>2. Identities' BY <1>1, <2>1, Zenon DEF IInv, Identities
  <2>3. Phases' BY <1>1, <2>1, Zenon DEF IInv, Phases, store
  <2> QED BY <2>2, <2>3
<1>7. Made' /\ Answers'
  BY <1>1, MadeKept, Zenon DEF IInv
<1>8. Reasons'
  <2>1. UNCHANGED <<config, req, rateKey, status, spent, phase, answer>> BY <1>1, Zenon DEF store
  <2> QED BY <2>1, Zenon DEF IInv, Reasons, Reason
<1> QED BY <1>3, <1>4, <1>5, <1>6, <1>7, <1>8, Zenon DEF IInv

LEMMA AuthenticateInv ==
  ASSUME IInv, NEW r \in Requests, Authenticate(r)
  PROVE  IInv'
<1>1. UNCHANGED <<config, req, layer, panicking, limiter, observers, store>> /\ pc[r] = "authenticate"
  BY Zenon DEF Authenticate
<1>2. IsVersionedAPIPath(req[r]) /\ phase[r] = "start" /\ status[r] = 0 /\ pc[r] \in Inside
  BY <1>1, Zenon DEF IInv, Identities, Phases, Positions, Position, Inside
<1>3. CASE Write(r, 500) /\ UNCHANGED rateKey
  <2>1. 500 \in Statuses \ {0, 429} /\ 500 \notin Blaming /\ 500 \notin Refusing /\ 500 \notin Succeeding
    BY SMT DEF Statuses, Blaming, Refusing, Succeeding
  <2>2. Handler(r) BY <1>1, <1>3, Zenon DEF Handler
  <2> QED BY <1>1, <1>2, <1>3, <2>1, <2>2, RespondsInv, SMTT(20)
<1>4. ASSUME NEW k \in RateKeys, NEW l \in {"limit", "limitRefused"}, Identified(r, k, l),
             config.auth => k \in Principals \cup {Anonymous},
             l = "limitRefused" => k = Anonymous,
             l = "limit" => IF config.auth
                            THEN k = PrincipalRateKey(req[r]) /\ Verify(req[r].authorization) \in Subjects
                            ELSE k = ClientRateKey(req[r])
      PROVE  IInv'
  <2>1. UNCHANGED <<config, req, buckets, spent, status, items, records, phase, answer>>
    BY <1>1, <1>4, Zenon DEF Identified, limiter, store
  <2>2. /\ pc'[r] = l /\ rateKey'[r] = k
        /\ \A s \in Requests : s # r => pc'[s] = pc[s] /\ rateKey'[s] = rateKey[s]
        /\ rateKey' \in [Requests -> RateKeys]
    BY <1>4, Zenon DEF Identified, Goto, IInv, TypeOK
  <2>3. Moves(r)
    BY <1>1, <1>2, <1>4, Zenon DEF Moves, Identified, Goto, Inside
  <2>4. TypedLimiter /\ TypedLimiter' /\ TypedStore'
    BY <2>1, Zenon DEF IInv, TypeOK, TypedLimiter, TypedStore
  <2>5. TypeOK'
    BY <2>2, <2>3, <2>4, MovesTyped, Zenon DEF IInv
  <2>6. Positions' /\ Gauges'
    BY <2>3, MovesObserved, Zenon DEF IInv
  <2>7. Limits'
    BY <2>1, Zenon DEF IInv, Limits
  <2>8. \A s \in Requests : s # r => (Identity(s)' <=> Identity(s))
    BY <2>1, <2>2, Zenon DEF Identity, PrincipalRateKey, ClientRateKey
  <2>9. Identities'
    <3>1. l = "limit" => Identity(r)'
      BY <1>4, <2>1, <2>2, ZenonT(30) DEF Identity, PrincipalRateKey, ClientRateKey
    <3>2. ASSUME NEW s \in Requests
          PROVE  /\ pc'[s] \in {"limit", "dispatch", "service", "calling", "respond"} /\ IsVersionedAPIPath(req[s])
                      => Identity(s)'
                 /\ pc'[s] = "limitRefused" => rateKey'[s] = Anonymous
                 /\ pc'[s] \in {"authenticate", "limit", "limitRefused"} => IsVersionedAPIPath(req[s])
                 /\ config.auth => rateKey'[s] \in Principals \cup {Anonymous}
      <4>1. CASE s = r BY <1>2, <1>4, <2>2, <3>1, <4>1, Zenon
      <4>2. CASE s # r BY <2>2, <2>8, <4>2, Zenon DEF IInv, Identities
      <4> QED BY <4>1, <4>2
    <3> QED BY <2>1, <3>2, Zenon DEF Identities
  <2>10. Phases'
    <3>1. ASSUME NEW s \in Requests, s # r
          PROVE  pc'[s] = pc[s] /\ (Identity(s)' <=> Identity(s))
      BY <2>2, <2>8, <3>1
    <3>2. pc'[r] \notin {"service", "calling", "respond"} /\ phase[r] = "start"
      BY <1>2, <1>4, <2>2, Zenon
    <3> QED BY <2>1, <3>1, <3>2, Zenon DEF IInv, Phases
  <2>11. Made' /\ Answers'
    <3>1. \A s \in Requests : phase[s] # "start" => rateKey'[s] = rateKey[s] /\ req'[s] = req[s]
      BY <1>2, <2>1, <2>2, Zenon
    <3> QED BY <1>1, <3>1, MadeKept, Zenon DEF IInv
  <2>12. Reasons'
    <3>1. Reason(r)' BY <1>2, <2>1, SMTT(20) DEF Reason, Blaming, Refusing, Succeeding
    <3>2. \A x \in RateKeys : spent'[x] >= spent[x] BY <2>1, <2>4, SMT DEF TypedLimiter
    <3>3. ASSUME NEW s \in Requests, s # r PROVE Reason(s)'
      <4>1. rateKey[s] \in RateKeys BY Zenon DEF IInv, TypeOK
      <4>2. Reason(s) BY Zenon DEF IInv, Reasons
      <4> QED BY <2>1, <2>2, <2>4, <3>2, <3>3, <4>1, <4>2, ReasonKept, Zenon
    <3> QED BY <3>1, <3>3, Zenon DEF Reasons
  <2> QED BY <2>5, <2>6, <2>7, <2>9, <2>10, <2>11, <2>12, Zenon DEF IInv
<1>5. ClientRateKey(req[r]) \in RateKeys /\ Anonymous \in RateKeys
        /\ (Verify(req[r].authorization) \in Subjects => PrincipalRateKey(req[r]) \in RateKeys \cap Principals)
  <2>1. req[r].peer \in Peers \cup {"unparsable"} BY DEF IInv, TypeOK, Request
  <2> QED BY <2>1, Zenon DEF ClientRateKey, PrincipalRateKey, RateKeys, Principals
<1>6. CASE ~config.auth /\ Identified(r, ClientRateKey(req[r]), "limit")
  BY <1>4, <1>5, <1>6, Zenon
<1>7. CASE Identified(r, RefusedRateKey(req[r]), "limitRefused")
  BY <1>4, <1>5, <1>7, Zenon DEF RefusedRateKey
<1>8. CASE config.auth /\ Verify(req[r].authorization) \in Subjects /\ Identified(r, PrincipalRateKey(req[r]), "limit")
  BY <1>4, <1>5, <1>8, Zenon
<1> QED BY <1>3, <1>6, <1>7, <1>8, Zenon DEF Authenticate

(***************************************************************************)
(* The store.                                                              *)
(***************************************************************************)
\* A request's replay record.
OwnRecord(r) ==
  [key |-> StorageKey(r), fingerprint |-> Fingerprint(req[r]), itemID |-> r, at |-> 0]

\* No replay window ends here.
LEMMA NothingOutdated ==
  ASSUME Made
  PROVE  Store!Outdated = {}
<1>1. ASSUME NEW e \in records PROVE ~(e.at + 1 <= 0)
  <2>1. e = [key |-> StorageKey(e.itemID), fingerprint |-> Fingerprint(req[e.itemID]),
             itemID |-> e.itemID, at |-> 0]
    BY Zenon DEF Made
  <2>2. e.at = 0
    <3>1. ASSUME NEW k, NEW f, NEW i, e = [key |-> k, fingerprint |-> f, itemID |-> i, at |-> 0]
          PROVE  e.at = 0
      BY <3>1
    <3> QED BY <2>1, <3>1, Zenon
  <2> DEFINE at == e.at
  <2>3. at = 0 BY <2>2, Zenon
  <2> HIDE DEF at
  <2>4. ~(at + 1 <= 0) BY <2>3, SMT
  <2> QED BY <2>4, Zenon DEF at
<1> QED BY <1>1, Zenon DEF Store!Outdated

\* What a call of the store adds belongs to its request.
LEMMA MadeGrows ==
  ASSUME IInv, UNCHANGED <<req, rateKey>>, NEW r \in Requests,
         NEW p \in {"called", "performed", "done"}, phase' = [phase EXCEPT ![r] = p],
         phase[r] \in {"performed", "done"} => p = "done",
         \/ items' = items
         \/ items' = items \cup {OwnItem(r)} /\ p # "called",
         \/ records' = records /\ p # "performed"
         \/ /\ records' = records \cup {OwnRecord(r)} /\ p # "called"
            /\ OwnItem(r) \in items' /\ req[r].key # "absent"
            /\ \A e \in records : e.key # StorageKey(r)
  PROVE  Made'
<1>1. phase'[r] = p /\ \A s \in Requests : s # r => phase'[s] = phase[s]
  BY Zenon DEF IInv, Phases
<1>2. \A s \in Requests : phase[s] \in {"performed", "done"} => phase'[s] \in {"performed", "done"}
  BY <1>1, Zenon
<1>3. \A s : OwnItem(s)' = OwnItem(s) /\ StorageKey(s)' = StorageKey(s)
  BY Zenon DEF OwnItem, StorageKey
<1>4. ASSUME NEW i \in items'
      PROVE  \E s \in Requests : phase'[s] \in {"performed", "done"} /\ i = OwnItem(s)
  <2>1. CASE i \in items BY <1>2, <2>1, Zenon DEF IInv, Made
  <2>2. CASE i \notin items BY <1>1, <2>2, Zenon
  <2> QED BY <2>1, <2>2
<1>5. ASSUME NEW e \in records'
      PROVE  /\ e.itemID \in Requests
             /\ phase'[e.itemID] \in {"performed", "done"}
             /\ req[e.itemID].key # "absent"
             /\ e = [key |-> StorageKey(e.itemID), fingerprint |-> Fingerprint(req[e.itemID]),
                     itemID |-> e.itemID, at |-> 0]
             /\ OwnItem(e.itemID) \in items'
  <2>1. CASE e \in records BY <1>2, <2>1, Zenon DEF IInv, Made
  <2>2. CASE e \notin records
    <3>1. e = OwnRecord(r) /\ p # "called" /\ OwnItem(r) \in items' /\ req[r].key # "absent" BY <2>2, Zenon
    <3>2. e.itemID = r BY <3>1, Zenon DEF OwnRecord
    <3> QED BY <1>1, <3>1, <3>2, Zenon DEF OwnRecord
  <2> QED BY <2>1, <2>2
<1>6. ASSUME NEW e \in records', NEW f \in records', e.key = f.key PROVE e = f
  <2>1. OwnRecord(r).key = StorageKey(r) BY Zenon DEF OwnRecord
  <2>2. \A x, y \in records : x.key = y.key => x = y BY Zenon DEF IInv, Made
  <2>3. CASE e \in records /\ f \in records BY <1>6, <2>2, <2>3, Zenon
  <2>4. CASE e \in records /\ f \notin records
    <3>1. f = OwnRecord(r) /\ e.key # StorageKey(r) BY <2>4, Zenon
    <3> QED BY <1>6, <2>1, <3>1, Zenon
  <2>5. CASE e \notin records /\ f \in records
    <3>1. e = OwnRecord(r) /\ f.key # StorageKey(r) BY <2>5, Zenon
    <3> QED BY <1>6, <2>1, <3>1, Zenon
  <2>6. CASE e \notin records /\ f \notin records
    <3>1. e = OwnRecord(r) /\ f = OwnRecord(r) BY <2>6, Zenon
    <3> QED BY <3>1, Zenon
  <2> QED BY <2>3, <2>4, <2>5, <2>6, Zenon
<1>7. ASSUME NEW s \in Requests, phase'[s] = "performed" PROVE \E e \in records' : e.itemID = s
  <2>1. CASE s # r BY <1>1, <1>7, <2>1, Zenon DEF IInv, Made
  <2>2. CASE s = r
    <3>1. p = "performed" BY <1>1, <1>7, <2>2, Zenon
    <3>2. OwnRecord(r).itemID = r BY Zenon DEF OwnRecord
    <3> QED BY <2>2, <3>1, <3>2, Zenon
  <2> QED BY <2>1, <2>2
<1> QED BY <1>3, <1>4, <1>5, <1>6, <1>7, Zenon DEF Made

\* An answer with an Item stands from the moment the call is over.
LEMMA AnswersGrow ==
  ASSUME IInv, UNCHANGED <<req, rateKey>>, NEW r \in Requests, phase[r] # "done",
         NEW p, phase' = [phase EXCEPT ![r] = p],
         items \subseteq items', records \subseteq records',
         \/ UNCHANGED answer
         \/ \E a : /\ answer' = [answer EXCEPT ![r] = a]
                   /\ a.ID # NoID => p = "done" /\ Answered(r)'
  PROVE  Answers'
<1>1. phase'[r] = p /\ \A s \in Requests : s # r => phase'[s] = phase[s]
  BY Zenon DEF IInv, Phases
<1>2. answer = [s \in Requests |-> answer[s]] BY Zenon DEF IInv, Answers
<1>3. \A s \in Requests : s # r => answer'[s] = answer[s]
  BY <1>2, Zenon
<1>4. answer'[r].ID # NoID => p = "done" /\ Answered(r)'
  BY <1>2, Zenon DEF IInv, Answers
<1>5. answer' = [s \in Requests |-> answer'[s]]
  BY <1>2, Zenon
<1>6. \A s : OwnItem(s)' = OwnItem(s) /\ StorageKey(s)' = StorageKey(s)
  BY Zenon DEF OwnItem, StorageKey
<1>7. ASSUME NEW s \in Requests, s # r, answer'[s].ID # NoID PROVE phase'[s] = "done" /\ Answered(s)'
  <2>1. phase[s] = "done" /\ Answered(s) BY <1>3, <1>7, Zenon DEF IInv, Answers
  <2> QED BY <1>1, <1>3, <1>6, <1>7, <2>1, Zenon DEF Answered
<1> QED BY <1>1, <1>4, <1>5, <1>7, Zenon DEF Answers

\* A step of one request in or towards the store.
LEMMA CallsInv ==
  ASSUME IInv, NEW r \in Requests, Handler(r), UNCHANGED status,
         pc[r] \in {"service", "calling"}, NEW l \in {"calling", "respond"}, pc' = [pc EXCEPT ![r] = l],
         req[r].route = "create", req[r].form = "ok", req[r].key # "malformed", Identity(r),
         NEW p \in {"called", "performed", "done"}, phase' = [phase EXCEPT ![r] = p],
         p # "done" => req[r].key # "absent",
         \A s \in Requests : s # r => answer'[s] = answer[s],
         TypedStore', Made', Answers'
  PROVE  IInv'
<1>1. UNCHANGED <<config, req, rateKey, buckets, spent, status>>
  BY Zenon DEF Handler, limiter
<1>2. Moves(r)
  BY Zenon DEF Moves, Handler, Inside
<1>3. /\ pc'[r] = l /\ phase'[r] = p /\ status[r] = 0
      /\ \A s \in Requests : s # r => pc'[s] = pc[s] /\ phase'[s] = phase[s]
      /\ phase' \in [Requests -> {"start", "called", "performed", "done"}]
  <2>1. pc'[r] = l /\ \A s \in Requests : s # r => pc'[s] = pc[s]
    BY Zenon DEF IInv, TypeOK
  <2>2. phase'[r] = p /\ \A s \in Requests : s # r => phase'[s] = phase[s]
    BY Zenon DEF IInv, Phases
  <2>3. phase' \in [Requests -> {"start", "called", "performed", "done"}]
    BY Zenon DEF IInv, Phases
  <2>4. status[r] = 0
    BY Zenon DEF IInv, Positions, Position, Inside
  <2> QED BY <2>1, <2>2, <2>3, <2>4, SMTT(20)
<1>4. TypedLimiter /\ TypedLimiter' /\ (rateKey \in [Requests -> RateKeys])'
  BY <1>1, Zenon DEF IInv, TypeOK, TypedLimiter
<1>5. TypeOK'
  BY <1>2, <1>4, MovesTyped, Zenon DEF IInv
<1>6. Positions' /\ Gauges'
  BY <1>2, MovesObserved, Zenon DEF IInv
<1>7. Limits'
  BY <1>1, Zenon DEF IInv, Limits
<1>8. \A s \in Requests : Identity(s)' <=> Identity(s)
  BY <1>1, Zenon DEF Identity, PrincipalRateKey, ClientRateKey
<1>9. Identities'
  BY <1>1, <1>3, <1>8, ZenonT(30) DEF IInv, Identities
<1>10. Phases'
  <2>1. ~Malformed(req[r]) BY Zenon DEF Malformed
  <2>2. ASSUME NEW s \in Requests
        PROVE  /\ pc'[s] \in {"service", "calling", "respond"} => ~Malformed(req[s])
               /\ pc'[s] \in {"calling", "respond"} => phase'[s] # "start"
               /\ phase'[s] # "start" =>
                    /\ pc'[s] \in {"calling", "respond", "return", "done"}
                    /\ req[s].route = "create" /\ req[s].form = "ok" /\ req[s].key # "malformed"
                    /\ Identity(s)
               /\ phase'[s] \in {"called", "performed"} => req[s].key # "absent"
    <3>1. CASE s = r BY <1>3, <2>1, <3>1, Zenon
    <3>2. CASE s # r BY <1>3, <3>2, Zenon DEF IInv, Phases
    <3> QED BY <3>1, <3>2
  <2> QED BY <1>1, <1>3, <1>8, <2>2, Zenon DEF Phases
<1>11. Reasons'
  <2>1. Reason(r)'
    <3>1. status'[r] = 0 BY <1>1, <1>3, Zenon
    <3> QED BY <3>1, SMTT(30) DEF Reason, Blaming, Refusing, Succeeding
  <2>2. \A x \in RateKeys : spent'[x] >= spent[x]
    <3>1. \A x \in RateKeys : spent'[x] = spent[x] /\ spent[x] \in Nat
      BY <1>1, <1>4, Zenon DEF TypedLimiter
    <3> QED BY <3>1, SMTT(30)
  <2>3. ASSUME NEW s \in Requests, s # r PROVE Reason(s)'
    <3>1. rateKey[s] \in RateKeys BY Zenon DEF IInv, TypeOK
    <3>2. Reason(s) BY Zenon DEF IInv, Reasons
    <3> QED BY <1>1, <1>3, <1>4, <2>2, <2>3, <3>1, <3>2, ReasonKept, Zenon
  <2> QED BY <2>1, <2>3, ZenonT(30) DEF Reasons
<1> QED BY <1>5, <1>6, <1>7, <1>9, <1>10, <1>11, Zenon DEF IInv

=============================================================================
