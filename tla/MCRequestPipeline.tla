-------------------------- MODULE MCRequestPipeline --------------------------
(***************************************************************************)
(* Three loads for TLC: two requests of any kind, three that compete for   *)
(* the limiter, and one with any short Authorization header.               *)
(***************************************************************************)
EXTENDS RequestPipeline, TLC

CONSTANTS r1, r2, r3, s1, p1, p2, k1, t1, t2

\* The loads treat r1 and r2 alike.
Symmetry == Permutations({r1, r2})

MCConfigs ==
  {[auth |-> c[1], limiter |-> c[2], generator |-> c[3], load |-> c[4]] :
     c \in {<<FALSE, FALSE, "random", "any">>, <<TRUE, FALSE, "custom", "any">>,
            <<TRUE, TRUE, "random", "any">>, <<TRUE, TRUE, "random", "refusals">>,
            <<TRUE, FALSE, "random", "headers">>}}

\* One token of each kind: two good ones, one of an invalid principal, two the
\* grammar does not know and one that is too long.
MCSecrets ==
  <<"a">> :> s1 @@ <<"a", "=", "=">> :> s1 @@ <<"a", "a">> :> "invalidPrincipal" @@
  <<"a", "=", "a">> :> s1 @@ <<"=", "a">> :> s1 @@ <<"a", "a", "a", "=">> :> s1

Bearer(token) == << <<"Bearer", " ">> \o token >>

\* A valid keyed create; the traffic varies it one aspect at a time.
Base == [route |-> "create", form |-> "ok", authorization |-> Bearer(<<"a">>), peer |-> p1,
         key |-> k1, text |-> t1, padded |-> FALSE]

Creates ==
  {Base,
   [Base EXCEPT !.text = t2],
   [Base EXCEPT !.key = "absent", !.authorization = Bearer(<<"a", "a">>)],
   [Base EXCEPT !.key = "malformed"],
   [Base EXCEPT !.form = "invalid"],
   [Base EXCEPT !.peer = p2, !.authorization = <<>>],
   [Base EXCEPT !.peer = "unparsable", !.padded = TRUE]}

Others ==
  {[Base EXCEPT !.route = q, !.key = "absent"] : q \in {"get", "listCursor", "probe", "unmatched"}}
    \cup {[Base EXCEPT !.route = "listCursor", !.form = "invalid", !.key = "absent"]}

\* One principal, and missing credentials from two peers.
Refusals ==
  {[Base EXCEPT !.route = "unmatchedAPI", !.authorization = c[1], !.peer = c[2]] :
     c \in {<<Bearer(<<"a">>), p1>>, <<<<>>, p1>>, <<<<>>, p2>>}}

Strings(symbols, length) == UNION {[1..n -> symbols] : n \in 0..length}

\* No value, two, every short one, and every rest after a scheme and a space.
Headers ==
  {<<>>, Bearer(<<"a">>) \o Bearer(<<"a">>)}
    \cup {<<raw>> : raw \in Strings({"Bearer", "bearer", "a", "=", " ", "\t", "%"}, 3)}
    \cup {<<<<word, " ">> \o rest>> : word \in {"bearer", "a"}, rest \in Strings({"a", "=", " ", "%"}, 4)}

AnyTraffic == Creates \cup Others
HeaderTraffic == {[Base EXCEPT !.route = "unmatchedAPI", !.authorization = h] : h \in Headers}

MCTraffic ==
  "any" :> (r1 :> AnyTraffic @@ r2 :> AnyTraffic @@ r3 :> {}) @@
  "refusals" :> (r1 :> Refusals @@ r2 :> Refusals @@ r3 :> Refusals) @@
  "headers" :> (r1 :> {} @@ r2 :> {} @@ r3 :> HeaderTraffic)
=============================================================================
