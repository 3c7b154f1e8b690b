------------------------------- MODULE Metrics -------------------------------
(***************************************************************************)
(* The labels of the HTTP metrics (pkg/metrics).  A route pattern is the   *)
(* sequence of its segments; "42" stands for the concrete numbers and      *)
(* UUIDs of a raw path and "?" for a segment with a character no label     *)
(* may have.                                                               *)
(***************************************************************************)
EXTENDS Naturals, Sequences

UnknownRoute == <<"unmatched">>

supportedMethods == {"CONNECT", "DELETE", "GET", "HEAD", "OPTIONS", "PATCH", "POST", "PUT", "TRACE"}

normalizeMethod(method) == IF method \in supportedMethods THEN method ELSE "OTHER"

\* A pattern keeps its segments, with OpenAPI's placeholders in Gin's form.
NormalizeRoute(route) ==
  IF route = <<>> \/ \E i \in DOMAIN route : route[i] \in {"", ".", "..", "42", "?"}
  THEN UnknownRoute
  ELSE [i \in DOMAIN route |-> IF route[i] = "{id}" THEN ":id" ELSE route[i]]

\* The class and the code.
normalizeStatus(status) ==
  IF status \in 100..599 THEN <<status \div 100, status>> ELSE <<0, 0>>

Series(method, route) == <<normalizeMethod(method), NormalizeRoute(route)>>

Sample(method, route, status) == <<Series(method, route), normalizeStatus(status)>>
=============================================================================
