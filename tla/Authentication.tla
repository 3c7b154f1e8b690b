--------------------------- MODULE Authentication ---------------------------
(***************************************************************************)
(* Bearer authentication (pkg/auth): from the values of the Authorization  *)
(* header to a principal.                                                  *)
(*                                                                         *)
(* A value is a sequence of symbols: the word of the scheme in two         *)
(* spellings, "a" for any other characters of a token, "=", white space,   *)
(* and "%" for everything else.  Lengths count symbols, so that "Bearer "  *)
(* has two.  Digests of different tokens are taken to differ.              *)
(***************************************************************************)
EXTENDS Naturals, Sequences, FiniteSets

CONSTANTS MaxBearerTokenBytes,
          Secrets  \* the principal of each token whose digest is configured

ASSUME BearerAssumption == MaxBearerTokenBytes \in Nat

\* strings.EqualFold(scheme, "Bearer")
BearerWords == {"Bearer", "bearer"}

TokenCharacters == BearerWords \cup {"a"}

\* Padding only at the end, and not alone.
validBearerTokenPaddingAnywhere(token) ==
  /\ token # <<>>
  /\ token[1] # "="
  /\ \A i \in DOMAIN token : token[i] \in TokenCharacters \cup {"="}
validBearerToken(token) ==
  /\ token # <<>>
  /\ token[1] # "="
  /\ \A i \in DOMAIN token :
       \/ token[i] \in TokenCharacters
       \/ \A j \in i..Len(token) : token[j] = "="

Refused == <<>>

\* The token of the one value, or Refused.
ParseBearerHeader(values) ==
  LET raw == values[1]
      spaces == {i \in DOMAIN raw : raw[i] = " "}
      separator == CHOOSE i \in spaces : TRUE
      token == SubSeq(raw, separator + 1, Len(raw))
  IN IF /\ Len(values) = 1
        /\ Len(raw) <= MaxBearerTokenBytes + 2
        /\ Cardinality(spaces) = 1
        /\ \A i \in DOMAIN raw : raw[i] # "\t"
        /\ separator \notin {1, Len(raw)}
        /\ SubSeq(raw, 1, separator - 1) \in {<<word>> : word \in BearerWords}
        /\ Len(token) <= MaxBearerTokenBytes
        /\ validBearerToken(token)
     THEN token ELSE Refused

\* BearerSHA256.Authenticate while the context lasts.
Verify(values) ==
  LET token == ParseBearerHeader(values)
  IN IF token # Refused /\ token \in DOMAIN Secrets THEN Secrets[token] ELSE "refused"
=============================================================================
