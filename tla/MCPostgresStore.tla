--------------------------- MODULE MCPostgresStore ---------------------------
(***************************************************************************)
(* Small databases for TLC.                                                *)
(***************************************************************************)
EXTENDS PostgresStore, TLC

CONSTANTS k1, k2, f1, f2, p1, p2

Symmetry == Permutations(Sessions)

\* Two keys whose hashes differ in their first 63 bits.
OwnLock == [k \in Keys |-> IF k = k1 THEN 1 ELSE 2]

\* Databases left by earlier requests.
NoPast == {}

TwoPast == {[key |-> k1, fingerprint |-> f1, itemID |-> p1, at |-> 0],
            [key |-> k2, fingerprint |-> f1, itemID |-> p2, at |-> 0]}
=============================================================================
