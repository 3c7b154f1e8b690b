---------------------------- MODULE MCMemoryStore ----------------------------
(***************************************************************************)
(* Small instances of MemoryStore for TLC.                                 *)
(***************************************************************************)
EXTENDS MemoryStore, TLC

\* Nothing orders goroutines, keys, fingerprints or UUIDs in this store.
Symmetry == Permutations(Goroutines) \cup Permutations(Keys)
            \cup Permutations(Fingerprints) \cup Permutations(IDs)
=============================================================================
