--------------------------- MODULE MCMemoryStore ---------------------------
(* Small instances of MemoryStore; calls, keys and values are each         *)
(* interchangeable.                                                        *)
EXTENDS MemoryStore, TLC

Symmetries == Permutations(Calls) \cup Permutations(Keys) \cup Permutations(Values)
=============================================================================
