--------------------------- MODULE MCFixedHashMap ---------------------------
(* FixedHashMap for TLC: keys and values are interchangeable. *)
EXTENDS FixedHashMap, TLC

Symmetry == Permutations(Keys) \cup Permutations(MapValues)
=============================================================================
