------------------------------ MODULE MCLists -------------------------------
(* Lists for TLC: heads and entries are interchangeable. *)
EXTENDS Lists

Symmetry == Permutations(Heads) \union Permutations(Entries)
=============================================================================
