------------------------------ MODULE MCFiles -------------------------------
(* Files for TLC: slots, names and dnodes are interchangeable.              *)
EXTENDS Files, TLC

Symmetry == Permutations(Procs) \union Permutations(Names) \union Permutations(Dnodes)
=============================================================================
