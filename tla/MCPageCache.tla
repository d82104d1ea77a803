---------------------------- MODULE MCPageCache ----------------------------
(* Frames and contents are interchangeable: only the initial state orders   *)
(* the frames, and every step and every property treats them alike.         *)
EXTENDS PageCache, TLC

Symmetry == Permutations(Frames) \union Permutations(Values)
=============================================================================
