--------------------------- MODULE MCSkbRecycler ---------------------------
(* Small instances of SkbRecycler for TLC. *)
EXTENDS SkbRecycler, TLC

SmallMax == {0, 1}
ZeroMax == {0}
SmallSpare == {0, 1}
OneSpare == {1}

Symmetry == Permutations(Cpus) \cup Permutations(Skbs)
=============================================================================
