---------------------------- MODULE MCLifecycle ----------------------------
(* Small instances of Lifecycle.                                            *)
EXTENDS Lifecycle, TLC

Symmetry == Permutations(Users) \cup Permutations(Generators)
=============================================================================
