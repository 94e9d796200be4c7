------------------------------ MODULE MCNetSink ------------------------------
(* Small instances of NetSink.                                              *)
EXTENDS NetSink, TLC

Symmetry == Permutations(Callers)
=============================================================================
