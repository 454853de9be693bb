-------------------------- MODULE MCWyzeStreamCache --------------------------
(* WyzeStreamCache with two interchangeable callers and cameras. *)
EXTENDS WyzeStreamCache, TLC

Symmetry == Permutations(Calls) \cup Permutations(Macs)
=============================================================================
