---------------------------- MODULE MCWyzeDevices ----------------------------
(* WyzeDevices with two calls at once, interchangeable. *)
EXTENDS WyzeDevices

Symmetry == Permutations(Calls)
=============================================================================
