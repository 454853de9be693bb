----------------------------- MODULE MCWyzeLogin -----------------------------
(* WyzeLogin for two callers, with the times scaled down. *)
EXTENDS WyzeLogin
=============================================================================
