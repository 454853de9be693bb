---------------------------- MODULE MCWyzeTokens ----------------------------
(* WyzeTokens with one or two requests in flight and a few token pairs. *)
EXTENDS WyzeTokens
=============================================================================
