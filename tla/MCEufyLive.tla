----------------------------- MODULE MCEufyLive -----------------------------
(* EufyLive with two attempts to stream and one snapshot caller. *)
EXTENDS EufyLive
=============================================================================
