--------------------------- MODULE MCEufyStreams ---------------------------
(* EufyStreams on small sets of viewers and callers. *)
EXTENDS EufyStreams
=============================================================================
