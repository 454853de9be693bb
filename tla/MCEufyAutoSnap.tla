--------------------------- MODULE MCEufyAutoSnap ---------------------------
(* EufyAutoSnap for two cameras, two of the five allowed intervals and one  *)
(* number that is not allowed.                                              *)
EXTENDS EufyAutoSnap
=============================================================================
