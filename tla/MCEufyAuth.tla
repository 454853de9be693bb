----------------------------- MODULE MCEufyAuth -----------------------------
(* EufyAuth with a few captchas, on pages of either kind. *)
EXTENDS EufyAuth
=============================================================================
