----------------------------- MODULE MCEufyTile -----------------------------
(* EufyTile with few snapshots, events and requests. *)
EXTENDS EufyTile
=============================================================================
