--------------------------- MODULE MCDashboardTile ---------------------------
(* DashboardTile with a few starts. *)
EXTENDS DashboardTile
=============================================================================
