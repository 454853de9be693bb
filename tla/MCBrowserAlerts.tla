--------------------------- MODULE MCBrowserAlerts ---------------------------
(* BrowserAlerts with a few events and two polls that overlap. *)
EXTENDS BrowserAlerts
=============================================================================
