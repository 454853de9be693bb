--------------------------- MODULE MCCaptureFrame ---------------------------
(* CaptureFrame with two calls in one process. *)
EXTENDS CaptureFrame
=============================================================================
