-------------------- MODULE MCPolling --------------------
(* Two mapped parameters, polling switched on twice. *)
EXTENDS Polling

CONSTANTS c1, c2
=============================================================================
