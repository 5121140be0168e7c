-------------------- MODULE MCRemoteControl --------------------
(* Two hosts, two controls, and connections that are lost, replaced or found again. *)
EXTENDS RemoteControl

CONSTANTS i1, i2
=============================================================================
