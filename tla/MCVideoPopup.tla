----------------------------- MODULE MCVideoPopup -----------------------------
(* Three popups made, one after the other, and three forwarded calls. *)
EXTENDS VideoPopup
=============================================================================
