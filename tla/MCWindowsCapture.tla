--------------------------- MODULE MCWindowsCapture ---------------------------
(* The Windows capture alone: one camera thread and a backlog of two frames. *)
EXTENDS WindowsCapture
=============================================================================
