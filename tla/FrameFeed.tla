------------------------------- MODULE FrameFeed -------------------------------
(***************************************************************************)
(* What a platform's video capture promises the widget that draws it:      *)
(* frames of the device, shown in the order in which they were made, none  *)
(* twice, and only while the widget listens.  Frames may be skipped.       *)
(***************************************************************************)
EXTENDS Naturals

VARIABLES
    made,       \* number of frames made, and the newest frame
    shown,      \* the frame shown last, 0 before the first
    listening   \* there is a listener

vars == <<made, shown, listening>>

Init == made = 0 /\ shown = 0 /\ listening = FALSE

Make == made' = made + 1 /\ UNCHANGED <<shown, listening>>

Show ==
    /\ listening
    /\ shown' \in shown+1 .. made
    /\ UNCHANGED <<made, listening>>

Listen == listening' = TRUE /\ UNCHANGED <<made, shown>>
Cancel == listening' = FALSE /\ UNCHANGED <<made, shown>>

Next == Make \/ Show \/ Listen \/ Cancel

Spec == Init /\ [][Next]_vars
=============================================================================
