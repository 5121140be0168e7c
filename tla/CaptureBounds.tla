----------------------------- MODULE CaptureBounds -----------------------------
(* What the two native video captures share: their bounds. *)
EXTENDS Naturals, Sequences

CONSTANTS
    MaxCaptures,    \* bound on the capture threads started
    MaxFrames       \* bound on the frames made

ASSUME CaptureAssumption == MaxCaptures \in Nat /\ MaxFrames \in Nat

\* Capture threads, in the order of their start; NoThread is the null pointer.
NoThread == 0
CaptureThread == 1..MaxCaptures
=============================================================================
