------------------------------ MODULE WindowsShell ------------------------------
(***************************************************************************)
(* The main window of the Windows build, windows/runner/flutter_window.cpp *)
(* and win32_window.cpp under the message loop of main.cpp: its placement, *)
(* saved to a file when it is asked to close and restored by the next      *)
(* start, and the way it closes.  The process may be killed at any time.   *)
(*                                                                         *)
(* Placements are numbered; 0 is the default one.  A message that reaches  *)
(* the window between its WM_DESTROY and the end of the loop is left out.  *)
(***************************************************************************)
EXTENDS Naturals

CONSTANTS
    MaxPlaces,  \* bound on the placements the user gives the window
    MaxCloses   \* bound on the requests to close

ASSUME ShellAssumption == MaxPlaces \in Nat /\ MaxCloses \in Nat

VARIABLES
    shAt,       \* "off", "running", "saving" or "ending", after WM_DESTROY
    shPlace,    \* the placement of the window
    shFile,     \* the placement in the file, NoFile or ShortFile
    shSaved,    \* the placement saved last for the next start, 0 before the first
    shCalls,    \* windowWillClose calls Dart has not answered
    shDestroys, \* WM_DESTROY messages posted
    shCloses,   \* requests to close
    shMoves     \* placements given

shVars == <<shAt, shPlace, shFile, shSaved, shCalls, shDestroys, shCloses, shMoves>>

NoFile == 0
ShortFile == MaxPlaces + 1
Placement == 1..MaxPlaces

shInit ==
    /\ shAt = "off" /\ shPlace = 0 /\ shFile = NoFile /\ shSaved = 0
    /\ shCalls = 0 /\ shDestroys = 0 /\ shCloses = 0 /\ shMoves = 0

-----------------------------------------------------------------------------
\* Variants named ...Slip are the next definition with a plausible mistake.
RestoreSlip == IF shFile = NoFile THEN {0} ELSE {shFile, 0}

\* RestoreWindowPlacement: a file that is missing or short gives the default
\* placement, and so does a SetWindowPlacement that fails.
Restore == IF shFile \in Placement THEN {shFile, 0} ELSE {0}

\* Create: the window, its placement, the engine, the channels.
shStart ==
    /\ shAt = "off" /\ shAt' = "running" /\ shPlace' \in Restore
    /\ UNCHANGED <<shFile, shSaved, shCalls, shDestroys, shCloses, shMoves>>

shMove ==
    /\ shAt = "running" /\ shMoves < MaxPlaces
    /\ shMoves' = shMoves + 1 /\ shPlace' = shMoves'
    /\ UNCHANGED <<shAt, shFile, shSaved, shCalls, shDestroys, shCloses>>

\* WM_CLOSE: the file is opened for the placement, which empties it, or Dart is
\* told at once: the file cannot be opened, there is no placement, or there is no
\* profile directory, and the placement goes to a file no start restores from.
shClose ==
    /\ shAt = "running" /\ shCloses < MaxCloses /\ shCloses' = shCloses + 1
    /\ \/ shAt' = "saving" /\ shFile' = ShortFile /\ UNCHANGED shCalls
       \/ shCalls' = shCalls + 1 /\ UNCHANGED <<shAt, shFile>>
    /\ UNCHANGED <<shPlace, shSaved, shDestroys, shMoves>>

\* The placement is written, or the write fails; Dart is told.
shWrite ==
    /\ shAt = "saving" /\ shAt' = "running" /\ shCalls' = shCalls + 1
    /\ \/ shFile' = shPlace /\ shSaved' = shPlace
       \/ UNCHANGED <<shFile, shSaved>>
    /\ UNCHANGED <<shPlace, shDestroys, shCloses, shMoves>>

WindowCloseResultSlip(result) ==
    /\ shCalls > 0 /\ shAt = "running" /\ shCalls' = shCalls - 1
    /\ shDestroys' = shDestroys + (IF result = "error" THEN 0 ELSE 1)
    /\ UNCHANGED <<shAt, shPlace, shFile, shSaved, shCloses, shMoves>>

\* Dart's answer, success, error or not implemented: WM_DESTROY is posted.
WindowCloseResult(result) ==
    /\ shCalls > 0 /\ shAt = "running" /\ shCalls' = shCalls - 1
    /\ shDestroys' = shDestroys + 1
    /\ UNCHANGED <<shAt, shPlace, shFile, shSaved, shCloses, shMoves>>

\* WM_DESTROY: the engine goes, with the calls it has not answered, and
\* WM_QUIT is posted.
shDestroy ==
    /\ shDestroys > 0 /\ shAt \in {"running", "ending"}
    /\ shDestroys' = shDestroys - 1 /\ shAt' = "ending" /\ shCalls' = 0
    /\ UNCHANGED <<shPlace, shFile, shSaved, shCloses, shMoves>>

\* WM_QUIT comes after the posted messages and ends the process.
shQuit ==
    /\ shAt = "ending" /\ shDestroys = 0 /\ shAt' = "off"
    /\ UNCHANGED <<shPlace, shFile, shSaved, shCalls, shDestroys, shCloses, shMoves>>

\* The process is killed, the write it is in included.
shKill ==
    /\ shAt # "off" /\ shAt' = "off" /\ shCalls' = 0 /\ shDestroys' = 0
    /\ UNCHANGED <<shPlace, shFile, shSaved, shCloses, shMoves>>

shNext ==
    \/ shStart \/ shMove \/ shClose \/ shWrite \/ shDestroy \/ shQuit \/ shKill
    \/ \E result \in {"success", "error", "notImplemented"} : WindowCloseResult(result)

shSpec == shInit /\ [][shNext]_shVars

-----------------------------------------------------------------------------
(* Properties *)

\* Every variable has its type.
shTypeOK ==
    /\ shAt \in {"off", "running", "saving", "ending"}
    /\ shPlace \in 0..MaxPlaces
    /\ shFile \in {NoFile, ShortFile} \cup Placement /\ shSaved \in 0..MaxPlaces
    /\ shCalls \in 0..MaxCloses /\ shDestroys \in 0..MaxCloses
    /\ shCloses \in 0..MaxCloses /\ shMoves \in 0..MaxPlaces

(***************************************************************************)
(* A start gives the window the default placement or the one that was      *)
(* saved last, whatever happened to the process while it saved: never an   *)
(* older placement, and never what a write that was cut short left.        *)
(***************************************************************************)
RestoredPlacementIsWhole ==
    [][shAt = "off" /\ shAt' = "running" => shPlace' \in {0, shSaved}]_shVars

\* A request to close ends the process once Dart has answered, whatever its
\* answer, and however often the user asked.
CloseQuits == shCalls > 0 ~> shAt = "off"
=============================================================================
