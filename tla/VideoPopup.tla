------------------------------- MODULE VideoPopup -------------------------------
(***************************************************************************)
(* The video popup of the Windows build: the manager and the window of     *)
(* windows/runner/windows_video_popup_manager.cpp over win32_window.cpp,   *)
(* and the calls of the popup's own engine that windows_video_popup_       *)
(* remote.h forwards to the main engine.  The flag alive_ is shared with   *)
(* the results that are pending: a result is passed on, and a closing      *)
(* popup destroyed, only while it is set.                                  *)
(*                                                                         *)
(* Popup objects are numbered as they are made.  One is made within a call *)
(* of openOrFocus, in steps that no other handler of the platform thread   *)
(* comes between.                                                          *)
(***************************************************************************)
EXTENDS Naturals

CONSTANTS
    MaxPopups,      \* bound on the popup objects made
    MaxForwards     \* bound on the calls forwarded

ASSUME PopupAssumption == MaxPopups \in Nat /\ MaxForwards \in Nat

VARIABLES
    puMade,     \* popup objects made so far
    puManager,  \* the object popup_window_ owns, or 0
    puNew,      \* the object openOrFocus is making, or 0
    puStep,     \* how far it is: "none", "window", "engine" or "failed"
    puWindows,  \* objects whose window exists
    puEngines,  \* objects that have an engine
    puAlive,    \* objects whose alive_ is set
    puClosing,  \* of the manager's: "no", or closing_ and the child is "asked" or has "answered"
    puActive,   \* its window is shown, active and not minimised
    puHosts,    \* objects whose remote_host_ is set
    puAttached, \* those whose host the main engine was told of, and not that it is gone
    puPage,     \* the main engine was told to open the page of the host, and not to close it
    puCalls,    \* calls of each that the main engine has not answered
    puSent,     \* calls forwarded
    puGot       \* results passed on to a child

puObjectVars == <<puMade, puManager, puNew, puStep>>
puWindowVars == <<puWindows, puEngines, puAlive, puClosing, puActive>>
puHostVars == <<puHosts, puAttached, puPage>>
puCallVars == <<puCalls, puSent, puGot>>
puVars == <<puObjectVars, puWindowVars, puHostVars, puCallVars>>

Popup == 1..MaxPopups

puInit ==
    /\ puMade = 0 /\ puManager = 0 /\ puNew = 0 /\ puStep = "none"
    /\ puWindows = {} /\ puEngines = {} /\ puAlive = {}
    /\ puClosing = "no" /\ puActive = FALSE
    /\ puHosts = {} /\ puAttached = {} /\ puPage = FALSE
    /\ puCalls = [p \in Popup |-> 0] /\ puSent = 0 /\ puGot = 0

\* The manager's popup is there; no other is being made.
Up == puStep = "none" /\ puManager \in puWindows

-----------------------------------------------------------------------------
(* Making a popup *)

\* An existing popup is raised, even while it closes.  One whose window has
\* gone is cleared, and a new object made with its flag set.
OpenOrFocus ==
    /\ puStep = "none"
    /\ IF puManager \in puWindows
       THEN puActive' = TRUE /\ UNCHANGED <<puObjectVars, puAlive, puClosing, puHosts>>
       ELSE /\ puMade < MaxPopups /\ puMade' = puMade + 1
            /\ puManager' = 0 /\ puHosts' = puHosts \ {puManager}
            /\ puNew' = puMade' /\ puStep' = "window" /\ puAlive' = puAlive \cup {puMade'}
            /\ puClosing' = "no" /\ puActive' = FALSE
    /\ UNCHANGED <<puWindows, puEngines, puAttached, puPage, puCallVars>>

\* Win32Window::Create first destroys what the object has.  This calls the
\* popup's OnDestroy, which resets the flag of the window still to come.
CreateWindow ==
    /\ puStep = "window" /\ puAlive' = puAlive \ {puNew}
    /\ \/ puStep' = "engine" /\ puWindows' = puWindows \cup {puNew}
       \/ puStep' = "failed" /\ UNCHANGED puWindows
    /\ UNCHANGED <<puMade, puManager, puNew, puEngines, puClosing, puActive, puHostVars, puCallVars>>

\* OnCreate: the popup becomes the manager's when it has its engine; a
\* controller without an engine or without a view fails.
OnCreate ==
    /\ puStep = "engine"
    /\ \/ /\ puEngines' = puEngines \cup {puNew}
          /\ puManager' = puNew /\ puNew' = 0 /\ puStep' = "none"
       \/ /\ puEngines' \in {puEngines, puEngines \cup {puNew}}
          /\ puStep' = "failed" /\ UNCHANGED <<puManager, puNew>>
    /\ UNCHANGED <<puMade, puWindows, puAlive, puClosing, puActive, puHostVars, puCallVars>>

\* Variants named ...Slip are the next definition with a plausible mistake.
DropFailedSlip ==
    /\ puStep = "failed" /\ puStep' = "none" /\ puNew' = 0
    /\ puEngines' = puEngines \ {puNew} /\ puAlive' = puAlive \ {puNew}
    /\ UNCHANGED <<puMade, puManager, puWindows, puClosing, puActive, puHostVars, puCallVars>>

\* openOrFocus returns false and the object goes, its members first: the engine,
\* then ~Win32Window destroys the window.
DropFailed ==
    /\ puStep = "failed" /\ puStep' = "none" /\ puNew' = 0
    /\ puEngines' = puEngines \ {puNew} /\ puWindows' = puWindows \ {puNew}
    /\ puAlive' = puAlive \ {puNew}
    /\ UNCHANGED <<puMade, puManager, puClosing, puActive, puHostVars, puCallVars>>

-----------------------------------------------------------------------------
(* Its window *)

\* WM_DESTROY: the window goes, OnDestroy tells the main engine that the host is
\* gone and drops the engine.  The object stays with the manager.
OnDestroy ==
    /\ puWindows' = puWindows \ {puManager} /\ puEngines' = puEngines \ {puManager}
    /\ puAlive' = puAlive \ {puManager}
    /\ IF puManager \in puHosts
       THEN puAttached' = puAttached \ {puManager} /\ puPage' = FALSE
       ELSE UNCHANGED <<puAttached, puPage>>
    /\ puActive' = FALSE /\ puClosing' = "no"
    /\ UNCHANGED <<puObjectVars, puHosts, puCallVars>>

\* Its destruction may bypass WM_CLOSE.
Destroyed == Up /\ OnDestroy

\* configureVideoPopup and raiseCurrentWindow of the child, or the user:
\* the window is shown and gets the focus.
Activate ==
    /\ Up /\ ~puActive /\ puActive' = TRUE
    /\ UNCHANGED <<puObjectVars, puWindows, puEngines, puAlive, puClosing, puHostVars, puCallVars>>

\* Another window is activated, or the popup is hidden or minimised: the main
\* engine is told to close the host's page.
Deactivate ==
    /\ Up /\ puActive /\ puActive' = FALSE
    /\ puPage' = (puPage /\ puManager \notin puHosts)
    /\ UNCHANGED <<puObjectVars, puWindows, puEngines, puAlive, puClosing, puHosts, puAttached,
                   puCallVars>>

\* WM_CLOSE, once: the child is asked to clean up.
Close ==
    /\ Up /\ puClosing = "no" /\ puClosing' = "asked"
    /\ UNCHANGED <<puObjectVars, puWindows, puEngines, puAlive, puActive, puHostVars, puCallVars>>

\* The child's answer, of whatever kind: the window is destroyed if the flag
\* is set.
Finish ==
    /\ Up /\ puClosing = "asked"
    /\ IF puManager \in puAlive THEN OnDestroy
       ELSE /\ puClosing' = "answered"
            /\ UNCHANGED <<puObjectVars, puWindows, puEngines, puAlive, puActive, puHostVars,
                           puCallVars>>

-----------------------------------------------------------------------------
(* Calls to the main engine *)

\* HandleMethodCall: a remote call is forwarded; remoteAcquire names the host.
\* The main engine opens no page for a host that it does not have.
ForwardRemote(method) ==
    /\ Up /\ puSent < MaxForwards /\ puSent' = puSent + 1
    /\ puCalls' = [puCalls EXCEPT ![puManager] = @ + 1]
    /\ puHosts' = IF method = "remoteAcquire" THEN puHosts \cup {puManager} ELSE puHosts
    /\ puAttached' = CASE method = "remoteAcquire" -> puAttached \cup {puManager}
                       [] method = "remoteDetach"  -> puAttached \ {puManager}
                       [] OTHER -> puAttached
    /\ puPage' = CASE method = "remoteOpen" -> puPage \/ puManager \in puAttached
                   [] method \in {"remoteClose", "remoteDetach"} -> FALSE
                   [] OTHER -> puPage
    /\ UNCHANGED <<puObjectVars, puWindowVars, puGot>>

\* The main engine's result, of whatever kind.
MainResult(p) ==
    /\ puStep = "none"
    /\ puCalls[p] > 0 /\ puCalls' = [puCalls EXCEPT ![p] = @ - 1]
    /\ puGot' = IF p \in puAlive THEN puGot + 1 ELSE puGot
    /\ UNCHANGED <<puObjectVars, puWindowVars, puHostVars, puSent>>

Method == {"remoteAcquire", "remoteRead", "remoteOpen", "remoteClose", "remoteDetach"}

puNext ==
    \/ OpenOrFocus \/ CreateWindow \/ OnCreate \/ DropFailed
    \/ Destroyed \/ Activate \/ Deactivate \/ Close \/ Finish
    \/ \E method \in Method : ForwardRemote(method)
    \/ \E p \in Popup : MainResult(p)

puSpec == puInit /\ [][puNext]_puVars

-----------------------------------------------------------------------------
(* Properties *)

\* Every variable has its type; an object is being made exactly during its steps.
puTypeOK ==
    /\ puMade \in 0..MaxPopups /\ puManager \in 0..puMade /\ puNew \in 0..puMade
    /\ puStep \in {"none", "window", "engine", "failed"} /\ (puStep = "none" <=> puNew = 0)
    /\ puWindows \subseteq Popup /\ puEngines \subseteq Popup /\ puAlive \subseteq Popup
    /\ puClosing \in {"no", "asked", "answered"} /\ puActive \in BOOLEAN
    /\ puHosts \subseteq Popup /\ puAttached \subseteq Popup /\ puPage \in BOOLEAN
    /\ puCalls \in [Popup -> 0..MaxForwards]
    /\ puSent \in 0..MaxForwards /\ puGot \in 0..MaxForwards

(***************************************************************************)
(* There is one popup at most, the manager's or the one being made, and    *)
(* what is left of others is nothing: no window or engine of a creation    *)
(* that failed half-way, and, with the main engine, neither the host nor   *)
(* the open page of a popup that was closed or destroyed.                  *)
(***************************************************************************)
OnePopup ==
    /\ puWindows \cup puEngines \subseteq {IF puStep = "none" THEN puManager ELSE puNew}
    /\ puStep = "none" => puEngines = puWindows
    /\ puAttached \subseteq puWindows /\ (puPage => puAttached # {})

\* "Remote commands must return the main authority's actual result", except
\* to a popup that is destroyed.
ResultsReachTheChild ==
    [][\A p \in puWindows : puCalls'[p] < puCalls[p] => puGot' > puGot]_puVars
=============================================================================
