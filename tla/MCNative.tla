-------------------------------- MODULE MCNative --------------------------------
(***************************************************************************)
(* The native machines.  They share no state, and a behaviour moves one of *)
(* them, chosen at its start; the others rest, so that their state spaces  *)
(* add up and do not multiply.                                             *)
(***************************************************************************)
EXTENDS WindowsCapture, LinuxCapture, InterruptRead, FirmwareSession, InitialSdp,
        WindowsShell, VideoPopup

CONSTANTS a1, a2

VARIABLE machine

nativeVars == <<machine, wVars, lVars, irqVars, fwVars, sdpVars, shVars, puVars>>

Init ==
    /\ machine \in {"windows capture", "linux capture", "interrupt read", "firmware",
                    "initial sdp", "shell", "popup"}
    /\ wInit /\ lInit /\ irqInit /\ fwInit /\ sdpInit /\ shInit /\ puInit

OnWindows(A) == machine = "windows capture" /\ A
                /\ UNCHANGED <<machine, lVars, irqVars, fwVars, sdpVars, shVars, puVars>>
OnLinux(A) == machine = "linux capture" /\ A
              /\ UNCHANGED <<machine, wVars, irqVars, fwVars, sdpVars, shVars, puVars>>
OnRead(A) == machine = "interrupt read" /\ A
             /\ UNCHANGED <<machine, wVars, lVars, fwVars, sdpVars, shVars, puVars>>
OnFirmware(A) == machine = "firmware" /\ A
                 /\ UNCHANGED <<machine, wVars, lVars, irqVars, sdpVars, shVars, puVars>>
OnSdp(A) == machine = "initial sdp" /\ A
            /\ UNCHANGED <<machine, wVars, lVars, irqVars, fwVars, shVars, puVars>>
OnShell(A) == machine = "shell" /\ A
              /\ UNCHANGED <<machine, wVars, lVars, irqVars, fwVars, sdpVars, puVars>>
OnPopup(A) == machine = "popup" /\ A
              /\ UNCHANGED <<machine, wVars, lVars, irqVars, fwVars, sdpVars, shVars>>

Next ==
    \/ OnWindows(WNext) \/ OnLinux(LNext) \/ OnRead(irqNext) \/ OnFirmware(fwNext)
    \/ OnSdp(NextSdp) \/ OnShell(shNext) \/ OnPopup(puNext)

UnfairSpec == Init /\ [][Next]_nativeVars

(***************************************************************************)
(* Threads run and handlers return; a read of the Windows camera returns;  *)
(* a dequeue of the Linux driver returns once its stream is off; a USB     *)
(* transfer ends by its deadline; Dart answers windowWillClose.            *)
(***************************************************************************)
Spec ==
    /\ UnfairSpec
    /\ WF_nativeVars(OnWindows(WReturn \/ WLaunch))
    /\ WF_nativeVars(OnLinux(LReturn \/ LStarting))
    /\ \A t \in CaptureThread :
        /\ WF_nativeVars(OnWindows(WCaptureThread(t)))
        /\ WF_nativeVars(OnLinux(LLook(t) \/ LPush(t) \/ Requeue(t)))
        /\ WF_nativeVars(OnLinux(~lOn /\ DequeueNothing(t)))
    /\ WF_nativeVars(OnFirmware(fwTransfer))
    /\ WF_nativeVars(OnFirmware(DriverStop \/ DriverDisconnect))
    /\ WF_nativeVars(OnShell(shWrite \/ shDestroy \/ shQuit))
    /\ WF_nativeVars(OnShell(\E r \in {"success", "error", "notImplemented"} :
                                 WindowCloseResult(r)))

-----------------------------------------------------------------------------
\* Every variable of every machine has its type.
NativeTypeOK ==
    /\ WTypeOK /\ LTypeOK /\ irqTypeOK /\ fwTypeOK /\ sdpTypeOK /\ shTypeOK /\ puTypeOK

Feed == INSTANCE FrameFeed WITH
    made <- IF machine = "windows capture" THEN wMade ELSE lMade,
    shown <- IF machine = "windows capture" THEN wShown ELSE lShown,
    listening <- IF machine = "windows capture" THEN wSink /\ wStreaming ELSE lStreaming

(***************************************************************************)
(* Both captures implement the frame feed: frames reach the listener in    *)
(* the order in which they were made, none twice, and none reaches a       *)
(* listener that is gone, across stops, restarts and failed starts.        *)
(***************************************************************************)
ImplementsFeed == Feed!Spec

\* A handler of the plugin returns: joining the capture thread never blocks
\* the platform's thread for good.
StopsReturn ==
    /\ wCall # "none" ~> wCall = "none"
    /\ lCall # "none" ~> lCall = "none"
=============================================================================
