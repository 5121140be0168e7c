---------------------------- MODULE WindowsProofs ----------------------------
(***************************************************************************)
(* The Windows runner: for every number of captures and frames, its        *)
(* capture threads are owned, and for every number of placements of the    *)
(* window and of requests to close, a placement that is restored is the    *)
(* default one or the one saved last.                                      *)
(***************************************************************************)
EXTENDS WindowsCapture, WindowsShell, TLAPS

-----------------------------------------------------------------------------
(***************************************************************************)
(* The capture.  That the thread that runs is capture_thread_ is inductive *)
(* together with how it will be stopped: while no handler stops it, it is  *)
(* the thread for which the flag is set; a handler that stops joins it and *)
(* has reset the flag.  So when the handler returns no thread runs, and a  *)
(* start may overwrite capture_thread_.                                    *)
(***************************************************************************)

\* A thread that runs is the plugin's, and is captured for or joined.
RunningIsStopped ==
    \A t \in CaptureThread :
        WRunning(t) => wAlive /\ wThread = t /\ (wCapturing \/ wJoin = t)

\* What each thread may have: nothing before its start, the camera only in
\* its loop, a frame once it is encoded.
ThreadStages ==
    \A t \in CaptureThread :
        /\ t > wStarts => wPc[t] = "none"
        /\ t \in wReader => wPc[t] \in {"loop", "reading", "encoded"}
        /\ wPc[t] = "encoded" => wHand[t] \in 1..MaxFrames

\* A handler that stops has reset the flag, and joins nothing once it returned.
CallsStop ==
    /\ wCall # "none" => wAlive /\ ~wCapturing
    /\ wJoin # NoThread => wCall # "none"

wInv == WTypeOK /\ RunningIsStopped /\ ThreadStages /\ CallsStop

USE CaptureAssumption

\* The first state: no thread has been started.
LEMMA wInitInv == wInit => wInv
<1> SUFFICES ASSUME wInit PROVE wInv
  OBVIOUS
<1>1. WTypeOK
  <2>1. wQueue \in Seq(1..MaxFrames)
    BY DEF wInit
  <2>2. 0 \in 0..MaxFrames /\ 0 \in 0..MaxCaptures
    OBVIOUS
  <2>3. /\ wPc \in [CaptureThread ->
                       {"none", "starting", "loop", "reading", "encoded", "done"}]
        /\ wHand \in [CaptureThread -> 0..MaxFrames]
    BY <2>2 DEF wInit
  <2>4. /\ wStarts \in 0..MaxCaptures /\ wMade \in 0..MaxFrames
        /\ wShown \in 0..MaxFrames
    BY <2>2 DEF wInit
  <2> QED
    BY <2>1, <2>3, <2>4 DEF wInit, WTypeOK
<1>2. RunningIsStopped /\ ThreadStages /\ CallsStop
  BY DEF wInit, RunningIsStopped, ThreadStages, CallsStop, WRunning, CaptureThread
<1> QED
  BY <1>1, <1>2 DEF wInv

\* A handler begins to stop the capture.
LEMMA wStopStep ==
    ASSUME wInv, NEW why \in {"start", "stop", "cancel", "destroy"}, StopVideoCapture(why)
    PROVE  wInv'
<1> USE DEF StopVideoCapture, WIdle, wThreadVars, wInv
<1>1. WTypeOK'
  BY DEF WTypeOK
<1>2. RunningIsStopped'
  BY DEF RunningIsStopped, WRunning, CallsStop
<1>3. ThreadStages' /\ CallsStop'
  BY DEF ThreadStages, CallsStop, WTypeOK
<1> QED
  BY <1>1, <1>2, <1>3

\* Once the join is over no thread runs.
LEMMA wNobodyRuns ==
    ASSUME wInv, wCall # "none", Joined
    PROVE  \A t \in CaptureThread : ~WRunning(t)
  BY DEF wInv, RunningIsStopped, CallsStop, Joined, WRunning, NoThread, CaptureThread

LEMMA wReturnStep == ASSUME wInv, WReturn PROVE wInv'
<1> USE DEF WReturn, wThreadVars, wInv
<1>1. WTypeOK'
  BY DEF WTypeOK
<1>2. RunningIsStopped'
  BY wNobodyRuns DEF RunningIsStopped, WRunning
<1>3. ThreadStages' /\ CallsStop'
  BY DEF ThreadStages, CallsStop
<1> QED
  BY <1>1, <1>2, <1>3

LEMMA wLaunchStep == ASSUME wInv, WLaunch PROVE wInv'
<1> USE DEF WLaunch, wInv
<1>n. \A t \in CaptureThread : ~WRunning(t)
  BY wNobodyRuns
<1>s. wStarts' \in CaptureThread /\ wStarts' = wStarts + 1
  BY DEF WTypeOK, CaptureThread
<1>1. WTypeOK'
  BY <1>s DEF WTypeOK
<1>2. RunningIsStopped'
  BY <1>n, <1>s DEF RunningIsStopped, WRunning, WTypeOK, CallsStop
<1>3. ThreadStages'
  BY <1>n, <1>s DEF ThreadStages, WRunning, WTypeOK, CaptureThread
<1>4. CallsStop'
  BY DEF CallsStop
<1> QED
  BY <1>1, <1>2, <1>3, <1>4

\* A new listener, or the timer: no thread is concerned.
LEMMA wFrameStep == ASSUME wInv, WListen \/ ProcessPendingFrames PROVE wInv'
<1> USE DEF WListen, ProcessPendingFrames, WIdle, wThreadVars, wInv
<1>1. WTypeOK'
  <2>1. CASE WListen
    BY <2>1 DEF WTypeOK
  <2>2. CASE ProcessPendingFrames
    <3>1. wShown' \in 0..MaxFrames
      <4>1. Head(wQueue) \in 1..MaxFrames
        BY <2>2 DEF WTypeOK
      <4> QED
        BY <2>2, <4>1 DEF WTypeOK
    <3> QED
      BY <2>2, <3>1 DEF WTypeOK
  <2> QED
    BY <2>1, <2>2
<1>2. RunningIsStopped' /\ ThreadStages' /\ CallsStop'
  BY DEF RunningIsStopped, WRunning, ThreadStages, CallsStop
<1> QED
  BY <1>1, <1>2

\* A step of a capture thread.
LEMMA wThreadStep ==
    ASSUME wInv, NEW t \in CaptureThread, WCaptureThread(t) PROVE wInv'
<1> USE DEF wInv
<1>t. wPc \in [CaptureThread -> {"none", "starting", "loop", "reading", "encoded", "done"}]
  BY DEF WTypeOK
<1>r. t <= wStarts
  BY <1>t DEF WCaptureThread, WFailToStart, CreateSourceReader, WLook, ReadNothing,
              ReadSample, WPush, WMove, ThreadStages, WTypeOK, CaptureThread
<1>1. CASE WFailToStart(t)
  <2> USE <1>1 DEF WFailToStart, WMove
  <2>1. WTypeOK'
    BY <1>t DEF WTypeOK
  <2>2. RunningIsStopped'
    BY <1>t DEF RunningIsStopped, WRunning
  <2>3. ThreadStages' /\ CallsStop'
    BY <1>t, <1>r DEF ThreadStages, CallsStop, WTypeOK, CaptureThread
  <2> QED
    BY <2>1, <2>2, <2>3
<1>2. CASE CreateSourceReader(t)
  <2> USE <1>2 DEF CreateSourceReader, WMove
  <2>1. WTypeOK'
    BY <1>t DEF WTypeOK
  <2>2. RunningIsStopped'
    BY <1>t DEF RunningIsStopped, WRunning
  <2>3. ThreadStages' /\ CallsStop'
    BY <1>t, <1>r DEF ThreadStages, CallsStop, WTypeOK, CaptureThread
  <2> QED
    BY <2>1, <2>2, <2>3
<1>3. CASE WLook(t)
  <2> USE <1>3 DEF WLook, WMove
  <2>1. WTypeOK'
    BY <1>t DEF WTypeOK
  <2>2. RunningIsStopped'
    BY <1>t DEF RunningIsStopped, WRunning
  <2>3. ThreadStages' /\ CallsStop'
    BY <1>t, <1>r DEF ThreadStages, CallsStop, WTypeOK, CaptureThread
  <2> QED
    BY <2>1, <2>2, <2>3
<1>4. CASE ReadNothing(t)
  <2> USE <1>4 DEF ReadNothing, WMove
  <2>1. WTypeOK'
    BY <1>t DEF WTypeOK
  <2>2. RunningIsStopped'
    BY <1>t DEF RunningIsStopped, WRunning
  <2>3. ThreadStages' /\ CallsStop'
    BY <1>t, <1>r DEF ThreadStages, CallsStop, WTypeOK, CaptureThread
  <2> QED
    BY <2>1, <2>2, <2>3
<1>5. CASE ReadSample(t)
  <2> USE <1>5 DEF ReadSample, WMove
  <2>m. wMade' = wMade + 1 /\ wMade' \in 1..MaxFrames
    BY DEF WTypeOK
  <2>1. WTypeOK'
    BY <1>t, <2>m DEF WTypeOK
  <2>2. RunningIsStopped'
    BY <1>t DEF RunningIsStopped, WRunning
  <2>3. ThreadStages' /\ CallsStop'
    BY <1>t, <1>r, <2>m DEF ThreadStages, CallsStop, WTypeOK, CaptureThread
  <2> QED
    BY <2>1, <2>2, <2>3
<1>6. CASE WPush(t)
  <2> USE <1>6 DEF WPush, WMove
  <2>q. wQueue' \in Seq(1..MaxFrames)
    <3>1. wQueue \in Seq(1..MaxFrames)
      BY DEF WTypeOK
    <3>2. wHand[t] \in 1..MaxFrames
      BY DEF ThreadStages
    <3>3. Append(wQueue, wHand[t]) \in Seq(1..MaxFrames)
      BY ONLY <3>1, <3>2
    <3> QED
      BY <3>1, <3>3
  <2>1. WTypeOK'
    BY <1>t, <2>q DEF WTypeOK
  <2>2. RunningIsStopped'
    BY <1>t DEF RunningIsStopped, WRunning
  <2>3. ThreadStages' /\ CallsStop'
    BY <1>t, <1>r DEF ThreadStages, CallsStop, WTypeOK, CaptureThread
  <2> QED
    BY <2>1, <2>2, <2>3
<1> QED
  BY <1>1, <1>2, <1>3, <1>4, <1>5, <1>6 DEF WCaptureThread

\* Every step keeps the invariant.
LEMMA wStep == wInv /\ [WNext]_wVars => wInv'
<1> SUFFICES ASSUME wInv, [WNext]_wVars PROVE wInv'
  OBVIOUS
<1>1. CASE WPlatform
  BY <1>1, wFrameStep, wStopStep DEF WPlatform, WCancel, WStart, WStop, WDestroy
<1>2. CASE WReturn
  BY <1>2, wReturnStep
<1>3. CASE WLaunch
  BY <1>3, wLaunchStep
<1>4. ASSUME NEW t \in CaptureThread, WCaptureThread(t) PROVE wInv'
  BY <1>4, wThreadStep
<1>5. CASE UNCHANGED wVars
  <2> USE <1>5 DEF wVars, wThreadVars, wInv
  <2>1. WTypeOK'
    BY DEF WTypeOK
  <2>2. RunningIsStopped' /\ ThreadStages' /\ CallsStop'
    BY DEF RunningIsStopped, WRunning, ThreadStages, CallsStop
  <2> QED
    BY <2>1, <2>2
<1> QED
  BY <1>1, <1>2, <1>3, <1>4, <1>5 DEF WNext

LEMMA wInvariant == WSpec => []wInv
  BY wInitInv, wStep, PTL DEF WSpec

(***************************************************************************)
(* For every number of captures and frames, a capture thread that runs or  *)
(* holds the camera is the plugin's own, and the plugin exists.            *)
(***************************************************************************)
THEOREM ThreadsAreAlwaysOwned == WSpec => []ThreadsAreOwned
<1>1. wInv => ThreadsAreOwned
  BY DEF wInv, ThreadsAreOwned, RunningIsStopped, ThreadStages, WRunning
<1> QED
  BY <1>1, wInvariant, PTL

-----------------------------------------------------------------------------
(***************************************************************************)
(* The main window.  FileIsSaved is inductive: a file that holds a whole   *)
(* placement holds the one saved last, for opening it for the next one     *)
(* leaves it short.                                                        *)
(***************************************************************************)

FileIsSaved ==
    /\ shPlace \in 0..MaxPlaces
    /\ shMoves \in 0..MaxPlaces
    /\ shFile \in Placement => shFile = shSaved

USE ShellAssumption

\* The first state: there is no file.
LEMMA shInitInv == shInit => FileIsSaved
  BY DEF shInit, FileIsSaved, Placement, NoFile

\* Every step keeps the invariant.
LEMMA shStep == FileIsSaved /\ [shNext]_shVars => FileIsSaved'
<1> SUFFICES ASSUME FileIsSaved, [shNext]_shVars PROVE FileIsSaved'
  OBVIOUS
<1> USE DEF FileIsSaved, Placement
<1>1. CASE shStart
  BY <1>1 DEF shStart, Restore
<1>2. CASE shMove
  BY <1>2 DEF shMove
<1>3. CASE shClose
  BY <1>3 DEF shClose, ShortFile
<1>4. CASE shWrite
  BY <1>4 DEF shWrite
<1>5. ASSUME NEW result \in {"success", "error", "notImplemented"}, WindowCloseResult(result)
      PROVE  FileIsSaved'
  BY <1>5 DEF WindowCloseResult
<1>6. CASE shDestroy \/ shQuit \/ shKill
  BY <1>6 DEF shDestroy, shQuit, shKill
<1>7. CASE UNCHANGED shVars
  BY <1>7 DEF shVars
<1> QED
  BY <1>1, <1>2, <1>3, <1>4, <1>5, <1>6, <1>7 DEF shNext

\* Only a start brings the process up, and it restores what the file has.
LEMMA shRestoreStep ==
    FileIsSaved /\ [shNext]_shVars =>
        (shAt = "off" /\ shAt' = "running" => shPlace' \in {0, shSaved})
<1> SUFFICES ASSUME FileIsSaved, [shNext]_shVars, shAt = "off", shAt' = "running"
             PROVE  shPlace' \in {0, shSaved}
  OBVIOUS
<1>1. shStart
  BY DEF shNext, shVars, shMove, shClose, shWrite, WindowCloseResult, shDestroy, shQuit,
         shKill
<1> QED
  BY <1>1 DEF shStart, Restore, FileIsSaved

(***************************************************************************)
(* For every number of placements and requests to close, with the process  *)
(* killed at any time, a start restores the placement that was saved last, *)
(* or none.                                                                *)
(***************************************************************************)
THEOREM RestoredPlacementIsAlwaysWhole == shSpec => RestoredPlacementIsWhole
<1>1. FileIsSaved /\ [shNext]_shVars =>
        [shAt = "off" /\ shAt' = "running" => shPlace' \in {0, shSaved}]_shVars
  BY shRestoreStep
<1> QED
  BY <1>1, shInitInv, shStep, PTL DEF shSpec, RestoredPlacementIsWhole
=============================================================================
