---------------------------- MODULE WindowsCapture ----------------------------
(***************************************************************************)
(* Video capture on Windows, windows/runner/usb_video_capture_plugin.cpp.  *)
(*                                                                         *)
(* The platform thread runs the method and event channel handlers and the  *)
(* timer; a capture thread reads the camera and queues frames.  A handler  *)
(* stops the capture first: it waits for the thread and blocks the         *)
(* platform thread meanwhile, so a handler is a call, in wCall, and its    *)
(* return.  Frames are numbered as they are made; test frames of a thread  *)
(* without a camera count as frames, the red frame of a start does not.    *)
(***************************************************************************)
EXTENDS CaptureBounds

VARIABLES
    wCapturing,   \* capturing_
    wStreaming,   \* stream_active_
    wSink,        \* event_sink_ is set
    wThread,      \* capture_thread_
    wTimer,       \* timer_id_ is set and s_instances_by_timer_ has it
    wPc,          \* where each capture thread is
    wReader,      \* the threads that have opened the camera
    wHand,        \* the frame a thread has encoded
    wQueue,       \* pending_frames_
    wCall,        \* the handler that waits in StopVideoCapture, or "none"
    wJoin,        \* the thread it joins
    wAlive,       \* the plugin is not destroyed
    wStarts,      \* capture threads started
    wMade, wShown \* frames made; the frame handed to the sink last

wThreadVars == <<wPc, wReader, wHand, wMade>>
wVars == <<wCapturing, wStreaming, wSink, wThread, wTimer, wQueue, wCall, wJoin,
           wAlive, wStarts, wShown, wThreadVars>>

wInit ==
    /\ wCapturing = FALSE /\ wStreaming = FALSE /\ wSink = FALSE
    /\ wThread = NoThread /\ wTimer = FALSE
    /\ wPc = [t \in CaptureThread |-> "none"] /\ wReader = {}
    /\ wHand = [t \in CaptureThread |-> 0] /\ wQueue = <<>>
    /\ wCall = "none" /\ wJoin = NoThread /\ wAlive = TRUE
    /\ wStarts = 0 /\ wMade = 0 /\ wShown = 0

WRunning(t) == wPc[t] \in {"starting", "loop", "reading", "encoded"}

\* The platform thread is free to run a handler or the timer.
WIdle == wAlive /\ wCall = "none"

-----------------------------------------------------------------------------
(* The platform thread *)

\* onListen; the engine cancels an earlier listener first.
WListen ==
    /\ WIdle /\ ~wSink
    /\ wSink' = TRUE /\ wStreaming' = TRUE
    /\ UNCHANGED <<wCapturing, wThread, wTimer, wQueue, wCall, wJoin, wAlive,
                   wStarts, wShown, wThreadVars>>

\* Variants named ...Slip are the next definition with a plausible mistake.
StopVideoCaptureSlip(why) ==
    /\ WIdle /\ wCall' = why
    /\ wTimer' = FALSE /\ wCapturing' = FALSE
    /\ wJoin' = NoThread
    /\ wStreaming' = (wStreaming /\ why # "cancel")
    /\ UNCHANGED <<wSink, wThread, wQueue, wAlive, wStarts, wShown, wThreadVars>>

(***************************************************************************)
(* Every handler that stops begins like this: the timer is killed, the     *)
(* flag is reset, and the thread is joined only if the flag was set.  A    *)
(* thread that failed to start has reset it and is never joined.           *)
(***************************************************************************)
StopVideoCapture(why) ==
    /\ WIdle /\ wCall' = why
    /\ wTimer' = FALSE /\ wCapturing' = FALSE
    /\ wJoin' = IF wCapturing THEN wThread ELSE NoThread
    /\ wStreaming' = (wStreaming /\ why # "cancel")
    /\ UNCHANGED <<wSink, wThread, wQueue, wAlive, wStarts, wShown, wThreadVars>>

WCancel  == wSink /\ StopVideoCapture("cancel")
WStart   == StopVideoCapture("start")
WStop    == StopVideoCapture("stop")
WDestroy == StopVideoCapture("destroy")

Joined == wJoin # NoThread => wPc[wJoin] = "done"

\* The join is over.  A start goes on with WLaunch unless it is refused: no
\* Media Foundation, or a device id that is empty or no UTF-8.
WReturn ==
    /\ wCall # "none" /\ Joined
    /\ wCall' = "none" /\ wJoin' = NoThread
    /\ wThread' = IF wJoin # NoThread THEN NoThread ELSE wThread
    /\ wSink' = (wSink /\ wCall # "cancel")
    /\ wAlive' = (wCall # "destroy")
    /\ UNCHANGED <<wCapturing, wStreaming, wTimer, wQueue, wStarts, wShown, wThreadVars>>

\* The rest of StartVideoCapture.  SetTimer may fail, which leaves no timer;
\* capture_thread_ is overwritten whatever it holds.
WLaunch ==
    /\ wCall = "start" /\ Joined
    /\ wStarts < MaxCaptures /\ wStarts' = wStarts + 1
    /\ wCapturing' = TRUE /\ wThread' = wStarts'
    /\ wPc' = [wPc EXCEPT ![wStarts'] = "starting"]
    /\ wTimer' \in BOOLEAN
    /\ wCall' = "none" /\ wJoin' = NoThread
    /\ UNCHANGED <<wStreaming, wSink, wQueue, wAlive, wReader, wHand, wMade, wShown>>

\* The timer finds the plugin in the map: the oldest frame goes to the
\* listener if there is one, and the rest of the queue is dropped.
ProcessPendingFrames ==
    /\ WIdle /\ wTimer /\ wQueue # <<>>
    /\ wQueue' = <<>>
    /\ wShown' = IF wSink /\ wStreaming THEN Head(wQueue) ELSE wShown
    /\ UNCHANGED <<wCapturing, wStreaming, wSink, wThread, wTimer, wCall, wJoin, wAlive,
                   wStarts, wThreadVars>>

WPlatform == WListen \/ WCancel \/ WStart \/ WStop \/ WDestroy \/ ProcessPendingFrames

-----------------------------------------------------------------------------
(* A capture thread *)

WMove(t, from, to) == wPc[t] = from /\ wPc' = [wPc EXCEPT ![t] = to]

\* COM fails to start: the flag is reset and the thread is over.
WFailToStart(t) ==
    /\ WMove(t, "starting", "done") /\ wCapturing' = FALSE
    /\ UNCHANGED <<wStreaming, wSink, wThread, wTimer, wReader, wHand, wQueue, wCall,
                   wJoin, wAlive, wStarts, wMade, wShown>>

\* The camera is opened, or it is not and the thread makes test frames.
CreateSourceReader(t) ==
    /\ WMove(t, "starting", "loop")
    /\ wReader' \in {wReader, wReader \cup {t}}
    /\ UNCHANGED <<wCapturing, wStreaming, wSink, wThread, wTimer, wHand, wQueue, wCall,
                   wJoin, wAlive, wStarts, wMade, wShown>>

\* The head of the loop; without a listener it sleeps and looks again.
WLook(t) ==
    /\ IF wCapturing
       THEN wStreaming /\ WMove(t, "loop", "reading") /\ UNCHANGED wReader
       ELSE WMove(t, "loop", "done") /\ wReader' = wReader \ {t}
    /\ UNCHANGED <<wCapturing, wStreaming, wSink, wThread, wTimer, wHand, wQueue, wCall,
                   wJoin, wAlive, wStarts, wMade, wShown>>

\* ReadSample fails, has no sample yet, or its buffer cannot be locked; at the
\* bound there is no sample any more.
ReadNothing(t) ==
    /\ t \in wReader \/ wMade = MaxFrames
    /\ WMove(t, "reading", "loop")
    /\ UNCHANGED <<wCapturing, wStreaming, wSink, wThread, wTimer, wReader, wHand, wQueue,
                   wCall, wJoin, wAlive, wStarts, wMade, wShown>>

\* A sample, or a test frame, and its bitmap.
ReadSample(t) ==
    /\ WMove(t, "reading", "encoded")
    /\ wMade < MaxFrames /\ wMade' = wMade + 1
    /\ wHand' = [wHand EXCEPT ![t] = wMade']
    /\ UNCHANGED <<wCapturing, wStreaming, wSink, wThread, wTimer, wReader, wQueue, wCall,
                   wJoin, wAlive, wStarts, wShown>>

WPush(t) ==
    /\ WMove(t, "encoded", "loop")
    /\ wQueue' = IF wStreaming THEN Append(wQueue, wHand[t]) ELSE wQueue
    /\ UNCHANGED <<wCapturing, wStreaming, wSink, wThread, wTimer, wReader, wHand, wCall,
                   wJoin, wAlive, wStarts, wMade, wShown>>

WCaptureThread(t) ==
    \/ WFailToStart(t) \/ CreateSourceReader(t) \/ WLook(t)
    \/ ReadNothing(t) \/ ReadSample(t) \/ WPush(t)

-----------------------------------------------------------------------------
WNext == WPlatform \/ WReturn \/ WLaunch \/ \E t \in CaptureThread : WCaptureThread(t)

WSpec == wInit /\ [][WNext]_wVars

-----------------------------------------------------------------------------
(* Properties *)

\* Every variable has its type.
WTypeOK ==
    /\ wCapturing \in BOOLEAN /\ wStreaming \in BOOLEAN /\ wSink \in BOOLEAN
    /\ wTimer \in BOOLEAN /\ wAlive \in BOOLEAN
    /\ wThread \in CaptureThread \cup {NoThread}
    /\ wJoin \in CaptureThread \cup {NoThread}
    /\ wPc \in [CaptureThread ->
                    {"none", "starting", "loop", "reading", "encoded", "done"}]
    /\ wReader \subseteq CaptureThread
    /\ wCall \in {"none", "start", "stop", "cancel", "destroy"}
    /\ wStarts \in 0..MaxCaptures
    /\ wMade \in 0..MaxFrames /\ wShown \in 0..MaxFrames
    /\ wHand \in [CaptureThread -> 0..MaxFrames] /\ wQueue \in Seq(1..MaxFrames)

(***************************************************************************)
(* A capture thread uses the plugin's members without a lock.  One that    *)
(* may still do so is the one the plugin would join, and the plugin is     *)
(* not destroyed under it: so there is at most one, and one open camera.   *)
(***************************************************************************)
ThreadsAreOwned ==
    \A t \in CaptureThread :
        WRunning(t) \/ t \in wReader => wAlive /\ wThread = t

\* "Clear any backlog to prevent memory buildup - keep only latest frame": of the
\* frames that wait, the timer shows the newest.
LatestFrameIsShown == [][wShown' # wShown => wShown' = wQueue[Len(wQueue)]]_wVars
=============================================================================
