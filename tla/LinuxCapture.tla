----------------------------- MODULE LinuxCapture -----------------------------
(***************************************************************************)
(* Video capture on Linux, linux/usb_video_capture_plugin.cc.              *)
(*                                                                         *)
(* The GTK thread runs the channel handlers and the frame timer; a capture *)
(* thread dequeues the driver's buffers, encodes and queues the frames.    *)
(* The device file, its mapped buffers and the V4L2 stream are acquired    *)
(* one after the other by a start, and each step may fail.  lCall is what  *)
(* the GTK thread is busy with: the handler that waits for the capture     *)
(* thread, or the next step of a start.                                    *)
(***************************************************************************)
EXTENDS CaptureBounds

VARIABLES
    lFd,          \* fd is open
    lMapped,      \* the driver's buffers are mapped
    lOn,          \* the driver streams: STREAMON, STREAMOFF
    lCapturing,   \* capturing
    lThread,      \* capture_thread
    lSource,      \* idle_source_id is set: the frame timer
    lStreaming,   \* stream_active
    lPc,          \* where each capture thread is
    lHand,        \* the frame a thread holds
    lQueue,       \* pending_frames
    lCall,        \* what the GTK thread is busy with, or "none"
    lJoin,        \* the thread it joins
    lExists,      \* the plugin is not disposed of
    lStarts,      \* capture threads started
    lMade, lShown \* frames dequeued; the frame sent last

lDevice == <<lFd, lMapped, lOn>>
lThreadVars == <<lPc, lHand, lMade>>
lVars == <<lDevice, lCapturing, lThread, lSource, lStreaming, lQueue, lCall, lJoin,
           lExists, lStarts, lShown, lThreadVars>>

lInit ==
    /\ lFd = FALSE /\ lMapped = FALSE /\ lOn = FALSE
    /\ lCapturing = FALSE /\ lThread = NoThread
    /\ lSource = FALSE /\ lStreaming = FALSE
    /\ lPc = [t \in CaptureThread |-> "none"]
    /\ lHand = [t \in CaptureThread |-> 0] /\ lQueue = <<>>
    /\ lCall = "none" /\ lJoin = NoThread /\ lExists = TRUE
    /\ lStarts = 0 /\ lMade = 0 /\ lShown = 0

LRunning(t) == lPc[t] \in {"loop", "dequeue", "convert", "requeue"}

LIdle == lExists /\ lCall = "none"

-----------------------------------------------------------------------------
(* The GTK thread *)

LListen ==
    /\ LIdle /\ ~lStreaming /\ lStreaming' = TRUE
    /\ UNCHANGED <<lDevice, lCapturing, lThread, lSource, lQueue, lCall, lJoin, lExists,
                   lStarts, lShown, lThreadVars>>

\* Variants named ...Slip are the next definition with a plausible mistake.
StopCaptureSlip(why) ==
    /\ LIdle /\ lCall' = why
    /\ lCapturing' = FALSE
    /\ lJoin' = IF lCapturing THEN lThread ELSE NoThread
    /\ lStreaming' = (lStreaming /\ why # "cancel")
    /\ lSource' = FALSE
    /\ UNCHANGED <<lFd, lMapped, lOn, lThread, lQueue, lExists, lStarts, lShown, lThreadVars>>

(***************************************************************************)
(* stop_capture up to the join.  While it captures, the driver's stream is *)
(* switched off, which ends a dequeue that waits.  The timer is removed    *)
(* before the join or after it; the thread that would run it is here.      *)
(***************************************************************************)
StopCapture(why) ==
    /\ LIdle /\ lCall' = why
    /\ lCapturing' = FALSE
    /\ lOn' = (lOn /\ ~lCapturing)
    /\ lJoin' = IF lCapturing THEN lThread ELSE NoThread
    /\ lStreaming' = (lStreaming /\ why # "cancel")
    /\ lSource' = FALSE
    /\ UNCHANGED <<lFd, lMapped, lThread, lQueue, lExists, lStarts, lShown, lThreadVars>>

LCancel  == lStreaming /\ StopCapture("cancel")
LStart   == StopCapture("start")
LStop    == StopCapture("stop")
LDispose == StopCapture("dispose")

\* The end of stop_capture: the buffers are unmapped and the file is closed,
\* which ends the driver's stream.
Release == lFd' = FALSE /\ lMapped' = (lMapped /\ ~lFd) /\ lOn' = FALSE

LReturnSlip ==
    /\ lCall \in {"start", "stop", "cancel", "dispose"}
    /\ Release
    /\ lThread' = IF lJoin # NoThread THEN NoThread ELSE lThread
    /\ lJoin' = NoThread
    /\ lCall' = IF lCall = "start" THEN "open" ELSE "none"
    /\ lExists' = (lCall # "dispose")
    /\ UNCHANGED <<lCapturing, lSource, lStreaming, lQueue, lStarts, lShown, lThreadVars>>

\* The join is over.  A start goes on and opens the device.
LReturn ==
    /\ lCall \in {"start", "stop", "cancel", "dispose"}
    /\ lJoin # NoThread => lPc[lJoin] = "done"
    /\ Release
    /\ lThread' = IF lJoin # NoThread THEN NoThread ELSE lThread
    /\ lJoin' = NoThread
    /\ lCall' = IF lCall = "start" THEN "open" ELSE "none"
    /\ lExists' = (lCall # "dispose")
    /\ UNCHANGED <<lCapturing, lSource, lStreaming, lQueue, lStarts, lShown, lThreadVars>>

LStartFrame == UNCHANGED <<lStreaming, lQueue, lJoin, lExists, lHand, lMade, lShown>>
LNoThread == UNCHANGED <<lCapturing, lThread, lSource, lStarts, lPc>>

\* The three steps of start_video_stream, each of which may fail.
OpenDevice ==
    /\ lCall = "open"
    /\ \/ lCall' = "none" /\ UNCHANGED lFd
       \/ lStarts < MaxCaptures /\ lCall' = "format" /\ lFd' = TRUE
    /\ UNCHANGED <<lMapped, lOn>> /\ LNoThread /\ LStartFrame

\* The format is read, and set if need be, which may fail; then the driver
\* is asked for buffers and the array that holds them is allocated.
RequestBuffers ==
    /\ lCall = "format"
    /\ \/ lCall' = "none" /\ lFd' = FALSE /\ UNCHANGED lMapped
       \/ lCall' = "stream" /\ lMapped' = TRUE /\ UNCHANGED lFd
    /\ UNCHANGED lOn /\ LNoThread /\ LStartFrame

StreamOnSlip ==
    /\ lCall = "stream" /\ lCall' = "none"
    /\ \/ UNCHANGED lDevice /\ LNoThread
       \/ /\ lOn' = TRUE /\ UNCHANGED <<lFd, lMapped>>
          /\ lCapturing' = TRUE /\ lSource' = TRUE
          /\ lStarts' = lStarts + 1 /\ lThread' = lStarts'
          /\ lPc' = [lPc EXCEPT ![lStarts'] = "loop"]
    /\ LStartFrame

\* The buffers are mapped and queued and the stream is switched on; if any of
\* it fails stop_capture releases what there is.
StreamOn ==
    /\ lCall = "stream" /\ lCall' = "none"
    /\ \/ Release /\ LNoThread
       \/ /\ lOn' = TRUE /\ UNCHANGED <<lFd, lMapped>>
          /\ lCapturing' = TRUE /\ lSource' = TRUE
          /\ lStarts' = lStarts + 1 /\ lThread' = lStarts'
          /\ lPc' = [lPc EXCEPT ![lStarts'] = "loop"]
    /\ LStartFrame

SendPendingFramesSlip ==
    /\ LIdle /\ lSource /\ lStreaming /\ lQueue # <<>>
    /\ lQueue' = SubSeq(lQueue, 1, Len(lQueue) - 1)
    /\ lShown' = lQueue[Len(lQueue)]
    /\ UNCHANGED <<lDevice, lCapturing, lThread, lSource, lStreaming, lCall, lJoin, lExists,
                   lStarts, lThreadVars>>

\* The timer: without a listener nothing is taken; otherwise the oldest frame
\* is sent and the rest of the queue dropped.
SendPendingFrames ==
    /\ LIdle /\ lSource /\ lStreaming /\ lQueue # <<>>
    /\ lQueue' = <<>> /\ lShown' = Head(lQueue)
    /\ UNCHANGED <<lDevice, lCapturing, lThread, lSource, lStreaming, lCall, lJoin, lExists,
                   lStarts, lThreadVars>>

LHandlers == LListen \/ LCancel \/ LStart \/ LStop \/ LDispose \/ SendPendingFrames
LStarting == OpenDevice \/ RequestBuffers \/ StreamOn

-----------------------------------------------------------------------------
(* A capture thread *)

LMove(t, from, to) == lPc[t] = from /\ lPc' = [lPc EXCEPT ![t] = to]

LOwnFrame == UNCHANGED <<lDevice, lCapturing, lThread, lSource, lStreaming, lCall, lJoin,
                         lExists, lStarts, lShown>>

LLook(t) ==
    /\ LMove(t, "loop", IF lCapturing THEN "dequeue" ELSE "done")
    /\ LOwnFrame /\ UNCHANGED <<lHand, lQueue, lMade>>

\* VIDIOC_DQBUF has a frame, ...
DequeueFrame(t) ==
    /\ lOn /\ LMove(t, "dequeue", "convert")
    /\ lMade < MaxFrames /\ lMade' = lMade + 1
    /\ lHand' = [lHand EXCEPT ![t] = lMade']
    /\ LOwnFrame /\ UNCHANGED lQueue

\* ... or asks to try again, or fails, as it does once the stream is off.
DequeueNothing(t) ==
    /\ \/ lOn /\ LMove(t, "dequeue", "loop")
       \/ LMove(t, "dequeue", "done")
    /\ LOwnFrame /\ UNCHANGED <<lHand, lQueue, lMade>>

LPush(t) ==
    /\ LMove(t, "convert", "requeue")
    /\ lQueue' = IF lStreaming THEN Append(lQueue, lHand[t]) ELSE lQueue
    /\ LOwnFrame /\ UNCHANGED <<lHand, lMade>>

\* VIDIOC_QBUF; an error ends the thread.
Requeue(t) ==
    /\ LMove(t, "requeue", "loop") \/ LMove(t, "requeue", "done")
    /\ LOwnFrame /\ UNCHANGED <<lHand, lQueue, lMade>>

LCaptureThread(t) ==
    LLook(t) \/ DequeueFrame(t) \/ DequeueNothing(t) \/ LPush(t) \/ Requeue(t)

-----------------------------------------------------------------------------
LNext == LHandlers \/ LStarting \/ LReturn \/ \E t \in CaptureThread : LCaptureThread(t)

LSpec == lInit /\ [][LNext]_lVars

-----------------------------------------------------------------------------
(* Properties *)

\* Every variable has its type.
LTypeOK ==
    /\ lFd \in BOOLEAN /\ lMapped \in BOOLEAN /\ lOn \in BOOLEAN
    /\ lCapturing \in BOOLEAN /\ lSource \in BOOLEAN /\ lStreaming \in BOOLEAN
    /\ lThread \in CaptureThread \cup {NoThread}
    /\ lJoin \in CaptureThread \cup {NoThread}
    /\ lPc \in [CaptureThread ->
                    {"none", "loop", "dequeue", "convert", "requeue", "done"}]
    /\ lHand \in [CaptureThread -> 0..MaxFrames] /\ lQueue \in Seq(1..MaxFrames)
    /\ lCall \in {"none", "start", "stop", "cancel", "dispose", "open", "format", "stream"}
    /\ lExists \in BOOLEAN /\ lStarts \in 0..MaxCaptures
    /\ lMade \in 0..MaxFrames /\ lShown \in 0..MaxFrames

(***************************************************************************)
(* A capture thread that still runs has an open device, mapped buffers and *)
(* a plugin, and is the one the plugin joins: the file is not closed, nor  *)
(* the buffers unmapped, under a thread that reads them.                   *)
(***************************************************************************)
ThreadHasItsDevice ==
    \A t \in CaptureThread :
        LRunning(t) => lThread = t /\ lFd /\ lMapped /\ lExists

\* Between two handlers a plugin that does not capture holds no device, no
\* mapping, no thread and no timer, whichever step of a start failed.
IdleHoldsNothing ==
    lCall = "none" /\ ~lCapturing =>
        ~lFd /\ ~lMapped /\ ~lOn /\ lThread = NoThread /\ ~lSource
=============================================================================
