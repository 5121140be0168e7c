-------------------------- MODULE LinuxCaptureProofs --------------------------
(***************************************************************************)
(* For every number of captures and frames: the types of the Linux         *)
(* capture, that a thread which runs has its device, and that an idle      *)
(* plugin holds nothing, whichever step of a start failed.                 *)
(*                                                                         *)
(* A thread that runs is the plugin's, with the device open and mapped,    *)
(* and is captured for or joined: RunningHasDevice.  What the plugin holds *)
(* at each point of a handler or a start is HeldInCalls.                   *)
(***************************************************************************)
EXTENDS LinuxCapture, TLAPS

RunningHasDevice ==
    \A t \in CaptureThread :
        LRunning(t) => /\ lThread = t /\ lFd /\ lMapped /\ lExists
                       /\ lCapturing \/ lJoin = t

\* A thread that was not started does nothing; a frame is at hand when it
\* is converted.
LThreadStages ==
    \A t \in CaptureThread :
        /\ t > lStarts => lPc[t] = "none"
        /\ lPc[t] = "convert" => lHand[t] \in 1..MaxFrames

Stops == {"start", "stop", "cancel", "dispose"}
Starts == {"open", "format", "stream"}

HeldInCalls ==
    /\ lMapped => lFd
    /\ lCapturing => lCall = "none" /\ lThread \in CaptureThread
    /\ lCall # "none" => lExists /\ ~lSource
    /\ lCall \in Stops => lJoin = lThread
    /\ lCall \notin Stops => lJoin = NoThread
    /\ lCall \in Starts => lThread = NoThread /\ ~lOn
    /\ lCall = "open" => ~lFd
    /\ lCall \in {"open", "format"} => ~lMapped
    /\ lCall \in {"format", "stream"} => lFd /\ lStarts < MaxCaptures
    /\ lCall = "stream" => lMapped

LInv == LTypeOK /\ RunningHasDevice /\ LThreadStages /\ HeldInCalls /\ IdleHoldsNothing

USE CaptureAssumption

\* The first state: nothing is held.
LEMMA lInitInv == lInit => LInv
<1> SUFFICES ASSUME lInit PROVE LInv
  OBVIOUS
<1>1. LTypeOK
  <2>1. lQueue \in Seq(1..MaxFrames)
    BY DEF lInit
  <2>2. 0 \in 0..MaxFrames /\ 0 \in 0..MaxCaptures
    OBVIOUS
  <2>3. /\ lPc \in [CaptureThread ->
                       {"none", "loop", "dequeue", "convert", "requeue", "done"}]
        /\ lHand \in [CaptureThread -> 0..MaxFrames]
    BY <2>2 DEF lInit
  <2>4. /\ lStarts \in 0..MaxCaptures /\ lMade \in 0..MaxFrames
        /\ lShown \in 0..MaxFrames
    BY <2>2 DEF lInit
  <2> QED
    BY <2>1, <2>3, <2>4 DEF lInit, LTypeOK
<1>2. RunningHasDevice /\ LThreadStages /\ HeldInCalls /\ IdleHoldsNothing
  BY DEF lInit, RunningHasDevice, LRunning, LThreadStages, HeldInCalls, IdleHoldsNothing,
         Stops, Starts, CaptureThread
<1> QED
  BY <1>1, <1>2 DEF LInv

\* A handler begins to stop the capture.
LEMMA lStopStep ==
    ASSUME LInv, NEW why \in Stops, StopCapture(why)
    PROVE  LInv'
<1> USE DEF StopCapture, LIdle, lThreadVars, LInv, Stops
<1>1. LTypeOK'
  BY DEF LTypeOK
<1>2. RunningHasDevice'
  BY DEF RunningHasDevice, LRunning, HeldInCalls
<1>3. LThreadStages'
  BY DEF LThreadStages
<1>4. HeldInCalls'
  BY DEF HeldInCalls, IdleHoldsNothing, Starts
<1>5. IdleHoldsNothing'
  BY DEF IdleHoldsNothing
<1> QED
  BY <1>1, <1>2, <1>3, <1>4, <1>5

\* The join is over: no thread runs any more, and everything is released.
LEMMA lReturnStep == ASSUME LInv, LReturn PROVE LInv'
<1> USE DEF LReturn, Release, lThreadVars, LInv
<1>n. \A t \in CaptureThread : ~LRunning(t)
  BY DEF RunningHasDevice, LRunning, HeldInCalls, CaptureThread, NoThread
<1>1. LTypeOK'
  BY DEF LTypeOK
<1>2. RunningHasDevice' /\ LThreadStages'
  BY <1>n DEF RunningHasDevice, LRunning, LThreadStages
<1>4. HeldInCalls'
  BY DEF HeldInCalls, Stops, Starts
<1>5. IdleHoldsNothing'
  BY DEF IdleHoldsNothing, HeldInCalls, Stops
<1> QED
  BY <1>1, <1>2, <1>4, <1>5

\* A step of a start, which succeeds or fails.
LEMMA lStartingStep == ASSUME LInv, LStarting PROVE LInv'
<1> USE DEF LInv, LStartFrame
<1>n. \A t \in CaptureThread : ~LRunning(t)
  BY DEF RunningHasDevice, LStarting, OpenDevice, RequestBuffers, StreamOn, HeldInCalls,
         Stops, CaptureThread, NoThread
<1>1. CASE OpenDevice
  <2> USE <1>1 DEF OpenDevice, LNoThread
  <2>1. LTypeOK'
    BY DEF LTypeOK
  <2>2. RunningHasDevice' /\ LThreadStages'
    BY <1>n DEF RunningHasDevice, LRunning, LThreadStages
  <2>3. HeldInCalls' /\ IdleHoldsNothing'
    BY DEF HeldInCalls, IdleHoldsNothing, Stops, Starts, LTypeOK
  <2> QED
    BY <2>1, <2>2, <2>3
<1>2. CASE RequestBuffers
  <2> USE <1>2 DEF RequestBuffers, LNoThread
  <2>1. LTypeOK'
    BY DEF LTypeOK
  <2>2. RunningHasDevice' /\ LThreadStages'
    BY <1>n DEF RunningHasDevice, LRunning, LThreadStages
  <2>3. lFd /\ ~lMapped /\ ~lOn /\ lThread = NoThread /\ lJoin = NoThread
        /\ ~lCapturing /\ ~lSource /\ lExists /\ lStarts < MaxCaptures
    BY DEF HeldInCalls, Stops, Starts
  <2>4. HeldInCalls'
    <3>1. CASE lCall' = "none" /\ lFd' = FALSE /\ UNCHANGED lMapped
      BY <2>3, <3>1 DEF HeldInCalls, Stops, Starts
    <3>2. CASE lCall' = "stream" /\ lMapped' = TRUE /\ UNCHANGED lFd
      BY <2>3, <3>2 DEF HeldInCalls, Stops, Starts
    <3> QED
      BY <3>1, <3>2
  <2>5. IdleHoldsNothing'
    BY <2>3 DEF IdleHoldsNothing
  <2> QED
    BY <2>1, <2>2, <2>4, <2>5
<1>3. CASE StreamOn /\ Release /\ LNoThread
  <2> USE <1>3 DEF StreamOn, Release, LNoThread
  <2>1. LTypeOK'
    BY DEF LTypeOK
  <2>2. RunningHasDevice' /\ LThreadStages'
    BY <1>n DEF RunningHasDevice, LRunning, LThreadStages
  <2>3. HeldInCalls' /\ IdleHoldsNothing'
    BY DEF HeldInCalls, IdleHoldsNothing, Stops, Starts, LTypeOK
  <2> QED
    BY <2>1, <2>2, <2>3
<1>4. CASE StreamOn /\ ~(Release /\ LNoThread)
  <2>s. lCall = "stream" /\ lCall' = "none"
    BY <1>4 DEF StreamOn
  <2>o. /\ lOn' = TRUE /\ UNCHANGED <<lFd, lMapped>>
        /\ lCapturing' = TRUE /\ lSource' = TRUE
        /\ lStarts' = lStarts + 1 /\ lThread' = lStarts'
        /\ lPc' = [lPc EXCEPT ![lStarts'] = "loop"]
        /\ LStartFrame
    BY <1>4 DEF StreamOn
  <2>f. lFd /\ lMapped /\ lExists
    BY <2>s DEF HeldInCalls
  <2>t. lStarts' \in CaptureThread /\ lStarts' \in 1..MaxCaptures
    BY <2>s, <2>o DEF HeldInCalls, LTypeOK, CaptureThread
  <2>1. LTypeOK'
    BY <2>s, <2>o, <2>t DEF LTypeOK
  <2>2. RunningHasDevice'
    BY <1>n, <2>o, <2>f, <2>t DEF RunningHasDevice, LRunning, LTypeOK
  <2>3. LThreadStages'
    BY <1>n, <2>o, <2>t DEF LThreadStages, LTypeOK, CaptureThread
  <2>4. HeldInCalls' /\ IdleHoldsNothing'
    BY <2>s, <2>o, <2>f, <2>t DEF HeldInCalls, IdleHoldsNothing, Stops, Starts
  <2> QED
    BY <2>1, <2>2, <2>3, <2>4
<1> QED
  BY <1>1, <1>2, <1>3, <1>4 DEF LStarting

\* A new listener, or the timer: no thread and no device is concerned.
LEMMA lFrameStep == ASSUME LInv, LListen \/ SendPendingFrames PROVE LInv'
<1> USE DEF LInv, lThreadVars, lDevice
<1>1. LTypeOK'
  <2>1. CASE LListen
    BY <2>1 DEF LListen, LTypeOK
  <2>2. CASE SendPendingFrames
    <3>1. Head(lQueue) \in 1..MaxFrames
      BY <2>2 DEF SendPendingFrames, LTypeOK
    <3> QED
      BY <2>2, <3>1 DEF SendPendingFrames, LTypeOK
  <2> QED
    BY <2>1, <2>2
<1>2. RunningHasDevice' /\ LThreadStages'
  BY DEF RunningHasDevice, LRunning, LThreadStages, LListen, SendPendingFrames
<1>3. HeldInCalls' /\ IdleHoldsNothing'
  BY DEF HeldInCalls, IdleHoldsNothing, LListen, SendPendingFrames
<1> QED
  BY <1>1, <1>2, <1>3

\* A step of a capture thread: the plugin's own variables stay.
LEMMA lThreadStep ==
    ASSUME LInv, NEW t \in CaptureThread, LCaptureThread(t) PROVE LInv'
<1> USE DEF LInv, LOwnFrame, lDevice, LMove
<1>t. lPc \in [CaptureThread -> {"none", "loop", "dequeue", "convert", "requeue", "done"}]
  BY DEF LTypeOK
<1>r. t <= lStarts
  BY <1>t DEF LCaptureThread, LLook, DequeueFrame, DequeueNothing, LPush, Requeue,
              LThreadStages, LTypeOK, CaptureThread
<1>h. HeldInCalls' /\ IdleHoldsNothing'
  BY DEF LCaptureThread, LLook, DequeueFrame, DequeueNothing, LPush, Requeue,
         HeldInCalls, IdleHoldsNothing
<1>1. CASE LLook(t) \/ DequeueNothing(t) \/ Requeue(t)
  <2> USE <1>1 DEF LLook, DequeueNothing, Requeue
  <2>1. LTypeOK'
    BY <1>t DEF LTypeOK
  <2>2. RunningHasDevice'
    BY <1>t DEF RunningHasDevice, LRunning
  <2>3. LThreadStages'
    BY <1>t, <1>r DEF LThreadStages, LTypeOK, CaptureThread
  <2> QED
    BY <1>h, <2>1, <2>2, <2>3
<1>2. CASE DequeueFrame(t)
  <2> USE <1>2 DEF DequeueFrame
  <2>m. lMade' = lMade + 1 /\ lMade' \in 1..MaxFrames
    BY DEF LTypeOK
  <2>1. LTypeOK'
    BY <1>t, <2>m DEF LTypeOK
  <2>2. RunningHasDevice'
    BY <1>t DEF RunningHasDevice, LRunning
  <2>3. LThreadStages'
    BY <1>t, <1>r, <2>m DEF LThreadStages, LTypeOK, CaptureThread
  <2> QED
    BY <1>h, <2>1, <2>2, <2>3
<1>3. CASE LPush(t)
  <2> USE <1>3 DEF LPush
  <2>q. lQueue' \in Seq(1..MaxFrames)
    <3>1. lQueue \in Seq(1..MaxFrames)
      BY DEF LTypeOK
    <3>2. lHand[t] \in 1..MaxFrames
      BY DEF LThreadStages
    <3>3. Append(lQueue, lHand[t]) \in Seq(1..MaxFrames)
      BY ONLY <3>1, <3>2
    <3> QED
      BY <3>1, <3>3
  <2>1. LTypeOK'
    BY <1>t, <2>q DEF LTypeOK
  <2>2. RunningHasDevice'
    BY <1>t DEF RunningHasDevice, LRunning
  <2>3. LThreadStages'
    BY <1>t, <1>r DEF LThreadStages, LTypeOK, CaptureThread
  <2> QED
    BY <1>h, <2>1, <2>2, <2>3
<1> QED
  BY <1>1, <1>2, <1>3 DEF LCaptureThread

\* Every step keeps the invariant.
LEMMA lStep == LInv /\ [LNext]_lVars => LInv'
<1> SUFFICES ASSUME LInv, [LNext]_lVars PROVE LInv'
  OBVIOUS
<1>1. CASE LHandlers
  BY <1>1, lFrameStep, lStopStep
     DEF LHandlers, LCancel, LStart, LStop, LDispose, Stops
<1>2. CASE LReturn
  BY <1>2, lReturnStep
<1>3. CASE LStarting
  BY <1>3, lStartingStep
<1>4. ASSUME NEW t \in CaptureThread, LCaptureThread(t) PROVE LInv'
  BY <1>4, lThreadStep
<1>5. CASE UNCHANGED lVars
  <2> USE <1>5 DEF lVars, lThreadVars, lDevice, LInv
  <2>1. LTypeOK'
    BY DEF LTypeOK
  <2>2. RunningHasDevice' /\ LThreadStages'
    BY DEF RunningHasDevice, LRunning, LThreadStages
  <2>3. HeldInCalls' /\ IdleHoldsNothing'
    BY DEF HeldInCalls, IdleHoldsNothing
  <2> QED
    BY <2>1, <2>2, <2>3
<1> QED
  BY <1>1, <1>2, <1>3, <1>4, <1>5 DEF LNext

LEMMA lInvariant == LSpec => []LInv
  BY lInitInv, lStep, PTL DEF LSpec

(***************************************************************************)
(* For every number of captures and frames, the file and the mappings of a *)
(* thread that runs are there.                                             *)
(***************************************************************************)
THEOREM ThreadsAlwaysHaveTheirDevice == LSpec => []ThreadHasItsDevice
<1>1. LInv => ThreadHasItsDevice
  BY DEF LInv, ThreadHasItsDevice, RunningHasDevice
<1> QED
  BY <1>1, lInvariant, PTL

(***************************************************************************)
(* For every number of captures and frames, a plugin that neither captures *)
(* nor is at work holds no device, mapping, stream, thread or timer.       *)
(***************************************************************************)
THEOREM IdleAlwaysHoldsNothing == LSpec => []IdleHoldsNothing
<1>1. LInv => IdleHoldsNothing
  BY DEF LInv
<1> QED
  BY <1>1, lInvariant, PTL
=============================================================================
