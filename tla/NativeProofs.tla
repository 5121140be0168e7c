----------------------------- MODULE NativeProofs -----------------------------
(***************************************************************************)
(* The native machines together: their types, that both captures implement *)
(* the frame feed, and that there is one popup, for every bound and every  *)
(* set of clients.  The invariants of the machines are those of their own  *)
(* proofs, to which each adds what the feed, the types or the popup need.  *)
(***************************************************************************)
EXTENDS MCNative, LinuxCaptureProofs, WindowsProofs, IosProofs

-----------------------------------------------------------------------------
(***************************************************************************)
(* The frames of the Windows capture.  Whatever is queued or in a thread's *)
(* hand is newer than the frame shown, and what a thread is about to queue *)
(* is newer than the queue.  A stop clears no queue: that the frames of an *)
(* earlier capture stay older than those of the next one holds because the *)
(* earlier thread has ended, with nothing in its hand.                     *)
(***************************************************************************)

wOrdered ==
    /\ wShown <= wMade
    /\ \A i \in 1..Len(wQueue) : wQueue[i] \in wShown+1 .. wMade
    /\ \A t \in CaptureThread :
        wPc[t] = "encoded" =>
            /\ wHand[t] \in wShown+1 .. wMade
            /\ \A i \in 1..Len(wQueue) : wQueue[i] < wHand[t]

wListening == wSink /\ wStreaming

\* What a step of a capture may do to the frames made and shown and to the
\* listener: make one, show a newer one to the listener, or change listener.
FeedStep(made, shown, listening, made1, shown1, listening1) ==
    \/ made1 = made + 1 /\ shown1 = shown /\ listening1 = listening
    \/ listening /\ shown1 \in shown+1 .. made /\ made1 = made /\ listening1 = listening
    \/ made1 = made /\ shown1 = shown

wFeedStep == FeedStep(wMade, wShown, wListening, wMade', wShown', wListening')

USE CaptureAssumption

\* Two threads do not run at once.
LEMMA wOneRuns ==
    ASSUME wInv, NEW t \in CaptureThread, NEW u \in CaptureThread,
           WRunning(t), WRunning(u)
    PROVE  t = u
  BY DEF wInv, RunningIsStopped

\* A step that makes, queues and shows no frame, and leaves no thread with a
\* frame that had none.
LEMMA wSameFrames ==
    ASSUME wOrdered, UNCHANGED <<wMade, wShown, wQueue, wHand>>,
           \A t \in CaptureThread : wPc'[t] = "encoded" => wPc[t] = "encoded"
    PROVE  wOrdered' /\ wFeedStep
  BY DEF wOrdered, wFeedStep, FeedStep

\* The timer shows the oldest frame, which empties the queue; no frame is in a
\* hand that is not newer.
LEMMA wShowFrame ==
    ASSUME wInv, wOrdered, ProcessPendingFrames
    PROVE  wOrdered' /\ wFeedStep
<1> USE DEF ProcessPendingFrames, wThreadVars
<1>1. wQueue \in Seq(1..MaxFrames) /\ wQueue # <<>>
  BY DEF wInv, WTypeOK
<1>2. 1 \in 1..Len(wQueue) /\ Head(wQueue) = wQueue[1]
  BY <1>1
<1>3. Len(wQueue') = 0
  OBVIOUS
<1>4. wMade \in Nat /\ wShown \in Nat
  BY DEF wInv, WTypeOK
<1>5. CASE wListening
  <2>1. wShown' = wQueue[1]
    BY <1>2, <1>5 DEF wListening
  <2>2. wShown' \in wShown+1 .. wMade
    BY <1>2, <2>1 DEF wOrdered
  <2>3. \A t \in CaptureThread : wPc[t] = "encoded" => wHand[t] \in wShown'+1 .. wMade
    BY <1>2, <1>4, <2>1, <2>2 DEF wOrdered
  <2>4. wOrdered'
    BY <1>3, <1>4, <2>2, <2>3 DEF wOrdered
  <2> QED
    BY <1>5, <2>2, <2>4 DEF wFeedStep, FeedStep, wListening
<1>6. CASE ~wListening
  <2>1. wShown' = wShown
    BY <1>6 DEF wListening
  <2> QED
    BY <1>3, <2>1 DEF wOrdered, wFeedStep, FeedStep
<1> QED
  BY <1>5, <1>6

\* A frame that is made is newer than every other.
LEMMA wMakeFrame ==
    ASSUME wInv, wOrdered, NEW t \in CaptureThread, ReadSample(t)
    PROVE  wOrdered' /\ wFeedStep
<1> USE DEF ReadSample, WMove
<1>1. /\ wMade \in Nat /\ wShown \in Nat /\ wMade' = wMade + 1
      /\ wPc \in [CaptureThread ->
                     {"none", "starting", "loop", "reading", "encoded", "done"}]
      /\ wHand \in [CaptureThread -> 0..MaxFrames]
  BY DEF wInv, WTypeOK
<1>2. ASSUME NEW u \in CaptureThread, wPc'[u] = "encoded" PROVE u = t
  BY <1>1, <1>2, wOneRuns DEF WRunning
<1>3. wHand'[t] = wMade + 1
  BY <1>1
<1>4. /\ wShown' <= wMade'
      /\ \A i \in 1..Len(wQueue') : wQueue'[i] \in wShown'+1 .. wMade'
  BY <1>1 DEF wOrdered
<1>5. /\ wHand'[t] \in wShown'+1 .. wMade'
      /\ \A i \in 1..Len(wQueue') : wQueue'[i] < wHand'[t]
  BY <1>1, <1>3 DEF wOrdered
<1>6. wOrdered'
  BY <1>2, <1>4, <1>5 DEF wOrdered
<1> QED
  BY <1>1, <1>6 DEF wFeedStep, FeedStep, wListening

\* A frame is queued behind older ones.
LEMMA wQueueFrame ==
    ASSUME wInv, wOrdered, NEW t \in CaptureThread, WPush(t)
    PROVE  wOrdered' /\ wFeedStep
<1> USE DEF WPush, WMove
<1>1. /\ wMade \in Nat /\ wShown \in Nat /\ wQueue \in Seq(1..MaxFrames)
      /\ wPc \in [CaptureThread ->
                     {"none", "starting", "loop", "reading", "encoded", "done"}]
  BY DEF wInv, WTypeOK
<1>2. \A u \in CaptureThread : wPc'[u] # "encoded"
  BY <1>1, wOneRuns DEF WRunning
<1>3. \A i \in 1..Len(wQueue') : wQueue'[i] \in wShown+1 .. wMade
  <2>1. CASE wStreaming
    <3>1. wQueue' = Append(wQueue, wHand[t])
      BY <2>1
    <3>2. wHand[t] \in wShown+1 .. wMade
      BY DEF wOrdered
    <3>3. ASSUME NEW s \in Seq(1..MaxFrames), NEW x, NEW i \in 1..Len(Append(s, x))
          PROVE  Append(s, x)[i] = x \/ (i \in 1..Len(s) /\ Append(s, x)[i] = s[i])
      OBVIOUS
    <3> QED
      BY <1>1, <3>1, <3>2, <3>3 DEF wOrdered
  <2> QED
    BY <2>1 DEF wOrdered
<1>4. wOrdered'
  BY <1>2, <1>3 DEF wOrdered
<1> QED
  BY <1>4 DEF wFeedStep, FeedStep

\* Every step keeps the order of the frames and is a step of the feed.
LEMMA wOrderStep == wInv /\ wOrdered /\ [WNext]_wVars => wOrdered' /\ wFeedStep
<1> SUFFICES ASSUME wInv, wOrdered, [WNext]_wVars PROVE wOrdered' /\ wFeedStep
  OBVIOUS
<1>t. wPc \in [CaptureThread -> {"none", "starting", "loop", "reading", "encoded", "done"}]
  BY DEF wInv, WTypeOK
<1>1. CASE WListen \/ WCancel \/ WStart \/ WStop \/ WDestroy
  BY <1>1, wSameFrames DEF WListen, WCancel, WStart, WStop, WDestroy, StopVideoCapture,
                           wThreadVars
<1>2. CASE ProcessPendingFrames
  BY <1>2, wShowFrame
<1>3. CASE WReturn
  BY <1>3, wSameFrames DEF WReturn, wThreadVars
<1>4. CASE WLaunch
  BY <1>4, <1>t, wSameFrames DEF WLaunch
<1>5. ASSUME NEW t \in CaptureThread, WCaptureThread(t) PROVE wOrdered' /\ wFeedStep
  <2>1. CASE WFailToStart(t) \/ CreateSourceReader(t) \/ WLook(t) \/ ReadNothing(t)
    <3>1. \A u \in CaptureThread : wPc'[u] = "encoded" => wPc[u] = "encoded"
      BY <1>t, <2>1 DEF WFailToStart, CreateSourceReader, WLook, ReadNothing, WMove
    <3> QED
      BY <2>1, <3>1, wSameFrames
      DEF WFailToStart, CreateSourceReader, WLook, ReadNothing
  <2> QED
    BY <1>5, <2>1, wMakeFrame, wQueueFrame DEF WCaptureThread
<1>6. CASE UNCHANGED wVars
  BY <1>6, wSameFrames DEF wVars, wThreadVars
<1> QED
  BY <1>1, <1>2, <1>3, <1>4, <1>5, <1>6 DEF WNext, WPlatform

-----------------------------------------------------------------------------
(***************************************************************************)
(* The frames of the Linux capture, in the same way; its timer takes       *)
(* nothing from the queue unless somebody listens.                         *)
(***************************************************************************)

lOrdered ==
    /\ lShown <= lMade
    /\ \A i \in 1..Len(lQueue) : lQueue[i] \in lShown+1 .. lMade
    /\ \A t \in CaptureThread :
        lPc[t] = "convert" =>
            /\ lHand[t] \in lShown+1 .. lMade
            /\ \A i \in 1..Len(lQueue) : lQueue[i] < lHand[t]

lFeedStep == FeedStep(lMade, lShown, lStreaming, lMade', lShown', lStreaming')

\* Two threads do not run at once.
LEMMA lOneRuns ==
    ASSUME LInv, NEW t \in CaptureThread, NEW u \in CaptureThread,
           LRunning(t), LRunning(u)
    PROVE  t = u
  BY DEF LInv, RunningHasDevice

\* A step that makes, queues and shows no frame, and leaves no thread with a
\* frame that had none.
LEMMA lSameFrames ==
    ASSUME lOrdered, UNCHANGED <<lMade, lShown, lQueue, lHand>>,
           \A t \in CaptureThread : lPc'[t] = "convert" => lPc[t] = "convert"
    PROVE  lOrdered' /\ lFeedStep
  BY DEF lOrdered, lFeedStep, FeedStep

\* The timer sends the oldest frame and empties the queue.
LEMMA lShowFrame ==
    ASSUME LInv, lOrdered, SendPendingFrames
    PROVE  lOrdered' /\ lFeedStep
<1> USE DEF SendPendingFrames, lThreadVars
<1>1. /\ lQueue \in Seq(1..MaxFrames) /\ lQueue # <<>>
      /\ lMade \in Nat /\ lShown \in Nat
  BY DEF LInv, LTypeOK
<1>2. 1 \in 1..Len(lQueue) /\ Head(lQueue) = lQueue[1]
  BY <1>1
<1>3. Len(lQueue') = 0
  OBVIOUS
<1>4. lShown' = lQueue[1] /\ lShown' \in lShown+1 .. lMade
  BY <1>2 DEF lOrdered
<1>5. \A t \in CaptureThread : lPc[t] = "convert" => lHand[t] \in lShown'+1 .. lMade
  BY <1>1, <1>2, <1>4 DEF lOrdered
<1>6. lOrdered'
  BY <1>1, <1>3, <1>4, <1>5 DEF lOrdered
<1> QED
  BY <1>4, <1>6 DEF lFeedStep, FeedStep

\* A frame that is dequeued is newer than every other.
LEMMA lMakeFrame ==
    ASSUME LInv, lOrdered, NEW t \in CaptureThread, DequeueFrame(t)
    PROVE  lOrdered' /\ lFeedStep
<1> USE DEF DequeueFrame, LMove, LOwnFrame
<1>1. /\ lMade \in Nat /\ lShown \in Nat /\ lMade' = lMade + 1
      /\ lPc \in [CaptureThread ->
                     {"none", "loop", "dequeue", "convert", "requeue", "done"}]
      /\ lHand \in [CaptureThread -> 0..MaxFrames]
  BY DEF LInv, LTypeOK
<1>2. ASSUME NEW u \in CaptureThread, lPc'[u] = "convert" PROVE u = t
  BY <1>1, <1>2, lOneRuns DEF LRunning
<1>3. lHand'[t] = lMade + 1
  BY <1>1
<1>4. /\ lShown' <= lMade'
      /\ \A i \in 1..Len(lQueue') : lQueue'[i] \in lShown'+1 .. lMade'
  BY <1>1 DEF lOrdered
<1>5. /\ lHand'[t] \in lShown'+1 .. lMade'
      /\ \A i \in 1..Len(lQueue') : lQueue'[i] < lHand'[t]
  BY <1>1, <1>3 DEF lOrdered
<1>6. lOrdered'
  BY <1>2, <1>4, <1>5 DEF lOrdered
<1> QED
  BY <1>1, <1>6 DEF lFeedStep, FeedStep

\* A frame is queued behind older ones.
LEMMA lQueueFrame ==
    ASSUME LInv, lOrdered, NEW t \in CaptureThread, LPush(t)
    PROVE  lOrdered' /\ lFeedStep
<1> USE DEF LPush, LMove, LOwnFrame
<1>1. /\ lMade \in Nat /\ lShown \in Nat /\ lQueue \in Seq(1..MaxFrames)
      /\ lPc \in [CaptureThread ->
                     {"none", "loop", "dequeue", "convert", "requeue", "done"}]
  BY DEF LInv, LTypeOK
<1>2. \A u \in CaptureThread : lPc'[u] # "convert"
  BY <1>1, lOneRuns DEF LRunning
<1>3. \A i \in 1..Len(lQueue') : lQueue'[i] \in lShown+1 .. lMade
  <2>1. CASE lStreaming
    <3>1. lQueue' = Append(lQueue, lHand[t])
      BY <2>1
    <3>2. lHand[t] \in lShown+1 .. lMade
      BY DEF lOrdered
    <3>3. ASSUME NEW s \in Seq(1..MaxFrames), NEW x, NEW i \in 1..Len(Append(s, x))
          PROVE  Append(s, x)[i] = x \/ (i \in 1..Len(s) /\ Append(s, x)[i] = s[i])
      OBVIOUS
    <3> QED
      BY <1>1, <3>1, <3>2, <3>3 DEF lOrdered
  <2> QED
    BY <2>1 DEF lOrdered
<1>4. lOrdered'
  BY <1>2, <1>3 DEF lOrdered
<1> QED
  BY <1>4 DEF lFeedStep, FeedStep

\* Every step keeps the order of the frames and is a step of the feed.
LEMMA lOrderStep == LInv /\ lOrdered /\ [LNext]_lVars => lOrdered' /\ lFeedStep
<1> SUFFICES ASSUME LInv, lOrdered, [LNext]_lVars PROVE lOrdered' /\ lFeedStep
  OBVIOUS
<1>t. lPc \in [CaptureThread -> {"none", "loop", "dequeue", "convert", "requeue", "done"}]
  BY DEF LInv, LTypeOK
<1>1. CASE LListen \/ LCancel \/ LStart \/ LStop \/ LDispose
  BY <1>1, lSameFrames DEF LListen, LCancel, LStart, LStop, LDispose, StopCapture,
                           lThreadVars
<1>2. CASE SendPendingFrames
  BY <1>2, lShowFrame
<1>3. CASE LReturn
  BY <1>3, lSameFrames DEF LReturn, lThreadVars
<1>4. CASE LStarting
  <2>1. \A t \in CaptureThread : lPc'[t] = "convert" => lPc[t] = "convert"
    BY <1>4, <1>t DEF LStarting, OpenDevice, RequestBuffers, StreamOn, LNoThread
  <2> QED
    BY <1>4, <2>1, lSameFrames
    DEF LStarting, OpenDevice, RequestBuffers, StreamOn, LStartFrame
<1>5. ASSUME NEW t \in CaptureThread, LCaptureThread(t) PROVE lOrdered' /\ lFeedStep
  <2>1. CASE LLook(t) \/ DequeueNothing(t) \/ Requeue(t)
    <3>1. \A u \in CaptureThread : lPc'[u] = "convert" => lPc[u] = "convert"
      BY <1>t, <2>1 DEF LLook, DequeueNothing, Requeue, LMove
    <3> QED
      BY <2>1, <3>1, lSameFrames DEF LLook, DequeueNothing, Requeue, LOwnFrame
  <2> QED
    BY <1>5, <2>1, lMakeFrame, lQueueFrame DEF LCaptureThread
<1>6. CASE UNCHANGED lVars
  BY <1>6, lSameFrames DEF lVars, lThreadVars
<1> QED
  BY <1>1, <1>2, <1>3, <1>4, <1>5, <1>6 DEF LNext, LHandlers

-----------------------------------------------------------------------------
(***************************************************************************)
(* The types of the remaining machines, and what they rest on: the calls   *)
(* to Dart and the messages posted are bounded by the requests to close,   *)
(* the calls of each popup by those forwarded.                             *)
(***************************************************************************)

shInv ==
    /\ shTypeOK
    /\ shCalls + shDestroys + (IF shAt = "saving" THEN 1 ELSE 0) <= shCloses

\* The flag of a popup is set only before its window: no result reaches a child.
puFlags ==
    /\ puAlive \subseteq {puNew} /\ (puStep # "window" => puAlive = {})
    /\ puGot = 0 /\ \A p \in Popup : puCalls[p] <= puSent

\* How far a new popup is; while there is one, the main engine has no host.
puMaking ==
    /\ puStep # "none" => puManager = 0
    /\ puStep = "window" => puWindows = {} /\ puEngines = {}
    /\ puStep = "engine" => puWindows = {puNew} /\ puEngines = {}
    /\ puStep # "none" => puAttached = {}
    /\ puAttached \subseteq puHosts

puInv == puTypeOK /\ puFlags /\ puMaking /\ OnePopup

USE ShellAssumption, SdpAssumption

\* Every step of the main window keeps its types.
LEMMA shTypeStep == shInv /\ [shNext]_shVars => shInv'
<1> SUFFICES ASSUME shInv, [shNext]_shVars PROVE shInv'
  OBVIOUS
<1> USE DEF shInv, shTypeOK, Placement, NoFile, ShortFile
<1>1. CASE shStart
  BY <1>1 DEF shStart, Restore
<1>2. CASE shMove
  BY <1>2 DEF shMove
<1>3. CASE shClose
  BY <1>3 DEF shClose
<1>4. CASE shWrite
  BY <1>4 DEF shWrite
<1>5. ASSUME NEW result \in {"success", "error", "notImplemented"}, WindowCloseResult(result)
      PROVE  shInv'
  BY <1>5 DEF WindowCloseResult
<1>6. CASE shDestroy
  BY <1>6 DEF shDestroy
<1>7. CASE shQuit
  BY <1>7 DEF shQuit
<1>8. CASE shKill
  BY <1>8 DEF shKill
<1>9. CASE UNCHANGED shVars
  BY <1>9 DEF shVars
<1> QED
  BY <1>1, <1>2, <1>3, <1>4, <1>5, <1>6, <1>7, <1>8, <1>9 DEF shNext

\* A popup whose window is destroyed leaves nothing with the main engine.
LEMMA puDestroyStep == puInv /\ Up /\ OnDestroy => puInv'
<1> SUFFICES ASSUME puInv, Up, OnDestroy PROVE puInv'
  OBVIOUS
<1> USE PopupAssumption DEF Up, OnDestroy, puObjectVars, puCallVars, Popup
<1>1. puWindows = {puManager} /\ puEngines = {puManager}
  BY DEF puInv, OnePopup
<1>2. puWindows' = {} /\ puEngines' = {} /\ puAttached' = {}
  <2>1. puWindows' = {} /\ puEngines' = {}
    BY <1>1
  <2>2. puAttached \subseteq {puManager} /\ puAttached \subseteq puHosts
    BY <1>1 DEF puInv, OnePopup, puMaking
  <2> QED
    BY <2>1, <2>2
<1>3. ~puPage'
  BY <1>1 DEF puInv, puTypeOK, OnePopup, puMaking
<1>4. puTypeOK'
  BY <1>2, <1>3 DEF puInv, puTypeOK
<1>5. puFlags'
  BY DEF puInv, puFlags
<1>6. puMaking' /\ OnePopup'
  BY <1>2, <1>3 DEF puInv, puMaking, OnePopup
<1> QED
  BY <1>4, <1>5, <1>6 DEF puInv

\* A call is forwarded for the manager's popup; only its host is attached.
LEMMA puForwardStep == ASSUME NEW method \in Method, puInv, ForwardRemote(method) PROVE puInv'
<1> USE PopupAssumption DEF ForwardRemote, Up, puObjectVars, puWindowVars, Popup
<1>1. puManager \in Popup /\ puWindows = {puManager}
  BY DEF puInv, OnePopup, puTypeOK
<1>2. /\ puSent' \in 0..MaxForwards /\ puSent' = puSent + 1 /\ puGot' = 0
      /\ puCalls \in [Popup -> 0..MaxForwards] /\ puSent \in 0..MaxForwards
      /\ \A p \in Popup : puCalls[p] <= puSent
  BY DEF puInv, puTypeOK, puFlags
<1>3. \A p \in Popup : puCalls'[p] \in 0..MaxForwards /\ puCalls'[p] <= puSent'
  BY <1>1, <1>2
<1>4. puCalls' \in [Popup -> 0..MaxForwards]
  BY <1>2, <1>3
<1>5. puHosts' \subseteq Popup /\ puAttached' \subseteq {puManager} /\ puAttached' \subseteq puHosts'
  BY <1>1 DEF puInv, puTypeOK, OnePopup, puMaking
<1>6. puPage' \in BOOLEAN /\ (puPage' => puAttached' # {})
  <2>1. CASE method = "remoteAcquire"
    BY <2>1 DEF puInv, puTypeOK, OnePopup
  <2>2. CASE method = "remoteOpen"
    BY <2>2 DEF puInv, puTypeOK, OnePopup
  <2>3. CASE method \in {"remoteRead", "remoteClose", "remoteDetach"}
    BY <2>3 DEF puInv, puTypeOK, OnePopup
  <2> QED
    BY <2>1, <2>2, <2>3 DEF Method
<1>7. puTypeOK'
  BY <1>1, <1>2, <1>4, <1>5, <1>6 DEF puInv, puTypeOK
<1>8. puFlags'
  BY <1>2, <1>3 DEF puInv, puFlags
<1>9. puMaking' /\ OnePopup'
  BY <1>1, <1>5, <1>6 DEF puInv, puMaking, OnePopup
<1> QED
  BY <1>7, <1>8, <1>9 DEF puInv

\* Every step of the popup keeps its types, and that it is the only one.
LEMMA puStepKeeps == puInv /\ [puNext]_puVars => puInv'
<1> SUFFICES ASSUME puInv, [puNext]_puVars PROVE puInv'
  OBVIOUS
<1> USE PopupAssumption DEF puObjectVars, puWindowVars, puHostVars, puCallVars, Popup
<1>1. CASE OpenOrFocus
  <2>1. CASE puManager \in puWindows
    BY <1>1, <2>1 DEF OpenOrFocus, puInv, puTypeOK, puFlags, puMaking, OnePopup
  <2>2. CASE puManager \notin puWindows
    <3> USE <1>1, <2>2 DEF OpenOrFocus
    <3>1. puWindows = {} /\ puEngines = {} /\ puAttached = {} /\ ~puPage
      BY DEF puInv, puTypeOK, OnePopup
    <3>2. puAlive = {} /\ puMade' \in 1..MaxPopups /\ puNew' = puMade' /\ puManager' = 0
      BY DEF puInv, puTypeOK, puFlags
    <3>3. puTypeOK'
      <4>1. /\ puMade' \in 0..MaxPopups /\ puManager' \in 0..puMade' /\ puNew' \in 0..puMade'
            /\ puStep' = "window" /\ puNew' # 0
        BY <3>2
      <4>2. puAlive' \subseteq 1..MaxPopups /\ puHosts' \subseteq 1..MaxPopups
        BY <3>2 DEF puInv, puTypeOK
      <4>3. puClosing' = "no" /\ puActive' = FALSE
        OBVIOUS
      <4>4. UNCHANGED <<puWindows, puEngines, puAttached, puPage, puCalls, puSent, puGot>>
        OBVIOUS
      <4> QED
        BY <4>1, <4>2, <4>3, <4>4, Zenon DEF puInv, puTypeOK
    <3>4. puFlags'
      BY <3>2 DEF puInv, puFlags
    <3>5. puAttached' \subseteq puHosts' /\ puStep' = "window"
      BY <3>1
    <3>6. puMaking' /\ OnePopup'
      BY <3>1, <3>2, <3>5 DEF puMaking, OnePopup
    <3> QED
      BY <3>3, <3>4, <3>6 DEF puInv
  <2> QED
    BY <2>1, <2>2
<1>2. CASE CreateWindow
  <2> USE <1>2 DEF CreateWindow
  <2>1. puTypeOK'
    <3>1. puNew \in 1..MaxPopups
      BY DEF puInv, puTypeOK
    <3>2. puWindows' \subseteq 1..MaxPopups /\ puAlive' \subseteq 1..MaxPopups
      BY <3>1 DEF puInv, puTypeOK
    <3>3. puStep' \in {"engine", "failed"} /\ puNew # 0
      BY <3>1
    <3> QED
      BY <3>2, <3>3, Zenon DEF puInv, puTypeOK
  <2>2. puFlags'
    BY DEF puInv, puFlags
  <2>3. puMaking' /\ OnePopup'
    BY DEF puInv, puTypeOK, puMaking, OnePopup
  <2> QED
    BY <2>1, <2>2, <2>3 DEF puInv
<1>3. CASE OnCreate
  <2> USE <1>3 DEF OnCreate
  <2>1. puTypeOK'
    <3>1. /\ puNew \in 1..MaxPopups /\ puNew \in 0..puMade /\ 0 \in 0..puMade
          /\ puManager \in 0..puMade
      BY DEF puInv, puTypeOK
    <3>2. puEngines' \subseteq 1..MaxPopups
      BY <3>1 DEF puInv, puTypeOK
    <3>3. /\ puManager' \in 0..puMade /\ puNew' \in 0..puMade
          /\ puStep' \in {"none", "failed"} /\ (puStep' = "none" <=> puNew' = 0)
      BY <3>1
    <3> QED
      BY <3>2, <3>3, Zenon DEF puInv, puTypeOK
  <2>2. puFlags'
    BY DEF puInv, puFlags
  <2>3. puMaking' /\ OnePopup'
    BY DEF puInv, puTypeOK, puMaking, OnePopup
  <2> QED
    BY <2>1, <2>2, <2>3 DEF puInv
<1>4. CASE DropFailed
  <2> USE <1>4 DEF DropFailed
  <2>1. puTypeOK'
    BY DEF puInv, puTypeOK
  <2>2. puFlags'
    BY DEF puInv, puFlags
  <2>3. puWindows' = {} /\ puEngines' = {}
    BY DEF puInv, OnePopup
  <2>4. puMaking' /\ OnePopup'
    BY <2>3 DEF puInv, puMaking, OnePopup
  <2> QED
    BY <2>1, <2>2, <2>4 DEF puInv
<1>5. CASE Destroyed
  BY <1>5, puDestroyStep DEF Destroyed
<1>6. CASE Activate \/ Deactivate \/ Close
  <2>1. CASE Activate
    BY <2>1 DEF Activate, puInv, puTypeOK, puFlags, puMaking, OnePopup
  <2>2. CASE Deactivate
    <3>1. puPage' \in BOOLEAN /\ (puPage' => puPage)
      BY <2>2 DEF Deactivate, puInv, puTypeOK
    <3> QED
      BY <2>2, <3>1 DEF Deactivate, puInv, puTypeOK, puFlags, puMaking, OnePopup
  <2>3. CASE Close
    BY <2>3 DEF Close, puInv, puTypeOK, puFlags, puMaking, OnePopup
  <2> QED
    BY <1>6, <2>1, <2>2, <2>3
<1>7. CASE Finish
  <2>1. puManager \notin puAlive
    BY <1>7 DEF Finish, Up, puInv, puFlags
  <2> QED
    BY <1>7, <2>1 DEF Finish, puInv, puTypeOK, puFlags, puMaking, OnePopup
<1>8. ASSUME NEW method \in Method, ForwardRemote(method) PROVE puInv'
  BY <1>8, puForwardStep
<1>9. ASSUME NEW p \in Popup, MainResult(p) PROVE puInv'
  <2> USE <1>9 DEF MainResult
  <2>1. puGot' = 0 /\ puAlive = {}
    BY DEF puInv, puFlags
  <2>2. /\ puCalls \in [Popup -> 0..MaxForwards] /\ puSent \in 0..MaxForwards
        /\ \A q \in Popup : puCalls[q] <= puSent
    BY DEF puInv, puTypeOK, puFlags
  <2>3. \A q \in Popup : puCalls'[q] \in 0..MaxForwards /\ puCalls'[q] <= puSent
    BY <2>2
  <2>4. puTypeOK'
    BY <2>1, <2>2, <2>3 DEF puInv, puTypeOK
  <2>5. puFlags' /\ puMaking' /\ OnePopup'
    BY <2>1, <2>3 DEF puInv, puFlags, puMaking, OnePopup
  <2> QED
    BY <2>4, <2>5 DEF puInv
<1>10. CASE UNCHANGED puVars
  BY <1>10 DEF puVars, puInv, puTypeOK, puFlags, puMaking, OnePopup
<1> QED
  BY <1>1, <1>2, <1>3, <1>4, <1>5, <1>6, <1>7, <1>8, <1>9, <1>10 DEF puNext

\* Every step of the status driver keeps its types.
LEMMA sdpTypeStep == sdpTypeOK /\ [NextSdp]_sdpVars => sdpTypeOK'
<1> SUFFICES ASSUME sdpTypeOK, [NextSdp]_sdpVars PROVE sdpTypeOK'
  OBVIOUS
<1> USE DEF sdpTypeOK, sdpClients, sdpQuery
<1>1. ASSUME NEW c \in SdpClient, sdpStart(c) PROVE sdpTypeOK'
  BY <1>1 DEF sdpStart
<1>2. ASSUME NEW c \in SdpClient, sdpStop(c) PROVE sdpTypeOK'
  BY <1>2 DEF sdpStop
<1>3. ASSUME NEW c \in SdpClient, sdpRequest(c) PROVE sdpTypeOK'
  <2>1. sdpTurn' \in 1..MaxQueries
    BY <1>3 DEF sdpRequest
  <2>2. ASSUME NEW reports \in Reports(sdpTurn') PROVE sdpWire \o reports \in Seq(Report)
    <3> DEFINE hab == [report |-> "hab", of |-> sdpTurn']
               status == [report |-> "status", of |-> sdpTurn']
    <3>1. hab \in Report /\ status \in Report
      BY <2>1 DEF Report
    <3>2. reports \in Seq(Report)
      <4>1. reports \in {<<hab, status>>, <<hab>>, <<status>>, <<>>}
        BY DEF Reports
      <4> HIDE DEF hab, status
      <4>2. ASSUME NEW a \in Report, NEW b \in Report
            PROVE  /\ <<a, b>> \in Seq(Report) /\ <<a>> \in Seq(Report)
                   /\ <<b>> \in Seq(Report) /\ <<>> \in Seq(Report)
        OBVIOUS
      <4>3. /\ <<hab, status>> \in Seq(Report) /\ <<hab>> \in Seq(Report)
            /\ <<status>> \in Seq(Report) /\ <<>> \in Seq(Report)
        BY <3>1, <4>2
      <4> QED
        BY <4>1, <4>3
    <3>3. sdpWire \in Seq(Report)
      OBVIOUS
    <3> QED
      BY ONLY <3>2, <3>3, ConcatProperties
  <2>3. sdpWire' \in Seq(Report)
    BY <1>3, <2>2 DEF sdpRequest
  <2>4. CASE sdpFail
    <3>1. /\ sdpFailed' \in BOOLEAN /\ sdpConnected' \in BOOLEAN
          /\ sdpCaller' \in SdpClient \cup {NoSdp}
          /\ sdpNext' \in {"none", "hab", "status"} /\ sdpRead' \subseteq 1..MaxQueries
      BY <2>4 DEF sdpFail
    <3>2. UNCHANGED <<sdpStopped, sdpNew, sdpHas, sdpResult>> /\ sdpTurn' \in 0..MaxQueries
      BY <1>3, <2>1 DEF sdpRequest
    <3> QED
      BY <2>3, <3>1, <3>2
  <2>5. CASE /\ sdpCaller' = c /\ sdpNext' = "hab" /\ sdpRead' = {}
             /\ UNCHANGED <<sdpFailed, sdpConnected>>
    BY <1>3, <2>1, <2>3, <2>5 DEF sdpRequest
  <2> QED
    BY <1>3, <2>4, <2>5 DEF sdpRequest
<1>4. CASE sdpDriverStop
  BY <1>4 DEF sdpDriverStop
<1>5. ASSUME sdpWire # <<>> PROVE Tail(sdpWire) \in Seq(Report) /\ Head(sdpWire) \in Report
  <2>1. sdpWire \in Seq(Report)
    OBVIOUS
  <2> QED
    BY ONLY <1>5, <2>1, HeadTailProperties
<1>6. CASE sdpReceive
  <2>1. sdpWire' \in Seq(Report) /\ Head(sdpWire).of \in 1..MaxQueries
    BY <1>5, <1>6 DEF sdpReceive, Report
  <2>2. sdpRead \cup {Head(sdpWire).of} \subseteq 1..MaxQueries
    BY <2>1
  <2>3. CASE sdpNext = "hab"
    BY <1>6, <2>1, <2>2, <2>3 DEF sdpReceive
  <2>4. CASE sdpNext # "hab"
    <3>1. sdpResult' \in [asked : 0..MaxQueries, answers : SUBSET (0..MaxQueries)]
      BY <1>6, <2>2, <2>4 DEF sdpReceive
    <3> QED
      BY <1>6, <2>1, <2>4, <3>1 DEF sdpReceive
  <2> QED
    BY <2>3, <2>4
<1>7. CASE sdpMalformed
  BY <1>5, <1>7 DEF sdpMalformed, sdpFail
<1>8. CASE sdpTimeout
  BY <1>8 DEF sdpTimeout, sdpFail
<1>9. CASE UNCHANGED sdpVars
  BY <1>9 DEF sdpVars
<1> QED
  BY <1>1, <1>2, <1>3, <1>4, <1>6, <1>7, <1>8, <1>9 DEF NextSdp

-----------------------------------------------------------------------------
(***************************************************************************)
(* The composition: a step is one of one machine, at which the others rest.*)
(***************************************************************************)

NInv ==
    /\ wInv /\ wOrdered /\ LInv /\ lOrdered
    /\ irqInv /\ devInv /\ sdpTypeOK /\ shInv /\ puInv

\* A step of the composition as the machines see it.
LEMMA MachineSteps ==
    [Next]_nativeVars =>
        /\ [WNext]_wVars /\ [LNext]_lVars /\ [irqNext]_irqVars /\ [fwNext]_fwVars
        /\ [NextSdp]_sdpVars /\ [shNext]_shVars /\ [puNext]_puVars
  BY DEF Next, nativeVars, OnWindows, OnLinux, OnRead, OnFirmware, OnSdp, OnShell, OnPopup

\* The first state of the machines whose types are proved here.
LEMMA sdpTypeInit == sdpInit => sdpTypeOK
<1> SUFFICES ASSUME sdpInit PROVE sdpTypeOK
  OBVIOUS
<1> USE DEF sdpInit
<1>1. sdpWire \in Seq(Report)
  <2>1. <<>> \in Seq(Report)
    OBVIOUS
  <2> QED
    BY <2>1
<1>2. sdpResult \in [asked : 0..MaxQueries, answers : SUBSET (0..MaxQueries)]
  <2>1. 0 \in 0..MaxQueries /\ {0} \in SUBSET (0..MaxQueries)
    OBVIOUS
  <2>2. sdpResult = [asked |-> 0, answers |-> {0}]
    OBVIOUS
  <2> QED
    BY ONLY <2>1, <2>2, Zenon
<1>3. sdpTurn \in 0..MaxQueries /\ sdpRead \subseteq 1..MaxQueries
  OBVIOUS
<1> QED
  BY <1>1, <1>2, <1>3 DEF sdpTypeOK

LEMMA shTypeInit == shInit => shInv
<1> SUFFICES ASSUME shInit PROVE shInv
  OBVIOUS
<1>1. shTypeOK
  BY DEF shInit, shTypeOK, NoFile
<1>2. shCalls + shDestroys + (IF shAt = "saving" THEN 1 ELSE 0) <= shCloses
  BY DEF shInit
<1> QED
  BY <1>1, <1>2 DEF shInv

LEMMA puTypeInit == puInit => puInv
<1> SUFFICES ASSUME puInit PROVE puInv
  OBVIOUS
<1>1. puTypeOK
  <2>1. 0 \in 0..MaxPopups /\ 0 \in 0..0 /\ 0 \in 0..MaxForwards
    BY PopupAssumption
  <2>2. puCalls \in [Popup -> 0..MaxForwards]
    BY <2>1 DEF puInit
  <2> QED
    BY <2>1, <2>2, Zenon DEF puInit, puTypeOK
<1>2. puFlags /\ puMaking /\ OnePopup
  BY DEF puInit, puFlags, puMaking, OnePopup
<1> QED
  BY <1>1, <1>2 DEF puInv

\* The first state: no frame, no request to close, no popup.
LEMMA NInvInit == Init => NInv
<1> SUFFICES ASSUME Init PROVE NInv
  OBVIOUS
<1>1. wInv /\ LInv /\ irqInv /\ devInv
  BY wInitInv, lInitInv, irqInitInv, devInitInv DEF Init
<1>2. wOrdered
  <2>1. Len(wQueue) = 0 /\ wShown = 0 /\ wMade = 0
    BY DEF Init, wInit
  <2>2. \A t \in CaptureThread : wPc[t] # "encoded"
    BY DEF Init, wInit
  <2> QED
    BY <2>1, <2>2 DEF wOrdered
<1>3. lOrdered
  <2>1. Len(lQueue) = 0 /\ lShown = 0 /\ lMade = 0
    BY DEF Init, lInit
  <2>2. \A t \in CaptureThread : lPc[t] # "convert"
    BY DEF Init, lInit
  <2> QED
    BY <2>1, <2>2 DEF lOrdered
<1> QED
  BY <1>1, <1>2, <1>3, sdpTypeInit, shTypeInit, puTypeInit DEF Init, NInv

\* Every step keeps the invariants.
LEMMA NInvStep == NInv /\ [Next]_nativeVars => NInv'
<1> SUFFICES ASSUME NInv, [Next]_nativeVars PROVE NInv'
  OBVIOUS
<1>1. wInv' /\ wOrdered'
  BY MachineSteps, wStep, wOrderStep DEF NInv
<1>2. LInv' /\ lOrdered'
  BY MachineSteps, lStep, lOrderStep DEF NInv
<1>3. irqInv'
  BY MachineSteps, irqTypeStep, irqWaitStep, irqBalanceStep DEF NInv, irqInv
<1>4. devInv'
  BY MachineSteps, fwTypeStep, fwStep, fwSyncStep DEF NInv, devInv
<1>5. sdpTypeOK' /\ shInv' /\ puInv'
  BY MachineSteps, sdpTypeStep, shTypeStep, puStepKeeps DEF NInv
<1> QED
  BY <1>1, <1>2, <1>3, <1>4, <1>5 DEF NInv

LEMMA NInvariant == Spec => []NInv
  BY NInvInit, NInvStep, PTL DEF Spec, UnfairSpec

(***************************************************************************)
(* For every bound and set of clients, every variable of every machine     *)
(* keeps its type: no thread has a frame that was not made, no more calls  *)
(* to Dart are under way than the user asked to close, and so on.          *)
(***************************************************************************)
THEOREM NativeTypesAreKept == Spec => []NativeTypeOK
<1>1. NInv => NativeTypeOK
  BY DEF NInv, NativeTypeOK, wInv, LInv, irqInv, devInv, shInv, puInv
<1> QED
  BY <1>1, NInvariant, PTL

(***************************************************************************)
(* However many popups are made and calls forwarded, there is one popup at *)
(* most, though its window, its engine or its view may fail to be made,    *)
(* its window may go without being asked, and another may be asked for     *)
(* while it closes; no window or engine of a failed one is left, and the   *)
(* main engine keeps no host and no page of one that has gone.             *)
(***************************************************************************)
THEOREM AlwaysOnePopup == Spec => []OnePopup
<1>1. NInv => OnePopup
  BY DEF NInv, puInv
<1> QED
  BY <1>1, NInvariant, PTL

\* A behaviour starts as the feed does.
LEMMA FeedInit == Init => Feed!Init
  BY DEF Init, wInit, lInit, Feed!Init

\* A step of either capture is a step of the feed; a behaviour of another
\* machine makes and shows no frame.
LEMMA FeedSteps ==
    NInv /\ [Next]_nativeVars => [Feed!Next]_(Feed!vars)
<1> SUFFICES ASSUME NInv, [Next]_nativeVars PROVE [Feed!Next]_(Feed!vars)
  OBVIOUS
<1> USE DEF Feed!Next, Feed!Make, Feed!Show, Feed!Listen, Feed!Cancel, Feed!vars
<1>t. /\ wSink \in BOOLEAN /\ wStreaming \in BOOLEAN /\ wSink' \in BOOLEAN
      /\ wStreaming' \in BOOLEAN /\ lStreaming \in BOOLEAN /\ lStreaming' \in BOOLEAN
  BY NInvStep DEF NInv, wInv, WTypeOK, LInv, LTypeOK
<1>m. machine' = machine
  BY DEF Next, nativeVars, OnWindows, OnLinux, OnRead, OnFirmware, OnSdp, OnShell, OnPopup
<1>1. CASE machine = "windows capture"
  <2>1. wFeedStep
    BY MachineSteps, wOrderStep DEF NInv
  <2> QED
    BY <1>1, <1>m, <1>t, <2>1 DEF wFeedStep, FeedStep, wListening
<1>2. CASE machine # "windows capture"
  <2>1. lFeedStep
    BY MachineSteps, lOrderStep DEF NInv
  <2> QED
    BY <1>2, <1>m, <1>t, <2>1 DEF lFeedStep, FeedStep
<1> QED
  BY <1>1, <1>2

(***************************************************************************)
(* For every number of captures and frames, both captures implement the    *)
(* frame feed: across stops, restarts and failed starts, what a listener   *)
(* gets are frames in the order in which they were made, none twice, and   *)
(* none after it is gone.                                                  *)
(***************************************************************************)
THEOREM FeedIsImplemented == Spec => ImplementsFeed
  BY FeedInit, NInvInit, NInvStep, FeedSteps, PTL
  DEF Spec, UnfairSpec, ImplementsFeed, Feed!Spec
=============================================================================
