# nt_helper in TLA+

nt_helper edits the presets of an Expert Sleepers disting NT over MIDI SysEx.
The protocol has no transaction identifiers, replies can be lost or late, and
everything the application shows is put together from requests that many
callbacks of one Dart event loop issue and await. Below the Dart code lie native
parts with threads, drivers and windows of their own. These modules model both:
the request scheduler, the parameter traffic built on it and the remote control
of the device; and the native video captures, the iOS device drivers and the
windows of the Windows build.

Paths of Dart files are relative to `src/lib/`, those of native files to `src/`.

## The system

| component | state | operations | what makes it correct |
|---|---|---|---|
| Message scheduler, `domain/disting_message_scheduler.dart` | `_state`, `_queue`, `_currentRequest`, pace, retry and timeout timers, active handler, split-frame buffer, shared response debt | `sendRequest`, cancel, dispose, timer callbacks, packet and stream callbacks | one request at a time, in order; each completes; a strict request never takes an earlier request's reply; bounded retries |
| Request keys, `domain/request_key.dart` | none | `matches`, `matchesStrict` | tracked keys match exactly their own replies |
| MIDI manager, `domain/disting_midi_manager.dart` | a scheduler | one request per operation | the right key, policy and budget for each |
| Parameter update queue, `domain/parameter_update_queue.dart` | pending updates, busy flag, timer, throttle times | `updateParameter`, `_processNext`, `flush`, `clear`, `dispose` | the last edit wins, none is lost, flush means sent |
| Parameter delegates, `cubit/disting_cubit_parameter_*_delegate.dart` | shown values and strings, refresh timers, polling tasks, retry list, command count | edit, refresh, program refresh, polling, background retries, `fetchSlots` | shown values follow the device; loops end when stopped |
| Connection, `cubit/disting_cubit_connection_delegate.dart` and others | cubit state, manager, queue | connect, sync, cancel, offline, demo, reconnect | nothing of an old manager reaches the new state |
| Slot operations, `cubit/disting_cubit_slot_*`, `algorithm_ops` | slot list, placeholders, verification operations | add, remove, move, rename, style, respecify | optimistic edits are confirmed or taken back, on the same algorithm |
| Remote control, `cubit/disting_cubit_remote_delegate.dart` | session, sent pushes, chained operations | open, send, close | every push that may have been delivered is released or reported |
| Memory, CPU, CC, `cubit/disting_cubit_{memory,monitoring,cc_notification}_delegate.dart` | connection scope, timers, pending halves | refresh, pause, resume, CC callback | no stale sample, no doubled polling, whole 14-bit values |
| Windows video capture, `windows/runner/usb_video_capture_plugin.cpp` | flags, capture thread, frame queue, timer, event sink | listen, cancel, start, stop, destroy, timer, the thread's loop | the thread that runs is the one that is joined; frames in order; handlers return |
| Linux video capture, `linux/usb_video_capture_plugin.cc` | the same, device file, mapped buffers, driver's stream | the same, and each step of opening the device | nothing is released under a thread; nothing is kept by a failed start |
| iOS firmware driver, `ios/FirmwareSessionDriver/` | session phase, progress, USB interface and pipes, clients, the transfer awaited | handshake, begin, append, advance, cancel, stop, USB callbacks | one client; the phase is true of the device; late answers are dropped; unplugging ends in a stop |
| iOS status driver, `ios/InitialSdpDriver/` | failed and stopped flags, USB interface, clients | start, query, stop, USB callbacks | a status answers its own query |
| Windows main window, `windows/runner/flutter_window.cpp`, `win32_window.cpp` | placement, its file, pending close calls | start, close, save, Dart's answer, destroy | the placement restored is whole; closing ends the process |
| Windows video popup, `windows/runner/windows_video_popup_manager.cpp`, `windows_video_popup_remote.h` | popup window, life flag, remote host, calls under way | open, close, activate, forward, results | one popup; results reach the child |
| Linux main window, `linux/my_application.cc` | a window | - | not modelled |
| Firmware wizard, 8CV, routing, presets, plug-ins, chat, MCP, database, gallery, samples, UI | their own | see `PROJECT.json` | see `PROJECT.json` |

**Interaction.** The UI, MCP tools and chat call the cubit. Its delegates call
the manager and await its futures; the manager puts requests in the scheduler.
The scheduler's future completes in a callback of a packet, a timer, a stream
error, a cancellation or the disposal. A delegate that resumes from an await
reads the cubit's state again and emits a new one. Two managers of one endpoint
share the debt tracker and the MIDI stream. The captures send frames to Dart over
an event channel and are told to start and stop over a method channel; the iOS
drivers are called through user clients and call the USB stack; the main window
asks Dart before it closes; the popup has a Flutter engine of its own, whose
remote calls it forwards to the main engine.

**What is hard.** Nothing runs in parallel, but every await lets any other
callback run: state read before an await is stale after it. Timers race with
replies. Replies cross the boundaries between requests, retries and managers. The native
code does run in parallel: a capture thread uses the flags, the device and the
frame queue of the plugin while the platform's thread starts and stops it, and
only joining the thread keeps them apart. The iOS drivers hold their lock through
transfers of up to 30 s, on a queue that is free while they sleep; a transfer
that was given up may be answered during a later one, and the answers carry no
mark of their request. The process may die while it saves its placement.
`PROJECT.json` lists these hazards at their lines, with the properties that
cover them or the planned module.

## Modules

- **RequestKeys** - the addresses of requests and replies, and the two
  matching functions. Message types are kept where the code treats them
  differently: replies that repeat a slot, a slot and parameter, nothing, an SD
  operation (or none, in an error frame), and requests without a typed reply.
- **MessageScheduler** - the scheduler with the wire and the device, one action
  per operation or callback:
  `Submit` and `SubmitCancelled` (`sendRequest`), `Cancel`, `Dispose`,
  `Replace` (a new manager), `PaceTimer` (`_processNext`), `RetryTimer` and
  `OrphanTimer` (`_sendCurrentRequest`), `Timeout` (`_onTimeout`, with
  `_resetInternalState`), `Deliver`, `FirstPart` and `LastPart`
  (`_handleIncoming` down to `_onResponseMatched`), `StreamError`,
  `StreamDone`, and `Lose` for the wire. Shared code is a shared operator:
  `Send`, `Resend`, `Finish`, `Dispatch`, `Answered`. A zero retry delay makes
  `Send` recur in the code; `Tries` gives the attempts one call may use.
  `ledger` holds the debt, and beside it what the program cannot see: the
  replies under way that the current request (`fresh`) and earlier ones
  (`late`) provoked. `outcome` records "stale" when a request was completed
  with another's reply.
- **RequestLine** - what the scheduler promises its callers: a line served at
  its head, every request completed once.
- **SchedulerHandover** - a disposed manager that is still used beside its
  replacement.
- **ParameterEdit** - the update queue, the optimistic edit, string queries and
  the debounced refresh, over a line of requests. A value is the number of the
  edit that chose it. The line is served in order and settles every request,
  which is what `ImplementsLine` and `EveryRequestSettles` show of the
  scheduler. They do not say that a reply is the request's own: these reads are
  best effort and untracked, so `SendRead` puts the device's answer on a wire
  (`wire`), it stays there when its read times out (`NotAnswered`), and it may
  end any later read with the same key (`Answered`), first of all the queue's
  query after the live query of a slider.
- **Polling** - the polling loops of the Performance screen. A loop is not
  cancelled but looks for its key, so a loop is named by its parameter and the
  number of the start that made it. Here too a reply may be one to an earlier
  poll.
- **RemoteControl** - the hosts that push, release and turn the controls of the
  device. `Change` is `_synchronize` with the state the cubit emits (`Replace`,
  `LoseCapability`, `KeepCapability` are its branches), `GiveUp` is
  `clearConnection`, `Open`, `Send`, `Close`, `Dispose` and `Disposed` are the
  methods up to an await. Each connection has a chain of operations (`tail`):
  `Start` runs the first one, `Deliver` and `Fail` are what becomes of its
  write, `InputReturns` and `ReleaseReturns` go on after it, and `Catch` is the
  catch block of `send`, which runs after the next operation of the chain has
  started. Ghost state (`wire`) says which controls the device has down and
  who pushed them.
- **FrameFeed** - what a capture promises the widget: frames in the order in
  which they were made, none twice, only while somebody listens.
- **WindowsCapture**, **LinuxCapture** (bounds in **CaptureBounds**) - a plugin,
  its platform thread and its capture threads, numbered as they are started.
  A handler that stops the capture blocks its thread in a join, so it is a
  call, `StopVideoCapture` or `StopCapture`, and a return, `WReturn` or
  `LReturn`; `WCancel`, `WStart`, `WStop`, `WDestroy` and their Linux
  counterparts are the handlers that begin that way. A start goes on with
  `WLaunch`, on Linux with `OpenDevice`, `RequestBuffers` and `StreamOn`, each of
  which may fail. `ProcessPendingFrames` and `SendPendingFrames` are the timers.
  The other actions are the loop of the capture thread between two accesses to
  shared state; the members without a lock are read and written as they come.
- **InterruptRead** - the life of one USB interrupt transfer, which the two iOS
  drivers share up to the reference the firmware driver keeps for the callback:
  `irqSubmit`, `irqAccepted` or `irqRejected`, then the callback (`irqComplete`)
  against the deadline (`irqExpire`), and the caller's return.
- **FirmwareSession** - the driver, its user clients and the programmer.
  `Begin`, `AppendData` and `Advance` put the transfers of a call together, as
  the methods of `Programming.hpp` do one after the other; `Send`, `Receive` and
  their failures run them under the lock, `CallReturns` assigns the phase.
  `Fail` is what every failure does. `DriverStop` and `DriverDisconnect` are the
  two halves of `Stop`. The boot loader of the device is external.
- **InitialSdp** - the status driver: one request, two reports, poisoning, and
  clients one after the other. Reports are numbered by the request that caused
  them, which the driver cannot see.
- **WindowsShell** - the main window: `shClose` and `shWrite` are the two halves
  of saving the placement, `WindowCloseResult` is Dart's answer, `shDestroy` and
  `shQuit` are `WM_DESTROY` and the end of the message loop, `shKill` is a crash.
- **VideoPopup** - the popup objects, numbered as they are made. `OpenOrFocus`
  raises the popup there is, or clears one whose window has gone and makes
  another: `CreateWindow`, `OnCreate` (the engine and its view), each of which
  may fail, and then `DropFailed`, the destructors. `Destroyed` is a window that
  goes without `WM_CLOSE`, `Close` and `Finish` the way with it; both end in
  `OnDestroy`. `Activate` and `Deactivate`, `ForwardRemote` and `MainResult` are
  the traffic with the main engine, of which the model keeps the host and the
  open page it knows of (`puAttached`, `puPage`).
- **MC...** - instances for TLC. Two of them hold several machines that share no
  state, **MCNative** and **MCParameters**: a behaviour chooses one at its
  start and moves only that one, so their state spaces add up. The fairness of
  each machine is stated of its steps in the composition.
- **...Proofs** - theorems: MessageSchedulerProofs, RemoteControlProofs and
  LinuxCaptureProofs about the module named, SchedulerLineProofs about
  MessageScheduler and the line it implements, ParameterProofs about
  ParameterEdit and Polling, WindowsProofs about WindowsCapture and
  WindowsShell, IosProofs about FirmwareSession, InitialSdp and InterruptRead,
  NativeProofs about MCNative, the composition of the native machines, and the
  feed that its captures implement.

Operators named `...Slip` are plausible mistakes, used by no action; replacing
the definition they follow by them violates a property, which shows that the
property depends on the code it is about.

### Where the models abstract

- Data: payloads, names, RTT statistics, diagnostics, observers and CC
  messages are left out. A frame comes in at most two packets.
- The device sends at most one reply for a transmission, and only to requests
  it received; a reply may come at any time, be lost, arrive after its request
  ended, or fail to parse. It need not come before the next one's.
- The order of replies is free. The code removes the oldest matching debt
  entry and the model any matching one, strict or best-effort.
- `sendData` does not deliver a reply before it returns (the guard at line
  1031 is for mocks).
- A cancellation token is only given to single-attempt requests
  (`KindAssumption`), as in `requestRemoteAction` and the respecification
  readback. A request with more attempts that can be cancelled could leave an
  armed retry timer behind (lines 1152, 1254 and 1293 overwrite `_retryTimer`
  without cancelling it), which would send the next request early;
  `NothingOutlivesItsRequest` shows that no caller gets there.
- A disposed scheduler hears nothing. A disposed one that runs into three final
  timeouts in a row subscribes again (`_resetInternalState`); this is left out.
- `forceDeviceReconnect`, `tryReconnectSubscription` and
  `refreshSlotParameterStrings` have no callers and are left out.
- ParameterEdit models edits in range and of parameters other than Program,
  on one connection. The throttle of live strings is a choice. `FlushedTextIsCurrent`
  is not true of every cell: a query that is sent while a string of an older
  value is under way may be ended by that string, and the text shown is then the
  old one. The ghost variable `doubt` names exactly these cells, and the property
  exempts them, as it does those whose query got no answer (`mute`). Without the
  exemption TLC shows a slider's query that times out, its late reply after the
  update, and the old text. A stray answer that finds no read of its key is lost
  in the model, as in the code.
- Polling leaves out offline and demo managers. The live manager throws when
  there is no reply, and never returns null. Equal values under way count as one.
- RemoteControl numbers managers as the cubit comes to show them. A write is one
  step that the scheduler settles in some way or that a cancellation withdraws
  before it is sent. Values of turns, texts and the published snapshot are left
  out. `_error` is reduced to whether it speaks of controls that may be held.
- Frames are numbered as they are made. Pixels, formats, the bitmap and the
  enumeration of cameras are left out. A test frame of a Windows thread without
  a camera is a frame; the red frame that a start sends is not.
- The engine cancels a listener before it sets another, and it removes the
  plugin's channels with the plugin.
- The array of mapped buffers is allocated and filled in two steps of a start
  on Linux; `lMapped` is set by the first, as the second fails into the same
  release.
- A report of the device is the right one or another; its bytes and the checks
  of them are not modelled. Data of an image is counted in packets. An error of a
  USB set-up step is undone before anybody sees it, so it changes nothing.
- The two steps of a driver's `Stop` are one in InitialSdp (`sdpDriverStop`);
  nothing a client does between them is let through by the first.
- A message that reaches the main window between its `WM_DESTROY` and the end of
  the loop is left out, and so are sizes, themes and DPI. Without a profile
  directory the placement is saved to a local file that no start reads
  (`windows/runner/flutter_window.cpp:125-130`); to the next start this is a file
  that could not be opened, and it is that branch of `shClose`.
- Bounds and the always-on-top mode of the popup are left out, and so is the
  destruction of the manager, a static object, when the process ends. Making a
  popup is a synchronous call, so no other handler comes between its steps. As
  the code resets the life flag before the window exists, the branches of
  `MainResult` and `Finish` for a flag that is set are not reached; they are what
  the code does with it. The main engine opens a page for the host it was told of
  and is told to close or detach it; what Dart does with that is RemoteControl.

## Runs

| run | shows | instance |
|---|---|---|
| `traffic` | `TypeOK`, `StrictAttribution`, `DebtCoversTransit`, `NeverStranded`, `NothingOutlivesItsRequest`, `SendBudget`, `ImplementsLine` | 3 requests of one mix: two of an ordinary read (2 attempts), a cancellable strict read of the same slot and a memory query (1 attempt); or enum strings, values and silent writes, with two parameters, so a misaddressed enum reply exists; or SD-card, plug-in and silent writes; with and without retry delay |
| `settling` | `EveryRequestSettles` | 2 requests of 3 families, no symmetry |
| `handover` | `StrictAttribution` is violated | 1 strict read beside 2 attempts of a disposed manager |
| `parameters` | `BothTypeOK`, `FlushedIsSent`, `FlushedTextIsCurrent`, `EditsLandInOrder`, `FlushReturns`; `TasksArePolled`, `StopEndsLoops`, `PolledValuesConverge` | 3 edits of a textual and a plain parameter of one slot, 2 answers under way; or polling of a parameter, 3 starts, 2 device changes |
| `edit_refresh`, `edit_sync` | `OneRefresh`, `SettledInSync` are violated | 3 and 2 edits, timers respecting their lengths |
| `remote` | `TypeOK`, `LiveHostIsConnected`, `OnlyTheHostActs`, `HostsDoNotMix`, `HoldsAreOwed`, `LossIsReported`, `HoldsAreReleased`, `ShutdownCompletes` | 2 hosts, 2 controls, 2 inputs, 2 connections, 3 changes of the cubit's state |
| `remote_retry` | `FailedReleaseCanBeRetried` is violated | the same |
| `poll_twice` | `OldLoopsEnd` is violated | 2 parameters, 2 starts, 2 device changes |
| `native`, Windows capture | `ThreadsAreOwned`, `ImplementsFeed`, `StopsReturn` | 3 captures, 3 frames |
| `native`, Linux capture | `ThreadHasItsDevice`, `IdleHoldsNothing`, `ImplementsFeed`, `StopsReturn` | 3 captures, 3 frames |
| `native`, transfers | `ReferencesBalance`, `LateAnswersAreDropped` | 3 transfers, either driver |
| `native`, firmware | `OneClient`, `DeviceFollowsPhase`, `UnplugCompletes` | 2 clients, images of 1 to 3 packets, ROM and loader |
| `native`, status | `StatusIsFresh` | 2 clients, 3 queries |
| `native`, windows | `RestoredPlacementIsWhole`, `CloseQuits`, `OnePopup` | 3 placements, 3 requests to close; 3 popups made, 3 forwarded calls |
| `popup_results` | `ResultsReachTheChild` is violated | 3 popups made, 3 forwarded calls |
| `latest_frame` | `LatestFrameIsShown` is violated | 1 capture, 2 frames |

`native` is one run of all native machines, and also checks `NativeTypeOK`.

**Bounds.** Three requests give one that leaves replies behind, one that is
confused by them and one that waits; each choice
within a mix is tried, because `kind` is chosen in `Init`; a third key beside two
others is only one more request that waits. Two attempts are the least with a retry, and a
single-attempt request is never retried. `Recovery = 3` is the code's constant.
The wire needs no bound: it holds at most the transmissions of the requests.
Three edits of two cells allow an edit to wait, to be consolidated, to be in
transit while the next one waits, and to stand behind one of the other cell. Two
answers under way are one that a read gave up and the one it meets. Two
inputs let one host leave a control pushed and another act, or one host push two
controls of which one fails to be released; three changes are a connection, its
loss and its return. Three starts make three generations of loops, two of them
old; loops of different parameters share the connection and the stop only, so one
parameter is polled where liveness is checked and two in `poll_twice`. Three captures
are one that fails to start, one that succeeds and one that replaces it, and
three frames let the queue hold a frame of an earlier capture beside two of the
present one, so that a swapped or repeated frame would show. Three transfers
allow two late answers during a third transfer. Two clients can compete for a
driver; a third would find what the second finds. Three packets are a first, a
middle and a last one, in up to three appends, and three queries let the reports
of a failed one meet two later ones. Three placements are an older one, the one
saved last and one that a crash kept from being saved; three requests to close
can overlap in every way with one answer. Three popups are one that fails, one
that is destroyed and the one that clears it. The bound on frames is where a device
has nothing to give; the bounds on starts, transfers, queries and forwards
disable an operation and nothing else. Symmetry is used where only
invariants and the step-wise refinement are checked, over requests that are
interchangeable; the liveness runs have none. Systems that have served
everything stop, so deadlock is not an error in these runs; that nothing stops
early is `NeverStranded`, `EveryRequestSettles`, `FlushReturns`,
`HoldsAreReleased`, `ShutdownCompletes`, `StopsReturn`, `UnplugCompletes` and
`CloseQuits`.

**Fairness.** The Dart event loop fires every armed timer, hence weak fairness
of the timer actions of the scheduler and of `ProcessNext` of the queue. Callers,
device and wire owe nothing. ParameterEdit and Polling may assume that requests
settle (`Served`; `Settles`), because `settling` shows it. So may
RemoteControl (`Proceed`), which also assumes that a continuation runs once its
future is complete (`Catch`, `Disposed`). Polling
assumes strong fairness of `DeviceReads` and `Replies`: a device that is asked
again and again does answer sometimes, and its answers sometimes arrive, or no
reading could ever converge; only `PolledValuesConverge` needs it.

`MCNative` assumes weak fairness of what the operating systems run: a capture
thread, a handler that has been called, and a message that was posted to a
window. A read of the Windows camera returns (`ReadSample` is synchronous and
has no other way out of the code). A dequeue of the Linux driver need not return
while its stream is on, but does once it is off (`~lOn`), which is what
`VIDIOC_STREAMOFF` is for. A USB transfer of the iOS drivers ends at its
deadline, because they sleep with one. Dart answers `windowWillClose`. Nothing is
assumed of users, clients, the timers of the captures or the devices.

## What disagrees with the text

1. *Handover* (`domain/disting_message_scheduler.dart:165-167`): replacing a
   manager does not make old packets unattributable as long as the old manager
   is in use. `dispose` sets no flag, and its later requests become debt only
   when they time out.
2. *One refresh* (`cubit/disting_cubit_parameter_refresh_delegate.dart:30-31`):
   the callback clears the timer reference after its await (line 70), so an
   edit during the await leaves a timer no later edit cancels.
3. *Re-sync* (`cubit/disting_cubit_parameter_value_delegate.dart:132`): the
   refresh runs 300 ms after the edit, whether or not the edit has been sent;
   with a backlog it restores the old value in the state for good.
4. *Old loops* (`cubit/disting_cubit_parameter_refresh_delegate.dart:158`):
   starting polling again clears the tasks but not the loops in an await. Such a
   loop looks for its key only, finds that of the new start (line 271) and asks
   again, beside the new loop: two starts, the first loop's request fails, it
   sleeps, wakes and asks. A loop that compared its task would end there.
5. *Results for the popup*
   (`windows/runner/windows_video_popup_manager.cpp:446`, against the comment at
   `windows_video_popup_remote.h:10-11`): `OnDestroy` marks the popup as gone, and
   `Win32Window::Create` runs it (`win32_window.cpp:186` and 305) before the
   window exists. The run shows a result of the main engine that is dropped though the
   popup is there. `Finish` tests the same flag, so a popup that is asked to close
   is not destroyed when its cleanup is done either; no property is about that.
6. *Retry of releases* (`cubit/disting_cubit_remote_delegate.dart:183-185`):
   when the cleanup of `closeSession` itself fails, the session is already
   gone, so no later close attempt reaches the controls that were kept for it.

7. *Latest frame* (`windows/runner/usb_video_capture_plugin.cpp:180` and
   `linux/usb_video_capture_plugin.cc:73`): "keep only latest frame" says the
   comment, but the timer takes the front of the queue, the oldest frame, and
   drops the newer ones. `latest_frame` shows it of the Windows capture;
   `SendPendingFrames` is the same code on Linux.

RemoteControl shows two more behaviours that no property is about. A push that
was registered and then withdrawn from the scheduler's queue by `closeSession`
is released although it was never sent. A cleanup that is cut off by the loss
of the remote capability marks the release as unconfirmed after the set of
pushes was emptied (lines 203-204 and 263), so when the capability comes back
the connection refuses new sessions with nothing left to release.

## Proofs

### The scheduler

`MessageSchedulerProofs` proves, with `ReqAssumption`, `KindAssumption` and
`AbsentAssumption` only, for every set of requests, slots, parameters, budgets
and recovery limit:

- `TypeCorrect`: `Spec => []TypeOK`
- `StrictAttributionHolds`: `Spec => []StrictAttribution`
- `DebtAccounting`: `Spec => []DebtCoversTransit`

`StrictAttribution` is not inductive. A strict request takes a foreign reply
only if one is under way, its handler is set, and no debt entry matches, so
the invariant `IInv` bounds the replies under way by the debt, for each tracked
key, in each phase of the request (`Balanced`):

- while no request for the key is current, late replies are covered by debt;
- a best-effort request may take or leave replies of earlier ones, so its own
  transmissions and the debt cover late and own replies together;
- a strict request is accounted for apart: late replies are covered by debt,
  its own by its transmissions, and there is no debt at all once its handler
  is gone, or from the start with `failWhenAmbiguous`. When its handler takes a
  reply there is no debt, so no late reply, so the reply is its own.

The handler matters: a parse error drops it and the retry registers it again,
and in between a reply finds debt and a request but no handler. `Control` ties
state, timers, counters and `strictActive` to the current request, and
`Solvent` is what `Finish` needs to hand its request's surplus over to the debt.
`TrackedKeysAreExact` shows that neither leniency of `request_key.dart` touches
tracked keys, so keys can be treated one by one. The proof has a lemma for each
shared operator (`Finish`, `Send`, `Resend`, `Answered`, `Dispatch`,
`Receive`), one for each action, `IInvInit` and `IInvStep`.

`SchedulerLineProofs` adds, from the same assumptions:

- `RequestsAreNeverStranded`: `Spec => []NeverStranded`
- `NothingIsLeftBehind`: `Spec => []NothingOutlivesItsRequest`
- `BudgetIsKept`: `Spec => []SendBudget`
- `LineIsImplemented`: `Spec => ImplementsLine`

Its invariant `LineInv` is `IInv` with four more parts. `Timing`: exactly the timer
that the mode calls for is armed; a send that fails leaves the timeout alone, so
this needs that such a request never had one. `Orphaned`: `_retryTimer` is
overwritten while it is armed only when a late reply that does not parse finds
the handler of a request that waits to be sent again. That request has attempts
left after its first, so it is not cancellable (`KindAssumption`), and it has just
lost its handler, so it is not answered before the older timer fires.
`Spending`: while a request waits to be sent again a transmission is left in its
budget. `Lined`: the requests submitted and not completed are the current one and
the queued ones, each once. `FlowStep` sorts the actions by what they do to the
line: work for the current request (`Worked`), taking the head of the queue
(`Turned`), withdrawing, closing. Each of these keeps `Lined` and is a step of
`RequestLine` for the line `FullLine(current, queue)`; the rest is about sequences
(`HeadFirst`, `WithoutIsConcat`, `WithoutInLine`).

The price of safety: debt never decays. A reply that is lost for good leaves
its entry, and strict reads of that slot are then refused until matching
replies have drained it. That is the code's choice (comment at line 169), and
no liveness of strict reads is claimed.

### Parameter edits and polling

`ParameterProofs` proves, with `CellAssumption` and `PollAssumption` only, for
every set of cells and every bound on edits, losses, failures, refreshes,
starts and stops:

- `FlushedIsAlwaysSent` (`Spec => []FlushedIsSent`), `FlushedTextIsAlwaysCurrent`
  (`Spec => []FlushedTextIsCurrent`) and `EditsAlwaysLandInOrder`
  (`Spec => EditsLandInOrder`) of ParameterEdit,
- `TasksAreAlwaysPolled` (`pollSpec => []TasksArePolled`) of Polling,
- `BothTypesAreKept` (`BothSpec => []BothTypeOK`) of their composition.

The invariant of the edits, `EditInv`, follows a cell from the slider to the
device. The last edit waits, is in the line, was given up or has arrived
(`LatestIsOnItsWay`), and what waits is the last edit (`PendingIsLatest`), so an
idle queue leaves nothing behind. An older edit in the line would be sent after
it: the line has one update at most, that of the cell being updated
(`OneUpdate`), and one that is not the last only while the last one waits. The
device's value, the update in the line and the last edit ascend (`Ascending`),
so no step sets an older value. A text that is not the device's could not be
read, is in doubt, or is being asked for (`TextFollows`). What keeps it so is
where old strings are: a string of an older value is under way only before the
queue's query for the new one is sent, for a cell in doubt, or for one whose
query got no answer and has not been sent again (`AnswersAreCurrent`). An update
that reaches the device makes every string under way an old one, and its query
is then still to be sent; when it is, either no old string is under way, or the
cell is in doubt. `PollInv` is the types, that no parameter is steady without a
synchronized state, and the promise itself; a step of one loop moves it between
awaiting and sleeping or ends it with its key (`LoopStep`).

### Remote control

`RemoteControlProofs` proves, with `RemoteAssumption` only, for every set of
controls and every bound on connections, sessions, inputs and changes of the
state:

- `RemoteTypesAreKept` (`Spec => []TypeOK`)
- `LiveHostIsAlwaysConnected` (`Spec => []LiveHostIsConnected`)
- `OnlyTheHostEverActs` (`Spec => []OnlyTheHostActs`)
- `HostsNeverMix` (`Spec => []HostsDoNotMix`)
- `HoldsAreAlwaysOwed` (`Spec => []HoldsAreOwed`)
- `LossIsAlwaysReported` (`Spec => []LossIsReported`)

All six follow from one invariant, `RemoteInv`. That hosts do not mix holds
because of where the cleanups are in a chain: a live host whose connection has no
failed release finds the controls of former hosts up, or has a cleanup in its
chain (`CleanForHost`), no cleanup comes after one of its inputs
(`InputsComeLast`), and a cleanup ends well only when nothing is owed: what is
owed is still in its list or is being released (`CleanupCovers`). So the input
that starts, being first in the chain, finds no cleanup to come and the controls
up. A cleanup that is cut short, or that runs while the connection is not
available, has nothing to release (`UnreadyOwesNothing`); this is why losing the
capability clears `sentPushes` at once and reports the loss. That holds are owed
needs `WritesAim`: a push is registered before it is written, and a release that
was written has left its control up when it is taken off the list.
`ReadyIsConnected` ties the session, the connection shown, its manager and its
cancellation together.

The lemmas follow the parts of the code: what `_detach`, `closeSession` and a new
connection do to every chain (`AllFollow`, `Followed`), and for the steps of one
chain what its connection may become (`MayBe`, `QuietStep`), with one lemma per
action.

### The native machines

Each of these theorems is about the specification of one machine, for every
value of its bounds and sets, from the assumption on its constants only
(`CaptureAssumption`, `ReadAssumption`, `SessionAssumption`, `SdpAssumption`,
`ShellAssumption`).

- `ThreadsAreAlwaysOwned` (`WSpec => []ThreadsAreOwned`). Inductive with how a
  thread will be stopped (`RunningIsStopped`): it is the plugin's thread, and
  either `capturing_` is set or a handler joins it. A handler that stops resets
  the flag (`CallsStop`), so once it has returned no thread runs, and a start may
  overwrite `capture_thread_`. `ThreadStages` says that the camera is held in the
  loop only.
- `ThreadsAlwaysHaveTheirDevice` and `IdleAlwaysHoldsNothing` (`LSpec`). The same,
  with the device (`RunningHasDevice`), and with what the plugin holds at each
  point of a handler or a start (`HeldInCalls`): a failing step finds exactly what
  the earlier steps acquired.
- `ReferencesAlwaysBalance` and `LateAnswersAreAlwaysDropped` (`irqSpec`). The
  strengthening `WaitsForOne`: a pending transfer that has not expired is the one
  its caller is waiting for or about to give up, so a callback that has a result
  to write finds its caller.
- `AlwaysOneClient` (`fwSpec => []OneClient`). A client that still holds a session
  that is not connected is left over from a failure (`HeldOrFailed`), and a failed
  session lets no handshake through; so a handshake that succeeds finds no client.
- `DeviceAlwaysFollowsPhase` (`fwSpec => []DeviceFollowsPhase`). The phase is
  assigned when a call returns, and a call is up to four transfers and any number
  of packets, so the invariant has to say where the device is in the middle of
  one. `Synchronized` says: between calls the device has run the steps the phase
  confirms, those of the packets that were sent, and nothing is on the wire;
  during a call what is still to be sent (`fwTodo`) continues the recipe where the
  device is (`InStep`), and the wire holds the answers of the exchange under way
  (`Exchange`, `Configuring`, `Appending`, `Downloading`). Once the device has
  refused a command this no longer holds, but then the refusal is at the head of
  the wire (`Refused`) and the session fails as soon as it reads it. Packets are
  sent without an answer each, so here the device may be behind the driver
  with a refusal unread until the last one (`Loading`); that is what leaves
  commands unconfirmed in the property.
- `StatusIsAlwaysFresh` (`sdpSpec => []StatusIsFresh`). Reports have no mark of
  their query, so the wire has to be inductive (`WireIsOwn`): between queries it is
  empty unless the session has failed, during a query it holds that query's own
  reports.
- `RestoredPlacementIsAlwaysWhole` (`shSpec => RestoredPlacementIsWhole`), by
  `FileIsSaved`: a file with a whole placement has the one saved last, because
  opening it for the next one empties it.

`NativeProofs` is about the composition, `Spec` of MCNative, from all of these
assumptions and `PopupAssumption`:

- `FeedIsImplemented`: `Spec => ImplementsFeed`
- `AlwaysOnePopup`: `Spec => []OnePopup`
- `NativeTypesAreKept`: `Spec => []NativeTypeOK`

A step of the composition is a step of one machine and a stutter of the others
(`MachineSteps`), so the machines' invariants are kept together (`NInv`). For the
feed each capture adds the order of its frames (`wOrdered`, `lOrdered`): what is
queued or in a thread's hand is newer than the frame shown, and what is in a hand
is newer than what is queued. No handler clears the queue when it stops, so a
frame of an earlier capture can be queued when the next one makes its first; the
order survives because threads never overlap (`RunningIsStopped`,
`RunningHasDevice`): a second one with an older frame in its hand would break
it. `FeedSteps` then maps the steps: `ReadSample` and `DequeueFrame` make a frame,
the timer shows one or shows none, and every other step is a change of listener or
a stutter.

That there is one popup at most needs what a creation has acquired when it fails
(`puMaking`): a window only if it got as far as `OnCreate`, an engine only there,
and nothing of it is told to the main engine. It also needs that the host the main
engine knows of is that of the popup's window, so `OnDestroy`, which detaches it
only if `remote_host_` is set, leaves none behind (`puDestroyStep`). `puFlags` is the
finding about the popup as an invariant: the flag is set only before there is a
window.

### Only model-checked

Liveness, which is out of the prover's reach: `EveryRequestSettles`,
`FlushReturns`, `StopEndsLoops`, `PolledValuesConverge`, `HoldsAreReleased`,
`ShutdownCompletes`, `StopsReturn`, `UnplugCompletes`, `CloseQuits`. Every other
property of the passing runs is stated by a theorem.

## Plan

Prove next: the safety parts of what liveness rests on, where they are not the
invariants above already (that a stop which waits always waits for a thread
that has been told to end), and the machines below as they are modelled.

Model next, in this order:

1. `Respecification` (lifetime, verification window, background retries),
   which uses cancellation and strict reads.
2. `SlotEdits` (optimistic add, remove, move, rename, style, with delayed
   verification, program and anomaly refresh) against an abstract list of
   algorithms.
3. `ParameterRetries` (retry list and command count), `MemoryQueries`,
   `Monitoring`, `CcNotification`.
4. `Connection` (managers, sync, reconnect, offline, disposal of the queue),
   composed with `MessageScheduler` and `ParameterEdit`.
5. `SysExFraming` (packets, split and interrupted frames), the 8CV and firmware
   cubits, and the pure algorithms (slot reordering, topological sort,
   multi-byte integers) against reference definitions.

Known and not covered by a property, beside the hazards of `PROJECT.json`: debt
that never decays; the leniency towards replies to enum string requests and
SD-card errors (`domain/request_key.dart:97` and 154); one refresh timer for all
slots and a program refresh that drops a fetched slot
(`cubit/disting_cubit_parameter_refresh_delegate.dart:40` and 106); background
retries that poll for the end of a command
(`cubit/disting_cubit_parameter_fetch_delegate.dart:81`).

## Not modelled

The Linux main window passes the request to close on without waiting for an
answer; a model of it would be about GTK. Widgets, the Swift and Kotlin hosts,
database access, file conversion, downloads, pixel formats and the encodings of
individual messages are pure input and output.
