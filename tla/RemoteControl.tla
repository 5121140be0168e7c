----------------------------- MODULE RemoteControl -----------------------------
(***************************************************************************)
(* Remote control of the device: _RemoteDelegate of the cubit (lib/cubit/  *)
(* disting_cubit_remote_delegate.dart).                                    *)
(*                                                                         *)
(* A host (a popup or an overlay) opens a session and sends inputs: it     *)
(* pushes and releases controls and turns encoders and pots.  The inputs   *)
(* of one connection are chained: each waits for its write, a request of   *)
(* the scheduler that is cancelled with its session, before the next       *)
(* starts.  Nothing on the device releases a control by itself, so a       *)
(* connection remembers the pushes that may have been delivered and        *)
(* releases them when their host has gone.                                 *)
(*                                                                         *)
(* Steps end where the code awaits.  A failed input starts its successor   *)
(* before the catch block of send runs, as both listen to one future.      *)
(* Turns carry no value: pots show the intended input only.  The call of   *)
(* _synchronize with the present state, with which most methods begin,     *)
(* changes nothing: each change of the state has called it already.        *)
(***************************************************************************)
EXTENDS Naturals, Sequences

CONSTANTS
    Control,        \* the controls that can be pushed
    NoControl,
    MaxScopes,      \* bound on the connections
    MaxSessions,    \* bound on the sessions
    MaxInputs,      \* bound on the inputs sent
    MaxChanges      \* bound on the changes of the cubit's state

ASSUME RemoteAssumption ==
    /\ NoControl \notin Control
    /\ {MaxScopes, MaxSessions, MaxInputs, MaxChanges} \subseteq Nat

\* MIDI managers are objects: they are numbered as the cubit comes to show them.
Manager == 1..MaxScopes
NoManager == 0

VARIABLES
    live,       \* the manager of the cubit's state, if it is a synchronized physical one
    retired,    \* _retiredManager: it is given up before the state changes
    ready,      \* _reason is null: remote control is available
    scopes,     \* the _RemoteConnectionScope objects, by their ids
    current,    \* the id of _connection, or 0
    sessions,   \* the _RemoteHostSession objects, in order
    session,    \* the index of _session, or 0
    raising,    \* the failed input whose catch block comes next
    told,       \* _error speaks of controls that may be held
    awaited,    \* the scope whose cleanup dispose waits for (_closing), or 0
    disposed,   \* _disposed
    wire,       \* for each connection, the controls it has left pushed
    inputs, changes

delegate == <<retired, ready, current, sessions, session, told>>
vars == <<live, delegate, scopes, raising, awaited, disposed, wire, inputs, changes>>

Op(kind, s, i) == [kind |-> kind, by |-> s, control |-> i]
Cleanup == Op("cleanup", 0, NoControl)

Ops == [kind : {"push", "release"}, by : 1..MaxSessions, control : Control]
         \cup [kind : {"turn"}, by : 1..MaxSessions, control : {NoControl}]
         \cup {Cleanup}

(***************************************************************************)
(* A connection: its chain (tail) with the progress of the first operation *)
(* and, of a cleanup, the pushes left to release, the one that is being    *)
(* released, whether one failed, and whether the cancellation it holds is  *)
(* cancelled.                                                              *)
(***************************************************************************)
NewScope(m) ==
    [manager |-> m, sent |-> {}, unconfirmed |-> FALSE, cancelled |-> FALSE,
     chain |-> <<>>, run |-> "idle", todo |-> {}, aim |-> NoControl,
     failed |-> FALSE, cut |-> FALSE]

\* Ghost state: who pushed each control, and the pushes given up as unknown.
Untouched == [down |-> [i \in Control |-> 0], lost |-> {}]

NoFailure == [by |-> 0, scope |-> 0, cancelled |-> FALSE, next |-> FALSE]

Init ==
    /\ live = NoManager /\ retired = NoManager /\ ready = FALSE
    /\ scopes = <<>> /\ current = 0 /\ sessions = <<>> /\ session = 0
    /\ raising = NoFailure /\ told = FALSE /\ awaited = 0 /\ disposed = FALSE
    /\ wire = <<>> /\ inputs = 0 /\ changes = 0

Idle == raising = NoFailure
IsCurrent(c) == ~disposed /\ current = c /\ ready
HostGone == session = 0 \/ sessions[session].cancelled

-----------------------------------------------------------------------------
(* Cancellation *)

\* A write that still waits in the scheduler is withdrawn.
StopWrite(sc) == IF sc.run = "queued" THEN [sc EXCEPT !.run = "cancelled"] ELSE sc

HeadOf(sc) == IF sc.chain = <<>> THEN Op("none", 0, NoControl) ELSE Head(sc.chain)

\* session.cancellation.cancel(): the session's input is withdrawn.
WithoutHost(scs) ==
    [c \in DOMAIN scs |->
        IF session # 0 /\ HeadOf(scs[c]).by = session THEN StopWrite(scs[c]) ELSE scs[c]]

\* connection.cancellation.cancel(): so is the release of a cleanup.
Severed(sc) ==
    [(IF HeadOf(sc) = Cleanup THEN [StopWrite(sc) EXCEPT !.cut = TRUE] ELSE sc)
        EXCEPT !.cancelled = TRUE]

HostCancelled ==
    [s \in DOMAIN sessions |->
        IF s = session THEN [sessions[s] EXCEPT !.cancelled = TRUE, !.held = {}]
        ELSE sessions[s]]

\* Variants named ...Slip are the next definition with a plausible mistake.
DropHostSlip == UNCHANGED <<session, sessions>>

\* Callbacks of the host are invalid from here on.
DropHost == session' = 0 /\ sessions' = HostCancelled

\* _detach: what the host and the connection have queued is withdrawn.
Detached(scs) ==
    IF current = 0 THEN scs ELSE [WithoutHost(scs) EXCEPT ![current] = Severed(@)]

OwingSlip == session # 0 /\ sessions[session].held # {}

\* The connection may leave controls pushed.
Owing == current # 0 /\ scopes[current].sent # {}

-----------------------------------------------------------------------------
(* Changes of the connection *)

\* _synchronize, when the state has another physical manager, or none
Replace(m, capable) ==
    /\ m # IF current = 0 THEN NoManager ELSE scopes[current].manager
    /\ DropHost
    /\ IF m = NoManager
       THEN /\ current' = 0 /\ scopes' = Detached(scopes)
            /\ told' = (told \/ Owing) /\ UNCHANGED wire
       ELSE /\ Len(scopes) < MaxScopes /\ current' = Len(scopes) + 1
            /\ scopes' = Append(Detached(scopes), [NewScope(m) EXCEPT !.cancelled = ~capable])
            /\ told' = FALSE /\ wire' = Append(wire, Untouched)

\* _synchronize, when the manager stays but cannot be controlled
LoseCapability ==
    /\ DropHost
    /\ IF current = 0 THEN UNCHANGED <<scopes, wire>>
       ELSE /\ scopes' = [Detached(scopes) EXCEPT ![current].sent = {}]
            /\ wire' = [wire EXCEPT ![current].lost = @ \cup scopes[current].sent]
    /\ told' = (told \/ Owing) /\ UNCHANGED current

\* _synchronize, when the manager stays and can be controlled: a cancellation
\* that is spent is replaced, and cleanups under way keep the one they took.
KeepCapability ==
    /\ scopes' = [scopes EXCEPT ![current].cancelled = FALSE]
    /\ UNCHANGED <<sessions, session, current, told, wire>>

(***************************************************************************)
(* The cubit emits a state: onDistingStateWillChange, hence _synchronize.  *)
(* A manager that clearConnection has retired is not taken back.           *)
(***************************************************************************)
Change(m, capable) ==
    /\ Idle /\ ~disposed /\ changes < MaxChanges /\ changes' = changes + 1
    /\ m <= Len(scopes) + 1 /\ (capable => m # NoManager)
    /\ live' = m
    /\ IF m # NoManager /\ m = retired THEN UNCHANGED <<delegate, scopes, wire>>
       ELSE /\ retired' = NoManager /\ ready' = capable
            /\ \/ Replace(m, capable)
               \/ /\ m = IF current = 0 THEN NoManager ELSE scopes[current].manager
                  /\ IF capable THEN KeepCapability ELSE LoseCapability
    /\ UNCHANGED <<raising, awaited, disposed, inputs>>

\* clearConnection
Clear ==
    /\ retired' = live /\ ready' = FALSE
    /\ current' = 0 /\ scopes' = Detached(scopes) /\ DropHost
    /\ told' = (told \/ Owing)

\* Disconnecting, going offline, or connecting anew: the state changes later.
GiveUp ==
    /\ Idle /\ ~disposed /\ Clear
    /\ changes < MaxChanges /\ changes' = changes + 1
    /\ UNCHANGED <<live, raising, awaited, disposed, wire, inputs>>

-----------------------------------------------------------------------------
(* Hosts *)

Chained(scs, c, op) == [scs EXCEPT ![c].chain = Append(@, op)]

\* closeSession up to its first await
CloseHost == Chained(WithoutHost(scopes), sessions[session].scope, Cleanup)

\* openSession.  A host that is replaced is closed; nobody waits for that.
Open ==
    /\ Idle /\ ~disposed /\ awaited = 0 /\ ready
    /\ ~scopes[current].unconfirmed
    /\ scopes[current].sent = {} \/ ~HostGone
    /\ Len(sessions) < MaxSessions
    /\ sessions' = Append(IF session = 0 THEN sessions ELSE HostCancelled,
                          [scope |-> current, held |-> {}, cancelled |-> FALSE])
    /\ session' = Len(sessions) + 1
    /\ scopes' = IF session = 0 THEN scopes ELSE CloseHost
    /\ UNCHANGED <<live, retired, ready, current, told, raising, awaited, disposed, wire,
                   inputs, changes>>

\* closeSession
Close ==
    /\ Idle /\ session # 0
    /\ scopes' = CloseHost /\ DropHost
    /\ UNCHANGED <<live, retired, ready, current, told, raising, awaited, disposed, wire,
                   inputs, changes>>

AcceptedBlindSlip(s) ==
    /\ ~disposed /\ awaited = 0 /\ ready
    /\ session = s /\ ~HostGone

AcceptedStaleSlip(s) ==
    /\ ~disposed /\ awaited = 0 /\ ready
    /\ ~scopes[current].unconfirmed
    /\ s # 0

\* _requireSession
Accepted(s) ==
    /\ ~disposed /\ awaited = 0 /\ ready
    /\ ~scopes[current].unconfirmed
    /\ session = s /\ ~HostGone

\* send up to its first await.  What repeats itself is ignored.
Send(kind, i) ==
    /\ Idle /\ inputs < MaxInputs /\ inputs' = inputs + 1
    /\ Accepted(session)
    /\ \/ /\ kind = "push" /\ i \notin sessions[session].held
          /\ sessions' = [sessions EXCEPT ![session].held = @ \cup {i}]
       \/ /\ kind = "release" /\ i \in sessions[session].held
          /\ sessions' = [sessions EXCEPT ![session].held = @ \ {i}]
       \/ kind = "turn" /\ UNCHANGED sessions
    /\ scopes' = Chained(scopes, sessions[session].scope, Op(kind, session, i))
    /\ UNCHANGED <<live, retired, ready, current, session, told, raising, awaited, disposed,
                   wire, changes>>

\* dispose waits for the cleanup of a host that is still there.
Dispose ==
    /\ Idle /\ ~disposed /\ awaited = 0
    /\ IF session = 0
       THEN Clear /\ disposed' = TRUE /\ UNCHANGED awaited
       ELSE /\ awaited' = sessions[session].scope
            /\ scopes' = CloseHost /\ DropHost
            /\ UNCHANGED <<retired, ready, current, told, disposed>>
    /\ UNCHANGED <<live, raising, wire, inputs, changes>>

\* The cleanup is the last operation of its chain: inputs are refused by now.
Disposed ==
    /\ Idle /\ awaited # 0 /\ scopes[awaited].chain = <<>>
    /\ Clear /\ disposed' = TRUE /\ awaited' = 0
    /\ UNCHANGED <<live, raising, wire, inputs, changes>>

-----------------------------------------------------------------------------
(* The chain of a connection *)

ShiftSlip(sc) ==
    [sc EXCEPT !.chain = IF sc.run = "failed" THEN <<>> ELSE Tail(@), !.run = "idle",
               !.todo = {}, !.aim = NoControl, !.failed = FALSE, !.cut = FALSE]

ShiftRunSlip(sc) ==
    [sc EXCEPT !.chain = Tail(@), !.todo = {}, !.aim = NoControl, !.failed = FALSE,
               !.cut = FALSE]

\* An operation ends, well or not, and the next may start.
Shift(sc) ==
    [sc EXCEPT !.chain = Tail(@), !.run = "idle", !.todo = {}, !.aim = NoControl,
               !.failed = FALSE, !.cut = FALSE]

\* _releasePushes ends; closeSession, or send, reports what failed.
EndCleanup(c, sc) ==
    /\ scopes' = [scopes EXCEPT ![c] = [Shift(sc) EXCEPT
            !.unconfirmed = sc.failed \/ (@ /\ sc.sent # {})]]
    /\ told' = (told \/ (sc.failed /\ IsCurrent(c)))

ReleaseOne(c, sc) ==
    /\ \E i \in sc.todo :
            scopes' = [scopes EXCEPT ![c] = [sc EXCEPT
                !.run = "queued", !.aim = i, !.todo = @ \ {i}]]
    /\ UNCHANGED told

NextReleaseSlip(c, sc) ==
    \/ sc.todo = {} /\ EndCleanup(c, sc)
    \/ IsCurrent(c) /\ ~sc.cut /\ ReleaseOne(c, sc)

\* The loop of _releasePushes: each push is released, also after a failure.
NextRelease(c, sc) ==
    IF sc.todo = {} \/ ~IsCurrent(c) \/ sc.cut
    THEN EndCleanup(c, sc) ELSE ReleaseOne(c, sc)

\* An input starts: a push is registered before it is attempted.
StartInput(c, sc, op) ==
    /\ scopes' = [scopes EXCEPT ![c] =
            IF ~Accepted(op.by) THEN [sc EXCEPT !.run = "failed"]
            ELSE [sc EXCEPT !.run = "queued", !.aim = op.control,
                            !.sent = IF op.kind = "push" THEN @ \cup {op.control} ELSE @]]
    /\ UNCHANGED told

\* _serialize: the operation that is first in the chain starts.
Start(c) ==
    LET sc == scopes[c] IN
    /\ sc.chain # <<>> /\ sc.run = "idle"
    /\ Idle \/ (raising.next /\ raising.scope = c)
    /\ raising' = [raising EXCEPT !.next = FALSE]
    /\ IF Head(sc.chain) = Cleanup
       THEN NextRelease(c, [sc EXCEPT !.todo = sc.sent, !.cut = sc.cancelled])
       ELSE StartInput(c, sc, Head(sc.chain))
    /\ UNCHANGED <<live, retired, ready, current, sessions, session, awaited, disposed, wire,
                   inputs, changes>>

\* The scheduler writes the message, whose writer may throw all the same.
Deliver(c, outcome) ==
    LET sc == scopes[c]
        op == Head(sc.chain)
    IN  /\ Idle /\ sc.run = "queued" /\ outcome \in {"written", "failed"}
        /\ scopes' = [scopes EXCEPT ![c].run = outcome]
        /\ wire' = IF op.kind = "turn" THEN wire
                   ELSE [wire EXCEPT ![c].down[sc.aim] = IF op.kind = "push" THEN op.by ELSE 0,
                                     ![c].lost = @ \ {sc.aim}]
        /\ UNCHANGED <<live, delegate, raising, awaited, disposed, inputs, changes>>

\* The writer throws, and nothing was delivered.
Fail(c) ==
    /\ Idle /\ scopes[c].run = "queued"
    /\ scopes' = [scopes EXCEPT ![c].run = "failed"]
    /\ UNCHANGED <<live, delegate, raising, awaited, disposed, wire, inputs, changes>>

Returned(c) == scopes[c].run \in {"written", "failed", "cancelled"}

ConfirmedSlip(sc) == [sc EXCEPT !.sent = @ \ {sc.aim}]

\* Only a successful write ends the obligation to release a push.
Confirmed(sc) ==
    IF sc.run = "written" THEN [sc EXCEPT !.sent = @ \ {sc.aim}] ELSE sc

\* send goes on after its write: an error leads to its catch block.
InputReturns(c) ==
    LET sc == scopes[c]
        op == Head(sc.chain)
    IN  /\ Idle /\ Returned(c) /\ op # Cleanup
        /\ scopes' = [scopes EXCEPT ![c] =
                Shift(IF op.kind = "release" /\ IsCurrent(c) THEN Confirmed(sc) ELSE sc)]
        /\ raising' = IF sc.run = "written" THEN NoFailure
                      ELSE [by |-> op.by, scope |-> c, cancelled |-> sc.run = "cancelled",
                            next |-> Len(sc.chain) > 1]
        /\ UNCHANGED <<live, delegate, awaited, disposed, wire, inputs, changes>>

\* _releasePushes goes on after a release.
ReleaseReturns(c) ==
    LET sc == scopes[c] IN
    /\ Idle /\ Returned(c) /\ Head(sc.chain) = Cleanup
    /\ NextRelease(c, [Confirmed(sc) EXCEPT !.failed = @ \/ sc.run # "written"])
    /\ UNCHANGED <<live, retired, ready, current, sessions, session, raising, awaited, disposed,
                   wire, inputs, changes>>

\* The catch block of send: the host is cut off and its pushes are released.
Catch ==
    /\ ~Idle /\ ~raising.next /\ raising' = NoFailure
    /\ IF /\ session = raising.by /\ ~HostGone
          /\ IsCurrent(raising.scope) /\ ~raising.cancelled
       THEN /\ told' = TRUE /\ sessions' = HostCancelled
            /\ scopes' = Chained(WithoutHost(scopes), raising.scope, Cleanup)
       ELSE UNCHANGED <<told, sessions, scopes>>
    /\ UNCHANGED <<live, retired, ready, current, session, awaited, disposed, wire, inputs,
                   changes>>

-----------------------------------------------------------------------------
Input ==
    \/ \E i \in Control : Send("push", i) \/ Send("release", i)
    \/ Send("turn", NoControl)

\* The first operation of a chain goes on.
Proceed(c) ==
    \/ Start(c) \/ Fail(c) \/ InputReturns(c) \/ ReleaseReturns(c)
    \/ \E outcome \in {"written", "failed"} : Deliver(c, outcome)

Next ==
    \/ \E m \in Manager \cup {NoManager}, capable \in BOOLEAN : Change(m, capable)
    \/ GiveUp \/ Open \/ Close \/ Input \/ Dispose \/ Disposed \/ Catch
    \/ \E c \in DOMAIN scopes : Proceed(c)

Spec == Init /\ [][Next]_vars

\* What has started goes on: futures complete, and the scheduler settles every
\* request (EveryRequestSettles, MessageScheduler), one way or the other.
Fairness ==
    /\ WF_vars(Disposed) /\ WF_vars(Catch)
    /\ \A c \in 1..MaxScopes : WF_vars(c \in DOMAIN scopes /\ Proceed(c))

FairSpec == Spec /\ Fairness

-----------------------------------------------------------------------------
(* Properties *)

\* Types of the state; an operation that runs is the first of its chain.
TypeOK ==
    /\ live \in Manager \cup {NoManager} /\ retired \in Manager \cup {NoManager}
    /\ {ready, told, disposed} \subseteq BOOLEAN
    /\ current \in 0..Len(scopes) /\ awaited \in 0..Len(scopes)
    /\ session \in 0..Len(sessions) /\ raising.by \in 0..Len(sessions)
    /\ \A c \in DOMAIN scopes :
        LET sc == scopes[c] IN
        /\ sc.manager \in Manager /\ sc.chain \in Seq(Ops)
        /\ {sc.unconfirmed, sc.cancelled, sc.failed, sc.cut} \subseteq BOOLEAN
        /\ sc.sent \subseteq Control /\ sc.todo \subseteq Control
        /\ sc.run \in {"idle", "queued", "written", "failed", "cancelled"}
        /\ sc.chain = <<>> => sc.run = "idle"
        /\ sc.run = "idle" => sc.aim = NoControl
    /\ \A s \in DOMAIN sessions :
        /\ sessions[s].scope \in DOMAIN scopes /\ sessions[s].held \subseteq Control
        /\ sessions[s].cancelled \in BOOLEAN
    /\ DOMAIN wire = DOMAIN scopes

\* A host can act only while its own connection is the one the cubit shows,
\* can be controlled, and has not been given up (_synchronize, _detach).
LiveHostIsConnected ==
    ~HostGone => LET c == sessions[session].scope IN
        /\ ready /\ ~disposed /\ current = c
        /\ scopes[c].manager = live /\ retired # live /\ ~scopes[c].cancelled

\* "Invalidates host callbacks immediately, cancels its queued actions": an
\* input that may still be written is one of the host that is live now.
OnlyTheHostActs ==
    \A c \in DOMAIN scopes :
        scopes[c].run = "queued" /\ Head(scopes[c].chain) # Cleanup
            => session = Head(scopes[c].chain).by /\ ~HostGone

\* "Cleanup is serialized ahead of the replacement host's inputs": when an input
\* of a host is written, the controls that are down are its own, but for those
\* whose loss was reported when the connection could no longer be controlled.
HostsDoNotMix ==
    \A c \in DOMAIN scopes :
        scopes[c].run = "queued" /\ Head(scopes[c].chain) # Cleanup
            => \A i \in Control \ wire[c].lost :
                wire[c].down[i] \in {0, Head(scopes[c].chain).by}

\* sentPushes "Includes pushes whose writer threw after delivery may have
\* occurred": a control that is down is still to be released, or given up.
HoldsAreOwed ==
    \A c \in DOMAIN scopes, i \in Control :
        wire[c].down[i] # 0 => i \in scopes[c].sent \cup wire[c].lost

\* Controls that stay down when the connection ends, or can no longer be
\* controlled, are reported until the next connection (_error).
LossIsReported ==
    LET c == Len(scopes) IN
    \A i \in Control :
        c # 0 /\ wire[c].down[i] # 0 /\ (current # c \/ i \in wire[c].lost) => told

\* Pushes without a host are released, or it is known that they may not be, or
\* the connection is gone (closeSession, the catch block of send).
Orphaned ==
    /\ current # 0 /\ HostGone
    /\ \E i \in Control \ wire[current].lost : wire[current].down[i] # 0

HoldsAreReleased == Orphaned ~> (~Orphaned \/ scopes[current].unconfirmed)

\* dispose, which waits for the cleanup of the host, ends.
ShutdownCompletes == (awaited # 0) ~> disposed

\* "retaining failed indices for a later close attempt": while a release has
\* failed and nothing is under way, there is a session left to close.
FailedReleaseCanBeRetried ==
    ~disposed /\ ready /\ scopes[current].unconfirmed /\ scopes[current].sent # {}
      /\ scopes[current].chain = <<>> /\ Idle => session # 0
=============================================================================
