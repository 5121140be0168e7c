--------------------------- MODULE MessageScheduler ---------------------------
(***************************************************************************)
(* The sequential request scheduler: lib/domain/disting_message_scheduler  *)
(* .dart, with the wire and the device it talks to.                        *)
(*                                                                         *)
(* Requests are sent one at a time over a lossy channel without            *)
(* transaction identifiers.  Three kinds of timers drive it (the pace      *)
(* timer between requests, the retry timer and the timeout of the current  *)
(* request), all on one event loop: every callback is one atomic step, and *)
(* the model's nondeterminism is the order in which callbacks run.  A      *)
(* manager can be disposed and replaced at any time; what survives is the  *)
(* wire and the response-debt tracker shared by all schedulers of one MIDI *)
(* endpoint.                                                               *)
(***************************************************************************)
EXTENDS RequestKeys, Sequences, FiniteSets

CONSTANTS
    Req,        \* requests, each submitted at most once
    NoReq,      \* the null request
    NoFrame,    \* no frame is being buffered
    Kind,       \* the ways callers submit a request (see KindAssumption)
    Recovery    \* _maxConsecutiveTimeoutsBeforeRecovery

Policy == {"bestEffort", "failWhenAmbiguous", "rejectAmbiguousResponse"}

KindType ==
    [key : Key, policy : Policy, expect : {"none", "optional", "required"},
     retries : Nat, delayed : BOOLEAN, cancellable : BOOLEAN, raw : BOOLEAN]

\* The keys whose replies the debt tracker accounts for.
TrackedKeys == AlgorithmKeys \cup MemoryKeys

ASSUME ReqAssumption == NoReq \notin Req /\ NoFrame \notin Key /\ Recovery \in Nat \ {0}

(***************************************************************************)
(* What disting_midi_manager.dart submits.  Only requestAlgorithmGuid and  *)
(* requestMemoryUsage use a strict policy; both always expect a reply.     *)
(* Every 0x40 read and every memory query is therefore tracked.  Only      *)
(* single-attempt requests are given a cancellation.                       *)
(***************************************************************************)
ASSUME KindAssumption ==
    /\ Kind \subseteq KindType
    /\ \A k \in Kind :
         /\ k.policy = "rejectAmbiguousResponse" => k.key \in AlgorithmKeys
         /\ k.policy = "failWhenAmbiguous" <=> k.key \in MemoryKeys
         /\ k.key \in TrackedKeys => k.expect = "required" /\ ~k.raw
         /\ k.raw => k.key \in UntypedKeys /\ k.expect = "required"
         /\ k.expect # "none" => k.raw \/ k.key \notin UntypedKeys
         /\ k.cancellable => k.retries <= 1

VARIABLES
    mode,         \* _state: "idle", "sending" or "waiting"
    queue,        \* _queue
    current,      \* _currentRequest
    handler,      \* the request whose handler the demultiplexer holds
    pace,         \* _nextProcessTimer is armed
    retry,        \* _retryTimer is armed
    orphans,      \* requests with an armed retry timer _retryTimer lost sight of
    timeout,      \* the current request's timeoutTimer is armed
    frame,        \* the key the split SysEx frame in _sysExBuffer answers
    listening,    \* the subscription to the MIDI stream is alive
    streak,       \* _consecutiveTimeouts
    acct,         \* the counters of the current request
    strictActive, \* _activeRequest of the shared tracker
    ledger,       \* the shared debt and the replies in transit
    open,         \* a manager exists
    kind,         \* how each request is submitted, if it ever is (never changes)
    call,         \* has sendRequest been called for it, and with a live token?
    outcome       \* how its completer was completed, "open" until it is

machine == <<mode, queue, current, handler, pace, retry, orphans, timeout, acct>>
vars == <<machine, frame, listening, streak, strictActive, ledger, open, kind, call, outcome>>

NoAcct  == [attempts |-> 0, recoveries |-> 0, sent |-> 0, matched |-> 0]
Final   == {"reply", "stale", "null", "failed", "timedOut", "ambiguous",
            "cancelled", "disposed"}

(***************************************************************************)
(* ledger.strict and ledger.best count the debt entries of each key, by    *)
(* fromBestEffortRequest.  ledger.fresh counts the replies in transit that *)
(* the current request provoked, ledger.late those that earlier requests   *)
(* provoked, and ledger.half says which of the two the frame in the buffer *)
(* is.  These three are facts about the wire, not program state.           *)
(***************************************************************************)
NoLedger == [fresh |-> 0, half |-> FALSE, late |-> [k \in Key |-> 0],
             strict |-> [k \in Key |-> 0], best |-> [k \in Key |-> 0]]

KeyOf(r)   == kind[r].key
Strict(r)  == kind[r].policy # "bestEffort"
Tracked(r) == kind[r].expect # "none" /\ (Strict(r) \/ KeyOf(r) \in AlgorithmKeys)
Counted(r) == IF Tracked(r) THEN 1 ELSE 0
Silent(r)  == kind[r].raw \/ kind[r].expect = "none"
Debt(l, k) == l.strict[k] + l.best[k]
Unframed(l) == [l EXCEPT !.half = FALSE]

Init ==
    /\ mode = "idle" /\ queue = <<>> /\ current = NoReq /\ handler = NoReq
    /\ pace = FALSE /\ retry = FALSE /\ orphans = {} /\ timeout = FALSE
    /\ frame = NoFrame /\ listening = TRUE /\ streak = 0
    /\ acct = NoAcct /\ strictActive = NoReq /\ ledger = NoLedger
    /\ open = TRUE
    /\ kind \in [Req -> Kind]
    /\ call = [r \in Req |-> "none"]
    /\ outcome = [r \in Req |-> "open"]

-----------------------------------------------------------------------------
(***************************************************************************)
(* The pieces handlers are made of.  a and l are the request's counters    *)
(* and the ledger as the handler has left them so far.                     *)
(***************************************************************************)

\* Variants named ...Slip are the next definition with a plausible mistake; no
\* action uses them.  They show that the properties notice the mistake.
FoldSwapSlip(r, a, l) ==
    LET owed == IF Tracked(r) /\ a.sent > a.matched THEN a.matched - a.sent ELSE 0 IN
    [l EXCEPT !.late[KeyOf(r)] = @ + l.fresh, !.fresh = 0, !.half = FALSE,
              !.strict[KeyOf(r)] = IF Strict(r) THEN @ + owed ELSE @,
              !.best[KeyOf(r)] = IF Strict(r) THEN @ ELSE @ + owed]

FoldSlip(r, a, l) ==
    [l EXCEPT !.late[KeyOf(r)] = @ + l.fresh, !.fresh = 0, !.half = FALSE]

\* _StrictResponseAttribution.finish: what was sent and not answered is owed.
Fold(r, a, l) ==
    LET owed == IF Tracked(r) /\ a.sent > a.matched THEN a.sent - a.matched ELSE 0
        k    == KeyOf(r)
    IN  [fresh  |-> 0,
         half   |-> FALSE,
         late   |-> [l.late EXCEPT ![k] = @ + l.fresh],
         strict |-> IF Strict(r) THEN [l.strict EXCEPT ![k] = @ + owed] ELSE l.strict,
         best   |-> IF Strict(r) THEN l.best ELSE [l.best EXCEPT ![k] = @ + owed]]

\* _processNext has cancelled the pace timer before it makes a request current.
PaceLeft == pace /\ current # NoReq

PacedSlip == PaceLeft
\* _finishCurrentRequest arms the pace timer when requests are waiting.
Paced == PaceLeft \/ queue' # <<>>

\* The completer is completed with out, then _finishCurrentRequest runs.
Finish(r, a, l, out) ==
    /\ outcome' = [outcome EXCEPT ![r] = out]
    /\ ledger' = Fold(r, a, l)
    /\ strictActive' = IF strictActive = r THEN NoReq ELSE strictActive
    /\ current' = NoReq /\ mode' = "idle" /\ acct' = NoAcct
    /\ timeout' = FALSE /\ retry' = FALSE
    /\ pace' = Paced

Stay(r) == current' = r /\ pace' = PaceLeft /\ UNCHANGED outcome

(***************************************************************************)
(* _sendCurrentRequest and _handleSendFailure.  With a zero retry delay a  *)
(* failed sendData is repeated at once, so one call may use up several     *)
(* attempts; otherwise the retry timer is armed.                           *)
(***************************************************************************)
Refused(r, l) ==
    /\ Strict(r) /\ strictActive # r
    /\ \/ strictActive # NoReq
       \/ kind[r].policy = "failWhenAmbiguous" /\ Debt(l, KeyOf(r)) > 0

LastTrySlip(r, a) == kind[r].retries + 1
LastTry(r, a) == IF a.attempts < kind[r].retries THEN kind[r].retries ELSE a.attempts + 1

Tries(r, a) == IF kind[r].delayed THEN {a.attempts + 1}
                                  ELSE (a.attempts + 1)..LastTry(r, a)

RegisteredSlip(r) == IF kind[r].expect = "none" THEN handler ELSE r
Registered(r) == IF Silent(r) THEN handler ELSE r

Transmit(r, a, l, n) ==
    IF kind[r].expect = "none"
    THEN Finish(r, a, l, "null") /\ UNCHANGED handler
    ELSE /\ Stay(r)
         /\ mode' = "waiting" /\ timeout' = TRUE /\ retry' = FALSE
         /\ handler' = Registered(r)
         /\ strictActive' = IF Strict(r) THEN r ELSE strictActive
         /\ acct' = [a EXCEPT !.attempts = n, !.sent = @ + Counted(r)]
         /\ ledger' = [l EXCEPT !.fresh = @ + 1]

SendFails(r, a, l) ==
    IF kind[r].delayed /\ a.attempts + 1 < kind[r].retries
    THEN /\ Stay(r)
         /\ mode' = "sending" /\ retry' = TRUE /\ UNCHANGED timeout
         /\ handler' = Registered(r)
         /\ strictActive' = IF Strict(r) THEN r ELSE strictActive
         /\ acct' = [a EXCEPT !.attempts = @ + 1]
         /\ ledger' = l
    ELSE Finish(r, a, l, "failed") /\ handler' = NoReq

Send(r, a, l) ==
    IF Refused(r, l)
    THEN Finish(r, a, l, "ambiguous") /\ UNCHANGED handler
    ELSE \/ \E n \in Tries(r, a) : Transmit(r, a, l, n)
         \/ SendFails(r, a, l)

ArmRetrySlip(r, a, l) ==
    /\ Stay(r)
    /\ mode' = "sending" /\ retry' = retry /\ timeout' = FALSE
    /\ acct' = a /\ ledger' = l
    /\ UNCHANGED <<orphans, strictActive>>

\* Assigning _retryTimer does not cancel the timer it held.
ArmRetry(r, a, l) ==
    /\ Stay(r)
    /\ mode' = "sending" /\ retry' = TRUE /\ timeout' = FALSE
    /\ orphans' = IF retry THEN orphans \cup {r} ELSE orphans
    /\ acct' = a /\ ledger' = l
    /\ UNCHANGED strictActive

\* Resend at once or after the retry delay; a registered handler stays.
Resend(r, a, l) ==
    IF kind[r].delayed
    THEN ArmRetry(r, a, l)
    ELSE Send(r, a, l) /\ UNCHANGED orphans

ProcessNextSlip(q) ==
    IF mode = "idle" /\ q # <<>>
    THEN queue' = SubSeq(q, 1, Len(q) - 1) /\ Send(q[Len(q)], NoAcct, ledger)
    ELSE queue' = q /\ UNCHANGED <<mode, current, handler, pace, retry, timeout,
                                   acct, strictActive, ledger, outcome>>

\* _processNext: a manager that is idle takes the head of q at once.
ProcessNext(q) ==
    IF mode = "idle" /\ q # <<>>
    THEN /\ queue' = Tail(q)
         /\ Send(Head(q), NoAcct, ledger)
    ELSE /\ queue' = q
         /\ pace' = (pace /\ mode # "idle")
         /\ UNCHANGED <<mode, current, handler, retry, timeout, acct,
                        strictActive, ledger, outcome>>

-----------------------------------------------------------------------------
(* The callers' operations *)

\* sendRequest
Submit(r) ==
    /\ open /\ call[r] = "none"
    /\ call' = [call EXCEPT ![r] = "submitted"]
    /\ ProcessNext(Append(queue, r))
    /\ UNCHANGED <<orphans, frame, listening, streak, open, kind>>

\* sendRequest with a token that is already cancelled: addListener runs the
\* listener at once, which takes the request out of the queue again.
SubmitCancelled(r) ==
    /\ open /\ call[r] = "none" /\ kind[r].cancellable
    /\ call' = [call EXCEPT ![r] = "cancelled"]
    /\ ProcessNext(queue)
    /\ UNCHANGED <<orphans, frame, listening, streak, open, kind>>

InQueue(r) == \E i \in DOMAIN queue : queue[i] = r
Without(q, i) == [j \in 1..(Len(q) - 1) |-> IF j < i THEN q[j] ELSE q[j + 1]]

\* _cancelRequest, called by DistingRequestCancellation.cancel
Cancel(r) ==
    /\ kind[r].cancellable /\ outcome[r] = "open"
    /\ \/ /\ current = r
          /\ frame' = NoFrame /\ handler' = NoReq
          /\ UNCHANGED queue
          /\ Finish(r, acct, Unframed(ledger), "cancelled")
       \/ /\ \E i \in DOMAIN queue : queue[i] = r /\ queue' = Without(queue, i)
          /\ outcome' = [outcome EXCEPT ![r] = "cancelled"]
          /\ UNCHANGED <<mode, current, handler, pace, retry, timeout, acct,
                         frame, strictActive, ledger>>
    /\ UNCHANGED <<orphans, listening, streak, open, kind, call>>

\* dispose: the current and all queued requests fail, the debt is kept.  The
\* retry timers that were lost sight of fire on a scheduler without requests.
Dispose ==
    /\ open /\ open' = FALSE
    /\ outcome' = [r \in Req |->
                     IF r = current \/ InQueue(r) THEN "disposed" ELSE outcome[r]]
    /\ ledger' = IF current = NoReq THEN ledger ELSE Fold(current, acct, ledger)
    /\ strictActive' = IF strictActive = current THEN NoReq ELSE strictActive
    /\ mode' = "idle" /\ queue' = <<>> /\ current' = NoReq /\ handler' = NoReq
    /\ pace' = FALSE /\ retry' = FALSE /\ orphans' = {} /\ timeout' = FALSE
    /\ frame' = NoFrame /\ listening' = FALSE /\ streak' = 0 /\ acct' = NoAcct
    /\ UNCHANGED <<kind, call>>

\* A new manager for the same endpoint: the constructor subscribes again.
Replace ==
    /\ ~open /\ open' = TRUE /\ listening' = TRUE
    /\ UNCHANGED <<machine, frame, streak, strictActive, ledger, kind, call, outcome>>

-----------------------------------------------------------------------------
(* The timers *)

PaceTimer ==
    /\ pace
    /\ ProcessNext(queue)
    /\ UNCHANGED <<orphans, frame, listening, streak, open, kind, call>>

\* Timers of one request have the same delay, so the older one fires first.
RetryTimer ==
    /\ retry /\ current \notin orphans
    /\ UNCHANGED <<queue, orphans, frame, listening, streak, open, kind, call>>
    /\ Send(current, acct, ledger)

\* _sendCurrentRequest called by a timer armed for a request that may be gone
OrphanTimer(r) ==
    /\ r \in orphans /\ orphans' = orphans \ {r}
    /\ UNCHANGED <<queue, frame, listening, streak, open, kind, call>>
    /\ IF current # NoReq
       THEN Send(current, acct, ledger)
       ELSE /\ mode' = "idle" /\ retry' = FALSE
            /\ pace' = (pace \/ queue # <<>>)
            /\ UNCHANGED <<current, handler, timeout, acct, strictActive, ledger, outcome>>

\* _onTimeout; the last consecutive one that makes Recovery of them runs
\* _resetInternalState.
Timeout ==
    /\ timeout
    /\ frame' = NoFrame
    /\ IF acct.attempts >= kind[current].retries
       THEN /\ handler' = NoReq
            /\ streak' = (streak + 1) % Recovery
            /\ listening' = (listening \/ streak + 1 = Recovery)
            /\ UNCHANGED <<queue, orphans>>
            /\ Finish(current, acct, Unframed(ledger),
                      IF kind[current].expect = "required" THEN "timedOut" ELSE "null")
       ELSE /\ UNCHANGED <<queue, streak, listening>>
            /\ Resend(current, acct, Unframed(ledger))
            /\ kind[current].delayed => UNCHANGED handler
    /\ UNCHANGED <<open, kind, call>>

-----------------------------------------------------------------------------
(***************************************************************************)
(* Incoming traffic.  A reply m is own when the current request provoked   *)
(* it; l is the ledger once m has left the wire.                           *)
(***************************************************************************)

\* onAmbiguous, _onResponseAttributionAmbiguous
RejectCurrent(l) ==
    IF handler # NoReq
    THEN UNCHANGED queue /\ Finish(current, acct, l, "ambiguous")
    ELSE /\ ledger' = l
         /\ UNCHANGED <<queue, mode, current, pace, retry, timeout, acct,
                        strictActive, outcome>>

\* The ledgers after removeAt of one debt entry that matches m
Settled(m, l, best) ==
    LET Hit == {k \in Key : MatchesStrict(k, m)} IN
    {[l EXCEPT !.strict[k] = @ - 1] : k \in {h \in Hit : l.strict[h] > 0}}
      \cup {[l EXCEPT !.best[k] = @ - 1] : k \in {h \in Hit : best /\ l.best[h] > 0}}

ForStrict(m) == strictActive # NoReq /\ MatchesStrict(KeyOf(strictActive), m)

AmbiguousSlip(m, l) ==
    /\ ForStrict(m)
    /\ kind[strictActive].policy = "rejectAmbiguousResponse"
    /\ Settled(m, l, FALSE) # {}

Ambiguous(m, l) ==
    /\ ForStrict(m)
    /\ kind[strictActive].policy = "rejectAmbiguousResponse"
    /\ Settled(m, l, TRUE) # {}

HandlerMatches(m) == handler # NoReq /\ Matches(KeyOf(handler), m)

Drains(m, l) == ~ForStrict(m) /\ Settled(m, l, ~HandlerMatches(m)) # {}

\* _onResponseMatched: the reply is an error, parses, or does not parse.
Answered(r, m, own, l) ==
    LET a == [acct EXCEPT !.matched = @ + Counted(r)]
        Done(out) == Finish(r, a, l, out) /\ handler' = NoReq /\ UNCHANGED orphans
    IN  IF m.sdError THEN Done("failed")
        ELSE \/ Done(IF own THEN "reply" ELSE "stale")
             \/ kind[r].expect = "optional" /\ Done("null")
             \/ /\ kind[r].expect = "required"
                /\ \/ acct.attempts >= kind[r].retries
                   \/ KeyOf(r) \in PagesKeys
                /\ Done("failed")
             \/ /\ kind[r].expect = "required"
                /\ acct.attempts < kind[r].retries
                /\ Resend(r, a, l)
                /\ kind[r].delayed => handler' = NoReq

\* _ResponseDemux.dispatch
Dispatch(m, own, l) ==
    IF Ambiguous(m, l)
    THEN /\ \E after \in Settled(m, l, TRUE) : RejectCurrent(after)
         /\ handler' = NoReq /\ UNCHANGED <<orphans, streak>>
    ELSE IF Drains(m, l)
    THEN /\ ledger' \in Settled(m, l, ~HandlerMatches(m))
         /\ UNCHANGED <<machine, streak, strictActive, outcome>>
    ELSE IF HandlerMatches(m)
    THEN streak' = 0 /\ UNCHANGED queue /\ Answered(handler, m, own, l)
    ELSE ledger' = l /\ UNCHANGED <<machine, streak, strictActive, outcome>>

\* A plug-in reply carries its own identity: it is recognised before decoding.
PluginReply(l) ==
    /\ streak' = 0
    /\ UNCHANGED <<queue, handler, orphans>>
    /\ Finish(current, acct, l, "reply")

\* _dispatchSysEx
Receive(k, own, l) ==
    IF own /\ kind[current].raw
    THEN PluginReply(l)
    ELSE \E m \in Replies(k) : Dispatch(m, own, l)

InTransit(k, own) ==
    IF own THEN current # NoReq /\ KeyOf(current) = k /\ ledger.fresh > 0
           ELSE ledger.late[k] > 0

Taken(k, own) == IF own THEN [ledger EXCEPT !.fresh = @ - 1]
                        ELSE [ledger EXCEPT !.late[k] = @ - 1]

\* _handleIncoming on a whole frame: its F0 discards a frame being buffered.
Deliver(k, own) ==
    /\ open /\ listening /\ InTransit(k, own)
    /\ frame' = NoFrame
    /\ Receive(k, own, Unframed(Taken(k, own)))
    /\ UNCHANGED <<listening, open, kind, call>>

\* _handleIncoming on the first packet of a split frame
FirstPart(k, own) ==
    /\ open /\ listening /\ InTransit(k, own)
    /\ frame' = k
    /\ ledger' = [Taken(k, own) EXCEPT !.half = own]
    /\ UNCHANGED <<machine, listening, streak, strictActive, open, kind, call, outcome>>

\* _handleIncoming on the packet that ends it
LastPart ==
    /\ open /\ listening /\ frame # NoFrame
    /\ frame' = NoFrame
    /\ Receive(frame, ledger.half, Unframed(ledger))
    /\ UNCHANGED <<listening, open, kind, call>>

Lose(k, own) ==
    /\ InTransit(k, own)
    /\ ledger' = Taken(k, own)
    /\ UNCHANGED <<machine, frame, listening, streak, strictActive, open, kind, call, outcome>>

\* _handleSubscriptionError where it does something: the frame is unusable and
\* the request is sent once more, outside its attempt budget.
StreamError ==
    /\ open /\ listening
    /\ mode = "waiting" /\ frame # NoFrame
    /\ ~kind[current].raw /\ acct.recoveries < 1
    /\ frame' = NoFrame
    /\ UNCHANGED queue
    /\ Resend(current, [acct EXCEPT !.recoveries = @ + 1], Unframed(ledger))
    /\ kind[current].delayed => UNCHANGED handler
    /\ UNCHANGED <<listening, streak, open, kind, call>>

\* _handleSubscriptionDone
StreamDone ==
    /\ open /\ listening /\ listening' = FALSE
    /\ UNCHANGED <<machine, frame, streak, strictActive, ledger, open, kind, call, outcome>>

-----------------------------------------------------------------------------
Timers == PaceTimer \/ RetryTimer \/ (\E r \in Req : OrphanTimer(r)) \/ Timeout

Callers == \/ \E r \in Req : Submit(r) \/ SubmitCancelled(r) \/ Cancel(r)
           \/ Dispose \/ Replace

Traffic == \/ \E k \in Key, own \in BOOLEAN :
                Deliver(k, own) \/ FirstPart(k, own) \/ Lose(k, own)
           \/ LastPart \/ StreamError \/ StreamDone

Next == Timers \/ Callers \/ Traffic

Spec == Init /\ [][Next]_vars

\* The event loop runs every armed timer; callers, device and wire owe nothing.
Fairness ==
    /\ WF_vars(PaceTimer) /\ WF_vars(RetryTimer) /\ WF_vars(Timeout)
    /\ \A r \in Req : WF_vars(OrphanTimer(r))

FairSpec == Spec /\ Fairness

-----------------------------------------------------------------------------
(* Properties *)

\* Every variable has the type its declaration in the code gives it.
TypeOK ==
    /\ mode \in {"idle", "sending", "waiting"}
    /\ queue \in Seq(Req) /\ current \in Req \cup {NoReq}
    /\ handler \in Req \cup {NoReq} /\ strictActive \in Req \cup {NoReq}
    /\ pace \in BOOLEAN /\ retry \in BOOLEAN /\ timeout \in BOOLEAN
    /\ orphans \in SUBSET Req
    /\ frame \in Key \cup {NoFrame}
    /\ listening \in BOOLEAN /\ open \in BOOLEAN /\ streak \in 0..(Recovery - 1)
    /\ acct \in [attempts : Nat, recoveries : 0..1, sent : Nat, matched : Nat]
    /\ ledger \in [fresh : Nat, half : BOOLEAN, late : [Key -> Nat],
                   strict : [Key -> Nat], best : [Key -> Nat]]
    /\ kind \in [Req -> Kind]
    /\ call \in [Req -> {"none", "submitted", "cancelled"}]
    /\ outcome \in [Req -> Final \cup {"open"}]

(***************************************************************************)
(* A strict request is never completed with a reply that an earlier        *)
(* request provoked, although the two are indistinguishable on the wire    *)
(* and the earlier one may have belonged to a manager since replaced.      *)
(***************************************************************************)
StrictAttribution == \A r \in Req : outcome[r] = "stale" => ~Strict(r)

\* The replies on the wire: of earlier requests for k, and of the current one
Late(l, f, k)  == l.late[k] + (IF f = k /\ ~l.half THEN 1 ELSE 0)
Fresh(l, f)    == l.fresh + (IF f # NoFrame /\ l.half THEN 1 ELSE 0)

(***************************************************************************)
(* The debt tracker never forgets a reply: for every tracked key, the      *)
(* replies of earlier requests still on the wire, the half-received one    *)
(* included, are at most the debt entries, and while a best-effort request *)
(* for the key is current the two sides include its own traffic.           *)
(***************************************************************************)
DebtCoversTransit ==
    \A k \in TrackedKeys :
        IF current = NoReq \/ KeyOf(current) # k
        THEN Late(ledger, frame, k) <= Debt(ledger, k)
        ELSE Late(ledger, frame, k) + Fresh(ledger, frame)
               <= Debt(ledger, k) + acct.sent - acct.matched

(***************************************************************************)
(* No request waits for a callback that will never come: a request waiting *)
(* for a reply has its timeout armed, one waiting to be sent again a retry *)
(* timer, a queue behind an idle scheduler the pace timer, and every       *)
(* request that was submitted and not completed is queued or current.      *)
(***************************************************************************)
NeverStranded ==
    /\ mode = "waiting" => timeout
    /\ mode = "sending" => retry \/ current \in orphans
    /\ mode = "idle" /\ queue # <<>> => pace
    /\ \A r \in Req : call[r] = "submitted" /\ outcome[r] = "open"
                        => r = current \/ InQueue(r)

(***************************************************************************)
(* A handler or a retry timer never outlives its request, so neither a     *)
(* late reply nor a late timer is taken for the next request's: the race   *)
(* the guards in _onResponseMatched and _onTimeout are there for.          *)
(***************************************************************************)
NothingOutlivesItsRequest ==
    /\ handler \in {NoReq, current} /\ orphans \subseteq {current}
    /\ current = NoReq <=> mode = "idle"
    /\ timeout \/ retry => current # NoReq

(***************************************************************************)
(* Retries stay within the caller's budget, in particular a plug-in or     *)
(* SD-card write is transmitted once: only a frame broken by a stream      *)
(* error adds a transmission, once, and never to a plug-in request.        *)
(***************************************************************************)
SendBudget ==
    current # NoReq =>
        /\ acct.attempts <= acct.recoveries
             + (IF kind[current].retries = 0 THEN 1 ELSE kind[current].retries)
        /\ kind[current].raw => acct.recoveries = 0
        /\ ledger.fresh <= acct.attempts

\* Every request that was submitted is completed, whatever the device does.
EveryRequestSettles ==
    \A r \in Req : call[r] = "submitted" ~> outcome[r] # "open"

\* Callers see a first-in first-out line in which only the head is served.
Line == INSTANCE RequestLine WITH
            line <- IF current = NoReq THEN queue ELSE <<current>> \o queue,
            outcome <- outcome,
            called <- {r \in Req : call[r] # "none"}

ImplementsLine == Line!Spec
=============================================================================
