----------------------------- MODULE ParameterEdit -----------------------------
(***************************************************************************)
(* Editing parameter values: ParameterUpdateQueue (lib/domain/parameter_   *)
(* update_queue.dart), updateParameterValue and scheduleParameterRefresh   *)
(* of the cubit, and the traffic they share.                               *)
(*                                                                         *)
(* An edit shows its value at once and is sent later, the latest value of  *)
(* a cell winning over one that still waits.  300 ms after the last edit   *)
(* the values of its slot are read back.  The requests pass through the    *)
(* scheduler, which to its callers is a line served in order that settles  *)
(* every request (ImplementsLine and EveryRequestSettles, MessageScheduler)*)
(* It does not promise that a reply is the request's own: these reads are  *)
(* best effort, their late replies are not tracked, and a reply that finds *)
(* the handler of a later read of the same cell or slot completes that one.*)
(*                                                                         *)
(* A value is named by the number of the edit that chose it.  The edits    *)
(* modelled are ordinary ones: in the range of the parameter, and not of a *)
(* Program parameter, both of which lead to a refresh of the whole slot.   *)
(***************************************************************************)
EXTENDS Naturals, Sequences

Ext == INSTANCE SequencesExt

CONSTANTS
    Cell,       \* the parameters of the preset
    Slot,       \* its slots
    SlotOf,     \* the slot of each parameter
    Textual,    \* parameters whose value is shown as a string of the device
    NoSlot, NoCell,
    MaxEdits,   \* bound on the number of edits
    MaxAnswers  \* bound on the answers under way

ASSUME CellAssumption ==
    /\ SlotOf \in [Cell -> Slot] /\ Textual \subseteq Cell
    /\ NoSlot \notin Slot /\ NoCell \notin Cell /\ MaxEdits \in Nat /\ MaxAnswers \in Nat

VARIABLES
    edits,      \* edits made so far
    last,       \* the last edit of each cell
    ui,         \* values in the synchronized state
    text,       \* valueStrings, by the value each of them renders
    pending,    \* _pendingUpdates in insertion order
    updating,   \* the cell _processNext is busy with (_isProcessing), or NoCell
    timer,      \* _processTimer is armed
    refresh,    \* the slot of the armed timer _parameterRefreshTimer refers to
    strays,     \* armed refresh timers of each slot that it lost sight of
    bus,        \* requests in the scheduler, oldest first
    asked,      \* the oldest request is a read that has been sent
    wire,       \* answers under way, in the order in which the device gave them
    device,     \* the values the device has
    unsent,     \* cells whose last update failed to be sent
    mute,       \* cells whose last string query got no answer
    doubt       \* cells whose last string query was sent while an older string was under way

queueVars == <<pending, updating, timer>>
lineVars == <<bus, asked, wire>>
failures == <<unsent, mute, doubt>>
vars == <<edits, last, ui, text, queueVars, refresh, strays, lineVars, device, failures>>

Set(c, v)  == [op |-> "set", cell |-> c, value |-> v]
Ask(c)     == [op |-> "text", cell |-> c]
AskLive(c) == [op |-> "liveText", cell |-> c]
AskAll(s)  == [op |-> "values", slot |-> s]

Requests == [op : {"set"}, cell : Cell, value : 0..MaxEdits]
              \cup [op : {"text", "liveText"}, cell : Cell]
              \cup [op : {"values"}, slot : Slot]

\* What the device answers to a read.
Answer(b) == IF b.op = "values" THEN [of |-> "values", slot |-> b.slot, values |-> device]
                                ELSE [of |-> "text", cell |-> b.cell, value |-> device[b.cell]]

Answers == [of : {"values"}, slot : Slot, values : [Cell -> 0..MaxEdits]]
             \cup [of : {"text"}, cell : Cell, value : 0..MaxEdits]

\* matches of the key: a string is the answer to either query of its cell.
Matches(a, b) == IF b.op = "values" THEN a.of = "values" /\ a.slot = b.slot
                                    ELSE a.of = "text" /\ a.cell = b.cell

Init ==
    /\ edits = 0 /\ last = [c \in Cell |-> 0] /\ ui = last /\ device = last
    /\ text = [c \in Textual |-> 0]
    /\ pending = <<>> /\ updating = NoCell /\ timer = FALSE
    /\ refresh = NoSlot /\ strays = [s \in Slot |-> 0]
    /\ bus = <<>> /\ asked = FALSE /\ wire = <<>>
    /\ unsent = {} /\ mute = {} /\ doubt = {}

-----------------------------------------------------------------------------
(* Callers *)

\* Variants named ...Slip are the next definition with a plausible mistake.
PutSlip(c, v) == <<[cell |-> c, value |-> v]>> \o pending

\* _pendingUpdates[key] = update: a key that is there keeps its place.
Put(c, v) ==
    IF \E i \in DOMAIN pending : pending[i].cell = c
    THEN [i \in DOMAIN pending |->
            IF pending[i].cell = c THEN [pending[i] EXCEPT !.value = v] ELSE pending[i]]
    ELSE Append(pending, [cell |-> c, value |-> v])

\* scheduleParameterRefresh: the timer it refers to is replaced.
ScheduleRefresh(s) == refresh' = s /\ UNCHANGED strays

(***************************************************************************)
(* updateParameterValue and updateParameter.  While a slider moves, a      *)
(* string may be asked for at once, at most every 100 ms; letting go of it *)
(* schedules the refresh.                                                  *)
(***************************************************************************)
Edit(c, moving) ==
    /\ edits < MaxEdits /\ edits' = edits + 1
    /\ last' = [last EXCEPT ![c] = edits']
    /\ ui' = [ui EXCEPT ![c] = edits']
    /\ pending' = Put(c, edits')
    /\ timer' = (timer \/ updating = NoCell)
    /\ \/ UNCHANGED bus
       \/ moving /\ c \in Textual /\ bus' = Append(bus, AskLive(c))
    /\ IF moving THEN UNCHANGED <<refresh, strays>> ELSE ScheduleRefresh(SlotOf[c])
    /\ UNCHANGED <<text, updating, asked, wire, device, failures>>

-----------------------------------------------------------------------------
(* The queue *)

\* _processNext up to its first await
ProcessNext ==
    /\ timer /\ timer' = FALSE
    /\ IF pending = <<>> \/ updating # NoCell
       THEN UNCHANGED <<pending, updating, bus>>
       ELSE /\ pending' = Tail(pending)
            /\ updating' = Head(pending).cell
            /\ bus' = Append(bus, Set(Head(pending).cell, Head(pending).value))
    /\ UNCHANGED <<edits, last, ui, text, refresh, strays, asked, wire, device, failures>>

FinishUpdateSlip(rest) ==
    /\ updating' = NoCell /\ timer' = FALSE
    /\ bus' = rest /\ UNCHANGED pending

\* The finally block: the next update is due when one is pending.
FinishUpdate(rest) ==
    /\ updating' = NoCell /\ timer' = (pending # <<>>)
    /\ bus' = rest /\ UNCHANGED pending

SetSentSlip ==
    /\ bus # <<>> /\ Head(bus).op = "set"
    /\ LET c == Head(bus).cell IN
       /\ device' = [device EXCEPT ![c] = Head(bus).value]
       /\ unsent' = unsent \ {c}
       /\ IF c \in Textual /\ \A i \in DOMAIN bus : bus[i] # AskLive(c)
          THEN bus' = Append(Tail(bus), Ask(c)) /\ UNCHANGED queueVars
          ELSE FinishUpdate(Tail(bus))
    /\ UNCHANGED <<edits, last, ui, text, refresh, strays, asked, wire, mute, doubt>>

\* setParameterValue reached the device; a string is asked for afterwards.
SetSent ==
    /\ bus # <<>> /\ Head(bus).op = "set"
    /\ LET c == Head(bus).cell IN
       /\ device' = [device EXCEPT ![c] = Head(bus).value]
       /\ unsent' = unsent \ {c}
       /\ IF c \in Textual
          THEN bus' = Append(Tail(bus), Ask(c)) /\ UNCHANGED queueVars
          ELSE FinishUpdate(Tail(bus))
    /\ UNCHANGED <<edits, last, ui, text, refresh, strays, asked, wire, mute, doubt>>

\* setParameterValue threw: the update is given up.
SetFails ==
    /\ bus # <<>> /\ Head(bus).op = "set"
    /\ unsent' = unsent \cup {Head(bus).cell}
    /\ FinishUpdate(Tail(bus))
    /\ UNCHANGED <<edits, last, ui, text, refresh, strays, asked, wire, device, mute, doubt>>

-----------------------------------------------------------------------------
(* Reads *)

\* The string of a value that the device no longer has.
Stale(a) == a.of = "text" /\ a.value # device[a.cell]

(***************************************************************************)
(* The oldest read is sent.  The device handles one message after the      *)
(* other and so answers, if it does, with what it has then.  A string      *)
(* query is sent once, the values of a slot are asked for again after a    *)
(* timeout.                                                                *)
(***************************************************************************)
SendRead ==
    /\ bus # <<>> /\ Head(bus).op # "set"
    /\ asked => Head(bus).op = "values"
    /\ asked' = TRUE
    /\ \/ UNCHANGED wire
       \/ Len(wire) < MaxAnswers /\ wire' = Append(wire, Answer(Head(bus)))
    /\ doubt' = IF Head(bus).op # "text" THEN doubt
                ELSE IF \E i \in DOMAIN wire : Stale(wire[i]) /\ Matches(wire[i], Head(bus))
                THEN doubt \cup {Head(bus).cell} ELSE doubt \ {Head(bus).cell}
    /\ UNCHANGED <<edits, last, ui, text, queueVars, refresh, strays, bus, device, unsent, mute>>

\* An answer is lost, or finds no read of its cell or slot and is discarded.
Lose ==
    /\ \E i \in DOMAIN wire : wire' = Ext!RemoveAt(wire, i)
    /\ UNCHANGED <<edits, last, ui, text, queueVars, refresh, strays, bus, asked, device, failures>>

\* A read ends without an answer: it timed out, or it could not be sent.  What
\* the device answered stays under way.
NotAnswered(op) ==
    /\ bus # <<>> /\ Head(bus).op = op
    /\ asked' = FALSE /\ UNCHANGED wire

\* It ends with the i-th answer under way, whichever read caused that.
Answered(op, i) ==
    /\ bus # <<>> /\ Head(bus).op = op /\ asked /\ Matches(wire[i], Head(bus))
    /\ asked' = FALSE /\ wire' = Ext!RemoveAt(wire, i)

\* onParameterStringUpdated for the queue's own query
TextArrives ==
    /\ \E i \in DOMAIN wire :
        /\ Answered("text", i)
        /\ text' = [text EXCEPT ![wire[i].cell] = wire[i].value]
    /\ mute' = mute \ {Head(bus).cell}
    /\ FinishUpdate(Tail(bus))
    /\ UNCHANGED <<edits, last, ui, refresh, strays, device, unsent, doubt>>

\* requestParameterValueString gave null or threw.
TextFails ==
    /\ NotAnswered("text")
    /\ mute' = mute \cup {Head(bus).cell}
    /\ FinishUpdate(Tail(bus))
    /\ UNCHANGED <<edits, last, ui, text, refresh, strays, device, unsent, doubt>>

LiveTextArrives ==
    /\ \E i \in DOMAIN wire :
        /\ Answered("liveText", i)
        /\ text' = [text EXCEPT ![wire[i].cell] = wire[i].value]
    /\ bus' = Tail(bus)
    /\ UNCHANGED <<edits, last, ui, queueVars, refresh, strays, device, failures>>

LiveTextFails ==
    /\ NotAnswered("liveText") /\ bus' = Tail(bus)
    /\ UNCHANGED <<edits, last, ui, text, queueVars, refresh, strays, device, failures>>

\* The callback of the refresh timer, up to its await
AskForValues(s) ==
    /\ bus' = Append(bus, AskAll(s))
    /\ UNCHANGED <<edits, last, ui, text, queueVars, asked, wire, device, failures>>

RefreshTimer ==
    /\ refresh # NoSlot /\ refresh' = NoSlot
    /\ AskForValues(refresh) /\ UNCHANGED strays

StrayTimer(s) ==
    /\ strays[s] > 0 /\ strays' = [strays EXCEPT ![s] = @ - 1]
    /\ AskForValues(s) /\ UNCHANGED refresh

\* The rest of it: the values are taken over, and _parameterRefreshTimer is
\* cleared, whichever timer it refers to by now.
ValuesArrive ==
    /\ \E i \in DOMAIN wire :
        /\ Answered("values", i)
        /\ ui' = [c \in Cell |-> IF SlotOf[c] = Head(bus).slot THEN wire[i].values[c] ELSE ui[c]]
    /\ bus' = Tail(bus)
    /\ refresh' = NoSlot
    /\ strays' = IF refresh = NoSlot THEN strays ELSE [strays EXCEPT ![refresh] = @ + 1]
    /\ UNCHANGED <<edits, last, text, queueVars, device, failures>>

\* requestAllParameterValues threw: the callback ends there.
ValuesFail ==
    /\ NotAnswered("values") /\ bus' = Tail(bus)
    /\ UNCHANGED <<edits, last, ui, text, queueVars, refresh, strays, device, failures>>

-----------------------------------------------------------------------------
Served == \/ SetSent \/ SetFails \/ TextArrives \/ TextFails
          \/ LiveTextArrives \/ LiveTextFails \/ ValuesArrive \/ ValuesFail

Next == \/ \E c \in Cell, moving \in BOOLEAN : Edit(c, moving)
        \/ ProcessNext \/ RefreshTimer \/ \E s \in Slot : StrayTimer(s)
        \/ SendRead \/ Lose \/ Served

Spec == Init /\ [][Next]_vars

\* Timers fire, and the scheduler settles the request at its head.
FairSpec == Spec /\ WF_vars(ProcessNext) /\ WF_vars(Served)

(***************************************************************************)
(* The behaviours without slider movements in which timers respect their   *)
(* lengths: 300 ms for a refresh, at most 25 ms for the next update.       *)
(***************************************************************************)
TimedNext ==
    \/ \E c \in Cell : Edit(c, FALSE)
    \/ ProcessNext \/ SendRead \/ Lose \/ Served
    \/ ~timer /\ (RefreshTimer \/ \E s \in Slot : StrayTimer(s))

TimedSpec == Init /\ [][TimedNext]_vars

-----------------------------------------------------------------------------
(* Properties *)

\* Every variable has its type; a cell waits in the queue at most once.
TypeOK ==
    /\ edits \in 0..MaxEdits
    /\ last \in [Cell -> 0..MaxEdits] /\ ui \in [Cell -> 0..MaxEdits]
    /\ device \in [Cell -> 0..MaxEdits] /\ text \in [Textual -> 0..MaxEdits]
    /\ pending \in Seq([cell : Cell, value : 1..MaxEdits])
    /\ \A i, j \in DOMAIN pending : pending[i].cell = pending[j].cell => i = j
    /\ updating \in Cell \cup {NoCell} /\ timer \in BOOLEAN
    /\ refresh \in Slot \cup {NoSlot} /\ strays \in [Slot -> 0..MaxEdits]
    /\ bus \in Seq(Requests)
    /\ asked \in BOOLEAN /\ wire \in Seq(Answers) /\ Len(wire) <= MaxAnswers
    /\ unsent \subseteq Cell /\ mute \subseteq Textual /\ doubt \subseteq Textual

FlushedSlip == pending = <<>>

\* flush returns.
Flushed == pending = <<>> /\ updating = NoCell

(***************************************************************************)
(* When flush returns, the device has the last edit of every cell: no edit *)
(* was lost by replacing, reordering or overlapping, other than by a       *)
(* failure to send it.                                                     *)
(***************************************************************************)
FlushedIsSent == Flushed => \A c \in Cell \ unsent : device[c] = last[c]

(***************************************************************************)
(* The string shown is then the device's string for that value, although   *)
(* the queries of a moving slider race with the updates and their answers  *)
(* may be late; unless no answer came to the query made after the update,  *)
(* or that query was sent while the string of an older value, asked for by *)
(* a query that had timed out, was still under way and may have ended it.  *)
(***************************************************************************)
FlushedTextIsCurrent ==
    Flushed => \A c \in Textual \ (mute \cup doubt) : text[c] = device[c]

\* The device never goes back from an edit to an older edit of the same cell.
EditsLandInOrder == [][\A c \in Cell : device'[c] >= device[c]]_vars

\* The queue drains: flush returns once the edits stop.
FlushReturns == (pending # <<>>) ~> Flushed

\* One refresh request per batch of edits: at most one timer is armed.
OneRefresh ==
    \A s, t \in Slot :
        /\ strays[s] > 0 => refresh = NoSlot
        /\ strays[s] > 0 /\ strays[t] > 0 => s = t /\ strays[s] = 1

(***************************************************************************)
(* Once everything has been sent and read back, without any failure, the   *)
(* values shown are the device's: the refresh re-synchronises the state.   *)
(***************************************************************************)
Settled == Flushed /\ ~timer /\ bus = <<>> /\ refresh = NoSlot /\ \A s \in Slot : strays[s] = 0
SettledInSync == Settled /\ unsent = {} => ui = device
=============================================================================
