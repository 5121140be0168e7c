-------------------------------- MODULE Polling --------------------------------
(***************************************************************************)
(* Polling of mapped parameters on the Performance screen: start-,         *)
(* stopPollingMappedParameters and the two polling loops of                *)
(* lib/cubit/disting_cubit_parameter_refresh_delegate.dart.                *)
(*                                                                         *)
(* Each parameter is polled by a loop that awaits a reply, takes the value *)
(* over and sleeps 100 ms or 1 s.  A loop is not cancelled: it looks for   *)
(* its key in the task map when it wakes up.  A loop is named by its       *)
(* parameter and by the number of the start that made it.  Values are      *)
(* numbered in the order in which the device takes them, and may be old    *)
(* when they arrive.  The length of the sleep, all that noChangeCount      *)
(* decides, is left to the order of the wake-ups.                          *)
(***************************************************************************)
EXTENDS Naturals

CONSTANTS
    Polled,     \* the mapped parameters
    MaxTurns,   \* bound on the changes made on the device
    MaxStarts   \* bound on the starts of polling

ASSUME PollAssumption == MaxTurns \in Nat /\ MaxStarts \in Nat

VARIABLES
    tasks,      \* the keys of _pollingTasks
    asking,     \* loops of each parameter that await a reply
    asleep,     \* loops of each parameter in Future.delayed
    answers,    \* values of each parameter that the device answered, under way
    present,    \* parameters the synchronized state has
    synced,     \* the state is DistingStateSynchronized
    shows, holds, \* the values shown and the values of the device
    turns,      \* changes made on the device
    starts,     \* starts of polling
    steady      \* parameters that stayed present and synced since the last start

loopVars == <<tasks, asking, asleep>>
pollVars == <<loopVars, answers, present, synced, shows, holds, turns, starts, steady>>

Generation == 1..MaxStarts

pollInit ==
    /\ tasks = {} /\ present = Polled /\ synced = TRUE /\ steady = {}
    /\ asking = [c \in Polled |-> {}] /\ asleep = asking /\ answers = asking
    /\ shows = [c \in Polled |-> 0] /\ holds = shows /\ turns = 0 /\ starts = 0

Loops(c) == asking[c] \cup asleep[c]

-----------------------------------------------------------------------------
\* A loop goes on: its key must be in the map and the state synchronized.
GoesOn(c) == c \in tasks /\ synced

\* The previous tasks are cleared, each parameter gets a task and a loop.
Start ==
    /\ starts < MaxStarts /\ starts' = starts + 1
    /\ tasks' = IF synced THEN present ELSE {}
    /\ asking' = [c \in Polled |-> asking[c] \cup (IF c \in tasks' THEN {starts'} ELSE {})]
    /\ steady' = tasks'
    /\ UNCHANGED <<asleep, answers, present, synced, shows, holds, turns>>

Stop ==
    /\ tasks' = {}
    /\ UNCHANGED <<asking, asleep, answers, present, synced, shows, holds, turns, starts, steady>>

\* The device answers one of the loops; equal values under way count as one, and
\* one that is lost stays there.
DeviceReads(c) ==
    /\ asking[c] # {} /\ answers' = [answers EXCEPT ![c] = @ \cup {holds[c]}]
    /\ UNCHANGED <<loopVars, present, synced, shows, holds, turns, starts, steady>>

(***************************************************************************)
(* The reply, which may be one to an earlier poll that had timed out.      *)
(* Without a synchronized state the loop goes on at once and ends; a       *)
(* parameter that is gone takes its task with it.                          *)
(***************************************************************************)
Reply(c, g) ==
    /\ g \in asking[c] /\ asking' = [asking EXCEPT ![c] = @ \ {g}]
    /\ \E v \in answers[c] :
        /\ answers' = [answers EXCEPT ![c] = @ \ {v}]
        /\ IF ~synced THEN UNCHANGED <<tasks, asleep, shows>>
           ELSE IF c \notin present THEN tasks' = tasks \ {c} /\ UNCHANGED <<asleep, shows>>
           ELSE /\ shows' = [shows EXCEPT ![c] = v]
                /\ asleep' = [asleep EXCEPT ![c] = @ \cup {g}]
                /\ UNCHANGED tasks
    /\ UNCHANGED <<present, synced, holds, turns, starts, steady>>

\* Variants named ...Slip are the next definition with a plausible mistake.
ErrorSlip(c, g) ==
    /\ g \in asking[c] /\ asking' = [asking EXCEPT ![c] = @ \ {g}]
    /\ UNCHANGED <<tasks, asleep, answers, present, synced, shows, holds, turns, starts, steady>>

\* requestParameterValue threw.
Error(c, g) ==
    /\ g \in asking[c] /\ asking' = [asking EXCEPT ![c] = @ \ {g}]
    /\ asleep' = [asleep EXCEPT ![c] = @ \cup {g}]
    /\ UNCHANGED <<tasks, answers, present, synced, shows, holds, turns, starts, steady>>

WakeSlip(c, g) ==
    /\ g \in asleep[c] /\ asleep' = [asleep EXCEPT ![c] = @ \ {g}]
    /\ asking' = [asking EXCEPT ![c] = @ \cup (IF synced THEN {g} ELSE {})]
    /\ UNCHANGED <<tasks, answers, present, synced, shows, holds, turns, starts, steady>>

\* The delay is over; the loop asks again if it goes on.
Wake(c, g) ==
    /\ g \in asleep[c] /\ asleep' = [asleep EXCEPT ![c] = @ \ {g}]
    /\ asking' = [asking EXCEPT ![c] = @ \cup (IF GoesOn(c) THEN {g} ELSE {})]
    /\ UNCHANGED <<tasks, answers, present, synced, shows, holds, turns, starts, steady>>

-----------------------------------------------------------------------------
(* Around it *)

\* The connection is lost or made anew; a sync reads every value.
LoseSync ==
    /\ synced /\ synced' = FALSE /\ steady' = {}
    /\ UNCHANGED <<loopVars, answers, present, shows, holds, turns, starts>>

Sync ==
    /\ ~synced /\ synced' = TRUE /\ present' \in SUBSET Polled /\ shows' = holds
    /\ UNCHANGED <<loopVars, answers, holds, turns, starts, steady>>

\* An algorithm is removed.
Remove(c) ==
    /\ synced /\ c \in present
    /\ present' = present \ {c} /\ steady' = steady \ {c}
    /\ UNCHANGED <<loopVars, answers, synced, shows, holds, turns, starts>>

\* A knob of the device is turned.
Turn(c) ==
    /\ turns < MaxTurns /\ turns' = turns + 1
    /\ holds' = [holds EXCEPT ![c] = turns']
    /\ UNCHANGED <<loopVars, answers, present, synced, shows, starts, steady>>

-----------------------------------------------------------------------------
pollNext ==
    \/ Start \/ Stop \/ LoseSync \/ Sync
    \/ \E c \in Polled, g \in Generation : Reply(c, g) \/ Error(c, g) \/ Wake(c, g)
    \/ \E c \in Polled : DeviceReads(c) \/ Remove(c) \/ Turn(c)

pollSpec == pollInit /\ [][pollNext]_pollVars

\* The steps that a fair behaviour takes for a parameter.
Replies(c) == \E g \in Generation : Reply(c, g)
Settles(c) == \E g \in Generation : Reply(c, g) \/ Error(c, g)
Wakes(c)   == \E g \in Generation : Wake(c, g)

\* Requests settle, delays end, and a device that is asked forever answers.
pollFairSpec ==
    /\ pollSpec
    /\ \A c \in Polled :
        /\ WF_pollVars(Settles(c)) /\ WF_pollVars(Wakes(c))
        /\ SF_pollVars(DeviceReads(c)) /\ SF_pollVars(Replies(c))

-----------------------------------------------------------------------------
(* Properties *)

\* Every variable has its type; a loop awaits or sleeps.
pollTypeOK ==
    /\ tasks \subseteq Polled /\ present \subseteq Polled /\ steady \subseteq Polled
    /\ synced \in BOOLEAN /\ turns \in 0..MaxTurns /\ starts \in 0..MaxStarts
    /\ shows \in [Polled -> 0..turns] /\ holds \in [Polled -> 0..turns]
    /\ answers \in [Polled -> SUBSET (0..turns)]
    /\ asking \in [Polled -> SUBSET (1..starts)] /\ asleep \in [Polled -> SUBSET (1..starts)]
    /\ \A c \in Polled : asking[c] \cap asleep[c] = {}

(***************************************************************************)
(* A parameter in the map is really polled: there is a loop behind its     *)
(* key, whatever replies were lost, unless it was removed or the state     *)
(* stopped being synchronized since polling was started.                   *)
(***************************************************************************)
TasksArePolled == \A c \in tasks \cap steady : Loops(c) # {}

\* Stopping ends every loop, unless polling is started again before.
StopEndsLoops ==
    (tasks = {}) ~> (tasks # {} \/ \A c \in Polled : Loops(c) = {})

\* A parameter that stays polled comes to show the device's value.
PolledValuesConverge ==
    \A c \in Polled :
        <>[](c \in tasks /\ c \in steady) => <>[](shows[c] = holds[c])

\* "Clear any previous tasks": a loop that begins to ask, again or for the first
\* time, is one of the last start.
OldLoopsEnd ==
    [][\A c \in Polled : \A g \in asking'[c] \ asking[c] : g = starts']_pollVars
=============================================================================
