----------------------------- MODULE InterruptRead -----------------------------
(***************************************************************************)
(* One interrupt transfer of the iOS drivers: submitRead and ReadResult of *)
(* ios/InitialSdpDriver/StatusOnly.hpp, TransferInterrupt and ReadComplete *)
(* of the firmware driver, ReadInterrupt and ReadComplete of the SDP one.  *)
(*                                                                         *)
(* The caller holds the driver's lock, so one transfer is waited for at a  *)
(* time, on a queue that is free while it sleeps.  A transfer that expired *)
(* is aborted, and its callback may come long after the caller has gone,   *)
(* during a later transfer.  The callback uses the action and its context: *)
(* they must outlive it, and go once it has come.                          *)
(***************************************************************************)
EXTENDS Naturals

CONSTANT MaxReads   \* bound on the transfers

ASSUME ReadAssumption == MaxReads \in Nat

VARIABLES
    irqDriver,      \* which driver: "firmware" or "sdp"
    irqAt,          \* where the caller is
    irqRead,        \* its transfer, counted from 1; 0 before the first
    irqRefs,        \* references the driver's code holds on each action
    irqBuffer,      \* actions whose context retains its buffer
    irqPending,     \* transfers the pipe accepted and has not completed
    irqDone,        \* ReadResult.done
    irqExpired,     \* ReadResult.expired
    irqStatus       \* ReadResult.status: "none", "ok" or "error"

irqResults == <<irqDone, irqExpired, irqStatus>>
irqVars == <<irqDriver, irqAt, irqRead, irqRefs, irqBuffer, irqPending, irqResults>>

Read == 1..MaxReads

\* The firmware driver keeps the action for the callback, the SDP driver
\* leaves that to DriverKit.
Kept == IF irqDriver = "firmware" THEN 1 ELSE 0

irqInit ==
    /\ irqDriver \in {"firmware", "sdp"} /\ irqAt = "out" /\ irqRead = 0
    /\ irqRefs = [r \in Read |-> 0]
    /\ irqBuffer = {} /\ irqPending = {} /\ irqDone = {} /\ irqExpired = {}
    /\ irqStatus = [r \in Read |-> "none"]

-----------------------------------------------------------------------------
\* The action is created, and the buffer retained for its context.
irqSubmit ==
    /\ irqAt = "out" /\ irqRead < MaxReads
    /\ irqAt' = "submitting" /\ irqRead' = irqRead + 1
    /\ irqRefs' = [irqRefs EXCEPT ![irqRead'] = 1 + Kept]
    /\ irqBuffer' = irqBuffer \cup {irqRead'}
    /\ UNCHANGED <<irqDriver, irqPending, irqResults>>

irqAccepted ==
    /\ irqAt = "submitting" /\ irqAt' = "waiting"
    /\ irqPending' = irqPending \cup {irqRead}
    /\ UNCHANGED <<irqDriver, irqRead, irqRefs, irqBuffer, irqResults>>

\* Variants named ...Slip are the next definition with a plausible mistake.
irqRejectedSlip ==
    /\ irqAt = "submitting" /\ irqAt' = "returning"
    /\ irqBuffer' = irqBuffer \ {irqRead}
    /\ UNCHANGED <<irqDriver, irqRead, irqRefs, irqPending, irqResults>>

\* The pipe refuses: neither done nor expired, so nobody will call back, and
\* the caller drops what it kept for the callback.
irqRejected ==
    /\ irqAt = "submitting" /\ irqAt' = "returning"
    /\ irqBuffer' = irqBuffer \ {irqRead}
    /\ irqRefs' = [irqRefs EXCEPT ![irqRead] = @ - Kept]
    /\ UNCHANGED <<irqDriver, irqRead, irqPending, irqResults>>

irqCompleteSlip(r, status) ==
    /\ irqAt # "submitting" /\ r \in irqPending
    /\ irqPending' = irqPending \ {r} /\ irqBuffer' = irqBuffer \ {r}
    /\ irqRefs' = [irqRefs EXCEPT ![r] = @ - Kept]
    /\ irqDone' = irqDone \cup {r}
    /\ irqStatus' = [irqStatus EXCEPT ![r] = status]
    /\ UNCHANGED <<irqDriver, irqAt, irqRead, irqExpired>>

\* ReadComplete: an answer, an error, an abort or the unplugging.  After the
\* deadline the result is left alone.
irqComplete(r, status) ==
    /\ irqAt # "submitting" /\ r \in irqPending
    /\ irqPending' = irqPending \ {r} /\ irqBuffer' = irqBuffer \ {r}
    /\ irqRefs' = [irqRefs EXCEPT ![r] = @ - Kept]
    /\ IF r \in irqExpired THEN UNCHANGED <<irqDone, irqStatus>>
       ELSE /\ irqDone' = irqDone \cup {r}
            /\ irqStatus' = [irqStatus EXCEPT ![r] = status]
    /\ UNCHANGED <<irqDriver, irqAt, irqRead, irqExpired>>

\* The sleep is over and there is a result, even if the deadline has passed.
irqWake ==
    /\ irqAt = "waiting" /\ irqRead \in irqDone /\ irqAt' = "returning"
    /\ UNCHANGED <<irqDriver, irqRead, irqRefs, irqBuffer, irqPending, irqResults>>

irqExpireSlip ==
    /\ irqAt = "waiting" /\ irqRead \notin irqDone /\ irqAt' = "returning"
    /\ irqExpired' = irqExpired \cup {irqRead}
    /\ irqRefs' = [irqRefs EXCEPT ![irqRead] = @ - Kept]
    /\ UNCHANGED <<irqDriver, irqRead, irqBuffer, irqPending, irqDone, irqStatus>>

\* The deadline, or the sleep fails, without a result: expired, and aborted.
irqExpire ==
    /\ irqAt = "waiting" /\ irqRead \notin irqDone /\ irqAt' = "returning"
    /\ irqExpired' = irqExpired \cup {irqRead}
    /\ UNCHANGED <<irqDriver, irqRead, irqRefs, irqBuffer, irqPending, irqDone, irqStatus>>

\* The caller drops its own reference.
irqReturn ==
    /\ irqAt = "returning" /\ irqAt' = "out"
    /\ irqRefs' = [irqRefs EXCEPT ![irqRead] = @ - 1]
    /\ UNCHANGED <<irqDriver, irqRead, irqBuffer, irqPending, irqResults>>

irqNext ==
    \/ irqSubmit \/ irqAccepted \/ irqRejected \/ irqWake \/ irqExpire \/ irqReturn
    \/ \E r \in Read, status \in {"ok", "error"} : irqComplete(r, status)

irqSpec == irqInit /\ [][irqNext]_irqVars

-----------------------------------------------------------------------------
(* Properties *)

\* Every variable has its type.
irqTypeOK ==
    /\ irqDriver \in {"firmware", "sdp"}
    /\ irqAt \in {"out", "submitting", "waiting", "returning"}
    /\ irqRead \in 0..MaxReads /\ (irqAt # "out" => irqRead \in Read)
    /\ irqRefs \in [Read -> 0..2]
    /\ irqBuffer \subseteq Read /\ irqPending \subseteq Read
    /\ irqDone \subseteq Read /\ irqExpired \subseteq Read
    /\ irqStatus \in [Read -> {"none", "ok", "error"}]

\* The transfers of which a callback is still to come, or may be.
Awaited == irqPending \cup (IF irqAt = "submitting" THEN {irqRead} ELSE {})

(***************************************************************************)
(* The firmware driver holds exactly one reference on the action for the   *)
(* caller and one for the callback, and both drivers one on the buffer for *)
(* the callback, whichever of the rejection, the answer, the deadline and  *)
(* the late answer come, in whatever order: nothing is freed under a       *)
(* callback and nothing leaks.                                             *)
(***************************************************************************)
ReferencesBalance ==
    /\ irqBuffer = Awaited
    /\ \A r \in Read :
          irqRefs[r] = (IF r = irqRead /\ irqAt # "out" THEN 1 ELSE 0)
                       + (IF r \in Awaited THEN Kept ELSE 0)

\* A result is written while its caller waits, and never again: the answer to
\* an expired transfer cannot become the result of another or of its own.
LateAnswersAreDropped ==
    [][\A r \in Read :
          irqStatus'[r] # irqStatus[r] =>
              irqAt = "waiting" /\ r = irqRead /\ irqStatus[r] = "none"]_irqVars
=============================================================================
