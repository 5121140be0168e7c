--------------------------- MODULE SchedulerHandover ---------------------------
(***************************************************************************)
(* A replaced manager that is still used.  dispose sets no flag: a caller  *)
(* that captured the manager before it was replaced (fetchSlots awaits one *)
(* slot after the other on the manager it was given, and treats an error   *)
(* as a failed slot) goes on sending requests through it.  The disposed    *)
(* scheduler is idle, so it sends them; its subscription is cancelled, so  *)
(* it hears no reply, times out and retries.  The replies reach the        *)
(* replacement, which listens to the same input device.                    *)
(***************************************************************************)
EXTENDS MessageScheduler

CONSTANTS
    OldKey,        \* the 0x40 read the old caller performs, an algorithm key
    OldRetries     \* its attempt budget, at least 1

VARIABLES
    disposed,      \* a manager that was disposed is still referenced
    oldSent        \* attempts of its current request, 0 when it has none

oldVars == <<disposed, oldSent>>

HandoverInit == Init /\ disposed = FALSE /\ oldSent = 0

\* sendRequest, or a retry, on the disposed scheduler
OldSend ==
    /\ disposed /\ oldSent < OldRetries
    /\ oldSent' = oldSent + 1
    /\ ledger' = [ledger EXCEPT !.late[OldKey] = @ + 1]
    /\ UNCHANGED <<machine, frame, listening, streak, strictActive, open, kind,
                   call, outcome, disposed>>

\* _onTimeout of its last attempt: only now do the attempts become debt.  The
\* caller gives up here, so that the run stays small.
OldTimeout ==
    /\ disposed /\ oldSent = OldRetries
    /\ disposed' = FALSE /\ oldSent' = 0
    /\ ledger' = [ledger EXCEPT !.best[OldKey] = @ + oldSent]
    /\ UNCHANGED <<machine, frame, listening, streak, strictActive, open, kind,
                   call, outcome>>

HandoverNext ==
    \/ Dispose /\ disposed' = TRUE /\ UNCHANGED oldSent
    \/ Next /\ open' = open /\ UNCHANGED oldVars
    \/ Replace /\ UNCHANGED oldVars
    \/ OldSend
    \/ OldTimeout

HandoverSpec == HandoverInit /\ [][HandoverNext]_<<vars, oldVars>>
=============================================================================
