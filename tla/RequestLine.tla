------------------------------ MODULE RequestLine ------------------------------
(***************************************************************************)
(* What the message scheduler promises its callers, without timers, wire   *)
(* or retries: requests stand in one line, only the head of the line is    *)
(* served, every request leaves the line exactly when its completer is     *)
(* completed, and a completed request is never completed again.            *)
(***************************************************************************)
EXTENDS Naturals, Sequences

CONSTANTS Req

VARIABLES
    line,     \* requests submitted and not completed, oldest first
    outcome,  \* the result each request was completed with, "open" before
    called    \* requests a caller has submitted

vars == <<line, outcome, called>>

Served   == {"reply", "stale", "null", "failed", "timedOut", "ambiguous"}

Init == line = <<>> /\ outcome = [r \in Req |-> "open"] /\ called = {}

\* The line was q; its head, if any, may be served in the same step.
Advance(q) ==
    \/ line' = q /\ UNCHANGED outcome
    \/ /\ q # <<>>
       /\ line' = Tail(q)
       /\ \E out \in Served : outcome' = [outcome EXCEPT ![Head(q)] = out]

Enter(r) ==
    /\ r \notin called /\ called' = called \cup {r}
    /\ Advance(Append(line, r))

\* The caller had given up before it called; whoever is first is served.
Refuse(r) ==
    /\ r \notin called /\ called' = called \cup {r}
    /\ Advance(line)

Serve == line # <<>> /\ Advance(line) /\ UNCHANGED called

Withdraw(r) ==
    /\ \E i \in DOMAIN line :
          /\ line[i] = r
          /\ line' = SubSeq(line, 1, i - 1) \o SubSeq(line, i + 1, Len(line))
    /\ outcome' = [outcome EXCEPT ![r] = "cancelled"]
    /\ UNCHANGED called

Close ==
    /\ line' = <<>>
    /\ outcome' = [r \in Req |-> IF \E i \in DOMAIN line : line[i] = r
                                 THEN "disposed" ELSE outcome[r]]
    /\ UNCHANGED called

Next == \/ Serve
        \/ \E r \in Req : Enter(r) \/ Refuse(r) \/ Withdraw(r)
        \/ Close

Spec == Init /\ [][Next]_vars
=============================================================================
