-------------------------- MODULE SchedulerLineProofs --------------------------
(***************************************************************************)
(* That every request is served in its turn and none is forgotten: nothing *)
(* waits for a timer that is not armed, no handler or timer outlives its   *)
(* request, transmissions stay within the caller's budget, and callers see *)
(* the line of RequestLine.                                                *)
(*                                                                         *)
(* IInv of MessageSchedulerProofs says which request the scheduler works   *)
(* for.  What is added here is which timer is armed in which mode, how     *)
(* many transmissions are left, and that the requests submitted and not    *)
(* completed are exactly the current one and the queued ones.              *)
(***************************************************************************)
EXTENDS MessageSchedulerProofs, SequenceTheorems

\* The transmissions a caller asks for; there is always a first one.
Budget(r) == IF kind[r].retries = 0 THEN 1 ELSE kind[r].retries

\* Exactly the timer that the mode calls for is armed.
Timing ==
    /\ timeout <=> mode = "waiting"
    /\ retry <=> mode = "sending"
    /\ mode = "idle" /\ queue # <<>> => pace

\* A retry timer is lost sight of only while another one is armed, for a
\* request whose handler is gone and that is neither raw nor cancellable.
Orphaned ==
    orphans # {} =>
        /\ orphans = {current} /\ mode = "sending" /\ handler = NoReq
        /\ ~Silent(current) /\ ~kind[current].cancellable

\* With the attempts in a, at least more are left in r's budget.
Spent(r, a, l, more) ==
    /\ 1 <= a.attempts
    /\ a.attempts + more <= a.recoveries + Budget(r)
    /\ kind[r].raw => a.recoveries = 0
    /\ l.fresh <= a.attempts

Spending ==
    current # NoReq =>
        Spent(current, acct, ledger, IF mode = "sending" THEN 1 ELSE 0)

Flow == Timing /\ Orphaned /\ Spending

\* c is current or stands in q
Waits(r, c, q) == r = c \/ \E i \in DOMAIN q : q[i] = r

Distinct(c, q) ==
    \A i \in DOMAIN q : q[i] # c /\ \A j \in DOMAIN q : q[i] = q[j] => i = j

\* c and q are the requests submitted and not completed, each once.
Registry(c, q, cl, o) ==
    /\ Distinct(c, q)
    /\ \A r \in Req :
         /\ cl[r] = "none" => o[r] = "open"
         /\ Waits(r, c, q) <=> cl[r] = "submitted" /\ o[r] = "open"

Lined == Registry(current, queue, call, outcome)

\* What one handler does to the request c it works for
Moved(c) ==
    \/ current' = c /\ outcome' = outcome
    \/ /\ current' = NoReq
       /\ \E out \in Line!Served : outcome' = [outcome EXCEPT ![c] = out]

\* The current request and those in q wait; an idle scheduler takes the first.
Turned(q) ==
    \/ /\ current = NoReq /\ q # <<>>
       /\ queue' = Tail(q) /\ Moved(Head(q))
    \/ queue' = q /\ current' = current /\ outcome' = outcome

-----------------------------------------------------------------------------
(* Timers and budget *)

\* Which transmissions are left once r has been sent a.attempts times
LEMMA BudgetFacts ==
    ASSUME kind \in [Req -> Kind], NEW r \in Req
    PROVE  /\ kind[r].retries \in Nat /\ Budget(r) \in Nat
           /\ 1 <= Budget(r) /\ kind[r].retries <= Budget(r)
           /\ kind[r].cancellable => kind[r].retries <= 1
<1>1. kind[r] \in Kind /\ kind[r] \in KindType
  BY KindAssumption
<1>2. kind[r].retries \in Nat
  BY <1>1 DEF KindType
<1>3. kind[r].cancellable => kind[r].retries <= 1
  BY <1>1, KindAssumption
<1> QED BY <1>2, <1>3 DEF Budget

\* A finished request leaves no timer but the pace timer.
LEMMA FinishFlow ==
    ASSUME NEW r, NEW a, NEW l, NEW out, Finish(r, a, l, out), orphans' = {}
    PROVE  /\ Flow' /\ current' = NoReq
           /\ outcome' = [outcome EXCEPT ![r] = out]
           /\ out \in Line!Served => Moved(r)
<1>1. /\ current' = NoReq /\ mode' = "idle" /\ timeout' = FALSE /\ retry' = FALSE
      /\ outcome' = [outcome EXCEPT ![r] = out]
      /\ pace' = (PaceLeft \/ queue' # <<>>)
  BY DEF Finish, Paced
<1>2. Timing'
  BY <1>1 DEF Timing
<1>3. Orphaned' /\ Spending'
  BY <1>1 DEF Orphaned, Spending
<1> QED BY <1>1, <1>2, <1>3 DEF Flow, Moved

\* What sending needs: one more transmission in the budget
Affordable(r, a, l) ==
    /\ a.attempts + 1 <= a.recoveries + Budget(r)
    /\ kind[r].raw => a.recoveries = 0
    /\ l.fresh <= a.attempts

\* _sendCurrentRequest arms the timeout or the retry timer, or finishes.
LEMMA SendFlow ==
    ASSUME kind \in [Req -> Kind], kind' = kind,
           NEW r \in Req, NEW a \in AcctType, NEW l \in LedgerType,
           Affordable(r, a, l), kind[r].delayed => ~timeout,
           timeout \in BOOLEAN, orphans' = {}, Send(r, a, l)
    PROVE  Flow' /\ Moved(r)
<1>1. /\ kind[r].retries \in Nat /\ Budget(r) \in Nat /\ 1 <= Budget(r)
      /\ kind[r].retries <= Budget(r) /\ Budget(r)' = Budget(r)
  BY BudgetFacts DEF Budget
<1>2. a.attempts \in Nat /\ a.recoveries \in Nat /\ l.fresh \in Nat /\ r # NoReq
  BY ReqAssumption DEF AcctType, LedgerType
<1>3. ASSUME NEW out \in {"ambiguous", "null", "failed"}, Finish(r, a, l, out)
      PROVE  Flow' /\ Moved(r)
  BY <1>3, FinishFlow DEF Line!Served
<1>4. ASSUME NEW n \in Tries(r, a), Transmit(r, a, l, n), kind[r].expect # "none"
      PROVE  Flow' /\ Moved(r)
  <2>1. /\ Stay(r) /\ mode' = "waiting" /\ timeout' = TRUE /\ retry' = FALSE
        /\ acct' = [a EXCEPT !.attempts = n, !.sent = @ + Counted(r)]
        /\ ledger' = [l EXCEPT !.fresh = @ + 1]
    BY <1>4 DEF Transmit
  <2>2. acct'.attempts = n /\ acct'.recoveries = a.recoveries /\ ledger'.fresh = l.fresh + 1
    BY <2>1 DEF AcctType, LedgerType
  <2>3. /\ n \in Nat /\ a.attempts + 1 <= n
        /\ n <= a.recoveries + Budget(r)
    BY <1>1, <1>2, <1>4 DEF Tries, LastTry, Affordable
  <2>4. current' = r /\ outcome' = outcome
    BY <2>1 DEF Stay
  <2>5. /\ 1 <= acct'.attempts /\ acct'.attempts <= acct'.recoveries + Budget(r)
        /\ (kind[r].raw => acct'.recoveries = 0) /\ ledger'.fresh <= acct'.attempts
    BY <1>1, <1>2, <2>2, <2>3 DEF Affordable
  <2>6. Timing' /\ Orphaned'
    BY <2>1 DEF Timing, Orphaned
  <2>7. Spending'
    BY <1>1, <1>2, <2>1, <2>2, <2>3, <2>4, <2>5 DEF Spending, Spent, Budget
  <2> QED BY <2>4, <2>6, <2>7 DEF Flow, Moved
<1>5. ASSUME SendFails(r, a, l), kind[r].delayed, a.attempts + 1 < kind[r].retries
      PROVE  Flow' /\ Moved(r)
  <2>1. /\ Stay(r) /\ mode' = "sending" /\ retry' = TRUE /\ timeout' = timeout
        /\ acct' = [a EXCEPT !.attempts = @ + 1] /\ ledger' = l
    BY <1>5 DEF SendFails
  <2>2. acct'.attempts = a.attempts + 1 /\ acct'.recoveries = a.recoveries
    BY <2>1 DEF AcctType
  <2>3. current' = r /\ outcome' = outcome
    BY <2>1 DEF Stay
  <2>4. /\ 1 <= acct'.attempts /\ acct'.attempts + 1 <= acct'.recoveries + Budget(r)
        /\ (kind[r].raw => acct'.recoveries = 0) /\ ledger'.fresh <= acct'.attempts
    BY <1>1, <1>2, <1>5, <2>1, <2>2 DEF Affordable
  <2>5. Timing' /\ Orphaned'
    BY <1>5, <2>1 DEF Timing, Orphaned
  <2>6. Spending'
    BY <2>1, <2>3, <2>4 DEF Spending, Spent, Budget
  <2> QED BY <2>3, <2>5, <2>6 DEF Flow, Moved
<1>6. \/ \E out \in {"ambiguous", "null", "failed"} : Finish(r, a, l, out)
      \/ \E n \in Tries(r, a) : Transmit(r, a, l, n) /\ kind[r].expect # "none"
      \/ SendFails(r, a, l) /\ kind[r].delayed /\ a.attempts + 1 < kind[r].retries
  <2>1. CASE Refused(r, l)
    BY <2>1 DEF Send
  <2>2. ASSUME NEW n \in Tries(r, a), Transmit(r, a, l, n)
        PROVE  Finish(r, a, l, "null") \/ kind[r].expect # "none"
    BY <2>2 DEF Transmit
  <2>3. CASE SendFails(r, a, l)
    BY <2>3 DEF SendFails
  <2> QED BY <2>1, <2>2, <2>3 DEF Send
<1> QED BY <1>3, <1>4, <1>5, <1>6

\* A retry that waits arms the retry timer, and may lose sight of another one.
LEMMA ArmRetryFlow ==
    ASSUME kind \in [Req -> Kind], kind' = kind,
           NEW r \in Req, NEW a \in AcctType, NEW l \in LedgerType,
           Spent(r, a, l, 1), orphans = {}, retry \in BOOLEAN,
           retry => handler' = NoReq /\ ~Silent(r) /\ ~kind[r].cancellable,
           ArmRetry(r, a, l)
    PROVE  Flow' /\ Moved(r)
<1>1. /\ current' = r /\ outcome' = outcome /\ mode' = "sending"
      /\ retry' = TRUE /\ timeout' = FALSE /\ acct' = a /\ ledger' = l
      /\ orphans' = IF retry THEN {r} ELSE {}
  BY DEF ArmRetry, Stay
<1>2. Timing'
  BY <1>1 DEF Timing
<1>3. Orphaned'
  BY <1>1 DEF Orphaned, Silent
<1>4. Spending'
  BY <1>1 DEF Spending, Spent, Budget
<1> QED BY <1>1, <1>2, <1>3, <1>4 DEF Flow, Moved

\* At once or after the retry delay, a retry stays within the budget.
LEMMA ResendFlow ==
    ASSUME kind \in [Req -> Kind], kind' = kind,
           NEW r \in Req, NEW a \in AcctType, NEW l \in LedgerType,
           Spent(r, a, l, 1), orphans = {}, retry \in BOOLEAN, timeout \in BOOLEAN,
           kind[r].delayed /\ retry => handler' = NoReq /\ ~Silent(r) /\ ~kind[r].cancellable,
           Resend(r, a, l)
    PROVE  Flow' /\ Moved(r)
<1>1. CASE kind[r].delayed
  BY <1>1, ArmRetryFlow DEF Resend
<1>2. CASE ~kind[r].delayed
  <2>1. Affordable(r, a, l)
    BY DEF Affordable, Spent
  <2>2. Send(r, a, l) /\ orphans' = {}
    BY <1>2 DEF Resend
  <2> QED BY <1>2, <2>1, <2>2, SendFlow
<1> QED BY <1>1, <1>2

\* _processNext
LEMMA ProcessNextFlow ==
    ASSUME IInv, Flow, kind' = kind, orphans' = orphans,
           NEW q \in Seq(Req), ProcessNext(q)
    PROVE  Flow' /\ Turned(q)
<1>1. /\ kind \in [Req -> Kind] /\ timeout \in BOOLEAN /\ ledger \in LedgerType
      /\ (current = NoReq <=> mode = "idle") /\ (timeout \/ retry => current # NoReq)
      /\ (current = NoReq => ledger.fresh = 0)
  BY DEF IInv, TypeRest, Core, TypeCore, Control, LedgerInv, Shape
<1>2. CASE mode = "idle" /\ q # <<>>
  <2>1. queue' = Tail(q) /\ Send(Head(q), NoAcct, ledger) /\ Head(q) \in Req
    BY <1>2 DEF ProcessNext
  <2>2. orphans' = {} /\ ~timeout /\ current = NoReq
    BY <1>1, <1>2 DEF Flow, Orphaned
  <2>3. NoAcct \in AcctType
    BY DEF NoAcct, AcctType
  <2>4. Affordable(Head(q), NoAcct, ledger)
    BY <1>1, <2>1, <2>2, BudgetFacts DEF Affordable, NoAcct
  <2>5. Flow' /\ Moved(Head(q))
    BY <1>1, <2>1, <2>2, <2>3, <2>4, SendFlow
  <2> QED BY <1>2, <2>1, <2>2, <2>5 DEF Turned
<1>3. CASE ~(mode = "idle" /\ q # <<>>)
  <2>1. /\ queue' = q /\ pace' = (pace /\ mode # "idle")
        /\ UNCHANGED <<mode, current, handler, retry, timeout, acct, ledger, outcome>>
    BY <1>3 DEF ProcessNext
  <2>2. Timing'
    BY <1>3, <2>1 DEF Flow, Timing
  <2>3. Orphaned'
    BY <2>1 DEF Flow, Orphaned, Silent
  <2>4. Spending'
    BY <2>1 DEF Flow, Spending, Spent, Budget
  <2> QED BY <2>1, <2>2, <2>3, <2>4 DEF Flow, Turned
<1> QED BY <1>2, <1>3

-----------------------------------------------------------------------------
(* Incoming traffic and timers *)

\* A handler works for the current request, or for none.
Worked ==
    /\ queue' = queue
    /\ \/ current' = current /\ outcome' = outcome
       \/ current \in Req /\ Moved(current)

\* What Flow says while r is current
LEMMA CurrentFlow ==
    ASSUME IInv, Flow, current # NoReq
    PROVE  /\ current \in Req /\ kind \in [Req -> Kind]
           /\ acct \in AcctType /\ ledger \in LedgerType
           /\ timeout \in BOOLEAN /\ retry \in BOOLEAN
           /\ acct.attempts \in Nat /\ acct.recoveries \in 0..1 /\ ledger.fresh \in Nat
           /\ Spent(current, acct, ledger, 0)
           /\ mode = "sending" => Spent(current, acct, ledger, 1)
           /\ handler # NoReq => orphans = {} /\ handler = current /\ ~Silent(current)
           /\ mode \in {"sending", "waiting"}
<1>1. /\ current \in Req /\ kind \in [Req -> Kind] /\ handler \in {NoReq, current}
      /\ acct \in AcctType /\ ledger \in LedgerType /\ (handler = current => ~Silent(current))
  BY CurrentFacts
<1>2. /\ timeout \in BOOLEAN /\ retry \in BOOLEAN /\ mode \in {"sending", "waiting"}
  BY DEF IInv, Core, TypeCore, Control
<1>3. acct.attempts \in Nat /\ acct.recoveries \in 0..1 /\ ledger.fresh \in Nat
  BY <1>1 DEF AcctType, LedgerType
<1>4. Spent(current, acct, ledger, IF mode = "sending" THEN 1 ELSE 0)
  BY DEF Flow, Spending
<1>5. Budget(current) \in Nat
  BY <1>1, BudgetFacts
<1>6. Spent(current, acct, ledger, 0) /\ (mode = "sending" => Spent(current, acct, ledger, 1))
  BY <1>3, <1>4, <1>5 DEF Spent
<1>7. handler # NoReq => orphans = {}
  BY DEF Flow, Orphaned
<1> QED BY <1>1, <1>2, <1>3, <1>6, <1>7

\* A step that touches only the frame, the ledger or the stream
LEMMA IdleTraffic ==
    ASSUME Flow, UNCHANGED <<mode, queue, current, pace, retry, orphans, timeout, acct,
                             kind, outcome>>,
           handler' \in {NoReq, handler},
           ledger'.fresh <= ledger.fresh,
           current # NoReq => ledger.fresh \in Nat /\ ledger'.fresh \in Nat /\ acct.attempts \in Nat
    PROVE  Flow' /\ Worked
<1>1. Timing'
  BY DEF Flow, Timing
<1>2. Orphaned'
  BY DEF Flow, Orphaned, Silent
<1>3. Spending'
  BY DEF Flow, Spending, Spent, Budget
<1> QED BY <1>1, <1>2, <1>3 DEF Flow, Worked

\* _onResponseMatched
LEMMA AnsweredFlow ==
    ASSUME IInv, Flow, kind' = kind, queue' = queue, handler # NoReq,
           NEW m, NEW own, NEW l \in LedgerType, current # NoReq => l.fresh <= acct.attempts,
           Answered(handler, m, own, l)
    PROVE  Flow' /\ Worked
<1> DEFINE r == handler
           a == [acct EXCEPT !.matched = @ + Counted(r)]
<1>1. r = current /\ r \in Req /\ current # NoReq
  BY ReqAssumption DEF IInv, Core, TypeCore, LedgerInv, Shape
<1>2. /\ kind \in [Req -> Kind] /\ acct \in AcctType
      /\ timeout \in BOOLEAN /\ retry \in BOOLEAN /\ acct.attempts \in Nat
      /\ acct.recoveries \in 0..1 /\ orphans = {} /\ ~Silent(r)
      /\ Spent(r, acct, ledger, 0)
  BY <1>1, CurrentFlow
<1>3. a.attempts = acct.attempts /\ a.recoveries = acct.recoveries /\ a \in AcctType
  <2>1. Counted(r) \in Nat /\ acct.matched + Counted(r) \in Nat
    BY <1>2 DEF Counted, AcctType
  <2> QED BY <1>2, <2>1 DEF AcctType
<1>4. \/ \E out \in {"failed", "null", "reply", "stale"} :
            Finish(r, a, l, out) /\ orphans' = orphans
      \/ /\ acct.attempts < kind[r].retries /\ Resend(r, a, l)
         /\ kind[r].delayed => handler' = NoReq
  BY DEF Answered
<1> HIDE DEF a, r
<1>5. ASSUME NEW out \in {"failed", "null", "reply", "stale"},
             Finish(r, a, l, out), orphans' = orphans
      PROVE  Flow' /\ Moved(r)
  BY <1>2, <1>5, FinishFlow DEF Line!Served
<1>6. ASSUME acct.attempts < kind[r].retries, Resend(r, a, l),
             kind[r].delayed => handler' = NoReq
      PROVE  Flow' /\ Moved(r)
  <2>1. /\ kind[r].retries \in Nat /\ kind[r].retries <= Budget(r) /\ Budget(r) \in Nat
        /\ (kind[r].cancellable => kind[r].retries <= 1)
    BY <1>1, <1>2, BudgetFacts
  <2>2. 1 <= acct.attempts /\ (kind[r].raw => acct.recoveries = 0)
    BY <1>2 DEF Spent
  <2>3. Spent(r, a, l, 1) /\ ~kind[r].cancellable
    BY <1>1, <1>2, <1>3, <1>6, <2>1, <2>2 DEF Spent
  <2> QED BY <1>1, <1>2, <1>3, <1>6, <2>3, ResendFlow
<1>7. Flow' /\ Moved(r)
  BY <1>4, <1>5, <1>6
<1> QED BY <1>1, <1>7 DEF Worked

\* _ResponseDemux.dispatch
LEMMA DispatchFlow ==
    ASSUME IInv, Flow, kind' = kind, NEW k \in Key, NEW m \in Replies(k), NEW own,
           NEW l \in LedgerType, l.fresh <= ledger.fresh, Dispatch(m, own, l)
    PROVE  Flow' /\ Worked
<1>1. l.fresh \in Nat /\ ledger.fresh \in Nat /\ acct.attempts \in Nat
  BY DEF LedgerType, AcctType, IInv, Core, TypeCore
<1>2. current # NoReq => ledger.fresh <= acct.attempts /\ l.fresh <= acct.attempts
  BY <1>1 DEF Flow, Spending, Spent
<1>3. ASSUME NEW n \in LedgerType, n.fresh = l.fresh, ledger' = n,
             UNCHANGED <<mode, queue, current, pace, retry, orphans, timeout, acct, outcome>>,
             handler' \in {NoReq, handler}
      PROVE  Flow' /\ Worked
  BY <1>1, <1>3, IdleTraffic
<1>4. CASE Ambiguous(m, l)
  <2>1. PICK n \in Settled(m, l, TRUE) : RejectCurrent(n)
    BY <1>4 DEF Dispatch
  <2>2. handler' = NoReq /\ orphans' = orphans
    BY <1>4 DEF Dispatch
  <2>3. n \in LedgerType /\ n.fresh = l.fresh
    <3>1. /\ n \in LedgerType /\ n.fresh = l.fresh /\ n.half = l.half /\ n.late = l.late
          /\ \A j \in TrackedKeys : Debt(n, j) = Debt(l, j) - (IF j = k THEN 1 ELSE 0)
          /\ k \in TrackedKeys => Debt(l, k) > 0
      BY <2>1, SettledFields
    <3> QED BY <3>1
  <2>4. CASE handler # NoReq
    <3>1. queue' = queue /\ Finish(current, acct, n, "ambiguous")
      BY <2>1, <2>4 DEF RejectCurrent
    <3>2. current # NoReq
      BY <2>4 DEF IInv, Core, LedgerInv, Shape
    <3>3. current \in Req /\ orphans = {}
      BY <2>4, <3>2, CurrentFlow
    <3> QED BY <2>2, <3>1, <3>3, FinishFlow DEF Worked, Line!Served
  <2>5. CASE handler = NoReq
    <3>1. /\ ledger' = n
          /\ UNCHANGED <<mode, queue, current, pace, retry, timeout, acct, outcome>>
      BY <2>1, <2>5 DEF RejectCurrent
    <3> QED BY <1>3, <2>2, <2>3, <3>1
  <2> QED BY <2>4, <2>5
<1>5. CASE ~Ambiguous(m, l) /\ Drains(m, l)
  <2>1. ledger' \in Settled(m, l, ~HandlerMatches(m)) /\ UNCHANGED <<machine, outcome>>
    BY <1>5 DEF Dispatch
  <2>2. ledger' \in LedgerType /\ ledger'.fresh = l.fresh
    BY <2>1, SettledFields
  <2> QED BY <1>3, <2>1, <2>2 DEF machine
<1>6. CASE ~Ambiguous(m, l) /\ ~Drains(m, l) /\ HandlerMatches(m)
  <2>1. queue' = queue /\ Answered(handler, m, own, l) /\ handler # NoReq
    BY <1>6 DEF Dispatch, HandlerMatches
  <2> QED BY <1>2, <2>1, AnsweredFlow
<1>7. CASE ~Ambiguous(m, l) /\ ~Drains(m, l) /\ ~HandlerMatches(m)
  <2>1. ledger' = l /\ UNCHANGED <<machine, outcome>>
    BY <1>7 DEF Dispatch
  <2> QED BY <1>3, <2>1 DEF machine
<1> QED BY <1>4, <1>5, <1>6, <1>7

\* _dispatchSysEx
LEMMA ReceiveFlow ==
    ASSUME IInv, Flow, kind' = kind, NEW k \in Key, NEW own,
           own => current # NoReq,
           NEW l \in LedgerType, l.fresh <= ledger.fresh, Receive(k, own, l)
    PROVE  Flow' /\ Worked
<1>1. CASE own /\ kind[current].raw
  <2>1. queue' = queue /\ orphans' = orphans /\ Finish(current, acct, l, "reply")
    BY <1>1 DEF Receive, PluginReply
  <2>2. current \in Req
    BY <1>1, CurrentFlow
  <2>3. orphans = {}
    BY <1>1 DEF Flow, Orphaned, Silent
  <2> QED BY <2>1, <2>2, <2>3, FinishFlow DEF Worked, Line!Served
<1>2. CASE ~(own /\ kind[current].raw)
  <2>1. PICK m \in Replies(k) : Dispatch(m, own, l)
    BY <1>2 DEF Receive
  <2> QED BY <2>1, DispatchFlow
<1> QED BY <1>1, <1>2

\* A message is delivered whole, begins or is lost.
LEMMA TrafficFlow ==
    ASSUME IInv, Flow, NEW k \in Key, NEW own \in BOOLEAN,
           Deliver(k, own) \/ FirstPart(k, own) \/ Lose(k, own)
    PROVE  Flow' /\ Worked /\ call' = call
<1> DEFINE n == Taken(k, own)
<1>1. /\ InTransit(k, own) /\ kind' = kind /\ call' = call
      /\ ledger.fresh \in Nat /\ acct.attempts \in Nat /\ (own => current # NoReq)
  BY DEF Deliver, FirstPart, Lose, InTransit, IInv, Core, TypeCore, LedgerType, AcctType
<1>2. n \in LedgerType /\ n.fresh = ledger.fresh - (IF own THEN 1 ELSE 0)
  BY <1>1, TakenFields
<1> HIDE DEF n
<1>3. n.fresh \in Nat /\ n.fresh <= ledger.fresh
  BY <1>1, <1>2 DEF LedgerType
<1>4. CASE Deliver(k, own)
  <2>1. Receive(k, own, Unframed(n))
    BY <1>4 DEF Deliver, n
  <2>2. Unframed(n) \in LedgerType /\ Unframed(n).fresh = n.fresh
    BY <1>2, UnframedFields
  <2> DEFINE l == Unframed(n)
  <2> HIDE DEF l
  <2>3. l \in LedgerType /\ l.fresh <= ledger.fresh /\ Receive(k, own, l)
    BY <1>3, <2>1, <2>2 DEF l
  <2> QED BY <1>1, <2>3, ReceiveFlow
<1>5. CASE FirstPart(k, own) \/ Lose(k, own)
  <2>1. UNCHANGED <<machine, kind, outcome>> /\ ledger' \in {n, [n EXCEPT !.half = own]}
    BY <1>5 DEF FirstPart, Lose, n
  <2>2. ledger'.fresh = n.fresh
    BY <1>2, <2>1 DEF LedgerType
  <2> QED BY <1>1, <1>3, <2>1, <2>2, IdleTraffic DEF machine
<1> QED BY <1>4, <1>5

\* The packet that ends a split frame
LEMMA LastPartFlow ==
    ASSUME IInv, Flow, LastPart
    PROVE  Flow' /\ Worked /\ call' = call
<1> DEFINE l == Unframed(ledger)
<1>1. /\ kind' = kind /\ call' = call /\ frame \in Key
      /\ Receive(frame, ledger.half, l) /\ ledger \in LedgerType
  BY DEF LastPart, IInv, TypeRest, Core, TypeCore
<1>2. l \in LedgerType /\ l.fresh = ledger.fresh /\ ledger.fresh \in Nat
  BY <1>1, UnframedFields DEF LedgerType
<1>3. ledger.half => current # NoReq
  BY DEF IInv, Core, LedgerInv, Shape
<1> HIDE DEF l
<1> QED BY <1>1, <1>2, <1>3, ReceiveFlow

\* _handleSubscriptionError: the transmission it adds is the recovery's.
LEMMA StreamErrorFlow ==
    ASSUME IInv, Flow, StreamError
    PROVE  Flow' /\ Worked /\ call' = call
<1> DEFINE a == [acct EXCEPT !.recoveries = @ + 1]
           l == Unframed(ledger)
<1>1. /\ kind' = kind /\ call' = call /\ queue' = queue /\ mode = "waiting"
      /\ ~kind[current].raw /\ acct.recoveries < 1 /\ Resend(current, a, l)
  BY DEF StreamError
<1>2. current # NoReq
  BY <1>1 DEF IInv, Core, Control
<1>3. /\ current \in Req /\ kind \in [Req -> Kind] /\ acct \in AcctType
      /\ timeout \in BOOLEAN /\ retry \in BOOLEAN /\ acct.attempts \in Nat
      /\ acct.recoveries \in 0..1 /\ ledger.fresh \in Nat
      /\ Spent(current, acct, ledger, 0) /\ ledger \in LedgerType
  BY <1>2, CurrentFlow
<1>4. a.attempts = acct.attempts /\ a.recoveries = acct.recoveries + 1 /\ a \in AcctType
  BY <1>1, <1>3 DEF AcctType
<1>5. l \in LedgerType /\ l.fresh = ledger.fresh
  BY <1>3, UnframedFields
<1>6. orphans = {} /\ retry = FALSE
  BY <1>1, <1>3 DEF Flow, Orphaned, Timing
<1>7. Budget(current) \in Nat
  BY <1>3, BudgetFacts
<1> HIDE DEF a, l
<1>8. Spent(current, a, l, 1)
  BY <1>1, <1>3, <1>4, <1>5, <1>7 DEF Spent
<1>9. Flow' /\ Moved(current)
  BY <1>1, <1>3, <1>4, <1>5, <1>6, <1>8, ResendFlow
<1> QED BY <1>1, <1>3, <1>9 DEF Worked

\* _onTimeout
LEMMA TimeoutFlow ==
    ASSUME IInv, Flow, Timeout
    PROVE  Flow' /\ Worked /\ call' = call
<1> DEFINE l == Unframed(ledger)
<1>1. /\ kind' = kind /\ call' = call /\ timeout
  BY DEF Timeout
<1>2. current # NoReq
  BY <1>1 DEF IInv, Core, Control
<1>3. /\ current \in Req /\ kind \in [Req -> Kind] /\ acct \in AcctType
      /\ timeout \in BOOLEAN /\ retry \in BOOLEAN /\ acct.attempts \in Nat
      /\ acct.recoveries \in 0..1 /\ ledger.fresh \in Nat
      /\ Spent(current, acct, ledger, 0) /\ ledger \in LedgerType
  BY <1>2, CurrentFlow
<1>4. l \in LedgerType /\ l.fresh = ledger.fresh
  BY <1>3, UnframedFields
<1>5. orphans = {} /\ retry = FALSE
  BY <1>1, <1>3 DEF Flow, Orphaned, Timing
<1>6. /\ kind[current].retries \in Nat /\ kind[current].retries <= Budget(current)
      /\ Budget(current) \in Nat
  BY <1>3, BudgetFacts
<1>7. CASE acct.attempts >= kind[current].retries
  <2>1. PICK out \in {"timedOut", "null"} :
          queue' = queue /\ orphans' = orphans /\ Finish(current, acct, l, out)
    BY <1>7 DEF Timeout
  <2> QED BY <1>1, <1>3, <1>5, <2>1, FinishFlow DEF Worked, Line!Served
<1>8. CASE ~(acct.attempts >= kind[current].retries)
  <2>1. queue' = queue /\ Resend(current, acct, l)
    BY <1>8 DEF Timeout
  <2> HIDE DEF l
  <2>2. Spent(current, acct, l, 1)
    BY <1>3, <1>4, <1>6, <1>8 DEF Spent
  <2>3. Flow' /\ Moved(current)
    BY <1>1, <1>3, <1>4, <1>5, <2>1, <2>2, ResendFlow
  <2> QED BY <1>1, <1>3, <2>1, <2>3 DEF Worked
<1> QED BY <1>7, <1>8

\* _sendCurrentRequest, called by a retry timer that may be an orphan
LEMMA RetryTimerFlow ==
    ASSUME IInv, Flow, RetryTimer \/ \E r \in Req : OrphanTimer(r)
    PROVE  Flow' /\ Worked /\ call' = call
<1>1. /\ kind' = kind /\ call' = call /\ queue' = queue
  BY DEF RetryTimer, OrphanTimer
<1>2. current # NoReq /\ mode = "sending" /\ orphans \subseteq {current}
  <2>1. CASE RetryTimer
    BY <2>1, ReqAssumption DEF RetryTimer, IInv, Core, Control, Flow, Timing, Orphaned
  <2>2. ASSUME NEW r \in Req, OrphanTimer(r)
        PROVE  current # NoReq /\ mode = "sending" /\ orphans \subseteq {current}
    BY <2>2, ReqAssumption DEF OrphanTimer, IInv, Core, Control, Flow, Orphaned
  <2> QED BY <2>1, <2>2
<1>3. orphans' = {} /\ Send(current, acct, ledger)
  <2>1. CASE RetryTimer
    BY <1>2, <2>1 DEF RetryTimer
  <2>2. ASSUME NEW r \in Req, OrphanTimer(r)
        PROVE  orphans' = {} /\ Send(current, acct, ledger)
    BY <1>2, <2>2 DEF OrphanTimer
  <2> QED BY <2>1, <2>2
<1>4. /\ current \in Req /\ kind \in [Req -> Kind] /\ acct \in AcctType
      /\ timeout \in BOOLEAN /\ ledger \in LedgerType
      /\ Spent(current, acct, ledger, 1)
  BY <1>2, CurrentFlow
<1>5. ~timeout
  BY <1>2, <1>4 DEF Flow, Timing
<1>6. Affordable(current, acct, ledger)
  BY <1>4 DEF Affordable, Spent
<1>7. Flow' /\ Moved(current)
  BY <1>1, <1>3, <1>4, <1>5, <1>6, SendFlow
<1> QED BY <1>1, <1>4, <1>7 DEF Worked

-----------------------------------------------------------------------------
(* The line of requests *)

\* A request taken from the head of the queue is still in the line.
LEMMA TakeHead ==
    ASSUME NEW q \in Seq(Req), q # <<>>, Distinct(NoReq, q)
    PROVE  /\ Head(q) \in Req /\ Tail(q) \in Seq(Req)
           /\ Distinct(Head(q), Tail(q))
           /\ \A r \in Req : Waits(r, Head(q), Tail(q)) <=> Waits(r, NoReq, q)
<1>1. /\ Head(q) \in Req /\ Tail(q) \in Seq(Req) /\ Len(Tail(q)) = Len(q) - 1
      /\ \A i \in 1..Len(Tail(q)) : Tail(q)[i] = q[i + 1]
      /\ Len(q) \in Nat /\ Len(q) # 0 /\ Head(q) = q[1]
      /\ DOMAIN q = 1..Len(q) /\ DOMAIN Tail(q) = 1..Len(Tail(q))
  <2>1. Len(q) \in Nat \ {0}
    BY EmptySeq
  <2> QED BY <2>1, HeadTailProperties, LenProperties
<1> DEFINE h == Head(q)
           t == Tail(q)
           n == Len(q)
<1>2. /\ n \in Nat /\ n >= 1 /\ h = q[1] /\ DOMAIN q = 1..n /\ DOMAIN t = 1..(n - 1)
      /\ \A i \in 1..(n - 1) : t[i] = q[i + 1]
  BY <1>1
<1> HIDE DEF h, t, n
<1>3. \A i \in 1..n : q[i] # NoReq /\ \A j \in 1..n : q[i] = q[j] => i = j
  BY <1>2 DEF Distinct
<1>4. Distinct(h, t)
  <2> SUFFICES ASSUME NEW i \in 1..(n - 1)
               PROVE  t[i] # h /\ \A j \in 1..(n - 1) : t[i] = t[j] => i = j
    BY <1>2 DEF Distinct
  <2>1. i + 1 \in 1..n /\ 1 \in 1..n /\ i + 1 # 1 /\ t[i] = q[i + 1]
    BY <1>2
  <2>2. t[i] # h
    BY <1>2, <1>3, <2>1
  <2>3. ASSUME NEW j \in 1..(n - 1), t[i] = t[j] PROVE i = j
    <3>1. j + 1 \in 1..n /\ t[j] = q[j + 1]
      BY <1>2
    <3>2. i + 1 = j + 1
      BY <1>3, <2>1, <2>3, <3>1
    <3> QED BY <3>2
  <2> QED BY <2>2, <2>3
<1>5. ASSUME NEW r \in Req PROVE Waits(r, h, t) <=> Waits(r, NoReq, q)
  <2>1. ASSUME Waits(r, h, t) PROVE Waits(r, NoReq, q)
    <3>1. CASE r = h
      BY <1>2, <3>1 DEF Waits
    <3>2. ASSUME NEW i \in 1..(n - 1), t[i] = r PROVE Waits(r, NoReq, q)
      <4>1. i + 1 \in 1..n /\ q[i + 1] = r
        BY <1>2, <3>2
      <4> QED BY <1>2, <4>1 DEF Waits
    <3> QED BY <1>2, <2>1, <3>1, <3>2 DEF Waits
  <2>2. ASSUME Waits(r, NoReq, q) PROVE Waits(r, h, t)
    <3>1. PICK i \in 1..n : q[i] = r
      BY <1>2, <2>2, ReqAssumption DEF Waits
    <3>2. CASE i = 1
      BY <1>2, <3>1, <3>2 DEF Waits
    <3>3. CASE i # 1
      <4>1. i - 1 \in 1..(n - 1) /\ t[i - 1] = q[(i - 1) + 1] /\ (i - 1) + 1 = i
        BY <1>2, <3>3
      <4> QED BY <1>2, <3>1, <4>1 DEF Waits
    <3> QED BY <3>2, <3>3
  <2> QED BY <2>1, <2>2
<1> QED BY <1>1, <1>4, <1>5 DEF h, t

\* The request a handler worked for keeps its place or leaves the line.
LEMMA MovedLined ==
    ASSUME outcome \in [Req -> Final \cup {"open"}],
           NEW c \in Req, NEW q \in Seq(Req), NEW cl, Registry(c, q, cl, outcome),
           Moved(c)
    PROVE  Registry(current', q, cl, outcome')
<1>1. CASE current' = c /\ outcome' = outcome
  BY <1>1
<1>2. CASE current' # c \/ outcome' # outcome
  <2>1. PICK out \in Line!Served : current' = NoReq /\ outcome' = [outcome EXCEPT ![c] = out]
    BY <1>2 DEF Moved
  <2>2. out # "open"
    BY DEF Line!Served
  <2>3. ASSUME NEW i \in DOMAIN q PROVE q[i] \in Req /\ q[i] # NoReq /\ q[i] # c
    <3>1. q[i] \in Req
      BY ElementOfSeq, LenProperties
    <3> QED BY <3>1, ReqAssumption DEF Registry, Distinct
  <2>4. Distinct(NoReq, q)
    BY <2>3 DEF Registry, Distinct
  <2>5. ASSUME NEW r \in Req
        PROVE  /\ cl[r] = "none" => outcome'[r] = "open"
               /\ Waits(r, NoReq, q) <=> cl[r] = "submitted" /\ outcome'[r] = "open"
    <3>1. CASE r = c
      <4>1. cl[c] = "submitted" /\ outcome'[c] = out
        BY <2>1 DEF Registry, Waits
      <4>2. ~Waits(c, NoReq, q)
        BY <2>3, ReqAssumption DEF Waits
      <4> QED BY <2>2, <3>1, <4>1, <4>2
    <3>2. CASE r # c
      BY <2>1, <3>2, ReqAssumption DEF Registry, Waits
    <3> QED BY <3>1, <3>2
  <2> QED BY <2>1, <2>4, <2>5 DEF Registry
<1> QED BY <1>1, <1>2

\* _processNext keeps the registry of the line it was given.
LEMMA TurnedLined ==
    ASSUME IInv, NEW q \in Seq(Req), NEW cl, Registry(current, q, cl, outcome), Turned(q)
    PROVE  Registry(current', queue', cl, outcome')
<1>1. outcome \in [Req -> Final \cup {"open"}]
  BY DEF IInv, Core, TypeCore
<1>2. CASE queue' = q /\ current' = current /\ outcome' = outcome
  BY <1>2
<1>3. CASE current = NoReq /\ q # <<>> /\ queue' = Tail(q) /\ Moved(Head(q))
  <2>1. /\ Head(q) \in Req /\ Tail(q) \in Seq(Req) /\ Distinct(Head(q), Tail(q))
        /\ \A r \in Req : Waits(r, Head(q), Tail(q)) <=> Waits(r, NoReq, q)
    BY <1>3, TakeHead DEF Registry
  <2>2. Registry(Head(q), Tail(q), cl, outcome)
    BY <1>3, <2>1 DEF Registry
  <2> QED BY <1>1, <1>3, <2>1, <2>2, MovedLined
<1> QED BY <1>2, <1>3 DEF Turned

\* A handler's work, seen from the line
LEMMA WorkedLined ==
    ASSUME IInv, Lined, Worked, call' = call
    PROVE  Lined'
<1>1. outcome \in [Req -> Final \cup {"open"}] /\ queue \in Seq(Req)
  BY DEF IInv, Core, TypeCore, TypeRest
<1>2. CASE current' = current /\ outcome' = outcome
  BY <1>2 DEF Lined, Worked, Registry, Distinct, Waits
<1>3. CASE current \in Req /\ Moved(current)
  <2>1. Registry(current', queue, call, outcome')
    BY <1>1, <1>3, MovedLined DEF Lined
  <2> QED BY <2>1 DEF Lined, Worked, Registry, Distinct, Waits
<1> QED BY <1>2, <1>3 DEF Worked

\* A request that is submitted joins the end of the line.
LEMMA EnterRegistry ==
    ASSUME IInv, Lined, NEW r \in Req, call[r] = "none"
    PROVE  /\ Append(queue, r) \in Seq(Req)
           /\ Registry(current, Append(queue, r), [call EXCEPT ![r] = "submitted"], outcome)
<1> DEFINE q == Append(queue, r)
           n == Len(queue)
           cl == [call EXCEPT ![r] = "submitted"]
<1>1. /\ queue \in Seq(Req) /\ call \in [Req -> {"none", "submitted", "cancelled"}]
      /\ n \in Nat /\ DOMAIN queue = 1..n
  BY LenProperties DEF IInv, TypeRest
<1>2. /\ q \in Seq(Req) /\ DOMAIN q = 1..(n + 1)
      /\ \A i \in 1..n : q[i] = queue[i]
      /\ q[n + 1] = r
  BY <1>1, AppendProperties, LenProperties
<1>3. ~Waits(r, current, queue) /\ outcome[r] = "open"
  BY DEF Lined, Registry
<1>4. \A i \in 1..n : queue[i] # current /\ \A j \in 1..n : queue[i] = queue[j] => i = j
  BY <1>1 DEF Lined, Registry, Distinct
<1>5. r # current /\ \A i \in 1..n : queue[i] # r
  BY <1>1, <1>3 DEF Waits
<1> HIDE DEF q, n
<1>6. Distinct(current, q)
  <2> SUFFICES ASSUME NEW i \in 1..(n + 1)
               PROVE  q[i] # current /\ \A j \in 1..(n + 1) : q[i] = q[j] => i = j
    BY <1>2 DEF Distinct
  <2>1. \A j \in 1..(n + 1) : j \in 1..n \/ j = n + 1
    BY <1>1
  <2> QED BY <1>2, <1>4, <1>5, <2>1
<1>7. ASSUME NEW s \in Req
      PROVE  /\ cl[s] = "none" => outcome[s] = "open"
             /\ Waits(s, current, q) <=> cl[s] = "submitted" /\ outcome[s] = "open"
  <2>1. CASE s = r
    <3>1. n + 1 \in 1..(n + 1)
      BY <1>1
    <3>2. Waits(r, current, q)
      BY <1>2, <3>1 DEF Waits
    <3> QED BY <1>1, <1>3, <2>1, <3>2
  <2>2. CASE s # r
    <3>1. Waits(s, current, q) <=> Waits(s, current, queue)
      <4>1. \A j \in 1..(n + 1) : j \in 1..n \/ j = n + 1
        BY <1>1
      <4>2. \A j \in 1..n : j \in 1..(n + 1)
        BY <1>1
      <4> QED BY <1>1, <1>2, <2>2, <4>1, <4>2 DEF Waits
    <3>2. cl[s] = call[s]
      BY <1>1, <2>2
    <3> QED BY <3>1, <3>2 DEF Lined, Registry
  <2> QED BY <2>1, <2>2
<1> QED BY <1>2, <1>6, <1>7 DEF Registry, q

\* A request given up before it was submitted never joins the line.
LEMMA RefuseRegistry ==
    ASSUME IInv, Lined, NEW r \in Req, call[r] = "none"
    PROVE  Registry(current, queue, [call EXCEPT ![r] = "cancelled"], outcome)
<1> DEFINE cl == [call EXCEPT ![r] = "cancelled"]
<1>1. call \in [Req -> {"none", "submitted", "cancelled"}]
  BY DEF IInv, TypeRest
<1>2. \A s \in Req : cl[s] = IF s = r THEN "cancelled" ELSE call[s]
  BY <1>1
<1> HIDE DEF cl
<1>3. Registry(current, queue, cl, outcome)
  BY <1>2 DEF Lined, Registry
<1> QED BY <1>3 DEF cl

\* What Without removes, and that the rest stays in order
LEMMA WithoutFacts ==
    ASSUME NEW q \in Seq(Req), NEW i \in 1..Len(q)
    PROVE  /\ Without(q, i) \in Seq(Req) /\ Len(Without(q, i)) = Len(q) - 1
           /\ DOMAIN Without(q, i) = 1..(Len(q) - 1)
           /\ \A j \in 1..(Len(q) - 1) : Without(q, i)[j] = IF j < i THEN q[j] ELSE q[j + 1]
<1>1. Len(q) \in Nat /\ \A j \in 1..Len(q) : q[j] \in Req
  BY LenProperties, ElementOfSeq
<1> DEFINE n == Len(q) - 1
           w == Without(q, i)
<1>2. n \in Nat /\ n + 1 = Len(q)
  BY <1>1
<1>3. ASSUME NEW j \in 1..n
      PROVE  /\ j \in 1..Len(q) /\ j + 1 \in 1..Len(q)
             /\ (IF j < i THEN q[j] ELSE q[j + 1]) \in Req
  BY <1>1, <1>2
<1>4. w = [j \in 1..n |-> IF j < i THEN q[j] ELSE q[j + 1]]
  BY DEF Without
<1> HIDE DEF w, n
<1>5. w \in [1..n -> Req]
  BY <1>3, <1>4
<1>6. w \in Seq(Req)
  BY <1>2, <1>5
<1>7. DOMAIN w = 1..n /\ Len(w) = n
  BY <1>2, <1>5, <1>6, LenProperties
<1>8. n = Len(q) - 1
  BY DEF n
<1> QED BY <1>4, <1>6, <1>7, <1>8 DEF w

-----------------------------------------------------------------------------
(* Callers *)

\* r leaves the line without being served.
Withdrawn(r) ==
    /\ call' = call /\ outcome' = [outcome EXCEPT ![r] = "cancelled"]
    /\ \/ current = r /\ current' = NoReq /\ queue' = queue
       \/ /\ \E i \in DOMAIN queue : queue[i] = r /\ queue' = Without(queue, i)
          /\ current' = current

\* _cancelRequest never meets a retry timer that was lost sight of.
LEMMA CancelFlow ==
    ASSUME IInv, Flow, NEW r \in Req, Cancel(r)
    PROVE  Flow' /\ Withdrawn(r)
<1>1. kind[r].cancellable /\ call' = call /\ kind' = kind /\ orphans' = orphans
  BY DEF Cancel
<1>2. CASE current = r /\ queue' = queue /\ Finish(r, acct, Unframed(ledger), "cancelled")
  <2>1. orphans' = {}
    BY <1>1, <1>2 DEF Flow, Orphaned
  <2>2. Flow' /\ current' = NoReq /\ outcome' = [outcome EXCEPT ![r] = "cancelled"]
    BY <1>2, <2>1, FinishFlow
  <2> QED BY <1>1, <1>2, <2>2 DEF Withdrawn
<1>3. CASE /\ \E i \in DOMAIN queue : queue[i] = r /\ queue' = Without(queue, i)
           /\ outcome' = [outcome EXCEPT ![r] = "cancelled"]
           /\ UNCHANGED <<mode, current, handler, pace, retry, timeout, acct, ledger>>
  <2>1. queue # <<>>
    BY <1>3 DEF IInv, TypeRest
  <2>2. Timing'
    BY <1>3, <2>1 DEF Flow, Timing
  <2>3. Orphaned'
    BY <1>1, <1>3 DEF Flow, Orphaned, Silent
  <2>4. Spending'
    BY <1>1, <1>3 DEF Flow, Spending, Spent, Budget
  <2> QED BY <1>1, <1>3, <2>2, <2>3, <2>4 DEF Flow, Withdrawn
<1> QED BY <1>2, <1>3 DEF Cancel

\* A request that is withdrawn leaves its place to the next one.
LEMMA WithdrawnLined ==
    ASSUME IInv, Lined, NEW r \in Req, Withdrawn(r)
    PROVE  Lined'
<1>1. /\ queue \in Seq(Req) /\ outcome \in [Req -> Final \cup {"open"}]
      /\ Len(queue) \in Nat /\ DOMAIN queue = 1..Len(queue)
  BY LenProperties DEF IInv, TypeRest, Core, TypeCore
<1>2. /\ call' = call /\ outcome' = [outcome EXCEPT ![r] = "cancelled"]
  BY DEF Withdrawn
<1>3. Distinct(current, queue) /\ \A s \in Req :
        /\ call[s] = "none" => outcome[s] = "open"
        /\ Waits(s, current, queue) <=> call[s] = "submitted" /\ outcome[s] = "open"
  BY DEF Lined, Registry
<1>4. ASSUME NEW c, NEW q, current' = c, queue' = q, Distinct(c, q),
             \A s \in Req : Waits(s, c, q) <=> s # r /\ Waits(s, current, queue),
             Waits(r, current, queue)
      PROVE  Lined'
  <2>1. ASSUME NEW s \in Req
        PROVE  /\ call'[s] = "none" => outcome'[s] = "open"
               /\ Waits(s, c, q) <=> call'[s] = "submitted" /\ outcome'[s] = "open"
    <3>1. CASE s = r
      BY <1>1, <1>2, <1>3, <1>4, <3>1
    <3>2. CASE s # r
      BY <1>1, <1>2, <1>3, <1>4, <3>2
    <3> QED BY <3>1, <3>2
  <2>2. Registry(c, q, call', outcome')
    BY <1>4, <2>1 DEF Registry
  <2> QED BY <1>4, <2>2 DEF Lined, Registry, Distinct, Waits
<1>5. CASE current = r /\ current' = NoReq /\ queue' = queue
  <2>1. ASSUME NEW i \in DOMAIN queue PROVE queue[i] \in Req /\ queue[i] # NoReq /\ queue[i] # r
    <3>1. queue[i] \in Req
      BY <1>1, ElementOfSeq
    <3> QED BY <1>3, <1>5, <3>1, ReqAssumption DEF Distinct
  <2>2. Distinct(NoReq, queue)
    BY <1>3, <2>1 DEF Distinct
  <2>3. \A s \in Req : Waits(s, NoReq, queue) <=> s # r /\ Waits(s, current, queue)
    BY <1>5, <2>1, ReqAssumption DEF Waits
  <2> QED BY <1>4, <1>5, <2>2, <2>3 DEF Waits
<1>6. ASSUME NEW i \in DOMAIN queue, queue[i] = r, queue' = Without(queue, i),
             current' = current
      PROVE  Lined'
  <2> DEFINE w == Without(queue, i)
             n == Len(queue) - 1
  <2>1. /\ i \in 1..(n + 1) /\ n \in Nat /\ DOMAIN queue = 1..(n + 1) /\ DOMAIN w = 1..n
        /\ \A j \in 1..n : w[j] = IF j < i THEN queue[j] ELSE queue[j + 1]
    <3>1. i \in 1..Len(queue)
      BY <1>1, <1>6
    <3>2. /\ DOMAIN w = 1..(Len(queue) - 1)
          /\ \A j \in 1..(Len(queue) - 1) : w[j] = IF j < i THEN queue[j] ELSE queue[j + 1]
      BY <1>1, <3>1, WithoutFacts
    <3>3. n \in Nat /\ n + 1 = Len(queue)
      BY <1>1, <3>1
    <3> QED BY <1>1, <3>1, <3>2, <3>3
  <2> HIDE DEF w, n
  <2>2. \A j \in 1..(n + 1) :
           queue[j] # current /\ \A k \in 1..(n + 1) : queue[j] = queue[k] => j = k
    BY <1>3, <2>1 DEF Distinct
  <2> DEFINE at(j) == IF j < i THEN j ELSE j + 1
  <2>3. ASSUME NEW j \in 1..n PROVE at(j) \in 1..(n + 1) /\ at(j) # i /\ w[j] = queue[at(j)]
    BY <2>1
  <2>4. ASSUME NEW j \in 1..n, NEW k \in 1..n, at(j) = at(k) PROVE j = k
    BY <2>1, <2>4
  <2>5. ASSUME NEW j \in 1..(n + 1), j # i PROVE \E k \in 1..n : at(k) = j
    <3>1. CASE j < i
      <4>1. j \in 1..n /\ at(j) = j
        BY <2>1, <2>5, <3>1
      <4> QED BY <4>1
    <3>2. CASE ~(j < i)
      <4>1. j - 1 \in 1..n /\ at(j - 1) = j
        BY <2>1, <2>5, <3>2
      <4> QED BY <4>1
    <3> QED BY <3>1, <3>2
  <2> HIDE DEF at
  <2>6. Distinct(current, w)
    <3>1. ASSUME NEW j \in 1..n, NEW k \in 1..n, w[j] = w[k] PROVE j = k
      <4>1. at(j) = at(k)
        BY <2>2, <2>3, <3>1
      <4> QED BY <2>4, <4>1
    <3>2. \A j \in 1..n : w[j] # current
      BY <2>2, <2>3
    <3> QED BY <2>1, <3>1, <3>2 DEF Distinct
  <2>7. r # current
    BY <1>6, <2>1, <2>2
  <2>8. ASSUME NEW s \in Req
        PROVE  Waits(s, current, w) <=> s # r /\ Waits(s, current, queue)
    <3>1. ASSUME NEW j \in 1..n, w[j] = s PROVE s # r /\ Waits(s, current, queue)
      <4>1. at(j) \in 1..(n + 1) /\ at(j) # i /\ queue[at(j)] = s
        BY <2>3, <3>1
      <4>2. s # r
        BY <1>6, <2>1, <2>2, <4>1
      <4> QED BY <2>1, <4>1, <4>2 DEF Waits
    <3>2. ASSUME NEW j \in 1..(n + 1), queue[j] = s, s # r PROVE Waits(s, current, w)
      <4>1. PICK k \in 1..n : at(k) = j
        BY <1>6, <2>5, <3>2
      <4> QED BY <2>1, <2>3, <3>2, <4>1 DEF Waits
    <3> QED BY <2>1, <2>7, <3>1, <3>2 DEF Waits
  <2>9. Waits(r, current, queue)
    BY <1>6 DEF Waits
  <2> QED BY <1>4, <1>6, <2>6, <2>8, <2>9 DEF w
<1> QED BY <1>5, <1>6 DEF Withdrawn

\* dispose empties the line and stops every timer.
LEMMA DisposeFlow ==
    ASSUME IInv, Flow, Lined, Dispose
    PROVE  Flow' /\ Lined'
<1>1. /\ mode' = "idle" /\ queue' = <<>> /\ current' = NoReq /\ timeout' = FALSE
      /\ retry' = FALSE /\ orphans' = {} /\ call' = call
      /\ outcome' = [r \in Req |-> IF r = current \/ InQueue(r) THEN "disposed" ELSE outcome[r]]
  BY DEF Dispose
<1>2. Flow'
  BY <1>1 DEF Flow, Timing, Orphaned, Spending
<1>3. Distinct(NoReq, <<>>) /\ \A r \in Req : ~Waits(r, NoReq, <<>>)
  BY ReqAssumption DEF Distinct, Waits
<1>4. ASSUME NEW r \in Req
      PROVE  /\ call'[r] = "none" => outcome'[r] = "open"
             /\ ~(call'[r] = "submitted" /\ outcome'[r] = "open")
  <2>1. /\ call[r] = "none" => outcome[r] = "open"
        /\ r = current \/ InQueue(r) <=> call[r] = "submitted" /\ outcome[r] = "open"
    BY DEF Lined, Registry, Waits, InQueue
  <2>2. outcome'[r] = IF r = current \/ InQueue(r) THEN "disposed" ELSE outcome[r]
    BY <1>1
  <2> QED BY <1>1, <2>1, <2>2
<1>5. Registry(NoReq, <<>>, call', outcome')
  BY <1>3, <1>4 DEF Registry
<1> QED BY <1>1, <1>2, <1>5 DEF Lined, Registry, Distinct, Waits

-----------------------------------------------------------------------------
(* The invariant *)

LineInv == IInv /\ Flow /\ Lined

\* The invariant holds when the scheduler is constructed.
LEMMA LineInvInit == Init => LineInv
<1> SUFFICES ASSUME Init PROVE Flow /\ Lined
  BY IInvInit DEF LineInv
<1>1. Flow
  BY DEF Init, Flow, Timing, Orphaned, Spending
<1>2. Lined
  BY ReqAssumption DEF Init, Lined, Registry, Distinct, Waits
<1> QED BY <1>1, <1>2

\* Every step that is no caller's is a handler's work or the pace timer's turn.
LEMMA FlowStep ==
    ASSUME IInv, Flow, [Next]_vars
    PROVE  \/ Flow' /\ Worked /\ call' = call
           \/ Flow' /\ Turned(queue) /\ call' = call
           \/ Dispose
           \/ \E r \in Req : Flow' /\ Withdrawn(r)
           \/ \E r \in Req : /\ Flow' /\ call[r] = "none" /\ Turned(Append(queue, r))
                             /\ call' = [call EXCEPT ![r] = "submitted"]
           \/ \E r \in Req : /\ Flow' /\ call[r] = "none" /\ Turned(queue)
                             /\ call' = [call EXCEPT ![r] = "cancelled"]
<1>1. queue \in Seq(Req)
  BY DEF IInv, TypeRest
<1>2. CASE PaceTimer
  BY <1>1, <1>2, ProcessNextFlow DEF PaceTimer
<1>3. ASSUME NEW r \in Req, Submit(r)
      PROVE  /\ Flow' /\ call[r] = "none" /\ Turned(Append(queue, r))
             /\ call' = [call EXCEPT ![r] = "submitted"]
  <2>1. Append(queue, r) \in Seq(Req)
    BY <1>1
  <2> QED BY <1>3, <2>1, ProcessNextFlow DEF Submit
<1>4. ASSUME NEW r \in Req, SubmitCancelled(r)
      PROVE  /\ Flow' /\ call[r] = "none" /\ Turned(queue)
             /\ call' = [call EXCEPT ![r] = "cancelled"]
  BY <1>1, <1>4, ProcessNextFlow DEF SubmitCancelled
<1>5. CASE Replace \/ StreamDone \/ UNCHANGED vars
  <2>1. UNCHANGED <<machine, ledger, kind, call, outcome>>
    BY <1>5 DEF Replace, StreamDone, vars
  <2>2. Timing'
    BY <2>1 DEF Flow, Timing, machine
  <2>3. Orphaned'
    BY <2>1 DEF Flow, Orphaned, Silent, machine
  <2>4. Spending'
    BY <2>1 DEF Flow, Spending, Spent, Budget, machine
  <2> QED BY <2>1, <2>2, <2>3, <2>4 DEF Flow, Worked, machine
<1>6. CASE RetryTimer \/ \E r \in Req : OrphanTimer(r)
  BY <1>6, RetryTimerFlow
<1>7. CASE Timeout
  BY <1>7, TimeoutFlow
<1>8. CASE \E r \in Req : Cancel(r)
  BY <1>8, CancelFlow
<1>9. CASE \E k \in Key, own \in BOOLEAN : Deliver(k, own) \/ FirstPart(k, own) \/ Lose(k, own)
  BY <1>9, TrafficFlow
<1>10. CASE LastPart
  BY <1>10, LastPartFlow
<1>11. CASE StreamError
  BY <1>11, StreamErrorFlow
<1> QED BY <1>2, <1>3, <1>4, <1>5, <1>6, <1>7, <1>8, <1>9, <1>10, <1>11
        DEF Next, Timers, Callers, Traffic

\* Every step keeps the invariant.
LEMMA LineInvStep == LineInv /\ [Next]_vars => LineInv'
<1> SUFFICES ASSUME LineInv, [Next]_vars PROVE Flow' /\ Lined'
  BY IInvStep DEF LineInv
<1>1. IInv /\ Flow /\ Lined /\ queue \in Seq(Req)
  BY DEF LineInv, IInv, TypeRest
<1>2. CASE Flow' /\ Worked /\ call' = call
  BY <1>1, <1>2, WorkedLined
<1>3. ASSUME NEW q \in Seq(Req), Turned(q), Registry(current, q, call', outcome)
      PROVE  Lined'
  <2>1. Registry(current', queue', call', outcome')
    BY <1>1, <1>3, TurnedLined
  <2> QED BY <2>1 DEF Lined, Registry, Distinct, Waits
<1>4. CASE Flow' /\ Turned(queue) /\ call' = call
  BY <1>1, <1>3, <1>4 DEF Lined
<1>5. CASE Dispose
  BY <1>1, <1>5, DisposeFlow
<1>6. ASSUME NEW r \in Req, Flow', Withdrawn(r)
      PROVE  Flow' /\ Lined'
  BY <1>1, <1>6, WithdrawnLined
<1>7. ASSUME NEW r \in Req, Flow', call[r] = "none", Turned(Append(queue, r)),
             call' = [call EXCEPT ![r] = "submitted"]
      PROVE  Flow' /\ Lined'
  BY <1>1, <1>3, <1>7, EnterRegistry
<1>8. ASSUME NEW r \in Req, Flow', call[r] = "none", Turned(queue),
             call' = [call EXCEPT ![r] = "cancelled"]
      PROVE  Flow' /\ Lined'
  BY <1>1, <1>3, <1>8, RefuseRegistry
<1> QED BY <1>1, <1>2, <1>4, <1>5, <1>6, <1>7, <1>8, FlowStep

\* The invariant holds always.
LEMMA LineInvHolds == Spec => []LineInv
BY LineInvInit, LineInvStep, PTL DEF Spec

(***************************************************************************)
(* No submitted request waits for a timer that is not armed, in any mode,  *)
(* and every one not completed is current or queued: nothing the callbacks *)
(* of the scheduler do, in any order, forgets a request.                   *)
(***************************************************************************)
THEOREM RequestsAreNeverStranded == Spec => []NeverStranded
<1>1. ASSUME LineInv PROVE NeverStranded
  <2>1. \A r \in Req : call[r] = "submitted" /\ outcome[r] = "open"
                         => r = current \/ InQueue(r)
    BY <1>1 DEF LineInv, Lined, Registry, Waits, InQueue
  <2> QED BY <1>1, <2>1 DEF LineInv, Flow, Timing, NeverStranded
<1> QED BY <1>1, LineInvHolds, PTL

(***************************************************************************)
(* No handler and no retry timer, not even one _retryTimer lost sight of,  *)
(* outlives the request it was set up for.                                 *)
(***************************************************************************)
THEOREM NothingIsLeftBehind == Spec => []NothingOutlivesItsRequest
<1>1. ASSUME LineInv PROVE NothingOutlivesItsRequest
  BY <1>1 DEF LineInv, IInv, Core, Control, LedgerInv, Shape, Flow, Orphaned,
     NothingOutlivesItsRequest
<1> QED BY <1>1, LineInvHolds, PTL

(***************************************************************************)
(* A request is transmitted at most as often as its caller allows, once    *)
(* more after a frame broken by a stream error, whatever retry budget,     *)
(* delay and order of timers; a plug-in write is transmitted once.         *)
(***************************************************************************)
THEOREM BudgetIsKept == Spec => []SendBudget
<1>1. ASSUME LineInv, current # NoReq
      PROVE  /\ acct.attempts <= acct.recoveries
                  + (IF kind[current].retries = 0 THEN 1 ELSE kind[current].retries)
             /\ kind[current].raw => acct.recoveries = 0
             /\ ledger.fresh <= acct.attempts
  <2>1. Spent(current, acct, ledger, 0) /\ acct.attempts \in Nat
    BY <1>1, CurrentFlow DEF LineInv
  <2> QED BY <2>1 DEF Spent, Budget
<1>2. LineInv => SendBudget
  BY <1>1 DEF SendBudget
<1> QED BY <1>2, LineInvHolds, PTL

-----------------------------------------------------------------------------
(* The scheduler implements the line *)

\* The current request is the head of the line that callers see.
FullLine(c, q) == IF c = NoReq THEN q ELSE <<c>> \o q

\* The line with a current request in front
LEMMA FullLineFacts ==
    ASSUME NEW c \in Req, NEW q \in Seq(Req)
    PROVE  /\ FullLine(c, q) \in Seq(Req) /\ FullLine(c, q) # <<>>
           /\ Len(FullLine(c, q)) = Len(q) + 1
           /\ FullLine(c, q)[1] = c
           /\ \A i \in 1..Len(q) : FullLine(c, q)[i + 1] = q[i]
           /\ Head(FullLine(c, q)) = c /\ Tail(FullLine(c, q)) = q
<1> DEFINE s == <<c>> \o q
<1>1. FullLine(c, q) = s
  BY ReqAssumption DEF FullLine
<1>2. <<c>> \in Seq(Req) /\ Len(<<c>>) = 1 /\ <<c>>[1] = c /\ Len(q) \in Nat
  BY LenProperties
<1>3. /\ s \in Seq(Req) /\ Len(s) = 1 + Len(q)
      /\ \A i \in 1..(1 + Len(q)) : s[i] = IF i <= 1 THEN <<c>>[i] ELSE q[i - 1]
  BY <1>2, ConcatProperties
<1> HIDE DEF s
<1>4. s[1] = c
  <2>1. 1 \in 1..(1 + Len(q))
    BY <1>2
  <2> QED BY <1>2, <1>3, <2>1
<1>5. ASSUME NEW i \in 1..Len(q) PROVE s[i + 1] = q[i]
  <2>1. i + 1 \in 1..(1 + Len(q)) /\ ~(i + 1 <= 1) /\ (i + 1) - 1 = i
    BY <1>2
  <2> QED BY <1>3, <2>1
<1>6. s # <<>>
  BY <1>2, <1>3
<1>7. Head(s) = c
  BY <1>3, <1>4, <1>6
<1>8. Tail(s) = q
  <2>1. /\ Tail(s) \in Seq(Req) /\ Len(Tail(s)) = Len(s) - 1
        /\ \A i \in 1..Len(Tail(s)) : Tail(s)[i] = s[i + 1]
    BY <1>3, <1>6, HeadTailProperties
  <2>2. Len(Tail(s)) = Len(q)
    BY <1>2, <1>3, <2>1
  <2> QED BY <1>5, <2>1, <2>2, SeqEqual
<1> QED BY <1>1, <1>2, <1>3, <1>4, <1>5, <1>6, <1>7, <1>8

\* The head of the queue is the head of the line when it becomes current.
LEMMA HeadFirst ==
    ASSUME NEW q \in Seq(Req), q # <<>>
    PROVE  FullLine(Head(q), Tail(q)) = q
<1>1. /\ Head(q) \in Req /\ Tail(q) \in Seq(Req) /\ Len(Tail(q)) = Len(q) - 1
      /\ \A i \in 1..Len(Tail(q)) : Tail(q)[i] = q[i + 1]
  BY HeadTailProperties
<1>2. Len(q) \in Nat \ {0} /\ Head(q) = q[1]
  BY EmptySeq
<1> DEFINE s == FullLine(Head(q), Tail(q))
<1>3. /\ s \in Seq(Req) /\ Len(s) = Len(Tail(q)) + 1 /\ s[1] = Head(q)
      /\ \A i \in 1..Len(Tail(q)) : s[i + 1] = Tail(q)[i]
  BY <1>1, FullLineFacts
<1> HIDE DEF s
<1>4. Len(s) = Len(q)
  BY <1>1, <1>2, <1>3
<1>5. ASSUME NEW i \in 1..Len(s) PROVE s[i] = q[i]
  <2>1. CASE i = 1
    BY <1>2, <1>3, <2>1
  <2>2. CASE i # 1
    <3>1. i - 1 \in 1..Len(Tail(q)) /\ (i - 1) + 1 = i
      BY <1>1, <1>2, <1>4, <2>2
    <3>2. s[(i - 1) + 1] = Tail(q)[i - 1] /\ Tail(q)[i - 1] = q[(i - 1) + 1]
      BY <1>1, <1>3, <3>1
    <3> QED BY <3>1, <3>2
  <2> QED BY <2>1, <2>2
<1>6. s = q
  BY <1>3, <1>4, <1>5, SeqEqual
<1> QED BY <1>6 DEF s

\* Joining the queue is joining the line.
LEMMA AppendToLine ==
    ASSUME NEW c \in Req \cup {NoReq}, NEW q \in Seq(Req), NEW r \in Req
    PROVE  FullLine(c, Append(q, r)) = Append(FullLine(c, q), r)
<1>1. CASE c = NoReq
  BY <1>1 DEF FullLine
<1>2. CASE c # NoReq
  <2>1. c \in Req /\ <<c>> \in Seq(Req) /\ <<r>> \in Seq(Req) /\ <<c>> \o q \in Seq(Req)
    BY <1>2, ConcatProperties
  <2>2. Append(q, r) = q \o <<r>> /\ Append(<<c>> \o q, r) = (<<c>> \o q) \o <<r>>
    BY <2>1, AppendIsConcat
  <2>3. (<<c>> \o q) \o <<r>> = <<c>> \o (q \o <<r>>)
    BY <2>1, ConcatAssociative
  <2> QED BY <1>2, <2>2, <2>3 DEF FullLine
<1> QED BY <1>1, <1>2

\* Without is what RequestLine writes with two subsequences.
LEMMA WithoutIsConcat ==
    ASSUME NEW q \in Seq(Req), NEW i \in 1..Len(q)
    PROVE  Without(q, i) = SubSeq(q, 1, i - 1) \o SubSeq(q, i + 1, Len(q))
<1> DEFINE s == SubSeq(q, 1, i - 1)
           t == SubSeq(q, i + 1, Len(q))
           w == Without(q, i)
           n == Len(q)
<1>1. n \in Nat /\ i \in 1..n /\ \A j \in 1..n : q[j] \in Req
  BY LenProperties, ElementOfSeq
<1>2. /\ w \in Seq(Req) /\ Len(w) = n - 1
      /\ \A j \in 1..(n - 1) : w[j] = IF j < i THEN q[j] ELSE q[j + 1]
  BY WithoutFacts
<1>3. /\ s \in Seq(Req) /\ Len(s) = i - 1 /\ \A j \in 1..(i - 1) : s[j] = q[j]
  <2>1. 1 \in Int /\ i - 1 \in Int /\ \A j \in 1..(i - 1) : q[j] \in Req
    BY <1>1
  <2>2. /\ s \in Seq(Req) /\ Len(s) = (IF 1 <= i - 1 THEN (i - 1) - 1 + 1 ELSE 0)
        /\ \A j \in 1..((i - 1) - 1 + 1) : s[j] = q[1 + j - 1]
    BY <2>1, SubSeqProperties
  <2> HIDE DEF s
  <2> QED BY <1>1, <2>2
<1>4. /\ t \in Seq(Req) /\ Len(t) = n - i /\ \A j \in 1..(n - i) : t[j] = q[i + j]
  <2>1. i + 1 \in Int /\ n \in Int /\ \A j \in (i + 1)..n : q[j] \in Req
    BY <1>1
  <2>2. /\ t \in Seq(Req) /\ Len(t) = (IF i + 1 <= n THEN n - (i + 1) + 1 ELSE 0)
        /\ \A j \in 1..(n - (i + 1) + 1) : t[j] = q[(i + 1) + j - 1]
    BY <2>1, SubSeqProperties
  <2> HIDE DEF t, n
  <2>3. ASSUME NEW j \in 1..(n - i) PROVE t[j] = q[i + j]
    <3>1. j \in 1..(n - (i + 1) + 1) /\ (i + 1) + j - 1 = i + j
      BY <1>1
    <3> QED BY <2>2, <3>1
  <2> QED BY <1>1, <2>2, <2>3
<1> HIDE DEF s, t, w, n
<1>5. /\ s \o t \in Seq(Req) /\ Len(s \o t) = Len(s) + Len(t)
      /\ \A j \in 1..(Len(s) + Len(t)) : (s \o t)[j] = IF j <= Len(s) THEN s[j] ELSE t[j - Len(s)]
  BY <1>3, <1>4, ConcatProperties
<1>6. Len(w) = Len(s \o t)
  BY <1>1, <1>2, <1>3, <1>4, <1>5
<1>7. ASSUME NEW j \in 1..Len(w) PROVE w[j] = (s \o t)[j]
  <2>1. j \in 1..(n - 1) /\ j \in 1..(Len(s) + Len(t)) /\ j \in Nat
    BY <1>1, <1>2, <1>5, <1>6
  <2>2. CASE j < i
    <3>1. j \in 1..(i - 1) /\ j <= Len(s)
      BY <1>1, <1>3, <2>1, <2>2
    <3> QED BY <1>2, <1>3, <1>5, <2>1, <2>2, <3>1
  <2>3. CASE ~(j < i)
    <3>1. j - (i - 1) \in 1..(n - i) /\ i + (j - (i - 1)) = j + 1 /\ ~(j <= Len(s))
      BY <1>1, <1>3, <2>1, <2>3
    <3>2. (s \o t)[j] = t[j - (i - 1)]
      BY <1>3, <1>5, <2>1, <3>1
    <3>3. t[j - (i - 1)] = q[i + (j - (i - 1))]
      BY <1>4, <3>1
    <3> QED BY <1>2, <2>1, <2>3, <3>1, <3>2, <3>3
  <2> QED BY <2>2, <2>3
<1>8. w = s \o t
  BY <1>2, <1>5, <1>6, <1>7, SeqEqual
<1> QED BY <1>8 DEF w, s, t, n

\* Leaving the queue is leaving the line, one place further back.
LEMMA WithoutInLine ==
    ASSUME NEW c \in Req, NEW q \in Seq(Req)
    PROVE  /\ Without(FullLine(c, q), 1) = q
           /\ \A i \in 1..Len(q) : Without(FullLine(c, q), i + 1) = FullLine(c, Without(q, i))
<1> DEFINE s == FullLine(c, q)
           n == Len(q)
<1>1. /\ s \in Seq(Req) /\ Len(s) = n + 1 /\ s[1] = c
      /\ \A i \in 1..n : s[i + 1] = q[i]
      /\ n \in Nat
  BY FullLineFacts, LenProperties
<1>2. Without(s, 1) = q
  <2> DEFINE w == Without(s, 1)
  <2>1. 1 \in 1..Len(s)
    BY <1>1
  <2>2. /\ w \in Seq(Req) /\ Len(w) = Len(s) - 1
        /\ \A j \in 1..(Len(s) - 1) : w[j] = IF j < 1 THEN s[j] ELSE s[j + 1]
    BY <1>1, <2>1, WithoutFacts
  <2> HIDE DEF w, s
  <2>3. Len(w) = n
    BY <1>1, <2>2
  <2>4. ASSUME NEW j \in 1..n PROVE w[j] = q[j]
    <3>1. j \in 1..(Len(s) - 1) /\ ~(j < 1)
      BY <1>1
    <3> QED BY <1>1, <2>2, <3>1
  <2>5. w = q
    BY <2>2, <2>3, <2>4, SeqEqual DEF n
  <2> QED BY <2>5 DEF w
<1>3. ASSUME NEW i \in 1..n PROVE Without(s, i + 1) = FullLine(c, Without(q, i))
  <2> DEFINE w == Without(s, i + 1)
             v == Without(q, i)
             f == FullLine(c, v)
  <2>1. i + 1 \in 1..Len(s) /\ i \in 1..Len(q)
    BY <1>1
  <2>2. /\ w \in Seq(Req) /\ Len(w) = Len(s) - 1
        /\ \A j \in 1..(Len(s) - 1) : w[j] = IF j < i + 1 THEN s[j] ELSE s[j + 1]
    BY <1>1, <2>1, WithoutFacts
  <2>3. /\ v \in Seq(Req) /\ Len(v) = n - 1
        /\ \A j \in 1..(n - 1) : v[j] = IF j < i THEN q[j] ELSE q[j + 1]
    BY <2>1, WithoutFacts
  <2>4. /\ f \in Seq(Req) /\ Len(f) = Len(v) + 1 /\ f[1] = c
        /\ \A j \in 1..Len(v) : f[j + 1] = v[j]
    BY <2>3, FullLineFacts
  <2> HIDE DEF w, v, f, s, n
  <2>5. Len(w) = n /\ Len(f) = n
    BY <1>1, <2>2, <2>3, <2>4
  <2>6. ASSUME NEW j \in 1..n PROVE w[j] = f[j]
    <3>1. w[j] = IF j < i + 1 THEN s[j] ELSE s[j + 1]
      BY <1>1, <2>2
    <3>2. CASE j = 1
      BY <1>1, <2>4, <3>1, <3>2
    <3>3. CASE j # 1
      <4> DEFINE k == j - 1
      <4>1. k \in 1..(n - 1) /\ k \in 1..n /\ k + 1 \in 1..n /\ j = k + 1
        BY <1>1, <3>3
      <4> HIDE DEF k
      <4>2. f[j] = IF k < i THEN q[k] ELSE q[k + 1]
        BY <1>1, <2>3, <2>4, <4>1
      <4>3. s[j] = q[k] /\ s[j + 1] = q[k + 1]
        BY <1>1, <4>1
      <4>4. j < i + 1 <=> k < i
        BY <1>1, <4>1
      <4> QED BY <3>1, <4>2, <4>3, <4>4
    <3> QED BY <3>2, <3>3
  <2>7. w = f
    BY <2>2, <2>4, <2>5, <2>6, SeqEqual
  <2> QED BY <2>7 DEF w, f, v
<1> QED BY <1>2, <1>3 DEF s, n

\* What a handler does to the head of the line is what RequestLine allows.
LEMMA MovedAdvances ==
    ASSUME NEW c \in Req, NEW q \in Seq(Req), queue' = q, Moved(c)
    PROVE  Line!Advance(FullLine(c, q))
<1>1. FullLine(c, q) # <<>> /\ Head(FullLine(c, q)) = c /\ Tail(FullLine(c, q)) = q
  BY FullLineFacts
<1>2. CASE current' = c /\ outcome' = outcome
  BY <1>2, ReqAssumption DEF Line!Advance, FullLine
<1>3. ASSUME NEW out \in Line!Served, current' = NoReq,
             outcome' = [outcome EXCEPT ![c] = out]
      PROVE  Line!Advance(FullLine(c, q))
  BY <1>1, <1>3 DEF Line!Advance
<1> QED BY <1>2, <1>3 DEF Moved

\* _processNext takes the head of the line or leaves the line as it was.
LEMMA TurnedAdvances ==
    ASSUME NEW q \in Seq(Req), Turned(q)
    PROVE  Line!Advance(FullLine(current, q))
<1>1. CASE queue' = q /\ current' = current /\ outcome' = outcome
  BY <1>1 DEF Line!Advance, FullLine
<1>2. CASE current = NoReq /\ q # <<>> /\ queue' = Tail(q) /\ Moved(Head(q))
  <2>1. Head(q) \in Req /\ Tail(q) \in Seq(Req)
    BY <1>2, HeadTailProperties
  <2>2. Line!Advance(FullLine(Head(q), Tail(q)))
    BY <1>2, <2>1, MovedAdvances
  <2>3. FullLine(Head(q), Tail(q)) = FullLine(current, q)
    BY <1>2, HeadFirst DEF FullLine
  <2> QED BY <2>2, <2>3
<1> QED BY <1>1, <1>2 DEF Turned

\* Membership in the line, for Close
LEMMA InFullLine ==
    ASSUME NEW c \in Req \cup {NoReq}, NEW q \in Seq(Req), NEW r \in Req
    PROVE  (\E i \in DOMAIN FullLine(c, q) : FullLine(c, q)[i] = r)
             <=> r = c \/ \E i \in DOMAIN q : q[i] = r
<1>1. CASE c = NoReq
  BY <1>1, ReqAssumption DEF FullLine
<1>2. CASE c # NoReq
  <2> DEFINE s == FullLine(c, q)
             n == Len(q)
  <2>1. /\ DOMAIN s = 1..(n + 1) /\ DOMAIN q = 1..n /\ n \in Nat
        /\ s[1] = c /\ \A i \in 1..n : s[i + 1] = q[i]
    <3>1. /\ s \in Seq(Req) /\ Len(s) = n + 1 /\ s[1] = c
          /\ \A i \in 1..n : s[i + 1] = q[i]
      BY <1>2, FullLineFacts
    <3> QED BY <3>1, LenProperties
  <2> HIDE DEF s, n
  <2>2. ASSUME NEW i \in 1..(n + 1), s[i] = r
        PROVE  r = c \/ \E j \in 1..n : q[j] = r
    <3>1. CASE i = 1
      BY <2>1, <2>2, <3>1
    <3>2. CASE i # 1
      <4>1. i - 1 \in 1..n /\ s[(i - 1) + 1] = q[i - 1] /\ (i - 1) + 1 = i
        BY <2>1, <3>2
      <4> QED BY <2>2, <4>1
    <3> QED BY <3>1, <3>2
  <2>3. ASSUME r = c PROVE \E i \in 1..(n + 1) : s[i] = r
    <3>1. 1 \in 1..(n + 1)
      BY <2>1
    <3> QED BY <2>1, <2>3, <3>1
  <2>4. ASSUME NEW j \in 1..n, q[j] = r PROVE \E i \in 1..(n + 1) : s[i] = r
    <3>1. j + 1 \in 1..(n + 1) /\ s[j + 1] = r
      BY <2>1, <2>4
    <3> QED BY <3>1
  <2>5. (\E i \in DOMAIN s : s[i] = r) <=> r = c \/ \E i \in DOMAIN q : q[i] = r
    BY <2>1, <2>2, <2>3, <2>4
  <2> QED BY <2>5 DEF s
<1> QED BY <1>1, <1>2

Called == {r \in Req : call[r] # "none"}

\* A call of sendRequest is recorded once.
LEMMA CalledGrows ==
    ASSUME IInv, NEW r \in Req, call[r] = "none", NEW v \in {"submitted", "cancelled"},
           call' = [call EXCEPT ![r] = v]
    PROVE  r \notin Called /\ Called' = Called \cup {r}
<1>1. call \in [Req -> {"none", "submitted", "cancelled"}]
  BY DEF IInv, TypeRest
<1>2. \A s \in Req : call'[s] = IF s = r THEN v ELSE call[s]
  BY <1>1
<1>3. v # "none"
  OBVIOUS
<1> QED BY <1>2, <1>3 DEF Called

\* _cancelRequest withdraws from the line.
LEMMA WithdrawnFromLine ==
    ASSUME IInv, NEW r \in Req, Withdrawn(r)
    PROVE  Line!Withdraw(r)
<1> DEFINE s == FullLine(current, queue)
<1>1. /\ queue \in Seq(Req) /\ current \in Req \cup {NoReq}
      /\ Len(queue) \in Nat /\ DOMAIN queue = 1..Len(queue)
  BY LenProperties DEF IInv, TypeRest, Core, TypeCore
<1>2. outcome' = [outcome EXCEPT ![r] = "cancelled"] /\ Called' = Called
  BY DEF Withdrawn, Called
<1>3. \E i \in 1..Len(s) : s[i] = r /\ FullLine(current', queue') = Without(s, i)
  <2>1. CASE current = r /\ current' = NoReq /\ queue' = queue
    <3>1. Without(s, 1) = queue /\ s[1] = r /\ Len(s) = Len(queue) + 1
      BY <1>1, <2>1, FullLineFacts, WithoutInLine
    <3>2. FullLine(current', queue') = queue
      BY <2>1 DEF FullLine
    <3>3. 1 \in 1..Len(s)
      BY <1>1, <3>1
    <3> HIDE DEF s
    <3> QED BY <3>1, <3>2, <3>3
  <2>2. ASSUME NEW i \in 1..Len(queue), queue[i] = r, queue' = Without(queue, i),
               current' = current
        PROVE  \E j \in 1..Len(s) : s[j] = r /\ FullLine(current', queue') = Without(s, j)
    <3>1. CASE current = NoReq
      <4>1. s = queue /\ FullLine(current', queue') = Without(queue, i)
        BY <2>2, <3>1 DEF FullLine
      <4> HIDE DEF s
      <4> QED BY <2>2, <4>1
    <3>2. CASE current # NoReq
      <4>1. /\ s[i + 1] = r /\ Len(s) = Len(queue) + 1
            /\ Without(s, i + 1) = FullLine(current, Without(queue, i))
        <5>1. current \in Req
          BY <1>1, <3>2
        <5>2. Len(s) = Len(queue) + 1 /\ \A j \in 1..Len(queue) : s[j + 1] = queue[j]
          BY <1>1, <5>1, FullLineFacts
        <5>3. \A j \in 1..Len(queue) :
                 Without(s, j + 1) = FullLine(current, Without(queue, j))
          BY <1>1, <5>1, WithoutInLine
        <5> HIDE DEF s
        <5> QED BY <2>2, <5>2, <5>3
      <4>2. i + 1 \in 1..Len(s)
        BY <1>1, <2>2, <4>1
      <4>3. FullLine(current', queue') = Without(s, i + 1)
        BY <2>2, <4>1
      <4> HIDE DEF s
      <4> QED BY <4>1, <4>2, <4>3
    <3> QED BY <3>1, <3>2
  <2> QED BY <1>1, <2>1, <2>2 DEF Withdrawn
<1>4. PICK i \in 1..Len(s) : s[i] = r /\ FullLine(current', queue') = Without(s, i)
  BY <1>3
<1>5. s \in Seq(Req)
  BY <1>1, FullLineFacts DEF FullLine
<1> HIDE DEF s
<1>6. /\ i \in DOMAIN s
      /\ FullLine(current', queue') = SubSeq(s, 1, i - 1) \o SubSeq(s, i + 1, Len(s))
  BY <1>4, <1>5, WithoutIsConcat, LenProperties
<1>7. \E j \in DOMAIN s : /\ s[j] = r
         /\ FullLine(current', queue') = SubSeq(s, 1, j - 1) \o SubSeq(s, j + 1, Len(s))
  BY <1>4, <1>6
<1> QED BY <1>2, <1>7 DEF s, Line!Withdraw, FullLine, Called

\* dispose closes the line.
LEMMA DisposeCloses ==
    ASSUME IInv, Dispose
    PROVE  Line!Close
<1>1. /\ queue' = <<>> /\ current' = NoReq /\ call' = call
      /\ outcome' = [r \in Req |-> IF r = current \/ InQueue(r) THEN "disposed" ELSE outcome[r]]
      /\ queue \in Seq(Req) /\ current \in Req \cup {NoReq}
  BY DEF Dispose, IInv, TypeRest, Core, TypeCore
<1> DEFINE s == FullLine(current, queue)
<1>2. \A r \in Req : (\E i \in DOMAIN s : s[i] = r) <=> r = current \/ InQueue(r)
  BY <1>1, InFullLine DEF InQueue
<1> HIDE DEF s
<1>3. outcome' = [r \in Req |-> IF \E i \in DOMAIN s : s[i] = r
                                THEN "disposed" ELSE outcome[r]]
  BY <1>1, <1>2
<1>4. /\ (IF current = NoReq THEN queue ELSE <<current>> \o queue)' = <<>>
      /\ UNCHANGED {r \in Req : call[r] # "none"}
  BY <1>1
<1> QED BY <1>3, <1>4, Zenon DEF s, FullLine, Line!Close

\* Every step of the scheduler is a step of the line, or none.
LEMMA LineStep == LineInv /\ [Next]_vars => [Line!Next]_Line!vars
<1> SUFFICES ASSUME LineInv, [Next]_vars PROVE Line!Next \/ UNCHANGED Line!vars
  OBVIOUS
<1> DEFINE s == FullLine(current, queue)
<1>1. IInv /\ Flow /\ queue \in Seq(Req) /\ current \in Req \cup {NoReq}
  BY DEF LineInv, IInv, TypeRest, Core, TypeCore
<1>2. s = IF current = NoReq THEN queue ELSE <<current>> \o queue
  BY DEF FullLine
<1>3. CASE current' = current /\ queue' = queue /\ outcome' = outcome /\ call' = call
  BY <1>3 DEF Line!vars
<1>4. ASSUME s # <<>>, Line!Advance(s), call' = call
      PROVE  Line!Next
  BY <1>2, <1>4 DEF Line!Next, Line!Serve
<1>5. CASE Worked /\ call' = call
  <2>1. CASE current \in Req /\ Moved(current)
    <3>1. s # <<>> /\ Line!Advance(s)
      BY <1>1, <1>5, <2>1, FullLineFacts, MovedAdvances DEF Worked
    <3> QED BY <1>4, <1>5, <3>1
  <2> QED BY <1>3, <1>5, <2>1 DEF Worked
<1>6. CASE Turned(queue) /\ call' = call
  <2>1. Line!Advance(s)
    BY <1>1, <1>6, TurnedAdvances
  <2>2. CASE current = NoReq /\ queue # <<>>
    <3>1. s # <<>>
      BY <2>2 DEF FullLine
    <3> QED BY <1>4, <1>6, <2>1, <3>1
  <2>3. CASE ~(current = NoReq /\ queue # <<>>)
    BY <1>3, <1>6, <2>3 DEF Turned
  <2> QED BY <2>2, <2>3
<1>7. CASE Dispose
  BY <1>1, <1>7, DisposeCloses DEF Line!Next
<1>8. ASSUME NEW r \in Req, Withdrawn(r) PROVE Line!Next
  BY <1>1, <1>8, WithdrawnFromLine DEF Line!Next
<1>9. ASSUME NEW r \in Req, call[r] = "none", Turned(Append(queue, r)),
             call' = [call EXCEPT ![r] = "submitted"]
      PROVE  Line!Next
  <2>1. Append(queue, r) \in Seq(Req)
    BY <1>1
  <2>2. Line!Advance(Append(s, r))
    BY <1>1, <1>9, <2>1, TurnedAdvances, AppendToLine
  <2>3. r \notin Called /\ Called' = Called \cup {r}
    BY <1>1, <1>9, CalledGrows
  <2>4. Line!Enter(r)
    BY <1>2, <2>2, <2>3 DEF Line!Enter, Called
  <2> QED BY <2>4 DEF Line!Next
<1>10. ASSUME NEW r \in Req, call[r] = "none", Turned(queue),
              call' = [call EXCEPT ![r] = "cancelled"]
       PROVE  Line!Next
  <2>1. Line!Advance(s)
    BY <1>1, <1>10, TurnedAdvances
  <2>2. r \notin Called /\ Called' = Called \cup {r}
    BY <1>1, <1>10, CalledGrows
  <2>3. Line!Refuse(r)
    BY <1>2, <2>1, <2>2 DEF Line!Refuse, Called
  <2> QED BY <2>3 DEF Line!Next
<1> QED BY <1>1, <1>5, <1>6, <1>7, <1>8, <1>9, <1>10, FlowStep

(***************************************************************************)
(* Callers see a first-in first-out line: whatever timers, retries, lost   *)
(* and late replies do, only the head of the line is served, every request *)
(* leaves it exactly when its completer is completed, and none is          *)
(* completed twice.  Every step of the scheduler is one of RequestLine or  *)
(* changes nothing callers see.                                            *)
(***************************************************************************)
THEOREM LineIsImplemented == Spec => ImplementsLine
<1>1. Init => Line!Init
  BY DEF Init, Line!Init
<1> QED BY <1>1, LineStep, LineInvHolds, PTL DEF Spec, ImplementsLine, Line!Spec
=============================================================================
